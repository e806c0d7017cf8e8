---------------------------- MODULE FillPipeline ----------------------------
(***************************************************************************)
(* How a fill of one market gets from the engine into the database.  The   *)
(* engine numbers its fills (m_fill_sequence) and publishes them; every    *)
(* replica of the API runs a FillProcessor (api/crates/positions/src/      *)
(* lib.rs) with a subscription of its own, so every replica receives every *)
(* fill, and the unique index on (market_id, sequence) decides which one   *)
(* processes it: the fill row, the balances, two position changes and two  *)
(* orders, as separate statements.                                         *)
(*                                                                         *)
(* External: NATS core subjects (in order, at most once per subscriber),   *)
(* and PostgreSQL, a statement at a time: an UPDATE locks the row until    *)
(* its transaction ends, and of the transactions in a deadlock one is      *)
(* aborted.  The orders' rows, which the HTTP layer inserts, are given.    *)
(* A unit of quantity costs one unit of money, so that prices are left out.*)
(***************************************************************************)
EXTENDS Integers, Sequences, FiniteSets, Functions

CONSTANTS
    Replicas,     \* the FillProcessors
    Users, Orders,
    Owner,        \* the user of an order
    Quantity,     \* the quantity of an order
    Reserved,     \* what a user has reserved at first
    MaxFills,     \* bound: how many fills the engine makes
    MaxRestarts,  \* bound: how often the engine restarts
    None

ASSUME PipelineAssumption ==
    /\ Owner \in [Orders -> Users]
    /\ Quantity \in [Orders -> Nat \ {0}]
    /\ Reserved \in Nat /\ MaxFills \in Nat /\ MaxRestarts \in Nat
    /\ None \notin Replicas \cup Orders

VARIABLES
    made,       \* fills the engine made; the last one's fill_id
    sequence,   \* m_fill_sequence
    book,       \* what the engine still has to fill of each order
    restarts,   \* how often the engine restarted
    inbox,      \* what each replica's subscription holds
    worker,     \* where each replica's process() is, and its locals
    fills,      \* table fills
    balances,   \* table balances
    locks,      \* who holds the lock on a user's balances row
    orders,     \* table orders: filled_quantity and status
    paid,       \* history: by fill, how often apply_fill_balances committed
    moved       \* table position_changes: by fill, the rows of its taker and its maker

engineVars == <<made, sequence, book, restarts>>
moneyVars == <<balances, locks, paid>>
vars == <<engineVars, inbox, worker, fills, moneyVars, orders, moved>>

FillIds == 1 .. MaxFills
Fills == [id : FillIds, sequence : FillIds, maker : Orders, taker : Orders, quantity : Nat \ {0}]

\* apply_fill_balances is called with the taker as the buyer, whichever side it took.
Buyer(f) == Owner[f.taker]
Seller(f) == Owner[f.maker]

Places == {"down", "idle", "insert", "buyer", "seller", "taker", "maker",
           "loadMaker", "writeMaker", "loadTaker", "writeTaker"}
Idle == [pc |-> "idle", fill |-> None, seen |-> 0]
Up == {r \in Replicas : worker[r].pc # "down"}

-----------------------------------------------------------------------------
Init ==
    /\ made = 0 /\ sequence = 0 /\ book = Quantity /\ restarts = 0
    /\ inbox = [r \in Replicas |-> <<>>]
    /\ worker = [r \in Replicas |-> Idle]
    /\ fills = {}
    /\ balances = [u \in Users |-> [available |-> 0, reserved |-> Reserved]]
    /\ locks = [u \in Users |-> None]
    /\ orders = [o \in Orders |-> [filled |-> 0, status |-> "open"]]
    /\ paid = [f \in FillIds |-> 0]
    /\ moved = [f \in FillIds |-> [taker |-> 0, maker |-> 0]]

-----------------------------------------------------------------------------
(* The engine.                                                             *)

\* match makes a fill, on_fill publishes it; each live subscription gets it, or not.
MakeFill(maker, taker, q) ==
    /\ made < MaxFills
    /\ maker # taker /\ q > 0 /\ q <= book[maker] /\ q <= book[taker]
    /\ made' = made + 1
    /\ sequence' = sequence + 1
    /\ book' = [book EXCEPT ![maker] = @ - q, ![taker] = @ - q]
    /\ \E R \in SUBSET Up :
          inbox' = [r \in Replicas |->
             IF r \in R THEN Append(inbox[r], [id |-> made + 1, sequence |-> sequence + 1,
                                               maker |-> maker, taker |-> taker, quantity |-> q])
             ELSE inbox[r]]
    /\ UNCHANGED <<restarts, worker, fills, moneyVars, orders, moved>>

\* The engine ends and starts: its books are empty, and a new book numbers its
\* fills from 1.  What an order of an old book had left is gone.
Restart ==
    /\ restarts < MaxRestarts
    /\ restarts' = restarts + 1
    /\ sequence' = 0
    /\ book' = [o \in Orders |-> IF book[o] < Quantity[o] THEN 0 ELSE book[o]]
    /\ UNCHANGED <<made, inbox, worker, fills, moneyVars, orders, moved>>

-----------------------------------------------------------------------------
(* FillProcessor::process, on one replica.                                 *)

At(r, pc) == worker[r].pc = pc
Goto(r, pc) == worker' = [worker EXCEPT ![r].pc = pc]
Done(r) == worker' = [worker EXCEPT ![r] = Idle]

KeptLocked(r) == locks                  \* mutant: a transaction is left open

\* A transaction of r ends: its row locks go.
Unlocked(r) == [u \in Users |-> IF locks[u] = r THEN None ELSE locks[u]]

\* run_loop takes the next message.
Receive(r) ==
    /\ At(r, "idle") /\ inbox[r] # <<>>
    /\ worker' = [worker EXCEPT ![r] = [pc |-> "insert", fill |-> Head(inbox[r]), seen |-> 0]]
    /\ inbox' = [inbox EXCEPT ![r] = Tail(@)]
    /\ UNCHANGED <<engineVars, fills, moneyVars, orders, moved>>

NeverKnown(f) == FALSE                  \* mutant: no unique index

\* ON CONFLICT (market_id, sequence).
Known(f) == \E g \in fills : g.sequence = f.sequence

\* insert_fill_dedup.
Insert(r) ==
    /\ At(r, "insert")
    /\ LET f == worker[r].fill
       IN IF Known(f)
          THEN Done(r) /\ UNCHANGED fills
          ELSE fills' = fills \cup {f} /\ Goto(r, "buyer")
    /\ UNCHANGED <<engineVars, inbox, moneyVars, orders, moved>>

\* apply_fill_balances: begin, and the UPDATE of the buyer's row.
LockBuyer(r) ==
    /\ At(r, "buyer") /\ locks[Buyer(worker[r].fill)] = None
    /\ locks' = [locks EXCEPT ![Buyer(worker[r].fill)] = r]
    /\ Goto(r, "seller")
    /\ UNCHANGED <<engineVars, inbox, fills, balances, orders, paid, moved>>

DeductedPlain(b, cost) == [b EXCEPT !.reserved = @ - cost]
                                        \* mutant: no GREATEST(0, ...)

\* reserved = GREATEST(0, reserved - cost).
Deducted(b, cost) == [b EXCEPT !.reserved = IF @ > cost THEN @ - cost ELSE 0]

CreditedBuyer(bs, f) ==                 \* mutant: the parameters are swapped
    [bs EXCEPT ![Buyer(f)].available = @ + f.quantity]

\* available = available + cost, for the seller.
Credited(bs, f) == [bs EXCEPT ![Seller(f)].available = @ + f.quantity]

\* apply_fill_balances: the UPDATE of the seller's row, and commit.
PaySeller(r) ==
    LET f == worker[r].fill
        bought == [balances EXCEPT ![Buyer(f)] = Deducted(@, f.quantity)]
        sold == [bought EXCEPT ![Seller(f)] = Deducted(@, f.quantity)]
    IN /\ At(r, "seller") /\ locks[Seller(f)] \in {None, r}
       /\ balances' = Credited(sold, f)
       /\ paid' = [paid EXCEPT ![f.id] = @ + 1]
       /\ locks' = Unlocked(r)
       /\ Goto(r, "taker")
       /\ UNCHANGED <<engineVars, inbox, fills, orders, moved>>

\* record_position_change, for the taker and then for the maker.
MoveTaker(r) ==
    /\ At(r, "taker")
    /\ moved' = [moved EXCEPT ![worker[r].fill.id].taker = @ + 1]
    /\ Goto(r, "maker")
    /\ UNCHANGED <<engineVars, inbox, fills, moneyVars, orders>>

MoveMaker(r) ==
    /\ At(r, "maker")
    /\ moved' = [moved EXCEPT ![worker[r].fill.id].maker = @ + 1]
    /\ Goto(r, "loadMaker")
    /\ UNCHANGED <<engineVars, inbox, fills, moneyVars, orders>>

\* update_orders: which order each turn of its loop is about, and what follows it.
LoopOrder(r) == IF worker[r].pc \in {"loadMaker", "writeMaker"}
                THEN worker[r].fill.maker ELSE worker[r].fill.taker
NextOrder(r) == IF worker[r].pc \in {"loadMaker", "writeMaker"} THEN Goto(r, "loadTaker") ELSE Done(r)

\* get_order.
LoadOrder(r) ==
    /\ worker[r].pc \in {"loadMaker", "loadTaker"}
    /\ worker' = [worker EXCEPT ![r].seen = orders[LoopOrder(r)].filled,
                                ![r].pc = IF At(r, "loadMaker") THEN "writeMaker" ELSE "writeTaker"]
    /\ UNCHANGED <<engineVars, inbox, fills, moneyVars, orders, moved>>

StatusStrict(o, filled) == IF filled > Quantity[o] THEN "filled" ELSE "partial"
                                        \* mutant: > for >=

Status(o, filled) == IF filled >= Quantity[o] THEN "filled" ELSE "partial"

\* update_order_fill, from the order as it was loaded.
WriteOrder(r) ==
    LET o == LoopOrder(r)
        filled == worker[r].seen + worker[r].fill.quantity
    IN /\ worker[r].pc \in {"writeMaker", "writeTaker"}
       /\ orders' = [orders EXCEPT ![o] = [filled |-> filled, status |-> Status(o, filled)]]
       /\ NextOrder(r)
       /\ UNCHANGED <<engineVars, inbox, fills, moneyVars, moved>>

\* A statement of process fails: the transaction is rolled back, process returns
\* the error, and run_loop logs it and goes on to the next message.
Fail(r) ==
    /\ worker[r].pc \in {"insert", "buyer", "seller", "taker", "maker"}
    /\ Done(r)
    /\ locks' = Unlocked(r)
    /\ UNCHANGED <<engineVars, inbox, fills, balances, paid, orders, moved>>

\* A statement of update_orders fails: the loop goes on with the next order.
SkipOrder(r) ==
    /\ worker[r].pc \in {"loadMaker", "writeMaker", "loadTaker", "writeTaker"}
    /\ NextOrder(r)
    /\ UNCHANGED <<engineVars, inbox, fills, moneyVars, orders, moved>>

\* Transactions that wait for each other's rows; PostgreSQL aborts one of them,
\* which then fails like any statement.
Deadlocked(r) ==
    \E S \in SUBSET Replicas :
        r \in S /\ \A s \in S : At(s, "seller") /\ locks[Seller(worker[s].fill)] \in S \ {s}
AbortDeadlocked == \E r \in Replicas : Deadlocked(r) /\ Fail(r)

\* A replica goes down, and what its subscription held is lost; it comes up again.
Crash(r) ==
    /\ r \in Up
    /\ worker' = [worker EXCEPT ![r] = [Idle EXCEPT !.pc = "down"]]
    /\ inbox' = [inbox EXCEPT ![r] = <<>>]
    /\ locks' = Unlocked(r)
    /\ UNCHANGED <<engineVars, fills, balances, paid, orders, moved>>

Resubscribe(r) ==
    /\ At(r, "down") /\ Done(r)
    /\ UNCHANGED <<engineVars, inbox, fills, moneyVars, orders, moved>>

-----------------------------------------------------------------------------
Work(r) == Insert(r) \/ LockBuyer(r) \/ PaySeller(r) \/ MoveTaker(r) \/ MoveMaker(r)
           \/ LoadOrder(r) \/ WriteOrder(r)

Next ==
    \/ \E maker, taker \in Orders : \E q \in 1 .. Quantity[maker] : MakeFill(maker, taker, q)
    \/ Restart
    \/ \E r \in Replicas : Receive(r) \/ Work(r) \/ Fail(r) \/ SkipOrder(r)
                           \/ Crash(r) \/ Resubscribe(r)
    \/ AbortDeadlocked

Spec == Init /\ [][Next]_vars

\* A statement that can run runs in the end, and PostgreSQL looks for deadlocks.
FairSpec == Spec /\ WF_vars(AbortDeadlocked) /\ \A r \in Replicas : WF_vars(Work(r))

-----------------------------------------------------------------------------
(* Properties.                                                             *)

\* Every variable keeps its type; the balances in particular stay at or above
\* zero, so that no statement of a fill fails on the tables' CHECKs.
TypeOK ==
    /\ made \in 0 .. MaxFills /\ sequence \in 0 .. made /\ restarts \in 0 .. MaxRestarts
    /\ book \in [Orders -> Nat]
    /\ inbox \in [Replicas -> Seq(Fills)]
    /\ worker \in [Replicas -> [pc : Places, fill : Fills \cup {None}, seen : Nat]]
    /\ fills \subseteq Fills
    /\ balances \in [Users -> [available : Nat, reserved : Nat]]
    /\ locks \in [Users -> Replicas \cup {None}]
    /\ orders \in [Orders -> [filled : Nat, status : {"open", "partial", "filled"}]]
    /\ paid \in [FillIds -> Nat]
    /\ moved \in [FillIds -> [taker : Nat, maker : Nat]]

\* Whatever the replicas interleave and wherever they fail, no fill is applied
\* twice, and its effects come in order: none without its row in fills, no
\* position change before the balances, none of the maker before the taker's.
AppliedOnce ==
    \A i \in FillIds :
        /\ paid[i] <= Cardinality({f \in fills : f.id = i})
        /\ moved[i].taker <= paid[i]
        /\ moved[i].maker <= moved[i].taker

\* The replicas together promise what Settlement says: whatever they interleave and
\* wherever they stop, the tables change as one processor would change them that takes
\* each fill once, pays it whole and moves its taker and then its maker.  Their
\* subscriptions, their locks and where each of them is do not show.
Promise == INSTANCE Settlement
KeepsPromise == Promise!Spec

\* What a set of fills costs; the paid ones of a seller and of a buyer, and the ones of
\* an order that came to update_orders.
Cost(S) == SumFunctionOnSet([f \in S |-> f.quantity], S)
Sold(u) == {f \in fills : paid[f.id] > 0 /\ Seller(f) = u}
Bought(u) == {f \in fills : paid[f.id] > 0 /\ Buyer(f) = u}
Moved(o) == {f \in fills : o \in {f.maker, f.taker} /\ moved[f.id].maker > 0}

\* The money of a fill: every seller was credited with exactly what the paid
\* fills it made cost, and nobody was deducted more than those it took part in.
BalancesMatchFills ==
    \A u \in Users :
        /\ balances[u].available = Cost(Sold(u))
        /\ balances[u].reserved + Cost(Sold(u)) + Cost(Bought(u)) >= Reserved
        /\ balances[u].reserved <= Reserved

\* An order row never shows more than was filled, though it is read and written in
\* two statements, and says filled exactly when all of it was.
OrdersMatchFills ==
    \A o \in Orders :
        /\ orders[o].filled <= Cost(Moved(o))
        /\ orders[o].filled <= Quantity[o]
        /\ orders[o].status = "filled" <=> orders[o].filled = Quantity[o]

\* A replica always comes to its next message: neither a lock that is never
\* released nor two fills of the same two users in opposite roles stop it.
KeepsProcessing == \A r \in Replicas : []<>(worker[r].pc \in {"idle", "down"})

\* What the README says of an engine restart: no fill is lost for being taken for
\* another one's duplicate.
NoFillMistaken ==
    [][\A r \in Replicas : Insert(r) /\ Known(worker[r].fill) => worker[r].fill \in fills]_vars

=============================================================================
