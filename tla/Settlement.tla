----------------------------- MODULE Settlement -----------------------------
(***************************************************************************)
(* What the FillProcessors of all replicas promise together, told without  *)
(* any of them (api/crates/positions/src/lib.rs): a fill is recorded once, *)
(* its money changes hands whole or not at all, then its taker's position  *)
(* moves and then its maker's, each once.  Work on a fill may stop for     *)
(* good after any of these; nothing is taken up again, undone or repeated. *)
(***************************************************************************)
EXTENDS Integers

CONSTANTS
    Users, Orders,
    Owner,        \* the user of an order
    Reserved,     \* what a user has reserved at first
    FillIds       \* what the engine calls its fills

VARIABLES
    fills,        \* the recorded fills
    balances,     \* what each user has available and reserved
    paid,         \* by fill, how often its money changed hands
    moved         \* by fill, how often its taker's and its maker's position moved

vars == <<fills, balances, paid, moved>>

Buyer(f) == Owner[f.taker]
Seller(f) == Owner[f.maker]

Init ==
    /\ fills = {}
    /\ balances = [u \in Users |-> [available |-> 0, reserved |-> Reserved]]
    /\ paid = [i \in FillIds |-> 0]
    /\ moved = [i \in FillIds |-> [taker |-> 0, maker |-> 0]]

\* A fill with a number that no recorded one has is recorded.
Record(f) ==
    /\ \A g \in fills : g.id # f.id /\ g.sequence # f.sequence
    /\ fills' = fills \cup {f}
    /\ UNCHANGED <<balances, paid, moved>>

\* What u owes for a fill, to whose reserves both sides' costs are charged.
Owes(u, f) ==
    (IF u = Buyer(f) THEN f.quantity ELSE 0) + (IF u = Seller(f) THEN f.quantity ELSE 0)

\* The money of a recorded fill: its seller is credited with all of it, nobody else with
\* anything, and nobody's reserve loses more than is owed.
Settle(f) ==
    /\ f \in fills /\ paid[f.id] = 0
    /\ paid' = [paid EXCEPT ![f.id] = 1]
    /\ \A u \in Users :
          /\ balances'[u].available = balances[u].available + (IF u = Seller(f) THEN f.quantity ELSE 0)
          /\ balances'[u].reserved \in Nat
          /\ balances[u].reserved - balances'[u].reserved \in 0 .. Owes(u, f)
    /\ UNCHANGED <<fills, moved>>

MoveTaker(f) ==
    /\ f \in fills /\ paid[f.id] = 1 /\ moved[f.id] = [taker |-> 0, maker |-> 0]
    /\ moved' = [moved EXCEPT ![f.id] = [taker |-> 1, maker |-> 0]]
    /\ UNCHANGED <<fills, balances, paid>>

MoveMaker(f) ==
    /\ f \in fills /\ paid[f.id] = 1 /\ moved[f.id] = [taker |-> 1, maker |-> 0]
    /\ moved' = [moved EXCEPT ![f.id] = [taker |-> 1, maker |-> 1]]
    /\ UNCHANGED <<fills, balances, paid>>

\* A fill that is recorded is in the table afterwards.
Next == \E f \in fills' : Record(f) \/ Settle(f) \/ MoveTaker(f) \/ MoveMaker(f)

Spec == Init /\ [][Next]_vars

=============================================================================
