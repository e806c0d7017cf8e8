--------------------------- MODULE AlgoExecution ----------------------------
(***************************************************************************)
(* Algorithmic orders (api/crates/analytics/src/execution.rs): create_twap,*)
(* create_vwap, create_iceberg and create_smart cut an order into children *)
(* with a time each, and the executor submits each child once its time has *)
(* come.  Callers and executor share one lock on the map of orders, and    *)
(* the callers one on the volume profiles; create_* hold theirs while they *)
(* send the order into a bounded channel, the executor holds its own while *)
(* it sends a child into another one.                                      *)
(*                                                                         *)
(* Abstracted: market, side and price of an order; a profile's weights,    *)
(* which are any of Weights whenever an order is cut by them.  A new       *)
(* order's id is the number of orders before it plus one.  Prices are      *)
(* positive, so that pre_flight_check always passes.                       *)
(* External: tokio's RwLock and bounded mpsc channel, and whoever holds    *)
(* the receiver of the submitted children.                                 *)
(***************************************************************************)
EXTENDS Integers, Sequences, FiniteSetsExt

CONSTANTS
    Callers,          \* the tasks that create and cancel orders
    Quantities,       \* the quantities asked for
    Visible,          \* the visible quantities of iceberg orders
    Slices, Windows,  \* how many children, over how much time
    Weights,          \* the values a profile's weights have
    Plans,            \* create_smart's <<slices, window>> by urgency
    Capacity,         \* of the channel of new orders (1000 in the code)
    ChildCapacity,    \* of the channel of submitted children
    MaxOrders,        \* bound: how many orders are created
    MaxTime,          \* bound: how far the clock runs
    None

ASSUME AlgoAssumption ==
    /\ Quantities \cup Visible \cup Slices \cup Weights \subseteq Nat \ {0} /\ Windows \subseteq Nat
    /\ Plans \subseteq (Nat \ {0}) \X Nat
    /\ Capacity \in Nat \ {0} /\ ChildCapacity \in Nat \ {0}
    /\ MaxOrders \in Nat /\ MaxTime \in Nat
    /\ None \notin Callers /\ "executor" \notin Callers \cup {None}

VARIABLES
    now,         \* the clock
    algos,       \* orders: the algorithmic orders, by id
    lock,        \* who holds the write lock of orders
    caller,      \* where each caller is, and the order it has cut
    readers,     \* the callers that hold the read lock of volume_profiles
    volume,      \* whether update_volume waits for the write lock of it
    unread,      \* tx: how many orders are in the channel of new orders
    rxOpen,      \* whether its receiver still exists
    executor,    \* the executor: where it is, its time, its orders left, its order
    simulation,  \* is_simulation_mode
    outgoing,    \* order_tx: how many children are in their channel
    takerOpen,   \* whether its receiver still exists
    sent         \* history: the children of each order submitted, in order

callVars == <<caller, readers, volume, unread>>
sendVars == <<outgoing, takerOpen, sent>>
vars == <<now, algos, lock, callVars, rxOpen, executor, simulation, sendVars>>

Ids == 1 .. MaxOrders
Known == DOMAIN algos

-----------------------------------------------------------------------------
(* The children of an order.                                               *)

Child(quantity, at) == [quantity |-> quantity, at |-> at, status |-> "pending"]
Sizes(children) == [k \in DOMAIN children |-> children[k].quantity]
Total(children) == SumFunction(Sizes(children))

\* create_twap: equal slices, the last one with the remainder.
Twap(quantity, window, slices) ==
    [i \in 1 .. slices |->
        Child(quantity \div slices + (IF i = slices THEN quantity % slices ELSE 0),
              now + (i - 1) * (window \div slices))]

Weight(weights) == SumFunction(weights)

\* A slice's share by its weight, cut down to an integer.
Share(quantity, weights, i) == (quantity * weights[i]) \div Weight(weights)

\* create_vwap: the last slice gets what is left, at the end of the window.
Vwap(quantity, window, weights) ==
    LET slices == Len(weights)
        allocated == SumFunction([i \in 1 .. slices - 1 |-> Share(quantity, weights, i)])
    IN [i \in 1 .. slices |->
           IF i = slices THEN Child(quantity - allocated, now + window)
           ELSE Child(Share(quantity, weights, i), now + ((i - 1) * window) \div slices)]

\* What an iceberg order shows of the rest at a time.
Piece(visible, rest) == IF visible < rest THEN visible ELSE rest

\* create_iceberg: pieces of the visible quantity, all of them due at once.
Iceberg(quantity, visible) ==
    [i \in 1 .. (quantity + visible - 1) \div visible |->
        Child(Piece(visible, quantity - (i - 1) * visible), now)]

-----------------------------------------------------------------------------
Idle == [pc |-> "idle", total |-> 0, children |-> <<>>]

Init ==
    /\ now = 0
    /\ algos = <<>>
    /\ lock = None
    /\ caller = [c \in Callers |-> Idle]
    /\ readers = {} /\ volume = "idle"
    /\ unread = 0 /\ rxOpen = TRUE
    /\ executor = [pc |-> "off", now |-> 0, left |-> {}, id |-> None]
    /\ simulation \in BOOLEAN
    /\ outgoing = 0 /\ takerOpen = TRUE
    /\ sent = [i \in Ids |-> <<>>]

Advance ==
    /\ now < MaxTime
    /\ now' = now + 1
    /\ UNCHANGED <<algos, lock, callVars, rxOpen, executor, simulation, sendVars>>

-----------------------------------------------------------------------------
(* The callers.                                                            *)

At(c, pc) == caller[c].pc = pc

\* The orders some caller has cut but not put into the map yet count for MaxOrders.
Room == Cardinality(Known) + Cardinality({c \in Callers : At(c, "insert")}) < MaxOrders

Cut(c, quantity, children) ==
    /\ At(c, "idle") /\ Room
    /\ caller' = [caller EXCEPT ![c] = [pc |-> "insert", total |-> quantity, children |-> children]]
    /\ UNCHANGED <<now, algos, lock, volume, unread, rxOpen, executor, simulation, sendVars>>

CreateTwap(c) ==
    /\ \E q \in Quantities, n \in Slices, w \in Windows : Cut(c, q, Twap(q, w, n))
    /\ UNCHANGED readers

CreateIceberg(c) ==
    /\ \E q \in Quantities, v \in Visible : Cut(c, q, Iceberg(q, v))
    /\ UNCHANGED readers

\* create_vwap keeps its read lock of the profiles to its end.  A writer that waits
\* goes before later readers.
CreateVwap(c) ==
    /\ volume = "idle"
    /\ \E q \in Quantities, n \in Slices, w \in Windows : \E weights \in [1 .. n -> Weights] :
          Cut(c, q, Vwap(q, w, weights))
    /\ readers' = readers \cup {c}

CreateSmart(c) ==
    /\ volume = "idle"
    /\ \E q \in Quantities, plan \in Plans : \E weights \in [1 .. plan[1] -> Weights] :
          Cut(c, q, Vwap(q, plan[2], weights))
    /\ readers' = readers \cup {c}

\* orders.write() and insert, the lock being kept.
Insert(c) ==
    /\ At(c, "insert") /\ lock = None
    /\ lock' = c
    /\ algos' = Append(algos, [status |-> "pending", total |-> caller[c].total,
                             children |-> caller[c].children])
    /\ caller' = [caller EXCEPT ![c] = [Idle EXCEPT !.pc = "send"]]
    /\ UNCHANGED <<now, readers, volume, unread, rxOpen, executor, simulation, sendVars>>

\* tx.send: it waits for room, and fails, which is ignored, without a receiver.
\* The end of create_* drops its locks.
Send(c) ==
    /\ At(c, "send") /\ (rxOpen => unread < Capacity)
    /\ unread' = IF rxOpen THEN unread + 1 ELSE unread
    /\ lock' = None
    /\ readers' = readers \ {c}
    /\ caller' = [caller EXCEPT ![c] = Idle]
    /\ UNCHANGED <<now, algos, volume, rxOpen, executor, simulation, sendVars>>

\* cancel_order, whatever the order's status.  It waits for the lock, which it does
\* not keep, so that the wait needs no step.
Cancel(c) ==
    /\ At(c, "idle") /\ lock = None
    /\ \E i \in Known : algos' = [algos EXCEPT ![i].status = "cancelled"]
    /\ UNCHANGED <<now, lock, callVars, rxOpen, executor, simulation, sendVars>>

\* update_volume waits for the profiles' readers to go, and changes the weights.
StartUpdate ==
    /\ volume = "idle" /\ volume' = "waiting"
    /\ UNCHANGED <<now, algos, lock, caller, readers, unread, rxOpen, executor, simulation, sendVars>>

UpdateVolume ==
    /\ volume = "waiting" /\ readers = {}
    /\ volume' = "idle"
    /\ UNCHANGED <<now, algos, lock, caller, readers, unread, rxOpen, executor, simulation, sendVars>>

-----------------------------------------------------------------------------
(* The executor.                                                           *)

\* run_executor spawns the task, which does not take rx with it: run_executor
\* returns and drops it, and the channel of new orders is closed.
RunExecutor ==
    /\ executor.pc = "off"
    /\ executor' = [executor EXCEPT !.pc = "sleep"]
    /\ rxOpen' = FALSE /\ unread' = 0
    /\ UNCHANGED <<now, algos, lock, caller, readers, volume, simulation, sendVars>>

AnyStatus == {"pending", "running", "complete", "cancelled"}
                                    \* mutant: no continue for the others
Active == {"pending", "running"}

\* A tick: the lock, the time of this pass, and the orders it does not pass over.
StartPass ==
    /\ executor.pc = "sleep" /\ lock = None
    /\ lock' = "executor"
    /\ executor' = [pc |-> "pass", now |-> now, id |-> None,
                    left |-> {i \in Known : algos[i].status \in Active}]
    /\ UNCHANGED <<now, algos, callVars, rxOpen, simulation, sendVars>>

\* The next order of the map, in any order.
Visit(i) ==
    /\ executor.pc = "pass" /\ executor.id = None /\ i \in executor.left
    /\ algos' = [algos EXCEPT ![i].status = "running"]
    /\ executor' = [executor EXCEPT !.id = i, !.left = @ \ {i}]
    /\ UNCHANGED <<now, lock, callVars, rxOpen, simulation, sendVars>>

DueAgain(i) == {k \in DOMAIN algos[i].children : algos[i].children[k].at <= executor.now}
                                    \* mutant: the child's status is not looked at
DueFirst(i) == {k \in DOMAIN algos[i].children :
                  /\ algos[i].children[k].at <= executor.now
                  /\ \A j \in 1 .. k : algos[i].children[j].status = "pending"}
                                    \* mutant: break for continue

\* The children whose turn has come.
Due(i) == {k \in DOMAIN algos[i].children :
             algos[i].children[k].status = "pending" /\ algos[i].children[k].at <= executor.now}

Retried == "pending"                \* mutant: to be tried again
Failed == "failed"

\* order_tx.send of the next child, which waits for room and fails without a
\* receiver; in simulation mode the child is only logged.
Submit ==
    LET i == executor.id
        k == Min(Due(i))
        Mark(status) == algos' = [algos EXCEPT ![i].children[k].status = status]
    IN /\ executor.pc = "pass" /\ i # None /\ Due(i) # {}
       /\ \/ simulation /\ Mark("submitted") /\ UNCHANGED <<outgoing, sent>>
          \/ /\ ~simulation /\ takerOpen /\ outgoing < ChildCapacity
             /\ Mark("submitted")
             /\ outgoing' = outgoing + 1
             /\ sent' = [sent EXCEPT ![i] = Append(@, k)]
          \/ ~simulation /\ ~takerOpen /\ Mark(Failed) /\ UNCHANGED <<outgoing, sent>>
       /\ UNCHANGED <<now, lock, callVars, rxOpen, executor, simulation, takerOpen>>

\* The last child of an order: nothing ever makes a child "filled", so that only an
\* order without children would be complete.
Leave ==
    LET i == executor.id
    IN /\ executor.pc = "pass" /\ i # None /\ Due(i) = {}
       /\ algos' = [algos EXCEPT ![i].status =
             IF \A k \in DOMAIN algos[i].children : algos[i].children[k].status = "filled"
             THEN "complete" ELSE @]
       /\ executor' = [executor EXCEPT !.id = None]
       /\ UNCHANGED <<now, lock, callVars, rxOpen, simulation, sendVars>>

EndPass ==
    /\ executor.pc = "pass" /\ executor.id = None /\ executor.left = {}
    /\ lock' = None
    /\ executor' = [executor EXCEPT !.pc = "sleep", !.now = 0]
    /\ UNCHANGED <<now, algos, callVars, rxOpen, simulation, sendVars>>

-----------------------------------------------------------------------------
(* The receiver of the submitted children (external).                      *)

Take ==
    /\ takerOpen /\ outgoing > 0
    /\ outgoing' = outgoing - 1
    /\ UNCHANGED <<now, algos, lock, callVars, rxOpen, executor, simulation, takerOpen, sent>>

DropTaker ==
    /\ takerOpen /\ takerOpen' = FALSE /\ outgoing' = 0
    /\ UNCHANGED <<now, algos, lock, callVars, rxOpen, executor, simulation, sent>>

-----------------------------------------------------------------------------
Execute == StartPass \/ (\E i \in Known : Visit(i)) \/ Submit \/ Leave \/ EndPass

Next ==
    \/ Advance
    \/ \E c \in Callers : CreateTwap(c) \/ CreateVwap(c) \/ CreateIceberg(c) \/ CreateSmart(c)
                          \/ Insert(c) \/ Send(c) \/ Cancel(c)
    \/ StartUpdate \/ UpdateVolume
    \/ RunExecutor \/ Execute
    \/ Take \/ DropTaker

Spec == Init /\ [][Next]_vars

\* The executor is started some day and scheduled for ever, as is every call that
\* can go on; the lock is handed out in the order it is asked for; and the children
\* are taken as long as somebody holds their receiver.
FairSpec ==
    /\ Spec
    /\ WF_vars(Advance) /\ WF_vars(RunExecutor) /\ SF_vars(StartPass) /\ WF_vars(Execute)
    /\ WF_vars(Take) /\ WF_vars(UpdateVolume)
    /\ \A c \in Callers : SF_vars(Insert(c)) /\ WF_vars(Send(c))

-----------------------------------------------------------------------------
(* Properties.                                                             *)

Statuses == {"pending", "running", "complete", "cancelled"}
Children == [quantity : Nat, at : Nat, status : {"pending", "submitted", "filled", "failed"}]

\* Every variable keeps its type, and an order's children are cut from all of its
\* quantity and no more: no slice is larger than what the slices before it left,
\* where u64 would wrap around.
TypeOK ==
    /\ now \in 0 .. MaxTime
    /\ algos \in Seq([status : Statuses, total : Nat, children : Seq(Children)])
    /\ \A i \in Known : Total(algos[i].children) = algos[i].total
    /\ lock \in Callers \cup {None, "executor"}
    /\ \A c \in Callers :
          /\ caller[c].pc \in {"idle", "insert", "send"}
          /\ caller[c].children \in Seq(Children)
    /\ readers \subseteq Callers /\ volume \in {"idle", "waiting"}
    /\ unread \in 0 .. Capacity /\ outgoing \in 0 .. ChildCapacity
    /\ rxOpen \in BOOLEAN /\ takerOpen \in BOOLEAN /\ simulation \in BOOLEAN
    /\ executor.pc \in {"off", "sleep", "pass"} /\ executor.now \in 0 .. now
    /\ executor.left \subseteq Known /\ executor.id \in Known \cup {None}
    /\ \A i \in Ids : sent[i] \in Seq(Nat)

\* However passes, creations and cancels interleave, each child is submitted at most
\* once, in order and not before its time; what is submitted of an order never
\* exceeds its quantity, and is all of it when every child has been submitted.
SentInFull ==
    \A i \in Known :
        LET children == algos[i].children
            Quantity == SumFunction([n \in DOMAIN sent[i] |-> children[sent[i][n]].quantity])
        IN /\ \A n \in DOMAIN sent[i] :
                 /\ children[sent[i][n]].at <= now
                 /\ n > 1 => sent[i][n - 1] < sent[i][n]
           /\ Quantity <= algos[i].total
           /\ ~simulation /\ (\A k \in DOMAIN children : children[k].status = "submitted")
                 => Quantity = algos[i].total

\* Once cancel_order has returned, the executor submits nothing of the order, not even
\* in the pass it is in or when its send had to wait, and never takes it up again.
CancelHolds ==
    [][\A i \in Known : algos[i].status = "cancelled"
           => algos'[i] = algos[i] /\ sent'[i] = sent[i]]_vars

\* Every call returns, though callers wait for locks held across sends into full
\* channels: some day the executor starts, and with it the channel of new orders
\* that nobody reads is closed.
CallsReturn ==
    /\ \A c \in Callers : caller[c].pc # "idle" ~> caller[c].pc = "idle"
    /\ volume = "waiting" ~> volume = "idle"

Overdue(i) ==
    /\ i \in Known /\ algos[i].status # "cancelled"
    /\ \E k \in DOMAIN algos[i].children :
          algos[i].children[k].at <= now /\ algos[i].children[k].status = "pending"

\* Every child is tried once its time has come, unless its order was cancelled:
\* time and again there is none of an order that waits for its turn.
EveryChildTried == \A i \in Ids : []<>~Overdue(i)

=============================================================================
