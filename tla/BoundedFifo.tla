---------------------------- MODULE BoundedFifo ----------------------------
(***************************************************************************)
(* What a queue between two threads promises: items leave it in the order  *)
(* they were put in, each once, never more than Bound of them wait, and    *)
(* whatever waits is taken in the end.                                     *)
(***************************************************************************)
EXTENDS Naturals, Sequences

CONSTANTS Items, Bound, None

VARIABLES
    queue,   \* the items that wait, oldest first
    out      \* the item the consumer was handed last

fifoVars == <<queue, out>>

Init == queue = <<>> /\ out = None

Put(i) == Len(queue) < Bound /\ queue' = Append(queue, i) /\ UNCHANGED out

Take == queue # <<>> /\ out' = Head(queue) /\ queue' = Tail(queue)

Next == (\E i \in Items : Put(i)) \/ Take

Spec == Init /\ [][Next]_fifoVars
FairSpec == Spec /\ WF_fifoVars(Take)

=============================================================================
