---------------------------- MODULE MCSPSCQueue ----------------------------
(***************************************************************************)
(* SPSCQueue with four slots, the capacity of the QueueFull test of        *)
(* engine/tests/test_spsc_queue.cpp, and two values to tell items apart.   *)
(***************************************************************************)
EXTENDS SPSCQueue

\* What QueueFull expects: a queue of capacity 4 takes four items, so a push, when
\* every pop that returned is visible to it, is refused only if Capacity items wait.
TakesCapacity == [][Refuse /\ headSeen = head => Dist(head, tail) = Capacity]_vars

=============================================================================
