--------------------------- MODULE MCFillPipeline ---------------------------
(***************************************************************************)
(* Two replicas and two users with two orders each: two fills can have the *)
(* same two users in opposite roles, one order can be filled twice, and an *)
(* engine that restarted still has two orders to fill.                     *)
(***************************************************************************)
EXTENDS FillPipeline, TLC

CONSTANTS u1, u2, o1, o2, o3, o4

MCOwner == o1 :> u1 @@ o2 :> u2 @@ o3 :> u2 @@ o4 :> u1
MCQuantity == o1 :> 2 @@ o2 :> 1 @@ o3 :> 1 @@ o4 :> 1

=============================================================================
