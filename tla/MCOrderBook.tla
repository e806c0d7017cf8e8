---------------------------- MODULE MCOrderBook ----------------------------
(***************************************************************************)
(* A small instance of OrderBook.  Ids a and b have a bucket each: two     *)
(* orders of one bucket are two orders under one id, which the code cannot *)
(* tell from two ids that collide, for it never compares ids.              *)
(***************************************************************************)
EXTENDS OrderBook, TLC

CONSTANTS a, b, x, y

MCHash == a :> x @@ b :> y
Symmetry == Permutations(Slots) \cup Permutations(LevelSlots)

=============================================================================
