------------------------------ MODULE MCLedger ------------------------------
(***************************************************************************)
(* Two requests with one key, two admins and two withdrawals of two users, *)
(* one of whom got the deposit.                                            *)
(***************************************************************************)
EXTENDS Ledger, TLC

CONSTANTS u1, u2, k1

MCDeposit == k1 :> [user |-> u1, amount |-> 2]

Symmetry == Permutations(Requests) \cup Permutations(Admins) \cup Permutations(Withdrawals)

=============================================================================
