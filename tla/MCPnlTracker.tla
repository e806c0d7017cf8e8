---------------------------- MODULE MCPnlTracker ----------------------------
(***************************************************************************)
(* Model checking PnlTracker.                                              *)
(***************************************************************************)
EXTENDS PnlTracker

=============================================================================
