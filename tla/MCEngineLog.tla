---------------------------- MODULE MCEngineLog ----------------------------
(***************************************************************************)
(* Two orders in two markets and room for one book; up to four frames over *)
(* three starts, so that a log can be torn, appended to and read again.    *)
(***************************************************************************)
EXTENDS EngineLog, TLC

CONSTANTS a, b, m1, m2

MCMarketOf == a :> m1 @@ b :> m2

=============================================================================
