------------------------------ MODULE MCServices ------------------------------
(***************************************************************************)
(* Model checking the services beside the engine and the ledger.  No two   *)
(* of these modules share a variable: what a behaviour of all of them does *)
(* to the variables of one is a behaviour of that one.  So a behaviour     *)
(* here steps the part it chose at the start and leaves the others alone,  *)
(* and the run checks each part as if by itself.                           *)
(***************************************************************************)
EXTENDS MarketLifecycle, RateLimiter, CircuitBreaker, OrderIntake, TransactionManager,
        TradingFeed, RiskManager, PositionMonitor

VARIABLE part

Parts == {"markets", "limiter", "breaker", "orders", "wallet", "feed", "risk", "positions"}

vars == <<part, mkVars, rlVars, cbVars, oiVars, txVars, feedVars, rkVars, pmVars>>

Init ==
    /\ part \in Parts
    /\ part # "breaker" => resetTimeout = CHOOSE t \in Timeouts : TRUE
    /\ MkInit /\ RlInit /\ CbInit /\ OiInit /\ TxInit /\ FeedInit /\ RkInit /\ PmInit

Next ==
    /\ UNCHANGED part
    /\ \/ part = "markets" /\ MkNext
       \/ part # "markets" /\ UNCHANGED mkVars
    /\ \/ part = "limiter" /\ RlNext
       \/ part # "limiter" /\ UNCHANGED rlVars
    /\ \/ part = "breaker" /\ CbNext
       \/ part # "breaker" /\ UNCHANGED cbVars
    /\ \/ part = "orders" /\ OiNext
       \/ part # "orders" /\ UNCHANGED oiVars
    /\ \/ part = "wallet" /\ TxNext
       \/ part # "wallet" /\ UNCHANGED txVars
    /\ \/ part = "feed" /\ FeedNext
       \/ part # "feed" /\ UNCHANGED feedVars
    /\ \/ part = "risk" /\ RkNext
       \/ part # "risk" /\ UNCHANGED rkVars
    /\ \/ part = "positions" /\ PmNext
       \/ part # "positions" /\ UNCHANGED pmVars

\* The loops of the trading engine run when they can, where they are the part.
Spec == Init /\ [][Next]_vars /\ (part = "feed" => FeedFairness)

\* Every part has the types of its module.
TypeOK ==
    /\ MkTypeOK /\ RlTypeOK /\ CbTypeOK /\ OiTypeOK
    /\ TxTypeOK /\ FeedTypeOK /\ RkTypeOK /\ PmTypeOK

=============================================================================
