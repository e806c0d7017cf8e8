----------------------------- MODULE RiskManager -----------------------------
(***************************************************************************)
(* The risk manager (api/crates/analytics/src/risk.rs): what a user's      *)
(* fills of the day are worth at the latest price, the limits an order is  *)
(* held against, and the global circuit breaker a large loss trips.  Each  *)
(* update and the reset hold the lock of the states to their last write,   *)
(* so each is one step; check_order_risk holds it to read.                 *)
(*                                                                         *)
(* A fill counts among the others of its market and side, all of them at   *)
(* the price of the latest fill of any market.  The balance takes the      *)
(* whole result of the day again with every fill.  Nobody adds to          *)
(* state.positions, so the limit of positions in a market never bites.     *)
(* Left out: the risk score, which refuses more, and max_drawdown_pct,     *)
(* which only the score reads.  The constants are the prices for which     *)
(* averages are whole.                                                     *)
(***************************************************************************)
EXTENDS Integers, FiniteSets, Functions

CONSTANTS
    RkUsers, RkMarkets,
    Prices, Quantities,  \* what fills and orders have
    MaxPosition,         \* max_position_size_usd
    MaxExposure,         \* max_total_exposure_usd
    MaxDailyLoss,        \* max_daily_loss_usd
    MaxDrawdown,         \* max_drawdown_pct, in percent
    RkMaxFills           \* bound: how many fills there are

ASSUME RiskAssumption ==
    /\ Prices \subseteq Nat /\ Quantities \subseteq Nat \ {0}
    /\ MaxPosition \in Nat /\ MaxExposure \in Nat /\ MaxDailyLoss \in Nat \ {0} /\ MaxDrawdown \in Nat
    /\ RkMaxFills \in Nat /\ IsFiniteSet(RkMarkets)

VARIABLES
    risk,                \* user_states; a user without fills has no entry, and is not known
    tripwire,            \* circuit_breaker
    rkFilled             \* how many fills there were

rkVars == <<risk, tripwire, rkFilled>>

Sides == {"buy", "sell"}
NoFills == [n |-> 0, prices |-> 0, quantity |-> 0]
NoRisk == [known |-> FALSE, daily |-> 0, exposure |-> 0, balance |-> 0, peak |-> 0,
           fills |-> [g \in RkMarkets \X Sides |-> NoFills]]

RkInit ==
    /\ risk = [u \in RkUsers |-> NoRisk]
    /\ tripwire = FALSE /\ rkFilled = 0

\* What the fills of one market and side make at a price: their average against it,
\* for all of their quantity.
GroupPnl(side, f, price) ==
    IF f.n = 0 THEN 0
    ELSE LET gain == ((price * f.n - f.prices) * f.quantity) \div f.n
         IN IF side = "buy" THEN gain ELSE -gain

LossOver(pnl) == pnl < -MaxDailyLoss   \* mutant: a loss at its limit does not trip

\* The daily loss that trips the circuit breaker.
LossReached(pnl) == pnl <= -MaxDailyLoss

\* update_on_fill with its update_pnl.
UpdateOnFill(u, m, side, fillPrice, quantity, price) ==
    LET was == risk[u]
        fills == [was.fills EXCEPT ![<<m, side>>] =
                     [n |-> @.n + 1, prices |-> @.prices + fillPrice, quantity |-> @.quantity + quantity]]
        pnl == SumFunctionOnSet([g \in RkMarkets \X Sides |-> GroupPnl(g[2], fills[g], price)], RkMarkets \X Sides)
        balance == was.balance + pnl
    IN /\ rkFilled < RkMaxFills /\ rkFilled' = rkFilled + 1
       /\ risk' = [risk EXCEPT ![u] =
             [known |-> TRUE, daily |-> pnl,
              exposure |-> was.exposure + IF side = "buy" THEN quantity * price ELSE -(quantity * price),
              balance |-> balance,
              peak |-> IF balance > was.peak THEN balance ELSE was.peak,
              fills |-> fills]]
       /\ tripwire' = (tripwire \/ LossReached(pnl))

\* reset_daily_stats.
ResetDailyStats ==
    /\ risk' = [u \in RkUsers |-> [risk[u] EXCEPT
                   !.daily = 0, !.fills = NoRisk.fills, !.peak = risk[u].balance]]
    /\ tripwire' = FALSE
    /\ UNCHANGED rkFilled

\* check_order_risk: what an order of a value must meet to be allowed.
OrderAllowed(u, value) ==
    LET s == risk[u]
    IN /\ ~tripwire
       /\ value <= MaxPosition
       /\ s.known => /\ s.exposure + value <= MaxExposure
                     /\ s.daily >= -MaxDailyLoss
                     /\ s.peak > 0 => (s.peak - s.balance) * 100 <= MaxDrawdown * s.peak

RkNext ==
    \/ ResetDailyStats
    \/ \E u \in RkUsers, m \in RkMarkets, side \in Sides, p, now \in Prices, q \in Quantities :
          UpdateOnFill(u, m, side, p, q, now)

RkSpec == RkInit /\ [][RkNext]_rkVars

-----------------------------------------------------------------------------
(* Properties.                                                             *)

\* The states are numbers, and a group has fills for its sums.
RkTypeOK ==
    /\ risk \in [RkUsers ->
          [known : BOOLEAN, daily : Int, exposure : Int, balance : Int, peak : Int,
           fills : [RkMarkets \X Sides -> [n : 0 .. RkMaxFills, prices : Nat, quantity : Nat]]]]
    /\ tripwire \in BOOLEAN /\ rkFilled \in 0 .. RkMaxFills

\* While any user's loss of the day is at its limit, no order of anybody is allowed,
\* of any value: whoever's fills and resets came before, and although the limits of a
\* user alone would still allow a loss that is exactly the limit.
LossStopsTrading ==
    (\E u \in RkUsers : risk[u].daily <= -MaxDailyLoss) =>
        \A w \in RkUsers, q \in Quantities, p \in Prices : ~OrderAllowed(w, q * p)

=============================================================================
