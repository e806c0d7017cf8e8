--------------------------- MODULE PositionMonitor ---------------------------
(***************************************************************************)
(* The position monitor (api/crates/analytics/src/position_monitor.rs):    *)
(* for each user and market the net quantity and the lots it was bought    *)
(* in, kept under one lock from fill to fill.  A sale takes whole lots out *)
(* from the oldest and leaves a lot it does not use up at its full size;   *)
(* a position whose net is zero is forgotten with what is left of it.      *)
(* Left out: what only alerts of check_all read (values and times).        *)
(***************************************************************************)
EXTENDS Integers, Sequences, FiniteSets, Functions

CONSTANTS
    PmUsers, PmMarkets,
    LotPrices, LotSizes,
    PmMaxFills      \* bound: how many fills there are

ASSUME MonitorAssumption ==
    /\ IsFiniteSet(PmMarkets) /\ PmMaxFills \in Nat
    /\ LotPrices \subseteq Nat /\ LotSizes \subseteq Nat \ {0}

VARIABLES
    held,           \* positions: net quantity and lots, net 0 where there is no entry
    traded,         \* history: bought less sold
    pmFilled        \* how many fills there were

pmVars == <<held, traded, pmFilled>>

PmKeys == PmUsers \X PmMarkets
NotHeld == [net |-> 0, lots |-> <<>>]

PmInit ==
    /\ held = [k \in PmKeys |-> NotHeld]
    /\ traded = [k \in PmKeys |-> 0]
    /\ pmFilled = 0

SizeOf(lots) == SumFunction([i \in DOMAIN lots |-> lots[i].size])
CostOf(lots) == SumFunction([i \in DOMAIN lots |-> lots[i].size * lots[i].price])
Least(a, b) == IF a < b THEN a ELSE b

BegunGoes(size, left) == left = 0      \* mutant: a lot that a sale only begins goes, too

\* Whether retain keeps a lot of which left may be taken.
LotStays(size, left) == left = 0 \/ Least(size, left) < size

\* What retain does at a lot: some of what is left to sell is taken from it.
Sell(s, lot) ==
    [left |-> s.left - Least(lot.size, s.left),
     kept |-> IF LotStays(lot.size, s.left) THEN Append(s.kept, lot) ELSE s.kept]

\* The lots after a sale: as many of the oldest go as it uses up.
SoldFrom(lots, quantity) ==
    LET after[i \in 0 .. Len(lots)] ==
            IF i = 0 THEN [left |-> Least(quantity, SizeOf(lots)), kept |-> <<>>]
            ELSE Sell(after[i - 1], lots[i])
    IN after[Len(lots)].kept

\* update_position.
UpdatePosition(k, side, price, quantity) ==
    LET net == held[k].net + IF side > 0 THEN quantity ELSE -quantity
        lots == IF side > 0 THEN Append(held[k].lots, [price |-> price, size |-> quantity])
                ELSE SoldFrom(held[k].lots, quantity)
    IN /\ pmFilled < PmMaxFills /\ pmFilled' = pmFilled + 1
       /\ held' = [held EXCEPT ![k] = IF net = 0 THEN NotHeld ELSE [net |-> net, lots |-> lots]]
       /\ traded' = [traded EXCEPT ![k] = @ + IF side > 0 THEN quantity ELSE -quantity]

PmNext ==
    \E k \in PmKeys, side \in {1, -1}, price \in LotPrices, quantity \in LotSizes :
        UpdatePosition(k, side, price, quantity)

PmSpec == PmInit /\ [][PmNext]_pmVars

Magnitude(n) == IF n < 0 THEN -n ELSE n

\* check_concentration: the markets with more than half of what a user holds.
Concentrated(u) ==
    LET total == SumFunction([m \in PmMarkets |-> Magnitude(held[<<u, m>>].net)])
    IN {m \in PmMarkets : held[<<u, m>>] # NotHeld /\ Magnitude(held[<<u, m>>].net) * 2 > total}

\* calculate_unrealized_pnl has an answer, and this is it: the average price of the
\* lots, rounded down, against the price now, for the net quantity.
HasPnl(k) == held[k] # NotHeld /\ held[k].lots # <<>>
UnrealizedPnl(k, price) ==
    (price - CostOf(held[k].lots) \div SizeOf(held[k].lots)) * held[k].net

-----------------------------------------------------------------------------
(* Properties.                                                             *)

\* A position has a net quantity other than zero, and lots that are not empty.
PmTypeOK ==
    /\ \A k \in PmKeys :
          /\ held[k].net \in Int /\ (held[k].net = 0 => held[k] = NotHeld)
          /\ held[k].lots \in Seq([price : LotPrices, size : LotSizes])
    /\ traded \in [PmKeys -> Int] /\ pmFilled \in 0 .. PmMaxFills

\* The monitor's net is what was traded, through every position that was closed and
\* forgotten; a long position is covered by its lots, so that its result has an answer,
\* which is no loss at or above the dearest lot; and a user is told of one market at
\* most that holds more than half.
LotsCover ==
    /\ \A k \in PmKeys :
          /\ held[k].net = traded[k]
          /\ SizeOf(held[k].lots) >= held[k].net
          /\ held[k].net > 0 => HasPnl(k)
          /\ \A price \in LotPrices :
                HasPnl(k) /\ held[k].net > 0
                /\ (\A i \in 1 .. Len(held[k].lots) : held[k].lots[i].price <= price)
                => UnrealizedPnl(k, price) >= 0
    /\ \A u \in PmUsers : \A m, n \in Concentrated(u) : m = n

=============================================================================
