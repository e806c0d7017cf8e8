--------------------------- MODULE PriceTimeBook ---------------------------
(***************************************************************************)
(* What the matching engine promises of one market's order book, with      *)
(* no arrays, lists or hash tables: the resting orders are a set, each     *)
(* with the ticket it was accepted under, and an incoming order trades     *)
(* with the best of them, best price first and oldest first at one price,  *)
(* until nothing on the other side crosses it.                             *)
(*                                                                         *)
(* Two promises are as weak as the code makes them: a limit order's        *)
(* remainder may be dropped instead of resting (the order pool is full),   *)
(* and a cancel may hit any resting order whose id falls into the same     *)
(* hash bucket as the id it names, or none.                                *)
(***************************************************************************)
EXTENDS Integers

CONSTANTS
    OrderIds,     \* the ids clients put into orders
    Hash,         \* the bucket of m_index an id falls into
    PriceCap,     \* 10000: limit prices lie strictly between 0 and this
    MaxQuantity,  \* bound: the largest quantity of one order
    MaxTickets,   \* bound: how many orders are accepted
    None

VARIABLES
    resting,      \* the orders on the book
    incoming,     \* the order being matched, or None
    ledger,       \* by ticket: what was ordered, filled and given up
    tickets       \* orders accepted so far

bookVars == <<resting, incoming, ledger, tickets>>

Sides == {"Buy", "Sell"}
Opposite(side) == IF side = "Buy" THEN "Sell" ELSE "Buy"
LimitPrices == 1 .. (PriceCap - 1)

\* On one side of the book, price p is served before price q.
Better(side, p, q) == IF side = "Buy" THEN p > q ELSE p < q

\* An order of this side and limit trades with a resting order at price p.
Crosses(order, p) ==
    \/ order.market
    \/ IF order.side = "Buy" THEN order.price >= p ELSE order.price <= p

\* The limit and market orders the book accepts (its early returns).
Valid(price, quantity, market) ==
    /\ quantity # 0
    /\ market \/ price \in LimitPrices

Init ==
    /\ resting = {}
    /\ incoming = None
    /\ ledger = [t \in 1 .. MaxTickets |-> [id |-> None, quantity |-> 0, filled |-> 0, gone |-> 0]]
    /\ tickets = 0

Accept(id, side, price, quantity, market) ==
    /\ incoming = None
    /\ tickets < MaxTickets
    /\ Valid(price, quantity, market)
    /\ tickets' = tickets + 1
    /\ ledger' = [ledger EXCEPT ![tickets + 1] =
                    [id |-> id, quantity |-> quantity, filled |-> 0, gone |-> 0]]
    /\ incoming' = [ticket |-> tickets + 1, id |-> id, side |-> side,
                    price |-> price, remaining |-> quantity, market |-> market]
    /\ UNCHANGED resting

\* Resting order m is the one that price-time priority serves next.
First(m) ==
    /\ m \in resting
    /\ m.side = Opposite(incoming.side)
    /\ Crosses(incoming, m.price)
    /\ \A o \in resting :
          o.side = m.side => \/ Better(m.side, m.price, o.price)
                             \/ m.price = o.price /\ m.ticket <= o.ticket

Trade ==
    /\ incoming # None
    /\ incoming.remaining > 0
    /\ \E m \in resting :
          LET q == IF incoming.remaining < m.remaining
                   THEN incoming.remaining ELSE m.remaining
          IN /\ First(m)
             /\ incoming' = [incoming EXCEPT !.remaining = @ - q]
             /\ ledger' = [ledger EXCEPT ![m.ticket].filled = @ + q,
                                         ![incoming.ticket].filled = @ + q]
             /\ resting' = (resting \ {m}) \cup
                   IF q < m.remaining THEN {[m EXCEPT !.remaining = @ - q]} ELSE {}
    /\ UNCHANGED tickets

\* What is left of the incoming order rests, or is given up.
Settle ==
    /\ incoming # None
    /\ incoming.remaining = 0 \/ ~ \E m \in resting : First(m)
    /\ incoming' = None
    /\ \/ /\ ~incoming.market
          /\ incoming.remaining > 0
          /\ resting' = resting \cup
                {[ticket |-> incoming.ticket, id |-> incoming.id, side |-> incoming.side,
                  price |-> incoming.price, remaining |-> incoming.remaining]}
          /\ UNCHANGED ledger
       \/ /\ ledger' = [ledger EXCEPT ![incoming.ticket].gone = incoming.remaining]
          /\ UNCHANGED resting
    /\ UNCHANGED tickets

Cancel(id) ==
    /\ incoming = None
    /\ \E m \in resting :
          /\ Hash[m.id] = Hash[id]
          /\ resting' = resting \ {m}
          /\ ledger' = [ledger EXCEPT ![m.ticket].gone = m.remaining]
    /\ UNCHANGED <<incoming, tickets>>

Next ==
    \/ \E id \in OrderIds, side \in Sides, quantity \in 0 .. MaxQuantity :
          \/ \E price \in 0 .. PriceCap : Accept(id, side, price, quantity, FALSE)
          \/ Accept(id, side, 0, quantity, TRUE)
    \/ Trade
    \/ Settle
    \/ \E id \in OrderIds : Cancel(id)

Spec == Init /\ [][Next]_bookVars

=============================================================================
