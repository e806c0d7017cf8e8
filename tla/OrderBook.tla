----------------------------- MODULE OrderBook -----------------------------
(***************************************************************************)
(* One market's limit order book, as engine/src/order_book.cpp keeps it:   *)
(* a fixed pool of order slots and one of level slots, a doubly linked     *)
(* FIFO of orders per price level, a doubly linked list of levels per      *)
(* side sorted best price first, a price map per side, the best prices,    *)
(* and the index that cancel_order finds an order by.                      *)
(*                                                                         *)
(* The index has one entry per hash bucket and compares no key: two order  *)
(* ids of one bucket share it.  Hash is a constant, so collisions (and a   *)
(* redelivered order, which collides with itself) are part of the model.   *)
(*                                                                         *)
(* An add runs in steps under the engine's mutex: AddOrder, then one       *)
(* FillHead per fill that on_fill publishes, then one of Complete,         *)
(* DropRemainder, JoinLevel and OpenLevel.  taker is the order in flight;  *)
(* no other operation starts while there is one.                           *)
(*                                                                         *)
(* The free stacks are sets (any free slot may be handed out), and a freed *)
(* slot's stale fields are forgotten: nothing reads them as long as        *)
(* IndexSound and QueuesLinked hold.  User ids, fill ids, timestamps and   *)
(* the client's sequence number (stored, never read) are left out.         *)
(***************************************************************************)
EXTENDS Integers, FiniteSets, Functions

CONSTANTS
    OrderIds,     \* the ids clients put into orders
    Slots,        \* m_orders: kMaxOrdersPerBook order slots
    LevelSlots,   \* m_levels: kMaxPriceLevels level slots
    Buckets,      \* the entries of m_index
    Hash,         \* UuidHasher{}(id) & (kMaxOrdersPerBook - 1)
    PriceCap,     \* 10000
    MaxQuantity,  \* bound: the largest quantity of one order
    MaxTickets,   \* bound: how many orders are accepted
    None          \* kInvalidSlot, and "no order in flight"

ASSUME BookAssumption ==
    /\ Hash \in [OrderIds -> Buckets]
    /\ PriceCap \in Nat /\ PriceCap > 1
    /\ MaxQuantity \in Nat
    /\ MaxTickets \in Nat
    /\ None \notin Slots \cup LevelSlots
    /\ IsFiniteSet(Slots)

VARIABLES
    orders,       \* m_orders
    freeOrders,   \* m_order_free[0 .. m_order_free_top - 1]
    levels,       \* m_levels
    freeLevels,   \* m_level_free[0 .. m_level_free_top - 1]
    priceMap,     \* m_bid_price_map, m_ask_price_map
    topLevel,     \* m_bid_head, m_ask_head
    best,         \* m_best_bid, m_best_ask
    index,        \* m_index: None where .slot is kInvalidSlot
    fillSeq,      \* m_fill_sequence
    taker,        \* the locals of add_limit_order / add_market_order and match
    ledger,       \* history, by ticket: quantity ordered, filled and given up
    tickets       \* history: orders accepted so far; a ticket is a place in time

bookVars == <<orders, freeOrders, levels, freeLevels, priceMap, topLevel, best, index>>
vars == <<bookVars, fillSeq, taker, ledger, tickets>>

Sides == {"Buy", "Sell"}
Opposite(side) == IF side = "Buy" THEN "Sell" ELSE "Buy"
LimitPrices == 1 .. (PriceCap - 1)
EmptyBest(side) == IF side = "Buy" THEN 0 ELSE PriceCap + 1

BetterDescending(side, p, q) == p > q   \* mutant: asks sorted like bids

\* find_or_create_level's should_insert_before: price p is served before price q.
Better(side, p, q) == IF side = "Buy" THEN p > q ELSE p < q

CrossesStrictly(order, p) ==           \* mutant: an equal price does not cross
    \/ order.market
    \/ IF order.side = "Buy" THEN order.price > p ELSE order.price < p

\* match's crossed, for the head level's price.
Crosses(order, p) ==
    \/ order.market
    \/ IF order.side = "Buy" THEN order.price >= p ELSE order.price <= p

Live == Slots \ freeOrders
LiveLevels == LevelSlots \ freeLevels
LevelsOf(side) == {priceMap[side][p] : p \in LimitPrices} \ {None}
Bucket(id) == Hash[id]

EmptySlot == [ticket |-> 0, id |-> None, side |-> None, price |-> 0,
              remaining |-> 0, next |-> None, prev |-> None]
EmptyLevel == [price |-> 0, total |-> 0, count |-> 0, head |-> None, tail |-> None,
               next |-> None, prev |-> None]

-----------------------------------------------------------------------------
Init ==
    /\ orders = [s \in Slots |-> EmptySlot]
    /\ freeOrders = Slots
    /\ levels = [l \in LevelSlots |-> EmptyLevel]
    /\ freeLevels = LevelSlots
    /\ priceMap = [side \in Sides |-> [p \in LimitPrices |-> None]]
    /\ topLevel = [side \in Sides |-> None]
    /\ best = [side \in Sides |-> EmptyBest(side)]
    /\ index = [b \in Buckets |-> None]
    /\ fillSeq = 0
    /\ taker = None
    /\ ledger = [t \in 1 .. MaxTickets |-> [id |-> None, quantity |-> 0, filled |-> 0, gone |-> 0]]
    /\ tickets = 0

-----------------------------------------------------------------------------
(* The pointer surgery the operations share.                               *)

Relink(r, next, prev) == [r EXCEPT !.next = next, !.prev = prev]
Resize(r, head, tail, count, total) ==
    [r EXCEPT !.head = head, !.tail = tail, !.count = count, !.total = total]

UnlinkedForward(os) ==                  \* mutant: the successor keeps its prev
    [o \in Slots |->
        IF o = os THEN EmptySlot
        ELSE Relink(orders[o],
                    IF o = orders[os].prev THEN orders[os].next ELSE orders[o].next,
                    orders[o].prev)]

\* dequeue, on the orders: os's neighbours are linked to each other, and os is free.
Unlinked(os) ==
    [o \in Slots |->
        IF o = os THEN EmptySlot
        ELSE Relink(orders[o],
                    IF o = orders[os].prev THEN orders[os].next ELSE orders[o].next,
                    IF o = orders[os].next THEN orders[os].prev ELSE orders[o].prev)]

ShortenedUntotalled(ls, os) ==          \* mutant: nobody subtracts the quantity
    Resize(levels[ls],
           IF orders[os].prev = None THEN orders[os].next ELSE levels[ls].head,
           IF orders[os].next = None THEN orders[os].prev ELSE levels[ls].tail,
           levels[ls].count - 1, levels[ls].total)

\* dequeue and the caller's "total_qty -= remaining", on the level.
Shortened(ls, os) ==
    Resize(levels[ls],
           IF orders[os].prev = None THEN orders[os].next ELSE levels[ls].head,
           IF orders[os].next = None THEN orders[os].prev ELSE levels[ls].tail,
           levels[ls].count - 1, levels[ls].total - orders[os].remaining)

\* remove_level, on the level list: ls's neighbours are linked, and ls is free.
Bypassed(ls) ==
    [l \in LevelSlots |->
        IF l = ls THEN EmptyLevel
        ELSE Relink(levels[l],
                    IF l = levels[ls].prev THEN levels[ls].next ELSE levels[l].next,
                    IF l = levels[ls].next THEN levels[ls].prev ELSE levels[l].prev)]

BestKept(side, top) == best[side]       \* mutant: a removal leaves the best price

\* remove_level: the best price once top heads the side.
BestOf(side, top) == IF top = None THEN EmptyBest(side) ELSE levels[top].price

\* remove_level: the list, the price map, the pool and the best price.
RemoveLevel(ls, side) ==
    LET top == IF levels[ls].prev = None THEN levels[ls].next ELSE topLevel[side]
    IN /\ levels' = Bypassed(ls)
       /\ topLevel' = [topLevel EXCEPT ![side] = top]
       /\ priceMap' = [priceMap EXCEPT ![side][levels[ls].price] = None]
       /\ freeLevels' = freeLevels \cup {ls}
       /\ best' = [best EXCEPT ![side] = BestOf(side, top)]

NotCleared(bucket) == index             \* mutant: the entry outlives its order

\* The entry's slot becomes kInvalidSlot.
Cleared(bucket) == [index EXCEPT ![bucket] = None]

\* What match does with an exhausted maker and cancel_order with its order: the
\* index entry of the bucket, dequeue, free_order, and remove_level if that was
\* the level's last order.
TakeOff(os, ls, side, bucket) ==
    /\ index' = Cleared(bucket)
    /\ orders' = Unlinked(os)
    /\ freeOrders' = freeOrders \cup {os}
    /\ IF Shortened(ls, os).head = None
       THEN RemoveLevel(ls, side)
       ELSE /\ levels' = [levels EXCEPT ![ls] = Shortened(ls, os)]
            /\ UNCHANGED <<freeLevels, priceMap, topLevel, best>>

AppendedWhole(os, tail) ==              \* mutant: the filled part rests again
    [o \in Slots |->
        IF o = os THEN [ticket |-> taker.ticket, id |-> taker.id, side |-> taker.side,
                        price |-> taker.price, remaining |-> ledger[taker.ticket].quantity,
                        next |-> None, prev |-> tail]
        ELSE IF o = tail THEN Relink(orders[o], os, orders[o].prev)
        ELSE orders[o]]

\* enqueue, on the orders: the taker's remainder goes to the back, behind tail.
Appended(os, tail) ==
    [o \in Slots |->
        IF o = os THEN [ticket |-> taker.ticket, id |-> taker.id, side |-> taker.side,
                        price |-> taker.price, remaining |-> taker.remaining,
                        next |-> None, prev |-> tail]
        ELSE IF o = tail THEN Relink(orders[o], os, orders[o].prev)
        ELSE orders[o]]

PublishWhole(os, ls) ==                 \* mutant: a partly filled order is not indexed
    /\ index' = [index EXCEPT ![Bucket(taker.id)] =
                    IF ledger[taker.ticket].filled > 0 THEN None
                    ELSE [slot |-> os, level |-> ls, side |-> taker.side]]
    /\ best' = [best EXCEPT ![taker.side] =
                    IF Better(taker.side, taker.price, @) THEN taker.price ELSE @]
    /\ freeOrders' = freeOrders \ {os}
    /\ taker' = None

\* The end of add_limit_order: the index entry and the best price.
Publish(os, ls) ==
    /\ index' = [index EXCEPT ![Bucket(taker.id)] =
                    [slot |-> os, level |-> ls, side |-> taker.side]]
    /\ best' = [best EXCEPT ![taker.side] =
                    IF Better(taker.side, taker.price, @) THEN taker.price ELSE @]
    /\ freeOrders' = freeOrders \ {os}
    /\ taker' = None

-----------------------------------------------------------------------------
(* The operations.                                                         *)

\* The early returns of add_limit_order and add_market_order.
Valid(price, quantity, market) ==
    /\ quantity # 0
    /\ market \/ (price # 0 /\ price < PriceCap)

\* add_limit_order, add_market_order: up to the call of match.
AddOrder(id, side, price, quantity, market) ==
    /\ taker = None
    /\ tickets < MaxTickets
    /\ Valid(price, quantity, market)
    /\ tickets' = tickets + 1
    /\ ledger' = [ledger EXCEPT ![tickets + 1] =
                    [id |-> id, quantity |-> quantity, filled |-> 0, gone |-> 0]]
    /\ taker' = [ticket |-> tickets + 1, id |-> id, side |-> side,
                 price |-> price, remaining |-> quantity, market |-> market]
    /\ UNCHANGED <<bookVars, fillSeq>>

\* The two loop conditions of match: there is a head level, and it is crossed.
CanFill ==
    LET ls == topLevel[Opposite(taker.side)]
    IN taker.remaining > 0 /\ ls # None /\ Crosses(taker, levels[ls].price)

FillMaker(maker) == maker.remaining     \* mutant: no minimum is taken

\* fill_qty.
FillQuantity(maker) ==
    IF taker.remaining < maker.remaining THEN taker.remaining ELSE maker.remaining

\* The index entry match clears when the maker is done.
DoneBucket(maker) == Bucket(maker.id)

\* A fill as the history keeps it.
Filled(L, ticket, q) == [L EXCEPT ![ticket].filled = @ + q]

\* match, one turn of the inner loop: the fill, and what follows if it empties
\* the maker, and then the level.
FillHead ==
    /\ taker # None
    /\ CanFill
    /\ LET side  == Opposite(taker.side)
           ls    == topLevel[side]
           os    == levels[ls].head
           maker == orders[os]
           q     == FillQuantity(maker)
       IN /\ fillSeq' = fillSeq + 1
          /\ taker' = [taker EXCEPT !.remaining = @ - q]
          /\ ledger' = Filled(Filled(ledger, maker.ticket, q), taker.ticket, q)
          /\ IF q = maker.remaining
             THEN TakeOff(os, ls, side, DoneBucket(maker))
             ELSE /\ orders' = [orders EXCEPT ![os].remaining = @ - q]
                  /\ levels' = [levels EXCEPT ![ls].total = @ - q]
                  /\ UNCHANGED <<freeOrders, freeLevels, priceMap, topLevel, best, index>>
    /\ UNCHANGED tickets

\* After match: nothing is left to rest, or the order is a market order.
Complete ==
    /\ taker # None /\ ~CanFill
    /\ taker.remaining = 0 \/ taker.market
    /\ ledger' = [ledger EXCEPT ![taker.ticket].gone = taker.remaining]
    /\ taker' = None
    /\ UNCHANGED <<bookVars, fillSeq, tickets>>

\* A limit order has a remainder to rest.
Resting == taker # None /\ ~CanFill /\ taker.remaining > 0 /\ ~taker.market

\* find_or_create_level finds no level and no slot for one.
NoLevel == priceMap[taker.side][taker.price] = None /\ freeLevels = {}

\* alloc_order or find_or_create_level fails: add_limit_order returns, silently.
DropRemainder ==
    /\ Resting
    /\ freeOrders = {} \/ NoLevel
    /\ ledger' = [ledger EXCEPT ![taker.ticket].gone = taker.remaining]
    /\ taker' = None
    /\ UNCHANGED <<bookVars, fillSeq, tickets>>

\* add_limit_order rests the remainder on a level that exists.
JoinLevel ==
    /\ Resting
    /\ priceMap[taker.side][taker.price] # None
    /\ \E os \in freeOrders :
          LET ls == priceMap[taker.side][taker.price]
              lv == levels[ls]
          IN /\ orders' = Appended(os, lv.tail)
             /\ levels' = [levels EXCEPT ![ls] =
                   Resize(lv, IF lv.tail = None THEN os ELSE lv.head, os,
                          lv.count + 1, lv.total + taker.remaining)]
             /\ Publish(os, ls)
    /\ UNCHANGED <<freeLevels, priceMap, topLevel, fillSeq, ledger, tickets>>

\* Where find_or_create_level's walk stops: after level p, before level c.
InsertionPoint(p, c) ==
    LET side == taker.side
    IN /\ IF p = None THEN c = topLevel[side]
          ELSE /\ p \in LevelsOf(side)
               /\ ~Better(side, taker.price, levels[p].price)
               /\ c = levels[p].next
       /\ c # None => Better(side, taker.price, levels[c].price)

\* add_limit_order rests the remainder on a new level, linked in between p and c.
OpenLevel ==
    /\ Resting
    /\ priceMap[taker.side][taker.price] = None
    /\ \E os \in freeOrders, ls \in freeLevels, p, c \in LevelSlots \cup {None} :
          /\ InsertionPoint(p, c)
          /\ orders' = Appended(os, None)
          /\ levels' = [l \in LevelSlots |->
                IF l = ls THEN [price |-> taker.price, total |-> taker.remaining, count |-> 1,
                                head |-> os, tail |-> os, next |-> c, prev |-> p]
                ELSE Relink(levels[l], IF l = p THEN ls ELSE levels[l].next,
                                       IF l = c THEN ls ELSE levels[l].prev)]
          /\ freeLevels' = freeLevels \ {ls}
          /\ priceMap' = [priceMap EXCEPT ![taker.side][taker.price] = ls]
          /\ topLevel' = IF p = None THEN [topLevel EXCEPT ![taker.side] = ls] ELSE topLevel
          /\ Publish(os, ls)
    /\ UNCHANGED <<fillSeq, ledger, tickets>>

\* cancel_order returns true: it takes off whatever order the bucket's entry holds.
CancelOrder(id) ==
    /\ taker = None
    /\ index[Bucket(id)] # None
    /\ LET ie == index[Bucket(id)]
       IN /\ ledger' = [ledger EXCEPT ![orders[ie.slot].ticket].gone = orders[ie.slot].remaining]
          /\ TakeOff(ie.slot, ie.level, ie.side, Bucket(id))
    /\ UNCHANGED <<fillSeq, taker, tickets>>

\* cancel_order returns false.
CancelMiss(id) ==
    /\ taker = None
    /\ index[Bucket(id)] = None
    /\ UNCHANGED vars

Next ==
    \/ \E id \in OrderIds, side \in Sides, quantity \in 0 .. MaxQuantity :
          \/ \E price \in 0 .. PriceCap : AddOrder(id, side, price, quantity, FALSE)
          \/ AddOrder(id, side, 0, quantity, TRUE)
    \/ FillHead
    \/ Complete
    \/ DropRemainder
    \/ JoinLevel
    \/ OpenLevel
    \/ \E id \in OrderIds : CancelOrder(id) \/ CancelMiss(id)

Spec == Init /\ [][Next]_vars

-----------------------------------------------------------------------------
(* Properties.                                                             *)

Orders == [ticket : 0 .. MaxTickets, id : OrderIds \cup {None}, side : Sides \cup {None},
           price : 0 .. PriceCap, remaining : Nat,
           next : Slots \cup {None}, prev : Slots \cup {None}]
Levels == [price : 0 .. PriceCap, total : Int, count : Int,
           head : Slots \cup {None}, tail : Slots \cup {None},
           next : LevelSlots \cup {None}, prev : LevelSlots \cup {None}]
Takers == [ticket : 1 .. MaxTickets, id : OrderIds, side : Sides,
           price : 0 .. PriceCap, remaining : Nat, market : BOOLEAN]
Ledgers == [1 .. MaxTickets ->
               [id : OrderIds \cup {None}, quantity : Nat, filled : Nat, gone : Nat]]
Entries == [slot : Slots, level : LevelSlots, side : Sides]
ASSUME RecordAssumption == None \notin Takers \cup Entries

\* Every variable keeps its type: no operation follows an invalid slot number
\* out of its array (m_orders, m_levels, m_index are indexed unchecked).
TypeOK ==
    /\ orders \in [Slots -> Orders]
    /\ freeOrders \in SUBSET Slots
    /\ levels \in [LevelSlots -> Levels]
    /\ freeLevels \in SUBSET LevelSlots
    /\ priceMap \in [Sides -> [LimitPrices -> LevelSlots \cup {None}]]
    /\ topLevel \in [Sides -> LevelSlots \cup {None}]
    /\ best \in [Sides -> 0 .. PriceCap + 1]
    /\ index \in [Buckets -> Entries \cup {None}]
    /\ fillSeq \in Nat
    /\ taker \in Takers \cup {None}
    /\ ledger \in Ledgers
    /\ tickets \in 0 .. MaxTickets

SameLevel(s, t) == orders[s].side = orders[t].side /\ orders[s].price = orders[t].price
LevelOf(s) == priceMap[orders[s].side][orders[s].price]

\* The order in flight is the last one accepted, and no limit order is without a limit.
InFlight ==
    taker # None => taker.ticket = tickets /\ (taker.market \/ taker.price \in LimitPrices)

\* Every live order is what an accepted limit order left on the book, and its
\* level exists.
LiveOrders ==
    \A s \in Live :
        /\ orders[s].id \in OrderIds
        /\ orders[s].side \in Sides
        /\ orders[s].price \in LimitPrices
        /\ orders[s].remaining > 0
        /\ orders[s].ticket \in 1 .. tickets
        /\ taker # None => orders[s].ticket < taker.ticket
        /\ LevelOf(s) # None

\* The FIFO of a level: a doubly linked list, in the order of acceptance.
QueuesLinked ==
    \A s \in Live :
        /\ {orders[s].next, orders[s].prev} \subseteq Live \cup {None}
        /\ orders[s].prev = None => levels[LevelOf(s)].head = s
        /\ orders[s].next = None => levels[LevelOf(s)].tail = s
        /\ \A t \in Live :
              /\ orders[s].next = t <=> orders[t].prev = s
              /\ orders[s].next = t => SameLevel(s, t) /\ orders[s].ticket < orders[t].ticket
              /\ orders[s].ticket = orders[t].ticket => s = t
              /\ SameLevel(s, t) /\ orders[s].ticket < orders[t].ticket =>
                    /\ orders[s].next # None
                    /\ orders[orders[s].next].ticket <= orders[t].ticket
                    /\ orders[t].prev # None
                    /\ orders[s].ticket <= orders[orders[t].prev].ticket

\* A level is not empty, and its ends are those of the FIFO of its side and price.
LevelEnds ==
    \A side \in Sides : \A p \in LimitPrices :
        LET l == priceMap[side][p]
        IN l # None =>
              /\ l \in LiveLevels
              /\ levels[l].price = p
              /\ levels[l].head \in Live
              /\ levels[l].tail \in Live
              /\ orders[levels[l].head].prev = None
              /\ orders[levels[l].tail].next = None
              /\ orders[levels[l].head].side = side /\ orders[levels[l].head].price = p
              /\ orders[levels[l].tail].side = side /\ orders[levels[l].tail].price = p

\* The levels of a side: a doubly linked list, best price first.
LevelsLinked ==
    /\ LevelsOf("Buy") \cap LevelsOf("Sell") = {}
    /\ LiveLevels = LevelsOf("Buy") \cup LevelsOf("Sell")
    /\ \A side \in Sides :
          /\ topLevel[side] \in LevelsOf(side) \cup {None}
          /\ topLevel[side] = None => LevelsOf(side) = {}
          /\ \A l \in LevelsOf(side) :
                /\ {levels[l].next, levels[l].prev} \subseteq LevelsOf(side) \cup {None}
                /\ levels[l].prev = None <=> topLevel[side] = l
                /\ \A m \in LevelsOf(side) :
                      /\ levels[l].next = m <=> levels[m].prev = l
                      /\ levels[l].next = m => Better(side, levels[l].price, levels[m].price)
                      /\ Better(side, levels[l].price, levels[m].price) =>
                            /\ levels[l].next # None
                            /\ ~Better(side, levels[m].price, levels[levels[l].next].price)
                            /\ levels[m].prev # None
                            /\ ~Better(side, levels[levels[m].prev].price, levels[l].price)

\* The linked lists hold together: enqueue, dequeue (from the middle as well),
\* find_or_create_level and remove_level leave every live order on the FIFO of
\* its side and price, oldest first, and every level in its side's list, best
\* price first, with no empty and no leaked level.
ListsLinked == InFlight /\ LiveOrders /\ QueuesLinked /\ LevelEnds /\ LevelsLinked

\* m_index never dangles: an entry that is set names a live order of that bucket
\* and the level the order is on, whatever collisions and repeated ids overwrote
\* or cleared it before.  cancel_order dereferences it without a check.
IndexSound ==
    \A b \in Buckets : index[b] # None =>
        /\ index[b].slot \in Live
        /\ Bucket(orders[index[b].slot].id) = b
        /\ index[b].level = LevelOf(index[b].slot)
        /\ index[b].side = orders[index[b].slot].side

\* The book is never crossed, not between two fills of a match either: match has
\* taken every level an incoming order crosses before the remainder rests.
Uncrossed ==
    \A b \in LevelsOf("Buy"), a \in LevelsOf("Sell") : levels[b].price < levels[a].price

\* m_best_bid and m_best_ask are the best prices orders rest at, or the sentinels,
\* though they are only ever raised by an add and recomputed by a removal.
BestIsTop ==
    \A side \in Sides :
        /\ best[side] = IF topLevel[side] = None THEN EmptyBest(side)
                        ELSE levels[topLevel[side]].price
        /\ \A s \in Live : orders[s].side = side => ~Better(side, orders[s].price, best[side])

\* The live orders of a side and price, and the sum of what they have left.
Queue(side, p) == {s \in Live : orders[s].side = side /\ orders[s].price = p}
LeftIn(Q) == SumFunctionOnSet([s \in Slots |-> orders[s].remaining], Q)

\* total_qty and count of a level, which depth readers see, are those of its queue.
LevelTotals ==
    \A side \in Sides : \A p \in LimitPrices :
        LET l == priceMap[side][p]
        IN l # None => /\ levels[l].total = LeftIn(Queue(side, p))
                       /\ levels[l].count = Cardinality(Queue(side, p))

\* What is owed under a ticket of the history: ordered, less filled and given up
\* (cancelled, dropped, or the rest of a market order).
Owed(entry) == entry.quantity - entry.filled - entry.gone

\* No quantity is lost or made: what is owed under a ticket is what the one order there
\* is of it has left, resting or in flight, and nothing where there is none.
Conserved ==
    /\ \A s \in Live :
          /\ orders[s].remaining = Owed(ledger[orders[s].ticket])
          /\ \A u \in Live : orders[s].ticket = orders[u].ticket => s = u
          /\ taker # None => orders[s].ticket # taker.ticket
    /\ taker # None => taker.remaining = Owed(ledger[taker.ticket])
    /\ \A t \in 1 .. tickets :
          (\A s \in Live : orders[s].ticket # t) /\ (taker # None => taker.ticket # t) => Owed(ledger[t]) = 0

\* An order whose bucket no other accepted order shares can be cancelled for as
\* long as it rests.
Cancellable ==
    \A s \in Live :
        (\A t \in 1 .. tickets : t # orders[s].ticket =>
              Bucket(ledger[t].id) # Bucket(orders[s].id))
        => index[Bucket(orders[s].id)] # None /\ index[Bucket(orders[s].id)].slot = s

\* The level pool never runs out when it is as large as the number of limit prices
\* (16384 >= 9999): an uncrossed book without empty levels has no two levels of
\* one price, so find_or_create_level never fails on an order.
LevelPoolSuffices == Resting => ~NoLevel

\* The book does what PriceTimeBook promises, whose state it hides in its arrays.
Promise == INSTANCE PriceTimeBook WITH
    resting  <- {[ticket |-> orders[s].ticket, id |-> orders[s].id, side |-> orders[s].side,
                  price |-> orders[s].price, remaining |-> orders[s].remaining] : s \in Live},
    incoming <- taker
KeepsPromise == Promise!Spec

=============================================================================
