-------------------------- MODULE OrderBookProofs --------------------------
(***************************************************************************)
(* Proofs about OrderBook, for every pool size, price cap, number of       *)
(* orders and assignment of ids to hash buckets:                           *)
(*   TypeCorrect, ListsStayLinked, IndexStaysSound, NeverCrossed,          *)
(*   BestStaysTop, RefinesPriceTime, LevelsSuffice, NothingLost,           *)
(*   CancelsReach and TotalsAddUp.                                         *)
(*                                                                         *)
(* The lists are inductive only together: dequeue reads a slot and a level *)
(* that cancel_order takes from the index, so IndexSound is needed for     *)
(* ListsLinked, and match takes the head of topLevel, so the order's level *)
(* and the level's ends have to agree.  Better is a strict order on prices *)
(* and tickets are distinct, which is what makes "next" and "prev" the     *)
(* neighbours in it; no induction over a list is needed, because the       *)
(* invariant says of every two orders of a level where the links of one    *)
(* lead on the way to the other.                                           *)
(*                                                                         *)
(* Order of the file: record updates; types; taking an order off (dequeue, *)
(* remove_level); the operations that take off; resting an order (enqueue, *)
(* find_or_create_level); the theorems; the uncrossed book; the cached     *)
(* best prices; the refinement of the price-time book; the level pool; the *)
(* history; who can be cancelled; the totals of the levels.                *)
(***************************************************************************)
EXTENDS OrderBook, SumTheorems

\* The inductive invariant.
IInv == TypeOK /\ ListsLinked /\ IndexSound

MaybeSlot == Slots \cup {None}
MaybeLevel == LevelSlots \cup {None}

\* Relink and Resize, the record updates of the pointer surgery, change the named
\* fields and keep the record's type and its other fields.
LEMMA RelinkOrder ==
  ASSUME NEW r \in Orders, NEW n \in MaybeSlot, NEW p \in MaybeSlot
  PROVE  LET q == Relink(r, n, p)
         IN /\ q \in Orders /\ q.next = n /\ q.prev = p
            /\ q.ticket = r.ticket /\ q.id = r.id /\ q.side = r.side
            /\ q.price = r.price /\ q.remaining = r.remaining
  BY DEF Orders, MaybeSlot, Relink

\* The same for a level.
LEMMA RelinkLevel ==
  ASSUME NEW r \in Levels, NEW n \in MaybeLevel, NEW p \in MaybeLevel
  PROVE  LET q == Relink(r, n, p)
         IN /\ q \in Levels /\ q.next = n /\ q.prev = p
            /\ q.price = r.price /\ q.head = r.head /\ q.tail = r.tail
  BY DEF Levels, MaybeLevel, Relink

\* The ends and totals of a level.
LEMMA ResizeLevel ==
  ASSUME NEW r \in Levels, NEW h \in MaybeSlot, NEW t \in MaybeSlot, NEW c \in Int, NEW n \in Int
  PROVE  LET q == Resize(r, h, t, c, n)
         IN /\ q \in Levels /\ q.head = h /\ q.tail = t
            /\ q.price = r.price /\ q.next = r.next /\ q.prev = r.prev
  BY DEF Levels, MaybeSlot, Resize

\* What TypeOK says of the fields of one order slot and one level slot.
LEMMA Fields ==
  ASSUME TypeOK
  PROVE  /\ \A s \in Slots : /\ orders[s] \in Orders
                             /\ orders[s].ticket \in 0 .. MaxTickets
                             /\ orders[s].id \in OrderIds \cup {None}
                             /\ orders[s].side \in Sides \cup {None}
                             /\ orders[s].price \in 0 .. PriceCap
                             /\ orders[s].remaining \in Nat
                             /\ orders[s].next \in MaybeSlot
                             /\ orders[s].prev \in MaybeSlot
         /\ \A l \in LevelSlots : /\ levels[l] \in Levels
                                  /\ levels[l].price \in 0 .. PriceCap
                                  /\ levels[l].count \in Int
                                  /\ levels[l].total \in Int
                                  /\ levels[l].head \in MaybeSlot
                                  /\ levels[l].tail \in MaybeSlot
                                  /\ levels[l].next \in MaybeLevel
                                  /\ levels[l].prev \in MaybeLevel
<1>1. \A s \in Slots : orders[s] \in Orders
  BY DEF TypeOK
<1>2. \A l \in LevelSlots : levels[l] \in Levels
  BY DEF TypeOK
<1>3. QED BY <1>1, <1>2 DEF Orders, Levels, MaybeSlot, MaybeLevel

\* dequeue, field by field: only the neighbours' links change.
LEMMA UnlinkedFields ==
  ASSUME TypeOK, NEW os \in Slots
  PROVE  /\ Unlinked(os) \in [Slots -> Orders]
         /\ \A o \in Slots \ {os} :
               LET q == Unlinked(os)[o] IN
               /\ q.next = IF o = orders[os].prev THEN orders[os].next ELSE orders[o].next
               /\ q.prev = IF o = orders[os].next THEN orders[os].prev ELSE orders[o].prev
               /\ q.ticket = orders[o].ticket /\ q.id = orders[o].id
               /\ q.side = orders[o].side /\ q.price = orders[o].price
               /\ q.remaining = orders[o].remaining
<1> DEFINE N(o) == IF o = orders[os].prev THEN orders[os].next ELSE orders[o].next
           P(o) == IF o = orders[os].next THEN orders[os].prev ELSE orders[o].prev
<1>1. \A o \in Slots : orders[o] \in Orders /\ N(o) \in MaybeSlot /\ P(o) \in MaybeSlot
  BY Fields
<1>2. EmptySlot \in Orders
  BY BookAssumption DEF EmptySlot, Orders
<1>3. \A o \in Slots \ {os} : Unlinked(os)[o] = Relink(orders[o], N(o), P(o))
  BY DEF Unlinked
<1> HIDE DEF N, P
<1>4. \A o \in Slots \ {os} :
        LET q == Unlinked(os)[o] IN
        /\ q \in Orders /\ q.next = N(o) /\ q.prev = P(o)
        /\ q.ticket = orders[o].ticket /\ q.id = orders[o].id /\ q.side = orders[o].side
        /\ q.price = orders[o].price /\ q.remaining = orders[o].remaining
  <2> TAKE o \in Slots \ {os}
  <2>1. orders[o] \in Orders /\ N(o) \in MaybeSlot /\ P(o) \in MaybeSlot
    BY <1>1
  <2>2. Unlinked(os)[o] = Relink(orders[o], N(o), P(o))
    BY <1>3
  <2> QED BY <2>1, <2>2, RelinkOrder
<1>5. Unlinked(os)[os] = EmptySlot
  BY DEF Unlinked
<1>6. Unlinked(os) = [o \in Slots |-> Unlinked(os)[o]]
  BY DEF Unlinked
<1>7. \A o \in Slots : Unlinked(os)[o] \in Orders
  BY <1>2, <1>4, <1>5
<1> QED BY <1>4, <1>6, <1>7 DEF N, P

\* remove_level, field by field: only the neighbours' links change.
LEMMA BypassedFields ==
  ASSUME TypeOK, NEW ls \in LevelSlots
  PROVE  /\ Bypassed(ls) \in [LevelSlots -> Levels]
         /\ \A l \in LevelSlots \ {ls} :
               LET q == Bypassed(ls)[l] IN
               /\ q.next = IF l = levels[ls].prev THEN levels[ls].next ELSE levels[l].next
               /\ q.prev = IF l = levels[ls].next THEN levels[ls].prev ELSE levels[l].prev
               /\ q.price = levels[l].price
               /\ q.head = levels[l].head /\ q.tail = levels[l].tail
<1> DEFINE N(l) == IF l = levels[ls].prev THEN levels[ls].next ELSE levels[l].next
           P(l) == IF l = levels[ls].next THEN levels[ls].prev ELSE levels[l].prev
<1>1. \A l \in LevelSlots : levels[l] \in Levels /\ N(l) \in MaybeLevel /\ P(l) \in MaybeLevel
  BY Fields
<1>2. EmptyLevel \in Levels
  BY BookAssumption DEF EmptyLevel, Levels
<1>3. \A l \in LevelSlots \ {ls} : Bypassed(ls)[l] = Relink(levels[l], N(l), P(l))
  BY DEF Bypassed
<1> HIDE DEF N, P
<1>4. \A l \in LevelSlots \ {ls} :
        LET q == Bypassed(ls)[l] IN
        /\ q \in Levels /\ q.next = N(l) /\ q.prev = P(l)
        /\ q.price = levels[l].price /\ q.head = levels[l].head /\ q.tail = levels[l].tail
  <2> TAKE l \in LevelSlots \ {ls}
  <2>1. levels[l] \in Levels /\ N(l) \in MaybeLevel /\ P(l) \in MaybeLevel
    BY <1>1
  <2>2. Bypassed(ls)[l] = Relink(levels[l], N(l), P(l))
    BY <1>3
  <2> QED BY <2>1, <2>2, RelinkLevel
<1>5. Bypassed(ls)[ls] = EmptyLevel
  BY DEF Bypassed
<1>6. Bypassed(ls) = [l \in LevelSlots |-> Bypassed(ls)[l]]
  BY DEF Bypassed
<1>7. \A l \in LevelSlots : Bypassed(ls)[l] \in Levels
  BY <1>2, <1>4, <1>5
<1> QED BY <1>4, <1>6, <1>7 DEF N, P

\* dequeue on the level: the ends move when the order was one of them.
LEMMA ShortenedFields ==
  ASSUME TypeOK, NEW os \in Slots, NEW ls \in LevelSlots
  PROVE  LET q == Shortened(ls, os) IN
         /\ q \in Levels
         /\ q.head = IF orders[os].prev = None THEN orders[os].next ELSE levels[ls].head
         /\ q.tail = IF orders[os].next = None THEN orders[os].prev ELSE levels[ls].tail
         /\ q.price = levels[ls].price /\ q.next = levels[ls].next /\ q.prev = levels[ls].prev
<1> DEFINE H == IF orders[os].prev = None THEN orders[os].next ELSE levels[ls].head
           T == IF orders[os].next = None THEN orders[os].prev ELSE levels[ls].tail
           C == levels[ls].count - 1
           M == levels[ls].total - orders[os].remaining
<1>1. H \in MaybeSlot /\ T \in MaybeSlot /\ C \in Int /\ M \in Int /\ levels[ls] \in Levels
  BY Fields
<1>2. Shortened(ls, os) = Resize(levels[ls], H, T, C, M)
  BY DEF Shortened
<1> HIDE DEF H, T, C, M
<1> QED BY <1>1, <1>2, ResizeLevel DEF H, T

-----------------------------------------------------------------------------
\* The empty book has its type.
LEMMA InitTypeOK == Init => TypeOK
  BY BookAssumption DEF Init, TypeOK, Orders, Levels, EmptySlot, EmptyLevel, EmptyBest, Sides, LimitPrices, Ledgers

\* Accepting an order keeps every type.
LEMMA TypeAddOrder ==
  ASSUME TypeOK, NEW id \in OrderIds, NEW side \in Sides, NEW price \in 0 .. PriceCap,
         NEW quantity \in 0 .. MaxQuantity, NEW market \in BOOLEAN,
         AddOrder(id, side, price, quantity, market)
  PROVE  TypeOK'
<1>1. /\ tickets < MaxTickets /\ tickets \in Nat /\ tickets' = tickets + 1
      /\ UNCHANGED <<bookVars, fillSeq>>
  BY BookAssumption DEF AddOrder, TypeOK
<1>2. /\ tickets + 1 \in 1 .. MaxTickets /\ tickets' \in 0 .. MaxTickets
      /\ price \in 0 .. PriceCap /\ quantity \in Nat
  BY <1>1, BookAssumption
<1>3. taker' \in Takers
  BY <1>2 DEF AddOrder, Takers
<1>4. ledger' \in Ledgers
  <2> DEFINE R == [id |-> id, quantity |-> quantity, filled |-> 0, gone |-> 0]
  <2>1. R \in [id : OrderIds \cup {None}, quantity : Nat, filled : Nat, gone : Nat]
    BY <1>2
  <2>2. ledger' = [ledger EXCEPT ![tickets + 1] = R]
    BY DEF AddOrder
  <2>3. ledger \in Ledgers
    BY DEF TypeOK
  <2> HIDE DEF R
  <2> QED BY <2>1, <2>2, <2>3 DEF Ledgers
<1> QED BY <1>1, <1>2, <1>3, <1>4 DEF TypeOK, bookVars

BookTypeOK ==
  /\ orders \in [Slots -> Orders]
  /\ freeOrders \in SUBSET Slots
  /\ levels \in [LevelSlots -> Levels]
  /\ freeLevels \in SUBSET LevelSlots
  /\ priceMap \in [Sides -> [LimitPrices -> LevelSlots \cup {None}]]
  /\ topLevel \in [Sides -> LevelSlots \cup {None}]
  /\ best \in [Sides -> 0 .. PriceCap + 1]
  /\ index \in [Buckets -> Entries \cup {None}]

\* Taking an order off keeps the types of the book's arrays.
LEMMA TypeTakeOff ==
  ASSUME TypeOK, NEW os \in Slots, NEW ls \in LevelSlots, NEW side \in Sides, NEW bucket \in Buckets,
         TakeOff(os, ls, side, bucket)
  PROVE  BookTypeOK'
<1> USE BookAssumption DEF BookTypeOK
<1>1. orders' \in [Slots -> Orders]
  BY UnlinkedFields DEF TakeOff
<1>2. freeOrders' \in SUBSET Slots
  BY DEF TakeOff, TypeOK
<1>3. Shortened(ls, os) \in Levels
  BY ShortenedFields
<1>4. index' \in [Buckets -> Entries \cup {None}]
  BY DEF TakeOff, Cleared, TypeOK
<1>5. CASE Shortened(ls, os).head = None
  <2>1. RemoveLevel(ls, side)
    BY <1>5 DEF TakeOff
  <2>2. levels' \in [LevelSlots -> Levels]
    BY <2>1, BypassedFields DEF RemoveLevel
  <2>3. levels[ls].next \in LevelSlots \cup {None}
    BY Fields DEF MaybeLevel
  <2>4. /\ topLevel' \in [Sides -> LevelSlots \cup {None}]
        /\ freeLevels' \in SUBSET LevelSlots
    BY <2>1, <2>3 DEF RemoveLevel, TypeOK
  <2>5. priceMap' \in [Sides -> [LimitPrices -> LevelSlots \cup {None}]]
    BY <2>1 DEF RemoveLevel, TypeOK
  <2>6. \A top \in LevelSlots \cup {None} : BestOf(side, top) \in 0 .. PriceCap + 1
    BY Fields DEF TypeOK, BestOf, EmptyBest
  <2>7. best' \in [Sides -> 0 .. PriceCap + 1]
    BY <2>1, <2>3, <2>6 DEF RemoveLevel, TypeOK
  <2> QED BY <1>1, <1>2, <1>4, <2>2, <2>4, <2>5, <2>7
<1>6. CASE Shortened(ls, os).head # None
  <2>1. levels' = [levels EXCEPT ![ls] = Shortened(ls, os)]
    BY <1>6 DEF TakeOff
  <2>2. levels' \in [LevelSlots -> Levels]
    BY <2>1, <1>3 DEF TypeOK
  <2>3. UNCHANGED <<freeLevels, priceMap, topLevel, best>>
    BY <1>6 DEF TakeOff
  <2> QED BY <1>1, <1>2, <1>4, <2>2, <2>3 DEF TypeOK
<1> QED BY <1>5, <1>6


\* A price that has a level: the level is in use, and its ends are orders of that price.
LEMMA LevelAt ==
  ASSUME TypeOK, LevelEnds, NEW side \in Sides, NEW p \in LimitPrices, priceMap[side][p] # None
  PROVE  LET l == priceMap[side][p]
         IN /\ l \in LevelSlots /\ l \in LiveLevels /\ l \in LevelsOf(side)
            /\ levels[l].price = p
            /\ levels[l].head \in Live /\ levels[l].tail \in Live
            /\ orders[levels[l].head].prev = None /\ orders[levels[l].tail].next = None
            /\ orders[levels[l].head].side = side /\ orders[levels[l].head].price = p
            /\ orders[levels[l].tail].side = side /\ orders[levels[l].tail].price = p
<1> DEFINE l == priceMap[side][p]
<1>1. l \in LevelsOf(side)
  BY DEF LevelsOf
<1>2. /\ l \in LiveLevels
      /\ levels[l].price = p
      /\ levels[l].head \in Live /\ levels[l].tail \in Live
      /\ orders[levels[l].head].prev = None /\ orders[levels[l].tail].next = None
      /\ orders[levels[l].head].side = side /\ orders[levels[l].head].price = p
      /\ orders[levels[l].tail].side = side /\ orders[levels[l].tail].price = p
  BY DEF LevelEnds
<1>3. l \in LevelSlots
  BY <1>2 DEF LiveLevels
<1> QED BY <1>1, <1>2, <1>3

\* A level of a side is in use, and is the one the price map has at its price.
LEMMA LevelsOfFacts ==
  ASSUME TypeOK, LevelEnds, NEW side \in Sides
  PROVE  /\ \A l : l \in LevelsOf(side) <=> l # None /\ \E p \in LimitPrices : priceMap[side][p] = l
         /\ \A p \in LimitPrices : priceMap[side][p] # None => priceMap[side][p] \in LevelsOf(side)
         /\ \A l \in LevelsOf(side) : /\ l \in LevelSlots /\ l \in LiveLevels
                                      /\ levels[l].price \in LimitPrices
                                      /\ priceMap[side][levels[l].price] = l
<1>1. \A l : l \in LevelsOf(side) <=> l # None /\ \E p \in LimitPrices : priceMap[side][p] = l
  BY DEF LevelsOf
<1>2. \A p \in LimitPrices : priceMap[side][p] # None => levels[priceMap[side][p]].price = p
        /\ priceMap[side][p] \in LiveLevels
  BY DEF LevelEnds
<1> QED BY <1>1, <1>2 DEF LiveLevels

\* A live order's level exists, has its price, and ends in live orders.
LEMMA LiveFacts ==
  ASSUME TypeOK, LiveOrders, LevelEnds, NEW s \in Live
  PROVE  /\ s \in Slots /\ None \notin Live
         /\ orders[s].side \in Sides /\ orders[s].price \in LimitPrices
         /\ LevelOf(s) = priceMap[orders[s].side][orders[s].price]
         /\ LevelOf(s) # None /\ LevelOf(s) \in LevelSlots /\ LevelOf(s) \in LiveLevels
         /\ LevelOf(s) \in LevelsOf(orders[s].side)
         /\ levels[LevelOf(s)].price = orders[s].price
         /\ levels[LevelOf(s)].head \in Live /\ levels[LevelOf(s)].tail \in Live
<1>1. s \in Slots /\ None \notin Live
  BY BookAssumption DEF Live
<1>2. /\ orders[s].side \in Sides /\ orders[s].price \in LimitPrices /\ LevelOf(s) # None
  BY DEF LiveOrders
<1>3. LevelOf(s) = priceMap[orders[s].side][orders[s].price]
  BY DEF LevelOf
<1>4. LevelOf(s) \in LevelSlots
  <2>1. priceMap \in [Sides -> [LimitPrices -> LevelSlots \cup {None}]]
    BY DEF TypeOK
  <2> QED BY <1>2, <1>3, <2>1
<1>5. /\ LevelOf(s) \in LiveLevels
      /\ levels[LevelOf(s)].price = orders[s].price
      /\ levels[LevelOf(s)].head \in Live /\ levels[LevelOf(s)].tail \in Live
  BY <1>2, <1>3 DEF LevelEnds
<1>6. LevelOf(s) \in LevelsOf(orders[s].side)
  BY <1>2, <1>3, LevelsOfFacts
<1> QED BY <1>1, <1>2, <1>3, <1>4, <1>5, <1>6

\* Two live orders of one level slot have one side and one price.
LEMMA SameLevelOf ==
  ASSUME TypeOK, LiveOrders, LevelEnds, LevelsLinked, NEW s \in Live, NEW t \in Live,
         LevelOf(s) = LevelOf(t)
  PROVE  SameLevel(s, t)
<1>1. /\ orders[s].side \in Sides /\ orders[s].price \in LimitPrices /\ LevelOf(s) # None
      /\ orders[t].side \in Sides /\ orders[t].price \in LimitPrices
  BY DEF LiveOrders
<1>2. LevelOf(s) \in LevelsOf(orders[s].side) /\ LevelOf(s) \in LevelsOf(orders[t].side)
  BY <1>1, LevelsOfFacts DEF LevelOf
<1>3. orders[s].side = orders[t].side
  BY <1>1, <1>2 DEF LevelsLinked, Sides
<1>4. orders[s].price = orders[t].price
  BY <1>1 DEF LevelEnds, LevelOf
<1> QED BY <1>3, <1>4 DEF SameLevel

\* An order with no neighbour is the only one of its side and price.
LEMMA AloneOnLevel ==
  ASSUME TypeOK, QueuesLinked, NEW os \in Live, NEW s \in Live, SameLevel(s, os),
         orders[os].prev = None, orders[os].next = None
  PROVE  s = os
<1>1. orders[s].ticket \in Int /\ orders[os].ticket \in Int
  BY Fields DEF Live
<1>2. SameLevel(os, s)
  BY DEF SameLevel
<1>3. ~(orders[s].ticket < orders[os].ticket) /\ ~(orders[os].ticket < orders[s].ticket)
  BY <1>2 DEF QueuesLinked
<1> QED BY <1>1, <1>3 DEF QueuesLinked

\* The live orders after os is taken off.
LEMMA TakeOffOrders ==
  ASSUME TypeOK, LiveOrders, QueuesLinked, LevelEnds,
         NEW os \in Live, NEW bucket \in Buckets,
         TakeOff(os, LevelOf(os), orders[os].side, bucket)
  PROVE  /\ Live' = Live \ {os}
         /\ \A s \in Live' :
               /\ orders'[s].next = IF s = orders[os].prev THEN orders[os].next ELSE orders[s].next
               /\ orders'[s].prev = IF s = orders[os].next THEN orders[os].prev ELSE orders[s].prev
               /\ orders'[s].ticket = orders[s].ticket /\ orders'[s].id = orders[s].id
               /\ orders'[s].side = orders[s].side /\ orders'[s].price = orders[s].price
               /\ orders'[s].remaining = orders[s].remaining
               /\ LevelOf(s)' = LevelOf(s)
<1> DEFINE ls == LevelOf(os)
<1>1. /\ os \in Slots /\ orders[os].side \in Sides /\ orders[os].price \in LimitPrices
      /\ ls # None /\ ls \in LevelSlots /\ levels[ls].head \in Live
      /\ levels[ls].price = orders[os].price
  BY LiveFacts
<1>2. Live' = Live \ {os}
  BY <1>1 DEF TakeOff, Live
<1>3. \A s \in Live' :
               /\ orders'[s].next = IF s = orders[os].prev THEN orders[os].next ELSE orders[s].next
               /\ orders'[s].prev = IF s = orders[os].next THEN orders[os].prev ELSE orders[s].prev
               /\ orders'[s].ticket = orders[s].ticket /\ orders'[s].id = orders[s].id
               /\ orders'[s].side = orders[s].side /\ orders'[s].price = orders[s].price
               /\ orders'[s].remaining = orders[s].remaining
  BY <1>1, <1>2, UnlinkedFields DEF TakeOff, Live
<1>4. ASSUME NEW s \in Live' PROVE LevelOf(s)' = LevelOf(s)
  <2>1. s \in Live /\ s # os /\ orders[s].side \in Sides /\ orders[s].price \in LimitPrices
    BY <1>2 DEF LiveOrders
  <2>2. orders'[s].side = orders[s].side /\ orders'[s].price = orders[s].price
    BY <1>3
  <2>3. CASE Shortened(ls, os).head # None
    BY <2>2, <2>3 DEF TakeOff, LevelOf
  <2>4. CASE Shortened(ls, os).head = None
    <3>1. priceMap' = [priceMap EXCEPT ![orders[os].side][orders[os].price] = None]
      BY <1>1, <2>4 DEF TakeOff, RemoveLevel
    <3>2. orders[os].prev = None /\ orders[os].next = None
      BY <1>1, <2>4, ShortenedFields, BookAssumption DEF Live
    <3>3. ~SameLevel(s, os)
      BY <2>1, <3>2, AloneOnLevel
    <3>4. priceMap'[orders[s].side][orders[s].price] = priceMap[orders[s].side][orders[s].price]
      BY <1>1, <2>1, <3>1, <3>3 DEF SameLevel, TypeOK
    <3> QED BY <2>2, <3>4 DEF LevelOf
  <2> QED BY <2>3, <2>4
<1> QED BY <1>2, <1>3, <1>4

\* dequeue keeps the FIFOs linked and in the order of acceptance, from the front,
\* the middle or the back.
LEMMA TakeOffQueues ==
  ASSUME TypeOK, LiveOrders, QueuesLinked, LevelEnds, LevelsLinked,
         NEW os \in Live, NEW bucket \in Buckets,
         TakeOff(os, LevelOf(os), orders[os].side, bucket)
  PROVE  QueuesLinked'
<1> DEFINE ls == LevelOf(os)
<1>1. /\ os \in Slots /\ orders[os].side \in Sides /\ orders[os].price \in LimitPrices
      /\ ls # None /\ ls \in LevelSlots
  BY DEF Live, LiveOrders, LevelOf, TypeOK
<1>2. Live' = Live \ {os}
  BY TakeOffOrders
<1>3. \A s \in Live' :
        /\ orders'[s].next = IF s = orders[os].prev THEN orders[os].next ELSE orders[s].next
        /\ orders'[s].prev = IF s = orders[os].next THEN orders[os].prev ELSE orders[s].prev
        /\ orders'[s].ticket = orders[s].ticket
        /\ orders'[s].side = orders[s].side /\ orders'[s].price = orders[s].price
        /\ LevelOf(s)' = LevelOf(s)
  BY TakeOffOrders
<1>4. \A s \in Live : orders[s].ticket \in Int
  BY Fields DEF Live
<1>5. ASSUME NEW s \in Live' PROVE {orders'[s].next, orders'[s].prev} \subseteq Live' \cup {None}
  BY <1>2, <1>3, <1>4 DEF QueuesLinked
<1>6. ASSUME NEW s \in Live', NEW t \in Live'
      PROVE  /\ orders'[s].next = t <=> orders'[t].prev = s
             /\ orders'[s].next = t => SameLevel(s, t)' /\ orders'[s].ticket < orders'[t].ticket
             /\ orders'[s].ticket = orders'[t].ticket => s = t
  BY <1>2, <1>3, <1>4, BookAssumption DEF QueuesLinked, SameLevel, Live
<1>7. ASSUME NEW s \in Live', NEW t \in Live', SameLevel(s, t)', orders'[s].ticket < orders'[t].ticket
      PROVE  /\ orders'[s].next # None
             /\ orders'[orders'[s].next].ticket <= orders'[t].ticket
             /\ orders'[t].prev # None
             /\ orders'[s].ticket <= orders'[orders'[t].prev].ticket
  <2>1. /\ s \in Live /\ t \in Live /\ s # os /\ t # os
        /\ SameLevel(s, t) /\ orders[s].ticket < orders[t].ticket
    BY <1>2, <1>3, <1>7 DEF SameLevel
  <2>2. /\ orders[s].next \in Live /\ orders[orders[s].next].ticket <= orders[t].ticket
        /\ orders[t].prev \in Live /\ orders[s].ticket <= orders[orders[t].prev].ticket
    BY <2>1 DEF QueuesLinked
  <2>3. /\ orders'[s].next # None
        /\ orders'[orders'[s].next].ticket <= orders'[t].ticket
    <3>1. CASE s = orders[os].prev
      <4>1. orders[s].next = os /\ SameLevel(os, t) /\ orders[os].ticket # orders[t].ticket
        BY <2>1, <3>1 DEF QueuesLinked, SameLevel
      <4>2. orders[os].ticket < orders[t].ticket
        BY <1>4, <2>1, <2>2, <4>1
      <4>3. orders[os].next \in Live /\ orders[orders[os].next].ticket <= orders[t].ticket
        BY <2>1, <4>1, <4>2 DEF QueuesLinked
      <4> QED BY <1>2, <1>3, <1>5, <2>1, <3>1, <4>3, BookAssumption DEF Live
    <3>2. CASE s # orders[os].prev
      BY <1>2, <1>3, <1>5, <2>1, <2>2, <3>2, BookAssumption DEF Live
    <3> QED BY <3>1, <3>2
  <2>4. /\ orders'[t].prev # None
        /\ orders'[s].ticket <= orders'[orders'[t].prev].ticket
    <3>1. CASE t = orders[os].next
      <4>1. orders[t].prev = os /\ SameLevel(s, os) /\ orders[os].ticket # orders[s].ticket
        BY <2>1, <3>1 DEF QueuesLinked, SameLevel
      <4>2. orders[s].ticket < orders[os].ticket
        BY <1>4, <2>1, <2>2, <4>1
      <4>3. orders[os].prev \in Live /\ orders[s].ticket <= orders[orders[os].prev].ticket
        BY <2>1, <4>1, <4>2 DEF QueuesLinked
      <4> QED BY <1>2, <1>3, <1>5, <2>1, <3>1, <4>3, BookAssumption DEF Live
    <3>2. CASE t # orders[os].next
      BY <1>2, <1>3, <1>5, <2>1, <2>2, <3>2, BookAssumption DEF Live
    <3> QED BY <3>1, <3>2
  <2> QED BY <2>3, <2>4
<1>8. ASSUME NEW s \in Live'
      PROVE  /\ orders'[s].prev = None => levels'[LevelOf(s)'].head = s
             /\ orders'[s].next = None => levels'[LevelOf(s)'].tail = s
  <2> DEFINE l == LevelOf(s)
  <2>1. /\ s \in Live /\ s # os /\ LevelOf(s)' = l /\ l # None /\ l \in LevelSlots
        /\ orders[s].prev = None => levels[l].head = s
        /\ orders[s].next = None => levels[l].tail = s
    <3>1. s \in Live /\ s # os /\ LevelOf(s)' = l
      BY <1>2, <1>3
    <3>2. l # None /\ l \in LevelSlots
      BY <3>1, LiveFacts
    <3> QED BY <3>1, <3>2 DEF QueuesLinked
  <2>2. /\ orders[os].prev = None => levels[ls].head = os
        /\ orders[os].next = None => levels[ls].tail = os
    BY DEF QueuesLinked
  <2>3. s = orders[os].next \/ s = orders[os].prev => l = ls
    BY <2>1 DEF QueuesLinked, SameLevel, LevelOf
  <2>4. CASE l = ls
    <3>1. SameLevel(s, os)
      BY <2>1, <2>4, SameLevelOf
    <3>2. Shortened(ls, os).head # None
      <4>1. levels[ls].head \in Live /\ None \notin Live
        BY <1>1, BookAssumption DEF LevelEnds, LevelOf, Live
      <4>2. SUFFICES ASSUME Shortened(ls, os).head = None PROVE FALSE
        OBVIOUS
      <4>3. orders[os].prev = None /\ orders[os].next = None
        BY <1>1, <4>1, <4>2, ShortenedFields
      <4> QED BY <2>1, <3>1, <4>3, AloneOnLevel
    <3>3. levels' = [levels EXCEPT ![ls] = Shortened(ls, os)]
      BY <3>2 DEF TakeOff
    <3>4. /\ levels'[l].head = IF orders[os].prev = None THEN orders[os].next ELSE levels[ls].head
          /\ levels'[l].tail = IF orders[os].next = None THEN orders[os].prev ELSE levels[ls].tail
      BY <1>1, <2>1, <2>4, <3>3, ShortenedFields DEF TypeOK
    <3> QED BY <1>3, <2>1, <2>2, <2>4, <3>4
  <2>5. CASE l # ls
    <3>1. levels'[l].head = levels[l].head /\ levels'[l].tail = levels[l].tail
      BY <1>1, <2>1, <2>5, BypassedFields DEF TakeOff, RemoveLevel, TypeOK
    <3> QED BY <1>3, <2>1, <2>3, <2>5, <3>1
  <2> QED BY <2>4, <2>5
<1> QED BY <1>5, <1>6, <1>7, <1>8 DEF QueuesLinked

\* The level os was on, in the two cases: it keeps other orders, or it is removed.
LEMMA TakeOffLevel ==
  ASSUME TypeOK, LiveOrders, QueuesLinked, LevelEnds,
         NEW os \in Live, NEW bucket \in Buckets,
         TakeOff(os, LevelOf(os), orders[os].side, bucket)
  PROVE  \/ /\ \E s \in Live : Shortened(LevelOf(os), os).head = s
            /\ orders[os].prev # None \/ orders[os].next # None
            /\ levels' = [levels EXCEPT ![LevelOf(os)] = Shortened(LevelOf(os), os)]
            /\ UNCHANGED <<freeLevels, priceMap, topLevel, best>>
         \/ /\ orders[os].prev = None /\ orders[os].next = None
            /\ levels' = Bypassed(LevelOf(os))
            /\ freeLevels' = freeLevels \cup {LevelOf(os)}
            /\ priceMap' = [priceMap EXCEPT ![orders[os].side][orders[os].price] = None]
            /\ topLevel' = [topLevel EXCEPT ![orders[os].side] =
                  IF levels[LevelOf(os)].prev = None THEN levels[LevelOf(os)].next ELSE @]
            /\ best' = [best EXCEPT ![orders[os].side] = BestOf(orders[os].side, topLevel'[orders[os].side])]
<1> DEFINE ls == LevelOf(os)
<1>1. /\ os \in Slots /\ ls \in LevelSlots /\ levels[ls].head \in Live /\ None \notin Live
      /\ orders[os].next \in Live \cup {None}
      /\ orders[os].side \in Sides /\ levels[ls].price = orders[os].price
      /\ topLevel \in [Sides -> LevelSlots \cup {None}]
  <2>1. orders[os].next \in Live \cup {None}
    BY DEF QueuesLinked
  <2>2. topLevel \in [Sides -> LevelSlots \cup {None}]
    BY DEF TypeOK
  <2> QED BY <2>1, <2>2, LiveFacts
<1>2. Shortened(ls, os).head = IF orders[os].prev = None THEN orders[os].next ELSE levels[ls].head
  BY <1>1, ShortenedFields
<1>3. CASE Shortened(ls, os).head = None
  BY <1>1, <1>2, <1>3 DEF TakeOff, RemoveLevel
<1>4. CASE Shortened(ls, os).head # None
  BY <1>1, <1>2, <1>4 DEF TakeOff
<1> QED BY <1>3, <1>4

\* dequeue and remove_level keep the ends of every level, and no empty level.
LEMMA TakeOffLevelEnds ==
  ASSUME TypeOK, LiveOrders, QueuesLinked, LevelEnds, LevelsLinked,
         NEW os \in Live, NEW bucket \in Buckets,
         TakeOff(os, LevelOf(os), orders[os].side, bucket)
  PROVE  LevelEnds'
<1> DEFINE ls == LevelOf(os)
<1>1. /\ os \in Slots /\ orders[os].side \in Sides /\ orders[os].price \in LimitPrices
      /\ ls # None /\ ls \in LevelSlots /\ None \notin Live
      /\ ls \in LevelsOf(orders[os].side) /\ levels[ls].price = orders[os].price
  BY LiveFacts
<1>2. Live' = Live \ {os}
  BY TakeOffOrders
<1>3. \A s \in Live' :
        /\ orders'[s].next = IF s = orders[os].prev THEN orders[os].next ELSE orders[s].next
        /\ orders'[s].prev = IF s = orders[os].next THEN orders[os].prev ELSE orders[s].prev
        /\ orders'[s].side = orders[s].side /\ orders'[s].price = orders[s].price
  BY TakeOffOrders
<1>4. SUFFICES ASSUME NEW side \in Sides, NEW p \in LimitPrices, priceMap'[side][p] # None
               PROVE  LET l == priceMap'[side][p]
                      IN /\ l \in LiveLevels'
                         /\ levels'[l].price = p
                         /\ levels'[l].head \in Live'
                         /\ levels'[l].tail \in Live'
                         /\ orders'[levels'[l].head].prev = None
                         /\ orders'[levels'[l].tail].next = None
                         /\ orders'[levels'[l].head].side = side /\ orders'[levels'[l].head].price = p
                         /\ orders'[levels'[l].tail].side = side /\ orders'[levels'[l].tail].price = p
  BY DEF LevelEnds
<1> DEFINE l == priceMap'[side][p]
           Kept == /\ orders[os].prev # None \/ orders[os].next # None
                   /\ levels' = [levels EXCEPT ![ls] = Shortened(ls, os)]
                   /\ UNCHANGED <<freeLevels, priceMap>>
           Removed == /\ levels' = Bypassed(ls)
                      /\ freeLevels' = freeLevels \cup {ls}
                      /\ priceMap' = [priceMap EXCEPT ![orders[os].side][orders[os].price] = None]
<1>0. Kept \/ Removed
  BY TakeOffLevel
<1>5. l = priceMap[side][p]
  <2>1. priceMap \in [Sides -> [LimitPrices -> LevelSlots \cup {None}]]
    BY DEF TypeOK
  <2>2. CASE Removed
    BY <1>1, <1>4, <2>1, <2>2
  <2>3. CASE Kept
    BY <2>3
  <2> QED BY <1>0, <2>2, <2>3
<1>6. /\ l \in LiveLevels /\ l \in LevelSlots /\ l \in LevelsOf(side)
      /\ levels[l].price = p
      /\ levels[l].head \in Live /\ levels[l].tail \in Live
      /\ orders[levels[l].head].prev = None /\ orders[levels[l].tail].next = None
      /\ orders[levels[l].head].side = side /\ orders[levels[l].head].price = p
      /\ orders[levels[l].tail].side = side /\ orders[levels[l].tail].price = p
  <2>1. priceMap[side][p] # None
    BY <1>4, <1>5
  <2> HIDE DEF l
  <2> QED BY <1>5, <2>1, LevelAt
<1>7. LevelOf(levels[l].head) = l /\ LevelOf(levels[l].tail) = l
  BY <1>5, <1>6 DEF LevelOf
<1>8. orders[os].next # None => /\ orders[os].next \in Live' /\ SameLevel(os, orders[os].next)
                                /\ orders[orders[os].next].prev = os
  BY <1>1, <1>2, Fields DEF QueuesLinked, Live
<1>9. orders[os].prev # None => /\ orders[os].prev \in Live' /\ SameLevel(orders[os].prev, os)
                                /\ orders[orders[os].prev].next = os
  BY <1>1, <1>2, Fields DEF QueuesLinked, Live
<1>10. CASE l # ls
  <2>1. levels'[l].price = p /\ levels'[l].head = levels[l].head /\ levels'[l].tail = levels[l].tail
    BY <1>0, <1>1, <1>6, <1>10, BypassedFields DEF TypeOK
  <2>2. levels[l].head # os /\ levels[l].tail # os
    BY <1>7, <1>10
  <2>3. levels[l].head # orders[os].next /\ levels[l].tail # orders[os].prev
    BY <1>1, <1>7, <1>8, <1>9, <1>6, <1>10 DEF SameLevel, LevelOf
  <2>4. l \in LiveLevels'
    BY <1>0, <1>6, <1>10 DEF LiveLevels
  <2> QED BY <1>2, <1>3, <1>6, <2>1, <2>2, <2>3, <2>4
<1>11. CASE l = ls
  <2>1. side = orders[os].side
    BY <1>1, <1>6, <1>11 DEF LevelsLinked, Sides
  <2>2. p = orders[os].price
    BY <1>1, <1>6, <1>11
  <2>3. /\ orders[os].prev # None \/ orders[os].next # None
        /\ levels' = [levels EXCEPT ![ls] = Shortened(ls, os)]
        /\ UNCHANGED freeLevels
    BY <1>0, <1>1, <1>4, <2>1, <2>2 DEF TypeOK
  <2>4. /\ levels'[l].head = IF orders[os].prev = None THEN orders[os].next ELSE levels[l].head
        /\ levels'[l].tail = IF orders[os].next = None THEN orders[os].prev ELSE levels[l].tail
        /\ levels'[l].price = p
    BY <1>1, <1>6, <1>11, <2>3, ShortenedFields DEF TypeOK
  <2>5. l \in LiveLevels'
    BY <1>6, <2>3 DEF LiveLevels
  <2>6. /\ levels'[l].head \in Live' /\ orders'[levels'[l].head].prev = None
        /\ orders'[levels'[l].head].side = side /\ orders'[levels'[l].head].price = p
    <3>1. CASE orders[os].prev = None
      <4>1. orders[os].next # None
        BY <2>3, <3>1
      <4>2. /\ orders[os].next \in Live' /\ orders[orders[os].next].prev = os
            /\ orders[orders[os].next].side = side /\ orders[orders[os].next].price = p
        BY <1>8, <2>1, <2>2, <4>1 DEF SameLevel
      <4>3. /\ orders'[orders[os].next].prev = None
            /\ orders'[orders[os].next].side = side /\ orders'[orders[os].next].price = p
        BY <1>3, <3>1, <4>2
      <4>4. levels'[l].head = orders[os].next
        BY <2>4, <3>1
      <4> HIDE DEF l
      <4> QED BY <4>2, <4>3, <4>4
    <3>2. CASE orders[os].prev # None
      BY <1>1, <1>2, <1>3, <1>6, <1>8, <2>4, <3>2
    <3> QED BY <3>1, <3>2
  <2>7. /\ levels'[l].tail \in Live' /\ orders'[levels'[l].tail].next = None
        /\ orders'[levels'[l].tail].side = side /\ orders'[levels'[l].tail].price = p
    <3>1. CASE orders[os].next = None
      <4>1. orders[os].prev # None
        BY <2>3, <3>1
      <4>2. /\ orders[os].prev \in Live' /\ orders[orders[os].prev].next = os
            /\ orders[orders[os].prev].side = side /\ orders[orders[os].prev].price = p
        BY <1>9, <2>1, <2>2, <4>1 DEF SameLevel
      <4>3. /\ orders'[orders[os].prev].next = None
            /\ orders'[orders[os].prev].side = side /\ orders'[orders[os].prev].price = p
        BY <1>3, <3>1, <4>2
      <4>4. levels'[l].tail = orders[os].prev
        BY <2>4, <3>1
      <4> HIDE DEF l
      <4> QED BY <4>2, <4>3, <4>4
    <3>2. CASE orders[os].next # None
      BY <1>1, <1>2, <1>3, <1>6, <1>9, <2>4, <3>2
    <3> QED BY <3>1, <3>2
  <2> QED BY <2>4, <2>5, <2>6, <2>7
<1> QED BY <1>10, <1>11

\* A step that moves no link, price, head or map entry of the levels keeps their lists.
LEMMA LevelsSame ==
  ASSUME TypeOK, LevelsLinked, LevelEnds, UNCHANGED <<priceMap, topLevel, freeLevels>>,
         \A l \in LevelSlots : /\ levels'[l].next = levels[l].next
                               /\ levels'[l].prev = levels[l].prev
                               /\ levels'[l].price = levels[l].price
  PROVE  LevelsLinked'
<1>1. \A side \in Sides : LevelsOf(side)' = LevelsOf(side) /\ LevelsOf(side) \subseteq LevelSlots
  BY LevelsOfFacts DEF LevelsOf
<1>2. LiveLevels' = LiveLevels
  BY DEF LiveLevels
<1>3. "Buy" \in Sides /\ "Sell" \in Sides
  BY DEF Sides
<1>4. LevelsOf("Buy")' \cap LevelsOf("Sell")' = {} /\ LiveLevels' = LevelsOf("Buy")' \cup LevelsOf("Sell")'
  BY <1>1, <1>2, <1>3 DEF LevelsLinked
<1>5. ASSUME NEW side \in Sides
      PROVE  /\ topLevel'[side] \in LevelsOf(side)' \cup {None}
             /\ topLevel'[side] = None => LevelsOf(side)' = {}
             /\ \A l \in LevelsOf(side)' :
                /\ {levels'[l].next, levels'[l].prev} \subseteq LevelsOf(side)' \cup {None}
                /\ levels'[l].prev = None <=> topLevel'[side] = l
  BY <1>1 DEF LevelsLinked
<1>6. ASSUME NEW side \in Sides, NEW l \in LevelsOf(side)', NEW m \in LevelsOf(side)'
      PROVE  /\ levels'[l].next = m <=> levels'[m].prev = l
             /\ levels'[l].next = m => Better(side, levels'[l].price, levels'[m].price)
             /\ Better(side, levels'[l].price, levels'[m].price) =>
                   /\ levels'[l].next # None
                   /\ ~Better(side, levels'[m].price, levels'[levels'[l].next].price)
                   /\ levels'[m].prev # None
                   /\ ~Better(side, levels'[levels'[m].prev].price, levels'[l].price)
  <2>1. l \in LevelsOf(side) /\ m \in LevelsOf(side) /\ l \in LevelSlots /\ m \in LevelSlots
    BY <1>1
  <2>2. {levels[l].next, levels[m].prev} \subseteq LevelSlots \cup {None}
    BY <1>1, <2>1 DEF LevelsLinked
  <2>3. /\ levels[l].next = m <=> levels[m].prev = l
        /\ levels[l].next = m => Better(side, levels[l].price, levels[m].price)
        /\ Better(side, levels[l].price, levels[m].price) =>
              /\ levels[l].next # None
              /\ ~Better(side, levels[m].price, levels[levels[l].next].price)
              /\ levels[m].prev # None
              /\ ~Better(side, levels[levels[m].prev].price, levels[l].price)
    BY <2>1 DEF LevelsLinked
  <2> QED BY <2>1, <2>2, <2>3
<1> QED BY <1>4, <1>5, <1>6 DEF LevelsLinked

\* remove_level keeps the level lists linked and sorted, from the top or the middle.
LEMMA TakeOffLevelsLinked ==
  ASSUME TypeOK, LiveOrders, QueuesLinked, LevelEnds, LevelsLinked,
         NEW os \in Live, NEW bucket \in Buckets,
         TakeOff(os, LevelOf(os), orders[os].side, bucket)
  PROVE  LevelsLinked'
<1>a. PICK at \in Sides : at = orders[os].side
  BY DEF LiveOrders
<1>b. PICK ls \in LevelSlots : ls = LevelOf(os)
  BY DEF LiveOrders, LevelOf, TypeOK
<1>1. /\ os \in Slots /\ orders[os].price \in LimitPrices
      /\ ls # None /\ ls \in LiveLevels
      /\ ls \in LevelsOf(at) /\ levels[ls].price = orders[os].price
      /\ priceMap[at][orders[os].price] = ls
  BY <1>a, <1>b, LiveFacts
<1>2. CASE /\ levels' = [levels EXCEPT ![ls] = Shortened(ls, os)]
           /\ UNCHANGED <<freeLevels, priceMap, topLevel, best>>
  <2>1. \A l \in LevelSlots : /\ levels'[l].next = levels[l].next
                              /\ levels'[l].prev = levels[l].prev
                              /\ levels'[l].price = levels[l].price
    BY <1>1, <1>2, ShortenedFields DEF TypeOK
  <2> QED BY <1>2, <2>1, LevelsSame
<1>3. CASE /\ levels' = Bypassed(ls)
           /\ freeLevels' = freeLevels \cup {ls}
           /\ priceMap' = [priceMap EXCEPT ![at][orders[os].price] = None]
           /\ topLevel' = [topLevel EXCEPT ![at] =
                 IF levels[ls].prev = None THEN levels[ls].next ELSE @]
  <2>1. /\ \A l \in LevelSlots \ {ls} :
             /\ levels'[l].next = IF l = levels[ls].prev THEN levels[ls].next ELSE levels[l].next
             /\ levels'[l].prev = IF l = levels[ls].next THEN levels[ls].prev ELSE levels[l].prev
             /\ levels'[l].price = levels[l].price
    BY <1>1, <1>3, BypassedFields
  <2>2. priceMap \in [Sides -> [LimitPrices -> LevelSlots \cup {None}]]
    BY DEF TypeOK
  <2>3. /\ \A p \in LimitPrices : priceMap'[at][p] =
              IF p = orders[os].price THEN None ELSE priceMap[at][p]
        /\ \A side \in Sides \ {at} : priceMap'[side] = priceMap[side]
    BY <1>1, <1>3, <2>2
  <2>4. \A side \in Sides : LevelsOf(side)' = LevelsOf(side) \ {ls}
    <3>1. ASSUME NEW side \in Sides, side # at PROVE LevelsOf(side)' = LevelsOf(side) \ {ls}
      <4>1. LevelsOf(side)' = LevelsOf(side)
        BY <2>3, <3>1 DEF LevelsOf
      <4>2. ls \notin LevelsOf(side)
        BY <1>1, <3>1 DEF LevelsLinked, Sides
      <4> QED BY <4>1, <4>2
    <3>2. \A p \in LimitPrices : priceMap[at][p] = ls => p = orders[os].price
      BY <1>1 DEF LevelEnds
    <3>3. LevelsOf(at)' = {priceMap'[at][p] : p \in LimitPrices} \ {None}
      BY DEF LevelsOf
    <3>4. LevelsOf(at) = {priceMap[at][p] : p \in LimitPrices} \ {None}
      BY DEF LevelsOf
    <3>5. LevelsOf(at)' = LevelsOf(at) \ {ls}
      BY <1>1, <2>3, <3>2, <3>3, <3>4
    <3> QED BY <3>1, <3>5
  <2>5. \A side \in Sides : LevelsOf(side) \subseteq LevelSlots
    BY LevelsOfFacts
  <2>6. LiveLevels' = LiveLevels \ {ls}
    BY <1>3 DEF LiveLevels
  <2>7. "Buy" \in Sides /\ "Sell" \in Sides
    BY DEF Sides
  <2>8. LevelsOf("Buy")' \cap LevelsOf("Sell")' = {} /\ LiveLevels' = LevelsOf("Buy")' \cup LevelsOf("Sell")'
    BY <2>4, <2>6, <2>7 DEF LevelsLinked
  <2>11. \A l \in LevelsOf(at) : levels[l].price \in Int
    BY LevelsOfFacts, <1>1 DEF LimitPrices
  <2>12. \A side \in Sides \ {at} : LevelsOf(side)' = LevelsOf(side) /\ LevelsOf(side) \cap LevelsOf(at) = {}
    <3>1. LevelsOf("Buy") \cap LevelsOf("Sell") = {}
      BY DEF LevelsLinked
    <3>2. \A side \in Sides \ {at} : LevelsOf(side) \cap LevelsOf(at) = {}
      BY <3>1 DEF Sides
    <3> QED BY <1>1, <2>4, <3>2
  <2> DEFINE pv == levels[ls].prev
             nx == levels[ls].next
  <2>13. /\ {pv, nx} \subseteq LevelsOf(at) \cup {None}
         /\ pv = None <=> topLevel[at] = ls
         /\ pv # ls /\ nx # ls
         /\ \A n \in LevelsOf(at) : /\ levels[n].next = ls <=> n = pv
                                    /\ levels[n].prev = ls <=> n = nx
    <3>0. ls \in LevelsOf(at) /\ at \in Sides /\ None \notin LevelsOf(at)
      BY <1>1 DEF LevelsOf
    <3>1. {pv, nx} \subseteq LevelsOf(at) \cup {None}
      BY <3>0 DEF LevelsLinked
    <3>2. pv = None <=> topLevel[at] = ls
      BY <3>0 DEF LevelsLinked
    <3>3. \A n \in LevelsOf(at) : levels[n].next = ls <=> pv = n
      BY <3>0 DEF LevelsLinked
    <3>4. \A n \in LevelsOf(at) : nx = n <=> levels[n].prev = ls
      BY <3>0 DEF LevelsLinked
    <3>5. nx = ls => Better(at, levels[ls].price, levels[ls].price)
      BY <3>0 DEF LevelsLinked
    <3>6. levels[ls].price \in Int
      BY <2>11, <3>0
    <3>7. nx # ls
      BY <3>5, <3>6 DEF Better
    <3>8. pv # ls
      BY <3>0, <3>3, <3>7
    <3> HIDE DEF pv, nx
    <3> QED BY <3>0, <3>1, <3>2, <3>3, <3>4, <3>7, <3>8
  <2>9. ASSUME NEW side \in Sides
        PROVE  /\ topLevel'[side] \in LevelsOf(side)' \cup {None}
               /\ topLevel'[side] = None => LevelsOf(side)' = {}
               /\ \A l \in LevelsOf(side)' :
                  /\ {levels'[l].next, levels'[l].prev} \subseteq LevelsOf(side)' \cup {None}
                  /\ levels'[l].prev = None <=> topLevel'[side] = l
    <3>2. CASE side = at
      <4>1. topLevel'[at] = IF pv = None THEN nx ELSE topLevel[at]
        BY <1>1, <1>3 DEF TypeOK
      <4>2. topLevel[at] \in LevelsOf(at) \cup {None}
        BY <1>1 DEF LevelsLinked
      <4>3. topLevel'[at] \in LevelsOf(at)' \cup {None}
        BY <1>1, <2>4, <2>13, <4>1, <4>2
      <4>4. ASSUME NEW l \in LevelsOf(at)'
            PROVE  /\ {levels'[l].next, levels'[l].prev} \subseteq LevelsOf(at)' \cup {None}
                   /\ levels'[l].prev = None <=> topLevel'[at] = l
        <5>1. /\ l \in LevelsOf(at) /\ l # ls /\ l \in LevelSlots
              /\ {levels[l].next, levels[l].prev} \subseteq LevelsOf(at) \cup {None}
              /\ levels[l].prev = None <=> topLevel[at] = l
          BY <1>1, <2>4, <2>5 DEF LevelsLinked
        <5>2. /\ levels'[l].next = IF l = pv THEN nx ELSE levels[l].next
              /\ levels'[l].prev = IF l = nx THEN pv ELSE levels[l].prev
          BY <2>1, <5>1
        <5> QED BY <1>1, <2>4, <2>13, <4>1, <5>1, <5>2
      <4>5. ASSUME topLevel'[at] = None PROVE LevelsOf(at)' = {}
        <5>1. SUFFICES ASSUME NEW l \in LevelsOf(at)' PROVE FALSE
          OBVIOUS
        <5>2. /\ l \in LevelsOf(at) /\ l # ls /\ topLevel[at] # None
              /\ levels[l].price \in Int /\ levels[ls].price \in Int
          BY <1>1, <2>4, <2>11 DEF LevelsLinked
        <5>3. pv = None /\ nx = None
          BY <2>13, <4>1, <4>5, <5>2
        <5>4. /\ Better(at, levels[l].price, levels[ls].price) => pv # None
              /\ Better(at, levels[ls].price, levels[l].price) => nx # None
          BY <1>1, <5>2 DEF LevelsLinked
        <5>5. levels[l].price # levels[ls].price
          BY <1>1, <5>2, LevelsOfFacts
        <5> QED BY <5>2, <5>3, <5>4, <5>5 DEF Better
      <4> QED BY <3>2, <4>3, <4>4, <4>5
    <3>3. CASE side # at
      <4>1. LevelsOf(side)' = LevelsOf(side) /\ LevelsOf(side) \cap LevelsOf(at) = {} /\ None \notin LevelsOf(side)
        BY <2>12, <3>3 DEF LevelsOf
      <4>2. topLevel'[side] = topLevel[side]
        BY <1>1, <1>3, <3>3 DEF TypeOK
      <4>3. \A l \in LevelsOf(side) : levels'[l].next = levels[l].next /\ levels'[l].prev = levels[l].prev
        BY <1>1, <2>1, <2>5, <2>13, <4>1
      <4>4. /\ topLevel[side] \in LevelsOf(side) \cup {None}
            /\ topLevel[side] = None => LevelsOf(side) = {}
        BY DEF LevelsLinked
      <4>5. \A l \in LevelsOf(side) :
               /\ {levels[l].next, levels[l].prev} \subseteq LevelsOf(side) \cup {None}
               /\ levels[l].prev = None <=> topLevel[side] = l
        BY DEF LevelsLinked
      <4> QED BY <4>1, <4>2, <4>3, <4>4, <4>5
    <3> QED BY <3>2, <3>3
  <2>10. ASSUME NEW side \in Sides, NEW l \in LevelsOf(side)', NEW m \in LevelsOf(side)'
        PROVE  /\ levels'[l].next = m <=> levels'[m].prev = l
               /\ levels'[l].next = m => Better(side, levels'[l].price, levels'[m].price)
               /\ Better(side, levels'[l].price, levels'[m].price) =>
                     /\ levels'[l].next # None
                     /\ ~Better(side, levels'[m].price, levels'[levels'[l].next].price)
                     /\ levels'[m].prev # None
                     /\ ~Better(side, levels'[levels'[m].prev].price, levels'[l].price)
    <3>2. /\ l \in LevelsOf(side) /\ m \in LevelsOf(side) /\ l # ls /\ m # ls
          /\ l \in LevelSlots /\ m \in LevelSlots
          /\ {levels[l].next, levels[m].prev} \subseteq LevelsOf(side) \cup {None}
          /\ levels[l].next = m <=> levels[m].prev = l
          /\ levels[l].next = m => Better(side, levels[l].price, levels[m].price)
          /\ Better(side, levels[l].price, levels[m].price) =>
                /\ levels[l].next # None
                /\ ~Better(side, levels[m].price, levels[levels[l].next].price)
                /\ levels[m].prev # None
                /\ ~Better(side, levels[levels[m].prev].price, levels[l].price)
      BY <1>1, <2>4, <2>5 DEF LevelsLinked
    <3>3. /\ levels'[l].next = IF l = pv THEN nx ELSE levels[l].next
          /\ levels'[m].prev = IF m = nx THEN pv ELSE levels[m].prev
          /\ levels'[l].price = levels[l].price /\ levels'[m].price = levels[m].price
      BY <2>1, <3>2
    <3>4. CASE side # at
      <4>1. LevelsOf(side)' = LevelsOf(side) /\ LevelsOf(side) \cap LevelsOf(at) = {} /\ None \notin LevelsOf(side)
        BY <2>12, <3>4 DEF LevelsOf
      <4>2. levels'[l].next = levels[l].next /\ levels'[m].prev = levels[m].prev
        BY <2>13, <3>2, <3>3, <4>1
      <4>3. \A n \in LevelsOf(side) : levels'[n].price = levels[n].price
        BY <1>1, <2>1, <2>5, <4>1
      <4> QED BY <3>2, <3>3, <4>2, <4>3
    <3>5. CASE side = at
      <4>1. /\ levels[l].price \in Int /\ levels[m].price \in Int /\ levels[ls].price \in Int
            /\ None \notin LevelsOf(at)
        BY <1>1, <2>11, <3>2, <3>5 DEF LevelsOf
      <4>2. \A n \in LevelsOf(at) \ {ls} : levels'[n].price = levels[n].price /\ levels[n].price \in Int
        BY <2>1, <2>5, <2>11, <1>1
      <4>3. \A n \in LevelsOf(at) :
               /\ levels[n].next = ls => Better(at, levels[n].price, levels[ls].price)
               /\ levels[ls].next = n => Better(at, levels[ls].price, levels[n].price)
               /\ Better(at, levels[n].price, levels[ls].price) =>
                     /\ levels[ls].prev # None
                     /\ ~Better(at, levels[levels[ls].prev].price, levels[n].price)
               /\ Better(at, levels[ls].price, levels[n].price) =>
                     /\ levels[ls].next # None
                     /\ ~Better(at, levels[n].price, levels[levels[ls].next].price)
        BY <1>1 DEF LevelsLinked
      <4>4. levels'[l].next = m <=> levels'[m].prev = l
        <5>1. /\ l \in LevelsOf(at) /\ m \in LevelsOf(at) /\ l # None /\ m # None
              /\ levels[l].next = m <=> levels[m].prev = l
          BY <3>2, <3>5, <4>1
        <5>2. l # ls /\ m # ls
          BY <3>2
        <5>3. levels[l].next = ls <=> l = pv
          BY <2>13, <5>1
        <5>4. levels[m].prev = ls <=> m = nx
          BY <2>13, <5>1
        <5> HIDE DEF pv, nx
        <5>5. CASE l = pv /\ m = nx
          BY <3>3, <5>5
        <5>6. CASE l = pv /\ m # nx
          BY <3>3, <5>1, <5>2, <5>3, <5>6
        <5>7. CASE l # pv /\ m = nx
          BY <3>3, <5>1, <5>2, <5>4, <5>7
        <5>8. CASE l # pv /\ m # nx
          BY <3>3, <5>1, <5>8
        <5> QED BY <5>5, <5>6, <5>7, <5>8
      <4>5. levels'[l].next = m => Better(side, levels'[l].price, levels'[m].price)
        <5>1. CASE l = pv
          BY <1>1, <2>13, <3>2, <3>3, <3>5, <4>1, <4>3, <5>1 DEF Better
        <5>2. CASE l # pv
          BY <3>2, <3>3, <5>2
        <5> QED BY <5>1, <5>2
      <4>6. ASSUME Better(side, levels[l].price, levels[m].price)
            PROVE  /\ levels'[l].next # None
                   /\ ~Better(side, levels[m].price, levels'[levels'[l].next].price)
        <5>1. CASE l = pv
          <6>1. /\ levels[l].next = ls /\ ~Better(at, levels[m].price, levels[ls].price)
            BY <1>1, <2>13, <3>2, <3>5, <4>6, <5>1
          <6>2. m # ls /\ levels[m].price # levels[ls].price
            BY <1>1, <3>2, <3>5, LevelsOfFacts
          <6>3. Better(at, levels[ls].price, levels[m].price)
            BY <4>1, <6>1, <6>2 DEF Better
          <6>4. nx \in LevelsOf(at) \ {ls} /\ ~Better(at, levels[m].price, levels[nx].price)
            BY <2>13, <3>2, <3>5, <4>3, <6>3
          <6> QED BY <3>3, <3>5, <4>1, <4>2, <5>1, <6>4
        <5>2. CASE l # pv
          <6>1. levels[l].next \in LevelsOf(at) \ {ls} /\ ~Better(at, levels[m].price, levels[levels[l].next].price)
            BY <2>13, <3>2, <3>5, <4>6, <5>2
          <6> QED BY <3>3, <3>5, <4>1, <4>2, <5>2, <6>1
        <5> QED BY <5>1, <5>2
      <4>7. ASSUME Better(side, levels[l].price, levels[m].price)
            PROVE  /\ levels'[m].prev # None
                   /\ ~Better(side, levels'[levels'[m].prev].price, levels[l].price)
        <5>1. CASE m = nx
          <6>1. /\ levels[m].prev = ls /\ ~Better(at, levels[ls].price, levels[l].price)
            BY <1>1, <2>13, <3>2, <3>5, <4>7, <5>1
          <6>2. levels[l].price # levels[ls].price
            BY <1>1, <3>2, <3>5, LevelsOfFacts
          <6>3. Better(at, levels[l].price, levels[ls].price)
            BY <4>1, <6>1, <6>2 DEF Better
          <6>4. pv \in LevelsOf(at) \ {ls} /\ ~Better(at, levels[pv].price, levels[l].price)
            BY <2>13, <3>2, <3>5, <4>3, <6>3
          <6> QED BY <3>3, <3>5, <4>1, <4>2, <5>1, <6>4
        <5>2. CASE m # nx
          <6>1. levels[m].prev \in LevelsOf(at) \ {ls} /\ ~Better(at, levels[levels[m].prev].price, levels[l].price)
            BY <2>13, <3>2, <3>5, <4>7, <5>2
          <6> QED BY <3>3, <3>5, <4>1, <4>2, <5>2, <6>1
        <5> QED BY <5>1, <5>2
      <4> QED BY <3>3, <4>4, <4>5, <4>6, <4>7
    <3> QED BY <3>4, <3>5
  <2> QED BY <2>8, <2>9, <2>10 DEF LevelsLinked
<1> QED BY <1>a, <1>b, <1>2, <1>3, TakeOffLevel

\* dequeue, free_order and remove_level as one: the book without the order os.
LEMMA TakeOffBook ==
  ASSUME TypeOK, ListsLinked, IndexSound, NEW os \in Live,
         TakeOff(os, LevelOf(os), orders[os].side, Bucket(orders[os].id)),
         UNCHANGED tickets,
         taker' # None => taker # None /\ taker'.ticket = taker.ticket
  PROVE  /\ BookTypeOK'
         /\ LiveOrders' /\ QueuesLinked' /\ LevelEnds' /\ LevelsLinked'
         /\ IndexSound'
<1> DEFINE bucket == Bucket(orders[os].id)
<1>1. LiveOrders /\ QueuesLinked /\ LevelEnds /\ LevelsLinked
  BY DEF ListsLinked
<1>2. /\ bucket \in Buckets /\ os \in Slots /\ LevelOf(os) \in LevelSlots /\ orders[os].side \in Sides
  BY <1>1, BookAssumption DEF LiveOrders, LevelOf, Live, Bucket, TypeOK
<1>3. BookTypeOK'
  BY <1>2, TypeTakeOff
<1>4. QueuesLinked' /\ LevelEnds' /\ LevelsLinked'
  BY <1>1, <1>2, TakeOffQueues, TakeOffLevelEnds, TakeOffLevelsLinked
<1>5. /\ Live' = Live \ {os}
      /\ \A s \in Live' : /\ orders'[s].ticket = orders[s].ticket /\ orders'[s].id = orders[s].id
                          /\ orders'[s].side = orders[s].side /\ orders'[s].price = orders[s].price
                          /\ orders'[s].remaining = orders[s].remaining
                          /\ LevelOf(s)' = LevelOf(s)
  BY <1>1, <1>2, TakeOffOrders
<1>6. LiveOrders'
  BY <1>1, <1>5 DEF LiveOrders
<1>7. index' = [index EXCEPT ![bucket] = None]
  BY DEF TakeOff, Cleared
<1>8. ASSUME NEW b \in Buckets, index'[b] # None
      PROVE  /\ index'[b].slot \in Live'
             /\ Bucket(orders[index[b].slot].id) = b
             /\ index'[b] = index[b]
             /\ index[b].level = LevelOf(index[b].slot)
             /\ index[b].side = orders[index[b].slot].side
  <2>1. b # bucket /\ index'[b] = index[b]
    BY <1>2, <1>7, <1>8 DEF TypeOK
  <2>2. /\ index[b].slot \in Live
        /\ Bucket(orders[index[b].slot].id) = b
        /\ index[b].level = LevelOf(index[b].slot)
        /\ index[b].side = orders[index[b].slot].side
    BY <1>8, <2>1 DEF IndexSound
  <2>3. index[b].slot # os
    BY <2>1, <2>2
  <2> QED BY <1>5, <2>1, <2>2, <2>3
<1>9. IndexSound'
  BY <1>5, <1>8 DEF IndexSound, Bucket
<1> QED BY <1>3, <1>4, <1>6, <1>9

\* A step that leaves the book alone leaves its lists and its index alone.
LEMMA BookUnchanged ==
  ASSUME ListsLinked, IndexSound, UNCHANGED bookVars
  PROVE  QueuesLinked' /\ LevelEnds' /\ LevelsLinked' /\ IndexSound'
<1>1. QueuesLinked' = QueuesLinked
  BY DEF bookVars, QueuesLinked, Live, LevelOf, SameLevel
<1>2. LevelEnds' = LevelEnds
  BY DEF bookVars, LevelEnds, Live, LiveLevels
<1>3. LevelsLinked' = LevelsLinked
  BY DEF bookVars, LevelsLinked, LiveLevels, LevelsOf
<1>4. IndexSound' = IndexSound
  BY DEF bookVars, IndexSound, Live, LevelOf
<1> QED BY <1>1, <1>2, <1>3, <1>4 DEF ListsLinked

\* The order in flight is accepted after every live order.
LEMMA InvAddOrder ==
  ASSUME IInv, NEW id \in OrderIds, NEW side \in Sides, NEW price \in 0 .. PriceCap,
         NEW quantity \in 0 .. MaxQuantity, NEW market \in BOOLEAN,
         AddOrder(id, side, price, quantity, market)
  PROVE  IInv'
<1>1. TypeOK'
  BY TypeAddOrder DEF IInv
<1>2. QueuesLinked' /\ LevelEnds' /\ LevelsLinked' /\ IndexSound'
  BY BookUnchanged DEF IInv, AddOrder
<1>3. /\ tickets' = tickets + 1 /\ taker'.ticket = tickets + 1 /\ tickets \in Nat
      /\ taker'.price = price /\ taker'.market = market /\ Valid(price, quantity, market)
      /\ UNCHANGED <<orders, freeOrders, priceMap>>
  BY BookAssumption DEF AddOrder, bookVars, IInv, TypeOK
<1>4. InFlight'
  BY <1>3, BookAssumption DEF InFlight, Valid, LimitPrices
<1>5. ASSUME NEW s \in Live
      PROVE  /\ orders[s].id \in OrderIds /\ orders[s].side \in Sides
             /\ orders[s].price \in LimitPrices /\ orders[s].remaining > 0
             /\ orders[s].ticket \in 1 .. tickets' /\ orders[s].ticket < taker'.ticket
             /\ LevelOf(s) # None
  <2>1. LiveOrders
    BY DEF IInv, ListsLinked
  <2> QED BY <1>3, <2>1 DEF LiveOrders
<1>6. LiveOrders'
  BY <1>3, <1>5 DEF LiveOrders, Live, LevelOf
<1> QED BY <1>1, <1>2, <1>4, <1>6 DEF IInv, ListsLinked

\* A live order's ticket is in the history.
LEMMA TicketOf ==
  ASSUME TypeOK, ListsLinked, NEW s \in Live
  PROVE  orders[s].ticket \in 1 .. MaxTickets
<1>1. tickets \in 0 .. MaxTickets
  BY DEF TypeOK
<1>2. orders[s].ticket \in 1 .. tickets
  BY DEF ListsLinked, LiveOrders
<1> QED BY <1>1, <1>2, BookAssumption

\* Giving up a quantity keeps the history's type.
LEMMA LedgerGone ==
  ASSUME ledger \in Ledgers, NEW t \in 1 .. MaxTickets, NEW n \in Nat
  PROVE  [ledger EXCEPT ![t].gone = n] \in Ledgers
  BY DEF Ledgers

\* Filling a quantity keeps the history's type.
LEMMA LedgerFilled ==
  ASSUME NEW L \in Ledgers, NEW t \in 1 .. MaxTickets, NEW n \in Nat
  PROVE  Filled(L, t, n) \in Ledgers
  BY DEF Ledgers, Filled

\* The order in flight leaves, without resting.
LEMMA InvLeave ==
  ASSUME IInv, taker # None,
         ledger' = [ledger EXCEPT ![taker.ticket].gone = taker.remaining],
         taker' = None, UNCHANGED <<bookVars, fillSeq, tickets>>
  PROVE  IInv'
<1>1. TypeOK'
  <2>1. taker \in Takers
    BY DEF IInv, TypeOK
  <2>2. taker.remaining \in Nat
    BY <2>1 DEF Takers
  <2>3. ledger' \in Ledgers
    <3>1. ledger \in Ledgers /\ taker.ticket \in 1 .. MaxTickets
      BY <2>1 DEF IInv, TypeOK, Takers
    <3> QED BY <2>2, <3>1, LedgerGone
  <2> QED BY <2>3 DEF IInv, TypeOK, bookVars
<1>2. QueuesLinked' /\ LevelEnds' /\ LevelsLinked' /\ IndexSound'
  BY BookUnchanged DEF IInv
<1>3. InFlight'
  BY DEF InFlight
<1>4. LiveOrders'
  BY DEF IInv, ListsLinked, LiveOrders, bookVars, Live, LevelOf
<1> QED BY <1>1, <1>2, <1>3, <1>4 DEF IInv, ListsLinked

\* Nothing happens.
LEMMA InvStutter ==
  ASSUME IInv, UNCHANGED vars
  PROVE  IInv'
<1>1. TypeOK'
  BY DEF IInv, TypeOK, vars, bookVars
<1>2. QueuesLinked' /\ LevelEnds' /\ LevelsLinked' /\ IndexSound'
  BY BookUnchanged DEF IInv, vars
<1>3. InFlight' /\ LiveOrders'
  BY DEF IInv, ListsLinked, LiveOrders, InFlight, vars, bookVars, Live, LevelOf
<1> QED BY <1>1, <1>2, <1>3 DEF IInv, ListsLinked

\* cancel_order: what the index names is a live order, on its level.
LEMMA InvCancelOrder ==
  ASSUME IInv, NEW id \in OrderIds, CancelOrder(id)
  PROVE  IInv'
<1>1. TypeOK /\ ListsLinked /\ IndexSound
  BY DEF IInv
<1>2. PICK os \in Live : /\ index[Bucket(id)].slot = os
                         /\ index[Bucket(id)].level = LevelOf(os)
                         /\ index[Bucket(id)].side = orders[os].side
                         /\ Bucket(orders[os].id) = Bucket(id)
  BY <1>1, BookAssumption DEF IndexSound, CancelOrder, Bucket
<1>3. TakeOff(os, LevelOf(os), orders[os].side, Bucket(orders[os].id))
  BY <1>2 DEF CancelOrder
<1>4. taker = None /\ UNCHANGED <<fillSeq, taker, tickets>>
  BY DEF CancelOrder
<1>5. BookTypeOK' /\ LiveOrders' /\ QueuesLinked' /\ LevelEnds' /\ LevelsLinked' /\ IndexSound'
  BY <1>1, <1>3, <1>4, TakeOffBook
<1>6. orders[os].ticket \in 1 .. MaxTickets /\ orders[os].remaining \in Nat /\ ledger \in Ledgers
  BY <1>1, TicketOf, Fields DEF Live, TypeOK
<1>7. ledger' = [ledger EXCEPT ![orders[os].ticket].gone = orders[os].remaining]
  BY <1>2 DEF CancelOrder
<1>8. ledger' \in Ledgers
  BY <1>6, <1>7, LedgerGone
<1>9. TypeOK'
  BY <1>1, <1>4, <1>5, <1>8 DEF TypeOK, BookTypeOK
<1>10. InFlight'
  BY <1>4 DEF InFlight
<1> QED BY <1>5, <1>9, <1>10 DEF IInv, ListsLinked

\* The head order of the level match looks at is live, and is on that level.
LEMMA HeadOrder ==
  ASSUME TypeOK, ListsLinked, NEW side \in Sides, topLevel[side] # None
  PROVE  LET ls == topLevel[side]
             os == levels[ls].head
         IN /\ ls \in LevelsOf(side) /\ ls \in LevelSlots
            /\ os \in Live /\ orders[os].side = side /\ LevelOf(os) = ls
            /\ orders[os].price = levels[ls].price
<1>1. topLevel[side] \in LevelsOf(side)
  BY DEF ListsLinked, LevelsLinked
<1> DEFINE ls == topLevel[side]
           p  == levels[ls].price
<1>2. p \in LimitPrices /\ priceMap[side][p] = ls /\ ls \in LevelSlots
  BY <1>1, LevelsOfFacts DEF ListsLinked
<1>3. /\ levels[ls].head \in Live
      /\ orders[levels[ls].head].side = side /\ orders[levels[ls].head].price = p
  BY <1>2 DEF ListsLinked, LevelEnds
<1> QED BY <1>1, <1>2, <1>3 DEF LevelOf

\* A partial fill of the order os: no link changes.
LEMMA PartialFill ==
  ASSUME TypeOK, ListsLinked, IndexSound, NEW os \in Live, NEW ls \in LevelSlots, NEW q \in Nat,
         q < orders[os].remaining,
         orders' = [orders EXCEPT ![os].remaining = @ - q],
         levels' = [levels EXCEPT ![ls].total = @ - q],
         UNCHANGED <<freeOrders, freeLevels, priceMap, topLevel, best, index, tickets>>,
         taker' # None => taker # None /\ taker'.ticket = taker.ticket
  PROVE  /\ BookTypeOK'
         /\ LiveOrders' /\ QueuesLinked' /\ LevelEnds' /\ LevelsLinked'
         /\ IndexSound'
<1>1. /\ os \in Slots /\ orders[os] \in Orders /\ levels[ls] \in Levels
      /\ orders \in [Slots -> Orders] /\ levels \in [LevelSlots -> Levels]
  BY DEF Live, TypeOK
<1>2. /\ orders' \in [Slots -> Orders]
      /\ \A s \in Slots : /\ orders'[s].next = orders[s].next /\ orders'[s].prev = orders[s].prev
                          /\ orders'[s].ticket = orders[s].ticket /\ orders'[s].id = orders[s].id
                          /\ orders'[s].side = orders[s].side /\ orders'[s].price = orders[s].price
                          /\ s # os => orders'[s].remaining = orders[s].remaining
                          /\ orders'[os].remaining > 0
  BY <1>1 DEF Orders
<1>3. /\ levels' \in [LevelSlots -> Levels]
      /\ \A l \in LevelSlots : /\ levels'[l].next = levels[l].next /\ levels'[l].prev = levels[l].prev
                               /\ levels'[l].price = levels[l].price
                               /\ levels'[l].head = levels[l].head /\ levels'[l].tail = levels[l].tail
  BY <1>1 DEF Levels
<1>4. BookTypeOK'
  BY <1>2, <1>3 DEF TypeOK, BookTypeOK
<1>5. /\ Live' = Live /\ Live \subseteq Slots /\ None \notin Live
      /\ \A s \in Live : LevelOf(s)' = LevelOf(s) /\ LevelOf(s) \in LevelSlots
  BY <1>2, BookAssumption DEF Live, LevelOf, TypeOK, ListsLinked, LiveOrders
<1>6. LiveOrders'
  <2>1. LiveOrders
    BY DEF ListsLinked
  <2>2. ASSUME NEW s \in Live
        PROVE  /\ orders'[s].id \in OrderIds /\ orders'[s].side \in Sides
               /\ orders'[s].price \in LimitPrices /\ orders'[s].remaining > 0
               /\ orders'[s].ticket \in 1 .. tickets
               /\ taker # None => orders'[s].ticket < taker.ticket
               /\ LevelOf(s)' # None
    <3>1. /\ orders[s].id \in OrderIds /\ orders[s].side \in Sides
          /\ orders[s].price \in LimitPrices /\ orders[s].remaining > 0
          /\ orders[s].ticket \in 1 .. tickets
          /\ taker # None => orders[s].ticket < taker.ticket
          /\ LevelOf(s) # None
      BY <2>1 DEF LiveOrders
    <3>2. s \in Slots
      BY <1>5
    <3>3. orders'[s].remaining > 0
      BY <1>2, <3>1, <3>2
    <3> QED BY <1>2, <1>5, <3>1, <3>2, <3>3
  <2> QED BY <1>5, <2>2 DEF LiveOrders
<1>7. LevelsLinked'
  BY <1>3, LevelsSame DEF ListsLinked
<1>8. LevelEnds'
  <2>1. LiveLevels' = LiveLevels /\ LiveLevels \subseteq LevelSlots
    BY DEF LiveLevels
  <2>2. LevelEnds
    BY DEF ListsLinked
  <2>3. ASSUME NEW side \in Sides, NEW p \in LimitPrices, priceMap'[side][p] # None
        PROVE  LET l == priceMap'[side][p]
               IN /\ l \in LiveLevels'
                  /\ levels'[l].price = p
                  /\ levels'[l].head \in Live'
                  /\ levels'[l].tail \in Live'
                  /\ orders'[levels'[l].head].prev = None
                  /\ orders'[levels'[l].tail].next = None
                  /\ orders'[levels'[l].head].side = side /\ orders'[levels'[l].head].price = p
                  /\ orders'[levels'[l].tail].side = side /\ orders'[levels'[l].tail].price = p
    <3> DEFINE l == priceMap'[side][p]
               h == levels[l].head
               t == levels[l].tail
    <3>0. l = priceMap[side][p] /\ priceMap[side][p] # None
      BY <2>3
    <3>1. /\ l \in LiveLevels /\ levels[l].price = p /\ h \in Live /\ t \in Live
          /\ orders[h].prev = None /\ orders[t].next = None
          /\ orders[h].side = side /\ orders[h].price = p
          /\ orders[t].side = side /\ orders[t].price = p
      BY <2>2, <3>0 DEF LevelEnds
    <3> HIDE DEF l
    <3>2. l \in LiveLevels' /\ levels'[l].price = p /\ levels'[l].head = h /\ levels'[l].tail = t
      BY <1>3, <2>1, <3>1
    <3> HIDE DEF h, t
    <3>3. h \in Live' /\ t \in Live' /\ h \in Slots /\ t \in Slots
      BY <1>5, <3>1
    <3>4. /\ orders'[h].prev = None /\ orders'[h].side = side /\ orders'[h].price = p
      BY <1>2, <3>1, <3>3
    <3>5. /\ orders'[t].next = None /\ orders'[t].side = side /\ orders'[t].price = p
      BY <1>2, <3>1, <3>3
    <3> QED BY <3>2, <3>3, <3>4, <3>5 DEF l
  <2> QED BY <2>3 DEF LevelEnds
<1>9. QueuesLinked'
  <2>1. QueuesLinked
    BY DEF ListsLinked
  <2>2. ASSUME NEW s \in Live
        PROVE  /\ {orders'[s].next, orders'[s].prev} \subseteq Live \cup {None}
               /\ orders'[s].prev = None => levels'[LevelOf(s)'].head = s
               /\ orders'[s].next = None => levels'[LevelOf(s)'].tail = s
    BY <1>2, <1>3, <1>5, <2>1 DEF QueuesLinked
  <2>3. ASSUME NEW s \in Live, NEW t \in Live
        PROVE  /\ orders'[s].next = t <=> orders'[t].prev = s
               /\ orders'[s].next = t => SameLevel(s, t)' /\ orders'[s].ticket < orders'[t].ticket
               /\ orders'[s].ticket = orders'[t].ticket => s = t
    BY <1>2, <1>5, <2>1 DEF QueuesLinked, SameLevel
  <2>4. ASSUME NEW s \in Live, NEW t \in Live, SameLevel(s, t)', orders'[s].ticket < orders'[t].ticket
        PROVE  /\ orders'[s].next # None
               /\ orders'[orders'[s].next].ticket <= orders'[t].ticket
               /\ orders'[t].prev # None
               /\ orders'[s].ticket <= orders'[orders'[t].prev].ticket
    <3>1. SameLevel(s, t) /\ orders[s].ticket < orders[t].ticket
      BY <1>2, <1>5, <2>4 DEF SameLevel
    <3>2. /\ orders[s].next \in Live /\ orders[orders[s].next].ticket <= orders[t].ticket
          /\ orders[t].prev \in Live /\ orders[s].ticket <= orders[orders[t].prev].ticket
      BY <2>1, <3>1 DEF QueuesLinked
    <3> QED BY <1>2, <1>5, <3>2
  <2> QED BY <1>5, <2>2, <2>3, <2>4 DEF QueuesLinked
<1>10. IndexSound'
  <2>1. ASSUME NEW b \in Buckets, index[b] # None
        PROVE  /\ index[b].slot \in Live /\ Bucket(orders[index[b].slot].id) = b
               /\ index[b].level = LevelOf(index[b].slot)
               /\ index[b].side = orders[index[b].slot].side
    BY <2>1 DEF IndexSound
  <2> QED BY <1>2, <1>5, <2>1 DEF IndexSound, Bucket
<1> QED BY <1>4, <1>6, <1>7, <1>8, <1>9, <1>10

\* match: the head order of the best level trades, and leaves if it is exhausted.
LEMMA InvFillHead ==
  ASSUME IInv, FillHead
  PROVE  IInv'
<1>1. TypeOK /\ ListsLinked /\ IndexSound
  BY DEF IInv
<1>2. taker \in Takers /\ taker # None
  BY <1>1 DEF FillHead, TypeOK
<1>3. PICK side \in Sides : side = Opposite(taker.side)
  BY <1>2 DEF Takers, Opposite, Sides
<1>4. topLevel[side] # None
  BY <1>3 DEF FillHead, CanFill
<1>5. PICK ls \in LevelSlots : ls = topLevel[side]
  BY <1>1, <1>4, HeadOrder
<1>6. PICK os \in Live : /\ os = levels[ls].head /\ orders[os].side = side /\ LevelOf(os) = ls
  BY <1>1, <1>4, <1>5, HeadOrder
<1>7. PICK q \in Nat : q = FillQuantity(orders[os]) /\ q <= orders[os].remaining /\ q <= taker.remaining
  BY <1>1, <1>2, <1>6, Fields DEF FillQuantity, Takers, Live
<1>8. /\ taker' = [taker EXCEPT !.remaining = @ - q]
      /\ fillSeq' = fillSeq + 1
      /\ ledger' = Filled(Filled(ledger, orders[os].ticket, q), taker.ticket, q)
      /\ IF q = orders[os].remaining
         THEN TakeOff(os, ls, side, Bucket(orders[os].id))
         ELSE /\ orders' = [orders EXCEPT ![os].remaining = @ - q]
              /\ levels' = [levels EXCEPT ![ls].total = @ - q]
              /\ UNCHANGED <<freeOrders, freeLevels, priceMap, topLevel, best, index>>
      /\ UNCHANGED tickets
  BY <1>3, <1>5, <1>6, <1>7 DEF FillHead, DoneBucket
<1>9. /\ taker' \in Takers /\ taker'.ticket = taker.ticket /\ taker'.price = taker.price
      /\ taker'.market = taker.market
  BY <1>2, <1>7, <1>8 DEF Takers
<1>10. BookTypeOK' /\ LiveOrders' /\ QueuesLinked' /\ LevelEnds' /\ LevelsLinked' /\ IndexSound'
  <2>1. CASE q = orders[os].remaining
    BY <1>1, <1>2, <1>6, <1>8, <1>9, <2>1, TakeOffBook
  <2>2. CASE q # orders[os].remaining
    <3>1. q < orders[os].remaining
      BY <1>1, <1>7, <2>2, Fields DEF Live
    <3> QED BY <1>1, <1>2, <1>8, <1>9, <2>2, <3>1, PartialFill
  <2> QED BY <2>1, <2>2
<1>11. ledger' \in Ledgers
  <2>1. orders[os].ticket \in 1 .. MaxTickets /\ taker.ticket \in 1 .. MaxTickets
    BY <1>1, <1>2, TicketOf DEF Takers
  <2>2. Filled(ledger, orders[os].ticket, q) \in Ledgers
    BY <1>1, <2>1, LedgerFilled DEF TypeOK
  <2> QED BY <1>8, <2>1, <2>2, LedgerFilled
<1>12. TypeOK'
  BY <1>1, <1>8, <1>9, <1>10, <1>11 DEF TypeOK, BookTypeOK
<1>13. InFlight'
  BY <1>1, <1>2, <1>8, <1>9 DEF InFlight, ListsLinked
<1> QED BY <1>10, <1>12, <1>13 DEF IInv, ListsLinked

-----------------------------------------------------------------------------
\* enqueue, field by field: the new order, and the link of the one before it.
LEMMA AppendedFields ==
  ASSUME TypeOK, taker # None, NEW os \in Slots, NEW tail \in MaybeSlot
  PROVE  /\ Appended(os, tail) \in [Slots -> Orders]
         /\ LET q == Appended(os, tail)[os] IN
            /\ q.ticket = taker.ticket /\ q.id = taker.id /\ q.side = taker.side
            /\ q.price = taker.price /\ q.remaining = taker.remaining
            /\ q.next = None /\ q.prev = tail
         /\ \A o \in Slots \ {os} :
               LET q == Appended(os, tail)[o] IN
               /\ q.next = IF o = tail THEN os ELSE orders[o].next
               /\ q.prev = orders[o].prev
               /\ q.ticket = orders[o].ticket /\ q.id = orders[o].id
               /\ q.side = orders[o].side /\ q.price = orders[o].price
               /\ q.remaining = orders[o].remaining
<1> DEFINE A == Appended(os, tail)
<1>1. A = [o \in Slots |-> A[o]]
  BY DEF Appended
<1>2. taker \in Takers
  BY DEF TypeOK
<1>3. A[os] = [ticket |-> taker.ticket, id |-> taker.id, side |-> taker.side,
               price |-> taker.price, remaining |-> taker.remaining,
               next |-> None, prev |-> tail]
  BY DEF Appended
<1>4. /\ A[os] \in Orders
      /\ A[os].ticket = taker.ticket /\ A[os].id = taker.id /\ A[os].side = taker.side
      /\ A[os].price = taker.price /\ A[os].remaining = taker.remaining
      /\ A[os].next = None /\ A[os].prev = tail
  BY <1>2, <1>3, BookAssumption DEF Orders, Takers, MaybeSlot
<1>5. ASSUME NEW o \in Slots \ {os}
      PROVE  /\ A[o] \in Orders
             /\ A[o].next = IF o = tail THEN os ELSE orders[o].next
             /\ A[o].prev = orders[o].prev
             /\ A[o].ticket = orders[o].ticket /\ A[o].id = orders[o].id
             /\ A[o].side = orders[o].side /\ A[o].price = orders[o].price
             /\ A[o].remaining = orders[o].remaining
  <2>1. /\ orders[o] \in Orders /\ os \in MaybeSlot /\ orders[o].prev \in MaybeSlot
    BY Fields DEF MaybeSlot
  <2>2. CASE o = tail
    <3>1. A[o] = Relink(orders[o], os, orders[o].prev)
      BY <1>5, <2>2 DEF Appended
    <3>2. LET q == Relink(orders[o], os, orders[o].prev)
          IN /\ q \in Orders /\ q.next = os /\ q.prev = orders[o].prev
             /\ q.ticket = orders[o].ticket /\ q.id = orders[o].id /\ q.side = orders[o].side
             /\ q.price = orders[o].price /\ q.remaining = orders[o].remaining
      BY <2>1 DEF Relink, Orders, MaybeSlot
    <3> HIDE DEF A
    <3> QED BY <2>2, <3>1, <3>2
  <2>3. CASE o # tail
    <3>1. A[o] = orders[o]
      BY <1>5, <2>3 DEF Appended
    <3> QED BY <2>1, <2>3, <3>1
  <2> QED BY <2>2, <2>3
<1>6. \A o \in Slots : A[o] \in Orders
  BY <1>4, <1>5
<1>7. A \in [Slots -> Orders]
  <2> HIDE DEF A
  <2> QED BY <1>1, <1>6
<1> QED BY <1>4, <1>5, <1>7

\* The order that comes to rest, the old orders and the old levels, when the
\* remainder of the taker is linked in behind tail on the level ls.
LEMMA RestFacts ==
  ASSUME IInv, Resting, NEW os \in freeOrders, NEW tail \in Live \cup {None},
         orders' = Appended(os, tail), freeOrders' = freeOrders \ {os}
  PROVE  /\ os \in Slots /\ os \notin Live /\ Live' = Live \cup {os} /\ None \notin Live'
         /\ taker.side \in Sides /\ taker.price \in LimitPrices /\ taker.remaining > 0
         /\ taker.id \in OrderIds /\ taker.ticket = tickets /\ taker.ticket \in 1 .. tickets
         /\ orders' \in [Slots -> Orders]
         /\ orders'[os].ticket = taker.ticket /\ orders'[os].id = taker.id
         /\ orders'[os].side = taker.side /\ orders'[os].price = taker.price
         /\ orders'[os].remaining = taker.remaining
         /\ orders'[os].next = None /\ orders'[os].prev = tail
         /\ \A s \in Live :
               /\ orders'[s].next = IF s = tail THEN os ELSE orders[s].next
               /\ orders'[s].prev = orders[s].prev
               /\ orders'[s].ticket = orders[s].ticket /\ orders'[s].id = orders[s].id
               /\ orders'[s].side = orders[s].side /\ orders'[s].price = orders[s].price
               /\ orders'[s].remaining = orders[s].remaining
               /\ orders[s].ticket \in Nat /\ orders[s].ticket < taker.ticket
               /\ orders[s].ticket \in 1 .. tickets
               /\ LevelOf(s) # None
<1>1. TypeOK /\ InFlight /\ LiveOrders
  BY DEF IInv, ListsLinked
<1>2. /\ os \in Slots /\ os \notin Live /\ Live' = Live \cup {os} /\ None \notin Live'
      /\ Live \subseteq Slots \ {os} /\ tail \in MaybeSlot
  BY <1>1, BookAssumption DEF Live, TypeOK, MaybeSlot
<1>3. taker # None /\ taker \in Takers /\ tickets \in Nat /\ taker.remaining > 0 /\ ~taker.market
  BY <1>1, BookAssumption DEF Resting, TypeOK
<1>4. /\ taker.side \in Sides /\ taker.price \in LimitPrices
      /\ taker.id \in OrderIds /\ taker.ticket = tickets /\ taker.ticket \in 1 .. tickets
  BY <1>1, <1>3 DEF InFlight, Takers
<1>5. ASSUME NEW s \in Live
      PROVE  /\ orders[s].ticket \in Nat /\ orders[s].ticket < taker.ticket
             /\ orders[s].ticket \in 1 .. tickets
             /\ LevelOf(s) # None
  <2>1. orders[s].ticket \in 1 .. tickets /\ orders[s].ticket < taker.ticket /\ LevelOf(s) # None
    BY <1>1, <1>3 DEF LiveOrders
  <2> QED BY <1>3, <2>1
<1>6. /\ orders' \in [Slots -> Orders]
      /\ orders'[os].ticket = taker.ticket /\ orders'[os].id = taker.id
      /\ orders'[os].side = taker.side /\ orders'[os].price = taker.price
      /\ orders'[os].remaining = taker.remaining
      /\ orders'[os].next = None /\ orders'[os].prev = tail
  BY <1>1, <1>2, <1>3, AppendedFields
<1>7. ASSUME NEW s \in Live
      PROVE  /\ orders'[s].next = IF s = tail THEN os ELSE orders[s].next
             /\ orders'[s].prev = orders[s].prev
             /\ orders'[s].ticket = orders[s].ticket /\ orders'[s].id = orders[s].id
             /\ orders'[s].side = orders[s].side /\ orders'[s].price = orders[s].price
             /\ orders'[s].remaining = orders[s].remaining
  BY <1>1, <1>2, <1>3, AppendedFields
<1> QED BY <1>2, <1>3, <1>4, <1>5, <1>6, <1>7

\* The rest of a resting step, once the lists are known: what is published.
LEMMA RestPublished ==
  ASSUME IInv, Resting, NEW os \in freeOrders, NEW tail \in Live \cup {None}, NEW ls \in LevelSlots,
         orders' = Appended(os, tail), Publish(os, ls), UNCHANGED <<fillSeq, ledger, tickets>>,
         levels' \in [LevelSlots -> Levels], freeLevels' \in SUBSET LevelSlots,
         priceMap' \in [Sides -> [LimitPrices -> LevelSlots \cup {None}]],
         topLevel' \in [Sides -> LevelSlots \cup {None}],
         \A s \in Live : LevelOf(s)' = LevelOf(s),
         LevelOf(os)' = ls
  PROVE  TypeOK' /\ InFlight' /\ LiveOrders' /\ IndexSound'
<1>1. /\ freeOrders' = freeOrders \ {os} /\ taker' = None
      /\ index' = [index EXCEPT ![Bucket(taker.id)] = [slot |-> os, level |-> ls, side |-> taker.side]]
      /\ best' = [best EXCEPT ![taker.side] =
                    IF Better(taker.side, taker.price, @) THEN taker.price ELSE @]
  BY DEF Publish
<1>2. TypeOK
  BY DEF IInv
<1>3. /\ os \in Slots /\ os \notin Live /\ Live' = Live \cup {os}
      /\ taker.side \in Sides /\ taker.price \in LimitPrices /\ taker.remaining > 0
      /\ taker.id \in OrderIds /\ taker.ticket \in 1 .. tickets
      /\ orders' \in [Slots -> Orders]
      /\ orders'[os].ticket = taker.ticket /\ orders'[os].id = taker.id
      /\ orders'[os].side = taker.side /\ orders'[os].price = taker.price
      /\ orders'[os].remaining = taker.remaining
  BY <1>1, RestFacts
<1>4. \A s \in Live :
         /\ orders'[s].ticket = orders[s].ticket /\ orders'[s].id = orders[s].id
         /\ orders'[s].side = orders[s].side /\ orders'[s].price = orders[s].price
         /\ orders'[s].remaining = orders[s].remaining
  BY <1>1, RestFacts
<1>5. TypeOK'
  <2>1. index' \in [Buckets -> Entries \cup {None}]
    BY <1>1, <1>2, <1>3 DEF TypeOK, Entries
  <2>2. best' \in [Sides -> 0 .. PriceCap + 1]
    BY <1>1, <1>2, <1>3, BookAssumption DEF TypeOK, LimitPrices
  <2>3. freeOrders' \in SUBSET Slots
    BY <1>1, <1>2 DEF TypeOK
  <2>4. /\ fillSeq' \in Nat /\ taker' \in Takers \cup {None} /\ ledger' \in Ledgers
        /\ tickets' \in 0 .. MaxTickets
    BY <1>1, <1>2 DEF TypeOK
  <2> QED BY <1>3, <2>1, <2>2, <2>3, <2>4 DEF TypeOK
<1>6. InFlight'
  BY <1>1 DEF InFlight
<1>7. LiveOrders'
  <2>1. ASSUME NEW s \in Live
        PROVE  /\ orders'[s].id \in OrderIds /\ orders'[s].side \in Sides
               /\ orders'[s].price \in LimitPrices /\ orders'[s].remaining > 0
               /\ orders'[s].ticket \in 1 .. tickets /\ LevelOf(s)' # None
    <3>1. LiveOrders
      BY DEF IInv, ListsLinked
    <3> QED BY <1>4, <3>1 DEF LiveOrders
  <2>2. LevelOf(os)' # None
    BY BookAssumption
  <2> QED BY <1>1, <1>3, <2>1, <2>2 DEF LiveOrders
<1>8. IndexSound'
  <2>1. ASSUME NEW b \in Buckets, index'[b] # None
        PROVE  /\ index'[b].slot \in Live' /\ Bucket(orders'[index'[b].slot].id) = b
               /\ index'[b].level = LevelOf(index[b].slot)' \/ b = Bucket(taker.id)
               /\ b = Bucket(taker.id) => index'[b].slot = os /\ index'[b].level = ls
               /\ b # Bucket(taker.id) => index'[b] = index[b]
               /\ index'[b].side = orders'[index'[b].slot].side
    <3>1. CASE b = Bucket(taker.id)
      BY <1>1, <1>2, <1>3, <3>1 DEF TypeOK
    <3>2. CASE b # Bucket(taker.id)
      <4>1. index'[b] = index[b]
        BY <1>1, <1>2, <3>2 DEF TypeOK
      <4>2. /\ index[b].slot \in Live /\ Bucket(orders[index[b].slot].id) = b
            /\ index[b].level = LevelOf(index[b].slot)
            /\ index[b].side = orders[index[b].slot].side
        BY <2>1, <4>1 DEF IInv, IndexSound
      <4> QED BY <1>3, <1>4, <3>2, <4>1, <4>2
    <3> QED BY <3>1, <3>2
  <2> QED BY <2>1 DEF IndexSound, Bucket
<1> QED BY <1>5, <1>6, <1>7, <1>8

\* enqueue on a level that exists: the taker goes to the back of its FIFO.
LEMMA InvJoinLevel ==
  ASSUME IInv, JoinLevel
  PROVE  IInv'
<1>0. TypeOK /\ LiveOrders /\ QueuesLinked /\ LevelEnds /\ LevelsLinked
  BY DEF IInv, ListsLinked
<1>1. Resting /\ taker # None /\ taker.side \in Sides /\ taker.price \in LimitPrices
  BY <1>0 DEF JoinLevel, Resting, IInv, ListsLinked, InFlight, TypeOK, Takers
<1>2. PICK ls \in LevelSlots : ls = priceMap[taker.side][taker.price]
  <2>1. priceMap[taker.side][taker.price] # None
    BY DEF JoinLevel
  <2> QED BY <1>0, <1>1, <2>1, LevelAt
<1>3. ls # None /\ UNCHANGED <<freeLevels, priceMap, topLevel, fillSeq, ledger, tickets>>
  BY <1>2 DEF JoinLevel
<1>a. /\ levels[ls].tail \in Live /\ orders[levels[ls].tail].next = None
      /\ orders[levels[ls].tail].side = taker.side /\ orders[levels[ls].tail].price = taker.price
  <2>1. priceMap[taker.side][taker.price] # None
    BY <1>2, <1>3
  <2> QED BY <1>0, <1>1, <1>2, <2>1, LevelAt
<1>4. PICK tail \in Live : tail = levels[ls].tail
  BY <1>a
<1>5. /\ tail # None /\ orders[tail].next = None
      /\ orders[tail].side = taker.side /\ orders[tail].price = taker.price
  <2>1. None \notin Live
    BY BookAssumption DEF Live
  <2> QED BY <1>a, <1>4, <2>1
<1>6. PICK os \in freeOrders :
         /\ orders' = Appended(os, tail)
         /\ levels' = [levels EXCEPT ![ls] =
               Resize(levels[ls], levels[ls].head, os,
                      levels[ls].count + 1, levels[ls].total + taker.remaining)]
         /\ Publish(os, ls)
  BY <1>2, <1>4, <1>5 DEF JoinLevel
<1>7. /\ os \in Slots /\ os \notin Live /\ Live' = Live \cup {os} /\ None \notin Live'
      /\ orders'[os].ticket = taker.ticket
      /\ orders'[os].side = taker.side /\ orders'[os].price = taker.price
      /\ orders'[os].next = None /\ orders'[os].prev = tail
      /\ taker.ticket \in Nat
  BY <1>1, <1>6, RestFacts DEF Publish
<1>8. \A s \in Live :
         /\ orders'[s].next = IF s = tail THEN os ELSE orders[s].next
         /\ orders'[s].prev = orders[s].prev
         /\ orders'[s].ticket = orders[s].ticket
         /\ orders'[s].side = orders[s].side /\ orders'[s].price = orders[s].price
         /\ orders[s].ticket \in Nat /\ orders[s].ticket < taker.ticket
         /\ LevelOf(s) # None
  BY <1>1, <1>6, RestFacts DEF Publish
<1>9. /\ levels' \in [LevelSlots -> Levels]
      /\ \A l \in LevelSlots :
            /\ levels'[l].next = levels[l].next /\ levels'[l].prev = levels[l].prev
            /\ levels'[l].price = levels[l].price /\ levels'[l].head = levels[l].head
            /\ levels'[l].tail = IF l = ls THEN os ELSE levels[l].tail
  <2> DEFINE C == levels[ls].count + 1
             T == levels[ls].total + taker.remaining
             R == Resize(levels[ls], levels[ls].head, os, C, T)
  <2>1. /\ levels[ls] \in Levels /\ levels[ls].head \in MaybeSlot /\ os \in MaybeSlot
        /\ C \in Int /\ T \in Int
    <3>1. taker.remaining \in Nat
      BY <1>0, <1>1 DEF TypeOK, Takers
    <3> QED BY <1>0, <1>7, <3>1, Fields DEF MaybeSlot
  <2> HIDE DEF C, T
  <2>2. /\ R \in Levels /\ R.head = levels[ls].head /\ R.tail = os
        /\ R.price = levels[ls].price /\ R.next = levels[ls].next /\ R.prev = levels[ls].prev
    BY <2>1, ResizeLevel
  <2>3. levels' = [levels EXCEPT ![ls] = R]
    BY <1>6 DEF C, T
  <2>4. levels \in [LevelSlots -> Levels]
    BY <1>0 DEF TypeOK
  <2> HIDE DEF R
  <2> QED BY <2>2, <2>3, <2>4
<1>10. \A s \in Live : LevelOf(s)' = LevelOf(s) /\ LevelOf(s) \in LevelSlots
  BY <1>0, <1>3, <1>8 DEF LevelOf, LiveOrders, TypeOK
<1>11. LevelOf(os)' = ls /\ LevelOf(tail) = ls
  BY <1>2, <1>3, <1>5, <1>7 DEF LevelOf
<1>12. TypeOK' /\ InFlight' /\ LiveOrders' /\ IndexSound'
  <2>1. /\ freeLevels' \in SUBSET LevelSlots
        /\ priceMap' \in [Sides -> [LimitPrices -> LevelSlots \cup {None}]]
        /\ topLevel' \in [Sides -> LevelSlots \cup {None}]
    BY <1>0, <1>3 DEF TypeOK
  <2> QED BY <1>1, <1>3, <1>6, <1>9, <1>10, <1>11, <2>1, RestPublished
<1>13. LevelsLinked'
  BY <1>0, <1>3, <1>9, LevelsSame
<1>14. LevelEnds'
  <2>1. LiveLevels' = LiveLevels
    BY <1>3 DEF LiveLevels
  <2>2. ASSUME NEW side \in Sides, NEW p \in LimitPrices, priceMap[side][p] # None
        PROVE  LET l == priceMap[side][p]
               IN /\ l \in LiveLevels
                  /\ levels'[l].price = p
                  /\ levels'[l].head \in Live'
                  /\ levels'[l].tail \in Live'
                  /\ orders'[levels'[l].head].prev = None
                  /\ orders'[levels'[l].tail].next = None
                  /\ orders'[levels'[l].head].side = side /\ orders'[levels'[l].head].price = p
                  /\ orders'[levels'[l].tail].side = side /\ orders'[levels'[l].tail].price = p
    <3>1. PICK l \in LevelSlots : l = priceMap[side][p]
      BY <1>0, <2>2 DEF TypeOK
    <3>2. /\ l \in LiveLevels /\ l \in LevelsOf(side) /\ levels[l].price = p
          /\ levels[l].head \in Live /\ levels[l].tail \in Live
          /\ orders[levels[l].head].prev = None /\ orders[levels[l].tail].next = None
          /\ orders[levels[l].head].side = side /\ orders[levels[l].head].price = p
          /\ orders[levels[l].tail].side = side /\ orders[levels[l].tail].price = p
      <4>1. l \in LevelsOf(side)
        BY <1>0, <2>2, <3>1, LevelsOfFacts
      <4>2. LevelEnds /\ l # None
        BY <1>0, <2>2, <3>1
      <4> QED BY <3>1, <4>1, <4>2 DEF LevelEnds
    <3>3. /\ levels'[l].head \in Live' /\ orders'[levels'[l].head].prev = None
          /\ orders'[levels'[l].head].side = side /\ orders'[levels'[l].head].price = p
      BY <1>7, <1>8, <1>9, <3>2
    <3>4. CASE l # ls
      <4>1. levels[l].tail # tail
        BY <1>11, <3>1, <3>2, <3>4 DEF LevelOf
      <4> QED BY <1>7, <1>8, <1>9, <3>1, <3>2, <3>3, <3>4, <4>1
    <3>5. CASE l = ls
      <4>1. l \in LevelsOf(taker.side) /\ levels[l].price = taker.price
        BY <1>0, <1>1, <1>2, <1>3, <3>5, LevelsOfFacts DEF LevelEnds
      <4>2. side = taker.side /\ p = taker.price
        BY <1>0, <1>1, <3>2, <4>1 DEF LevelsLinked, Sides
      <4> QED BY <1>7, <1>9, <3>1, <3>2, <3>3, <3>5, <4>2
    <3> QED BY <3>4, <3>5
  <2> QED BY <1>3, <2>1, <2>2 DEF LevelEnds
<1>15. QueuesLinked'
  <2>1. ASSUME NEW s \in Live'
        PROVE  /\ {orders'[s].next, orders'[s].prev} \subseteq Live' \cup {None}
               /\ orders'[s].prev = None => levels'[LevelOf(s)'].head = s
               /\ orders'[s].next = None => levels'[LevelOf(s)'].tail = s
    <3>1. CASE s = os
      BY <1>3, <1>5, <1>7, <1>9, <1>11, <3>1
    <3>2. CASE s # os
      <4>1. /\ s \in Live /\ {orders[s].next, orders[s].prev} \subseteq Live \cup {None}
            /\ orders[s].prev = None => levels[LevelOf(s)].head = s
            /\ orders[s].next = None => levels[LevelOf(s)].tail = s
        BY <1>0, <1>7, <3>2 DEF QueuesLinked
      <4>2. LevelOf(s) = ls /\ orders[s].next = None => s = tail
        BY <1>4, <4>1
      <4> QED BY <1>7, <1>8, <1>9, <1>10, <4>1, <4>2
    <3> QED BY <3>1, <3>2
  <2>2. ASSUME NEW s \in Live', NEW t \in Live'
        PROVE  /\ orders'[s].next = t <=> orders'[t].prev = s
               /\ orders'[s].next = t => SameLevel(s, t)' /\ orders'[s].ticket < orders'[t].ticket
               /\ orders'[s].ticket = orders'[t].ticket => s = t
    <3>1. CASE s = os
      <4>1. orders'[s].next # t
        BY <1>7, <3>1
      <4>2. orders'[t].prev # os
        BY <1>0, <1>7, <1>8 DEF QueuesLinked
      <4> QED BY <1>7, <1>8, <3>1, <4>1, <4>2
    <3>2. CASE s # os /\ t = os
      <4>1. s \in Live /\ orders[s].next # os
        BY <1>0, <1>7, <3>2 DEF QueuesLinked
      <4> QED BY <1>5, <1>7, <1>8, <3>2, <4>1 DEF SameLevel
    <3>3. CASE s # os /\ t # os
      <4>1. /\ s \in Live /\ t \in Live
            /\ orders[s].next = t <=> orders[t].prev = s
            /\ orders[s].next = t => SameLevel(s, t) /\ orders[s].ticket < orders[t].ticket
            /\ orders[s].ticket = orders[t].ticket => s = t
        BY <1>0, <1>7, <3>3 DEF QueuesLinked
      <4>2. s = tail => orders[s].next # t
        BY <1>5, <1>7, <4>1
      <4> QED BY <1>8, <3>3, <4>1, <4>2 DEF SameLevel
    <3> QED BY <3>1, <3>2, <3>3
  <2>3. ASSUME NEW s \in Live', NEW t \in Live', SameLevel(s, t)', orders'[s].ticket < orders'[t].ticket
        PROVE  /\ orders'[s].next # None
               /\ orders'[orders'[s].next].ticket <= orders'[t].ticket
               /\ orders'[t].prev # None
               /\ orders'[s].ticket <= orders'[orders'[t].prev].ticket
    <3>1. s # os /\ s \in Live
      BY <1>7, <1>8, <2>3
    <3>2. CASE t = os
      <4>1. SameLevel(s, tail) /\ SameLevel(tail, s)
        BY <1>5, <1>7, <1>8, <2>3, <3>1, <3>2 DEF SameLevel
      <4>2. LevelOf(s) = ls
        BY <1>11, <4>1 DEF SameLevel, LevelOf
      <4>3. s # tail => orders[s].next \in Live
        BY <1>0, <1>4, <3>1, <4>2 DEF QueuesLinked
      <4>4. orders[s].ticket <= orders[tail].ticket
        <5>1. ~(orders[tail].ticket < orders[s].ticket)
          BY <1>0, <1>5, <3>1, <4>1 DEF QueuesLinked
        <5> QED BY <1>8, <3>1, <5>1
      <4>5. orders'[s].next # None /\ orders'[orders'[s].next].ticket <= orders'[t].ticket
        <5>1. CASE s = tail
          BY <1>7, <1>8, <3>1, <3>2, <5>1
        <5>2. CASE s # tail
          <6>1. orders'[s].next = orders[s].next /\ orders[s].next \in Live
            BY <1>8, <3>1, <4>3, <5>2
          <6>2. /\ orders'[orders[s].next].ticket < taker.ticket
                /\ orders'[orders[s].next].ticket \in Nat
            BY <1>8, <6>1
          <6>3. orders'[t].ticket = taker.ticket
            BY <1>7, <3>2
          <6>4. orders[s].next # None
            BY <1>7, <6>1
          <6> QED BY <1>7, <6>1, <6>2, <6>3, <6>4
        <5> QED BY <5>1, <5>2
      <4> QED BY <1>5, <1>7, <1>8, <3>1, <3>2, <4>4, <4>5
    <3>3. CASE t # os
      <4>1. t \in Live /\ SameLevel(s, t) /\ orders[s].ticket < orders[t].ticket
        BY <1>7, <1>8, <2>3, <3>1, <3>3 DEF SameLevel
      <4>2. /\ orders[s].next \in Live /\ orders[orders[s].next].ticket <= orders[t].ticket
            /\ orders[t].prev \in Live /\ orders[s].ticket <= orders[orders[t].prev].ticket
        BY <1>0, <3>1, <4>1 DEF QueuesLinked
      <4>3. s # tail
        BY <1>5, <1>7, <4>2
      <4> QED BY <1>7, <1>8, <3>1, <4>1, <4>2, <4>3
    <3> QED BY <3>2, <3>3
  <2> QED BY <2>1, <2>2, <2>3 DEF QueuesLinked
<1> QED BY <1>12, <1>13, <1>14, <1>15 DEF IInv, ListsLinked

\* The top level of a side is the best of them.
LEMMA TopIsBest ==
  ASSUME TypeOK, LevelEnds, LevelsLinked, NEW side \in Sides, NEW l \in LevelsOf(side)
  PROVE  /\ topLevel[side] \in LevelsOf(side) /\ topLevel[side] # None
         /\ ~Better(side, levels[l].price, levels[topLevel[side]].price)
<1>1. topLevel[side] \in LevelsOf(side) /\ topLevel[side] # None
  BY DEF LevelsLinked, LevelsOf
<1>2. levels[topLevel[side]].prev = None
  BY <1>1 DEF LevelsLinked
<1>3. ~Better(side, levels[l].price, levels[topLevel[side]].price)
  BY <1>1, <1>2 DEF LevelsLinked
<1> QED BY <1>1, <1>3

\* The level ls at price v is linked in between the levels p and c.
LevelInserted(at, v, ls, p, c) ==
  /\ priceMap[at][v] = None
  /\ IF p = None THEN c = topLevel[at]
     ELSE p \in LevelsOf(at) /\ ~Better(at, v, levels[p].price) /\ c = levels[p].next
  /\ c # None => Better(at, v, levels[c].price)
  /\ \A l \in LevelSlots \ {ls} :
        /\ levels'[l].next = IF l = p THEN ls ELSE levels[l].next
        /\ levels'[l].prev = IF l = c THEN ls ELSE levels[l].prev
        /\ levels'[l].price = levels[l].price
  /\ levels'[ls].next = c /\ levels'[ls].prev = p /\ levels'[ls].price = v
  /\ freeLevels' = freeLevels \ {ls}
  /\ priceMap' = [priceMap EXCEPT ![at][v] = ls]
  /\ topLevel' = IF p = None THEN [topLevel EXCEPT ![at] = ls] ELSE topLevel

\* find_or_create_level: the level ls at price v, linked in where the walk stopped,
\* keeps the side sorted.  p and c are the levels before and after it.
LEMMA InsertLevel ==
  ASSUME TypeOK, LevelEnds, LevelsLinked, NEW at \in Sides, NEW v \in LimitPrices,
         NEW ls \in freeLevels, NEW p, NEW c, LevelInserted(at, v, ls, p, c)
  PROVE  LevelsLinked' /\ LevelsOf(at)' = LevelsOf(at) \cup {ls}
<1> USE DEF LevelInserted
<1>1. /\ ls \in LevelSlots /\ ls # None /\ ls \notin LiveLevels
      /\ priceMap \in [Sides -> [LimitPrices -> LevelSlots \cup {None}]]
      /\ topLevel \in [Sides -> LevelSlots \cup {None}]
  BY BookAssumption DEF TypeOK, LiveLevels
<1>2. \A side \in Sides : /\ ls \notin LevelsOf(side) /\ None \notin LevelsOf(side)
                          /\ LevelsOf(side) \subseteq LevelSlots \ {ls}
  BY <1>1, LevelsOfFacts DEF LevelsOf
<1>3. LevelsOf(at)' = LevelsOf(at) \cup {ls}
  <2>1. /\ LevelsOf(at)' = {priceMap'[at][q] : q \in LimitPrices} \ {None}
        /\ LevelsOf(at) = {priceMap[at][q] : q \in LimitPrices} \ {None}
    BY DEF LevelsOf
  <2>2. \A q \in LimitPrices : priceMap'[at][q] = IF q = v THEN ls ELSE priceMap[at][q]
    BY <1>1
  <2> QED BY <1>1, <2>1, <2>2
<1>4. \A side \in Sides \ {at} : LevelsOf(side)' = LevelsOf(side)
  BY <1>1 DEF LevelsOf
<1>5. LiveLevels' = LiveLevels \cup {ls}
  BY <1>1 DEF LiveLevels
<1>6. LevelsOf("Buy")' \cap LevelsOf("Sell")' = {} /\ LiveLevels' = LevelsOf("Buy")' \cup LevelsOf("Sell")'
  <2>1. /\ LevelsOf("Buy") \cap LevelsOf("Sell") = {} /\ LiveLevels = LevelsOf("Buy") \cup LevelsOf("Sell")
        /\ Sides = {"Buy", "Sell"}
    BY DEF LevelsLinked, Sides
  <2> QED BY <1>2, <1>3, <1>4, <1>5, <2>1
\* The side the level is opened on, before the step.
<1>7. \A l \in LevelsOf(at) : /\ levels[l].price \in Int /\ levels[l].price # v
                              /\ levels[l].next \in LevelsOf(at) \cup {None}
                              /\ levels[l].prev \in LevelsOf(at) \cup {None}
                              /\ levels[l].prev = None <=> topLevel[at] = l
  <2>1. \A l \in LevelsOf(at) : levels[l].price \in Int /\ levels[l].price # v
    BY <1>2, LevelsOfFacts DEF LimitPrices
  <2> QED BY <2>1 DEF LevelsLinked
<1>8. v \in Int
  BY DEF LimitPrices
<1>9. \A l, m \in LevelsOf(at) :
         /\ levels[l].next = m <=> levels[m].prev = l
         /\ levels[l].next = m => Better(at, levels[l].price, levels[m].price)
         /\ Better(at, levels[l].price, levels[m].price) =>
               /\ levels[l].next # None
               /\ ~Better(at, levels[m].price, levels[levels[l].next].price)
               /\ levels[m].prev # None
               /\ ~Better(at, levels[levels[m].prev].price, levels[l].price)
         /\ levels[l].price = levels[m].price => l = m
  BY LevelsOfFacts DEF LevelsLinked
<1>10. /\ p \in LevelsOf(at) \cup {None} /\ c \in LevelsOf(at) \cup {None}
       /\ p # None => Better(at, levels[p].price, v)
       /\ c # None => Better(at, v, levels[c].price)
       /\ c # None => levels[c].prev = p
       /\ p # None => levels[p].next = c
  <2>1. topLevel[at] \in LevelsOf(at) \cup {None}
    BY DEF LevelsLinked
  <2>2. p \in LevelsOf(at) \cup {None} /\ c \in LevelsOf(at) \cup {None}
    BY <1>7, <2>1
  <2>3. p # None => Better(at, levels[p].price, v)
    BY <1>7, <1>8 DEF Better
  <2>4. c # None => levels[c].prev = p
    BY <1>7, <1>9, <2>2
  <2> QED BY <2>2, <2>3, <2>4
\* Every old level is on one side of the new one.
<1>11. \A m \in LevelsOf(at) : Better(at, v, levels[m].price) =>
          c # None /\ ~Better(at, levels[m].price, levels[c].price)
  <2> SUFFICES ASSUME NEW m \in LevelsOf(at), Better(at, v, levels[m].price)
               PROVE  c # None /\ ~Better(at, levels[m].price, levels[c].price)
    OBVIOUS
  <2>1. CASE p = None
    BY <2>1, TopIsBest
  <2>2. CASE p # None
    <3>1. Better(at, levels[p].price, levels[m].price)
      BY <1>7, <1>8, <1>10, <2>2 DEF Better
    <3> QED BY <1>9, <1>10, <2>2, <3>1
  <2> QED BY <2>1, <2>2
<1>12. \A l \in LevelsOf(at) : Better(at, levels[l].price, v) =>
          p # None /\ ~Better(at, levels[p].price, levels[l].price)
  <2> SUFFICES ASSUME NEW l \in LevelsOf(at), Better(at, levels[l].price, v)
               PROVE  p # None /\ ~Better(at, levels[p].price, levels[l].price)
    OBVIOUS
  <2>1. p # None
    <3>1. SUFFICES ASSUME p = None PROVE FALSE
      OBVIOUS
    <3>2. c = topLevel[at] /\ c \in LevelsOf(at) /\ c # None /\ ~Better(at, levels[l].price, levels[c].price)
      BY <3>1, TopIsBest
    <3>3. Better(at, v, levels[c].price)
      BY <1>10, <3>2
    <3> QED BY <1>7, <1>8, <3>2, <3>3 DEF Better
  <2>2. ASSUME Better(at, levels[p].price, levels[l].price) PROVE FALSE
    <3>1. c # None /\ c \in LevelsOf(at) /\ ~Better(at, levels[l].price, levels[c].price)
      BY <1>9, <1>10, <2>1, <2>2
    <3>2. Better(at, v, levels[c].price)
      BY <1>10, <3>1
    <3> QED BY <1>7, <1>8, <3>1, <3>2 DEF Better
  <2> QED BY <2>1, <2>2
<1>13. \A l \in LevelsOf(at) :
          /\ levels'[l].next = IF l = p THEN ls ELSE levels[l].next
          /\ levels'[l].prev = IF l = c THEN ls ELSE levels[l].prev
          /\ levels'[l].price = levels[l].price
  BY <1>2
<1>14. \A side \in Sides \ {at} : \A l \in LevelsOf(side) :
          /\ levels'[l].next = levels[l].next /\ levels'[l].prev = levels[l].prev
          /\ levels'[l].price = levels[l].price
  <2> SUFFICES ASSUME NEW side \in Sides \ {at}, NEW l \in LevelsOf(side)
               PROVE  /\ levels'[l].next = levels[l].next /\ levels'[l].prev = levels[l].prev
                      /\ levels'[l].price = levels[l].price
    OBVIOUS
  <2>1. LevelsOf(side) \cap LevelsOf(at) = {}
    BY DEF LevelsLinked, Sides
  <2>2. l \notin LevelsOf(at) /\ l # None /\ l \in LevelSlots \ {ls}
    BY <1>2, <2>1
  <2>3. l # p /\ l # c
    BY <1>10, <2>2
  <2> QED BY <2>2, <2>3
<1>15. ASSUME NEW side \in Sides \ {at}
       PROVE  /\ topLevel'[side] \in LevelsOf(side)' \cup {None}
              /\ topLevel'[side] = None => LevelsOf(side)' = {}
              /\ \A l \in LevelsOf(side)' :
                    /\ {levels'[l].next, levels'[l].prev} \subseteq LevelsOf(side)' \cup {None}
                    /\ levels'[l].prev = None <=> topLevel'[side] = l
                    /\ \A m \in LevelsOf(side)' :
                          /\ levels'[l].next = m <=> levels'[m].prev = l
                          /\ levels'[l].next = m => Better(side, levels'[l].price, levels'[m].price)
                          /\ Better(side, levels'[l].price, levels'[m].price) =>
                                /\ levels'[l].next # None
                                /\ ~Better(side, levels'[m].price, levels'[levels'[l].next].price)
                                /\ levels'[m].prev # None
                                /\ ~Better(side, levels'[levels'[m].prev].price, levels'[l].price)
  <2>1. LevelsOf(side)' = LevelsOf(side) /\ topLevel'[side] = topLevel[side]
    BY <1>1, <1>4
  <2>2. /\ topLevel[side] \in LevelsOf(side) \cup {None}
        /\ topLevel[side] = None => LevelsOf(side) = {}
    BY DEF LevelsLinked
  <2>3. ASSUME NEW l \in LevelsOf(side)
        PROVE  /\ {levels[l].next, levels[l].prev} \subseteq LevelsOf(side) \cup {None}
               /\ levels[l].prev = None <=> topLevel[side] = l
    BY DEF LevelsLinked
  <2>4. ASSUME NEW l \in LevelsOf(side), NEW m \in LevelsOf(side)
        PROVE  /\ levels[l].next = m <=> levels[m].prev = l
               /\ levels[l].next = m => Better(side, levels[l].price, levels[m].price)
               /\ Better(side, levels[l].price, levels[m].price) =>
                     /\ levels[l].next \in LevelsOf(side)
                     /\ ~Better(side, levels[m].price, levels[levels[l].next].price)
                     /\ levels[m].prev \in LevelsOf(side)
                     /\ ~Better(side, levels[levels[m].prev].price, levels[l].price)
    BY DEF LevelsLinked
  <2> QED BY <1>2, <1>14, <2>1, <2>2, <2>3, <2>4
<1>16. /\ topLevel'[at] \in LevelsOf(at)' \cup {None}
       /\ topLevel'[at] = None => LevelsOf(at)' = {}
  <2>1. topLevel[at] \in LevelsOf(at) \cup {None}
    BY DEF LevelsLinked
  <2>2. topLevel'[at] # None
    BY <1>1, <1>10, TopIsBest
  <2>3. topLevel'[at] = IF p = None THEN ls ELSE topLevel[at]
    BY <1>1
  <2> QED BY <1>3, <2>1, <2>2, <2>3
<1>17. ASSUME NEW l \in LevelsOf(at)'
       PROVE  /\ {levels'[l].next, levels'[l].prev} \subseteq LevelsOf(at)' \cup {None}
              /\ levels'[l].prev = None <=> topLevel'[at] = l
  <2>1. topLevel'[at] = IF p = None THEN ls ELSE topLevel[at]
    BY <1>1
  <2>2. topLevel[at] \in LevelsOf(at) \cup {None}
    BY DEF LevelsLinked
  <2>3. CASE l = ls
    BY <1>1, <1>2, <1>3, <1>10, <2>1, <2>2, <2>3
  <2>4. CASE l # ls
    <3>1. l \in LevelsOf(at)
      BY <1>3, <2>4
    <3>2. {levels'[l].next, levels'[l].prev} \subseteq LevelsOf(at)' \cup {None}
      BY <1>3, <1>7, <1>13, <3>1
    <3>3. levels'[l].prev = None <=> topLevel'[at] = l
      BY <1>1, <1>2, <1>7, <1>10, <1>13, <2>1, <2>4, <3>1
    <3> QED BY <3>2, <3>3
  <2> QED BY <2>3, <2>4
<1>18. ASSUME NEW l \in LevelsOf(at)', NEW m \in LevelsOf(at)'
       PROVE  /\ levels'[l].next = m <=> levels'[m].prev = l
              /\ levels'[l].next = m => Better(at, levels'[l].price, levels'[m].price)
  <2>1. CASE l = ls /\ m = ls
    BY <1>1, <1>2, <1>10, <2>1
  <2>2. CASE l = ls /\ m # ls
    <3>1. m \in LevelsOf(at)
      BY <1>3, <2>2
    <3>2. levels'[ls].next = m <=> levels'[m].prev = ls
      <4>1. levels[m].prev # ls
        BY <1>1, <1>2, <1>7, <3>1
      <4> QED BY <1>13, <3>1, <4>1
    <3> QED BY <1>10, <1>13, <2>2, <3>1, <3>2, <1>2
  <2>3. CASE l # ls /\ m = ls
    <3>1. l \in LevelsOf(at)
      BY <1>3, <2>3
    <3>2. levels'[l].next = ls <=> levels'[ls].prev = l
      <4>1. levels[l].next # ls
        BY <1>1, <1>2, <1>7, <3>1
      <4> QED BY <1>13, <3>1, <4>1
    <3> QED BY <1>10, <1>13, <2>3, <3>1, <3>2, <1>2
  <2>4. CASE l # ls /\ m # ls
    <3>1. l \in LevelsOf(at) /\ m \in LevelsOf(at) /\ l # None /\ m # None
      BY <1>2, <1>3, <2>4
    <3>2. l = p => levels[l].next = c
      BY <1>10, <3>1
    <3>3. m = c => levels[m].prev = p
      BY <1>10, <3>1
    <3>4. levels[l].next = m <=> levels[m].prev = l
      BY <1>9, <3>1
    <3>5. l = p /\ m = c => levels'[l].next # m /\ levels'[m].prev # l
      BY <1>13, <2>4, <3>1
    <3>6. l = p /\ m # c => levels'[l].next # m /\ levels'[m].prev # l
      BY <1>13, <2>4, <3>1, <3>2, <3>4
    <3>7. l # p /\ m = c => levels'[l].next # m /\ levels'[m].prev # l
      BY <1>13, <2>4, <3>1, <3>3, <3>4
    <3>8. l # p /\ m # c => levels'[l].next = levels[l].next /\ levels'[m].prev = levels[m].prev
      BY <1>13, <3>1
    <3> QED BY <1>9, <1>13, <3>1, <3>4, <3>5, <3>6, <3>7, <3>8
  <2> QED BY <2>1, <2>2, <2>3, <2>4
<1>19. ASSUME NEW l \in LevelsOf(at)', NEW m \in LevelsOf(at)', Better(at, levels'[l].price, levels'[m].price)
       PROVE  /\ levels'[l].next # None
              /\ ~Better(at, levels'[m].price, levels'[levels'[l].next].price)
  <2>1. CASE l = ls /\ m = ls
    BY <1>8, <1>19, <2>1 DEF Better
  <2>2. CASE l = ls /\ m # ls
    <3>1. m \in LevelsOf(at)
      BY <1>3, <2>2
    <3> QED BY <1>10, <1>11, <1>13, <1>19, <2>2, <3>1
  <2>3. CASE l # ls
    <3>1. l \in LevelsOf(at) /\ levels'[l].price = levels[l].price
      BY <1>3, <1>13, <2>3
    <3>2. CASE l = p
      <4>1. levels'[l].next = ls
        BY <1>13, <3>1, <3>2
      <4>2. CASE m = ls
        BY <1>1, <1>8, <4>1, <4>2 DEF Better
      <4>3. CASE m # ls
        <5>1. m \in LevelsOf(at) /\ levels'[m].price = levels[m].price
          BY <1>3, <1>13, <4>3
        <5>2. c # None /\ c \in LevelsOf(at) /\ ~Better(at, levels[m].price, levels[c].price)
          BY <1>2, <1>9, <1>10, <1>19, <3>1, <3>2, <5>1
        <5>3. Better(at, v, levels[c].price)
          BY <1>10, <5>2
        <5>4. ~Better(at, levels[m].price, v)
          BY <1>7, <1>8, <5>1, <5>2, <5>3 DEF Better
        <5> QED BY <1>1, <4>1, <5>1, <5>4
      <4> QED BY <4>2, <4>3
    <3>3. CASE l # p
      <4>1. levels'[l].next = levels[l].next
        BY <1>13, <3>1, <3>3
      <4>2. CASE m = ls
        <5>1. p # None /\ p \in LevelsOf(at) /\ ~Better(at, levels[p].price, levels[l].price)
          BY <1>10, <1>12, <1>19, <3>1, <4>2
        <5>2. levels[l].price # levels[p].price
          BY <1>9, <3>1, <3>3, <5>1
        <5>3. Better(at, levels[l].price, levels[p].price)
          BY <1>7, <3>1, <5>1, <5>2 DEF Better
        <5>4. /\ levels[l].next # None /\ levels[l].next \in LevelsOf(at)
              /\ ~Better(at, levels[p].price, levels[levels[l].next].price)
          BY <1>7, <1>9, <3>1, <5>1, <5>3
        <5>5. Better(at, levels[p].price, v)
          BY <1>10, <5>1
        <5>6. ~Better(at, v, levels[levels[l].next].price)
          BY <1>7, <1>8, <5>1, <5>4, <5>5 DEF Better
        <5> QED BY <1>13, <4>1, <4>2, <5>4, <5>6
      <4>3. CASE m # ls
        <5>1. m \in LevelsOf(at) /\ levels'[m].price = levels[m].price
          BY <1>3, <1>13, <4>3
        <5>2. /\ levels[l].next # None /\ levels[l].next \in LevelsOf(at)
              /\ ~Better(at, levels[m].price, levels[levels[l].next].price)
          BY <1>7, <1>9, <1>19, <3>1, <5>1
        <5> QED BY <1>13, <4>1, <5>1, <5>2
      <4> QED BY <4>2, <4>3
    <3> QED BY <3>2, <3>3
  <2> QED BY <2>1, <2>2, <2>3
<1>20. ASSUME NEW l \in LevelsOf(at)', NEW m \in LevelsOf(at)', Better(at, levels'[l].price, levels'[m].price)
       PROVE  /\ levels'[m].prev # None
              /\ ~Better(at, levels'[levels'[m].prev].price, levels'[l].price)
  <2>1. CASE l = ls /\ m = ls
    BY <1>8, <1>20, <2>1 DEF Better
  <2>2. CASE m = ls /\ l # ls
    <3>1. l \in LevelsOf(at)
      BY <1>3, <2>2
    <3> QED BY <1>10, <1>12, <1>13, <1>20, <2>2, <3>1
  <2>3. CASE m # ls
    <3>1. m \in LevelsOf(at) /\ levels'[m].price = levels[m].price
      BY <1>3, <1>13, <2>3
    <3>2. CASE m = c
      <4>1. levels'[m].prev = ls
        BY <1>13, <3>1, <3>2
      <4>2. CASE l = ls
        BY <1>1, <1>8, <4>1, <4>2 DEF Better
      <4>3. CASE l # ls
        <5>1. l \in LevelsOf(at) /\ levels'[l].price = levels[l].price
          BY <1>3, <1>13, <4>3
        <5>2. p # None /\ p \in LevelsOf(at) /\ ~Better(at, levels[p].price, levels[l].price)
          BY <1>2, <1>9, <1>10, <1>20, <3>1, <3>2, <5>1
        <5>3. Better(at, levels[p].price, v)
          BY <1>10, <5>2
        <5>4. ~Better(at, v, levels[l].price)
          BY <1>7, <1>8, <5>1, <5>2, <5>3 DEF Better
        <5> QED BY <1>1, <4>1, <5>1, <5>4
      <4> QED BY <4>2, <4>3
    <3>3. CASE m # c
      <4>1. levels'[m].prev = levels[m].prev
        BY <1>13, <3>1, <3>3
      <4>2. CASE l = ls
        <5>1. c # None /\ c \in LevelsOf(at) /\ ~Better(at, levels[m].price, levels[c].price)
          BY <1>10, <1>11, <1>20, <3>1, <4>2
        <5>2. levels[m].price # levels[c].price
          BY <1>9, <3>1, <3>3, <5>1
        <5>3. Better(at, levels[c].price, levels[m].price)
          BY <1>7, <3>1, <5>1, <5>2 DEF Better
        <5>4. /\ levels[m].prev # None /\ levels[m].prev \in LevelsOf(at)
              /\ ~Better(at, levels[levels[m].prev].price, levels[c].price)
          BY <1>7, <1>9, <3>1, <5>1, <5>3
        <5>5. Better(at, v, levels[c].price)
          BY <1>10, <5>1
        <5>6. ~Better(at, levels[levels[m].prev].price, v)
          BY <1>7, <1>8, <5>1, <5>4, <5>5 DEF Better
        <5> QED BY <1>13, <4>1, <4>2, <5>4, <5>6
      <4>3. CASE l # ls
        <5>1. l \in LevelsOf(at) /\ levels'[l].price = levels[l].price
          BY <1>3, <1>13, <4>3
        <5>2. /\ levels[m].prev # None /\ levels[m].prev \in LevelsOf(at)
              /\ ~Better(at, levels[levels[m].prev].price, levels[l].price)
          BY <1>7, <1>9, <1>20, <3>1, <5>1
        <5> QED BY <1>13, <4>1, <5>1, <5>2
      <4> QED BY <4>2, <4>3
    <3> QED BY <3>2, <3>3
  <2> QED BY <2>1, <2>2, <2>3
<1>21. LevelsLinked'
  BY <1>6, <1>15, <1>16, <1>17, <1>18, <1>19, <1>20 DEF LevelsLinked
<1> QED BY <1>3, <1>21

\* find_or_create_level and enqueue: the taker opens a level of its own.
LEMMA InvOpenLevel ==
  ASSUME IInv, OpenLevel
  PROVE  /\ IInv'
         /\ \E side \in Sides, ls \in LevelSlots :
               /\ side = taker.side
               /\ LevelsOf(side)' = LevelsOf(side) \cup {ls}
               /\ levels'[ls].price = taker.price
               /\ ls \in freeLevels
               /\ \A l \in LevelSlots \ {ls} : levels'[l].price = levels[l].price
<1>0. TypeOK /\ LiveOrders /\ QueuesLinked /\ LevelEnds /\ LevelsLinked
  BY DEF IInv, ListsLinked
<1>1. PICK at \in Sides, v \in LimitPrices :
         Resting /\ taker # None /\ at = taker.side /\ v = taker.price
  BY <1>0 DEF OpenLevel, Resting, IInv, ListsLinked, InFlight, TypeOK, Takers
<1>2. priceMap[at][v] = None
  BY <1>1 DEF OpenLevel
<1>3. PICK os \in freeOrders, ls \in freeLevels, p \in MaybeLevel, c \in MaybeLevel :
         /\ InsertionPoint(p, c)
         /\ orders' = Appended(os, None)
         /\ levels' = [l \in LevelSlots |->
               IF l = ls THEN [price |-> taker.price, total |-> taker.remaining, count |-> 1,
                               head |-> os, tail |-> os, next |-> c, prev |-> p]
               ELSE Relink(levels[l], IF l = p THEN ls ELSE levels[l].next,
                                      IF l = c THEN ls ELSE levels[l].prev)]
         /\ freeLevels' = freeLevels \ {ls}
         /\ priceMap' = [priceMap EXCEPT ![taker.side][taker.price] = ls]
         /\ topLevel' = IF p = None THEN [topLevel EXCEPT ![taker.side] = ls] ELSE topLevel
         /\ Publish(os, ls)
  BY DEF OpenLevel, MaybeLevel
<1>4. /\ ls \in LevelSlots /\ ls # None /\ ls \notin LiveLevels
      /\ UNCHANGED <<fillSeq, ledger, tickets>>
      /\ priceMap \in [Sides -> [LimitPrices -> LevelSlots \cup {None}]]
      /\ topLevel \in [Sides -> LevelSlots \cup {None}]
      /\ freeLevels \in SUBSET LevelSlots
  BY <1>0, BookAssumption DEF OpenLevel, TypeOK, LiveLevels
<1>5. /\ os \in Slots /\ os \notin Live /\ Live' = Live \cup {os} /\ None \notin Live'
      /\ orders'[os].ticket = taker.ticket
      /\ orders'[os].side = at /\ orders'[os].price = v
      /\ orders'[os].next = None /\ orders'[os].prev = None
      /\ taker.ticket \in Nat /\ taker.remaining \in Nat
  <2>1. taker.remaining \in Nat
    BY <1>0, <1>1 DEF TypeOK, Takers
  <2> QED BY <1>1, <1>3, <2>1, RestFacts DEF Publish
<1>6. \A s \in Live :
         /\ orders'[s].next = orders[s].next /\ orders'[s].prev = orders[s].prev
         /\ orders'[s].ticket = orders[s].ticket
         /\ orders'[s].side = orders[s].side /\ orders'[s].price = orders[s].price
         /\ orders[s].ticket \in Nat /\ orders[s].ticket < taker.ticket
         /\ LevelOf(s) # None
  <2>1. None \notin Live
    BY <1>5
  <2> QED BY <1>1, <1>3, <2>1, RestFacts DEF Publish
<1>7. ASSUME NEW l \in LevelSlots \ {ls}
      PROVE  /\ levels'[l] \in Levels
             /\ levels'[l].next = IF l = p THEN ls ELSE levels[l].next
             /\ levels'[l].prev = IF l = c THEN ls ELSE levels[l].prev
             /\ levels'[l].price = levels[l].price
             /\ levels'[l].head = levels[l].head /\ levels'[l].tail = levels[l].tail
  <2> DEFINE N == IF l = p THEN ls ELSE levels[l].next
             P == IF l = c THEN ls ELSE levels[l].prev
  <2>1. levels[l] \in Levels /\ N \in MaybeLevel /\ P \in MaybeLevel
    BY <1>0, <1>4, Fields DEF MaybeLevel
  <2>2. levels'[l] = Relink(levels[l], N, P)
    BY <1>3
  <2> HIDE DEF N, P
  <2>3. LET q == Relink(levels[l], N, P)
        IN /\ q \in Levels /\ q.next = N /\ q.prev = P
           /\ q.price = levels[l].price /\ q.head = levels[l].head /\ q.tail = levels[l].tail
    BY <2>1 DEF Relink, Levels, MaybeLevel
  <2> QED BY <2>2, <2>3 DEF N, P
<1>8. /\ levels'[ls] \in Levels
      /\ levels'[ls].next = c /\ levels'[ls].prev = p /\ levels'[ls].price = v
      /\ levels'[ls].head = os /\ levels'[ls].tail = os
  <2>1. levels'[ls] = [price |-> v, total |-> taker.remaining, count |-> 1,
                       head |-> os, tail |-> os, next |-> c, prev |-> p]
    BY <1>1, <1>3, <1>4
  <2>2. v \in 0 .. PriceCap /\ taker.remaining \in Int /\ os \in Slots \cup {None}
    BY <1>5, BookAssumption DEF LimitPrices
  <2> QED BY <2>1, <2>2 DEF Levels, MaybeLevel
<1>9. levels' \in [LevelSlots -> Levels]
  <2>1. levels' = [l \in LevelSlots |-> levels'[l]]
    BY <1>3
  <2> QED BY <1>7, <1>8, <2>1
<1>10. /\ priceMap' = [priceMap EXCEPT ![at][v] = ls]
       /\ topLevel' = IF p = None THEN [topLevel EXCEPT ![at] = ls] ELSE topLevel
       /\ priceMap' \in [Sides -> [LimitPrices -> LevelSlots \cup {None}]]
       /\ topLevel' \in [Sides -> LevelSlots \cup {None}]
  BY <1>1, <1>3, <1>4
<1>11. LevelsLinked' /\ LevelsOf(at)' = LevelsOf(at) \cup {ls}
  <2>1. /\ IF p = None THEN c = topLevel[at]
            ELSE p \in LevelsOf(at) /\ ~Better(at, v, levels[p].price) /\ c = levels[p].next
        /\ c # None => Better(at, v, levels[c].price)
    BY <1>1, <1>3 DEF InsertionPoint
  <2>2. freeLevels' = freeLevels \ {ls}
    BY <1>3
  <2>3. \A l \in LevelSlots \ {ls} :
            /\ levels'[l].next = IF l = p THEN ls ELSE levels[l].next
            /\ levels'[l].prev = IF l = c THEN ls ELSE levels[l].prev
            /\ levels'[l].price = levels[l].price
    BY <1>7
  <2>4. LevelInserted(at, v, ls, p, c)
    BY <1>2, <1>8, <1>10, <2>1, <2>2, <2>3 DEF LevelInserted
  <2> QED BY <1>0, <2>4, InsertLevel
<1>12. \A s \in Live : /\ LevelOf(s)' = LevelOf(s) /\ LevelOf(s) \in LevelSlots \ {ls}
                       /\ ~(orders[s].side = at /\ orders[s].price = v)
  <2> SUFFICES ASSUME NEW s \in Live
               PROVE  /\ LevelOf(s)' = LevelOf(s) /\ LevelOf(s) \in LevelSlots \ {ls}
                      /\ ~(orders[s].side = at /\ orders[s].price = v)
    OBVIOUS
  <2>1. orders[s].side \in Sides /\ orders[s].price \in LimitPrices /\ LevelOf(s) # None
    BY <1>0 DEF LiveOrders
  <2>2. ~(orders[s].side = at /\ orders[s].price = v)
    BY <1>2, <2>1 DEF LevelOf
  <2>3. LevelOf(s)' = LevelOf(s)
    BY <1>4, <1>6, <1>10, <2>1, <2>2 DEF LevelOf
  <2>4. LevelOf(s) \in LiveLevels
    BY <1>0, <2>1 DEF LevelEnds, LevelOf
  <2> QED BY <1>4, <2>2, <2>3, <2>4 DEF LiveLevels
<1>13. LevelOf(os)' = ls
  BY <1>4, <1>5, <1>10 DEF LevelOf
<1>14. TypeOK' /\ InFlight' /\ LiveOrders' /\ IndexSound'
  <2>1. freeLevels' \in SUBSET LevelSlots
    BY <1>3, <1>4
  <2> QED BY <1>1, <1>3, <1>4, <1>9, <1>10, <1>12, <1>13, <2>1, RestPublished
<1>15. LevelEnds'
  <2>1. LiveLevels' = LiveLevels \cup {ls}
    BY <1>3, <1>4 DEF LiveLevels
  <2>2. ASSUME NEW side \in Sides, NEW q \in LimitPrices, priceMap'[side][q] # None
        PROVE  LET l == priceMap'[side][q]
               IN /\ l \in LiveLevels'
                  /\ levels'[l].price = q
                  /\ levels'[l].head \in Live'
                  /\ levels'[l].tail \in Live'
                  /\ orders'[levels'[l].head].prev = None
                  /\ orders'[levels'[l].tail].next = None
                  /\ orders'[levels'[l].head].side = side /\ orders'[levels'[l].head].price = q
                  /\ orders'[levels'[l].tail].side = side /\ orders'[levels'[l].tail].price = q
    <3>1. CASE side = at /\ q = v
      <4>1. priceMap'[side][q] = ls
        BY <1>4, <1>10, <3>1
      <4> QED BY <1>5, <1>8, <2>1, <3>1, <4>1
    <3>2. CASE ~(side = at /\ q = v)
      <4>1. PICK l \in LevelSlots : l = priceMap[side][q] /\ l = priceMap'[side][q]
        BY <1>4, <1>10, <2>2, <3>2
      <4>2. /\ l \in LiveLevels /\ levels[l].price = q
            /\ levels[l].head \in Live /\ levels[l].tail \in Live
            /\ orders[levels[l].head].prev = None /\ orders[levels[l].tail].next = None
            /\ orders[levels[l].head].side = side /\ orders[levels[l].head].price = q
            /\ orders[levels[l].tail].side = side /\ orders[levels[l].tail].price = q
        <5>1. priceMap[side][q] # None
          BY <2>2, <4>1
        <5>2. LevelEnds
          BY <1>0
        <5>3. LET k == priceMap[side][q]
              IN /\ k \in LiveLevels /\ levels[k].price = q
                 /\ levels[k].head \in Live /\ levels[k].tail \in Live
                 /\ orders[levels[k].head].prev = None /\ orders[levels[k].tail].next = None
                 /\ orders[levels[k].head].side = side /\ orders[levels[k].head].price = q
                 /\ orders[levels[k].tail].side = side /\ orders[levels[k].tail].price = q
          BY <5>1, <5>2 DEF LevelEnds
        <5> QED BY <4>1, <5>3
      <4>3. l # ls
        BY <1>4, <4>2
      <4> QED BY <1>5, <1>6, <1>7, <2>1, <4>1, <4>2, <4>3
    <3> QED BY <3>1, <3>2
  <2> QED BY <2>2 DEF LevelEnds
<1>16. QueuesLinked'
  <2>0. \A s \in Live : {orders[s].next, orders[s].prev} \subseteq Live \cup {None}
    BY <1>0 DEF QueuesLinked
  <2>1. ASSUME NEW s \in Live'
        PROVE  /\ {orders'[s].next, orders'[s].prev} \subseteq Live' \cup {None}
               /\ orders'[s].prev = None => levels'[LevelOf(s)'].head = s
               /\ orders'[s].next = None => levels'[LevelOf(s)'].tail = s
    <3>1. CASE s = os
      BY <1>5, <1>8, <1>13, <3>1
    <3>2. CASE s # os
      <4>1. /\ s \in Live /\ {orders[s].next, orders[s].prev} \subseteq Live \cup {None}
            /\ orders[s].prev = None => levels[LevelOf(s)].head = s
            /\ orders[s].next = None => levels[LevelOf(s)].tail = s
        BY <1>0, <1>5, <3>2 DEF QueuesLinked
      <4> QED BY <1>5, <1>6, <1>7, <1>12, <4>1
    <3> QED BY <3>1, <3>2
  <2>2. ASSUME NEW s \in Live', NEW t \in Live'
        PROVE  /\ orders'[s].next = t <=> orders'[t].prev = s
               /\ orders'[s].next = t => SameLevel(s, t)' /\ orders'[s].ticket < orders'[t].ticket
               /\ orders'[s].ticket = orders'[t].ticket => s = t
    <3>1. CASE s = os \/ t = os
      <4>1. orders'[s].next # t /\ orders'[t].prev # s
        BY <1>5, <1>6, <2>0, <3>1
      <4>2. orders'[s].ticket = orders'[t].ticket => s = t
        BY <1>5, <1>6, <3>1
      <4> QED BY <4>1, <4>2
    <3>2. CASE s # os /\ t # os
      <4>1. /\ s \in Live /\ t \in Live
            /\ orders[s].next = t <=> orders[t].prev = s
            /\ orders[s].next = t => SameLevel(s, t) /\ orders[s].ticket < orders[t].ticket
            /\ orders[s].ticket = orders[t].ticket => s = t
        BY <1>0, <1>5, <3>2 DEF QueuesLinked
      <4> QED BY <1>6, <4>1 DEF SameLevel
    <3> QED BY <3>1, <3>2
  <2>3. ASSUME NEW s \in Live', NEW t \in Live', SameLevel(s, t)', orders'[s].ticket < orders'[t].ticket
        PROVE  /\ orders'[s].next # None
               /\ orders'[orders'[s].next].ticket <= orders'[t].ticket
               /\ orders'[t].prev # None
               /\ orders'[s].ticket <= orders'[orders'[t].prev].ticket
    <3>1. s \in Live
      BY <1>5, <1>6, <2>3
    <3>2. t \in Live
      BY <1>5, <1>6, <1>12, <2>3, <3>1 DEF SameLevel
    <3>3. SameLevel(s, t) /\ orders[s].ticket < orders[t].ticket
      BY <1>6, <2>3, <3>1, <3>2 DEF SameLevel
    <3>4. /\ orders[s].next \in Live /\ orders[orders[s].next].ticket <= orders[t].ticket
          /\ orders[t].prev \in Live /\ orders[s].ticket <= orders[orders[t].prev].ticket
      BY <1>0, <3>1, <3>2, <3>3 DEF QueuesLinked
    <3> QED BY <1>5, <1>6, <3>1, <3>2, <3>4
  <2> QED BY <2>1, <2>2, <2>3 DEF QueuesLinked
<1>17. IInv'
  BY <1>11, <1>14, <1>15, <1>16 DEF IInv, ListsLinked
<1>18. \A l \in LevelSlots \ {ls} : levels'[l].price = levels[l].price
  BY <1>7
<1>19. at = taker.side /\ LevelsOf(at)' = LevelsOf(at) \cup {ls} /\ levels'[ls].price = taker.price
  BY <1>1, <1>8, <1>11
<1> QED BY <1>4, <1>17, <1>18, <1>19

-----------------------------------------------------------------------------
\* The empty book.
LEMMA InvInit == Init => IInv
<1> SUFFICES ASSUME Init PROVE IInv
  OBVIOUS
<1>1. TypeOK
  BY InitTypeOK
<1>2. /\ Live = {} /\ LiveLevels = {} /\ taker = None /\ tickets = 0
      /\ \A side \in Sides : LevelsOf(side) = {} /\ topLevel[side] = None
      /\ \A side \in Sides : \A p \in LimitPrices : priceMap[side][p] = None
      /\ \A b \in Buckets : index[b] = None
  BY DEF Init, Live, LiveLevels, LevelsOf
<1>3. InFlight /\ LiveOrders /\ QueuesLinked /\ LevelEnds /\ IndexSound
  BY <1>2 DEF InFlight, LiveOrders, QueuesLinked, LevelEnds, IndexSound
<1>4. LevelsLinked
  BY <1>2 DEF LevelsLinked, Sides
<1> QED BY <1>1, <1>3, <1>4 DEF IInv, ListsLinked

\* Every step keeps the invariant.
LEMMA InvNext == IInv /\ [Next]_vars => IInv'
<1> SUFFICES ASSUME IInv, [Next]_vars PROVE IInv'
  OBVIOUS
<1>1. ASSUME NEW id \in OrderIds, NEW side \in Sides, NEW quantity \in 0 .. MaxQuantity,
             NEW price \in 0 .. PriceCap, AddOrder(id, side, price, quantity, FALSE)
      PROVE  IInv'
  BY <1>1, InvAddOrder
<1>2. ASSUME NEW id \in OrderIds, NEW side \in Sides, NEW quantity \in 0 .. MaxQuantity,
             AddOrder(id, side, 0, quantity, TRUE)
      PROVE  IInv'
  <2>1. 0 \in 0 .. PriceCap
    BY BookAssumption
  <2> QED BY <1>2, <2>1, InvAddOrder
<1>3. CASE FillHead
  BY <1>3, InvFillHead
<1>4. CASE Complete
  BY <1>4, InvLeave DEF Complete
<1>5. CASE DropRemainder
  BY <1>5, InvLeave DEF DropRemainder, Resting
<1>6. CASE JoinLevel
  BY <1>6, InvJoinLevel
<1>7. CASE OpenLevel
  BY <1>7, InvOpenLevel
<1>8. ASSUME NEW id \in OrderIds, CancelOrder(id) PROVE IInv'
  BY <1>8, InvCancelOrder
<1>9. ASSUME NEW id \in OrderIds, CancelMiss(id) PROVE IInv'
  BY <1>9, InvStutter DEF CancelMiss
<1>10. CASE UNCHANGED vars
  BY <1>10, InvStutter
<1> QED BY <1>1, <1>2, <1>3, <1>4, <1>5, <1>6, <1>7, <1>8, <1>9, <1>10 DEF Next

\* No operation of the book ever leaves the arrays or the types of its state,
\* for any pool sizes, price cap and assignment of ids to buckets.
THEOREM TypeCorrect == Spec => []TypeOK
<1>1. IInv => TypeOK
  BY DEF IInv
<1> QED BY <1>1, InvInit, InvNext, PTL DEF Spec

\* The two kinds of linked list stay linked and sorted through every enqueue,
\* dequeue, find_or_create_level and remove_level.
THEOREM ListsStayLinked == Spec => []ListsLinked
<1>1. IInv => ListsLinked
  BY DEF IInv
<1> QED BY <1>1, InvInit, InvNext, PTL DEF Spec

\* cancel_order never follows a stale index entry, whatever ids collide.
THEOREM IndexStaysSound == Spec => []IndexSound
<1>1. IInv => IndexSound
  BY DEF IInv
<1> QED BY <1>1, InvInit, InvNext, PTL DEF Spec

-----------------------------------------------------------------------------
\* A step that opens no level and moves no level's price leaves the book uncrossed.
LEMMA NoNewLevel ==
  ASSUME Uncrossed,
         \A side \in Sides : \A l \in LevelsOf(side)' :
            l \in LevelsOf(side) /\ levels'[l].price = levels[l].price
  PROVE  Uncrossed'
<1>1. "Buy" \in Sides /\ "Sell" \in Sides
  BY DEF Sides
<1> QED BY <1>1 DEF Uncrossed

\* Taking an order off leaves the book uncrossed.
LEMMA UncrossedTakeOff ==
  ASSUME TypeOK, ListsLinked, Uncrossed, NEW os \in Live, NEW bucket \in Buckets,
         TakeOff(os, LevelOf(os), orders[os].side, bucket)
  PROVE  Uncrossed'
<1>0. LiveOrders /\ QueuesLinked /\ LevelEnds /\ LevelsLinked
  BY DEF ListsLinked
<1>1. PICK at \in Sides, v \in LimitPrices : at = orders[os].side /\ v = orders[os].price
  BY <1>0 DEF LiveOrders
<1>2. PICK ls \in LevelSlots : ls = LevelOf(os) /\ ls # None /\ ls = priceMap[at][v]
  BY <1>0, <1>1 DEF LiveOrders, LevelOf, TypeOK
<1>3. \A side \in Sides : \A l \in LevelsOf(side) : l \in LevelSlots
  BY <1>0, LevelsOfFacts
<1>4. os \in Slots
  BY DEF Live
<1>5. CASE levels' = [levels EXCEPT ![ls] = Shortened(ls, os)] /\ UNCHANGED priceMap
  <2>1. \A l \in LevelSlots : levels'[l].price = levels[l].price
    BY <1>4, <1>5, ShortenedFields DEF TypeOK
  <2>2. \A side \in Sides : LevelsOf(side)' = LevelsOf(side)
    BY <1>5 DEF LevelsOf
  <2> QED BY <1>3, <2>1, <2>2, NoNewLevel
<1>6. CASE levels' = Bypassed(ls) /\ priceMap' = [priceMap EXCEPT ![at][v] = None]
  <2>1. \A l \in LevelSlots \ {ls} : levels'[l].price = levels[l].price
    BY <1>6, BypassedFields
  <2>2. priceMap \in [Sides -> [LimitPrices -> LevelSlots \cup {None}]]
    BY DEF TypeOK
  <2>3. ASSUME NEW side \in Sides, NEW l \in LevelsOf(side)'
        PROVE  l \in LevelsOf(side) /\ l # ls
    <3>1. PICK p \in LimitPrices : l = priceMap'[side][p] /\ l # None
      BY DEF LevelsOf
    <3>2. ~(side = at /\ p = v) /\ l = priceMap[side][p]
      BY <1>6, <2>2, <3>1
    <3>3. l \in LevelsOf(side) /\ levels[l].price = p
      BY <1>0, <3>1, <3>2 DEF LevelsOf, LevelEnds
    <3>4. ls \in LevelsOf(at) /\ levels[ls].price = v
      BY <1>0, <1>2 DEF LevelsOf, LevelEnds
    <3>5. l = ls => side = at
      BY <1>0, <3>3, <3>4 DEF LevelsLinked, Sides
    <3> QED BY <3>2, <3>3, <3>4, <3>5
  <2> QED BY <1>3, <2>1, <2>3, NoNewLevel
<1> QED BY <1>0, <1>1, <1>2, <1>5, <1>6, TakeOffLevel

\* find_or_create_level opens no level that crosses the other side: match went on
\* until the head level there was not crossed, and the head is the best.
LEMMA UncrossedOpenLevel ==
  ASSUME IInv, Uncrossed, OpenLevel
  PROVE  Uncrossed'
<1>0. TypeOK /\ LevelEnds /\ LevelsLinked /\ IInv'
  BY InvOpenLevel DEF IInv, ListsLinked
<1>1. PICK at \in Sides, ls \in LevelSlots :
         /\ at = taker.side
         /\ LevelsOf(at)' = LevelsOf(at) \cup {ls}
         /\ levels'[ls].price = taker.price
         /\ ls \in freeLevels
         /\ \A l \in LevelSlots \ {ls} : levels'[l].price = levels[l].price
  BY InvOpenLevel
<1>2. ~CanFill /\ taker.remaining > 0 /\ ~taker.market /\ taker.price \in LimitPrices /\ taker # None
  BY DEF OpenLevel, Resting, IInv, ListsLinked, InFlight
<1>3. PICK op \in Sides : op = Opposite(taker.side)
  BY DEF Opposite, Sides
<1>4. LevelsOf(op)' = LevelsOf(op)
  <2>1. op # at
    BY <1>1, <1>3 DEF Opposite, Sides
  <2>2. \E l : priceMap' = [priceMap EXCEPT ![at][taker.price] = l]
    BY <1>1 DEF OpenLevel
  <2>3. priceMap \in [Sides -> [LimitPrices -> LevelSlots \cup {None}]]
    BY <1>0 DEF TypeOK
  <2>4. priceMap'[op] = priceMap[op]
    BY <2>1, <2>2, <2>3
  <2> QED BY <2>4 DEF LevelsOf
<1>5. \A side \in Sides : \A l \in LevelsOf(side) :
         l \in LevelSlots \ {ls} /\ levels[l].price \in Int
  BY <1>0, <1>1, LevelsOfFacts DEF LiveLevels, LimitPrices
<1>6. \A l \in LevelsOf(op) : IF at = "Buy" THEN taker.price < levels[l].price
                                             ELSE levels[l].price < taker.price
  <2> SUFFICES ASSUME NEW l \in LevelsOf(op)
               PROVE  IF at = "Buy" THEN taker.price < levels[l].price
                                    ELSE levels[l].price < taker.price
    OBVIOUS
  <2>1. PICK top \in LevelsOf(op) : /\ top = topLevel[op] /\ top # None
                                    /\ ~Better(op, levels[l].price, levels[top].price)
    BY <1>0, TopIsBest
  <2>2. ~Crosses(taker, levels[top].price)
    BY <1>2, <1>3, <2>1 DEF CanFill
  <2>3. levels[top].price \in Int /\ levels[l].price \in Int /\ taker.price \in Int
    BY <1>2, <1>5 DEF LimitPrices
  <2>4. CASE at = "Buy"
    BY <1>1, <1>2, <1>3, <2>1, <2>2, <2>3, <2>4 DEF Crosses, Better, Opposite
  <2>5. CASE at = "Sell"
    BY <1>1, <1>2, <1>3, <2>1, <2>2, <2>3, <2>5 DEF Crosses, Better, Opposite
  <2> QED BY <2>4, <2>5 DEF Sides
<1>7. CASE at = "Buy"
  <2>1. op = "Sell"
    BY <1>1, <1>3, <1>7 DEF Opposite
  <2>2. ASSUME NEW b \in LevelsOf("Buy")', NEW a \in LevelsOf("Sell")'
        PROVE  levels'[b].price < levels'[a].price
    <3>1. a \in LevelsOf("Sell") /\ levels'[a].price = levels[a].price
      BY <1>1, <1>4, <1>5, <2>1
    <3>2. CASE b = ls
      BY <1>1, <1>6, <1>7, <2>1, <3>1, <3>2
    <3>3. CASE b # ls
      <4>1. b \in LevelsOf("Buy") /\ levels'[b].price = levels[b].price
        BY <1>1, <1>5, <1>7, <3>3
      <4> QED BY <3>1, <4>1 DEF Uncrossed
    <3> QED BY <3>2, <3>3
  <2> QED BY <2>2 DEF Uncrossed
<1>8. CASE at = "Sell"
  <2>1. op = "Buy"
    BY <1>1, <1>3, <1>8 DEF Opposite
  <2>2. ASSUME NEW b \in LevelsOf("Buy")', NEW a \in LevelsOf("Sell")'
        PROVE  levels'[b].price < levels'[a].price
    <3>1. b \in LevelsOf("Buy") /\ levels'[b].price = levels[b].price
      BY <1>1, <1>4, <1>5, <2>1
    <3>2. CASE a = ls
      BY <1>1, <1>6, <1>8, <2>1, <3>1, <3>2
    <3>3. CASE a # ls
      <4>1. a \in LevelsOf("Sell") /\ levels'[a].price = levels[a].price
        BY <1>1, <1>5, <1>8, <3>3
      <4> QED BY <3>1, <4>1 DEF Uncrossed
    <3> QED BY <3>2, <3>3
  <2> QED BY <2>2 DEF Uncrossed
<1> QED BY <1>7, <1>8 DEF Sides

\* A step that leaves the price map and all levels' prices alone.
LEMMA UncrossedSame ==
  ASSUME TypeOK, LevelEnds, Uncrossed, UNCHANGED priceMap,
         \A l \in LevelSlots : levels'[l].price = levels[l].price
  PROVE  Uncrossed'
<1>1. \A side \in Sides : LevelsOf(side)' = LevelsOf(side) /\ LevelsOf(side) \subseteq LevelSlots
  BY LevelsOfFacts DEF LevelsOf
<1> QED BY <1>1, NoNewLevel

\* A fill leaves the book uncrossed.
LEMMA UncrossedFillHead ==
  ASSUME IInv, Uncrossed, FillHead
  PROVE  Uncrossed'
<1>1. TypeOK /\ ListsLinked
  BY DEF IInv
<1>2. taker \in Takers
  BY <1>1 DEF FillHead, TypeOK
<1>3. PICK side \in Sides : side = Opposite(taker.side)
  BY <1>2 DEF Takers, Opposite, Sides
<1>4. topLevel[side] # None
  BY <1>3 DEF FillHead, CanFill
<1>5. PICK ls \in LevelSlots : ls = topLevel[side]
  BY <1>1, <1>4, HeadOrder
<1>6. PICK os \in Live : os = levels[ls].head /\ orders[os].side = side /\ LevelOf(os) = ls
  BY <1>1, <1>4, <1>5, HeadOrder
<1>7. PICK bucket \in Buckets : bucket = Bucket(orders[os].id)
  BY <1>1, BookAssumption DEF ListsLinked, LiveOrders, Bucket
<1>8. \/ TakeOff(os, ls, side, bucket)
      \/ \E q : levels' = [levels EXCEPT ![ls].total = @ - q] /\ UNCHANGED priceMap
  BY <1>3, <1>5, <1>6, <1>7 DEF FillHead, DoneBucket
<1>9. CASE TakeOff(os, ls, side, bucket)
  BY <1>1, <1>6, <1>9, UncrossedTakeOff
<1>10. CASE \E q : levels' = [levels EXCEPT ![ls].total = @ - q] /\ UNCHANGED priceMap
  <2>1. \A l \in LevelSlots : levels'[l].price = levels[l].price
    BY <1>1, <1>10 DEF TypeOK, Levels
  <2> QED BY <1>1, <1>10, <2>1, UncrossedSame DEF ListsLinked
<1> QED BY <1>8, <1>9, <1>10

\* A cancel leaves the book uncrossed.
LEMMA UncrossedCancelOrder ==
  ASSUME IInv, Uncrossed, NEW id \in OrderIds, CancelOrder(id)
  PROVE  Uncrossed'
<1>1. TypeOK /\ ListsLinked
  BY DEF IInv
<1>2. PICK bucket \in Buckets : bucket = Bucket(id)
  BY BookAssumption DEF Bucket
<1>3. PICK os \in Live : /\ index[bucket].slot = os
                         /\ index[bucket].level = LevelOf(os)
                         /\ index[bucket].side = orders[os].side
  BY <1>2 DEF IInv, IndexSound, CancelOrder
<1>4. TakeOff(os, LevelOf(os), orders[os].side, bucket)
  BY <1>2, <1>3 DEF CancelOrder
<1> QED BY <1>1, <1>4, UncrossedTakeOff

\* Resting on a level that exists leaves the book uncrossed.
LEMMA UncrossedJoinLevel ==
  ASSUME IInv, Uncrossed, JoinLevel
  PROVE  Uncrossed'
<1>1. TypeOK /\ LevelEnds
  BY DEF IInv, ListsLinked
<1> DEFINE ls == priceMap[taker.side][taker.price]
           h(os) == IF levels[ls].tail = None THEN os ELSE levels[ls].head
           c == levels[ls].count + 1
           n == levels[ls].total + taker.remaining
<1>2. PICK os \in freeOrders : levels' = [levels EXCEPT ![ls] = Resize(levels[ls], h(os), os, c, n)]
  BY DEF JoinLevel
<1> HIDE DEF ls, h, c, n
<1>3. \A l \in LevelSlots : levels'[l].price = levels[l].price
  <2>1. \A l \in LevelSlots : levels[l] \in Levels
    BY <1>1 DEF TypeOK
  <2>2. ls \in LevelSlots => Resize(levels[ls], h(os), os, c, n).price = levels[ls].price
    BY <2>1 DEF Resize, Levels
  <2> QED BY <1>1, <1>2, <2>2 DEF TypeOK
<1> QED BY <1>1, <1>3, UncrossedSame DEF JoinLevel

\* The book is never crossed, for any pool sizes, prices and sequence of operations.
THEOREM NeverCrossed == Spec => []Uncrossed
<1>1. Init => Uncrossed
  BY DEF Init, Uncrossed, LevelsOf, Sides
<1>2. IInv /\ Uncrossed /\ [Next]_vars => Uncrossed'
  <2> SUFFICES ASSUME IInv, Uncrossed, [Next]_vars PROVE Uncrossed'
    OBVIOUS
  <2>1. CASE UNCHANGED bookVars
    BY <2>1 DEF Uncrossed, LevelsOf, bookVars
  <2>2. CASE FillHead
    BY <2>2, UncrossedFillHead
  <2>3. CASE JoinLevel
    BY <2>3, UncrossedJoinLevel
  <2>4. CASE OpenLevel
    BY <2>4, UncrossedOpenLevel
  <2>5. CASE \E id \in OrderIds : CancelOrder(id)
    BY <2>5, UncrossedCancelOrder
  <2>6. CASE \/ \E id \in OrderIds, side \in Sides, quantity \in 0 .. MaxQuantity :
                  \/ \E price \in 0 .. PriceCap : AddOrder(id, side, price, quantity, FALSE)
                  \/ AddOrder(id, side, 0, quantity, TRUE)
             \/ Complete \/ DropRemainder
             \/ \E id \in OrderIds : CancelMiss(id)
             \/ UNCHANGED vars
    BY <2>1, <2>6 DEF AddOrder, Complete, DropRemainder, CancelMiss, vars
  <2> QED BY <2>2, <2>3, <2>4, <2>5, <2>6 DEF Next
<1> QED BY <1>1, <1>2, InvInit, InvNext, PTL DEF Spec

-----------------------------------------------------------------------------
\* The best price of a side is that of its head level.
BestPrice ==
    \A side \in Sides :
        best[side] = IF topLevel[side] = None THEN EmptyBest(side) ELSE levels[topLevel[side]].price

\* A step that leaves the best prices, the head levels and all levels' prices alone.
LEMMA BestSame ==
  ASSUME TypeOK, BestPrice, UNCHANGED <<best, topLevel>>,
         \A l \in LevelSlots : levels'[l].price = levels[l].price
  PROVE  BestPrice'
<1>1. \A side \in Sides : topLevel[side] \in LevelSlots \cup {None}
  BY DEF TypeOK
<1> QED BY <1>1 DEF BestPrice

\* remove_level finds the best price again where it is the head's that goes.
LEMMA BestTakeOff ==
  ASSUME TypeOK, ListsLinked, BestPrice, NEW os \in Live, NEW bucket \in Buckets,
         TakeOff(os, LevelOf(os), orders[os].side, bucket)
  PROVE  BestPrice'
<1>0. LiveOrders /\ QueuesLinked /\ LevelEnds /\ LevelsLinked
  BY DEF ListsLinked
<1> DEFINE at == orders[os].side
           ls == LevelOf(os)
<1>1. at \in Sides /\ ls \in LevelSlots /\ ls # None /\ ls \in LevelsOf(at) /\ os \in Slots
  BY <1>0, LiveFacts
<1>2. CASE /\ levels' = [levels EXCEPT ![ls] = Shortened(ls, os)]
           /\ UNCHANGED <<topLevel, best>>
  <2>1. \A l \in LevelSlots : levels'[l].price = levels[l].price
    BY <1>1, <1>2, ShortenedFields DEF TypeOK
  <2> QED BY <1>2, <2>1, BestSame
<1>3. CASE /\ levels' = Bypassed(ls)
           /\ topLevel' = [topLevel EXCEPT ![at] = IF levels[ls].prev = None THEN levels[ls].next ELSE @]
           /\ best' = [best EXCEPT ![at] = BestOf(at, topLevel'[at])]
  <2>1. \A l \in LevelSlots \ {ls} : levels'[l].price = levels[l].price
    BY <1>1, <1>3, BypassedFields
  <2>2. topLevel \in [Sides -> LevelSlots \cup {None}] /\ best \in [Sides -> 0 .. PriceCap + 1]
    BY DEF TypeOK
  <2>3. ASSUME NEW side \in Sides
        PROVE  topLevel[side] \in LevelsOf(side) \cup {None}
               /\ \A l \in LevelsOf(side) : l \in LevelSlots /\ l # None
    BY <1>0, LevelsOfFacts DEF LevelsLinked
  <2>4. topLevel'[at] # None => topLevel'[at] \in LevelSlots \ {ls}
    <3>1. levels[ls].next \in LevelsOf(at) \cup {None} /\ levels[ls].next # ls
      <4>1. levels[ls].next = ls => Better(at, levels[ls].price, levels[ls].price)
        BY <1>0, <1>1 DEF LevelsLinked
      <4>2. levels[ls].price \in Int
        BY <1>0, <1>1, LevelsOfFacts DEF LimitPrices
      <4> QED BY <1>0, <1>1, <4>1, <4>2 DEF LevelsLinked, Better
    <3>2. levels[ls].prev # None => topLevel[at] # ls
      BY <1>0, <1>1 DEF LevelsLinked
    <3>3. topLevel'[at] = IF levels[ls].prev = None THEN levels[ls].next ELSE topLevel[at]
      BY <1>1, <1>3, <2>2
    <3> QED BY <1>1, <2>3, <3>1, <3>2, <3>3
  <2>5. best'[at] = IF topLevel'[at] = None THEN EmptyBest(at) ELSE levels'[topLevel'[at]].price
    BY <1>1, <1>3, <2>1, <2>2, <2>4 DEF BestOf
  <2>6. ASSUME NEW side \in Sides, side # at
        PROVE  best'[side] = IF topLevel'[side] = None THEN EmptyBest(side)
                             ELSE levels'[topLevel'[side]].price
    <3>1. best'[side] = best[side] /\ topLevel'[side] = topLevel[side]
      BY <1>3, <2>2, <2>6
    <3>2. topLevel[side] # ls
      BY <1>0, <1>1, <2>3, <2>6 DEF LevelsLinked, Sides
    <3> QED BY <2>1, <2>3, <3>1, <3>2 DEF BestPrice
  <2> QED BY <2>5, <2>6 DEF BestPrice
<1> QED BY <1>0, <1>2, <1>3, TakeOffLevel

\* A fill keeps the best prices.
LEMMA BestFillHead ==
  ASSUME IInv, BestPrice, FillHead
  PROVE  BestPrice'
<1>1. TypeOK /\ ListsLinked
  BY DEF IInv
<1>2. taker \in Takers
  BY <1>1 DEF FillHead, TypeOK
<1>3. PICK side \in Sides : side = Opposite(taker.side)
  BY <1>2 DEF Takers, Opposite, Sides
<1>4. topLevel[side] # None
  BY <1>3 DEF FillHead, CanFill
<1>5. PICK ls \in LevelSlots : ls = topLevel[side]
  BY <1>1, <1>4, HeadOrder
<1>6. PICK os \in Live : os = levels[ls].head /\ orders[os].side = side /\ LevelOf(os) = ls
  BY <1>1, <1>4, <1>5, HeadOrder
<1>7. PICK bucket \in Buckets : bucket = Bucket(orders[os].id)
  BY <1>1, BookAssumption DEF ListsLinked, LiveOrders, Bucket
<1>8. \/ TakeOff(os, ls, side, bucket)
      \/ \E q : levels' = [levels EXCEPT ![ls].total = @ - q] /\ UNCHANGED <<topLevel, best>>
  BY <1>3, <1>5, <1>6, <1>7 DEF FillHead, DoneBucket
<1>9. CASE TakeOff(os, ls, side, bucket)
  BY <1>1, <1>6, <1>9, BestTakeOff
<1>10. CASE \E q : levels' = [levels EXCEPT ![ls].total = @ - q] /\ UNCHANGED <<topLevel, best>>
  <2>1. \A l \in LevelSlots : levels'[l].price = levels[l].price
    BY <1>1, <1>10 DEF TypeOK, Levels
  <2> QED BY <1>1, <1>10, <2>1, BestSame
<1> QED BY <1>8, <1>9, <1>10

\* A cancel keeps the best prices.
LEMMA BestCancelOrder ==
  ASSUME IInv, BestPrice, NEW id \in OrderIds, CancelOrder(id)
  PROVE  BestPrice'
<1>1. TypeOK /\ ListsLinked
  BY DEF IInv
<1>2. PICK bucket \in Buckets : bucket = Bucket(id)
  BY BookAssumption DEF Bucket
<1>3. PICK os \in Live : /\ index[bucket].slot = os
                         /\ index[bucket].level = LevelOf(os)
                         /\ index[bucket].side = orders[os].side
  BY <1>2 DEF IInv, IndexSound, CancelOrder
<1>4. TakeOff(os, LevelOf(os), orders[os].side, bucket)
  BY <1>2, <1>3 DEF CancelOrder
<1> QED BY <1>1, <1>4, BestTakeOff

\* An order that joins a level does not better the head's price.
LEMMA BestJoinLevel ==
  ASSUME IInv, BestPrice, JoinLevel
  PROVE  BestPrice'
<1>1. TypeOK /\ LevelEnds /\ LevelsLinked /\ InFlight
  BY DEF IInv, ListsLinked
<1>2. taker \in Takers /\ taker.side \in Sides /\ taker.price \in LimitPrices
  BY <1>1 DEF JoinLevel, Resting, TypeOK, InFlight, Takers
<1> DEFINE ls == priceMap[taker.side][taker.price]
           h(os) == IF levels[ls].tail = None THEN os ELSE levels[ls].head
           c == levels[ls].count + 1
           n == levels[ls].total + taker.remaining
<1>3. PICK os \in freeOrders : levels' = [levels EXCEPT ![ls] = Resize(levels[ls], h(os), os, c, n)]
  BY DEF JoinLevel
<1>4. ls \in LevelsOf(taker.side) /\ levels[ls].price = taker.price
  <2>1. ls # None
    BY DEF JoinLevel
  <2>2. ls \in LevelsOf(taker.side)
    BY <1>1, <1>2, <2>1, LevelsOfFacts
  <2>3. levels[ls].price = taker.price
    BY <1>1, <1>2, <2>1 DEF LevelEnds
  <2> QED BY <2>2, <2>3
<1>5. topLevel' = topLevel /\ best' = [best EXCEPT ![taker.side] =
                    IF Better(taker.side, taker.price, @) THEN taker.price ELSE @]
  BY DEF JoinLevel, Publish
<1> HIDE DEF ls, h, c, n
<1>6. \A l \in LevelSlots : levels'[l].price = levels[l].price
  <2>1. \A l \in LevelSlots : levels[l] \in Levels
    BY <1>1 DEF TypeOK
  <2>2. ls \in LevelSlots => Resize(levels[ls], h(os), os, c, n).price = levels[ls].price
    BY <2>1 DEF Resize, Levels
  <2> QED BY <1>1, <1>3, <2>2 DEF TypeOK
<1>7. best' = best
  <2>1. best \in [Sides -> 0 .. PriceCap + 1]
    BY <1>1 DEF TypeOK
  <2>2. ~Better(taker.side, taker.price, best[taker.side])
    BY <1>1, <1>2, <1>4, TopIsBest DEF BestPrice
  <2> QED BY <1>2, <1>5, <2>1, <2>2
<1> QED BY <1>1, <1>5, <1>6, <1>7, BestSame

\* A new level heads its side where its price is the best, and only there.
LEMMA BestOpenLevel ==
  ASSUME IInv, BestPrice, OpenLevel
  PROVE  BestPrice'
<1>0. TypeOK /\ LevelEnds /\ LevelsLinked /\ InFlight
  BY DEF IInv, ListsLinked
<1>1. PICK ls \in freeLevels, p \in MaybeLevel, c \in MaybeLevel :
         /\ InsertionPoint(p, c)
         /\ levels'[ls].price = taker.price
         /\ \A l \in LevelSlots \ {ls} : levels'[l].price = levels[l].price
         /\ topLevel' = IF p = None THEN [topLevel EXCEPT ![taker.side] = ls] ELSE topLevel
         /\ best' = [best EXCEPT ![taker.side] =
                       IF Better(taker.side, taker.price, @) THEN taker.price ELSE @]
  <2>1. PICK os \in freeOrders, ls \in freeLevels, p \in MaybeLevel, c \in MaybeLevel :
           /\ InsertionPoint(p, c)
           /\ orders' = Appended(os, None)
           /\ levels' = [l \in LevelSlots |->
                IF l = ls THEN [price |-> taker.price, total |-> taker.remaining, count |-> 1,
                                head |-> os, tail |-> os, next |-> c, prev |-> p]
                ELSE Relink(levels[l], IF l = p THEN ls ELSE levels[l].next,
                                       IF l = c THEN ls ELSE levels[l].prev)]
           /\ freeLevels' = freeLevels \ {ls}
           /\ priceMap' = [priceMap EXCEPT ![taker.side][taker.price] = ls]
           /\ topLevel' = IF p = None THEN [topLevel EXCEPT ![taker.side] = ls] ELSE topLevel
           /\ Publish(os, ls)
    BY DEF OpenLevel, MaybeLevel
  <2>2. \A l \in LevelSlots : levels[l] \in Levels
    BY <1>0 DEF TypeOK
  <2>3. \A l \in LevelSlots \ {ls} : levels'[l].price = levels[l].price
    BY <2>1, <2>2 DEF Relink, Levels
  <2>4. ls \in LevelSlots
    BY <1>0, <2>1 DEF TypeOK
  <2>5. levels'[ls].price = taker.price
    BY <2>1, <2>4
  <2> QED BY <2>1, <2>3, <2>5 DEF Publish
<1> DEFINE at == taker.side
           v == taker.price
<1>2. at \in Sides /\ v \in LimitPrices /\ ls \in LevelSlots /\ ls # None
  BY <1>0, BookAssumption DEF OpenLevel, Resting, TypeOK, InFlight, Takers
<1>3. topLevel \in [Sides -> LevelSlots \cup {None}] /\ best \in [Sides -> 0 .. PriceCap + 1]
  BY <1>0 DEF TypeOK
<1>4. ASSUME NEW side \in Sides, NEW l \in LevelsOf(side)
      PROVE  l \in LevelSlots \ {ls} /\ levels[l].price \in LimitPrices
  BY <1>0, LevelsOfFacts DEF LiveLevels
<1>5. ASSUME NEW side \in Sides
      PROVE  topLevel[side] # None =>
                topLevel[side] \in LevelSlots \ {ls} /\ levels[topLevel[side]].price \in LimitPrices
  BY <1>0, <1>4 DEF LevelsLinked
<1>6. ASSUME NEW side \in Sides, side # at
      PROVE  best'[side] = IF topLevel'[side] = None THEN EmptyBest(side)
                           ELSE levels'[topLevel'[side]].price
  <2>1. best'[side] = best[side] /\ topLevel'[side] = topLevel[side]
    BY <1>1, <1>3, <1>6
  <2> QED BY <1>1, <1>5, <2>1 DEF BestPrice
<1>7. CASE p = None
  <2>1. topLevel'[at] = ls
    BY <1>1, <1>2, <1>3, <1>7
  <2>2. Better(at, v, best[at])
    <3>1. CASE topLevel[at] = None
      <4>1. best[at] = EmptyBest(at) /\ v \in Int /\ v > 0 /\ v < PriceCap /\ PriceCap \in Int
        BY <1>2, <3>1, BookAssumption DEF BestPrice, LimitPrices
      <4> QED BY <4>1 DEF EmptyBest, Better
    <3>2. CASE topLevel[at] # None
      BY <1>1, <1>2, <1>7, <3>2 DEF BestPrice, InsertionPoint
    <3> QED BY <3>1, <3>2
  <2> QED BY <1>1, <1>2, <1>3, <1>6, <2>1, <2>2 DEF BestPrice
<1>8. CASE p # None
  <2>1. /\ p \in LevelsOf(at) /\ ~Better(at, v, levels[p].price)
        /\ ~Better(at, levels[p].price, levels[topLevel[at]].price) /\ topLevel[at] # None
    BY <1>0, <1>1, <1>2, <1>8, TopIsBest DEF InsertionPoint
  <2>2. v \in Int /\ levels[p].price \in Int /\ levels[topLevel[at]].price \in Int
    BY <1>2, <1>4, <1>5, <2>1 DEF LimitPrices
  <2>3. ~Better(at, v, best[at]) /\ best[at] = levels[topLevel[at]].price
    BY <1>2, <2>1, <2>2 DEF Better, BestPrice
  <2>4. best' = best /\ topLevel' = topLevel
    BY <1>1, <1>2, <1>3, <1>8, <2>3
  <2> QED BY <1>1, <1>2, <1>5, <1>6, <2>1, <2>3, <2>4 DEF BestPrice
<1> QED BY <1>7, <1>8

\* m_best_bid and m_best_ask, which are only raised by an add and found again by a
\* removal, are the best prices any live order of their side rests at, for any pool
\* sizes, prices and sequence of operations.
THEOREM BestStaysTop == Spec => []BestIsTop
<1>1. Init => BestPrice
  BY DEF Init, BestPrice
<1>2. IInv /\ BestPrice /\ [Next]_vars => BestPrice'
  <2> SUFFICES ASSUME IInv, BestPrice, [Next]_vars PROVE BestPrice'
    OBVIOUS
  <2>1. CASE UNCHANGED bookVars
    BY <2>1 DEF BestPrice, bookVars
  <2>2. CASE FillHead
    BY <2>2, BestFillHead
  <2>3. CASE JoinLevel
    BY <2>3, BestJoinLevel
  <2>4. CASE OpenLevel
    BY <2>4, BestOpenLevel
  <2>5. CASE \E id \in OrderIds : CancelOrder(id)
    BY <2>5, BestCancelOrder
  <2>6. CASE \/ \E id \in OrderIds, side \in Sides, quantity \in 0 .. MaxQuantity :
                  \/ \E price \in 0 .. PriceCap : AddOrder(id, side, price, quantity, FALSE)
                  \/ AddOrder(id, side, 0, quantity, TRUE)
             \/ Complete \/ DropRemainder
             \/ \E id \in OrderIds : CancelMiss(id)
             \/ UNCHANGED vars
    BY <2>1, <2>6 DEF AddOrder, Complete, DropRemainder, CancelMiss, vars
  <2> QED BY <2>2, <2>3, <2>4, <2>5, <2>6 DEF Next
<1>3. IInv /\ BestPrice => BestIsTop
  <2> SUFFICES ASSUME IInv, BestPrice, NEW side \in Sides, NEW s \in Live, orders[s].side = side
               PROVE  ~Better(side, orders[s].price, best[side])
    BY DEF BestIsTop, BestPrice
  <2>1. TypeOK /\ LiveOrders /\ LevelEnds /\ LevelsLinked
    BY DEF IInv, ListsLinked
  <2>2. LevelOf(s) \in LevelsOf(side) /\ levels[LevelOf(s)].price = orders[s].price
    BY <2>1, LiveFacts
  <2>3. topLevel[side] # None /\ ~Better(side, orders[s].price, levels[topLevel[side]].price)
    BY <2>1, <2>2, TopIsBest
  <2> QED BY <2>3 DEF BestPrice
<1> QED BY <1>1, <1>2, <1>3, InvInit, InvNext, PTL DEF Spec

-----------------------------------------------------------------------------
(* The book implements PriceTimeBook.                                      *)

\* What an order slot shows of its order, and what the book shows of its slots.
Shown(o) == [ticket |-> o.ticket, id |-> o.id, side |-> o.side, price |-> o.price,
             remaining |-> o.remaining]
Shelf == {Shown(orders[s]) : s \in Live}

\* Live orders have tickets of their own, so no two slots show the same.
LEMMA ShownApart ==
  ASSUME ListsLinked, NEW s \in Live, NEW t \in Live, Shown(orders[s]) = Shown(orders[t])
  PROVE  s = t
<1>1. orders[s].ticket = orders[t].ticket
  BY DEF Shown
<1> QED BY <1>1 DEF ListsLinked, QueuesLinked

\* Taking an order off takes what it showed, and nothing else.
LEMMA ShelfTakeOff ==
  ASSUME TypeOK, ListsLinked, NEW os \in Live, NEW bucket \in Buckets,
         TakeOff(os, LevelOf(os), orders[os].side, bucket)
  PROVE  Shelf' = Shelf \ {Shown(orders[os])}
<1>1. Live' = Live \ {os}
  BY TakeOffOrders DEF ListsLinked
<1>2. \A s \in Live' : Shown(orders'[s]) = Shown(orders[s])
  <2> SUFFICES ASSUME NEW s \in Live' PROVE Shown(orders'[s]) = Shown(orders[s])
    OBVIOUS
  <2>1. /\ orders'[s].ticket = orders[s].ticket /\ orders'[s].id = orders[s].id
        /\ orders'[s].side = orders[s].side /\ orders'[s].price = orders[s].price
        /\ orders'[s].remaining = orders[s].remaining
    BY TakeOffOrders DEF ListsLinked
  <2> QED BY <2>1 DEF Shown
<1>3. \A s \in Live : s # os => Shown(orders[s]) # Shown(orders[os])
  BY ShownApart
<1> QED BY <1>1, <1>2, <1>3 DEF Shelf

\* Filling part of an order changes the quantity it shows.
LEMMA ShelfPartial ==
  ASSUME TypeOK, ListsLinked, NEW os \in Live, NEW q \in Nat,
         orders' = [orders EXCEPT ![os].remaining = @ - q], freeOrders' = freeOrders
  PROVE  Shelf' = (Shelf \ {Shown(orders[os])}) \cup {[Shown(orders[os]) EXCEPT !.remaining = @ - q]}
<1>1. Live' = Live /\ os \in Slots /\ orders[os] \in Orders /\ orders \in [Slots -> Orders]
  BY DEF Live, TypeOK
<1>2. \A s \in Live : s # os => orders'[s] = orders[s] /\ Shown(orders[s]) # Shown(orders[os])
  BY <1>1, ShownApart
<1>3. Shown(orders'[os]) = [Shown(orders[os]) EXCEPT !.remaining = @ - q]
  <2>1. orders'[os] = [orders[os] EXCEPT !.remaining = @ - q]
    BY <1>1
  <2> QED BY <1>1, <2>1 DEF Shown, Orders
<1> QED BY <1>1, <1>2, <1>3 DEF Shelf

\* A remainder that rests is shown beside the others.
LEMMA ShelfAppended ==
  ASSUME IInv, Resting, NEW os \in freeOrders, NEW tail \in Live \cup {None},
         orders' = Appended(os, tail), freeOrders' = freeOrders \ {os}
  PROVE  Shelf' = Shelf \cup {Shown(taker)}
<1>1. Live' = Live \cup {os} /\ os \notin Live
  BY RestFacts
<1>2. Shown(orders'[os]) = Shown(taker)
  <2>1. /\ orders'[os].ticket = taker.ticket /\ orders'[os].id = taker.id
        /\ orders'[os].side = taker.side /\ orders'[os].price = taker.price
        /\ orders'[os].remaining = taker.remaining
    BY RestFacts
  <2> QED BY <2>1 DEF Shown
<1>3. \A s \in Live : Shown(orders'[s]) = Shown(orders[s])
  <2> SUFFICES ASSUME NEW s \in Live PROVE Shown(orders'[s]) = Shown(orders[s])
    OBVIOUS
  <2>1. /\ orders'[s].ticket = orders[s].ticket /\ orders'[s].id = orders[s].id
        /\ orders'[s].side = orders[s].side /\ orders'[s].price = orders[s].price
        /\ orders'[s].remaining = orders[s].remaining
    BY RestFacts
  <2> QED BY <2>1 DEF Shown
<1> QED BY <1>1, <1>2, <1>3 DEF Shelf

\* The head of the first level is the order that price-time priority serves first.
LEMMA HeadIsFirst ==
  ASSUME TypeOK, ListsLinked, NEW side \in Sides, topLevel[side] # None,
         NEW os \in Live, os = levels[topLevel[side]].head, NEW s \in Live, orders[s].side = side
  PROVE  \/ Better(side, orders[os].price, orders[s].price)
         \/ orders[os].price = orders[s].price /\ orders[os].ticket <= orders[s].ticket
<1>1. LiveOrders /\ QueuesLinked /\ LevelEnds /\ LevelsLinked
  BY DEF ListsLinked
<1>2. /\ topLevel[side] \in LevelsOf(side) /\ orders[os].side = side
      /\ orders[os].price = levels[topLevel[side]].price /\ orders[os].price \in Int
      /\ orders[os].ticket \in Int
  BY <1>1, HeadOrder, LiveFacts, Fields DEF LimitPrices
<1>3. /\ LevelOf(s) \in LevelsOf(side) /\ levels[LevelOf(s)].price = orders[s].price
      /\ orders[s].price \in Int /\ orders[s].ticket \in Int
  BY <1>1, LiveFacts, Fields DEF LimitPrices
<1>4. ~Better(side, orders[s].price, orders[os].price)
  BY <1>1, <1>2, <1>3, TopIsBest
<1>5. ASSUME orders[s].price = orders[os].price
      PROVE  ~(orders[s].ticket < orders[os].ticket)
  <2>1. orders[os].prev = None
    <3>1. PICK p \in LimitPrices : priceMap[side][p] = topLevel[side]
      BY <1>1, <1>2, LevelsOfFacts
    <3> QED BY <1>1, <3>1 DEF LevelEnds
  <2>2. SameLevel(s, os)
    BY <1>2, <1>5 DEF SameLevel
  <2> QED BY <1>1, <2>1, <2>2 DEF QueuesLinked
<1> QED BY <1>2, <1>3, <1>4, <1>5 DEF Better, Sides

\* When match stops with something left, no order on the other side crosses.
LEMMA NothingCrosses ==
  ASSUME TypeOK, ListsLinked, taker # None, ~CanFill, taker.remaining > 0,
         NEW s \in Live, orders[s].side = Opposite(taker.side)
  PROVE  ~Crosses(taker, orders[s].price)
<1>1. LiveOrders /\ LevelEnds /\ LevelsLinked /\ taker \in Takers
  BY DEF ListsLinked, TypeOK
<1> DEFINE side == Opposite(taker.side)
<1>2. side \in Sides /\ taker.side \in Sides /\ taker.price \in Int
  BY <1>1 DEF Takers, Opposite, Sides
<1>3. /\ LevelOf(s) \in LevelsOf(side) /\ levels[LevelOf(s)].price = orders[s].price
      /\ orders[s].price \in Int
  BY <1>1, LiveFacts DEF LimitPrices
<1>4. /\ topLevel[side] # None /\ levels[topLevel[side]].price \in Int
      /\ ~Better(side, orders[s].price, levels[topLevel[side]].price)
  BY <1>1, <1>2, <1>3, TopIsBest, LevelsOfFacts DEF LimitPrices
<1>5. ~Crosses(taker, levels[topLevel[side]].price)
  BY <1>4 DEF CanFill
<1> QED BY <1>2, <1>3, <1>4, <1>5 DEF Crosses, Better, Opposite, Sides

\* What the mapping puts for resting is the shelf.
LEMMA Mapped ==
  Shelf = {[ticket |-> orders[s].ticket, id |-> orders[s].id, side |-> orders[s].side,
            price |-> orders[s].price, remaining |-> orders[s].remaining] : s \in Live}
  BY DEF Shelf, Shown

\* add_limit_order and add_market_order accept.
LEMMA PromiseAccept ==
  ASSUME NEW id, NEW side, NEW price \in 0 .. PriceCap, NEW quantity, NEW market,
         AddOrder(id, side, price, quantity, market)
  PROVE  Promise!Accept(id, side, price, quantity, market)
<1>1. Live' = Live /\ orders' = orders
  BY DEF AddOrder, bookVars, Live
<1>2. Promise!Valid(price, quantity, market)
  BY BookAssumption DEF AddOrder, Valid, Promise!Valid, Promise!LimitPrices
<1> QED BY <1>1, <1>2 DEF AddOrder, Promise!Accept

\* A fill is a trade with the first resting order.
LEMMA PromiseTrade ==
  ASSUME IInv, FillHead
  PROVE  Promise!Trade
<1>1. TypeOK /\ ListsLinked
  BY DEF IInv
<1>2. taker \in Takers /\ taker # None /\ taker.remaining > 0 /\ taker.remaining \in Nat
  BY <1>1 DEF FillHead, CanFill, TypeOK, Takers
<1>3. PICK side \in Sides : side = Opposite(taker.side)
  BY <1>2 DEF Takers, Opposite, Sides
<1>4. topLevel[side] # None /\ Crosses(taker, levels[topLevel[side]].price)
  BY <1>3 DEF FillHead, CanFill
<1>5. PICK ls \in LevelSlots : ls = topLevel[side]
  BY <1>1, <1>4, HeadOrder
<1>6. PICK os \in Live : /\ os = levels[ls].head /\ orders[os].side = side /\ LevelOf(os) = ls
                         /\ orders[os].price = levels[ls].price
  BY <1>1, <1>4, <1>5, HeadOrder
<1>7. PICK m : m = Shown(orders[os])
  OBVIOUS
<1>8. /\ m.ticket = orders[os].ticket /\ m.side = side /\ m.price = orders[os].price
      /\ m.remaining = orders[os].remaining /\ m.remaining \in Nat /\ m \in Shelf
  BY <1>1, <1>6, <1>7, Fields DEF Shown, Shelf, Live
<1>9. PICK q \in Nat : q = FillQuantity(orders[os])
  BY <1>2, <1>8 DEF FillQuantity
<1>10. q = (IF taker.remaining < m.remaining THEN taker.remaining ELSE m.remaining)
  BY <1>8, <1>9 DEF FillQuantity
<1>11. /\ taker' = [taker EXCEPT !.remaining = @ - q]
       /\ ledger' = Filled(Filled(ledger, m.ticket, q), taker.ticket, q)
       /\ tickets' = tickets
       /\ IF q = m.remaining
          THEN TakeOff(os, ls, side, Bucket(orders[os].id))
          ELSE /\ orders' = [orders EXCEPT ![os].remaining = @ - q]
               /\ freeOrders' = freeOrders
  BY <1>3, <1>5, <1>6, <1>8, <1>9 DEF FillHead, DoneBucket
<1>12. Shelf' = (Shelf \ {m}) \cup IF q < m.remaining THEN {[m EXCEPT !.remaining = @ - q]} ELSE {}
  <2>1. CASE q = m.remaining
    <3>1. PICK bucket \in Buckets : bucket = Bucket(orders[os].id)
      BY <1>1, BookAssumption DEF ListsLinked, LiveOrders, Bucket
    <3>2. TakeOff(os, LevelOf(os), orders[os].side, bucket)
      BY <1>6, <1>11, <2>1, <3>1
    <3>3. Shelf' = Shelf \ {m}
      BY <1>1, <1>7, <3>2, ShelfTakeOff
    <3> QED BY <2>1, <3>3, <1>8
  <2>2. CASE q # m.remaining
    <3>1. q < m.remaining
      BY <1>2, <1>8, <1>10, <2>2
    <3> QED BY <1>1, <1>7, <1>11, <2>2, <3>1, ShelfPartial
  <2> QED BY <2>1, <2>2
<1>13. \A o \in Shelf : o.side = m.side =>
          \/ Better(m.side, m.price, o.price)
          \/ m.price = o.price /\ m.ticket <= o.ticket
  <2> SUFFICES ASSUME NEW s \in Live, Shown(orders[s]).side = side
               PROVE  LET o == Shown(orders[s]) IN
                      \/ Better(side, m.price, o.price)
                      \/ m.price = o.price /\ m.ticket <= o.ticket
    BY <1>8 DEF Shelf
  <2>1. orders[s].side = side
    BY DEF Shown
  <2>2. \/ Better(side, orders[os].price, orders[s].price)
        \/ orders[os].price = orders[s].price /\ orders[os].ticket <= orders[s].ticket
    BY <1>1, <1>4, <1>5, <1>6, <2>1, HeadIsFirst
  <2> QED BY <1>8, <2>2 DEF Shown
<1>14. Promise!First(m)
  <2>1. m.side = Promise!Opposite(taker.side)
    BY <1>3, <1>8 DEF Opposite, Promise!Opposite
  <2>2. Promise!Crosses(taker, m.price)
    BY <1>4, <1>5, <1>6, <1>8 DEF Crosses, Promise!Crosses
  <2>3. \A o \in Shelf : o.side = m.side =>
           \/ Promise!Better(m.side, m.price, o.price)
           \/ m.price = o.price /\ m.ticket <= o.ticket
    BY <1>13 DEF Better, Promise!Better
  <2> QED BY <1>8, <2>1, <2>2, <2>3, Mapped DEF Promise!First
<1>15. ledger' = [ledger EXCEPT ![m.ticket].filled = @ + q, ![taker.ticket].filled = @ + q]
  <2>1. m.ticket # taker.ticket
    <3>1. orders[os].ticket < taker.ticket /\ orders[os].ticket \in Int
      BY <1>1, <1>2, <1>6, Fields DEF ListsLinked, LiveOrders, Live
    <3> QED BY <1>8, <3>1
  <2>2. \A n, p : n # p =>
           Filled(Filled(ledger, n, q), p, q) = [ledger EXCEPT ![n].filled = @ + q, ![p].filled = @ + q]
    BY DEF Filled
  <2> QED BY <1>11, <2>1, <2>2
<1>16. Shelf' = {[ticket |-> orders'[s].ticket, id |-> orders'[s].id, side |-> orders'[s].side,
                  price |-> orders'[s].price, remaining |-> orders'[s].remaining] : s \in Live'}
  BY DEF Shelf, Shown
<1> QED BY <1>2, <1>8, <1>10, <1>11, <1>12, <1>14, <1>15, <1>16, Mapped DEF Promise!Trade

\* The promise that the remainder is settled, whether it rests or not.
LEMMA NoneFirst ==
  ASSUME IInv, taker # None, ~CanFill
  PROVE  taker.remaining = 0 \/ ~ \E m \in Shelf : Promise!First(m)
<1>1. TypeOK /\ ListsLinked
  BY DEF IInv
<1>2. taker.remaining \in Nat
  BY <1>1 DEF TypeOK, Takers
<1> SUFFICES ASSUME taker.remaining > 0, NEW m \in Shelf, Promise!First(m) PROVE FALSE
  BY <1>2
<1>3. PICK s \in Live : m = Shown(orders[s])
  BY DEF Shelf
<1>4. m.side = orders[s].side /\ m.price = orders[s].price
  BY <1>3 DEF Shown
<1>5. orders[s].side = Opposite(taker.side) /\ Crosses(taker, orders[s].price)
  BY <1>4 DEF Promise!First, Promise!Opposite, Promise!Crosses, Opposite, Crosses
<1> QED BY <1>1, <1>5, NothingCrosses

\* The end of an add that gives the remainder up.
LEMMA PromiseGone ==
  ASSUME IInv, Complete \/ DropRemainder
  PROVE  Promise!Settle
<1>1. taker # None /\ ~CanFill
  BY DEF Complete, DropRemainder, Resting
<1>2. taker.remaining = 0 \/ ~ \E m \in Shelf : Promise!First(m)
  BY <1>1, NoneFirst
<1>3. Live' = Live /\ orders' = orders
  BY DEF Complete, DropRemainder, bookVars, Live
<1> QED BY <1>1, <1>2, <1>3, Mapped DEF Complete, DropRemainder, Promise!Settle

\* The end of an add that rests.
LEMMA PromiseRest ==
  ASSUME IInv, Resting, NEW os \in freeOrders, NEW tail \in Live \cup {None},
         orders' = Appended(os, tail), freeOrders' = freeOrders \ {os}, taker' = None,
         UNCHANGED <<ledger, tickets>>
  PROVE  Promise!Settle
<1>1. taker # None /\ ~CanFill /\ taker.remaining > 0 /\ ~taker.market
  BY DEF Resting
<1>2. taker.remaining = 0 \/ ~ \E m \in Shelf : Promise!First(m)
  BY <1>1, NoneFirst
<1>3. Shelf' = Shelf \cup {Shown(taker)}
  BY ShelfAppended
<1>4. Shelf' = {[ticket |-> orders'[s].ticket, id |-> orders'[s].id, side |-> orders'[s].side,
                 price |-> orders'[s].price, remaining |-> orders'[s].remaining] : s \in Live'}
  BY DEF Shelf, Shown
<1> QED BY <1>1, <1>2, <1>3, <1>4, Mapped DEF Promise!Settle, Shown

\* A remainder that rests goes behind the last of its level, or is the first of one.
LEMMA RestsBehind ==
  ASSUME IInv, JoinLevel \/ OpenLevel
  PROVE  /\ Resting /\ UNCHANGED <<ledger, tickets>>
         /\ \E os \in freeOrders : \E tail \in Live \cup {None} :
               orders' = Appended(os, tail) /\ freeOrders' = freeOrders \ {os} /\ taker' = None
<1>1. CASE JoinLevel
  <2>1. levels[priceMap[taker.side][taker.price]].tail \in Live
    <3>1. taker.side \in Sides /\ taker.price \in LimitPrices
      BY <1>1 DEF JoinLevel, Resting, IInv, ListsLinked, InFlight, TypeOK, Takers
    <3> QED BY <1>1, <3>1 DEF JoinLevel, IInv, ListsLinked, LevelEnds
  <2> QED BY <1>1, <2>1 DEF JoinLevel, Publish
<1>2. CASE OpenLevel
  BY <1>2 DEF OpenLevel, Publish
<1> QED BY <1>1, <1>2

\* A cancel takes a resting order of its bucket.
LEMMA PromiseCancel ==
  ASSUME IInv, NEW id \in OrderIds, CancelOrder(id)
  PROVE  Promise!Cancel(id)
<1>1. TypeOK /\ ListsLinked
  BY DEF IInv
<1>2. PICK bucket \in Buckets : bucket = Bucket(id)
  BY BookAssumption DEF Bucket
<1>3. PICK os \in Live : /\ index[bucket].slot = os
                         /\ index[bucket].level = LevelOf(os)
                         /\ index[bucket].side = orders[os].side
                         /\ Bucket(orders[os].id) = bucket
  BY <1>2 DEF IInv, IndexSound, CancelOrder
<1>4. TakeOff(os, LevelOf(os), orders[os].side, bucket)
  BY <1>2, <1>3 DEF CancelOrder
<1>5. Shelf' = Shelf \ {Shown(orders[os])}
  BY <1>1, <1>4, ShelfTakeOff
<1>6. PICK m \in Shelf : m = Shown(orders[os])
  BY DEF Shelf
<1>7. m.id = orders[os].id /\ m.ticket = orders[os].ticket /\ m.remaining = orders[os].remaining
  BY <1>6 DEF Shown
<1>8. Hash[m.id] = Hash[id]
  BY <1>2, <1>3, <1>7 DEF Bucket
<1>9. /\ taker = None /\ taker' = taker /\ tickets' = tickets
      /\ ledger' = [ledger EXCEPT ![m.ticket].gone = m.remaining]
  BY <1>2, <1>3, <1>7 DEF CancelOrder
<1>10. Shelf' = {[ticket |-> orders'[s].ticket, id |-> orders'[s].id, side |-> orders'[s].side,
                  price |-> orders'[s].price, remaining |-> orders'[s].remaining] : s \in Live'}
  BY DEF Shelf, Shown
<1> QED BY <1>5, <1>6, <1>8, <1>9, <1>10, Mapped DEF Promise!Cancel

\* The arrays, lists and index implement PriceTimeBook: every fill is of the best and
\* oldest order on the other side, a remainder rests only when nothing crosses it, and a
\* cancel takes one order of its bucket, for any pool sizes, ids and hash function.
THEOREM RefinesPriceTime == Spec => KeepsPromise
<1>1. Init => Promise!Init
  BY DEF Init, Live, Promise!Init
<1>2. IInv /\ [Next]_vars => [Promise!Next]_(Promise!bookVars)
  <2> SUFFICES ASSUME IInv, [Next]_vars PROVE Promise!Next \/ UNCHANGED Promise!bookVars
    OBVIOUS
  <2>1. ASSUME NEW id \in OrderIds, NEW side \in Sides, NEW quantity \in 0 .. MaxQuantity,
               \/ \E price \in 0 .. PriceCap : AddOrder(id, side, price, quantity, FALSE)
               \/ AddOrder(id, side, 0, quantity, TRUE)
        PROVE  Promise!Next
    <3>1. 0 \in 0 .. PriceCap
      BY BookAssumption
    <3>2. \/ \E price \in 0 .. PriceCap : Promise!Accept(id, side, price, quantity, FALSE)
          \/ Promise!Accept(id, side, 0, quantity, TRUE)
      BY <2>1, <3>1, PromiseAccept
    <3> QED BY <3>2 DEF Promise!Next, Promise!Sides, Sides
  <2>2. CASE FillHead
    BY <2>2, PromiseTrade DEF Promise!Next
  <2>3. CASE Complete \/ DropRemainder
    BY <2>3, PromiseGone DEF Promise!Next
  <2>4. CASE JoinLevel \/ OpenLevel
    BY <2>4, RestsBehind, PromiseRest DEF Promise!Next
  <2>5. CASE \E id \in OrderIds : CancelOrder(id)
    BY <2>5, PromiseCancel DEF Promise!Next
  <2>6. CASE UNCHANGED vars \/ \E id \in OrderIds : CancelMiss(id)
    BY <2>6 DEF CancelMiss, vars, bookVars, Live, Promise!bookVars
  <2> QED BY <2>1, <2>2, <2>3, <2>4, <2>5, <2>6 DEF Next
<1> QED BY <1>1, <1>2, InvInit, InvNext, PTL DEF Spec, KeepsPromise, Promise!Spec

-----------------------------------------------------------------------------
(* The level pool.                                                         *)

\* No level of either side has the price of a remainder that is to rest on a new one.
LEMMA PriceIsFree ==
  ASSUME IInv, Resting, priceMap[taker.side][taker.price] = None, NEW l \in LiveLevels
  PROVE  levels[l].price \in LimitPrices \ {taker.price}
<1>1. TypeOK /\ LiveOrders /\ LevelEnds /\ LevelsLinked /\ InFlight
  BY DEF IInv, ListsLinked
<1>2. taker \in Takers /\ taker.side \in Sides /\ taker.price \in LimitPrices /\ taker.remaining > 0
  BY <1>1 DEF Resting, TypeOK, InFlight, Takers
<1>3. PICK side \in Sides : l \in LevelsOf(side)
  BY <1>1 DEF LevelsLinked, Sides
<1>4. levels[l].price \in LimitPrices /\ priceMap[side][levels[l].price] = l /\ l # None
  BY <1>1, <1>3, LevelsOfFacts
<1>5. CASE side = taker.side
  BY <1>4, <1>5
<1>6. CASE side # taker.side
  <2>1. side = Opposite(taker.side)
    BY <1>2, <1>6 DEF Opposite, Sides
  <2>2. levels[l].head \in Live /\ orders[levels[l].head].side = side
        /\ orders[levels[l].head].price = levels[l].price
    BY <1>1, <1>4 DEF LevelEnds
  <2>3. ~Crosses(taker, levels[l].price)
    BY <1>1, <2>1, <2>2, NothingCrosses DEF Resting, IInv
  <2>4. taker.price \in Int /\ levels[l].price \in Int
    BY <1>2, <1>4 DEF LimitPrices
  <2> QED BY <1>4, <2>3, <2>4 DEF Crosses
<1> QED BY <1>5, <1>6

\* Two levels have two prices: on one side by the price map, across because the book is
\* not crossed.
LEMMA PricesApart ==
  ASSUME IInv, Uncrossed, NEW l \in LiveLevels, NEW k \in LiveLevels, levels[l].price = levels[k].price
  PROVE  l = k
<1>1. TypeOK /\ LevelEnds /\ LevelsLinked
  BY DEF IInv, ListsLinked
<1>2. PICK s \in Sides : l \in LevelsOf(s)
  BY <1>1 DEF LevelsLinked, Sides
<1>3. PICK t \in Sides : k \in LevelsOf(t)
  BY <1>1 DEF LevelsLinked, Sides
<1>4. levels[l].price \in Int
  BY <1>1, <1>2, LevelsOfFacts DEF LimitPrices
<1>5. s = t
  BY <1>2, <1>3, <1>4 DEF Uncrossed, Sides
<1> QED BY <1>1, <1>2, <1>3, <1>5, LevelsOfFacts

\* find_or_create_level never fails: with at least as many level slots as there are limit
\* prices (16384 and 9999), a remainder that needs a new level finds a slot for it.
THEOREM LevelsSuffice ==
  ASSUME IsFiniteSet(LevelSlots), Cardinality(LevelSlots) >= PriceCap - 1
  PROVE  Spec => []LevelPoolSuffices
<1>1. IInv /\ Uncrossed => LevelPoolSuffices
  <2> SUFFICES ASSUME IInv, Uncrossed, Resting, NoLevel PROVE FALSE
    BY DEF LevelPoolSuffices
  <2>1. LiveLevels = LevelSlots /\ priceMap[taker.side][taker.price] = None
    BY DEF NoLevel, LiveLevels
  <2>2. taker.price \in LimitPrices
    BY DEF Resting, IInv, ListsLinked, InFlight
  <2>3. PICK T : T = LimitPrices \ {taker.price}
    OBVIOUS
  <2>4. IsFiniteSet(T) /\ Cardinality(T) < Cardinality(LevelSlots)
    <3>1. PriceCap \in Int /\ PriceCap - 1 \in Int /\ 1 <= PriceCap - 1
      BY BookAssumption
    <3>2. IsFiniteSet(LimitPrices) /\ Cardinality(LimitPrices) = PriceCap - 1
      BY <3>1, FS_Interval DEF LimitPrices
    <3>3. Cardinality(T) = PriceCap - 2 /\ IsFiniteSet(T)
      BY <2>2, <2>3, <3>1, <3>2, FS_RemoveElement
    <3>4. Cardinality(LevelSlots) \in Nat
      BY FS_CardinalityType
    <3> QED BY <3>1, <3>3, <3>4
  <2>5. PICK f : f = [l \in LevelSlots |-> levels[l].price]
    OBVIOUS
  <2>6. f \in [LevelSlots -> T]
    BY <2>1, <2>3, <2>5, PriceIsFree
  <2>7. PICK l \in LevelSlots, k \in LevelSlots : l # k /\ f[l] = f[k]
    BY <2>4, <2>6, FS_PigeonHole
  <2> QED BY <2>1, <2>5, <2>7, PricesApart
<1>2. Spec => []IInv
  BY InvInit, InvNext, PTL DEF Spec
<1>3. Spec => []Uncrossed
  BY NeverCrossed
<1> QED BY <1>1, <1>2, <1>3, PTL

-----------------------------------------------------------------------------
(* The history: what is owed under each ticket.                            *)

\* An order on the book, or in flight, is the one accepted under its ticket, and
\* nothing of it was given up.
History ==
    /\ \A s \in Live : LET was == ledger[orders[s].ticket]
                       IN was.id = orders[s].id /\ was.gone = 0
    /\ taker # None => ledger[taker.ticket].id = taker.id /\ ledger[taker.ticket].gone = 0

\* The history's fields after a fill of both orders, and after one gave up the rest.
LEMMA LedgerFields ==
  ASSUME ledger \in Ledgers
  PROVE  \A t \in 1 .. MaxTickets : /\ ledger[t].quantity \in Nat /\ ledger[t].filled \in Nat
                                    /\ ledger[t].gone \in Nat
  BY DEF Ledgers

LEMMA FilledFields ==
  ASSUME NEW L \in Ledgers, NEW n \in 1 .. MaxTickets, NEW q \in Nat
  PROVE  \A t \in 1 .. MaxTickets :
            LET F == Filled(L, n, q)
            IN /\ F[t].id = L[t].id /\ F[t].quantity = L[t].quantity /\ F[t].gone = L[t].gone
               /\ F[t].filled = L[t].filled + IF t = n THEN q ELSE 0
  BY DEF Ledgers, Filled

LEMMA GoneFields ==
  ASSUME ledger \in Ledgers, NEW n \in 1 .. MaxTickets, NEW q \in Nat
  PROVE  \A t \in 1 .. MaxTickets :
            LET G == [ledger EXCEPT ![n].gone = q]
            IN /\ G[t].id = ledger[t].id /\ G[t].quantity = ledger[t].quantity
               /\ G[t].filled = ledger[t].filled
               /\ G[t].gone = IF t = n THEN q ELSE ledger[t].gone
  BY DEF Ledgers

\* Live orders' and the taker's numbers.
LEMMA TicketFacts ==
  ASSUME TypeOK, ListsLinked
  PROVE  /\ tickets \in 0 .. MaxTickets /\ 1 .. tickets \subseteq 1 .. MaxTickets
         /\ \A s \in Live : /\ s \in Slots /\ orders[s].ticket \in 1 .. tickets
                            /\ orders[s].remaining \in Nat /\ orders[s].id \in OrderIds
                            /\ taker # None => orders[s].ticket < taker.ticket
         /\ taker # None => /\ taker.ticket \in 1 .. MaxTickets /\ taker.ticket = tickets
                            /\ taker.ticket \in 1 .. tickets
                            /\ taker.remaining \in Nat /\ taker.id \in OrderIds
<1>1. tickets \in 0 .. MaxTickets /\ 1 .. tickets \subseteq 1 .. MaxTickets
  BY BookAssumption DEF TypeOK
<1>2. \A s \in Live : /\ s \in Slots /\ orders[s].ticket \in 1 .. tickets
                      /\ orders[s].remaining \in Nat /\ orders[s].id \in OrderIds
                      /\ taker # None => orders[s].ticket < taker.ticket
  BY Fields DEF ListsLinked, LiveOrders, Live
<1>3. taker # None => /\ taker.ticket \in 1 .. MaxTickets /\ taker.ticket = tickets
                      /\ taker.remaining \in Nat /\ taker.id \in OrderIds
  BY DEF TypeOK, ListsLinked, InFlight, Takers
<1> QED BY <1>1, <1>2, <1>3

\* The book and the taker go on as they are, but for what a fill takes from both.
LEMMA HistFill ==
  ASSUME TypeOK, ListsLinked, History, Conserved, NEW os \in Live, NEW q \in Nat, taker # None,
         taker' = [taker EXCEPT !.remaining = @ - q], taker' # None,
         ledger' = Filled(Filled(ledger, orders[os].ticket, q), taker.ticket, q),
         tickets' = tickets,
         Live' \subseteq Live, Live \ {os} \subseteq Live',
         \A s \in Live' : orders'[s].ticket = orders[s].ticket /\ orders'[s].id = orders[s].id,
         \A s \in Live' \ {os} : orders'[s].remaining = orders[s].remaining,
         IF os \in Live' THEN orders'[os].remaining = orders[os].remaining - q
                         ELSE q = orders[os].remaining
  PROVE  History' /\ Conserved'
<1>1. /\ tickets \in 0 .. MaxTickets /\ 1 .. tickets \subseteq 1 .. MaxTickets
      /\ \A s \in Live : /\ orders[s].ticket \in 1 .. tickets /\ orders[s].remaining \in Nat
                         /\ orders[s].ticket < taker.ticket
      /\ taker.ticket \in 1 .. tickets /\ taker.remaining \in Nat
  BY TicketFacts
<1> DEFINE n == orders[os].ticket
           k == taker.ticket
<1>2. n \in 1 .. MaxTickets /\ k \in 1 .. MaxTickets /\ n # k /\ ledger \in Ledgers
  BY <1>1 DEF TypeOK
<1>3. Filled(ledger, n, q) \in Ledgers
  BY <1>2, LedgerFilled
<1>4. taker'.ticket = k /\ taker'.id = taker.id /\ taker'.remaining = taker.remaining - q
  <2>1. taker \in Takers
    BY DEF TypeOK
  <2> QED BY <2>1 DEF Takers
<1> HIDE DEF n, k
<1>5. \A t \in 1 .. MaxTickets :
         /\ ledger'[t].id = ledger[t].id /\ ledger'[t].quantity = ledger[t].quantity
         /\ ledger'[t].gone = ledger[t].gone
         /\ ledger'[t].filled = ledger[t].filled + (IF t = n THEN q ELSE 0) + (IF t = k THEN q ELSE 0)
  <2>1. \A t \in 1 .. MaxTickets :
           LET F == Filled(ledger, n, q)
           IN /\ F[t].id = ledger[t].id /\ F[t].quantity = ledger[t].quantity
              /\ F[t].gone = ledger[t].gone
              /\ F[t].filled = ledger[t].filled + IF t = n THEN q ELSE 0
    BY <1>2, FilledFields
  <2>2. ledger' = Filled(Filled(ledger, n, q), k, q)
    BY DEF n, k
  <2>3. \A t \in 1 .. MaxTickets :
           /\ ledger'[t].id = Filled(ledger, n, q)[t].id
           /\ ledger'[t].quantity = Filled(ledger, n, q)[t].quantity
           /\ ledger'[t].gone = Filled(ledger, n, q)[t].gone
           /\ ledger'[t].filled = Filled(ledger, n, q)[t].filled + IF t = k THEN q ELSE 0
    BY <1>2, <1>3, <2>2, FilledFields
  <2> QED BY <2>1, <2>3
<1>6. /\ \A t \in 1 .. MaxTickets : Owed(ledger[t]) \in Int
      /\ \A t \in 1 .. MaxTickets : t # n /\ t # k => Owed(ledger'[t]) = Owed(ledger[t])
      /\ Owed(ledger'[n]) = Owed(ledger[n]) - q /\ Owed(ledger'[k]) = Owed(ledger[k]) - q
  BY <1>2, <1>5, LedgerFields DEF Owed
<1>7. \A s \in Live' : orders'[s].ticket \in 1 .. MaxTickets /\ orders'[s].ticket # k
                       /\ (s # os => orders'[s].ticket # n)
  BY <1>1 DEF k, n, Conserved
<1>8. History'
  <2>1. \A s \in Live' : ledger'[orders'[s].ticket].id = orders'[s].id
                         /\ ledger'[orders'[s].ticket].gone = 0
    BY <1>5, <1>7 DEF History
  <2>2. ledger'[taker'.ticket].id = taker'.id /\ ledger'[taker'.ticket].gone = 0
    BY <1>2, <1>4, <1>5 DEF History, k
  <2> QED BY <2>1, <2>2 DEF History
<1>9. \A s \in Live' : /\ orders'[s].remaining = Owed(ledger'[orders'[s].ticket])
                       /\ \A u \in Live' : orders'[s].ticket = orders'[u].ticket => s = u
                       /\ orders'[s].ticket # taker'.ticket
  <2> SUFFICES ASSUME NEW s \in Live' PROVE orders'[s].remaining = Owed(ledger'[orders'[s].ticket])
    BY <1>4, <1>7 DEF Conserved
  <2>1. orders[s].remaining = Owed(ledger[orders[s].ticket]) /\ orders'[s].ticket = orders[s].ticket
    BY DEF Conserved
  <2>2. CASE s = os
    <3>1. orders'[s].remaining = orders[s].remaining - q /\ orders[s].ticket = n
      BY <2>2 DEF n
    <3> QED BY <1>6, <2>1, <3>1 DEF Owed
  <2>3. CASE s # os
    <3>1. orders[s].ticket \in 1 .. MaxTickets /\ orders[s].ticket # n /\ orders[s].ticket # k
      BY <1>7, <2>1, <2>3
    <3> QED BY <1>6, <2>1, <2>3, <3>1
  <2> QED BY <2>2, <2>3
<1>10. taker'.remaining = Owed(ledger'[taker'.ticket])
  BY <1>4, <1>6 DEF Conserved, k, Owed
<1>11. ASSUME NEW t \in 1 .. tickets', \A s \in Live' : orders'[s].ticket # t, taker'.ticket # t
       PROVE  Owed(ledger'[t]) = 0
  <2>1. t \in 1 .. tickets /\ t \in 1 .. MaxTickets /\ t # k
    BY <1>1, <1>4, <1>11
  <2>2. CASE t = n
    <3>1. os \notin Live'
      BY <1>11, <2>2 DEF n
    <3>2. Owed(ledger[n]) = orders[os].remaining
      BY DEF Conserved, n
    <3> QED BY <1>1, <1>6, <2>2, <3>1, <3>2 DEF Owed
  <2>3. CASE t # n
    <3>1. \A s \in Live : orders[s].ticket # t
      BY <1>11, <2>3 DEF n
    <3> QED BY <1>6, <2>1, <2>3, <3>1 DEF Conserved, Owed, k
  <2> QED BY <2>2, <2>3
<1>12. Conserved'
  BY <1>9, <1>10, <1>11 DEF Conserved, Owed
<1> QED BY <1>8, <1>12

\* The order in flight is given up, or rests in the slot os.
LEMMA HistEnd ==
  ASSUME TypeOK, ListsLinked, History, Conserved, taker # None, taker' = None, tickets' = tickets,
         \/ /\ ledger' = [ledger EXCEPT ![taker.ticket].gone = taker.remaining]
            /\ Live' = Live /\ orders' = orders
         \/ /\ ledger' = ledger
            /\ \E os \in Slots \ Live :
                  /\ Live' = Live \cup {os}
                  /\ orders'[os].ticket = taker.ticket /\ orders'[os].id = taker.id
                  /\ orders'[os].remaining = taker.remaining
            /\ \A s \in Live : /\ orders'[s].ticket = orders[s].ticket /\ orders'[s].id = orders[s].id
                               /\ orders'[s].remaining = orders[s].remaining
  PROVE  History' /\ Conserved'
<1>1. /\ tickets \in 0 .. MaxTickets /\ 1 .. tickets \subseteq 1 .. MaxTickets
      /\ \A s \in Live : /\ orders[s].ticket \in 1 .. tickets /\ orders[s].remaining \in Nat
                         /\ orders[s].ticket # taker.ticket
      /\ taker.ticket \in 1 .. tickets /\ taker.remaining \in Nat
  BY TicketFacts
<1>2. ledger \in Ledgers
  BY DEF TypeOK
<1>3. CASE /\ ledger' = [ledger EXCEPT ![taker.ticket].gone = taker.remaining]
           /\ Live' = Live /\ orders' = orders
  <2>1. \A t \in 1 .. MaxTickets :
           /\ ledger'[t].id = ledger[t].id /\ ledger'[t].quantity = ledger[t].quantity
           /\ ledger'[t].filled = ledger[t].filled
           /\ ledger'[t].gone = IF t = taker.ticket THEN taker.remaining ELSE ledger[t].gone
    BY <1>1, <1>2, <1>3, GoneFields
  <2>2. /\ \A t \in 1 .. MaxTickets : t # taker.ticket => Owed(ledger'[t]) = Owed(ledger[t])
        /\ Owed(ledger'[taker.ticket]) = 0
    <3>1. ledger[taker.ticket].gone = 0 /\ taker.remaining = Owed(ledger[taker.ticket])
      BY DEF History, Conserved
    <3> QED BY <1>1, <1>2, <2>1, <3>1, LedgerFields DEF Owed
  <2>3. History'
    BY <1>1, <1>3, <2>1 DEF History
  <2>4. \A s \in Live' : /\ orders'[s].remaining = Owed(ledger'[orders'[s].ticket])
                         /\ \A u \in Live' : orders'[s].ticket = orders'[u].ticket => s = u
    BY <1>1, <1>3, <2>2 DEF Conserved
  <2>5. \A t \in 1 .. tickets' : (\A s \in Live' : orders'[s].ticket # t) => Owed(ledger'[t]) = 0
    BY <1>1, <1>3, <2>2 DEF Conserved
  <2> QED BY <2>3, <2>4, <2>5 DEF Conserved
<1>4. ASSUME ledger' = ledger,
             NEW os \in Slots \ Live, Live' = Live \cup {os},
             orders'[os].ticket = taker.ticket, orders'[os].id = taker.id,
             orders'[os].remaining = taker.remaining,
             \A s \in Live : /\ orders'[s].ticket = orders[s].ticket /\ orders'[s].id = orders[s].id
                             /\ orders'[s].remaining = orders[s].remaining
      PROVE  History' /\ Conserved'
  <2>1. History'
    BY <1>4 DEF History
  <2>2. \A s \in Live' : orders'[s].remaining = Owed(ledger'[orders'[s].ticket])
    BY <1>4 DEF Conserved
  <2>3. \A s, u \in Live' : orders'[s].ticket = orders'[u].ticket => s = u
    BY <1>1, <1>4 DEF Conserved
  <2>4. \A t \in 1 .. tickets' : (\A s \in Live' : orders'[s].ticket # t) => Owed(ledger'[t]) = 0
    BY <1>1, <1>4 DEF Conserved
  <2> QED BY <2>1, <2>2, <2>3, <2>4 DEF Conserved
<1> QED BY <1>3, <1>4

\* A resting order is cancelled.
LEMMA HistCancel ==
  ASSUME TypeOK, ListsLinked, History, Conserved, taker = None, taker' = None, tickets' = tickets,
         NEW os \in Live, Live' = Live \ {os},
         ledger' = [ledger EXCEPT ![orders[os].ticket].gone = orders[os].remaining],
         \A s \in Live' : /\ orders'[s].ticket = orders[s].ticket /\ orders'[s].id = orders[s].id
                          /\ orders'[s].remaining = orders[s].remaining
  PROVE  History' /\ Conserved'
<1>1. /\ tickets \in 0 .. MaxTickets /\ 1 .. tickets \subseteq 1 .. MaxTickets
      /\ \A s \in Live : orders[s].ticket \in 1 .. tickets /\ orders[s].remaining \in Nat
  BY TicketFacts
<1>2. ledger \in Ledgers /\ \A s \in Live' : orders[s].ticket # orders[os].ticket
  BY DEF TypeOK, Conserved
<1>3. \A t \in 1 .. MaxTickets :
         /\ ledger'[t].id = ledger[t].id /\ ledger'[t].quantity = ledger[t].quantity
         /\ ledger'[t].filled = ledger[t].filled
         /\ ledger'[t].gone = IF t = orders[os].ticket THEN orders[os].remaining ELSE ledger[t].gone
  BY <1>1, <1>2, GoneFields
<1>4. /\ \A t \in 1 .. MaxTickets : t # orders[os].ticket => Owed(ledger'[t]) = Owed(ledger[t])
      /\ Owed(ledger'[orders[os].ticket]) = 0
  <2>1. ledger[orders[os].ticket].gone = 0 /\ orders[os].remaining = Owed(ledger[orders[os].ticket])
    BY DEF History, Conserved
  <2> QED BY <1>1, <1>2, <1>3, <2>1, LedgerFields DEF Owed
<1>5. History'
  BY <1>1, <1>2, <1>3 DEF History
<1>6. \A s \in Live' : orders'[s].remaining = Owed(ledger'[orders'[s].ticket])
  BY <1>1, <1>2, <1>4 DEF Conserved
<1>7. \A s, u \in Live' : orders'[s].ticket = orders'[u].ticket => s = u
  BY DEF Conserved
<1>8. \A t \in 1 .. tickets' : (\A s \in Live' : orders'[s].ticket # t) => Owed(ledger'[t]) = 0
  BY <1>1, <1>4 DEF Conserved
<1> QED BY <1>5, <1>6, <1>7, <1>8 DEF Conserved

\* An order is accepted.
LEMMA HistAdd ==
  ASSUME TypeOK, ListsLinked, History, Conserved, NEW id, NEW side, NEW price,
         NEW quantity \in 0 .. MaxQuantity, NEW market, AddOrder(id, side, price, quantity, market),
         taker' # None
  PROVE  History' /\ Conserved'
<1> DEFINE k == tickets + 1
           new == [id |-> id, quantity |-> quantity, filled |-> 0, gone |-> 0]
<1>1. /\ tickets \in 0 .. MaxTickets /\ 1 .. tickets \subseteq 1 .. MaxTickets
      /\ \A s \in Live : orders[s].ticket \in 1 .. tickets
  BY TicketFacts
<1>2. /\ Live' = Live /\ orders' = orders /\ taker = None /\ tickets' = k /\ tickets < MaxTickets
      /\ taker' = [ticket |-> k, id |-> id, side |-> side, price |-> price,
                   remaining |-> quantity, market |-> market]
      /\ ledger' = [ledger EXCEPT ![k] = new]
  BY DEF AddOrder, bookVars, Live
<1>3. k \in 1 .. MaxTickets /\ quantity \in Int /\ 1 .. k = (1 .. tickets) \cup {k} /\ k \notin 1 .. tickets
  BY <1>1, <1>2, BookAssumption
<1>4. ledger'[k] = new /\ \A t \in 1 .. tickets : ledger'[t] = ledger[t]
  BY <1>1, <1>2, <1>3 DEF TypeOK, Ledgers
<1>5. taker'.ticket = k /\ taker'.id = id /\ taker'.remaining = quantity
  BY <1>2
<1>6. Owed(new) = quantity /\ new.id = id /\ new.gone = 0
  BY <1>3 DEF Owed
<1> HIDE DEF k, new
<1>7. History'
  BY <1>1, <1>2, <1>4, <1>5, <1>6 DEF History
<1>8. \A s \in Live' : /\ orders'[s].remaining = Owed(ledger'[orders'[s].ticket])
                       /\ \A u \in Live' : orders'[s].ticket = orders'[u].ticket => s = u
                       /\ orders'[s].ticket # taker'.ticket
  BY <1>1, <1>2, <1>3, <1>4, <1>5 DEF Conserved
<1>9. \A t \in 1 .. tickets' : (\A s \in Live' : orders'[s].ticket # t) /\ taker'.ticket # t
                                  => Owed(ledger'[t]) = 0
  BY <1>2, <1>3, <1>4, <1>5 DEF Conserved
<1> QED BY <1>4, <1>5, <1>6, <1>7, <1>8, <1>9 DEF Conserved

\* Every operation keeps the history true.
LEMMA HistNext ==
  ASSUME IInv, History, Conserved, [Next]_vars
  PROVE  History' /\ Conserved'
<1>1. TypeOK /\ ListsLinked /\ TypeOK'
  BY InvNext DEF IInv
<1>2. ASSUME NEW id \in OrderIds, NEW side \in Sides, NEW quantity \in 0 .. MaxQuantity,
             NEW price \in 0 .. PriceCap, NEW market \in BOOLEAN,
             AddOrder(id, side, price, quantity, market)
      PROVE  History' /\ Conserved'
  <2>1. taker' \in Takers
    <3>1. /\ tickets + 1 \in 1 .. MaxTickets /\ quantity \in Nat
          /\ taker' = [ticket |-> tickets + 1, id |-> id, side |-> side, price |-> price,
                       remaining |-> quantity, market |-> market]
      BY <1>1, <1>2, BookAssumption DEF AddOrder, TypeOK
    <3> QED BY <3>1 DEF Takers
  <2> QED BY <1>1, <1>2, <2>1, HistAdd, RecordAssumption
<1>3. CASE FillHead
  <2>1. taker \in Takers /\ taker # None
    BY <1>1, <1>3 DEF FillHead, TypeOK
  <2>2. PICK side \in Sides : side = Opposite(taker.side)
    BY <2>1 DEF Takers, Opposite, Sides
  <2>3. topLevel[side] # None
    BY <1>3, <2>2 DEF FillHead, CanFill
  <2>4. PICK ls \in LevelSlots : ls = topLevel[side]
    BY <1>1, <2>3, HeadOrder
  <2>5. PICK os \in Live : os = levels[ls].head /\ orders[os].side = side /\ LevelOf(os) = ls
    BY <1>1, <2>3, <2>4, HeadOrder
  <2>6. PICK q \in Nat : q = FillQuantity(orders[os]) /\ q <= taker.remaining
    BY <1>1, <2>1, <2>5, TicketFacts DEF FillQuantity
  <2>7. /\ taker' = [taker EXCEPT !.remaining = @ - q] /\ tickets' = tickets
        /\ ledger' = Filled(Filled(ledger, orders[os].ticket, q), taker.ticket, q)
        /\ IF q = orders[os].remaining
           THEN TakeOff(os, ls, side, Bucket(orders[os].id))
           ELSE orders' = [orders EXCEPT ![os].remaining = @ - q] /\ freeOrders' = freeOrders
    BY <1>3, <2>2, <2>4, <2>5, <2>6 DEF FillHead, DoneBucket
  <2>8. taker' # None
    <3>1. taker' \in Takers
      BY <2>1, <2>6, <2>7 DEF Takers
    <3> QED BY <3>1, RecordAssumption
  <2>9. CASE q = orders[os].remaining
    <3>1. PICK bucket \in Buckets : bucket = Bucket(orders[os].id)
      BY <1>1, BookAssumption DEF ListsLinked, LiveOrders, Bucket
    <3>2. TakeOff(os, LevelOf(os), orders[os].side, bucket)
      BY <2>5, <2>7, <2>9, <3>1
    <3>3. /\ Live' = Live \ {os}
          /\ \A s \in Live' : /\ orders'[s].ticket = orders[s].ticket /\ orders'[s].id = orders[s].id
                              /\ orders'[s].remaining = orders[s].remaining
      BY <1>1, <3>2, TakeOffOrders DEF ListsLinked
    <3> QED BY <1>1, <2>1, <2>7, <2>8, <2>9, <3>3, HistFill
  <2>10. CASE q # orders[os].remaining
    <3>1. /\ Live' = Live /\ os \in Slots /\ Live \subseteq Slots /\ orders \in [Slots -> Orders]
          /\ orders' = [orders EXCEPT ![os].remaining = @ - q]
      BY <1>1, <2>7, <2>10 DEF Live, TypeOK
    <3>2. /\ \A s \in Live' : orders'[s].ticket = orders[s].ticket /\ orders'[s].id = orders[s].id
          /\ \A s \in Live' \ {os} : orders'[s].remaining = orders[s].remaining
          /\ orders'[os].remaining = orders[os].remaining - q
      BY <3>1 DEF Orders
    <3> QED BY <1>1, <2>1, <2>7, <2>8, <3>1, <3>2, HistFill
  <2> QED BY <2>9, <2>10
<1>4. CASE Complete \/ DropRemainder
  <2>1. /\ taker # None /\ taker' = None /\ tickets' = tickets /\ Live' = Live /\ orders' = orders
        /\ ledger' = [ledger EXCEPT ![taker.ticket].gone = taker.remaining]
    BY <1>4 DEF Complete, DropRemainder, Resting, bookVars, Live
  <2> QED BY <1>1, <2>1, HistEnd
<1>5. ASSUME Resting, NEW os \in freeOrders, NEW tail \in Live \cup {None},
             orders' = Appended(os, tail), freeOrders' = freeOrders \ {os}, taker' = None,
             UNCHANGED <<ledger, tickets>>
      PROVE  History' /\ Conserved'
  <2>1. /\ os \in Slots \ Live /\ Live' = Live \cup {os} /\ taker # None
        /\ orders'[os].ticket = taker.ticket /\ orders'[os].id = taker.id
        /\ orders'[os].remaining = taker.remaining
        /\ \A s \in Live : /\ orders'[s].ticket = orders[s].ticket /\ orders'[s].id = orders[s].id
                           /\ orders'[s].remaining = orders[s].remaining
    BY <1>5, RestFacts DEF Resting
  <2> QED BY <1>1, <1>5, <2>1, HistEnd
<1>6. CASE JoinLevel \/ OpenLevel
  <2>1. /\ Resting /\ UNCHANGED <<ledger, tickets>>
        /\ \E os \in freeOrders : \E tail \in Live \cup {None} :
              orders' = Appended(os, tail) /\ freeOrders' = freeOrders \ {os} /\ taker' = None
    BY <1>6, RestsBehind
  <2> QED BY <1>5, <2>1
<1>7. ASSUME NEW id \in OrderIds, CancelOrder(id)
      PROVE  History' /\ Conserved'
  <2>1. PICK bucket \in Buckets : bucket = Bucket(id)
    BY BookAssumption DEF Bucket
  <2>2. PICK os \in Live : /\ index[bucket].slot = os
                           /\ index[bucket].level = LevelOf(os)
                           /\ index[bucket].side = orders[os].side
    BY <1>7, <2>1 DEF IInv, IndexSound, CancelOrder
  <2>3. /\ TakeOff(os, LevelOf(os), orders[os].side, bucket)
        /\ taker = None /\ taker' = None /\ tickets' = tickets
        /\ ledger' = [ledger EXCEPT ![orders[os].ticket].gone = orders[os].remaining]
    BY <1>7, <2>1, <2>2 DEF CancelOrder
  <2>4. /\ Live' = Live \ {os}
        /\ \A s \in Live' : /\ orders'[s].ticket = orders[s].ticket /\ orders'[s].id = orders[s].id
                            /\ orders'[s].remaining = orders[s].remaining
    BY <1>1, <2>3, TakeOffOrders DEF ListsLinked
  <2> QED BY <1>1, <2>3, <2>4, HistCancel
<1>8. CASE UNCHANGED vars \/ \E id \in OrderIds : CancelMiss(id)
  <2>1. Live' = Live /\ orders' = orders /\ UNCHANGED <<taker, ledger, tickets>>
    BY <1>8 DEF CancelMiss, vars, bookVars, Live
  <2> QED BY <2>1 DEF History, Conserved
<1>9. 0 \in 0 .. PriceCap
  BY BookAssumption
<1> QED BY <1>2, <1>3, <1>4, <1>6, <1>7, <1>8, <1>9 DEF Next

\* No quantity is lost or made by any sequence of matches, rests, drops and cancels:
\* what is owed under a ticket is what its one order has left, for any pool sizes.
THEOREM NothingLost == Spec => []Conserved
<1>1. Init => History /\ Conserved
  BY DEF Init, History, Conserved, Live
<1>2. IInv /\ History /\ Conserved /\ [Next]_vars => History' /\ Conserved'
  BY HistNext
<1> QED BY <1>1, <1>2, InvInit, InvNext, PTL DEF Spec

-----------------------------------------------------------------------------
(* Who can be cancelled.                                                   *)

\* An order leaves the book: only its own bucket is cleared, and an order that
\* shares no bucket keeps its entry.
LEMMA ReachTakeOff ==
  ASSUME TypeOK, ListsLinked, History, Conserved, Cancellable,
         NEW os \in Live, NEW bucket \in Buckets, bucket = Bucket(orders[os].id),
         TakeOff(os, LevelOf(os), orders[os].side, bucket), tickets' = tickets,
         \A t \in 1 .. MaxTickets : ledger'[t].id = ledger[t].id
  PROVE  Cancellable'
<1>1. /\ 1 .. tickets \subseteq 1 .. MaxTickets
      /\ \A s \in Live : orders[s].ticket \in 1 .. tickets /\ Bucket(orders[s].id) \in Buckets
  BY TicketFacts, BookAssumption DEF Bucket
<1>2. /\ Live' = Live \ {os}
      /\ \A s \in Live' : orders'[s].ticket = orders[s].ticket /\ orders'[s].id = orders[s].id
  BY TakeOffOrders DEF ListsLinked
<1>3. \A b \in Buckets \ {bucket} : index'[b] = index[b]
  BY DEF TakeOff, Cleared, TypeOK
<1> SUFFICES ASSUME NEW s \in Live',
                    \A t \in 1 .. tickets' : t # orders'[s].ticket =>
                         Bucket(ledger'[t].id) # Bucket(orders'[s].id)
             PROVE  /\ index'[Bucket(orders'[s].id)] # None
                    /\ index'[Bucket(orders'[s].id)].slot = s
  BY DEF Cancellable, Bucket
<1>4. \A t \in 1 .. tickets : t # orders[s].ticket => Bucket(ledger[t].id) # Bucket(orders[s].id)
  BY <1>1, <1>2 DEF Bucket
<1>5. orders[os].ticket # orders[s].ticket
  BY <1>2 DEF Conserved
<1>6. Bucket(orders[s].id) # bucket
  BY <1>1, <1>4, <1>5 DEF History
<1>7. index[Bucket(orders[s].id)] # None /\ index[Bucket(orders[s].id)].slot = s
  BY <1>2, <1>4 DEF Cancellable
<1> QED BY <1>1, <1>2, <1>3, <1>6, <1>7 DEF Bucket

\* An order comes to rest: it takes the entry of its bucket over, from an order that
\* shares the bucket if from any.
LEMMA ReachRest ==
  ASSUME IInv, History, Conserved, Cancellable, Resting, UNCHANGED <<ledger, tickets>>,
         NEW os \in freeOrders, NEW tail \in Live \cup {None}, NEW ls \in LevelSlots,
         orders' = Appended(os, tail), Publish(os, ls)
  PROVE  Cancellable'
<1>1. TypeOK /\ ListsLinked /\ taker # None /\ freeOrders' = freeOrders \ {os}
  BY DEF IInv, Resting, Publish
<1>2. /\ 1 .. tickets \subseteq 1 .. MaxTickets /\ taker.ticket \in 1 .. tickets
      /\ taker.side \in Sides /\ Bucket(taker.id) \in Buckets
      /\ \A s \in Live : /\ orders[s].ticket \in 1 .. tickets /\ orders[s].ticket # taker.ticket
                         /\ Bucket(orders[s].id) \in Buckets
      /\ os \in Slots /\ Live' = Live \cup {os} /\ orders'[os].id = taker.id
      /\ \A s \in Live : orders'[s].ticket = orders[s].ticket /\ orders'[s].id = orders[s].id
  <2>1. /\ 1 .. tickets \subseteq 1 .. MaxTickets /\ taker.id \in OrderIds
        /\ \A s \in Live : orders[s].ticket # taker.ticket /\ orders[s].id \in OrderIds
    BY <1>1, TicketFacts
  <2>2. \A i \in OrderIds : Bucket(i) \in Buckets
    BY BookAssumption DEF Bucket
  <2>3. /\ os \in Slots /\ Live' = Live \cup {os} /\ orders'[os].id = taker.id
        /\ taker.side \in Sides /\ taker.ticket \in 1 .. tickets
        /\ \A s \in Live : orders'[s].ticket = orders[s].ticket /\ orders'[s].id = orders[s].id
                           /\ orders[s].ticket \in 1 .. tickets
    BY <1>1, RestFacts
  <2> QED BY <2>1, <2>2, <2>3
<1> DEFINE entry == [slot |-> os, level |-> ls, side |-> taker.side]
<1>3. entry \in Entries /\ entry # None /\ entry.slot = os
  BY <1>2, RecordAssumption DEF Entries
<1>4. /\ index'[Bucket(taker.id)] = entry
      /\ \A b \in Buckets \ {Bucket(taker.id)} : index'[b] = index[b]
  BY <1>1, <1>2 DEF Publish, TypeOK
<1> HIDE DEF entry
<1>5. \A s \in Live : /\ Bucket(orders'[s].id) = Bucket(orders[s].id)
                      /\ orders'[s].ticket = orders[s].ticket
  BY <1>2 DEF Bucket
<1>6. Bucket(orders'[os].id) = Bucket(taker.id) /\ Bucket(ledger'[taker.ticket].id) = Bucket(taker.id)
  BY <1>1, <1>2 DEF Bucket, History
<1> SUFFICES ASSUME NEW s \in Live',
                    \A t \in 1 .. tickets' : t # orders'[s].ticket =>
                         Bucket(ledger'[t].id) # Bucket(orders'[s].id)
             PROVE  /\ index'[Bucket(orders'[s].id)] # None
                    /\ index'[Bucket(orders'[s].id)].slot = s
  BY DEF Cancellable, Bucket
<1>7. CASE s = os
  BY <1>3, <1>4, <1>6, <1>7
<1>8. CASE s \in Live
  <2>1. Bucket(orders[s].id) # Bucket(taker.id)
    BY <1>2, <1>5, <1>6, <1>8
  <2>2. \A t \in 1 .. tickets : t # orders[s].ticket => Bucket(ledger[t].id) # Bucket(orders[s].id)
    BY <1>5, <1>8 DEF Bucket
  <2>3. index[Bucket(orders[s].id)] # None /\ index[Bucket(orders[s].id)].slot = s
    BY <1>8, <2>2 DEF Cancellable
  <2> QED BY <1>2, <1>4, <1>5, <1>8, <2>1, <2>3
<1> QED BY <1>2, <1>7, <1>8

\* The index and the orders it names stay, and no ticket is given another id.
LEMMA ReachKept ==
  ASSUME Cancellable, Live' = Live, index' = index, tickets' \in Nat, tickets \in Nat,
         tickets <= tickets',
         \A s \in Live : orders'[s].ticket = orders[s].ticket /\ orders'[s].id = orders[s].id,
         \A t \in 1 .. tickets : ledger'[t].id = ledger[t].id
  PROVE  Cancellable'
<1> SUFFICES ASSUME NEW s \in Live,
                    \A t \in 1 .. tickets' : t # orders'[s].ticket =>
                         Bucket(ledger'[t].id) # Bucket(orders'[s].id)
             PROVE  /\ index'[Bucket(orders'[s].id)] # None
                    /\ index'[Bucket(orders'[s].id)].slot = s
  BY DEF Cancellable, Bucket
<1>1. \A t \in 1 .. tickets : t # orders[s].ticket => Bucket(ledger[t].id) # Bucket(orders[s].id)
  BY DEF Bucket
<1>2. index[Bucket(orders[s].id)] # None /\ index[Bucket(orders[s].id)].slot = s
  BY <1>1 DEF Cancellable
<1> QED BY <1>2 DEF Bucket

\* Every operation leaves an order that shares no bucket within reach of a cancel.
LEMMA ReachNext ==
  ASSUME IInv, History, Conserved, Cancellable, [Next]_vars
  PROVE  Cancellable'
<1>1. TypeOK /\ ListsLinked /\ ledger \in Ledgers /\ tickets \in Nat
      /\ 1 .. tickets \subseteq 1 .. MaxTickets
  BY BookAssumption DEF IInv, TypeOK
<1>2. ASSUME NEW id \in OrderIds, NEW side \in Sides, NEW quantity \in 0 .. MaxQuantity,
             NEW price \in 0 .. PriceCap, NEW market \in BOOLEAN,
             AddOrder(id, side, price, quantity, market)
      PROVE  Cancellable'
  <2>1. /\ Live' = Live /\ index' = index /\ orders' = orders /\ tickets' = tickets + 1
        /\ ledger' = [ledger EXCEPT ![tickets + 1] =
                        [id |-> id, quantity |-> quantity, filled |-> 0, gone |-> 0]]
    BY <1>2 DEF AddOrder, bookVars, Live
  <2>2. \A t \in 1 .. tickets : ledger'[t].id = ledger[t].id
    BY <1>1, <2>1 DEF Ledgers
  <2> QED BY <1>1, <2>1, <2>2, ReachKept
<1>3. CASE FillHead
  <2>1. taker \in Takers /\ taker # None /\ taker.ticket \in 1 .. MaxTickets
    BY <1>1, <1>3, TicketFacts DEF FillHead, TypeOK
  <2>2. PICK side \in Sides : side = Opposite(taker.side)
    BY <2>1 DEF Takers, Opposite, Sides
  <2>3. topLevel[side] # None
    BY <1>3, <2>2 DEF FillHead, CanFill
  <2>4. PICK ls \in LevelSlots : ls = topLevel[side]
    BY <1>1, <2>3, HeadOrder
  <2>5. PICK os \in Live : os = levels[ls].head /\ orders[os].side = side /\ LevelOf(os) = ls
    BY <1>1, <2>3, <2>4, HeadOrder
  <2>6. PICK q \in Nat : q = FillQuantity(orders[os])
    BY <1>1, <2>1, <2>5, TicketFacts DEF FillQuantity
  <2>7. /\ tickets' = tickets
        /\ ledger' = Filled(Filled(ledger, orders[os].ticket, q), taker.ticket, q)
        /\ IF q = orders[os].remaining
           THEN TakeOff(os, ls, side, Bucket(orders[os].id))
           ELSE /\ orders' = [orders EXCEPT ![os].remaining = @ - q]
                /\ freeOrders' = freeOrders /\ index' = index
    BY <1>3, <2>2, <2>4, <2>5, <2>6 DEF FillHead, DoneBucket
  <2>8. \A t \in 1 .. MaxTickets : ledger'[t].id = ledger[t].id
    <3>1. orders[os].ticket \in 1 .. MaxTickets
      BY <1>1, TicketFacts
    <3>2. Filled(ledger, orders[os].ticket, q) \in Ledgers
      BY <1>1, <3>1, LedgerFilled
    <3> QED BY <1>1, <2>1, <2>7, <3>1, <3>2, FilledFields
  <2>9. CASE q = orders[os].remaining
    <3>1. PICK bucket \in Buckets : bucket = Bucket(orders[os].id)
      BY <1>1, BookAssumption DEF ListsLinked, LiveOrders, Bucket
    <3>2. TakeOff(os, LevelOf(os), orders[os].side, bucket)
      BY <2>5, <2>7, <2>9, <3>1
    <3> QED BY <1>1, <2>7, <2>8, <3>1, <3>2, ReachTakeOff
  <2>10. CASE q # orders[os].remaining
    <3>1. /\ Live' = Live /\ index' = index /\ Live \subseteq Slots /\ orders \in [Slots -> Orders]
          /\ orders' = [orders EXCEPT ![os].remaining = @ - q]
      BY <1>1, <2>7, <2>10 DEF Live, TypeOK
    <3>2. \A s \in Live : orders'[s].ticket = orders[s].ticket /\ orders'[s].id = orders[s].id
      BY <3>1 DEF Orders
    <3> QED BY <1>1, <2>7, <2>8, <3>1, <3>2, ReachKept
  <2> QED BY <2>9, <2>10
<1>4. CASE Complete \/ DropRemainder
  <2>1. /\ taker # None /\ tickets' = tickets /\ Live' = Live /\ orders' = orders /\ index' = index
        /\ ledger' = [ledger EXCEPT ![taker.ticket].gone = taker.remaining]
    BY <1>4 DEF Complete, DropRemainder, Resting, bookVars, Live
  <2>2. taker.ticket \in 1 .. MaxTickets /\ taker.remaining \in Nat
    BY <1>1, <2>1, TicketFacts
  <2>3. \A t \in 1 .. tickets : ledger'[t].id = ledger[t].id
    BY <1>1, <2>1, <2>2, GoneFields
  <2> QED BY <1>1, <2>1, <2>3, ReachKept
<1>5. CASE JoinLevel
  <2>1. taker.side \in Sides /\ taker.price \in LimitPrices
    BY <1>1, <1>5 DEF JoinLevel, Resting, ListsLinked, InFlight, TypeOK, Takers
  <2>2. PICK ls \in LevelSlots : ls = priceMap[taker.side][taker.price]
    <3>1. priceMap[taker.side][taker.price] # None
      BY <1>5 DEF JoinLevel
    <3> QED BY <1>1, <2>1, <3>1, LevelAt DEF ListsLinked
  <2>3. levels[ls].tail \in Live
    <3>1. priceMap[taker.side][taker.price] # None
      BY <1>5 DEF JoinLevel
    <3> QED BY <1>1, <2>1, <2>2, <3>1, LevelAt DEF ListsLinked
  <2>4. PICK os \in freeOrders : orders' = Appended(os, levels[ls].tail) /\ Publish(os, ls)
    BY <1>5, <2>2 DEF JoinLevel
  <2>5. Resting /\ UNCHANGED <<ledger, tickets>>
    BY <1>5 DEF JoinLevel
  <2> QED BY <2>3, <2>4, <2>5, ReachRest
<1>6. CASE OpenLevel
  <2>1. /\ Resting /\ UNCHANGED <<ledger, tickets>>
        /\ \E os \in freeOrders, ls \in freeLevels : orders' = Appended(os, None) /\ Publish(os, ls)
    BY <1>6 DEF OpenLevel
  <2>2. freeLevels \subseteq LevelSlots
    BY <1>1 DEF TypeOK
  <2> QED BY <2>1, <2>2, ReachRest
<1>7. ASSUME NEW id \in OrderIds, CancelOrder(id)
      PROVE  Cancellable'
  <2>1. PICK bucket \in Buckets : bucket = Bucket(id)
    BY BookAssumption DEF Bucket
  <2>2. PICK os \in Live : /\ index[bucket].slot = os
                           /\ index[bucket].level = LevelOf(os)
                           /\ index[bucket].side = orders[os].side
                           /\ Bucket(orders[os].id) = bucket
    BY <1>7, <2>1 DEF IInv, IndexSound, CancelOrder
  <2>3. /\ TakeOff(os, LevelOf(os), orders[os].side, bucket) /\ tickets' = tickets
        /\ ledger' = [ledger EXCEPT ![orders[os].ticket].gone = orders[os].remaining]
    BY <1>7, <2>1, <2>2 DEF CancelOrder
  <2>4. orders[os].ticket \in 1 .. MaxTickets /\ orders[os].remaining \in Nat
    BY <1>1, TicketFacts
  <2>5. \A t \in 1 .. MaxTickets : ledger'[t].id = ledger[t].id
    BY <1>1, <2>3, <2>4, GoneFields
  <2> QED BY <1>1, <2>2, <2>3, <2>5, ReachTakeOff
<1>8. CASE UNCHANGED vars \/ \E id \in OrderIds : CancelMiss(id)
  <2>1. /\ Live' = Live /\ orders' = orders
        /\ UNCHANGED <<index, ledger, tickets>>
    BY <1>8 DEF CancelMiss, vars, bookVars, Live
  <2> QED BY <2>1 DEF Cancellable, Bucket
<1>9. 0 \in 0 .. PriceCap
  BY BookAssumption
<1> QED BY <1>2, <1>3, <1>4, <1>5, <1>6, <1>7, <1>8, <1>9 DEF Next

\* An order that shares its bucket with no other accepted order can be cancelled for
\* as long as it rests, whatever is matched, rested and cancelled meanwhile.
THEOREM CancelsReach == Spec => []Cancellable
<1>1. Init => History /\ Conserved /\ Cancellable
  BY DEF Init, History, Conserved, Cancellable, Live
<1>2. IInv /\ History /\ Conserved /\ Cancellable /\ [Next]_vars
         => History' /\ Conserved' /\ Cancellable'
  BY HistNext, ReachNext
<1> QED BY <1>1, <1>2, InvInit, InvNext, PTL DEF Spec

-----------------------------------------------------------------------------
(* The totals of the levels.                                               *)

\* The records of the pointer surgery, in the two totals.
LEMMA RelinkTotals ==
  ASSUME NEW r \in Levels, NEW n \in MaybeLevel, NEW p \in MaybeLevel
  PROVE  Relink(r, n, p).total = r.total /\ Relink(r, n, p).count = r.count
  BY DEF Levels, MaybeLevel, Relink

\* The same for Resize.
LEMMA ResizeTotals ==
  ASSUME NEW r \in Levels, NEW h \in MaybeSlot, NEW t \in MaybeSlot, NEW c \in Int, NEW n \in Int
  PROVE  Resize(r, h, t, c, n).total = n /\ Resize(r, h, t, c, n).count = c
  BY DEF Levels, MaybeSlot, Resize

\* How many there are in a set that differs from another in x at most.
LEMMA CardDiffer ==
  ASSUME NEW S, IsFiniteSet(S), NEW R, NEW x, S \ {x} = R \ {x}
  PROVE  Cardinality(R) = Cardinality(S) + (IF x \in R THEN 1 ELSE 0) - (IF x \in S THEN 1 ELSE 0)
<1>1. IsFiniteSet(R)
  <2>1. R \subseteq S \cup {x}
    OBVIOUS
  <2> QED BY <2>1, FS_AddElement, FS_Subset
<1>2. /\ Cardinality(R \ {x}) = IF x \in R THEN Cardinality(R) - 1 ELSE Cardinality(R)
      /\ Cardinality(S \ {x}) = IF x \in S THEN Cardinality(S) - 1 ELSE Cardinality(S)
      /\ Cardinality(R) \in Nat /\ Cardinality(S) \in Nat
  BY <1>1, FS_RemoveElement, FS_CardinalityType
<1> QED BY <1>2

\* What a step that changes one order slot os does to a queue.
LEMMA QueueStep ==
  ASSUME TypeOK, TypeOK', NEW os \in Slots,
         Live' \ {os} = Live \ {os},
         \A s \in Live \ {os} : /\ orders'[s].side = orders[s].side /\ orders'[s].price = orders[s].price
                                /\ orders'[s].remaining = orders[s].remaining,
         NEW side \in Sides, NEW p \in LimitPrices
  PROVE  /\ LeftIn(Queue(side, p))' = LeftIn(Queue(side, p))
               + (IF os \in Queue(side, p)' THEN orders'[os].remaining ELSE 0)
               - (IF os \in Queue(side, p) THEN orders[os].remaining ELSE 0)
         /\ Cardinality(Queue(side, p)') = Cardinality(Queue(side, p))
               + (IF os \in Queue(side, p)' THEN 1 ELSE 0)
               - (IF os \in Queue(side, p) THEN 1 ELSE 0)
<1> DEFINE S == Queue(side, p)
           R == {s \in Live' : orders'[s].side = side /\ orders'[s].price = p}
           f == [s \in Slots |-> orders[s].remaining]
           g == [s \in Slots |-> orders'[s].remaining]
<1>1. Queue(side, p)' = R /\ LeftIn(Queue(side, p))' = SumFunctionOnSet(g, R) /\ LeftIn(S) = SumFunctionOnSet(f, S)
  BY DEF Queue, LeftIn
<1>2. S \subseteq Slots /\ R \subseteq Slots /\ IsFiniteSet(S)
  <2>1. S \subseteq Slots /\ R \subseteq Slots
    BY DEF Queue, Live
  <2> QED BY <2>1, BookAssumption, FS_Subset
<1>3. S \ {os} = R \ {os}
  BY DEF Queue
<1>4. /\ \A s \in Slots : f[s] \in Int /\ g[s] \in Int /\ f[s] = orders[s].remaining /\ g[s] = orders'[s].remaining
  <2>1. \A s \in Slots : orders[s] \in Orders /\ orders'[s] \in Orders
    BY DEF TypeOK
  <2> QED BY <2>1 DEF Orders
<1>5. \A s \in S \ {os} : f[s] = g[s]
  BY <1>4, <1>2 DEF Queue
<1> HIDE DEF S, R, f, g
<1>6. /\ SumFunctionOnSet(g, R) = SumFunctionOnSet(f, S) + (IF os \in R THEN g[os] ELSE 0)
                                                         - (IF os \in S THEN f[os] ELSE 0)
      /\ Cardinality(R) = Cardinality(S) + (IF os \in R THEN 1 ELSE 0) - (IF os \in S THEN 1 ELSE 0)
  <2>1. \A y \in S : f[y] \in Int
    BY <1>2, <1>4
  <2>2. \A y \in R : g[y] \in Int
    BY <1>2, <1>4
  <2> QED BY <1>2, <1>3, <1>5, <2>1, <2>2, SumDiffer, CardDiffer
<1> QED BY <1>1, <1>4, <1>6 DEF S

\* Two sides or prices have two levels.
LEMMA LevelsApart ==
  ASSUME TypeOK, LevelEnds, LevelsLinked, NEW at \in Sides, NEW v \in LimitPrices,
         NEW side \in Sides, NEW p \in LimitPrices,
         priceMap[at][v] # None, priceMap[side][p] = priceMap[at][v]
  PROVE  side = at /\ p = v
<1>1. p = v
  BY DEF LevelEnds
<1>2. priceMap[at][v] \in LevelsOf(at) /\ priceMap[at][v] \in LevelsOf(side)
  BY LevelsOfFacts
<1>3. side = at
  BY <1>2 DEF LevelsLinked, Sides
<1> QED BY <1>1, <1>3

\* The totals after a step that changes one order slot os, of the side at and the price v.
LEMMA TotalsStep ==
  ASSUME TypeOK, TypeOK', LevelTotals, NEW os \in Slots, NEW at \in Sides, NEW v \in LimitPrices,
         Live' \ {os} = Live \ {os},
         \A s \in Live \ {os} : /\ orders'[s].side = orders[s].side /\ orders'[s].price = orders[s].price
                                /\ orders'[s].remaining = orders[s].remaining,
         os \in Live => orders[os].side = at /\ orders[os].price = v,
         os \in Live' => orders'[os].side = at /\ orders'[os].price = v,
         \A side \in Sides : \A p \in LimitPrices :
            priceMap'[side][p] # None /\ (side # at \/ p # v) =>
               /\ priceMap[side][p] = priceMap'[side][p]
               /\ levels'[priceMap[side][p]].total = levels[priceMap[side][p]].total
               /\ levels'[priceMap[side][p]].count = levels[priceMap[side][p]].count,
         priceMap'[at][v] # None =>
            /\ levels'[priceMap'[at][v]].total = LeftIn(Queue(at, v))
                  + (IF os \in Live' THEN orders'[os].remaining ELSE 0)
                  - (IF os \in Live THEN orders[os].remaining ELSE 0)
            /\ levels'[priceMap'[at][v]].count = Cardinality(Queue(at, v))
                  + (IF os \in Live' THEN 1 ELSE 0) - (IF os \in Live THEN 1 ELSE 0)
  PROVE  LevelTotals'
<1> SUFFICES ASSUME NEW side \in Sides, NEW p \in LimitPrices, priceMap'[side][p] # None
             PROVE  /\ levels'[priceMap'[side][p]].total = LeftIn(Queue(side, p))'
                    /\ levels'[priceMap'[side][p]].count = Cardinality(Queue(side, p)')
  BY DEF LevelTotals
<1>1. /\ LeftIn(Queue(side, p))' = LeftIn(Queue(side, p))
            + (IF os \in Queue(side, p)' THEN orders'[os].remaining ELSE 0)
            - (IF os \in Queue(side, p) THEN orders[os].remaining ELSE 0)
      /\ Cardinality(Queue(side, p)') = Cardinality(Queue(side, p))
            + (IF os \in Queue(side, p)' THEN 1 ELSE 0)
            - (IF os \in Queue(side, p) THEN 1 ELSE 0)
  BY QueueStep
<1>2. CASE side = at /\ p = v
  <2>1. (os \in Queue(side, p)' <=> os \in Live') /\ (os \in Queue(side, p) <=> os \in Live)
    BY <1>2 DEF Queue
  <2> QED BY <1>1, <1>2, <2>1
<1>3. CASE side # at \/ p # v
  <2>1. os \notin Queue(side, p)' /\ os \notin Queue(side, p)
    BY <1>3 DEF Queue
  <2>2. /\ priceMap[side][p] = priceMap'[side][p]
        /\ levels'[priceMap[side][p]].total = levels[priceMap[side][p]].total
        /\ levels'[priceMap[side][p]].count = levels[priceMap[side][p]].count
    BY <1>3
  <2>3. /\ levels[priceMap[side][p]].total = LeftIn(Queue(side, p))
        /\ levels[priceMap[side][p]].count = Cardinality(Queue(side, p))
    BY <2>2 DEF LevelTotals
  <2>4. levels[priceMap[side][p]].total \in Int /\ levels[priceMap[side][p]].count \in Int
    <3>1. priceMap[side][p] \in LevelSlots
      BY <2>2 DEF TypeOK
    <3> QED BY <3>1, Fields
  <2> QED BY <1>1, <2>1, <2>2, <2>3, <2>4
<1> QED BY <1>2, <1>3

\* Taking an order off its level.
LEMMA TotalsTakeOff ==
  ASSUME TypeOK, TypeOK', ListsLinked, LevelTotals, NEW os \in Live, NEW bucket \in Buckets,
         TakeOff(os, LevelOf(os), orders[os].side, bucket)
  PROVE  LevelTotals'
<1>1. LiveOrders /\ QueuesLinked /\ LevelEnds /\ LevelsLinked
  BY DEF ListsLinked
<1>2. PICK at \in Sides, v \in LimitPrices : at = orders[os].side /\ v = orders[os].price
  BY <1>1 DEF LiveOrders
<1>3. PICK ls \in LevelSlots : ls = LevelOf(os) /\ ls = priceMap[at][v] /\ ls # None /\ levels[ls].price = v
  BY <1>1, <1>2, LiveFacts
<1>4. /\ Live' = Live \ {os} /\ os \in Slots
      /\ \A s \in Live' : /\ orders'[s].side = orders[s].side /\ orders'[s].price = orders[s].price
                          /\ orders'[s].remaining = orders[s].remaining
  BY <1>1, LiveFacts, TakeOffOrders
<1>5. \/ levels' = [levels EXCEPT ![ls] = Shortened(ls, os)] /\ UNCHANGED priceMap
      \/ levels' = Bypassed(ls) /\ priceMap' = [priceMap EXCEPT ![at][v] = None]
  BY <1>1, <1>2, <1>3, TakeOffLevel
<1>6. /\ priceMap \in [Sides -> [LimitPrices -> LevelSlots \cup {None}]]
      /\ levels \in [LevelSlots -> Levels]
      /\ levels[ls].total = LeftIn(Queue(at, v)) /\ levels[ls].count = Cardinality(Queue(at, v))
  BY <1>3 DEF TypeOK, LevelTotals
<1>7. ASSUME NEW side \in Sides, NEW p \in LimitPrices, priceMap'[side][p] # None, side # at \/ p # v
      PROVE  /\ priceMap[side][p] = priceMap'[side][p]
             /\ levels'[priceMap[side][p]].total = levels[priceMap[side][p]].total
             /\ levels'[priceMap[side][p]].count = levels[priceMap[side][p]].count
  <2>1. priceMap'[side][p] = priceMap[side][p]
    BY <1>5, <1>6, <1>7
  <2>2. PICK l \in LevelSlots : l = priceMap[side][p]
    BY <1>6, <1>7, <2>1
  <2>3. l # ls
    BY <1>1, <1>3, <1>7, <2>2, LevelsApart
  <2>4. levels'[l].total = levels[l].total /\ levels'[l].count = levels[l].count
    <3>1. CASE levels' = [levels EXCEPT ![ls] = Shortened(ls, os)]
      BY <1>6, <2>3, <3>1
    <3>2. CASE levels' = Bypassed(ls)
      <4> DEFINE N == IF l = levels[ls].prev THEN levels[ls].next ELSE levels[l].next
                 P == IF l = levels[ls].next THEN levels[ls].prev ELSE levels[l].prev
      <4>1. levels'[l] = Relink(levels[l], N, P)
        BY <2>3, <3>2 DEF Bypassed
      <4>2. N \in MaybeLevel /\ P \in MaybeLevel /\ levels[l] \in Levels
        BY Fields
      <4> HIDE DEF N, P
      <4> QED BY <4>1, <4>2, RelinkTotals
    <3> QED BY <1>5, <3>1, <3>2
  <2> QED BY <2>1, <2>2, <2>4
<1>8. ASSUME priceMap'[at][v] # None
      PROVE  /\ levels'[priceMap'[at][v]].total = LeftIn(Queue(at, v)) - orders[os].remaining
             /\ levels'[priceMap'[at][v]].count = Cardinality(Queue(at, v)) - 1
  <2>1. levels' = [levels EXCEPT ![ls] = Shortened(ls, os)] /\ priceMap'[at][v] = ls
    BY <1>3, <1>5, <1>6, <1>8
  <2>2. levels'[ls] = Shortened(ls, os)
    BY <1>6, <2>1
  <2> DEFINE H == IF orders[os].prev = None THEN orders[os].next ELSE levels[ls].head
             T == IF orders[os].next = None THEN orders[os].prev ELSE levels[ls].tail
             C == levels[ls].count - 1
             M == levels[ls].total - orders[os].remaining
  <2>3. H \in MaybeSlot /\ T \in MaybeSlot /\ C \in Int /\ M \in Int /\ levels[ls] \in Levels
    BY <1>4, Fields
  <2>4. Shortened(ls, os) = Resize(levels[ls], H, T, C, M)
    BY DEF Shortened
  <2> HIDE DEF H, T, C, M
  <2>5. Shortened(ls, os).total = M /\ Shortened(ls, os).count = C
    BY <2>3, <2>4, ResizeTotals
  <2> QED BY <1>6, <2>1, <2>2, <2>5 DEF C, M
<1>9. LeftIn(Queue(at, v)) \in Int /\ Cardinality(Queue(at, v)) \in Int /\ orders[os].remaining \in Int
  BY <1>4, <1>6, Fields
<1>10. /\ Live' \ {os} = Live \ {os} /\ os \notin Live'
       /\ \A s \in Live \ {os} : /\ orders'[s].side = orders[s].side /\ orders'[s].price = orders[s].price
                                 /\ orders'[s].remaining = orders[s].remaining
  BY <1>4
<1> QED BY <1>2, <1>4, <1>7, <1>8, <1>9, <1>10, TotalsStep

\* A partial fill takes as much from the level as from the order.
LEMMA TotalsPartial ==
  ASSUME TypeOK, TypeOK', ListsLinked, LevelTotals, NEW os \in Live, NEW ls, ls = LevelOf(os),
         NEW q \in Nat,
         orders' = [orders EXCEPT ![os].remaining = @ - q],
         levels' = [levels EXCEPT ![ls].total = @ - q],
         UNCHANGED <<freeOrders, priceMap>>
  PROVE  LevelTotals'
<1>1. LiveOrders /\ LevelEnds /\ LevelsLinked
  BY DEF ListsLinked
<1>2. PICK at \in Sides, v \in LimitPrices : at = orders[os].side /\ v = orders[os].price
  BY <1>1 DEF LiveOrders
<1>3. ls \in LevelSlots /\ ls = priceMap[at][v] /\ ls # None /\ os \in Slots
  BY <1>1, <1>2, LiveFacts
<1>4. Live' = Live
  BY DEF Live
<1>5. /\ orders \in [Slots -> Orders] /\ levels \in [LevelSlots -> Levels]
      /\ priceMap \in [Sides -> [LimitPrices -> LevelSlots \cup {None}]]
  BY DEF TypeOK
<1>6. /\ orders'[os].side = at /\ orders'[os].price = v /\ orders'[os].remaining = orders[os].remaining - q
      /\ \A s \in Slots \ {os} : orders'[s] = orders[s]
  BY <1>2, <1>3, <1>5 DEF Orders
<1>7. /\ levels'[ls].total = levels[ls].total - q /\ levels'[ls].count = levels[ls].count
      /\ \A l \in LevelSlots \ {ls} : levels'[l] = levels[l]
  BY <1>3, <1>5 DEF Levels
<1>8. levels[ls].total = LeftIn(Queue(at, v)) /\ levels[ls].count = Cardinality(Queue(at, v))
  BY <1>3 DEF LevelTotals
<1>9. levels[ls].total \in Int /\ levels[ls].count \in Int /\ orders[os].remaining \in Int
  BY <1>3, Fields
<1>10. ASSUME NEW side \in Sides, NEW p \in LimitPrices, priceMap'[side][p] # None, side # at \/ p # v
       PROVE  /\ priceMap[side][p] = priceMap'[side][p]
              /\ levels'[priceMap[side][p]].total = levels[priceMap[side][p]].total
              /\ levels'[priceMap[side][p]].count = levels[priceMap[side][p]].count
  <2>1. priceMap[side][p] \in LevelSlots
    BY <1>5, <1>10
  <2>2. priceMap[side][p] # ls
    BY <1>1, <1>3, <1>10, LevelsApart
  <2> QED BY <1>7, <2>1, <2>2
<1>11. /\ Live' \ {os} = Live \ {os}
       /\ \A s \in Live \ {os} : /\ orders'[s].side = orders[s].side /\ orders'[s].price = orders[s].price
                                 /\ orders'[s].remaining = orders[s].remaining
  BY <1>4, <1>6 DEF Live
<1>12. /\ levels'[priceMap'[at][v]].total = LeftIn(Queue(at, v))
             + (IF os \in Live' THEN orders'[os].remaining ELSE 0)
             - (IF os \in Live THEN orders[os].remaining ELSE 0)
       /\ levels'[priceMap'[at][v]].count = Cardinality(Queue(at, v))
             + (IF os \in Live' THEN 1 ELSE 0) - (IF os \in Live THEN 1 ELSE 0)
  <2>1. os \in Live /\ os \in Live' /\ priceMap'[at][v] = ls
    BY <1>3, <1>4
  <2> QED BY <1>6, <1>7, <1>8, <1>9, <2>1
<1>13. /\ os \in Live => orders[os].side = at /\ orders[os].price = v
       /\ os \in Live' => orders'[os].side = at /\ orders'[os].price = v
  BY <1>2, <1>6
<1> QED BY <1>3, <1>10, <1>11, <1>12, <1>13, TotalsStep

\* A fill: in part, or with the order taken off.
LEMMA TotalsFillHead ==
  ASSUME IInv, TypeOK', LevelTotals, FillHead
  PROVE  LevelTotals'
<1>1. TypeOK /\ ListsLinked
  BY DEF IInv
<1>2. taker \in Takers
  BY <1>1 DEF FillHead, TypeOK
<1>3. PICK side \in Sides : side = Opposite(taker.side)
  BY <1>2 DEF Takers, Opposite, Sides
<1>4. topLevel[side] # None
  BY <1>3 DEF FillHead, CanFill
<1>5. PICK ls \in LevelSlots : ls = topLevel[side]
  BY <1>1, <1>4, HeadOrder
<1>6. PICK os \in Live : os = levels[ls].head /\ orders[os].side = side /\ LevelOf(os) = ls
  BY <1>1, <1>4, <1>5, HeadOrder
<1>7. PICK bucket \in Buckets : bucket = Bucket(orders[os].id)
  BY <1>1, BookAssumption DEF ListsLinked, LiveOrders, Bucket
<1>8. PICK q \in Nat : q = FillQuantity(orders[os])
  BY <1>1, <1>2, <1>6, Fields DEF FillQuantity, Takers, Live
<1>9. \/ TakeOff(os, ls, side, bucket)
      \/ /\ orders' = [orders EXCEPT ![os].remaining = @ - q]
         /\ levels' = [levels EXCEPT ![ls].total = @ - q]
         /\ UNCHANGED <<freeOrders, freeLevels, priceMap, topLevel, best, index>>
  BY <1>3, <1>5, <1>6, <1>7, <1>8 DEF FillHead, DoneBucket
<1> QED BY <1>1, <1>6, <1>9, TotalsTakeOff, TotalsPartial

\* A cancel.
LEMMA TotalsCancelOrder ==
  ASSUME IInv, TypeOK', LevelTotals, NEW id \in OrderIds, CancelOrder(id)
  PROVE  LevelTotals'
<1>1. TypeOK /\ ListsLinked
  BY DEF IInv
<1>2. PICK bucket \in Buckets : bucket = Bucket(id)
  BY BookAssumption DEF Bucket
<1>3. PICK os \in Live : /\ index[bucket].slot = os
                         /\ index[bucket].level = LevelOf(os)
                         /\ index[bucket].side = orders[os].side
  BY <1>2 DEF IInv, IndexSound, CancelOrder
<1>4. TakeOff(os, LevelOf(os), orders[os].side, bucket)
  BY <1>2, <1>3 DEF CancelOrder
<1> QED BY <1>1, <1>4, TotalsTakeOff

\* Resting on a level that exists.
LEMMA TotalsJoinLevel ==
  ASSUME IInv, TypeOK', LevelTotals, JoinLevel
  PROVE  LevelTotals'
<1>0. TypeOK /\ LiveOrders /\ LevelEnds /\ LevelsLinked
  BY DEF IInv, ListsLinked
<1>1. Resting /\ taker # None /\ taker \in Takers
  BY <1>0 DEF JoinLevel, Resting, TypeOK
<1>2. PICK at \in Sides, v \in LimitPrices : at = taker.side /\ v = taker.price
  BY <1>1 DEF Resting, IInv, ListsLinked, InFlight, Takers
<1>3. PICK ls \in LevelSlots : ls = priceMap[at][v]
  <2>1. priceMap[at][v] # None
    BY <1>2 DEF JoinLevel
  <2>2. priceMap \in [Sides -> [LimitPrices -> LevelSlots \cup {None}]]
    BY <1>0 DEF TypeOK
  <2> QED BY <2>1, <2>2
<1>4. ls # None /\ UNCHANGED priceMap
  BY <1>2, <1>3 DEF JoinLevel
<1>5. /\ levels[ls].tail \in Live /\ levels[ls].tail # None /\ levels[ls] \in Levels
  BY <1>0, <1>3, <1>4, BookAssumption DEF LevelEnds, Live, TypeOK
<1> DEFINE C == levels[ls].count + 1
           M == levels[ls].total + taker.remaining
<1>6. PICK os \in freeOrders :
         /\ orders' = Appended(os, levels[ls].tail)
         /\ levels' = [levels EXCEPT ![ls] = Resize(levels[ls], levels[ls].head, os, C, M)]
         /\ freeOrders' = freeOrders \ {os}
  BY <1>2, <1>3, <1>5 DEF JoinLevel, Publish
<1>7. /\ os \in Slots /\ os \notin Live /\ Live' = Live \cup {os}
      /\ orders'[os].side = at /\ orders'[os].price = v /\ orders'[os].remaining = taker.remaining
      /\ \A s \in Live : /\ orders'[s].side = orders[s].side /\ orders'[s].price = orders[s].price
                         /\ orders'[s].remaining = orders[s].remaining
  BY <1>1, <1>2, <1>5, <1>6, RestFacts
<1>8. /\ levels[ls].head \in MaybeSlot /\ os \in MaybeSlot /\ C \in Int /\ M \in Int
      /\ levels \in [LevelSlots -> Levels]
  <2>1. taker.remaining \in Nat
    BY <1>1 DEF Takers
  <2> QED BY <1>0, <1>7, <2>1, Fields DEF MaybeSlot, TypeOK
<1>9. levels'[ls].total = M /\ levels'[ls].count = C
  <2> HIDE DEF C, M
  <2>1. levels'[ls] = Resize(levels[ls], levels[ls].head, os, C, M)
    BY <1>6, <1>8
  <2>2. /\ Resize(levels[ls], levels[ls].head, os, C, M).total = M
        /\ Resize(levels[ls], levels[ls].head, os, C, M).count = C
    BY <1>5, <1>8, ResizeTotals
  <2> QED BY <2>1, <2>2
<1>10. \A l \in LevelSlots \ {ls} : levels'[l] = levels[l]
  BY <1>6, <1>8
<1>11. levels[ls].total = LeftIn(Queue(at, v)) /\ levels[ls].count = Cardinality(Queue(at, v))
  BY <1>3, <1>4 DEF LevelTotals
<1>12. ASSUME NEW side \in Sides, NEW p \in LimitPrices, priceMap'[side][p] # None, side # at \/ p # v
       PROVE  /\ priceMap[side][p] = priceMap'[side][p]
              /\ levels'[priceMap[side][p]].total = levels[priceMap[side][p]].total
              /\ levels'[priceMap[side][p]].count = levels[priceMap[side][p]].count
  <2>1. priceMap[side][p] = priceMap'[side][p] /\ priceMap[side][p] \in LevelSlots
    BY <1>0, <1>4, <1>12 DEF TypeOK
  <2>2. priceMap[side][p] # ls
    BY <1>0, <1>3, <1>4, <1>12, LevelsApart
  <2> QED BY <1>10, <2>1, <2>2
<1>13. /\ Live' \ {os} = Live \ {os}
       /\ \A s \in Live \ {os} : /\ orders'[s].side = orders[s].side /\ orders'[s].price = orders[s].price
                                 /\ orders'[s].remaining = orders[s].remaining
  BY <1>7
<1>14. /\ levels'[priceMap'[at][v]].total = LeftIn(Queue(at, v)) + orders'[os].remaining - 0
       /\ levels'[priceMap'[at][v]].count = Cardinality(Queue(at, v)) + 1 - 0
  <2>1. priceMap'[at][v] = ls
    BY <1>3, <1>4
  <2>2. levels[ls].total \in Int /\ levels[ls].count \in Int /\ taker.remaining \in Int
    BY <1>0, <1>1, Fields DEF Takers
  <2> QED BY <1>7, <1>9, <1>11, <2>1, <2>2
<1> QED BY <1>0, <1>7, <1>12, <1>13, <1>14, TotalsStep

\* Resting on a new level, whose queue was empty.
LEMMA TotalsOpenLevel ==
  ASSUME IInv, TypeOK', LevelTotals, OpenLevel
  PROVE  LevelTotals'
<1>0. TypeOK /\ LiveOrders /\ LevelEnds /\ LevelsLinked
  BY DEF IInv, ListsLinked
<1>1. Resting /\ taker # None /\ taker \in Takers
  BY <1>0 DEF OpenLevel, Resting, TypeOK
<1>2. PICK at \in Sides, v \in LimitPrices : at = taker.side /\ v = taker.price
  BY <1>1 DEF Resting, IInv, ListsLinked, InFlight, Takers
<1>3. priceMap[at][v] = None
  BY <1>2 DEF OpenLevel
<1>a. PICK os \in freeOrders, ls \in freeLevels, p \in MaybeLevel, c \in MaybeLevel :
         /\ InsertionPoint(p, c)
         /\ orders' = Appended(os, None)
         /\ levels' = [l \in LevelSlots |->
               IF l = ls THEN [price |-> taker.price, total |-> taker.remaining, count |-> 1,
                               head |-> os, tail |-> os, next |-> c, prev |-> p]
               ELSE Relink(levels[l], IF l = p THEN ls ELSE levels[l].next,
                                      IF l = c THEN ls ELSE levels[l].prev)]
         /\ freeLevels' = freeLevels \ {ls}
         /\ priceMap' = [priceMap EXCEPT ![taker.side][taker.price] = ls]
         /\ topLevel' = IF p = None THEN [topLevel EXCEPT ![taker.side] = ls] ELSE topLevel
         /\ Publish(os, ls)
  BY DEF OpenLevel, MaybeLevel
<1>4. priceMap' = [priceMap EXCEPT ![at][v] = ls] /\ freeOrders' = freeOrders \ {os}
  BY <1>2, <1>a DEF Publish
<1>5. /\ ls \in LevelSlots /\ ls # None /\ ls \notin LiveLevels
      /\ priceMap \in [Sides -> [LimitPrices -> LevelSlots \cup {None}]]
      /\ levels \in [LevelSlots -> Levels]
  BY <1>0, BookAssumption DEF TypeOK, LiveLevels
<1>6. /\ os \in Slots /\ os \notin Live /\ Live' = Live \cup {os}
      /\ orders'[os].side = at /\ orders'[os].price = v /\ orders'[os].remaining = taker.remaining
      /\ \A s \in Live : /\ orders'[s].side = orders[s].side /\ orders'[s].price = orders[s].price
                         /\ orders'[s].remaining = orders[s].remaining
  BY <1>1, <1>2, <1>4, <1>a, RestFacts
<1>7. levels'[ls].total = taker.remaining /\ levels'[ls].count = 1 /\ taker.remaining \in Nat
  BY <1>1, <1>5, <1>a DEF Takers
<1>8. \A l \in LevelSlots \ {ls} : levels'[l].total = levels[l].total /\ levels'[l].count = levels[l].count
  <2> SUFFICES ASSUME NEW l \in LevelSlots \ {ls}
               PROVE  levels'[l].total = levels[l].total /\ levels'[l].count = levels[l].count
    OBVIOUS
  <2> DEFINE N == IF l = p THEN ls ELSE levels[l].next
             P == IF l = c THEN ls ELSE levels[l].prev
  <2>1. levels'[l] = Relink(levels[l], N, P)
    BY <1>a
  <2>2. N \in MaybeLevel /\ P \in MaybeLevel /\ levels[l] \in Levels
    BY <1>0, <1>5, Fields DEF MaybeLevel
  <2> HIDE DEF N, P
  <2> QED BY <2>1, <2>2, RelinkTotals
<1>9. LeftIn(Queue(at, v)) = 0 /\ Cardinality(Queue(at, v)) = 0
  <2>1. Queue(at, v) = {}
    BY <1>0, <1>3 DEF Queue, LiveOrders, LevelOf
  <2> QED BY <2>1, SumEmpty, FS_EmptySet DEF LeftIn
<1>10. ASSUME NEW side \in Sides, NEW q \in LimitPrices, priceMap'[side][q] # None, side # at \/ q # v
       PROVE  /\ priceMap[side][q] = priceMap'[side][q]
              /\ levels'[priceMap[side][q]].total = levels[priceMap[side][q]].total
              /\ levels'[priceMap[side][q]].count = levels[priceMap[side][q]].count
  <2>1. priceMap[side][q] = priceMap'[side][q] /\ priceMap[side][q] \in LevelSlots
    BY <1>4, <1>5, <1>10
  <2>2. priceMap[side][q] \in LiveLevels
    BY <1>0, <1>10, <2>1 DEF LevelEnds
  <2> QED BY <1>5, <1>8, <2>1, <2>2
<1>11. /\ Live' \ {os} = Live \ {os}
       /\ \A s \in Live \ {os} : /\ orders'[s].side = orders[s].side /\ orders'[s].price = orders[s].price
                                 /\ orders'[s].remaining = orders[s].remaining
  BY <1>6
<1>12. /\ levels'[priceMap'[at][v]].total = LeftIn(Queue(at, v)) + orders'[os].remaining - 0
       /\ levels'[priceMap'[at][v]].count = Cardinality(Queue(at, v)) + 1 - 0
  <2>1. priceMap'[at][v] = ls
    BY <1>4, <1>5
  <2> QED BY <1>6, <1>7, <1>9, <2>1
<1> QED BY <1>0, <1>6, <1>10, <1>11, <1>12, TotalsStep

\* total_qty and count of every level are what its queue adds up to, through every fill,
\* rest and cancel, for any pool sizes, prices and sequence of operations.
THEOREM TotalsAddUp == Spec => []LevelTotals
<1>1. Init => LevelTotals
  BY DEF Init, LevelTotals
<1>2. IInv /\ LevelTotals /\ [Next]_vars => LevelTotals'
  <2> SUFFICES ASSUME IInv, LevelTotals, [Next]_vars PROVE LevelTotals'
    OBVIOUS
  <2>0. TypeOK'
    BY InvNext DEF IInv
  <2>1. CASE UNCHANGED bookVars
    BY <2>1 DEF LevelTotals, LeftIn, Queue, Live, bookVars
  <2>2. CASE FillHead
    BY <2>0, <2>2, TotalsFillHead
  <2>3. CASE JoinLevel
    BY <2>0, <2>3, TotalsJoinLevel
  <2>4. CASE OpenLevel
    BY <2>0, <2>4, TotalsOpenLevel
  <2>5. CASE \E id \in OrderIds : CancelOrder(id)
    BY <2>0, <2>5, TotalsCancelOrder
  <2>6. CASE \/ \E id \in OrderIds, side \in Sides, quantity \in 0 .. MaxQuantity :
                  \/ \E price \in 0 .. PriceCap : AddOrder(id, side, price, quantity, FALSE)
                  \/ AddOrder(id, side, 0, quantity, TRUE)
             \/ Complete \/ DropRemainder
             \/ \E id \in OrderIds : CancelMiss(id)
             \/ UNCHANGED vars
    BY <2>1, <2>6 DEF AddOrder, Complete, DropRemainder, CancelMiss, vars
  <2> QED BY <2>2, <2>3, <2>4, <2>5, <2>6 DEF Next
<1> QED BY <1>1, <1>2, InvInit, InvNext, PTL DEF Spec

=============================================================================
