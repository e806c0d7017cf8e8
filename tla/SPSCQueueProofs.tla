-------------------------- MODULE SPSCQueueProofs --------------------------
(***************************************************************************)
(* Proofs about SPSCQueue, for every capacity: the indexes stay in the     *)
(* buffer, the two copies never race, and the ring buffer implements the   *)
(* FIFO queue BoundedFifo of Capacity - 1 places (its safety part; what is *)
(* taken in the end needs fairness, and is TLC's).                         *)
(***************************************************************************)
EXTENDS SPSCQueue, SequenceTheorems, TLAPS

\* Going round from headSeen, one comes to head, then to tailSeen, then to tail.
Ordered ==
  /\ Dist(headSeen, head) + Dist(head, tail) = Dist(headSeen, tail)
  /\ Dist(head, tailSeen) <= Dist(head, tail)

\* Where push is: its slot is free, and holds the item once that is written.
PushAt ==
  /\ producer.pc # "idle" => producer.slot = tail /\ producer.item \in Items
  /\ producer.pc \in {"write", "publish"} => Succ(tail) # headSeen
  /\ producer.pc = "publish" => buffer[tail] = producer.item

\* Where pop is: its slot is taken, and its copy is still the slot's content.
PopAt ==
  /\ consumer.pc # "idle" => consumer.slot = head
  /\ consumer.pc \in {"read", "release"} => head # tailSeen
  /\ consumer.pc = "release" => consumer.item = buffer[head]

\* The inductive invariant.
IInv == TypeOK /\ Ordered /\ PushAt /\ PopAt

\* The arithmetic of the ring: steps and distances.
LEMMA RingStep ==
  ASSUME NEW h \in Slots, NEW t \in Slots
  PROVE  /\ Succ(h) \in Slots /\ Dist(h, t) \in Nat /\ Dist(h, t) < Capacity
         /\ Dist(h, t) = 0 <=> h = t
         /\ Succ(t) # h => Dist(h, Succ(t)) = Dist(h, t) + 1
         /\ Succ(t) # h => Dist(h, t) < Capacity - 1
         /\ h # t => Dist(Succ(h), t) = Dist(h, t) - 1
         /\ Plus(h, Dist(h, t)) = t
  BY QueueAssumption DEF Slots, Succ, Dist, Plus

\* A slot between head and tail is a slot, and is not the one at tail.
LEMMA RingSlot ==
  ASSUME NEW h \in Slots, NEW t \in Slots, NEW k \in 0 .. Dist(h, t) - 1
  PROVE  /\ Plus(h, k) \in Slots /\ Plus(h, k) # t
         /\ Plus(h, 0) = h
         /\ k > 0 => Plus(Succ(h), k - 1) = Plus(h, k)
  BY QueueAssumption DEF Slots, Succ, Dist, Plus

\* The empty queue.
LEMMA InvInit == Init => IInv
  BY QueueAssumption DEF Init, IInv, TypeOK, Slots, Ordered, PushAt, PopAt, Dist

\* The record fields the steps read.
LEMMA Locals ==
  ASSUME TypeOK
  PROVE  /\ producer.slot \in Slots /\ producer.item \in Items \cup {None}
         /\ consumer.slot \in Slots /\ consumer.item \in Items \cup {None}
         /\ head \in Slots /\ tail \in Slots /\ headSeen \in Slots /\ tailSeen \in Slots
  BY DEF TypeOK

\* When the consumer has seen an item, there is one.
LEMMA NotEmpty ==
  ASSUME IInv, head # tailSeen
  PROVE  head # tail /\ Dist(head, tail) > 0
<1>1. head \in Slots /\ tail \in Slots /\ tailSeen \in Slots
  BY Locals DEF IInv
<1>2. Dist(head, tailSeen) \in Nat /\ Dist(head, tail) \in Nat /\ Dist(head, tailSeen) # 0
  BY <1>1, RingStep
<1>3. Dist(head, tailSeen) <= Dist(head, tail)
  BY DEF IInv, Ordered
<1>4. Dist(head, tail) > 0
  BY <1>2, <1>3
<1> QED BY <1>1, <1>4, RingStep

\* A step of push keeps the invariant.
LEMMA InvPush ==
  ASSUME IInv, Push
  PROVE  IInv'
<1>1. ASSUME NEW i \in Items, StartPush(i) PROVE IInv'
  BY <1>1, Locals DEF IInv, StartPush, TypeOK, Ordered, PushAt, PopAt
<1>2. CASE Refuse
  BY <1>2 DEF IInv, Refuse, TypeOK, Ordered, PushAt, PopAt
<1>3. CASE Admit
  BY <1>3, Locals DEF IInv, Admit, Full, TypeOK, Ordered, PushAt, PopAt
<1>4. CASE Write
  <2>1. /\ producer.pc = "write" /\ producer.slot = tail /\ producer.item \in Items
        /\ buffer' = [buffer EXCEPT ![tail] = producer.item]
        /\ producer' = [producer EXCEPT !.pc = "publish"]
        /\ UNCHANGED <<head, tail, headSeen, tailSeen, consumer, popped>>
    BY <1>4 DEF Write, IInv, PushAt
  <2>2. TypeOK'
    BY <2>1, Locals DEF IInv, TypeOK
  <2>3. Ordered'
    BY <2>1 DEF IInv, Ordered, Dist
  <2>4. PushAt'
    BY <2>1, Locals DEF IInv, TypeOK, PushAt, Succ
  <2>5. PopAt'
    <3>1. consumer.pc = "release" => head # tail
      BY NotEmpty DEF IInv, PopAt
    <3>2. buffer'[head] = buffer[head] \/ head = tail
      BY <2>1, Locals DEF IInv, TypeOK
    <3> QED BY <2>1, <3>1, <3>2 DEF IInv, PopAt
  <2> QED BY <2>2, <2>3, <2>4, <2>5 DEF IInv
<1>5. CASE Publish
  <2>1. /\ producer.pc = "publish" /\ tail' = Succ(tail) /\ Succ(tail) # headSeen
        /\ producer' = [producer EXCEPT !.pc = "idle"]
        /\ UNCHANGED <<head, headSeen, tailSeen, buffer, consumer, popped>>
    BY <1>5 DEF Publish, IInv, PushAt
  <2>2. TypeOK'
    <3>1. Succ(tail) \in Slots
      BY Locals, RingStep DEF IInv
    <3> QED BY <2>1, <3>1 DEF IInv, TypeOK
  <2>3. Ordered'
    <3>1. Dist(headSeen, Succ(tail)) = Dist(headSeen, tail) + 1 /\ Dist(headSeen, tail) < Capacity - 1
      BY <2>1, Locals, RingStep DEF IInv
    <3>2. Succ(tail) # head
      BY <2>1, <3>1, Locals, QueueAssumption DEF IInv, Ordered, Dist, Succ, Slots
    <3>3. Dist(head, Succ(tail)) = Dist(head, tail) + 1
      BY <3>2, Locals, RingStep DEF IInv
    <3>4. /\ Dist(headSeen, head) \in Int /\ Dist(head, tail) \in Int /\ Dist(head, tailSeen) \in Int
          /\ Dist(headSeen, tail) \in Int
      BY Locals, RingStep DEF IInv
    <3>5. /\ Dist(headSeen, head) + Dist(head, Succ(tail)) = Dist(headSeen, Succ(tail))
          /\ Dist(head, tailSeen) <= Dist(head, Succ(tail))
      BY <3>1, <3>3, <3>4 DEF IInv, Ordered
    <3> QED BY <2>1, <3>5 DEF Ordered, Dist
  <2>4. PushAt'
    BY <2>1, Locals DEF IInv, TypeOK, PushAt
  <2>5. PopAt'
    BY <2>1 DEF IInv, PopAt
  <2> QED BY <2>2, <2>3, <2>4, <2>5 DEF IInv
<1> QED BY <1>1, <1>2, <1>3, <1>4, <1>5 DEF Push

\* A step of pop keeps the invariant.
LEMMA InvPop ==
  ASSUME IInv, Pop
  PROVE  IInv'
<1>1. CASE StartPop
  BY <1>1, Locals DEF IInv, StartPop, TypeOK, Ordered, PushAt, PopAt
<1>2. CASE FindEmpty
  BY <1>2 DEF IInv, FindEmpty, TypeOK, Ordered, PushAt, PopAt
<1>3. CASE FindItem
  BY <1>3, Locals DEF IInv, FindItem, TypeOK, Ordered, PushAt, PopAt
<1>4. CASE Read
  BY <1>4, Locals DEF IInv, Read, TypeOK, Ordered, PushAt, PopAt
<1>5. CASE Release
  <2>1. /\ consumer.pc = "release" /\ head' = Succ(head) /\ head # tailSeen
        /\ popped' = consumer.item
        /\ consumer' = [consumer EXCEPT !.pc = "idle"]
        /\ UNCHANGED <<tail, headSeen, tailSeen, buffer, producer>>
    BY <1>5 DEF Release, IInv, PopAt
  <2>2. TypeOK'
    <3>1. Succ(head) \in Slots
      BY Locals, RingStep DEF IInv
    <3> QED BY <2>1, <3>1, Locals DEF IInv, TypeOK
  <2>3. Ordered'
    <3>1. Dist(head, tailSeen) > 0
      BY <2>1, Locals, RingStep DEF IInv
    <3>2. head # tail
      BY <2>1, NotEmpty
    <3>3. Dist(Succ(head), tail) = Dist(head, tail) - 1 /\ Dist(Succ(head), tailSeen) = Dist(head, tailSeen) - 1
      BY <2>1, <3>2, Locals, RingStep DEF IInv
    <3>4. Succ(head) # headSeen
      BY <2>1, <3>2, Locals, QueueAssumption DEF IInv, Ordered, Dist, Succ, Slots
    <3>5. Dist(headSeen, Succ(head)) = Dist(headSeen, head) + 1
      BY <3>4, Locals, RingStep DEF IInv
    <3>6. /\ Dist(headSeen, head) \in Int /\ Dist(head, tail) \in Int /\ Dist(head, tailSeen) \in Int
          /\ Dist(headSeen, tail) \in Int
      BY Locals, RingStep DEF IInv
    <3>7. /\ Dist(headSeen, Succ(head)) + Dist(Succ(head), tail) = Dist(headSeen, tail)
          /\ Dist(Succ(head), tailSeen) <= Dist(Succ(head), tail)
      BY <3>3, <3>5, <3>6 DEF IInv, Ordered
    <3> QED BY <2>1, <3>7 DEF Ordered, Dist
  <2>4. PushAt'
    BY <2>1 DEF IInv, PushAt, Succ
  <2>5. PopAt'
    BY <2>1, Locals DEF IInv, TypeOK, PopAt
  <2> QED BY <2>2, <2>3, <2>4, <2>5 DEF IInv
<1> QED BY <1>1, <1>2, <1>3, <1>4, <1>5 DEF Pop

\* A store that arrives at the other thread, and nothing at all, keep the invariant.
LEMMA InvSee ==
  ASSUME IInv, SeeHead \/ SeeTail \/ UNCHANGED vars
  PROVE  IInv'
<1>1. CASE SeeHead
  <2>1. headSeen' = head /\ UNCHANGED <<head, tail, tailSeen, buffer, producer, consumer, popped>>
    BY <1>1 DEF SeeHead
  <2>2. Dist(head, head) = 0 /\ Dist(head, tail) \in Int
    BY Locals, RingStep DEF IInv
  <2>3. Ordered'
    <3>1. Dist(head, head) + Dist(head, tail) = Dist(head, tail) /\ Dist(head, tailSeen) <= Dist(head, tail)
      BY <2>2 DEF IInv, Ordered
    <3> QED BY <2>1, <3>1 DEF Ordered, Dist
  <2>4. PushAt'
    <3>1. Succ(tail) # headSeen => Succ(tail) # head
      BY Locals, QueueAssumption DEF IInv, Ordered, Dist, Succ, Slots
    <3> QED BY <2>1, <3>1 DEF IInv, PushAt, Succ
  <2>5. TypeOK' /\ PopAt'
    BY <2>1 DEF IInv, TypeOK, PopAt
  <2> QED BY <2>3, <2>4, <2>5 DEF IInv
<1>2. CASE SeeTail
  <2>1. tailSeen' = tail /\ UNCHANGED <<head, tail, headSeen, buffer, producer, consumer, popped>>
    BY <1>2 DEF SeeTail
  <2>2. head # tailSeen => head # tail
    BY NotEmpty
  <2>3. Ordered'
    <3>1. Dist(head, tail) \in Int
      BY Locals, RingStep DEF IInv
    <3> QED BY <2>1, <3>1 DEF IInv, Ordered, Dist
  <2>4. TypeOK' /\ PushAt' /\ PopAt'
    BY <2>1, <2>2 DEF IInv, TypeOK, PushAt, PopAt, Succ
  <2> QED BY <2>3, <2>4 DEF IInv
<1>3. CASE UNCHANGED vars
  BY <1>3 DEF IInv, TypeOK, Ordered, PushAt, PopAt, vars, Dist, Succ
<1> QED BY <1>1, <1>2, <1>3

\* Every step preserves the inductive invariant.
LEMMA InvNext == IInv /\ [Next]_vars => IInv'
  BY InvPush, InvPop, InvSee DEF Next

\* Every index of every operation is one of the buffer's.
THEOREM TypeCorrect == Spec => []TypeOK
<1>1. IInv => TypeOK
  BY DEF IInv
<1> QED BY <1>1, InvInit, InvNext, PTL DEF Spec

\* The copy into a slot and the copy out of one are never under way on the same slot.
THEOREM NeverRaces == Spec => []NoRace
<1>1. IInv => NoRace
  <2> SUFFICES ASSUME IInv, producer.pc = "write", consumer.pc = "read"
               PROVE  producer.slot # consumer.slot
    BY DEF NoRace
  <2>1. producer.slot = tail /\ consumer.slot = head /\ head # tailSeen
    BY DEF IInv, PushAt, PopAt
  <2> QED BY <2>1, NotEmpty
<1> QED BY <1>1, InvInit, InvNext, PTL DEF Spec

-----------------------------------------------------------------------------
(* The refinement.                                                         *)

\* The queue the ring holds, as a sequence: its length and its elements.
LEMMA ContentIs ==
  ASSUME IInv
  PROVE  /\ Content \in Seq(Items \cup {None}) /\ Len(Content) = Dist(head, tail)
         /\ \A k \in 1 .. Dist(head, tail) : Content[k] = buffer[Plus(head, k - 1)]
<1>1. Dist(head, tail) \in Nat
  BY Locals, RingStep DEF IInv
<1>2. \A k \in 1 .. Dist(head, tail) : Plus(head, k - 1) \in Slots
  BY <1>1, Locals, RingSlot DEF IInv
<1>3. \A k \in 1 .. Dist(head, tail) : buffer[Plus(head, k - 1)] \in Items \cup {None}
  BY <1>2 DEF IInv, TypeOK
<1> QED BY <1>1, <1>3 DEF Content

\* Two steps that write neither the content's slots nor its ends leave the queue alone.
LEMMA ContentKept ==
  ASSUME IInv, head' = head, tail' = tail,
         \A k \in 1 .. Dist(head, tail) : buffer'[Plus(head, k - 1)] = buffer[Plus(head, k - 1)]
  PROVE  Content' = Content
<1>1. Dist(head, tail)' = Dist(head, tail)
  BY DEF Dist
<1>2. \A k \in 1 .. Dist(head, tail) : Plus(head, k - 1)' = Plus(head, k - 1)
  BY DEF Plus
<1> QED BY <1>1, <1>2 DEF Content, Plus, Dist

\* The store of tail_ puts the item the slot holds at the queue's end, and the
\* queue had a place left for it.
LEMMA PublishPuts ==
  ASSUME IInv, Publish
  PROVE  Fifo!Put(producer.item)
<1> DEFINE n == Dist(head, tail)
<1>1. /\ producer.slot = tail /\ buffer[tail] = producer.item /\ producer.item \in Items
      /\ Succ(tail) # headSeen
  BY DEF IInv, PushAt, Publish
<1>2. tail' = Succ(tail) /\ head' = head /\ buffer' = buffer /\ popped' = popped
  BY <1>1 DEF Publish
<1>3. Succ(tail) # head
  <2>1. Ordered /\ head \in Slots /\ tail \in Slots /\ headSeen \in Slots
    BY Locals DEF IInv
  <2> QED BY <1>1, <2>1, QueueAssumption DEF Ordered, Dist, Succ, Slots
<1>4. n \in Nat /\ n < Capacity - 1 /\ Dist(head, tail)' = n + 1 /\ Plus(head, n) = tail
  BY <1>2, <1>3, Locals, RingStep, QueueAssumption DEF IInv, Dist
<1>5. Content' = [k \in 1 .. n + 1 |-> buffer[Plus(head, k - 1)]]
  BY <1>2, <1>4 DEF Content, Plus
<1>6. Content \in Seq(Items \cup {None}) /\ Len(Content) = n
      /\ \A k \in 1 .. n : Content[k] = buffer[Plus(head, k - 1)]
  BY ContentIs
<1>7. Append(Content, producer.item) = [k \in 1 .. n + 1 |-> buffer[Plus(head, k - 1)]]
  <2> DEFINE A == Append(Content, producer.item)
             F == [k \in 1 .. n + 1 |-> buffer[Plus(head, k - 1)]]
  <2>1. A = [k \in 1 .. n + 1 |-> IF k <= n THEN Content[k] ELSE producer.item]
    BY <1>1, <1>4, <1>6
  <2>2. ASSUME NEW k \in 1 .. n + 1
        PROVE  (IF k <= n THEN Content[k] ELSE producer.item) = buffer[Plus(head, k - 1)]
    BY <1>1, <1>4, <1>6
  <2> QED BY <2>1, <2>2
<1>8. Content' = Append(Content, producer.item)
  BY <1>5, <1>7
<1> QED BY <1>2, <1>4, <1>6, <1>8 DEF Fifo!Put

\* The store of head_ takes the queue's first item, which is the one pop returns.
LEMMA ReleaseTakes ==
  ASSUME IInv, Release
  PROVE  Fifo!Take
<1> DEFINE n == Dist(head, tail)
<1>1. consumer.slot = head /\ head # tailSeen /\ consumer.item = buffer[head]
  BY DEF IInv, PopAt, Release
<1>2. head' = Succ(head) /\ tail' = tail /\ buffer' = buffer /\ popped' = buffer[head]
  BY <1>1 DEF Release
<1>3. head # tail
  BY <1>1, NotEmpty
<1>4. n \in Nat /\ n > 0 /\ Dist(head, tail)' = n - 1
  BY <1>2, <1>3, Locals, RingStep, QueueAssumption DEF IInv, Dist
<1>5. Content' = [k \in 1 .. n - 1 |-> buffer[Plus(Succ(head), k - 1)]]
  BY <1>2, <1>4 DEF Content, Plus
<1>6. Content \in Seq(Items \cup {None}) /\ Len(Content) = n
      /\ \A k \in 1 .. n : Content[k] = buffer[Plus(head, k - 1)]
  BY ContentIs
<1>7. Content # <<>> /\ Head(Content) = buffer[head]
  <2>1. Content[1] = buffer[Plus(head, 0)]
    BY <1>4, <1>6
  <2>2. Plus(head, 0) = head
    BY <1>4, Locals, RingSlot DEF IInv
  <2> QED BY <1>4, <1>6, <2>1, <2>2
<1>8. Tail(Content) = [k \in 1 .. n - 1 |-> buffer[Plus(Succ(head), k - 1)]]
  <2>1. Tail(Content) = [k \in 1 .. n - 1 |-> Content[k + 1]]
    <3>1. /\ Tail(Content) \in Seq(Items \cup {None}) /\ Len(Tail(Content)) = n - 1
          /\ \A k \in 1 .. n - 1 : Tail(Content)[k] = Content[k + 1]
      BY <1>4, <1>6, <1>7, HeadTailProperties
    <3> DEFINE T == Tail(Content)
    <3>2. T = [k \in 1 .. Len(T) |-> T[k]]
      <4>1. T \in Seq(Items \cup {None})
        BY <3>1
      <4> HIDE DEF T
      <4> QED BY <4>1
    <3>3. [k \in 1 .. Len(T) |-> T[k]] = [k \in 1 .. n - 1 |-> Content[k + 1]]
      BY <1>4, <3>1
    <3> QED BY <3>2, <3>3
  <2>2. ASSUME NEW k \in 1 .. n - 1
        PROVE  Content[k + 1] = buffer[Plus(Succ(head), k - 1)]
    <3>1. Plus(Succ(head), k - 1) = Plus(head, k)
      BY <1>4, Locals, RingSlot DEF IInv
    <3> QED BY <1>4, <1>6, <3>1
  <2> QED BY <2>1, <2>2
<1> QED BY <1>2, <1>5, <1>7, <1>8 DEF Fifo!Take

\* The copy into a slot does not touch the slots of the queue.
LEMMA WriteHidden ==
  ASSUME IInv, Write
  PROVE  Content' = Content
<1>1. producer.slot = tail /\ head' = head /\ tail' = tail
      /\ buffer' = [buffer EXCEPT ![tail] = producer.item]
  BY DEF IInv, PushAt, Write
<1>2. Dist(head, tail) \in Nat
  BY Locals, RingStep DEF IInv
<1>3. ASSUME NEW k \in 1 .. Dist(head, tail)
      PROVE  buffer'[Plus(head, k - 1)] = buffer[Plus(head, k - 1)]
  <2>1. Plus(head, k - 1) \in Slots /\ Plus(head, k - 1) # tail
    <3>1. k - 1 \in 0 .. Dist(head, tail) - 1
      BY <1>2
    <3> QED BY <3>1, Locals, RingSlot DEF IInv
  <2> QED BY <1>1, <2>1 DEF IInv, TypeOK
<1> QED BY <1>1, <1>3, ContentKept

\* Every step of the ring buffer is a step of the queue, or changes nothing of it.
LEMMA StepMaps == IInv /\ [Next]_vars => [Fifo!Next]_(Fifo!fifoVars)
<1> SUFFICES ASSUME IInv, [Next]_vars
             PROVE  Fifo!Next \/ (Content' = Content /\ popped' = popped)
  BY DEF Fifo!fifoVars
<1>1. CASE Publish
  <2>1. producer.item \in Items
    BY <1>1 DEF IInv, PushAt, Publish
  <2> QED BY <1>1, <2>1, PublishPuts DEF Fifo!Next
<1>2. CASE Release
  BY <1>2, ReleaseTakes DEF Fifo!Next
<1>3. CASE Write
  BY <1>3, WriteHidden DEF Write
<1>4. CASE /\ UNCHANGED <<head, tail, buffer, popped>>
  BY <1>4, ContentKept
<1>5. (\E i \in Items : StartPush(i)) \/ Refuse \/ Admit => UNCHANGED <<head, tail, buffer, popped>>
  BY DEF StartPush, Refuse, Admit
<1>6. StartPop \/ FindEmpty \/ FindItem \/ Read => UNCHANGED <<head, tail, buffer, popped>>
  BY DEF StartPop, FindEmpty, FindItem, Read
<1>7. SeeHead \/ SeeTail \/ UNCHANGED vars => UNCHANGED <<head, tail, buffer, popped>>
  BY DEF SeeHead, SeeTail, vars
<1> QED BY <1>1, <1>2, <1>3, <1>4, <1>5, <1>6, <1>7 DEF Next, Push, Pop

\* The ring buffer implements the queue of Capacity - 1 places: whatever the two
\* threads interleave, items leave in order, each once, none lost, none half written.
THEOREM RefinesFifo == Spec => Fifo!Spec
<1>1. Init => Fifo!Init
  <2> SUFFICES ASSUME Init PROVE Content = <<>> /\ popped = None
    BY DEF Fifo!Init
  <2>1. Dist(head, tail) = 0
    BY DEF Init, Dist
  <2> QED BY <2>1 DEF Content, Init
<1> QED BY <1>1, InvInit, InvNext, StepMaps, PTL DEF Spec, Fifo!Spec

=============================================================================
