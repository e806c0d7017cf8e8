----------------------------- MODULE SPSCQueue -----------------------------
(***************************************************************************)
(* The ring buffer the HFT threads hand work over in                       *)
(* (engine/include/spsc_queue.hpp, class SPSCQueue), one load or store of  *)
(* an atomic, or one copy of an item, at a time.                           *)
(*                                                                         *)
(* Each thread owns one index and reads the other one's with acquire,      *)
(* which the owner stores with release.  An acquire load may return an     *)
(* old value: headSeen and tailSeen are the values the other thread's      *)
(* stores have reached it with, and SeeHead and SeeTail are the moments a  *)
(* newer one arrives.  A thread that has seen an index has seen the slots  *)
(* written before it was stored, so one buffer suffices.                   *)
(*                                                                         *)
(* (i + 1) & MASK is Succ(i), Capacity being a power of two.  size() and   *)
(* empty(), which nothing calls, are left out.                             *)
(***************************************************************************)
EXTENDS Integers

CONSTANTS
    Items,      \* the values the producer pushes
    Capacity,   \* the template parameter
    None        \* the content of a slot never written

ASSUME QueueAssumption ==
    /\ Capacity \in Nat /\ Capacity > 1
    /\ None \notin Items

VARIABLES
    head, tail,  \* head_ and tail_, as their owners stored them last
    headSeen,    \* what head_.load(acquire) returns to the producer
    tailSeen,    \* what tail_.load(acquire) returns to the consumer
    buffer,      \* buffer_
    producer,    \* where push is, and its locals item and current_tail
    consumer,    \* where pop is, and its locals item and current_head
    popped       \* what pop returned last

vars == <<head, tail, headSeen, tailSeen, buffer, producer, consumer, popped>>

Slots == 0 .. (Capacity - 1)

\* The slot after slot i.
Succ(i) == IF i + 1 = Capacity THEN 0 ELSE i + 1

-----------------------------------------------------------------------------
Init ==
    /\ head = 0 /\ tail = 0 /\ headSeen = 0 /\ tailSeen = 0
    /\ buffer = [s \in Slots |-> None]
    /\ producer = [pc |-> "idle", item |-> None, slot |-> 0]
    /\ consumer = [pc |-> "idle", item |-> None, slot |-> 0]
    /\ popped = None

-----------------------------------------------------------------------------
(* push, on the producer's thread.                                         *)

\* The load of tail_, which no one else stores.
StartPush(i) ==
    /\ producer.pc = "idle"
    /\ producer' = [pc |-> "check", item |-> i, slot |-> tail]
    /\ UNCHANGED <<head, tail, headSeen, tailSeen, buffer, consumer, popped>>

NeverFull(slot) == FALSE                \* mutant: the producer laps the consumer

\* next_tail == head_.
Full(slot) == Succ(slot) = headSeen

\* push returns false.
Refuse ==
    /\ producer.pc = "check" /\ Full(producer.slot)
    /\ producer' = [producer EXCEPT !.pc = "idle"]
    /\ UNCHANGED <<head, tail, headSeen, tailSeen, buffer, consumer, popped>>

Admit ==
    /\ producer.pc = "check" /\ ~Full(producer.slot)
    /\ producer' = [producer EXCEPT !.pc = "write"]
    /\ UNCHANGED <<head, tail, headSeen, tailSeen, buffer, consumer, popped>>

\* The copy into the slot.
Write ==
    /\ producer.pc = "write"
    /\ buffer' = [buffer EXCEPT ![producer.slot] = producer.item]
    /\ producer' = [producer EXCEPT !.pc = "publish"]
    /\ UNCHANGED <<head, tail, headSeen, tailSeen, consumer, popped>>

\* The store of tail_; push returns true.
Publish ==
    /\ producer.pc = "publish"
    /\ tail' = Succ(producer.slot)
    /\ producer' = [producer EXCEPT !.pc = "idle"]
    /\ UNCHANGED <<head, headSeen, tailSeen, buffer, consumer, popped>>

SeeHead == headSeen' = head /\ UNCHANGED <<head, tail, tailSeen, buffer, producer, consumer, popped>>

-----------------------------------------------------------------------------
(* pop, on the consumer's thread.                                          *)

\* The load of head_.
StartPop ==
    /\ consumer.pc = "idle"
    /\ consumer' = [consumer EXCEPT !.pc = "check", !.slot = head]
    /\ UNCHANGED <<head, tail, headSeen, tailSeen, buffer, producer, popped>>

\* current_head == tail_: pop returns false.
FindEmpty ==
    /\ consumer.pc = "check" /\ consumer.slot = tailSeen
    /\ consumer' = [consumer EXCEPT !.pc = "idle"]
    /\ UNCHANGED <<head, tail, headSeen, tailSeen, buffer, producer, popped>>

FindItemEarly ==                        \* mutant: the slot is released before it is read
    /\ consumer.pc = "check" /\ consumer.slot # tailSeen
    /\ consumer' = [consumer EXCEPT !.pc = "read"]
    /\ head' = Succ(consumer.slot)
    /\ UNCHANGED <<tail, headSeen, tailSeen, buffer, producer, popped>>

FindItem ==
    /\ consumer.pc = "check" /\ consumer.slot # tailSeen
    /\ consumer' = [consumer EXCEPT !.pc = "read"]
    /\ UNCHANGED <<head, tail, headSeen, tailSeen, buffer, producer, popped>>

\* The copy out of the slot.
Read ==
    /\ consumer.pc = "read"
    /\ consumer' = [consumer EXCEPT !.pc = "release", !.item = buffer[consumer.slot]]
    /\ UNCHANGED <<head, tail, headSeen, tailSeen, buffer, producer, popped>>

ReleaseNothing ==                       \* mutant: the slot is never given back
    /\ consumer.pc = "release"
    /\ popped' = consumer.item
    /\ consumer' = [consumer EXCEPT !.pc = "idle"]
    /\ UNCHANGED <<head, tail, headSeen, tailSeen, buffer, producer>>

\* The store of head_; pop returns true.
Release ==
    /\ consumer.pc = "release"
    /\ head' = Succ(consumer.slot)
    /\ popped' = consumer.item
    /\ consumer' = [consumer EXCEPT !.pc = "idle"]
    /\ UNCHANGED <<tail, headSeen, tailSeen, buffer, producer>>

SeeTail == tailSeen' = tail /\ UNCHANGED <<head, tail, headSeen, buffer, producer, consumer, popped>>

-----------------------------------------------------------------------------
Push == (\E i \in Items : StartPush(i)) \/ Refuse \/ Admit \/ Write \/ Publish
Pop == StartPop \/ FindEmpty \/ FindItem \/ Read \/ Release

Next == Push \/ SeeHead \/ Pop \/ SeeTail

Spec == Init /\ [][Next]_vars

\* Both threads poll in a loop, and a store reaches the other thread in finite time.
FairSpec == Spec /\ WF_vars(Push) /\ WF_vars(Pop) /\ WF_vars(SeeHead) /\ WF_vars(SeeTail)

-----------------------------------------------------------------------------
(* Properties.                                                             *)

\* Every index stays in the buffer.
TypeOK ==
    /\ {head, tail, headSeen, tailSeen} \subseteq Slots
    /\ buffer \in [Slots -> Items \cup {None}]
    /\ producer \in [pc : {"idle", "check", "write", "publish"},
                     item : Items \cup {None}, slot : Slots]
    /\ consumer \in [pc : {"idle", "check", "read", "release"},
                     item : Items \cup {None}, slot : Slots]
    /\ popped \in Items \cup {None}

\* The two copies, which are not atomic, never touch one slot at one time: this is
\* what the full test is for, with the one slot it leaves unused.
NoRace == producer.pc = "write" /\ consumer.pc = "read" => producer.slot # consumer.slot

\* How many slots lie from slot h up to slot t.
Dist(h, t) == IF h <= t THEN t - h ELSE t - h + Capacity
\* The slot k after slot h.
Plus(h, k) == IF h + k < Capacity THEN h + k ELSE h + k - Capacity

\* The queue the ring buffer holds.
Content == [k \in 1 .. Dist(head, tail) |-> buffer[Plus(head, k - 1)]]

\* The ring buffer is a FIFO queue of Capacity - 1 places: nothing is lost, handed
\* over twice, out of order or half written, and what was pushed is popped.
Fifo == INSTANCE BoundedFifo WITH queue <- Content, out <- popped, Bound <- Capacity - 1
KeepsPromise == Fifo!FairSpec

\* A producer that keeps trying gets on: full and empty are never confused, and
\* what a refused producer waits for happens.
KeepsAccepting == []<><<Publish>>_vars

=============================================================================
