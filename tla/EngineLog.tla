----------------------------- MODULE EngineLog -----------------------------
(***************************************************************************)
(* The engine process around its order books: dispatch appends every       *)
(* operation to the write-ahead log (engine/src/wal.cpp) and then applies  *)
(* it to the book of its market (engine/src/main.cpp); a start reads the   *)
(* log; a stop flushes it.  In between the process can die at any point.   *)
(*                                                                         *)
(* A book is the sequence of operations applied to it: module OrderBook    *)
(* says what they do.  The stream's buffer reaches the file at moments of  *)
(* the library's choosing, at any byte, so what a crash leaves of it is a  *)
(* number of whole frames and perhaps a part of the next one: a torn frame.*)
(* External: the NATS callback thread, one message at a time, which drain  *)
(* does not wait for; the file system, which keeps the order of appends.   *)
(***************************************************************************)
EXTENDS Integers, Sequences, FiniteSetsExt

CONSTANTS
    Orders, Markets,
    MarketOf,     \* the market of an order
    MaxBooks,     \* kBuckets of UuidBookMap
    MaxNumber,    \* the largest uint64_t
    MaxFrames,    \* bound: how many frames all runs of the process set out to append
    MaxStarts     \* bound: how often the process starts

ASSUME LogAssumption ==
    /\ Orders # {} /\ MarketOf \in [Orders -> Markets]
    /\ MaxBooks \in Nat /\ MaxFrames \in Nat /\ MaxStarts \in Nat
    /\ MaxNumber \in Nat /\ MaxFrames < MaxNumber

VARIABLES
    process,    \* where main is
    books,      \* the books, by market; those of the entries in use
    next,       \* next_sequence_
    buffer,     \* frames appended since the process started
    disk,       \* frames in the file when it started
    handler,    \* where dispatch is, and the message it is about
    starts,     \* how often the process started
    appended,   \* how many frames all runs of the process set out to append
    applied,    \* history: every operation some run applied to a book, in order
    mishap      \* history: the process died, or a frame was torn

vars == <<process, books, next, buffer, disk, handler, starts, appended, applied, mishap>>

Messages == [op : {"add", "cancel"}, order : Orders]
Frames == [sequence : 0 .. MaxNumber, msg : Messages, whole : BOOLEAN]
Market(msg) == MarketOf[msg.order]
Idle == [pc |-> "idle", msg |-> [op |-> "add", order |-> CHOOSE o \in Orders : TRUE]]
NoBooks == [m \in {} |-> <<>>]
At(pc) == handler.pc = pc
HasBook(m) == m \in DOMAIN books
Book(m) == IF HasBook(m) THEN books[m] ELSE <<>>

-----------------------------------------------------------------------------
Init ==
    /\ process = "down" /\ books = NoBooks /\ next = 1
    /\ buffer = <<>> /\ disk = <<>> /\ handler = Idle
    /\ starts = 0 /\ appended = 0 /\ applied = <<>> /\ mishap = FALSE

-----------------------------------------------------------------------------
(* Starting.                                                               *)

\* Engine's constructor: no books, and Wal opens the file to append to it.
Open ==
    /\ process = "down" /\ starts < MaxStarts
    /\ process' = "open" /\ starts' = starts + 1
    /\ books' = NoBooks /\ next' = 1
    /\ UNCHANGED <<buffer, disk, handler, appended, applied, mishap>>

\* The frames recover reads as they were written: those before the first torn one.
Torn(frames) == {i \in DOMAIN frames : ~frames[i].whole}
Intact(frames) == SubSeq(frames, 1, Min(Torn(frames) \cup {Len(frames) + 1}) - 1)

\* Bytes after a torn frame are read at the wrong offsets.
Garbled(frames) == \E i \in Torn(frames) : i < Len(frames)

Incremented(n) == (n + 1) % (MaxNumber + 1)

StartOver(last) == 1                   \* mutant: recover leaves next_sequence_ alone

\* next_sequence_ = last_sequence_ + 1.
NextNumber(last) == Incremented(last)

\* recover, and subscribe; of the records, main takes the count only.  What the
\* sequence of a record read at a wrong offset is, and whether there is one, is
\* anyone's guess.
Recover ==
    /\ process = "open"
    /\ \E G \in SUBSET (0 .. MaxNumber) :
          /\ Cardinality(G) <= IF Garbled(disk) THEN 1 ELSE 0
          /\ next' = NextNumber(Max({0} \cup G \cup {f.sequence : f \in Range(Intact(disk))}))
    /\ process' = "ready"
    /\ UNCHANGED <<books, buffer, disk, handler, starts, appended, applied, mishap>>

-----------------------------------------------------------------------------
(* dispatch.                                                               *)

\* A message arrives; a cancel in a market without a book does nothing.
Dispatch(msg) ==
    /\ process \in {"ready", "draining"} /\ At("idle") /\ appended < MaxFrames
    /\ msg.op = "cancel" => HasBook(Market(msg))
    /\ handler' = [pc |-> "append", msg |-> msg] /\ appended' = appended + 1
    /\ UNCHANGED <<process, books, next, buffer, disk, starts, applied, mishap>>

Frame(msg) == [sequence |-> next, msg |-> msg, whole |-> TRUE]

AddFrames(msg) == IF msg.op = "add" THEN <<Frame(msg)>> ELSE <<>>
                                       \* mutant: cancels are not logged

\* What append writes for a message.
LoggedFrames(msg) == <<Frame(msg)>>

AppendFrame ==
    /\ At("append")
    /\ buffer' = buffer \o LoggedFrames(handler.msg)
    /\ next' = Incremented(next)
    /\ handler' = [handler EXCEPT !.pc = "apply"]
    /\ UNCHANGED <<process, books, disk, starts, appended, applied, mishap>>

AlwaysRoom(m) == TRUE                  \* mutant: insert does not look for a free entry

\* find, or a free entry for insert.
HasRoom(m) == HasBook(m) \/ Cardinality(DOMAIN books) < MaxBooks

\* get_or_create, and the operation itself.
Apply ==
    LET msg == handler.msg
        m == Market(msg)
    IN /\ At("apply") /\ HasRoom(m)
       /\ books' = [n \in DOMAIN books \cup {m} |-> IF n = m THEN Append(Book(m), msg) ELSE books[n]]
       /\ applied' = Append(applied, msg)
       /\ handler' = Idle
       /\ UNCHANGED <<process, next, buffer, disk, starts, appended, mishap>>

-----------------------------------------------------------------------------
(* Stopping and dying.                                                     *)

\* SIGTERM: the main loop ends, and drain begins.
Drain ==
    /\ process = "ready" /\ process' = "draining"
    /\ UNCHANGED <<books, next, buffer, disk, handler, starts, appended, applied, mishap>>

\* The first k frames, and if tear a part of the next one.
Leave(frames, k, tear) ==
    SubSeq(frames, 1, k) \o IF tear THEN <<[frames[k + 1] EXCEPT !.whole = FALSE]>> ELSE <<>>

Gone(file, ill) ==
    /\ process' = "down" /\ handler' = Idle /\ books' = NoBooks
    /\ buffer' = <<>> /\ disk' = file /\ mishap' = (mishap \/ ill)
    /\ UNCHANGED <<next, starts, appended, applied>>

Unflushed == disk                      \* mutant: ~Wal forgets to flush

\* ~Wal flushes.
Flushed == disk \o buffer

\* main returns and ~Engine destroys books and log, without waiting for dispatch:
\* a frame it is about to append may miss the file, reach it or be cut.
Destroy ==
    /\ process = "draining"
    /\ \/ Gone(Flushed, FALSE)
       \/ At("append") /\ Gone(Append(Flushed, Frame(handler.msg)), FALSE)
       \/ At("append") /\ Gone(Append(Flushed, [Frame(handler.msg) EXCEPT !.whole = FALSE]), TRUE)

\* The process dies: the file keeps what reached it.
Crash ==
    /\ process # "down"
    /\ \E k \in 0 .. Len(buffer), tear \in BOOLEAN :
          /\ tear => k < Len(buffer)
          /\ Gone(disk \o Leave(buffer, k, tear), TRUE)

\* The machine dies: nothing ever called fsync, so no frame is safe.
PowerLoss ==
    \E k \in 0 .. Len(disk \o buffer), tear \in BOOLEAN :
        /\ tear => k < Len(disk \o buffer)
        /\ Gone(Leave(disk \o buffer, k, tear), TRUE)

\* insert returned nullptr, and get_or_create dereferences it.
ExhaustBooks == At("apply") /\ ~HasRoom(Market(handler.msg)) /\ Crash

\* A record read at a wrong offset has a length that cannot be allocated, and
\* nothing catches the exception.
RecoverThrows == process = "open" /\ Garbled(disk) /\ Crash

-----------------------------------------------------------------------------
Next ==
    \/ Open \/ Recover \/ RecoverThrows
    \/ \E msg \in Messages : Dispatch(msg)
    \/ AppendFrame \/ Apply \/ ExhaustBooks
    \/ Drain \/ Destroy \/ Crash \/ PowerLoss

Spec == Init /\ [][Next]_vars

-----------------------------------------------------------------------------
(* Properties.                                                             *)

\* Every variable keeps its type; a market's book always has an entry of its own.
TypeOK ==
    /\ process \in {"down", "open", "ready", "draining"}
    /\ DOMAIN books \subseteq Markets /\ Cardinality(DOMAIN books) <= MaxBooks
    /\ \A m \in DOMAIN books : books[m] \in Seq(Messages)
    /\ next \in 0 .. MaxNumber
    /\ buffer \in Seq(Frames) /\ disk \in Seq(Frames)
    /\ handler \in [pc : {"idle", "append", "apply"}, msg : Messages]
    /\ starts \in 0 .. MaxStarts /\ appended \in 0 .. MaxFrames
    /\ applied \in Seq(Messages) /\ mishap \in BOOLEAN

\* Through any history of crashes, losses and restarts, the frames of the log up
\* to the first torn one are numbered 1, 2, 3, ... without a gap or a repetition.
Numbered ==
    LET log == Intact(disk \o buffer)
    IN \A i \in DOMAIN log : log[i].sequence = i

\* How many of the first n frames of a log are of market m.
Rank(log, n, m) == Cardinality({i \in 1 .. n : Market(log[i].msg) = m})

\* The operations of market m in the log, all of them and in their order.
Follows(operations, log, m) ==
    /\ Len(operations) = Rank(log, Len(log), m)
    /\ \A i \in DOMAIN log :
          Market(log[i].msg) = m => operations[Rank(log, i, m)] = log[i].msg

\* What dispatch has logged for market m and not yet applied.
Pending(m) == IF At("apply") /\ Market(handler.msg) = m THEN <<handler.msg>> ELSE <<>>

\* The log is ahead of the books by the operation under way at most, and each
\* book went through its market's operations in the order of the log.
WriteAhead ==
    process \in {"ready", "draining"} =>
        \A m \in Markets : Follows(Book(m) \o Pending(m), buffer, m)

\* s is t with some of its elements left out.
Embeds(s, t) ==
    \E at \in [DOMAIN s -> DOMAIN t] :
        \A i, j \in DOMAIN s : (i < j => at[i] < at[j]) /\ s[i] = t[at[i]]

\* A process that only ever stopped loses nothing: what any run of it applied is
\* in the log, in order, and recover reads it.
StopsLoseNothing ==
    ~mishap => Embeds(applied, [i \in DOMAIN Intact(disk \o buffer) |-> (disk \o buffer)[i].msg])

\* What the README says of a start: the books are what the log makes of them when
\* the engine begins to take messages.
BooksRebuilt ==
    [][Recover => \A m \in Markets : Follows(Book(m)', Intact(disk), m)]_vars

=============================================================================
