-------------------------- MODULE EngineLogProofs ---------------------------
(***************************************************************************)
(* Proofs about EngineLog, for any orders, markets and numbers of frames,  *)
(* starts and books:                                                       *)
(*   LogTyped, NumbersHaveNoGaps, LogAhead, StopsKeepAll.                  *)
(*                                                                         *)
(* The inductive invariant is Sound and Kept. Behind whole frames only, a  *)
(* frame has its place in the log as its number, and a process that takes  *)
(* messages will give the next one its place (Sequential); that a torn     *)
(* frame ends what is readable is what lets a garbled log go on with any   *)
(* number. Frames are counted from the moment dispatch sets out to append  *)
(* one (Counted), so that numbers do not wrap. Kept is StopsLoseNothing of *)
(* the frames before the one under way. WriteAhead is inductive with       *)
(* Sound.                                                                  *)
(***************************************************************************)
EXTENDS EngineLog, SequenceTheorems, SumTheorems

\* A set of naturals that has an element has a least one, which is Min.
LEMMA LeastIsMin ==
  ASSUME NEW S, S \subseteq Nat, S # {}
  PROVE  Min(S) \in S /\ \A y \in S : Min(S) <= y
<1>1. \E x \in S : \A y \in S : x <= y
  BY LeastNumber
<1> QED BY <1>1 DEF Min

\* A set of naturals below a bound has a greatest element if it has any.
LEMMA GreatestNumber ==
  ASSUME NEW S, NEW n \in Nat, S \subseteq 0 .. n, S # {}
  PROVE  Max(S) \in S /\ \A y \in S : Max(S) >= y
<1> DEFINE R == {k \in 0 .. n : n - k \in S}
<1>1. \A x \in S : n - x \in R
  OBVIOUS
<1>2. PICK w \in S : TRUE
  OBVIOUS
<1>2a. n - w \in R
  BY <1>1
<1>2b. R \subseteq Nat
  OBVIOUS
<1>3. Min(R) \in R /\ \A y \in R : Min(R) <= y
  <2> HIDE DEF R
  <2> QED BY <1>2a, <1>2b, LeastIsMin
<1>4. Min(R) \in 0 .. n /\ n - Min(R) \in S
  BY <1>3
<1>5. \A y \in S : n - Min(R) >= y
  <2> TAKE y \in S
  <2>1. Min(R) <= n - y
    BY <1>1, <1>3
  <2> QED BY <2>1, <1>4
<1> HIDE DEF R
<1>6. \E z \in S : \A y \in S : z >= y
  BY <1>4, <1>5
<1> QED BY <1>6 DEF Max

\* The frames recover reads are the longest prefix of whole ones.
LEMMA IntactIsPrefix ==
  ASSUME NEW F \in Seq(Frames)
  PROVE  \E n \in 0 .. Len(F) :
            /\ Intact(F) = SubSeq(F, 1, n)
            /\ \A i \in 1 .. n : F[i].whole
            /\ n < Len(F) => ~F[n + 1].whole
<1> DEFINE S == Torn(F) \cup {Len(F) + 1}
<1>1. S \subseteq 1 .. Len(F) + 1 /\ S # {} /\ S \subseteq Nat
  BY DEF Torn
<1>2. \A i \in 1 .. Len(F) : i \in S <=> ~F[i].whole
  BY DEF Torn
<1>3. Len(F) + 1 \in S /\ Intact(F) = SubSeq(F, 1, Min(S) - 1)
  BY DEF Intact
<1> HIDE DEF S
<1>4. Min(S) \in S /\ \A y \in S : Min(S) <= y
  BY <1>1, LeastIsMin
<1>5. Min(S) \in 1 .. Len(F) + 1
  BY <1>1, <1>4
<1>6. \A i \in 1 .. Min(S) - 1 : F[i].whole
  BY <1>2, <1>4, <1>5
<1>7. Min(S) - 1 < Len(F) => ~F[Min(S) - 1 + 1].whole
  BY <1>2, <1>4, <1>5
<1> DEFINE n == Min(S) - 1
<1>8. n \in 0 .. Len(F) /\ Intact(F) = SubSeq(F, 1, n)
  BY <1>3, <1>5
<1>9. (\A i \in 1 .. n : F[i].whole) /\ (n < Len(F) => ~F[n + 1].whole)
  BY <1>6, <1>7
<1> HIDE DEF n
<1> QED BY <1>8, <1>9

\* A log without a torn frame is read whole.
LEMMA IntactIsAll ==
  ASSUME NEW F \in Seq(Frames), \A i \in DOMAIN F : F[i].whole
  PROVE  Intact(F) = F
<1>1. PICK n \in 0 .. Len(F) : Intact(F) = SubSeq(F, 1, n) /\ (n < Len(F) => ~F[n + 1].whole)
  BY IntactIsPrefix
<1>2. n = Len(F)
  BY <1>1
<1> QED BY <1>1, <1>2, SubSeqFull

-----------------------------------------------------------------------------
(* How many frames of a market a log has.                                  *)

\* A rank counts to n at most.
LEMMA RankType ==
  ASSUME NEW log, NEW n \in Nat, NEW m
  PROVE  Rank(log, n, m) \in 0 .. n
<1> DEFINE C == {i \in 1 .. n : Market(log[i].msg) = m}
<1>1. IsFiniteSet(1 .. n) /\ Cardinality(1 .. n) = n /\ C \in SUBSET (1 .. n)
  BY FS_Interval
<1> HIDE DEF C
<1>2. Cardinality(C) \in Nat /\ Cardinality(C) <= n
  BY <1>1, FS_Subset, FS_CardinalityType
<1> QED BY <1>2 DEF Rank, C

\* The next frame is counted if it is of the market.
LEMMA RankNext ==
  ASSUME NEW log, NEW n \in Nat, NEW m
  PROVE  Rank(log, n + 1, m) =
            Rank(log, n, m) + (IF Market(log[n + 1].msg) = m THEN 1 ELSE 0)
<1> DEFINE C(k) == {i \in 1 .. k : Market(log[i].msg) = m}
<1>1. IsFiniteSet(1 .. n) /\ C(n) \in SUBSET (1 .. n) /\ n + 1 \notin C(n)
  BY FS_Interval
<1>2. C(n + 1) = IF Market(log[n + 1].msg) = m THEN C(n) \cup {n + 1} ELSE C(n)
  OBVIOUS
<1> HIDE DEF C
<1>3. IsFiniteSet(C(n)) /\ Cardinality(C(n)) \in Nat
  BY <1>1, FS_Subset, FS_CardinalityType
<1>4. Cardinality(C(n) \cup {n + 1}) = Cardinality(C(n)) + 1
  BY <1>1, <1>3, FS_AddElement
<1>5. Rank(log, n, m) = Cardinality(C(n)) /\ Rank(log, n + 1, m) = Cardinality(C(n + 1))
  BY DEF Rank, C
<1> QED BY <1>2, <1>3, <1>4, <1>5

\* A longer part of the log has no fewer frames of the market.
LEMMA RankMonotone ==
  ASSUME NEW log, NEW n \in Nat, NEW k \in Nat, n <= k, NEW m
  PROVE  Rank(log, n, m) <= Rank(log, k, m)
<1> DEFINE C(j) == {i \in 1 .. j : Market(log[i].msg) = m}
<1>1. IsFiniteSet(1 .. k) /\ C(k) \in SUBSET (1 .. k) /\ C(n) \in SUBSET C(k)
  BY FS_Interval
<1> HIDE DEF C
<1>2. IsFiniteSet(C(k))
  BY <1>1, FS_Subset
<1>3. Cardinality(C(n)) <= Cardinality(C(k))
  BY <1>1, <1>2, FS_Subset
<1> QED BY <1>3 DEF Rank, C

\* The frames after the first n do not matter to a rank up to n.
LEMMA RankSame ==
  ASSUME NEW log, NEW other, NEW n \in Nat, NEW m,
         \A i \in 1 .. n : log[i] = other[i]
  PROVE  Rank(log, n, m) = Rank(other, n, m)
<1>1. {i \in 1 .. n : Market(log[i].msg) = m} = {i \in 1 .. n : Market(other[i].msg) = m}
  OBVIOUS
<1> QED BY <1>1 DEF Rank

-----------------------------------------------------------------------------
(* The inductive invariant.                                                *)

\* The file as it would be if the process stopped now.
Log == disk \o buffer

\* Every frame up to the n-th is whole.
WholeTo(log, n) == \A j \in 1 .. n : log[j].whole

\* A process that takes no messages has neither books nor a buffer.
Quiet ==
    process \notin {"ready", "draining"} =>
        DOMAIN books = {} /\ buffer = <<>> /\ handler.pc = "idle"

\* The frames of the log are counted, and what append sets out to write is too.
Counted ==
    Len(disk) + Len(buffer) + (IF At("append") THEN 1 ELSE 0) <= appended

\* Behind whole frames only, a frame carries its place as its number, and
\* the next one will.
Sequential ==
    /\ \A i \in 1 .. Len(Log) : WholeTo(Log, i) => Log[i].sequence = i
    /\ process \in {"ready", "draining"} /\ WholeTo(Log, Len(Log)) => next = Len(Log) + 1

\* Only a death tears a frame, and never one that is still in the buffer.
Unbroken ==
    /\ WholeTo(buffer, Len(buffer))
    /\ ~mishap => WholeTo(disk, Len(disk))

\* The frame of the operation under way is the last one of the buffer.
LastLogged ==
    At("apply") => buffer # <<>> /\ buffer[Len(buffer)].msg = handler.msg

\* How many frames of the log have been applied, by a process that only stopped.
Done == Len(Log) - (IF At("apply") THEN 1 ELSE 0)

\* What was applied is, in order, among the first n messages of the log.
AppliedWithin(ops, log, n) ==
    \E at \in [DOMAIN ops -> 1 .. n] :
        \A i, j \in DOMAIN ops : (i < j => at[i] < at[j]) /\ ops[i] = log[at[i]].msg

\* A process that only stopped has in its log all that was applied.
Kept == ~mishap => AppliedWithin(applied, Log, Done)

\* The inductive invariant but Kept.
Sound ==
    /\ TypeOK /\ IsFiniteSet(DOMAIN books)
    /\ Quiet /\ Counted /\ Sequential /\ Unbroken /\ LastLogged

\* The file and its buffer are one sequence of frames.
LEMMA LogType ==
  ASSUME TypeOK
  PROVE  /\ Log \in Seq(Frames) /\ Len(Log) = Len(disk) + Len(buffer)
         /\ \A i \in 1 .. Len(Log) :
               Log[i] = IF i <= Len(disk) THEN disk[i] ELSE buffer[i - Len(disk)]
         /\ \A i \in 1 .. Len(Log) : Log[i] \in Frames
  BY ConcatProperties DEF TypeOK, Log

\* The message of an idle handler is one of the messages.
LEMMA IdleType == Idle \in [pc : {"idle", "append", "apply"}, msg : Messages] /\ Idle.pc = "idle"
  BY LogAssumption DEF Idle, Messages

\* What append writes.
LEMMA FrameType ==
  ASSUME TypeOK, NEW msg \in Messages
  PROVE  Frame(msg) \in Frames /\ Frame(msg).msg = msg /\ Frame(msg).sequence = next /\ Frame(msg).whole
  BY DEF TypeOK, Frame, Frames

\* A frame that is cut in two stays a frame.
LEMMA TearType ==
  ASSUME NEW f \in Frames
  PROVE  /\ [f EXCEPT !.whole = FALSE] \in Frames
         /\ ~[f EXCEPT !.whole = FALSE].whole
         /\ [f EXCEPT !.whole = FALSE].msg = f.msg
  BY DEF Frames

\* Numbers wrap at the largest one only.
LEMMA IncrementedType ==
  ASSUME NEW n \in Nat
  PROVE  Incremented(n) \in 0 .. MaxNumber /\ (n < MaxNumber => Incremented(n) = n + 1)
  BY LogAssumption DEF Incremented

\* An engine that never started has lost nothing.
LEMMA SoundInit == Init => Sound /\ Kept
<1> SUFFICES ASSUME Init PROVE Sound /\ Kept
  OBVIOUS
<1>1. DOMAIN books = {} /\ IsFiniteSet(DOMAIN books) /\ Cardinality(DOMAIN books) = 0
  BY FS_EmptySet DEF Init, NoBooks
<1>2. TypeOK
  <2>1. handler \in [pc : {"idle", "append", "apply"}, msg : Messages]
    BY IdleType DEF Init
  <2>2. 1 \in 0 .. MaxNumber /\ 0 \in 0 .. MaxStarts /\ 0 \in 0 .. MaxFrames /\ 0 <= MaxBooks
    BY LogAssumption
  <2>3. <<>> \in Seq(Frames) /\ <<>> \in Seq(Messages)
    BY EmptySeq
  <2> QED BY <1>1, <2>1, <2>2, <2>3 DEF Init, TypeOK
<1>3. Log = <<>> /\ Len(Log) = 0
  BY DEF Init, Log
<1>4. Quiet /\ Counted /\ Unbroken /\ LastLogged
  BY <1>1, IdleType DEF Init, Quiet, Counted, Unbroken, LastLogged, At, WholeTo
<1>5. Sequential
  BY <1>3 DEF Init, Sequential, WholeTo
<1>6. Kept
  <2>1. DOMAIN applied = {}
    BY DEF Init
  <2>2. [i \in {} |-> 1] \in [DOMAIN applied -> 1 .. Done]
    BY <2>1
  <2> QED BY <2>1, <2>2 DEF Kept, AppliedWithin
<1> QED BY <1>1, <1>2, <1>4, <1>5, <1>6 DEF Sound

-----------------------------------------------------------------------------
(* The process ends.                                                       *)

\* What a death leaves of a log: its first frames, the last of them perhaps torn.
CutOf(file, log) ==
    /\ file \in Seq(Frames) /\ Len(file) <= Len(log)
    /\ \A i \in 1 .. Len(file) : file[i] = log[i] \/ (i = Len(file) /\ ~file[i].whole)

\* What a death leaves is a cut of what there was.
LEMMA LeaveCuts ==
  ASSUME NEW F \in Seq(Frames), NEW k \in 0 .. Len(F), NEW tear \in BOOLEAN,
         tear => k < Len(F)
  PROVE  CutOf(Leave(F, k, tear), F)
<1> DEFINE s == SubSeq(F, 1, k)
<1>1. s \in Seq(Frames) /\ Len(s) = k /\ \A i \in 1 .. k : s[i] = F[i]
  <2>1. \A i \in 1 .. k : F[i] \in Frames
    OBVIOUS
  <2> QED BY <2>1, SubSeqProperties
<1> HIDE DEF s
<1>2. CASE ~tear
  <2>1. Leave(F, k, tear) = s
    BY <1>1, <1>2, ConcatEmptySeq DEF Leave, s
  <2> QED BY <1>1, <2>1 DEF CutOf
<1>3. CASE tear
  <2> DEFINE f == [F[k + 1] EXCEPT !.whole = FALSE]
             t == <<f>>
  <2>1. f \in Frames /\ ~f.whole
    <3>1. F[k + 1] \in Frames
      BY <1>3
    <3> QED BY <3>1, TearType
  <2>2. Leave(F, k, tear) = s \o t
    BY <1>3 DEF Leave, s
  <2> HIDE DEF f
  <2>3. t \in Seq(Frames) /\ Len(t) = 1 /\ t[1] = f
    BY <2>1
  <2> HIDE DEF t
  <2>4. /\ s \o t \in Seq(Frames) /\ Len(s \o t) = k + 1
        /\ \A i \in 1 .. k + 1 : (s \o t)[i] = IF i <= k THEN F[i] ELSE f
    <3>1. /\ s \o t \in Seq(Frames) /\ Len(s \o t) = Len(s) + Len(t)
          /\ \A i \in 1 .. Len(s) + Len(t) :
                (s \o t)[i] = IF i <= Len(s) THEN s[i] ELSE t[i - Len(s)]
      BY <1>1, <2>3, ConcatProperties
    <3>2. \A i \in 1 .. k + 1 : (i <= k => i \in 1 .. k) /\ (~(i <= k) => i - k = 1)
      OBVIOUS
    <3> QED BY <1>1, <2>3, <3>1, <3>2
  <2>5. k + 1 <= Len(F)
    BY <1>3
  <2> QED BY <2>1, <2>2, <2>4, <2>5 DEF CutOf
<1> QED BY <1>2, <1>3

\* A crash cuts the buffer only, and so the log.
LEMMA CutBuffer ==
  ASSUME TypeOK, NEW file \in Seq(Frames), CutOf(file, buffer)
  PROVE  CutOf(disk \o file, Log)
<1>1. disk \in Seq(Frames) /\ buffer \in Seq(Frames)
  BY DEF TypeOK
<1>2. /\ disk \o file \in Seq(Frames) /\ Len(disk \o file) = Len(disk) + Len(file)
      /\ \A i \in 1 .. Len(disk) + Len(file) :
            (disk \o file)[i] = IF i <= Len(disk) THEN disk[i] ELSE file[i - Len(disk)]
  BY <1>1, ConcatProperties
<1>3. \A i \in 1 .. Len(disk) + Len(file) :
         (disk \o file)[i] = Log[i] \/ (i = Len(disk) + Len(file) /\ ~(disk \o file)[i].whole)
  <2> TAKE i \in 1 .. Len(disk) + Len(file)
  <2>1. CASE i <= Len(disk)
    BY <1>1, <1>2, <2>1, LogType
  <2>2. CASE i > Len(disk)
    <3>1. i - Len(disk) \in 1 .. Len(file) /\ i - Len(disk) <= Len(buffer)
      BY <1>1, <2>2 DEF CutOf
    <3>2. (disk \o file)[i] = file[i - Len(disk)]
      BY <1>1, <1>2, <2>2
    <3>3. i \in 1 .. Len(Log) /\ ~(i <= Len(disk))
      BY <1>1, <2>2, <3>1, LogType
    <3>4. Log[i] = buffer[i - Len(disk)]
      BY <3>3, LogType
    <3> QED BY <1>1, <3>1, <3>2, <3>4 DEF CutOf
  <2> QED BY <1>1, <2>1, <2>2
<1> QED BY <1>1, <1>2, <1>3, LogType DEF CutOf

\* A cut log is numbered as the log was.
LEMMA CutNumbered ==
  ASSUME TypeOK, Sequential, NEW file, CutOf(file, Log)
  PROVE  \A i \in 1 .. Len(file) : WholeTo(file, i) => file[i].sequence = i
<1> SUFFICES ASSUME NEW i \in 1 .. Len(file), WholeTo(file, i)
             PROVE  file[i].sequence = i
  OBVIOUS
<1>1. \A j \in 1 .. i : file[j] = Log[j]
  BY LogType DEF CutOf, WholeTo
<1>2. i \in 1 .. Len(Log) /\ WholeTo(Log, i)
  BY <1>1, LogType DEF CutOf, WholeTo
<1> QED BY <1>1, <1>2 DEF Sequential

\* The process ends and leaves a file: all that matters is the file.
LEMMA GoneSound ==
  ASSUME Sound, Kept, NEW file \in Seq(Frames), NEW ill \in BOOLEAN, Gone(file, ill),
         Len(file) <= appended,
         \A i \in 1 .. Len(file) : WholeTo(file, i) => file[i].sequence = i,
         ~ill /\ ~mishap => WholeTo(file, Len(file)) /\ AppliedWithin(applied, file, Len(file))
  PROVE  Sound' /\ Kept'
<1>1. /\ process' = "down" /\ handler' = Idle /\ DOMAIN books' = {} /\ buffer' = <<>>
      /\ disk' = file /\ next' = next /\ starts' = starts /\ appended' = appended /\ applied' = applied
  BY DEF Gone, NoBooks
<1>2. mishap' \in BOOLEAN /\ (~mishap' => ~ill /\ ~mishap)
  BY DEF Gone, Sound, TypeOK
<1>3. Cardinality(DOMAIN books') = 0 /\ IsFiniteSet(DOMAIN books')
  BY <1>1, FS_EmptySet
<1>4. TypeOK'
  <2>1. handler' \in [pc : {"idle", "append", "apply"}, msg : Messages]
    BY <1>1, IdleType
  <2>2. 0 <= MaxBooks
    BY LogAssumption
  <2>3. buffer' \in Seq(Frames) /\ disk' \in Seq(Frames)
    BY <1>1, EmptySeq
  <2> QED BY <1>1, <1>2, <1>3, <2>1, <2>2, <2>3 DEF Sound, TypeOK
<1>5. Log' = file
  BY <1>1, ConcatEmptySeq DEF Log
<1>6. handler'.pc = "idle"
  BY <1>1, IdleType
<1>7. Quiet' /\ LastLogged'
  BY <1>1, <1>6 DEF Quiet, LastLogged, At
<1>8. Counted'
  BY <1>1, <1>6 DEF Counted, At
<1>9. Sequential'
  BY <1>1, <1>5 DEF Sequential
<1>10. Unbroken'
  BY <1>1, <1>2 DEF Unbroken, WholeTo
<1>11. Done' = Len(file)
  BY <1>5, <1>6 DEF Done, At
<1>12. Kept'
  BY <1>1, <1>2, <1>5, <1>11 DEF Kept
<1> QED BY <1>3, <1>4, <1>7, <1>8, <1>9, <1>10, <1>12 DEF Sound

\* A crash leaves the file and a part of the buffer.
LEMMA CrashSound == ASSUME Sound, Kept, Crash PROVE Sound' /\ Kept'
<1>1. PICK k \in 0 .. Len(buffer), tear \in BOOLEAN :
         /\ tear => k < Len(buffer)
         /\ Gone(disk \o Leave(buffer, k, tear), TRUE)
  BY DEF Crash
<1> DEFINE file == disk \o Leave(buffer, k, tear)
<1>2. buffer \in Seq(Frames) /\ Log \in Seq(Frames)
  BY LogType DEF Sound, TypeOK
<1>3. CutOf(Leave(buffer, k, tear), buffer)
  BY <1>1, <1>2, LeaveCuts
<1>4. CutOf(file, Log)
  BY <1>3, CutBuffer DEF Sound, CutOf
<1> HIDE DEF file
<1>5. file \in Seq(Frames) /\ Len(file) <= Len(Log)
  BY <1>4 DEF CutOf
<1>6. Len(file) <= appended
  <2>1. appended \in Nat /\ Len(disk) \in Nat /\ Len(buffer) \in Nat
    BY DEF Sound, TypeOK
  <2>2. Len(disk) + Len(buffer) <= appended
    BY <2>1 DEF Sound, Counted
  <2> QED BY <1>2, <1>5, <2>1, <2>2, LogType DEF Sound
<1>7. \A i \in 1 .. Len(file) : WholeTo(file, i) => file[i].sequence = i
  BY <1>4, CutNumbered DEF Sound
<1>8. Gone(file, TRUE)
  BY <1>1 DEF file
<1> QED BY <1>5, <1>6, <1>7, <1>8, GoneSound

\* A power failure leaves a part of the log.
LEMMA PowerLossSound == ASSUME Sound, Kept, PowerLoss PROVE Sound' /\ Kept'
<1>1. PICK k \in 0 .. Len(disk \o buffer), tear \in BOOLEAN :
         /\ tear => k < Len(disk \o buffer)
         /\ Gone(Leave(disk \o buffer, k, tear), TRUE)
  BY DEF PowerLoss
<1> DEFINE file == Leave(Log, k, tear)
<1>2. Log \in Seq(Frames) /\ Log = disk \o buffer
  BY LogType DEF Sound, Log
<1>3. CutOf(file, Log)
  BY <1>1, <1>2, LeaveCuts
<1>4. Gone(file, TRUE)
  BY <1>1, <1>2
<1> HIDE DEF file
<1>5. file \in Seq(Frames) /\ Len(file) <= Len(Log)
  BY <1>3 DEF CutOf
<1>6. Len(file) <= appended
  <2>1. appended \in Nat /\ Len(disk) \in Nat /\ Len(buffer) \in Nat
    BY DEF Sound, TypeOK
  <2>2. Len(disk) + Len(buffer) <= appended
    BY <2>1 DEF Sound, Counted
  <2> QED BY <1>2, <1>5, <2>1, <2>2, LogType DEF Sound
<1>7. \A i \in 1 .. Len(file) : WholeTo(file, i) => file[i].sequence = i
  BY <1>3, CutNumbered DEF Sound
<1> QED BY <1>4, <1>5, <1>6, <1>7, GoneSound

\* More of the log, or a longer one, still has what was applied.
LEMMA WithinMore ==
  ASSUME NEW ops, NEW log, NEW more, NEW n \in Int, NEW k \in Int, n <= k,
         \A i \in 1 .. n : log[i] = more[i],
         AppliedWithin(ops, log, n)
  PROVE  AppliedWithin(ops, more, k)
<1>1. PICK at \in [DOMAIN ops -> 1 .. n] :
         \A i, j \in DOMAIN ops : (i < j => at[i] < at[j]) /\ ops[i] = log[at[i]].msg
  BY DEF AppliedWithin
<1>2. at \in [DOMAIN ops -> 1 .. k]
  OBVIOUS
<1>3. \A i \in DOMAIN ops : log[at[i]] = more[at[i]]
  OBVIOUS
<1>4. \A i, j \in DOMAIN ops : (i < j => at[i] < at[j]) /\ ops[i] = more[at[i]].msg
  BY <1>1, <1>3
<1> QED BY <1>2, <1>4 DEF AppliedWithin

\* A frame joins the log.
LEMMA LogAppended ==
  ASSUME TypeOK, NEW f \in Frames
  PROVE  /\ Append(Log, f) \in Seq(Frames) /\ Len(Append(Log, f)) = Len(Log) + 1
         /\ \A i \in 1 .. Len(Log) : Append(Log, f)[i] = Log[i]
         /\ Append(Log, f)[Len(Log) + 1] = f
         /\ disk \o (buffer \o <<f>>) = Append(Log, f)
<1>1. disk \in Seq(Frames) /\ buffer \in Seq(Frames) /\ Log \in Seq(Frames)
  BY LogType DEF TypeOK
<1>2. <<f>> \in Seq(Frames)
  OBVIOUS
<1>3. disk \o (buffer \o <<f>>) = (disk \o buffer) \o <<f>>
  BY <1>1, <1>2, ConcatAssociative
<1>4. Append(Log, f) = Log \o <<f>>
  BY <1>1, AppendIsConcat
<1>5. disk \o (buffer \o <<f>>) = Append(Log, f)
  BY <1>3, <1>4 DEF Log
<1> HIDE DEF Log
<1> QED BY <1>1, <1>5, AppendProperties

\* While the process lives, Log is numbered to its end or a frame of it is torn.
LEMMA NextPlace ==
  ASSUME Sound, At("append"), WholeTo(Log, Len(Log))
  PROVE  next = Len(Log) + 1 /\ Len(Log) + 1 <= appended /\ appended < MaxNumber
<1>1. process \in {"ready", "draining"}
  BY DEF Sound, Quiet, At
<1>2. Len(disk) + Len(buffer) + 1 <= appended
  BY DEF Sound, Counted
<1>3. appended \in 0 .. MaxFrames
  BY DEF Sound, TypeOK
<1> QED BY <1>1, <1>2, <1>3, LogType, LogAssumption DEF Sound, Sequential

\* While the process only ever stopped, the log is whole and has all that was applied.
LEMMA KeptWhole ==
  ASSUME Sound, Kept, ~mishap
  PROVE  WholeTo(Log, Len(Log)) /\ AppliedWithin(applied, Log, Len(Log))
<1>0. TypeOK /\ Len(Log) \in Nat /\ Len(Log) = Len(disk) + Len(buffer)
  BY LogType DEF Sound, TypeOK
<1>1. WholeTo(disk, Len(disk)) /\ WholeTo(buffer, Len(buffer))
  BY DEF Sound, Unbroken
<1>2. WholeTo(Log, Len(Log))
  <2> SUFFICES ASSUME NEW i \in 1 .. Len(Log) PROVE Log[i].whole
    BY DEF WholeTo
  <2>1. Log[i] = IF i <= Len(disk) THEN disk[i] ELSE buffer[i - Len(disk)]
    BY <1>0, LogType
  <2>2. Len(disk) \in Nat /\ Len(buffer) \in Nat
    BY <1>0 DEF TypeOK
  <2>3. CASE i <= Len(disk)
    BY <1>1, <2>1, <2>2, <2>3 DEF WholeTo
  <2>4. CASE ~(i <= Len(disk))
    <3>1. i - Len(disk) \in 1 .. Len(buffer)
      BY <1>0, <2>2, <2>4
    <3> QED BY <1>1, <2>1, <2>4, <3>1 DEF WholeTo
  <2> QED BY <2>3, <2>4
<1>3. AppliedWithin(applied, Log, Done) /\ Done \in Int /\ Done <= Len(Log)
  BY <1>0 DEF Kept, Done
<1>4. AppliedWithin(applied, Log, Len(Log))
  BY <1>0, <1>3, WithinMore
<1> QED BY <1>2, <1>4

\* What a stop leaves is the log, and what append was about to write.
LEMMA DestroySound == ASSUME Sound, Kept, Destroy PROVE Sound' /\ Kept'
<1>1. /\ Log \in Seq(Frames) /\ Len(Log) \in Nat /\ Len(Log) = Len(disk) + Len(buffer)
      /\ Flushed = Log /\ TypeOK /\ appended \in Nat /\ handler.msg \in Messages
  BY LogType DEF Sound, TypeOK, Flushed, Log
<1>2. Len(Log) + (IF At("append") THEN 1 ELSE 0) <= appended
  BY <1>1 DEF Sound, Counted
<1>3. ~mishap => WholeTo(Log, Len(Log)) /\ AppliedWithin(applied, Log, Len(Log))
  BY KeptWhole
<1>4. CASE Gone(Flushed, FALSE)
  <2>1. Gone(Log, FALSE)
    BY <1>1, <1>4
  <2>1a. Len(Log) <= appended
    BY <1>1, <1>2
  <2>2. \A i \in 1 .. Len(Log) : WholeTo(Log, i) => Log[i].sequence = i
    BY DEF Sound, Sequential
  <2> QED BY <1>1, <1>3, <2>1, <2>1a, <2>2, GoneSound
<1>5. ASSUME At("append"), NEW f \in Frames, f.whole => f = Frame(handler.msg),
             NEW ill \in BOOLEAN, ~ill => f.whole, Gone(Append(Flushed, f), ill)
      PROVE  Sound' /\ Kept'
  <2> DEFINE file == Append(Log, f)
  <2>1. /\ file \in Seq(Frames) /\ Len(file) = Len(Log) + 1
        /\ \A i \in 1 .. Len(Log) : file[i] = Log[i]
        /\ file[Len(Log) + 1] = f
    BY <1>1, LogAppended
  <2>2. Gone(file, ill)
    BY <1>1, <1>5
  <2> HIDE DEF file
  <2>3. Len(file) <= appended
    BY <1>1, <1>2, <1>5, <2>1
  <2>4. \A i \in 1 .. Len(file) : WholeTo(file, i) => file[i].sequence = i
    <3> SUFFICES ASSUME NEW i \in 1 .. Len(file), WholeTo(file, i)
                 PROVE  file[i].sequence = i
      OBVIOUS
    <3>1. CASE i <= Len(Log)
      <4>1. i \in 1 .. Len(Log) /\ WholeTo(Log, i) /\ file[i] = Log[i]
        BY <1>1, <2>1, <3>1 DEF WholeTo
      <4> QED BY <4>1 DEF Sound, Sequential
    <3>2. CASE ~(i <= Len(Log))
      <4>1. i = Len(Log) + 1 /\ WholeTo(Log, Len(Log)) /\ f.whole
        BY <1>1, <2>1, <3>2 DEF WholeTo
      <4>2. next = i
        BY <1>5, <4>1, NextPlace
      <4>3. f.sequence = next
        BY <1>1, <1>5, <4>1, FrameType
      <4> QED BY <2>1, <4>1, <4>2, <4>3
    <3> QED BY <3>1, <3>2
  <2>5. ~ill /\ ~mishap => WholeTo(file, Len(file)) /\ AppliedWithin(applied, file, Len(file))
    <3> SUFFICES ASSUME ~ill, ~mishap
                 PROVE  WholeTo(file, Len(file)) /\ AppliedWithin(applied, file, Len(file))
      OBVIOUS
    <3>1. f.whole
      BY <1>5
    <3>2. WholeTo(file, Len(file))
      BY <1>1, <1>3, <2>1, <3>1 DEF WholeTo
    <3>3. AppliedWithin(applied, file, Len(file))
      BY <1>1, <1>3, <2>1, WithinMore
    <3> QED BY <3>2, <3>3
  <2> QED BY <2>1, <2>2, <2>3, <2>4, <2>5, GoneSound
<1>6. CASE At("append") /\ Gone(Append(Flushed, Frame(handler.msg)), FALSE)
  BY <1>1, <1>5, <1>6, FrameType
<1>7. CASE At("append") /\ Gone(Append(Flushed, [Frame(handler.msg) EXCEPT !.whole = FALSE]), TRUE)
  <2> DEFINE f == [Frame(handler.msg) EXCEPT !.whole = FALSE]
  <2>1. f \in Frames /\ ~f.whole
    BY <1>1, FrameType, TearType
  <2>2. Gone(Append(Flushed, f), TRUE)
    BY <1>7
  <2> HIDE DEF f
  <2> QED BY <1>5, <1>7, <2>1, <2>2
<1> QED BY <1>4, <1>6, <1>7 DEF Destroy

-----------------------------------------------------------------------------
(* The process starts, and takes messages.                                 *)

\* The file is opened to append to, and nothing is read.
LEMMA OpenSound == ASSUME Sound, Kept, Open PROVE Sound' /\ Kept'
<1>1. /\ process = "down" /\ process' = "open" /\ starts < MaxStarts /\ starts' = starts + 1
      /\ DOMAIN books' = {} /\ next' = 1 /\ buffer' = buffer /\ disk' = disk
      /\ handler' = handler /\ appended' = appended /\ applied' = applied /\ mishap' = mishap
  BY DEF Open, NoBooks
<1>2. buffer = <<>> /\ handler.pc = "idle"
  BY <1>1 DEF Sound, Quiet
<1>3. Log' = Log /\ Done' = Done
  BY <1>1 DEF Log, Done, At
<1>4. Cardinality(DOMAIN books') = 0 /\ IsFiniteSet(DOMAIN books')
  BY <1>1, FS_EmptySet
<1>5. 1 \in 0 .. MaxNumber /\ 0 <= MaxBooks
  BY LogAssumption
<1>5a. starts' \in 0 .. MaxStarts
  BY <1>1, LogAssumption DEF Sound, TypeOK
<1>6. TypeOK'
  BY <1>1, <1>4, <1>5, <1>5a DEF Sound, TypeOK
<1>7. Quiet' /\ LastLogged'
  BY <1>1, <1>2 DEF Quiet, LastLogged, At
<1>8. Counted' /\ Unbroken'
  BY <1>1 DEF Sound, Counted, Unbroken, At
<1>9. Sequential'
  BY <1>1, <1>3 DEF Sound, Sequential
<1>10. Kept'
  BY <1>1, <1>3 DEF Kept
<1> QED BY <1>4, <1>6, <1>7, <1>8, <1>9, <1>10 DEF Sound

\* recover finds the numbers 1 to the length of a whole log, and goes on from there.
LEMMA RecoverNumbers ==
  ASSUME Sound, Recover
  PROVE  next' \in 0 .. MaxNumber /\ (WholeTo(disk, Len(disk)) => next' = Len(disk) + 1)
<1>1. PICK G \in SUBSET (0 .. MaxNumber) :
         /\ Cardinality(G) <= IF Garbled(disk) THEN 1 ELSE 0
         /\ next' = NextNumber(Max({0} \cup G \cup {f.sequence : f \in Range(Intact(disk))}))
  BY DEF Recover
<1> DEFINE N == {f.sequence : f \in Range(Intact(disk))}
           T == {0} \cup G \cup N
<1>2. disk \in Seq(Frames) /\ buffer = <<>> /\ MaxNumber \in Nat
  BY LogAssumption DEF Sound, TypeOK, Quiet, Recover
<1>3. PICK n \in 0 .. Len(disk) : Intact(disk) = SubSeq(disk, 1, n)
  BY <1>2, IntactIsPrefix
<1>4. Intact(disk) \in Seq(Frames)
  <2>1. \A i \in 1 .. n : disk[i] \in Frames
    BY <1>2
  <2> QED BY <1>3, <2>1, SubSeqProperties
<1>5. \A f \in Range(Intact(disk)) : f \in Frames
  BY <1>4 DEF Range
<1>6. N \subseteq 0 .. MaxNumber
  BY <1>5 DEF Frames
<1>7. T \subseteq 0 .. MaxNumber /\ 0 \in T
  <2> HIDE DEF N
  <2>1. 0 \in 0 .. MaxNumber /\ G \subseteq 0 .. MaxNumber
    BY <1>2
  <2> QED BY <1>6, <2>1
<1>8. next' = Incremented(Max(T))
  BY <1>1 DEF NextNumber
<1> HIDE DEF T, N
<1>9. Max(T) \in T /\ \A y \in T : Max(T) >= y
  BY <1>2, <1>7, GreatestNumber
<1>10. next' \in 0 .. MaxNumber
  <2>1. Max(T) \in 0 .. MaxNumber
    BY <1>7, <1>9
  <2>2. Max(T) \in Nat
    BY <1>2, <2>1
  <2> QED BY <1>8, <2>2, IncrementedType
<1>11. ASSUME WholeTo(disk, Len(disk)) PROVE next' = Len(disk) + 1
  <2>1. Log = disk
    BY <1>2, ConcatEmptySeq DEF Log
  <2>2. \A i \in 1 .. Len(disk) : disk[i].sequence = i
    BY <1>11, <1>2, <2>1 DEF Sound, Sequential, WholeTo
  <2>3. Torn(disk) = {} /\ ~Garbled(disk)
    BY <1>11, <1>2 DEF Torn, Garbled, WholeTo
  <2>4. Intact(disk) = disk
    BY <1>11, <1>2, IntactIsAll DEF WholeTo
  <2>5. G = {}
    <3>1. IsFiniteSet(0 .. MaxNumber)
      BY <1>2, FS_Interval
    <3>2. IsFiniteSet(G)
      BY <3>1, FS_Subset
    <3>3. Cardinality(G) \in Nat /\ Cardinality(G) <= 0
      BY <1>1, <2>3, <3>2, FS_CardinalityType
    <3>4. Cardinality(G) = 0
      BY <3>3
    <3> QED BY <3>2, <3>4, FS_EmptySet
  <2>6. \A x : x \in T <=> x = 0 \/ x \in 1 .. Len(disk)
    <3>1. \A x : x \in N <=> \E i \in DOMAIN disk : x = disk[i].sequence
      BY <2>4 DEF N, Range
    <3>2. \A x : x \in N <=> x \in 1 .. Len(disk)
      BY <1>2, <2>2, <3>1
    <3> QED BY <2>5, <3>2 DEF T
  <2>7. Len(disk) \in Nat /\ Len(disk) \in T
    BY <1>2, <2>6
  <2>8. Max(T) = Len(disk)
    BY <1>7, <1>9, <2>6, <2>7
  <2>9. Len(disk) < MaxNumber
    <3>1. Len(disk) + Len(buffer) <= appended /\ appended \in 0 .. MaxFrames
      BY <1>2, <2>7 DEF Sound, Counted, TypeOK
    <3> QED BY <1>2, <2>7, <3>1, LogAssumption
  <2> QED BY <1>8, <2>7, <2>8, <2>9, IncrementedType
<1> QED BY <1>10, <1>11

\* The log stays as it is, and the next number follows it.
LEMMA RecoverSound == ASSUME Sound, Kept, Recover PROVE Sound' /\ Kept'
<1>1. /\ process = "open" /\ process' = "ready" /\ books' = books /\ buffer' = buffer
      /\ disk' = disk /\ handler' = handler /\ starts' = starts /\ appended' = appended
      /\ applied' = applied /\ mishap' = mishap
  BY DEF Recover
<1>2. next' \in 0 .. MaxNumber /\ (WholeTo(disk, Len(disk)) => next' = Len(disk) + 1)
  BY RecoverNumbers
<1>3. TypeOK'
  BY <1>1, <1>2 DEF Sound, TypeOK
<1>4. Log = disk /\ Log' = Log /\ Done' = Done
  <2>1. buffer = <<>> /\ disk \in Seq(Frames)
    BY <1>1 DEF Sound, Quiet, TypeOK
  <2> QED BY <1>1, <2>1, ConcatEmptySeq DEF Log, Done, At
<1>5. Sequential'
  BY <1>1, <1>2, <1>4 DEF Sound, Sequential
<1>6. Quiet' /\ Counted' /\ Unbroken' /\ LastLogged' /\ IsFiniteSet(DOMAIN books')
  BY <1>1 DEF Sound, Quiet, Counted, Unbroken, LastLogged, At
<1>7. Kept'
  BY <1>1, <1>4 DEF Kept
<1> QED BY <1>3, <1>5, <1>6, <1>7 DEF Sound

\* draining takes messages as before.
LEMMA DrainSound == ASSUME Sound, Kept, Drain PROVE Sound' /\ Kept'
<1>1. /\ process = "ready" /\ process' = "draining" /\ books' = books /\ buffer' = buffer
      /\ disk' = disk /\ handler' = handler /\ starts' = starts /\ appended' = appended
      /\ applied' = applied /\ mishap' = mishap /\ next' = next
  BY DEF Drain
<1>2. Log' = Log /\ Done' = Done
  BY <1>1 DEF Log, Done, At
<1>3. TypeOK'
  BY <1>1 DEF Sound, TypeOK
<1>4. Sequential'
  BY <1>1, <1>2 DEF Sound, Sequential
<1>5. Quiet' /\ Counted' /\ Unbroken' /\ LastLogged' /\ IsFiniteSet(DOMAIN books')
  BY <1>1 DEF Sound, Quiet, Counted, Unbroken, LastLogged, At
<1>6. Kept'
  BY <1>1, <1>2 DEF Kept
<1> QED BY <1>3, <1>4, <1>5, <1>6 DEF Sound

\* A message arrives: the frame it will need is counted.
LEMMA DispatchSound ==
  ASSUME Sound, Kept, NEW msg \in Messages, Dispatch(msg)
  PROVE  Sound' /\ Kept'
<1>1. /\ process \in {"ready", "draining"} /\ process' = process /\ books' = books
      /\ buffer' = buffer /\ disk' = disk /\ starts' = starts /\ applied' = applied
      /\ mishap' = mishap /\ next' = next /\ At("idle") /\ appended < MaxFrames
      /\ handler' = [pc |-> "append", msg |-> msg] /\ appended' = appended + 1
  BY DEF Dispatch
<1>2. handler'.pc = "append" /\ handler' \in [pc : {"idle", "append", "apply"}, msg : Messages]
  BY <1>1
<1>3. appended' \in 0 .. MaxFrames /\ appended \in Nat /\ Len(disk) \in Nat /\ Len(buffer) \in Nat
  BY <1>1, LogAssumption DEF Sound, TypeOK
<1>4. TypeOK'
  BY <1>1, <1>2, <1>3 DEF Sound, TypeOK
<1>5. Log' = Log /\ Done' = Done
  BY <1>1, <1>2 DEF Log, Done, At
<1>6. Counted'
  <2>1. Len(disk) + Len(buffer) <= appended
    BY <1>1, <1>3 DEF Sound, Counted, At
  <2> QED BY <1>1, <1>2, <1>3, <2>1 DEF Counted, At
<1>7. Sequential'
  BY <1>1, <1>5 DEF Sound, Sequential
<1>8. Quiet' /\ Unbroken' /\ LastLogged' /\ IsFiniteSet(DOMAIN books')
  BY <1>1, <1>2 DEF Sound, Quiet, Unbroken, LastLogged, At
<1>9. Kept'
  BY <1>1, <1>5 DEF Kept
<1> QED BY <1>4, <1>6, <1>7, <1>8, <1>9 DEF Sound

-----------------------------------------------------------------------------
(* Appending and applying.                                                 *)

\* append writes the next number.
LEMMA AppendSound == ASSUME Sound, Kept, AppendFrame PROVE Sound' /\ Kept'
<1> DEFINE f == Frame(handler.msg)
<1>1. /\ At("append") /\ buffer' = buffer \o <<f>> /\ next' = Incremented(next)
      /\ handler' = [handler EXCEPT !.pc = "apply"] /\ process' = process /\ books' = books
      /\ disk' = disk /\ starts' = starts /\ appended' = appended /\ applied' = applied
      /\ mishap' = mishap
  BY DEF AppendFrame, LoggedFrames
<1>2. handler'.pc = "apply" /\ handler'.msg = handler.msg
      /\ handler' \in [pc : {"idle", "append", "apply"}, msg : Messages]
      /\ handler.msg \in Messages
  BY <1>1 DEF Sound, TypeOK
<1>3. f \in Frames /\ f.msg = handler.msg /\ f.sequence = next /\ f.whole
  BY <1>2, FrameType DEF Sound
<1>4. process \in {"ready", "draining"}
  BY <1>1 DEF Sound, Quiet, At
<1> HIDE DEF f
<1>5. /\ buffer' \in Seq(Frames) /\ Len(buffer') = Len(buffer) + 1
      /\ \A i \in 1 .. Len(buffer) : buffer'[i] = buffer[i]
      /\ buffer'[Len(buffer) + 1] = f
  <2>1. buffer \in Seq(Frames) /\ buffer' = Append(buffer, f)
    BY <1>1, <1>3, AppendIsConcat DEF Sound, TypeOK
  <2> QED BY <1>3, <2>1, AppendProperties
<1>6. /\ Log' \in Seq(Frames) /\ Len(Log') = Len(Log) + 1
      /\ \A i \in 1 .. Len(Log) : Log'[i] = Log[i]
      /\ Log'[Len(Log) + 1] = f
  <2>1. Log' = Append(Log, f)
    BY <1>1, <1>3, LogAppended DEF Sound, Log
  <2> QED BY <1>3, <2>1, LogAppended DEF Sound
<1>7. Len(Log) \in Nat /\ Len(Log) = Len(disk) + Len(buffer) /\ Len(disk) \in Nat /\ Len(buffer) \in Nat
  BY LogType DEF Sound, TypeOK
<1>8. next' \in 0 .. MaxNumber
  BY <1>1, IncrementedType DEF Sound, TypeOK
<1>9. TypeOK'
  BY <1>1, <1>2, <1>5, <1>8 DEF Sound, TypeOK
<1>10. Quiet'
  BY <1>1, <1>4 DEF Quiet
<1>11. Counted'
  <2>1. Len(disk) + Len(buffer) + 1 <= appended
    BY <1>1 DEF Sound, Counted
  <2> QED BY <1>1, <1>2, <1>5, <1>7, <2>1 DEF Counted, At
<1>12. ASSUME NEW i \in 1 .. Len(Log'), WholeTo(Log', i)
       PROVE  /\ Log'[i].sequence = i
              /\ i = Len(Log') => next' = i + 1
  <2>1. CASE i <= Len(Log)
    <3>1. i \in 1 .. Len(Log) /\ WholeTo(Log, i) /\ Log'[i] = Log[i]
      BY <1>6, <1>7, <1>12, <2>1 DEF WholeTo
    <3> QED BY <1>6, <1>7, <3>1 DEF Sound, Sequential
  <2>2. CASE ~(i <= Len(Log))
    <3>1. i = Len(Log) + 1 /\ WholeTo(Log, Len(Log))
      BY <1>6, <1>7, <1>12, <2>2 DEF WholeTo
    <3>2. next = i /\ i <= appended /\ appended < MaxNumber
      BY <1>1, <3>1, NextPlace
    <3>3. next \in Nat /\ appended \in Nat /\ MaxNumber \in Nat
      BY LogAssumption DEF Sound, TypeOK
    <3>4. next' = next + 1
      BY <1>1, <3>2, <3>3, IncrementedType
    <3> QED BY <1>3, <1>6, <3>1, <3>2, <3>4
  <2> QED BY <2>1, <2>2
<1>13. Sequential'
  <2>1. Len(Log') \in 1 .. Len(Log')
    BY <1>6, <1>7
  <2>2. WholeTo(Log', Len(Log')) => next' = Len(Log') + 1
    BY <1>12, <2>1
  <2> QED BY <1>12, <2>2 DEF Sequential
<1>14. Unbroken'
  <2>1. WholeTo(buffer', Len(buffer'))
    BY <1>3, <1>5, <1>7 DEF Sound, Unbroken, WholeTo
  <2> QED BY <1>1, <2>1 DEF Sound, Unbroken
<1>15. LastLogged'
  BY <1>2, <1>3, <1>5, <1>7 DEF LastLogged
<1>16. Done' = Len(Log) /\ Done = Len(Log)
  BY <1>1, <1>2, <1>6, <1>7 DEF Done, At
<1>17. Kept'
  <2>1. ~mishap => AppliedWithin(applied, Log', Len(Log))
    BY <1>6, <1>7, <1>16, WithinMore DEF Kept
  <2> QED BY <1>1, <1>16, <2>1 DEF Kept
<1>18. IsFiniteSet(DOMAIN books')
  BY <1>1 DEF Sound
<1> QED BY <1>9, <1>10, <1>11, <1>13, <1>14, <1>15, <1>17, <1>18 DEF Sound

\* apply does what the last frame says, which was not applied before.
LEMMA ApplySound == ASSUME Sound, Kept, Apply PROVE Sound' /\ Kept'
<1> DEFINE msg == handler.msg
           m == Market(msg)
<1>1. /\ At("apply") /\ HasRoom(m)
      /\ books' = [n \in DOMAIN books \cup {m} |-> IF n = m THEN Append(Book(m), msg) ELSE books[n]]
      /\ applied' = Append(applied, msg) /\ handler' = Idle /\ process' = process
      /\ next' = next /\ buffer' = buffer /\ disk' = disk /\ starts' = starts
      /\ appended' = appended /\ mishap' = mishap
  BY DEF Apply
<1>2. /\ handler'.pc = "idle" /\ handler' \in [pc : {"idle", "append", "apply"}, msg : Messages]
      /\ msg \in Messages /\ m \in Markets
  BY <1>1, IdleType, LogAssumption DEF Sound, TypeOK, Market, Messages
<1>3. process \in {"ready", "draining"}
  BY <1>1 DEF Sound, Quiet, At
<1>4. Len(Log) \in Nat /\ Len(Log) = Len(disk) + Len(buffer) /\ Len(disk) \in Nat /\ Len(buffer) \in Nat
  BY LogType DEF Sound, TypeOK
<1>5. Log' = Log /\ Done = Len(Log) - 1 /\ Done' = Len(Log)
  BY <1>1, <1>2 DEF Log, Done, At
<1>6. Len(Log) \in 1 .. Len(Log) /\ Log[Len(Log)].msg = msg
  <2>1. buffer # <<>> /\ buffer[Len(buffer)].msg = msg /\ buffer \in Seq(Frames)
    BY <1>1 DEF Sound, LastLogged, TypeOK
  <2>2. Len(buffer) > 0
    BY <1>4, <2>1, EmptySeq
  <2> QED BY <1>4, <2>1, <2>2, LogType DEF Sound
<1>7. DOMAIN books' = DOMAIN books \cup {m} /\ IsFiniteSet(DOMAIN books')
  BY <1>1, FS_AddElement DEF Sound
<1>8. Cardinality(DOMAIN books') <= MaxBooks
  <2>1. Cardinality(DOMAIN books') =
           IF m \in DOMAIN books THEN Cardinality(DOMAIN books) ELSE Cardinality(DOMAIN books) + 1
    BY <1>7, FS_AddElement DEF Sound
  <2>2. Cardinality(DOMAIN books) \in Nat /\ Cardinality(DOMAIN books) <= MaxBooks /\ MaxBooks \in Nat
    BY FS_CardinalityType, LogAssumption DEF Sound, TypeOK
  <2>3. m \in DOMAIN books \/ Cardinality(DOMAIN books) < MaxBooks
    BY <1>1 DEF HasRoom, HasBook
  <2> QED BY <2>1, <2>2, <2>3
<1>9. \A n \in DOMAIN books' : books'[n] \in Seq(Messages)
  <2>1. Book(m) \in Seq(Messages)
    BY EmptySeq DEF Sound, TypeOK, Book, HasBook
  <2>2. Append(Book(m), msg) \in Seq(Messages)
    BY <1>2, <2>1, AppendProperties
  <2>3. \A n \in DOMAIN books : books[n] \in Seq(Messages)
    BY DEF Sound, TypeOK
  <2> QED BY <1>1, <1>7, <2>2, <2>3
<1>10. applied \in Seq(Messages) /\ applied' \in Seq(Messages)
  BY <1>1, <1>2, AppendProperties DEF Sound, TypeOK
<1>11. TypeOK'
  BY <1>1, <1>2, <1>7, <1>8, <1>9, <1>10 DEF Sound, TypeOK
<1>12. Quiet' /\ LastLogged'
  BY <1>1, <1>2, <1>3 DEF Quiet, LastLogged, At
<1>13. Counted'
  <2>1. Len(disk) + Len(buffer) <= appended
    BY <1>1, <1>4 DEF Sound, Counted, At
  <2> QED BY <1>1, <1>2, <1>4, <2>1 DEF Counted, At
<1>14. Sequential' /\ Unbroken'
  BY <1>1, <1>5 DEF Sound, Sequential, Unbroken
<1>15. Kept'
  <2> SUFFICES ASSUME ~mishap PROVE AppliedWithin(applied', Log, Len(Log))
    BY <1>1, <1>5 DEF Kept
  <2>1. PICK at \in [DOMAIN applied -> 1 .. Len(Log) - 1] :
           \A i, j \in DOMAIN applied :
              (i < j => at[i] < at[j]) /\ applied[i] = Log[at[i]].msg
    BY <1>5 DEF Kept, AppliedWithin
  <2> DEFINE k == Len(applied) + 1
             to == [i \in DOMAIN applied' |-> IF i = k THEN Len(Log) ELSE at[i]]
  <2>2. /\ DOMAIN applied = 1 .. Len(applied) /\ Len(applied) \in Nat
        /\ DOMAIN applied' = 1 .. k /\ applied'[k] = msg
        /\ \A i \in 1 .. Len(applied) : applied'[i] = applied[i]
    BY <1>1, <1>2, <1>10, AppendProperties
  <2>3. \A i \in DOMAIN applied' : i # k => i \in DOMAIN applied /\ i < k
    BY <2>2
  <2>4. \A i \in DOMAIN applied : at[i] \in 1 .. Len(Log) - 1
    OBVIOUS
  <2>5. to \in [DOMAIN applied' -> 1 .. Len(Log)]
    BY <1>4, <1>6, <2>3, <2>4
  <2>6. ASSUME NEW i \in DOMAIN applied', NEW j \in DOMAIN applied'
        PROVE  (i < j => to[i] < to[j]) /\ applied'[i] = Log[to[i]].msg
    <3>1. to[i] = (IF i = k THEN Len(Log) ELSE at[i]) /\ to[j] = (IF j = k THEN Len(Log) ELSE at[j])
      OBVIOUS
    <3> HIDE DEF to
    <3>2. applied'[i] = Log[to[i]].msg
      BY <1>6, <2>1, <2>2, <2>3, <3>1
    <3>3. ASSUME i < j PROVE to[i] < to[j]
      <4>1. i # k /\ i \in DOMAIN applied
        BY <2>2, <2>3, <3>3
      <4>2. CASE j = k
        BY <1>4, <2>4, <3>1, <4>1, <4>2
      <4>3. CASE j # k
        BY <2>1, <2>3, <3>1, <3>3, <4>1, <4>3
      <4> QED BY <4>2, <4>3
    <3> QED BY <3>2, <3>3
  <2> HIDE DEF to
  <2> QED BY <2>5, <2>6 DEF AppliedWithin
<1> QED BY <1>7, <1>11, <1>12, <1>13, <1>14, <1>15 DEF Sound

-----------------------------------------------------------------------------
(* The books and the log.                                                  *)

\* A frame appended to the log is an operation appended to its market's.
LEMMA FollowsNext ==
  ASSUME NEW ops \in Seq(Messages), NEW log \in Seq(Frames), NEW f \in Frames, NEW m,
         Follows(ops, log, m)
  PROVE  Follows(IF Market(f.msg) = m THEN Append(ops, f.msg) ELSE ops, Append(log, f), m)
<1> DEFINE more == Append(log, f)
           n == Len(log)
           all == IF Market(f.msg) = m THEN Append(ops, f.msg) ELSE ops
<1>1. /\ more \in Seq(Frames) /\ Len(more) = n + 1 /\ n \in Nat
      /\ \A i \in 1 .. n : more[i] = log[i]
      /\ more[n + 1] = f
  BY AppendProperties
<1>2. f.msg \in Messages
  BY DEF Frames
<1>3. /\ Append(ops, f.msg) \in Seq(Messages) /\ Len(Append(ops, f.msg)) = Len(ops) + 1
      /\ \A i \in 1 .. Len(ops) : Append(ops, f.msg)[i] = ops[i]
      /\ Append(ops, f.msg)[Len(ops) + 1] = f.msg /\ Len(ops) \in Nat
  BY <1>2, AppendProperties
<1> HIDE DEF more
<1>4. \A i \in 0 .. n : Rank(more, i, m) = Rank(log, i, m)
  <2> TAKE i \in 0 .. n
  <2>1. i \in Nat /\ \A j \in 1 .. i : more[j] = log[j]
    BY <1>1
  <2> HIDE DEF n
  <2> QED BY <2>1, RankSame
<1>5. Rank(more, n + 1, m) = Rank(log, n, m) + (IF Market(f.msg) = m THEN 1 ELSE 0)
  <2>1. Rank(more, n + 1, m) = Rank(more, n, m) + (IF Market(f.msg) = m THEN 1 ELSE 0)
    BY <1>1, RankNext
  <2>2. Rank(more, n, m) = Rank(log, n, m)
    BY <1>1, <1>4
  <2> QED BY <2>1, <2>2
<1>6. Len(ops) = Rank(log, n, m)
  BY DEF Follows
<1>7. Len(all) = Rank(more, Len(more), m)
  BY <1>1, <1>3, <1>5, <1>6
<1>8. ASSUME NEW i \in DOMAIN more, Market(more[i].msg) = m
      PROVE  all[Rank(more, i, m)] = more[i].msg
  <2>0. i \in 1 .. n + 1
    BY <1>1
  <2>1. CASE i = n + 1
    BY <1>1, <1>3, <1>5, <1>6, <1>8, <2>1
  <2>2. CASE i # n + 1
    <3>1. i \in 1 .. n /\ i \in DOMAIN log /\ more[i] = log[i] /\ Rank(more, i, m) = Rank(log, i, m)
      BY <1>1, <1>4, <2>0, <2>2
    <3>2. ops[Rank(log, i, m)] = log[i].msg
      BY <1>8, <3>1 DEF Follows
    <3>3. Rank(log, i, m) \in 1 .. Len(ops)
      <4>1. i - 1 \in Nat /\ (i - 1) + 1 = i
        BY <3>1
      <4>2. Rank(log, i, m) = Rank(log, i - 1, m) + 1
        BY <1>8, <3>1, <4>1, RankNext
      <4>3. Rank(log, i - 1, m) \in Nat
        BY <4>1, RankType
      <4>4. Rank(log, i, m) <= Rank(log, n, m)
        BY <1>1, <3>1, RankMonotone
      <4> QED BY <1>3, <1>6, <4>2, <4>3, <4>4
    <3> QED BY <1>3, <3>1, <3>2, <3>3
  <2> QED BY <2>1, <2>2
<1> HIDE DEF all
<1>9. Follows(all, more, m)
  BY <1>7, <1>8 DEF Follows
<1> QED BY <1>9 DEF all, more

\* A step that touches neither books nor buffer, and leaves nothing of the
\* handler to apply that was not, keeps the books behind the log.
LEMMA SameBooks ==
  ASSUME WriteAhead, process \in {"ready", "draining"}, books' = books, buffer' = buffer,
         \A m \in Markets : Pending(m)' = Pending(m)
  PROVE  WriteAhead'
<1>1. \A m \in Markets : Follows(Book(m) \o Pending(m), buffer, m)
  BY DEF WriteAhead
<1>2. \A m \in Markets : Book(m)' = Book(m)
  BY DEF Book, HasBook
<1>3. \A m \in Markets : (Book(m) \o Pending(m))' = Book(m) \o Pending(m)
  BY <1>2
<1>4. ASSUME NEW m \in Markets PROVE Follows(Book(m) \o Pending(m), buffer, m)'
  <2> DEFINE ops == Book(m) \o Pending(m)
  <2>1. Follows(ops, buffer, m) /\ ops' = ops
    BY <1>1, <1>3
  <2> HIDE DEF ops
  <2>2. Follows(ops, buffer, m)'
    BY <2>1 DEF Follows, Rank
  <2> QED BY <2>2 DEF ops
<1> QED BY <1>4 DEF WriteAhead

\* Books and what is pending are sequences of messages.
LEMMA BookType ==
  ASSUME TypeOK, NEW m
  PROVE  Book(m) \in Seq(Messages) /\ Pending(m) \in Seq(Messages)
<1>1. Book(m) \in Seq(Messages)
  BY EmptySeq DEF TypeOK, Book, HasBook
<1>2. Pending(m) \in Seq(Messages)
  BY EmptySeq DEF TypeOK, Pending
<1> QED BY <1>1, <1>2

\* A start of taking messages: no books, and an empty buffer.
LEMMA RecoverAhead == ASSUME Sound, Recover PROVE WriteAhead'
<1>1. DOMAIN books' = {} /\ buffer' = <<>> /\ handler'.pc = "idle"
  BY DEF Recover, Sound, Quiet
<1>2. ASSUME NEW m \in Markets PROVE Follows(Book(m) \o Pending(m), buffer, m)'
  <2> DEFINE ops == Book(m) \o Pending(m)
  <2>1. Book(m)' = <<>> /\ Pending(m)' = <<>>
    BY <1>1 DEF Book, HasBook, Pending, At
  <2>2. ops' = <<>>
    BY <2>1
  <2>3. Rank(<<>>, 0, m) \in 0 .. 0
    BY RankType
  <2>4. Follows(<<>>, <<>>, m)
    BY <2>3 DEF Follows
  <2> HIDE DEF ops
  <2>5. Follows(ops, buffer, m)'
    BY <1>1, <2>2, <2>4 DEF Follows, Rank
  <2> QED BY <2>5 DEF ops
<1> QED BY <1>2 DEF WriteAhead

\* append puts the operation into the log before apply puts it into a book.
LEMMA AppendAhead == ASSUME Sound, WriteAhead, AppendFrame PROVE WriteAhead'
<1> DEFINE f == Frame(handler.msg)
<1>1. /\ At("append") /\ buffer' = buffer \o <<f>> /\ books' = books
      /\ handler' = [handler EXCEPT !.pc = "apply"]
  BY DEF AppendFrame, LoggedFrames
<1>2. /\ handler'.pc = "apply" /\ handler'.msg = handler.msg /\ handler.msg \in Messages
      /\ buffer \in Seq(Frames)
  BY <1>1 DEF Sound, TypeOK
<1>3. f \in Frames /\ f.msg = handler.msg
  BY <1>2, FrameType DEF Sound
<1> HIDE DEF f
<1>4. buffer' = Append(buffer, f)
  BY <1>1, <1>2, <1>3, AppendIsConcat
<1>5. process \in {"ready", "draining"}
  BY <1>1 DEF Sound, Quiet, At
<1>6. ASSUME NEW m \in Markets PROVE Follows(Book(m) \o Pending(m), buffer, m)'
  <2> DEFINE ops == Book(m) \o Pending(m)
  <2>1. Book(m) \in Seq(Messages) /\ Pending(m) = <<>>
    BY <1>1, BookType DEF Sound, Pending, At
  <2>2. ops = Book(m)
    BY <2>1, ConcatEmptySeq
  <2>3. Follows(Book(m), buffer, m)
    BY <1>5, <2>2 DEF WriteAhead
  <2>4. Book(m)' = Book(m)
    BY <1>1 DEF Book, HasBook
  <2>5. Pending(m)' = IF Market(f.msg) = m THEN <<f.msg>> ELSE <<>>
    BY <1>2, <1>3 DEF Pending, At
  <2>6. ops' = IF Market(f.msg) = m THEN Append(Book(m), f.msg) ELSE Book(m)
    <3>1. f.msg \in Messages
      BY <1>2, <1>3
    <3>2. Book(m) \o <<f.msg>> = Append(Book(m), f.msg) /\ Book(m) \o <<>> = Book(m)
      BY <2>1, <3>1, AppendIsConcat, ConcatEmptySeq
    <3> QED BY <2>4, <2>5, <3>2
  <2>7. PICK next_ops : next_ops = IF Market(f.msg) = m THEN Append(Book(m), f.msg) ELSE Book(m)
    OBVIOUS
  <2>8. Follows(next_ops, Append(buffer, f), m)
    BY <1>2, <1>3, <2>1, <2>3, <2>7, FollowsNext
  <2> HIDE DEF ops
  <2>9. Follows(ops, buffer, m)'
    BY <1>4, <2>6, <2>7, <2>8 DEF Follows, Rank
  <2> QED BY <2>9 DEF ops
<1> QED BY <1>6 DEF WriteAhead

\* apply moves the operation from what is pending to its market's book.
LEMMA ApplyAhead == ASSUME Sound, WriteAhead, Apply PROVE WriteAhead'
<1> DEFINE msg == handler.msg
<1>1. /\ At("apply") /\ handler' = Idle /\ buffer' = buffer
      /\ books' = [n \in DOMAIN books \cup {Market(msg)} |->
                      IF n = Market(msg) THEN Append(Book(Market(msg)), msg) ELSE books[n]]
  BY DEF Apply
<1>2. handler'.pc = "idle" /\ msg \in Messages /\ buffer \in Seq(Frames)
  BY <1>1, IdleType DEF Sound, TypeOK
<1>3. process \in {"ready", "draining"}
  BY <1>1 DEF Sound, Quiet, At
<1>4. ASSUME NEW m \in Markets PROVE Follows(Book(m) \o Pending(m), buffer, m)'
  <2> DEFINE ops == Book(m) \o Pending(m)
  <2>1. Book(m) \in Seq(Messages) /\ Pending(m)' = <<>>
    BY <1>2, BookType DEF Sound, Pending, At
  <2>2. Follows(ops, buffer, m)
    BY <1>3 DEF WriteAhead
  <2>3. Pending(m) = IF Market(msg) = m THEN <<msg>> ELSE <<>>
    BY <1>1 DEF Pending
  <2>4. Book(m)' = IF Market(msg) = m THEN Append(Book(m), msg) ELSE Book(m)
    <3>1. CASE Market(msg) = m
      BY <1>1, <3>1 DEF Book, HasBook
    <3>2. CASE Market(msg) # m
      BY <1>1, <3>2 DEF Book, HasBook
    <3> QED BY <3>1, <3>2
  <2>5. Book(m)' = ops
    <3>1. Book(m) \o <<msg>> = Append(Book(m), msg) /\ Book(m) \o <<>> = Book(m)
      BY <1>2, <2>1, AppendIsConcat, ConcatEmptySeq
    <3> QED BY <2>3, <2>4, <3>1
  <2>6. ops \in Seq(Messages)
    BY BookType, ConcatProperties DEF Sound
  <2>7. ops' = ops
    <3>1. ops' = Book(m)' \o Pending(m)'
      OBVIOUS
    <3>2. PICK all : all = ops
      OBVIOUS
    <3>3. all \o <<>> = all
      BY <2>6, <3>2, ConcatEmptySeq
    <3> QED BY <2>1, <2>5, <3>1, <3>2, <3>3
  <2> HIDE DEF ops
  <2>8. Follows(ops, buffer, m)'
    BY <1>1, <2>2, <2>7 DEF Follows, Rank
  <2> QED BY <2>8 DEF ops
<1> QED BY <1>4 DEF WriteAhead

\* Every step keeps the log ahead of the books.
LEMMA AheadNext == ASSUME Sound, WriteAhead, [Next]_vars PROVE WriteAhead'
<1>1. CASE Open \/ Crash \/ PowerLoss \/ Destroy \/ ExhaustBooks \/ RecoverThrows
  <2>1. process' \in {"open", "down"}
    BY <1>1 DEF Open, Crash, PowerLoss, Destroy, ExhaustBooks, RecoverThrows, Gone
  <2> QED BY <2>1 DEF WriteAhead
<1>2. CASE Recover
  BY <1>2, RecoverAhead
<1>3. ASSUME NEW msg \in Messages, Dispatch(msg) PROVE WriteAhead'
  <2>1. /\ process \in {"ready", "draining"} /\ books' = books /\ buffer' = buffer
        /\ handler.pc = "idle" /\ handler'.pc = "append"
    BY <1>3 DEF Dispatch, At
  <2>2. \A m \in Markets : Pending(m)' = Pending(m)
    BY <2>1 DEF Pending, At
  <2> QED BY <2>1, <2>2, SameBooks
<1>4. CASE AppendFrame
  BY <1>4, AppendAhead
<1>5. CASE Apply
  BY <1>5, ApplyAhead
<1>6. CASE Drain
  <2>1. process \in {"ready", "draining"} /\ books' = books /\ buffer' = buffer /\ handler' = handler
    BY <1>6 DEF Drain
  <2>2. \A m \in Markets : Pending(m)' = Pending(m)
    BY <2>1 DEF Pending, At
  <2> QED BY <2>1, <2>2, SameBooks
<1>7. CASE UNCHANGED vars
  <2>1. process' = process /\ books' = books /\ buffer' = buffer /\ handler' = handler
    BY <1>7 DEF vars
  <2>2. \A m \in Markets : Pending(m)' = Pending(m)
    BY <2>1 DEF Pending, At
  <2>3. CASE process \in {"ready", "draining"}
    BY <2>1, <2>2, <2>3, SameBooks
  <2>4. CASE process \notin {"ready", "draining"}
    BY <2>1, <2>4 DEF WriteAhead
  <2> QED BY <2>3, <2>4
<1> QED BY <1>1, <1>2, <1>3, <1>4, <1>5, <1>6, <1>7 DEF Next

-----------------------------------------------------------------------------
(* The theorems.                                                           *)

\* Every step keeps the invariant.
LEMMA SoundNext == ASSUME Sound, Kept, [Next]_vars PROVE Sound' /\ Kept'
<1>1. CASE Open
  BY <1>1, OpenSound
<1>2. CASE Recover
  BY <1>2, RecoverSound
<1>3. ASSUME NEW msg \in Messages, Dispatch(msg) PROVE Sound' /\ Kept'
  BY <1>3, DispatchSound
<1>4. CASE AppendFrame
  BY <1>4, AppendSound
<1>5. CASE Apply
  BY <1>5, ApplySound
<1>6. CASE Drain
  BY <1>6, DrainSound
<1>7. CASE Destroy
  BY <1>7, DestroySound
<1>8. CASE Crash \/ ExhaustBooks \/ RecoverThrows
  BY <1>8, CrashSound DEF ExhaustBooks, RecoverThrows
<1>9. CASE PowerLoss
  BY <1>9, PowerLossSound
<1>10. CASE UNCHANGED vars
  <2>1. /\ process' = process /\ books' = books /\ next' = next /\ buffer' = buffer
        /\ disk' = disk /\ handler' = handler /\ starts' = starts /\ appended' = appended
        /\ applied' = applied /\ mishap' = mishap
    BY <1>10 DEF vars
  <2>2. Log' = Log /\ Done' = Done
    BY <2>1 DEF Log, Done, At
  <2>3. TypeOK' /\ IsFiniteSet(DOMAIN books')
    BY <2>1 DEF Sound, TypeOK
  <2>4. Quiet' /\ Counted' /\ Unbroken' /\ LastLogged'
    BY <2>1 DEF Sound, Quiet, Counted, Unbroken, LastLogged, At
  <2>5. Sequential'
    BY <2>1, <2>2 DEF Sound, Sequential
  <2>6. Kept'
    BY <2>1, <2>2 DEF Kept
  <2> QED BY <2>3, <2>4, <2>5, <2>6 DEF Sound
<1> QED BY <1>1, <1>2, <1>3, <1>4, <1>5, <1>6, <1>7, <1>8, <1>9, <1>10 DEF Next

\* The invariant always holds.
LEMMA AlwaysSound == Spec => [](Sound /\ Kept)
<1>1. Sound /\ Kept /\ [Next]_vars => Sound' /\ Kept'
  BY SoundNext
<1> QED BY SoundInit, <1>1, PTL DEF Spec

\* Every variable of the engine process keeps its type, whatever dies and
\* restarts, and the books never outnumber the entries of UuidBookMap.
THEOREM LogTyped == Spec => []TypeOK
<1>1. Sound => TypeOK
  BY DEF Sound
<1> QED BY AlwaysSound, <1>1, PTL

\* The readable part of the log is numbered 1, 2, 3, ...: append numbers by
\* next_sequence_, and recover sets it to one more than the last it read.
THEOREM NumbersHaveNoGaps == Spec => []Numbered
<1>1. ASSUME Sound PROVE Numbered
  <2>1. Log \in Seq(Frames) /\ Log = disk \o buffer
    BY <1>1, LogType DEF Sound, Log
  <2>2. PICK n \in 0 .. Len(Log) : Intact(Log) = SubSeq(Log, 1, n) /\ \A i \in 1 .. n : Log[i].whole
    BY <2>1, IntactIsPrefix
  <2>3. /\ DOMAIN Intact(Log) = 1 .. n
        /\ \A i \in 1 .. n : Intact(Log)[i] = Log[i]
    <3>1. \A i \in 1 .. n : Log[i] \in Frames
      BY <2>1
    <3>2. SubSeq(Log, 1, n) \in Seq(Frames) /\ Len(SubSeq(Log, 1, n)) = n
          /\ \A i \in 1 .. n : SubSeq(Log, 1, n)[i] = Log[i]
      BY <3>1, SubSeqProperties
    <3> QED BY <2>2, <3>2
  <2>4. \A i \in 1 .. n : Intact(Log)[i].sequence = i
    <3> TAKE i \in 1 .. n
    <3>1. WholeTo(Log, i) /\ i \in 1 .. Len(Log)
      BY <2>1, <2>2 DEF WholeTo
    <3> QED BY <1>1, <2>3, <3>1 DEF Sound, Sequential
  <2> QED BY <2>1, <2>3, <2>4 DEF Numbered
<1> QED BY AlwaysSound, <1>1, PTL

\* No book has an operation the log does not have, and each went through its
\* market's operations in the order of the log: dispatch appends under the mutex
\* before it applies.
THEOREM LogAhead == Spec => []WriteAhead
<1>1. Init => WriteAhead
  BY DEF Init, WriteAhead
<1>2. Sound /\ WriteAhead /\ [Next]_vars => WriteAhead'
  BY AheadNext
<1>3. Spec => [](Sound)
  BY AlwaysSound, PTL
<1> QED BY <1>1, <1>2, <1>3, PTL DEF Spec

\* As long as the process only ever stops, every operation that any run of it
\* applied is in the log, in order, and recover reads it: ~Wal flushes the file.
THEOREM StopsKeepAll == Spec => []StopsLoseNothing
<1>1. ASSUME Sound, Kept PROVE StopsLoseNothing
  <2> SUFFICES ASSUME ~mishap
               PROVE  Embeds(applied, [i \in DOMAIN Intact(disk \o buffer) |-> (disk \o buffer)[i].msg])
    BY DEF StopsLoseNothing
  <2>1. Log \in Seq(Frames) /\ Log = disk \o buffer /\ Len(Log) \in Nat
    BY <1>1, LogType DEF Sound, Log
  <2>2. WholeTo(Log, Len(Log)) /\ AppliedWithin(applied, Log, Len(Log))
    BY <1>1, KeptWhole
  <2>3. Intact(Log) = Log
    <3>1. \A i \in DOMAIN Log : Log[i].whole
      BY <2>1, <2>2 DEF WholeTo
    <3> QED BY <2>1, <3>1, IntactIsAll
  <2> DEFINE t == [i \in DOMAIN Intact(disk \o buffer) |-> (disk \o buffer)[i].msg]
  <2>4. t = [i \in DOMAIN Log |-> Log[i].msg]
    BY <2>1, <2>3
  <2>5. DOMAIN t = 1 .. Len(Log) /\ \A i \in 1 .. Len(Log) : t[i] = Log[i].msg
    BY <2>1, <2>4
  <2> HIDE DEF t
  <2>6. Embeds(applied, t)
    BY <2>2, <2>5 DEF AppliedWithin, Embeds
  <2> QED BY <2>6 DEF t
<1> QED BY AlwaysSound, <1>1, PTL

=============================================================================
