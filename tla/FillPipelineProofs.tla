------------------------- MODULE FillPipelineProofs -------------------------
(***************************************************************************)
(* Proofs about FillPipeline, for any replicas, orders and numbers of      *)
(* fills:                                                                  *)
(*   PipelineTyped, FillsAppliedOnce, MoneyMatchesFills, RowsMatchFills,   *)
(*   RefinesSettlement, LocksBelongToTransactions.                         *)
(*                                                                         *)
(* The inductive invariant is Core: fills under way have ids of their own  *)
(* (Identified); the unique index lets one worker only past insert with a  *)
(* fill (Holding); and what was paid and moved of a fill is what its       *)
(* worker has reached, once and in the order of the code (Applied). The    *)
(* theorems about money and rows compare sums over fills: a step adds at   *)
(* most the fill of one worker to them. RowsMatchFills also needs that the *)
(* engine fills no order beyond its quantity (BookSound), and that what a  *)
(* worker loaded from a row is no more than what was written to it         *)
(* (OrdersSound): two workers that load the same row lose an update, and   *)
(* gain none.  From Core it follows, too, that each step is one of the     *)
(* abstract specification Settlement or changes none of its variables.     *)
(***************************************************************************)
EXTENDS FillPipeline, SumTheorems, SequenceTheorems

\* Worker r has a fill.
Busy(r) == worker[r].pc \notin {"idle", "down"}

\* It is past the unique index.
Past(r) == worker[r].pc \notin {"idle", "down", "insert"}

\* A fill that is under way or in the table.
Out(f) ==
    \/ f \in fills
    \/ \E r \in Replicas : Busy(r) /\ worker[r].fill = f
    \/ \E r \in Replicas : \E i \in 1 .. Len(inbox[r]) : inbox[r][i] = f

\* The fills of an order that are under way or in the table.
OutOf(o) == {f \in Fills : Out(f) /\ o \in {f.maker, f.taker}}

\* The engine numbers its fills.
Identified ==
    /\ \A f \in Fills : Out(f) => f.id <= made /\ f.maker # f.taker
    /\ \A f, g \in Fills : Out(f) /\ Out(g) /\ f.id = g.id => f = g

\* What is past insert is in the table, and one worker's alone.
Holding ==
    /\ \A r \in Replicas : Busy(r) => worker[r].fill \in Fills
    /\ \A r \in Replicas : Past(r) => worker[r].fill \in fills
    /\ \A r, s \in Replicas : Past(r) /\ Past(s) /\ worker[r].fill = worker[s].fill => r = s

\* What was done of a fill when its worker is at pc.
PaidAt(pc) == IF pc \in {"buyer", "seller"} THEN 0 ELSE 1
TakerAt(pc) == IF pc \in {"buyer", "seller", "taker"} THEN 0 ELSE 1
MakerAt(pc) == IF pc \in {"buyer", "seller", "taker", "maker"} THEN 0 ELSE 1

\* A fill is paid once, then moved to the taker, then to the maker, by the worker
\* that has it, and only if it is in the table.
Applied ==
    /\ \A i \in FillIds :
          /\ paid[i] <= 1 /\ moved[i].taker <= paid[i] /\ moved[i].maker <= moved[i].taker
          /\ paid[i] > 0 => \E f \in fills : f.id = i
    /\ \A r \in Replicas : Past(r) =>
          /\ paid[worker[r].fill.id] = PaidAt(worker[r].pc)
          /\ moved[worker[r].fill.id].taker = TakerAt(worker[r].pc)
          /\ moved[worker[r].fill.id].maker = MakerAt(worker[r].pc)

\* The engine fills no order beyond its quantity.
BookSound == \A o \in Orders : Cost(OutOf(o)) + book[o] <= Quantity[o]

\* The inductive invariant.
Core == TypeOK /\ Identified /\ Holding /\ Applied

-----------------------------------------------------------------------------
\* The states of a worker.
Workers == [pc : Places, fill : Fills \cup {None}, seen : Nat]

\* The step of a worker: r goes to pc with fill and seen, the others stay.
Turn(r, pc, fill, seen) ==
    /\ worker' \in [Replicas -> Workers]
    /\ worker'[r].pc = pc /\ worker'[r].fill = fill /\ worker'[r].seen = seen
    /\ \A s \in Replicas \ {r} : worker'[s] = worker[s]

\* What an update of one worker does.
LEMMA Turns ==
  ASSUME worker \in [Replicas -> Workers], NEW r \in Replicas, NEW q \in Workers,
         worker' = [worker EXCEPT ![r] = q]
  PROVE  Turn(r, q.pc, q.fill, q.seen)
<1>1. worker'[r] = q /\ worker' \in [Replicas -> Workers] /\ \A s \in Replicas \ {r} : worker'[s] = worker[s]
  OBVIOUS
<1> QED BY <1>1 DEF Turn

\* A worker that goes on with its fill.
LEMMA TurnGoto ==
  ASSUME worker \in [Replicas -> Workers], NEW r \in Replicas, NEW pc \in Places, Goto(r, pc)
  PROVE  Turn(r, pc, worker[r].fill, worker[r].seen)
<1> DEFINE q == [worker[r] EXCEPT !.pc = pc]
<1>1. q \in Workers /\ q.pc = pc /\ q.fill = worker[r].fill /\ q.seen = worker[r].seen
  BY DEF Workers
<1>2. worker' = [worker EXCEPT ![r] = q]
  BY DEF Goto
<1> HIDE DEF q
<1> QED BY <1>1, <1>2, Turns

\* A worker that is done.
LEMMA TurnDone ==
  ASSUME worker \in [Replicas -> Workers], NEW r \in Replicas, Done(r)
  PROVE  Turn(r, "idle", None, 0)
<1>1. Idle \in Workers /\ Idle.pc = "idle" /\ Idle.fill = None /\ Idle.seen = 0
  BY DEF Workers, Idle, Places
<1> QED BY <1>1, Turns DEF Done

\* What a fill has in its fields.
LEMMA FillFields ==
  ASSUME NEW f \in Fills
  PROVE  /\ f.id \in FillIds /\ f.sequence \in FillIds /\ f.maker \in Orders /\ f.taker \in Orders
         /\ f.quantity \in Nat /\ f.quantity > 0
         /\ Buyer(f) \in Users /\ Seller(f) \in Users
  BY PipelineAssumption DEF Fills, Buyer, Seller

\* The parts of the type invariant.
LEMMA TypesOf ==
  ASSUME TypeOK
  PROVE  /\ worker \in [Replicas -> Workers]
         /\ \A r \in Replicas : worker[r].pc \in Places /\ worker[r].seen \in Nat
         /\ \A u \in Users : /\ balances[u] \in [available : Nat, reserved : Nat]
                             /\ balances[u].available \in Nat /\ balances[u].reserved \in Nat
         /\ \A i \in FillIds : paid[i] \in Nat /\ moved[i].taker \in Nat /\ moved[i].maker \in Nat
         /\ \A o \in Orders : orders[o].filled \in Nat /\ book[o] \in Nat
         /\ \A r \in Replicas : inbox[r] \in Seq(Fills) /\ Len(inbox[r]) \in Nat
  BY LenProperties DEF TypeOK, Workers

-----------------------------------------------------------------------------
(* Fills, and what they cost.                                              *)

\* Fills under way are finite in number: each has an id of its own.
LEMMA OutFinite ==
  ASSUME Identified, NEW S, S \subseteq {f \in Fills : Out(f)}
  PROVE  IsFiniteSet(S)
<1> DEFINE h == [f \in S |-> f.id]
<1>1. IsFiniteSet(FillIds)
  BY PipelineAssumption, FS_Interval DEF FillIds
<1>2. h \in Injection(S, FillIds)
  <2>1. h \in [S -> FillIds]
    BY FillFields
  <2>2. \A f, g \in S : h[f] = h[g] => f = g
    BY DEF Identified
  <2> QED BY <2>1, <2>2 DEF Injection, IsInjective
<1> QED BY <1>1, <1>2, FS_Injection DEF ExistsInjection

\* The finite sets of fills.
Batch(S) == S \subseteq Fills /\ IsFiniteSet(S)

\* What fills cost is a natural number.
LEMMA CostTyped ==
  ASSUME NEW S, Batch(S)
  PROVE  Cost(S) \in Nat
<1> DEFINE f == [x \in S |-> x.quantity]
<1>1. \A x \in S : f[x] \in Nat
  BY FillFields DEF Batch
<1>2. Cost(S) = SumFunctionOnSet(f, S)
  BY DEF Cost
<1> HIDE DEF f
<1> QED BY <1>1, <1>2, SumType DEF Batch

\* No fills cost nothing.
LEMMA CostOfNone == Cost({}) = 0 /\ Batch({})
  BY SumEmpty, FS_EmptySet DEF Cost, Batch

\* One more fill costs its quantity more.
LEMMA CostMore ==
  ASSUME NEW S, Batch(S), NEW x \in Fills, x \notin S
  PROVE  Batch(S \cup {x}) /\ Cost(S \cup {x}) = Cost(S) + x.quantity
<1> DEFINE f == [y \in S |-> y.quantity]
           T == S \cup {x}
           g == [y \in T |-> y.quantity]
<1>1. Batch(T)
  BY FS_AddElement DEF Batch
<1>2. /\ \A y \in S : f[y] \in Int /\ f[y] = g[y]
      /\ \A y \in T : g[y] \in Int
      /\ g[x] = x.quantity /\ x.quantity \in Int
  BY FillFields DEF Batch
<1>3. Cost(S) = SumFunctionOnSet(f, S) /\ Cost(T) = SumFunctionOnSet(g, T)
  BY DEF Cost
<1>4. S \ {x} = T \ {x} /\ x \in T /\ x \notin S
  OBVIOUS
<1>5. SumFunctionOnSet(f, S) \in Nat
  BY <1>3, CostTyped
<1> HIDE DEF f, g, T
<1>6. SumFunctionOnSet(g, T) = SumFunctionOnSet(f, S) + (IF x \in T THEN g[x] ELSE 0)
                                                     - (IF x \in S THEN f[x] ELSE 0)
  BY <1>2, <1>4, SumDiffer DEF Batch
<1>7. Cost(T) = Cost(S) + x.quantity
  BY <1>2, <1>3, <1>4, <1>5, <1>6
<1> QED BY <1>1, <1>7 DEF T

\* More fills cost no less.
LEMMA CostMonotone ==
  ASSUME NEW T, Batch(T), NEW S, S \subseteq T
  PROVE  Batch(S) /\ Cost(S) <= Cost(T)
<1> DEFINE f == [y \in S |-> y.quantity]
           g == [y \in T |-> y.quantity]
<1>1. Batch(S)
  BY FS_Subset DEF Batch
<1>2. \A y \in T : g[y] \in Nat
  BY FillFields DEF Batch
<1>3. \A y \in S : f[y] = g[y]
  OBVIOUS
<1>4. Cost(S) = SumFunctionOnSet(f, S) /\ Cost(T) = SumFunctionOnSet(g, T)
  BY DEF Cost
<1> HIDE DEF f, g
<1>5. SumFunctionOnSet(f, S) = SumFunctionOnSet(g, S)
  BY <1>1, <1>3, SumSame DEF Batch
<1>6. SumFunctionOnSet(g, S) <= SumFunctionOnSet(g, T)
  BY <1>2, SumMonotone DEF Batch
<1> QED BY <1>1, <1>4, <1>5, <1>6

-----------------------------------------------------------------------------
\* Core holds at first.
LEMMA CoreInit == Init => Core
<1> SUFFICES ASSUME Init PROVE Core
  OBVIOUS
<1>1. Idle \in Workers /\ Idle.pc = "idle"
  BY DEF Workers, Idle, Places
<1>2. \A r \in Replicas : worker[r].pc = "idle" /\ inbox[r] = <<>> /\ Len(inbox[r]) = 0
  BY <1>1, EmptySeq DEF Init
<1>3. TypeOK
  <2>1. worker \in [Replicas -> Workers] /\ inbox \in [Replicas -> Seq(Fills)]
    BY <1>1, EmptySeq DEF Init
  <2>2. /\ made \in 0 .. MaxFills /\ sequence \in 0 .. made /\ restarts \in 0 .. MaxRestarts
        /\ book \in [Orders -> Nat]
    BY PipelineAssumption DEF Init
  <2>3. /\ balances \in [Users -> [available : Nat, reserved : Nat]]
        /\ locks \in [Users -> Replicas \cup {None}] /\ fills \subseteq Fills
    BY PipelineAssumption DEF Init
  <2>4. /\ orders \in [Orders -> [filled : Nat, status : {"open", "partial", "filled"}]]
        /\ paid \in [FillIds -> Nat]
        /\ moved \in [FillIds -> [taker : Nat, maker : Nat]]
    BY DEF Init
  <2> QED BY <2>1, <2>2, <2>3, <2>4 DEF TypeOK, Workers
<1>4. \A f : ~Out(f)
  BY <1>2 DEF Init, Out, Busy
<1>5. Identified
  BY <1>4 DEF Identified
<1>6. Holding
  BY <1>2 DEF Holding, Busy, Past
<1>7. Applied
  BY <1>2 DEF Applied, Past, Init
<1> QED BY <1>3, <1>5, <1>6, <1>7 DEF Core

-----------------------------------------------------------------------------
(* The engine.                                                             *)

\* No fill comes up and none is made: what identifies them stays.
LEMMA IdentifiedKept ==
  ASSUME Identified, made' = made, \A f \in Fills : Out(f)' => Out(f)
  PROVE  Identified'
  BY DEF Identified

\* The engine makes one new fill, with a new id.
LEMMA MakeFillDoes ==
  ASSUME Core, NEW maker \in Orders, NEW taker \in Orders, NEW q \in 1 .. Quantity[maker],
         MakeFill(maker, taker, q)
  PROVE  /\ Core'
         /\ \E f \in Fills :
              /\ f.quantity = q /\ f.maker = maker /\ f.taker = taker /\ ~Out(f)
              /\ \A g \in Fills : Out(g)' => Out(g) \/ g = f
<1> DEFINE n == [id |-> made + 1, sequence |-> sequence + 1,
                 maker |-> maker, taker |-> taker, quantity |-> q]
<1>1. /\ TypeOK /\ made < MaxFills /\ maker # taker /\ q <= book[maker] /\ q <= book[taker] /\ q > 0
      /\ made' = made + 1 /\ sequence' = sequence + 1
      /\ book' = [book EXCEPT ![maker] = @ - q, ![taker] = @ - q]
      /\ UNCHANGED <<restarts, worker, fills, moneyVars, orders, moved>>
  BY DEF Core, MakeFill
<1>2. PICK R \in SUBSET Up : inbox' = [r \in Replicas |-> IF r \in R THEN Append(inbox[r], n) ELSE inbox[r]]
  BY DEF MakeFill
<1>3. /\ q \in Nat /\ made \in Nat /\ sequence \in Nat /\ sequence <= made /\ MaxFills \in Nat
      /\ made' \in FillIds /\ sequence' \in FillIds
  BY <1>1, PipelineAssumption DEF TypeOK, FillIds
<1>4. /\ n \in Fills /\ n.id = made + 1 /\ n.maker = maker /\ n.taker = taker /\ n.quantity = q
  BY <1>1, <1>3 DEF Fills
<1> HIDE DEF n
<1>5. ~Out(n) /\ \A f \in Fills : Out(f) => f.id # made + 1
  <2>1. \A f \in Fills : Out(f) => f.id # made + 1
    BY <1>3, FillFields DEF Core, Identified, FillIds
  <2> QED BY <1>4, <2>1
<1>6. /\ inbox' \in [Replicas -> Seq(Fills)]
      /\ \A r \in Replicas : \A i \in 1 .. Len(inbox'[r]) :
           inbox'[r][i] = n \/ \E j \in 1 .. Len(inbox[r]) : inbox'[r][i] = inbox[r][j]
  <2> SUFFICES ASSUME NEW r \in Replicas
               PROVE  /\ inbox'[r] \in Seq(Fills)
                      /\ \A i \in 1 .. Len(inbox'[r]) :
                           inbox'[r][i] = n \/ \E j \in 1 .. Len(inbox[r]) : inbox'[r][i] = inbox[r][j]
    BY <1>2
  <2>1. inbox[r] \in Seq(Fills)
    BY <1>1, TypesOf
  <2>2. /\ Append(inbox[r], n) \in Seq(Fills)
        /\ Len(Append(inbox[r], n)) = Len(inbox[r]) + 1
        /\ \A i \in 1 .. Len(inbox[r]) : Append(inbox[r], n)[i] = inbox[r][i]
        /\ Append(inbox[r], n)[Len(inbox[r]) + 1] = n
    BY <1>4, <2>1, AppendProperties
  <2>3. Len(inbox[r]) \in Nat
    BY <2>1, LenProperties
  <2>4. CASE r \in R
    <3>1. inbox'[r] = Append(inbox[r], n)
      BY <1>2, <2>4
    <3> QED BY <2>2, <2>3, <3>1
  <2>5. CASE r \notin R
    BY <1>2, <2>1, <2>5
  <2> QED BY <2>4, <2>5
<1>7. \A f \in Fills : Out(f)' => Out(f) \/ f = n
  BY <1>1, <1>6 DEF Out, Busy
<1>8. Identified'
  <2>1. \A f \in Fills : Out(f)' => f.id <= made' /\ f.maker # f.taker
    BY <1>1, <1>3, <1>4, <1>7, FillFields DEF Core, Identified, FillIds
  <2>2. ASSUME NEW f \in Fills, NEW g \in Fills, Out(f)', Out(g)', f.id = g.id
        PROVE  f = g
    BY <1>4, <1>5, <1>7, <2>2 DEF Core, Identified
  <2> QED BY <2>1, <2>2 DEF Identified
<1>9. book' \in [Orders -> Nat]
  <2>1. book \in [Orders -> Nat]
    BY <1>1 DEF TypeOK
  <2> QED BY <1>1, <1>3, <2>1
<1>10. TypeOK'
  <2>1. made' \in 0 .. MaxFills /\ sequence' \in 0 .. made'
    BY <1>1, <1>3 DEF FillIds
  <2> QED BY <1>1, <1>6, <1>9, <2>1 DEF TypeOK, moneyVars
<1>11. Holding' /\ Applied'
  BY <1>1 DEF Core, Holding, Applied, Busy, Past, moneyVars
<1> QED BY <1>4, <1>5, <1>7, <1>8, <1>10, <1>11 DEF Core

\* A restart of the engine forgets its books and its numbers, and no fill.
LEMMA RestartDoes ==
  ASSUME Core, Restart
  PROVE  Core' /\ \A f \in Fills : Out(f)' => Out(f)
<1>1. /\ TypeOK /\ restarts < MaxRestarts /\ restarts' = restarts + 1 /\ sequence' = 0
      /\ book' = [o \in Orders |-> IF book[o] < Quantity[o] THEN 0 ELSE book[o]]
      /\ UNCHANGED <<made, inbox, worker, fills, moneyVars, orders, moved>>
  BY DEF Core, Restart
<1>2. TypeOK'
  <2>1. book' \in [Orders -> Nat]
    BY <1>1 DEF TypeOK
  <2>2. restarts' \in 0 .. MaxRestarts /\ sequence' \in 0 .. made
    BY <1>1, PipelineAssumption DEF TypeOK
  <2> QED BY <1>1, <2>1, <2>2 DEF TypeOK, moneyVars
<1>3. \A f \in Fills : Out(f)' => Out(f)
  BY <1>1 DEF Out, Busy
<1>4. Identified' /\ Holding' /\ Applied'
  BY <1>1, <1>3, IdentifiedKept DEF Core, Holding, Applied, Busy, Past, moneyVars
<1> QED BY <1>2, <1>3, <1>4 DEF Core

-----------------------------------------------------------------------------
(* The replicas.                                                           *)

\* Two workers past insert have different fills.
LEMMA Apart ==
  ASSUME Core, NEW r \in Replicas, NEW s \in Replicas, Past(r), Past(s), r # s
  PROVE  worker[r].fill.id # worker[s].fill.id
<1>1. /\ worker[r].fill \in Fills /\ worker[s].fill \in Fills /\ Out(worker[r].fill) /\ Out(worker[s].fill)
      /\ worker[r].fill # worker[s].fill
  BY DEF Core, Holding, Out, TypeOK
<1> QED BY <1>1 DEF Core, Identified

\* A worker goes on with a fill under way, which is in the table once it is past insert.
LEMMA CoreTurn ==
  ASSUME Core, NEW r \in Replicas, NEW pc \in Places, NEW fill, NEW seen, Turn(r, pc, fill, seen),
         made' = made,
         \A s \in Replicas : \A i \in 1 .. Len(inbox'[s]) :
            \E j \in 1 .. Len(inbox[s]) : inbox'[s][i] = inbox[s][j],
         fills \subseteq fills',
         \A f \in fills' : Out(f),
         pc \notin {"idle", "down"} => fill \in Fills /\ Out(fill),
         pc \notin {"idle", "down", "insert"} =>
            fill \in fills' /\ \A s \in Replicas \ {r} : Past(s) => worker[s].fill # fill
  PROVE  Identified' /\ Holding' /\ \A f \in Fills : Out(f)' => Out(f)
<1>1. /\ worker'[r].pc = pc /\ worker'[r].fill = fill
      /\ \A s \in Replicas \ {r} : worker'[s] = worker[s]
  BY DEF Turn
<1>2. \A f \in Fills : Out(f)' => Out(f)
  <2> SUFFICES ASSUME NEW f \in Fills, Out(f)' PROVE Out(f)
    OBVIOUS
  <2>1. CASE f \in fills'
    BY <2>1
  <2>2. ASSUME NEW s \in Replicas, Busy(s)', worker'[s].fill = f PROVE Out(f)
    BY <1>1, <2>2 DEF Busy, Out
  <2>3. ASSUME NEW s \in Replicas, NEW i \in 1 .. Len(inbox'[s]), inbox'[s][i] = f PROVE Out(f)
    BY <2>3 DEF Out
  <2> QED BY <2>1, <2>2, <2>3 DEF Out
<1>3. Identified'
  BY <1>2, IdentifiedKept DEF Core
<1>4. Holding'
  <2>1. \A s \in Replicas \ {r} : (Busy(s)' <=> Busy(s)) /\ (Past(s)' <=> Past(s))
    BY <1>1 DEF Busy, Past
  <2>2. Busy(r)' => fill \in Fills
    BY <1>1 DEF Busy
  <2>3. Past(r)' => fill \in fills' /\ \A s \in Replicas \ {r} : Past(s) => worker[s].fill # fill
    BY <1>1 DEF Past
  <2>4. \A s \in Replicas : Busy(s)' => worker'[s].fill \in Fills
    BY <1>1, <2>1, <2>2 DEF Core, Holding
  <2>5. \A s \in Replicas : Past(s)' => worker'[s].fill \in fills'
    BY <1>1, <2>1, <2>3 DEF Core, Holding
  <2>6. ASSUME NEW s \in Replicas, NEW t \in Replicas, Past(s)', Past(t)', worker'[s].fill = worker'[t].fill
        PROVE  s = t
    BY <1>1, <2>1, <2>3, <2>6 DEF Core, Holding
  <2> QED BY <2>4, <2>5, <2>6 DEF Holding
<1> QED BY <1>2, <1>3, <1>4

\* What a step does of fill i, its worker r has done at pc.
LEMMA AppliedTurn ==
  ASSUME Core, NEW r \in Replicas, NEW pc \in Places, NEW fill, NEW seen, Turn(r, pc, fill, seen),
         NEW i \in FillIds, fills \subseteq fills',
         \A j \in FillIds \ {i} : paid'[j] = paid[j] /\ moved'[j] = moved[j],
         paid'[i] <= 1, moved'[i].taker <= paid'[i], moved'[i].maker <= moved'[i].taker,
         \E f \in fills' : f.id = i,
         \A s \in Replicas \ {r} : Past(s) => worker[s].fill.id # i,
         fill.id = i,
         paid'[i] = PaidAt(pc) /\ moved'[i].taker = TakerAt(pc) /\ moved'[i].maker = MakerAt(pc)
  PROVE  Applied'
<1>1. /\ worker'[r].pc = pc /\ worker'[r].fill = fill
      /\ \A s \in Replicas \ {r} : worker'[s] = worker[s]
  BY DEF Turn
<1>2. \A j \in FillIds :
        /\ paid'[j] <= 1 /\ moved'[j].taker <= paid'[j] /\ moved'[j].maker <= moved'[j].taker
        /\ paid'[j] > 0 => \E f \in fills' : f.id = j
  BY DEF Core, Applied
<1>3. ASSUME NEW s \in Replicas \ {r}, Past(s)'
      PROVE  /\ paid'[worker'[s].fill.id] = PaidAt(worker'[s].pc)
             /\ moved'[worker'[s].fill.id].taker = TakerAt(worker'[s].pc)
             /\ moved'[worker'[s].fill.id].maker = MakerAt(worker'[s].pc)
  <2>1. worker'[s] = worker[s] /\ Past(s)
    BY <1>1, <1>3 DEF Past
  <2>2. worker[s].fill.id \in FillIds \ {i}
    BY <2>1, FillFields DEF Core, Holding, TypeOK
  <2> QED BY <2>1, <2>2 DEF Core, Applied
<1> QED BY <1>1, <1>2, <1>3 DEF Applied

\* A worker that gives a fill up, or has not inserted it, has done nothing in this step.
LEMMA AppliedKept ==
  ASSUME Core, NEW r \in Replicas, NEW pc \in {"idle", "down", "insert"}, NEW fill, NEW seen,
         Turn(r, pc, fill, seen), UNCHANGED <<fills, paid, moved>>
  PROVE  Applied'
<1>1. /\ worker'[r].pc = pc /\ \A s \in Replicas \ {r} : worker'[s] = worker[s]
  BY DEF Turn
<1>2. ~Past(r)' /\ \A s \in Replicas \ {r} : Past(s)' <=> Past(s)
  BY <1>1 DEF Past
<1> QED BY <1>1, <1>2 DEF Core, Applied

\* A worker that gives its locks up leaves those of the others.
LEMMA Unlocks ==
  ASSUME TypeOK, NEW r \in Replicas
  PROVE  Unlocked(r) \in [Users -> Replicas \cup {None}]
  BY DEF TypeOK, Unlocked

\* A worker takes the next fill of its inbox.
LEMMA ReceiveDoes ==
  ASSUME Core, NEW r \in Replicas, Receive(r)
  PROVE  /\ Core' /\ \A f \in Fills : Out(f)' => Out(f)
         /\ \E f : Turn(r, "insert", f, 0)
<1> DEFINE f == Head(inbox[r])
           q == [pc |-> "insert", fill |-> f, seen |-> 0]
<1>1. /\ TypeOK /\ worker[r].pc = "idle" /\ inbox[r] # <<>>
      /\ worker' = [worker EXCEPT ![r] = q] /\ inbox' = [inbox EXCEPT ![r] = Tail(@)]
      /\ UNCHANGED <<engineVars, fills, moneyVars, orders, moved>>
  BY DEF Core, Receive, At
<1>2. /\ inbox[r] \in Seq(Fills) /\ f = inbox[r][1] /\ Len(inbox[r]) \in Nat /\ Len(inbox[r]) >= 1
      /\ Tail(inbox[r]) \in Seq(Fills) /\ Len(Tail(inbox[r])) = Len(inbox[r]) - 1
      /\ \A i \in 1 .. Len(Tail(inbox[r])) : Tail(inbox[r])[i] = inbox[r][i + 1]
  BY <1>1, TypesOf, HeadTailProperties, LenProperties, EmptySeq
<1>3. f \in Fills /\ Out(f)
  <2>1. 1 \in 1 .. Len(inbox[r])
    BY <1>2
  <2>2. inbox[r][1] \in Fills
    BY <1>2, <2>1, ElementOfSeq
  <2> QED BY <1>2, <2>1, <2>2 DEF Out
<1>4. q \in Workers /\ q.pc = "insert" /\ q.fill = f /\ q.seen = 0
  BY <1>3 DEF Workers, Places
<1> HIDE DEF q
<1>5. Turn(r, "insert", f, 0)
  BY <1>1, <1>4, Turns, TypesOf
<1>6. /\ inbox' \in [Replicas -> Seq(Fills)]
      /\ \A s \in Replicas : \A i \in 1 .. Len(inbox'[s]) :
            \E j \in 1 .. Len(inbox[s]) : inbox'[s][i] = inbox[s][j]
  <2>1. /\ inbox' \in [Replicas -> Seq(Fills)] /\ inbox'[r] = Tail(inbox[r])
        /\ \A s \in Replicas \ {r} : inbox'[s] = inbox[s]
    BY <1>1, <1>2 DEF TypeOK
  <2>2. ASSUME NEW i \in 1 .. Len(inbox'[r]) PROVE \E j \in 1 .. Len(inbox[r]) : inbox'[r][i] = inbox[r][j]
    <3>1. i + 1 \in 1 .. Len(inbox[r]) /\ inbox'[r][i] = inbox[r][i + 1]
      BY <1>2, <2>1, <2>2
    <3> QED BY <3>1
  <2> QED BY <2>1, <2>2
<1>7. TypeOK'
  BY <1>1, <1>5, <1>6 DEF TypeOK, engineVars, moneyVars, Turn, Workers
<1>8. Identified' /\ Holding' /\ \A g \in Fills : Out(g)' => Out(g)
  <2>1. "insert" \in Places /\ \A g \in fills' : Out(g)
    BY <1>1 DEF Places, Out
  <2> HIDE DEF f
  <2> QED BY <1>1, <1>3, <1>5, <1>6, <2>1, CoreTurn DEF engineVars
<1>9. Applied'
  <2> HIDE DEF f
  <2> QED BY <1>1, <1>5, AppliedKept DEF moneyVars, Places
<1> HIDE DEF f
<1> QED BY <1>5, <1>7, <1>8, <1>9 DEF Core

\* Nothing was done of a fill that is not in the table.
LEMMA NotBegun ==
  ASSUME Core, NEW f \in Fills, Out(f), f \notin fills
  PROVE  /\ paid[f.id] = 0 /\ moved[f.id].taker = 0 /\ moved[f.id].maker = 0
         /\ \A g \in fills : g.id # f.id
<1>1. \A g \in fills : g.id # f.id
  BY DEF Core, Identified, Out, TypeOK
<1>2. f.id \in FillIds
  BY FillFields
<1> QED BY <1>1, <1>2, TypesOf DEF Core, Applied

\* A fill goes into the table, or is dropped there as a duplicate.
LEMMA InsertDoes ==
  ASSUME Core, NEW r \in Replicas, Insert(r)
  PROVE  /\ Core' /\ \A f \in Fills : Out(f)' => Out(f)
         /\ \/ Turn(r, "idle", None, 0) /\ fills' = fills
            \/ \E f \in Fills : /\ Turn(r, "buyer", f, worker[r].seen)
                                /\ fills' = fills \cup {f} /\ f \notin fills
                                /\ paid[f.id] = 0 /\ moved[f.id].maker = 0
<1> DEFINE f == worker[r].fill
<1>1. /\ TypeOK /\ worker[r].pc = "insert" /\ UNCHANGED <<engineVars, inbox, moneyVars, orders, moved>>
      /\ worker \in [Replicas -> Workers] /\ {"idle", "buyer"} \subseteq Places
  BY TypesOf DEF Core, Insert, At, Places
<1>2. f \in Fills /\ Out(f)
  BY <1>1 DEF Core, Holding, Busy, Out
<1>3. \A s \in Replicas : \A i \in 1 .. Len(inbox'[s]) :
        \E j \in 1 .. Len(inbox[s]) : inbox'[s][i] = inbox[s][j]
  BY <1>1
<1> HIDE DEF f
<1>4. CASE Known(f)
  <2>1. fills' = fills /\ Turn(r, "idle", None, 0)
    BY <1>1, <1>4, TurnDone DEF Insert, f
  <2>2. TypeOK'
    BY <1>1, <2>1 DEF TypeOK, engineVars, moneyVars, Turn, Workers
  <2>3. Identified' /\ Holding' /\ \A g \in Fills : Out(g)' => Out(g)
    <3>1. \A g \in fills' : Out(g)
      BY <2>1 DEF Out
    <3> QED BY <1>1, <1>3, <2>1, <3>1, CoreTurn DEF engineVars
  <2>4. Applied'
    BY <1>1, <2>1, AppliedKept DEF moneyVars
  <2> QED BY <2>1, <2>2, <2>3, <2>4 DEF Core
<1>5. CASE ~Known(f)
  <2>1. fills' = fills \cup {f} /\ Turn(r, "buyer", f, worker[r].seen)
    BY <1>1, <1>5, TurnGoto DEF Insert, f
  <2>2. f \notin fills
    BY <1>5 DEF Known
  <2>3. TypeOK'
    BY <1>1, <1>2, <2>1 DEF TypeOK, engineVars, moneyVars, Turn, Workers
  <2>4. \A s \in Replicas \ {r} : Past(s) => worker[s].fill # f
    BY <2>2 DEF Core, Holding
  <2>5. Identified' /\ Holding' /\ \A g \in Fills : Out(g)' => Out(g)
    <3>1. \A g \in fills' : Out(g)
      BY <1>2, <2>1 DEF Out
    <3> QED BY <1>1, <1>2, <1>3, <2>1, <2>4, <3>1, CoreTurn DEF engineVars
  <2>6. /\ paid[f.id] = 0 /\ moved[f.id].taker = 0 /\ moved[f.id].maker = 0
        /\ \A g \in fills : g.id # f.id
    BY <1>2, <2>2, NotBegun
  <2>7. Applied'
    <3>1. f.id \in FillIds /\ \A s \in Replicas \ {r} : Past(s) => worker[s].fill.id # f.id
      BY <1>2, <2>6, FillFields DEF Core, Holding
    <3>2. /\ fills \subseteq fills' /\ \E g \in fills' : g.id = f.id
          /\ paid' = paid /\ moved' = moved
      BY <1>1, <2>1 DEF moneyVars
    <3>3. PaidAt("buyer") = 0 /\ TakerAt("buyer") = 0 /\ MakerAt("buyer") = 0
      BY DEF PaidAt, TakerAt, MakerAt
    <3> QED BY <1>1, <2>1, <2>6, <3>1, <3>2, <3>3, AppliedTurn
  <2> QED BY <1>2, <2>1, <2>2, <2>3, <2>5, <2>6, <2>7 DEF Core
<1> QED BY <1>4, <1>5

\* A worker goes on with the fill it has inserted.
LEMMA Onward ==
  ASSUME Core, NEW r \in Replicas, Past(r),
         NEW pc \in Places \ {"idle", "down", "insert"}, NEW seen,
         Turn(r, pc, worker[r].fill, seen), TypeOK',
         UNCHANGED <<engineVars, inbox, fills>>,
         \A j \in FillIds \ {worker[r].fill.id} : paid'[j] = paid[j] /\ moved'[j] = moved[j],
         paid'[worker[r].fill.id] = PaidAt(pc),
         moved'[worker[r].fill.id].taker = TakerAt(pc),
         moved'[worker[r].fill.id].maker = MakerAt(pc)
  PROVE  Core' /\ \A f \in Fills : Out(f)' => Out(f)
<1> DEFINE f == worker[r].fill
<1>1. f \in fills /\ f \in Fills /\ Out(f) /\ f.id \in FillIds /\ fills' = fills /\ inbox' = inbox /\ made' = made
  BY FillFields DEF Core, Holding, TypeOK, Out, engineVars
<1>2. /\ \A s \in Replicas : \A i \in 1 .. Len(inbox'[s]) :
           \E j \in 1 .. Len(inbox[s]) : inbox'[s][i] = inbox[s][j]
      /\ \A g \in fills' : Out(g)
  BY <1>1 DEF Out
<1>3. \A s \in Replicas \ {r} : Past(s) => worker[s].fill # f /\ worker[s].fill.id # f.id
  BY Apart
<1> HIDE DEF f
<1>4. Turn(r, pc, f, seen) /\ pc \in Places
  BY DEF f
<1>5. Identified' /\ Holding' /\ \A g \in Fills : Out(g)' => Out(g)
  BY <1>1, <1>2, <1>3, <1>4, CoreTurn
<1>6. Applied'
  <2>1. /\ PaidAt(pc) <= 1 /\ TakerAt(pc) <= PaidAt(pc) /\ MakerAt(pc) <= TakerAt(pc)
    BY DEF PaidAt, TakerAt, MakerAt
  <2>2. /\ paid'[f.id] = PaidAt(pc) /\ moved'[f.id].taker = TakerAt(pc) /\ moved'[f.id].maker = MakerAt(pc)
        /\ \A j \in FillIds \ {f.id} : paid'[j] = paid[j] /\ moved'[j] = moved[j]
    BY DEF f
  <2> QED BY <1>1, <1>3, <1>4, <2>1, <2>2, AppliedTurn
<1> QED BY <1>5, <1>6 DEF Core

\* A worker gives its fill up.
LEMMA GivesUp ==
  ASSUME Core, NEW r \in Replicas, NEW pc \in {"idle", "down"}, NEW fill, NEW seen,
         Turn(r, pc, fill, seen), TypeOK',
         UNCHANGED <<engineVars, fills, paid, moved>>,
         \A s \in Replicas : inbox'[s] = inbox[s] \/ inbox'[s] = <<>>
  PROVE  Core' /\ \A f \in Fills : Out(f)' => Out(f)
<1>1. fills' = fills /\ made' = made /\ pc \in Places
  BY DEF engineVars, Places
<1>2. /\ \A s \in Replicas : \A i \in 1 .. Len(inbox'[s]) :
           \E j \in 1 .. Len(inbox[s]) : inbox'[s][i] = inbox[s][j]
      /\ \A g \in fills' : Out(g)
  BY <1>1, EmptySeq DEF Out
<1>3. Identified' /\ Holding' /\ \A g \in Fills : Out(g)' => Out(g)
  BY <1>1, <1>2, CoreTurn
<1>4. Applied'
  BY <1>1, AppliedKept
<1> QED BY <1>3, <1>4 DEF Core

\* The row of the buyer is locked; nothing is paid yet.
LEMMA LockBuyerDoes ==
  ASSUME Core, NEW r \in Replicas, LockBuyer(r)
  PROVE  /\ Core' /\ \A f \in Fills : Out(f)' => Out(f)
         /\ Turn(r, "seller", worker[r].fill, worker[r].seen)
<1>1. /\ TypeOK /\ worker[r].pc = "buyer" /\ Goto(r, "seller")
      /\ locks' = [locks EXCEPT ![Buyer(worker[r].fill)] = r]
      /\ UNCHANGED <<engineVars, inbox, fills, balances, orders, paid, moved>>
      /\ Past(r) /\ "seller" \in Places \ {"idle", "down", "insert"}
  BY DEF Core, LockBuyer, At, Past, Places
<1>2. Turn(r, "seller", worker[r].fill, worker[r].seen)
  BY <1>1, TurnGoto, TypesOf
<1>3. TypeOK'
  <2>1. locks' \in [Users -> Replicas \cup {None}]
    BY <1>1 DEF TypeOK
  <2> QED BY <1>1, <1>2, <2>1 DEF TypeOK, engineVars, Turn, Workers
<1>4. /\ paid[worker[r].fill.id] = PaidAt("seller")
      /\ moved[worker[r].fill.id].taker = TakerAt("seller")
      /\ moved[worker[r].fill.id].maker = MakerAt("seller")
  BY <1>1 DEF Core, Applied, PaidAt, TakerAt, MakerAt
<1> QED BY <1>1, <1>2, <1>3, <1>4, Onward

\* The rows of balances.
Rows == [available : Nat, reserved : Nat]

\* What the buyer's row loses: the cost of the fill, and never more than it has.
LEMMA DeductedDoes ==
  ASSUME NEW b \in Rows, NEW x \in Nat
  PROVE  /\ Deducted(b, x) \in Rows /\ Deducted(b, x).available = b.available
         /\ Deducted(b, x).reserved <= b.reserved /\ Deducted(b, x).reserved + x >= b.reserved
<1> DEFINE left == IF b.reserved > x THEN b.reserved - x ELSE 0
<1>1. left \in Nat /\ left <= b.reserved /\ left + x >= b.reserved
  BY DEF Rows
<1>2. Deducted(b, x) = [b EXCEPT !.reserved = left]
  BY DEF Deducted
<1> HIDE DEF left
<1> QED BY <1>1, <1>2 DEF Rows

\* A deduction from one user's row.
LEMMA DeductedAt ==
  ASSUME NEW bs \in [Users -> Rows], NEW u \in Users, NEW x \in Nat,
         NEW cs, cs = [bs EXCEPT ![u] = Deducted(bs[u], x)]
  PROVE  /\ cs \in [Users -> Rows]
         /\ \A v \in Users : /\ cs[v].available = bs[v].available
                             /\ cs[v].reserved <= bs[v].reserved
                             /\ cs[v].reserved + (IF v = u THEN x ELSE 0) >= bs[v].reserved
<1>1. /\ Deducted(bs[u], x) \in Rows /\ Deducted(bs[u], x).available = bs[u].available
      /\ Deducted(bs[u], x).reserved <= bs[u].reserved /\ Deducted(bs[u], x).reserved + x >= bs[u].reserved
  BY DeductedDoes
<1>2. cs \in [Users -> Rows] /\ cs[u] = Deducted(bs[u], x) /\ \A v \in Users \ {u} : cs[v] = bs[v]
  BY <1>1
<1>3. \A v \in Users : bs[v].reserved \in Nat
  BY DEF Rows
<1> QED BY <1>1, <1>2, <1>3

\* The seller is paid and the transaction committed.
LEMMA PaySellerDoes ==
  ASSUME Core, NEW r \in Replicas, PaySeller(r)
  PROVE  LET f == worker[r].fill
         IN /\ Core' /\ \A g \in Fills : Out(g)' => Out(g)
            /\ Turn(r, "taker", f, worker[r].seen)
            /\ f \in fills /\ f.id \in FillIds /\ paid[f.id] = 0 /\ paid'[f.id] = 1
            /\ \A j \in FillIds \ {f.id} : paid'[j] = paid[j]
            /\ \A u \in Users :
                  /\ balances'[u].available = balances[u].available + (IF Seller(f) = u THEN f.quantity ELSE 0)
                  /\ balances'[u].reserved <= balances[u].reserved
                  /\ balances'[u].reserved + (IF Seller(f) = u THEN f.quantity ELSE 0)
                       + (IF Buyer(f) = u THEN f.quantity ELSE 0) >= balances[u].reserved
<1> DEFINE f == worker[r].fill
           bought == [balances EXCEPT ![Buyer(f)] = Deducted(balances[Buyer(f)], f.quantity)]
           sold == [bought EXCEPT ![Seller(f)] = Deducted(bought[Seller(f)], f.quantity)]
<1>1. /\ TypeOK /\ worker[r].pc = "seller" /\ Goto(r, "taker") /\ locks' = Unlocked(r)
      /\ paid' = [paid EXCEPT ![f.id] = @ + 1]
      /\ UNCHANGED <<engineVars, inbox, fills, orders, moved>>
      /\ Past(r) /\ "taker" \in Places \ {"idle", "down", "insert"}
  BY DEF Core, PaySeller, At, Past, Places
<1>2. balances' = [sold EXCEPT ![Seller(f)].available = @ + f.quantity]
  BY DEF PaySeller, Credited
<1>3. /\ f \in fills /\ f \in Fills /\ f.id \in FillIds /\ f.quantity \in Nat
      /\ Buyer(f) \in Users /\ Seller(f) \in Users
  BY <1>1, FillFields DEF Core, Holding, TypeOK
<1>4. paid[f.id] = 0 /\ moved[f.id].taker = 0 /\ moved[f.id].maker = 0
  BY <1>1 DEF Core, Applied, PaidAt, TakerAt, MakerAt
<1>5. Turn(r, "taker", f, worker[r].seen)
  BY <1>1, TurnGoto, TypesOf
<1> HIDE DEF f
<1>6. /\ paid' \in [FillIds -> Nat] /\ paid'[f.id] = 1
      /\ \A j \in FillIds \ {f.id} : paid'[j] = paid[j]
  BY <1>1, <1>3, <1>4 DEF TypeOK
<1>7. balances \in [Users -> Rows]
  BY <1>1 DEF TypeOK, Rows
<1>8. /\ bought \in [Users -> Rows]
      /\ \A v \in Users : /\ bought[v].available = balances[v].available
                          /\ bought[v].reserved <= balances[v].reserved
                          /\ bought[v].reserved + (IF v = Buyer(f) THEN f.quantity ELSE 0) >= balances[v].reserved
  <2>1. bought = [balances EXCEPT ![Buyer(f)] = Deducted(balances[Buyer(f)], f.quantity)]
    OBVIOUS
  <2> HIDE DEF bought
  <2> QED BY <1>3, <1>7, <2>1, DeductedAt
<1> HIDE DEF bought
<1>9. /\ sold \in [Users -> Rows]
      /\ \A v \in Users : /\ sold[v].available = bought[v].available
                          /\ sold[v].reserved <= bought[v].reserved
                          /\ sold[v].reserved + (IF v = Seller(f) THEN f.quantity ELSE 0) >= bought[v].reserved
  <2>1. sold = [bought EXCEPT ![Seller(f)] = Deducted(bought[Seller(f)], f.quantity)]
    OBVIOUS
  <2> HIDE DEF sold
  <2> QED BY <1>3, <1>8, <2>1, DeductedAt
<1> HIDE DEF sold
<1>10. /\ balances' \in [Users -> Rows]
       /\ \A v \in Users :
            /\ balances'[v].available = sold[v].available + (IF v = Seller(f) THEN f.quantity ELSE 0)
            /\ balances'[v].reserved = sold[v].reserved
  <2> DEFINE s == Seller(f)
             b == [sold[s] EXCEPT !.available = @ + f.quantity]
  <2>1. /\ b \in Rows /\ b.available = sold[s].available + f.quantity /\ b.reserved = sold[s].reserved
    BY <1>3, <1>9 DEF Rows
  <2>2. balances' = [sold EXCEPT ![s] = b]
    BY <1>2
  <2>3. \A v \in Users : sold[v].available \in Nat
    BY <1>9 DEF Rows
  <2>4. s \in Users
    BY <1>3
  <2> HIDE DEF b, s
  <2>5. balances' \in [Users -> Rows] /\ balances'[s] = b /\ \A v \in Users \ {s} : balances'[v] = sold[v]
    BY <1>9, <2>1, <2>2, <2>4
  <2>6. \A v \in Users :
            /\ balances'[v].available = sold[v].available + (IF v = s THEN f.quantity ELSE 0)
            /\ balances'[v].reserved = sold[v].reserved
    BY <2>1, <2>3, <2>5
  <2> QED BY <2>5, <2>6 DEF s
<1>11. \A v \in Users :
          /\ balances[v].available \in Nat /\ balances[v].reserved \in Nat
          /\ bought[v].reserved \in Nat /\ sold[v].reserved \in Nat
  BY <1>7, <1>8, <1>9 DEF Rows
<1>12. TypeOK'
  BY <1>1, <1>5, <1>6, <1>10, Unlocks DEF TypeOK, engineVars, Turn, Workers, Rows
<1>13. Core' /\ \A g \in Fills : Out(g)' => Out(g)
  <2>1. PaidAt("taker") = 1 /\ TakerAt("taker") = 0 /\ MakerAt("taker") = 0
    BY DEF PaidAt, TakerAt, MakerAt
  <2> QED BY <1>1, <1>4, <1>5, <1>6, <1>12, <2>1, Onward DEF f
<1>14. \A u \in Users :
                  /\ balances'[u].available = balances[u].available + (IF Seller(f) = u THEN f.quantity ELSE 0)
                  /\ balances'[u].reserved <= balances[u].reserved
                  /\ balances'[u].reserved + (IF Seller(f) = u THEN f.quantity ELSE 0)
                       + (IF Buyer(f) = u THEN f.quantity ELSE 0) >= balances[u].reserved
  BY <1>3, <1>8, <1>9, <1>10, <1>11
<1> QED BY <1>3, <1>4, <1>5, <1>6, <1>13, <1>14 DEF f

\* The taker's position moves.
LEMMA MoveTakerDoes ==
  ASSUME Core, NEW r \in Replicas, MoveTaker(r)
  PROVE  /\ Core' /\ \A f \in Fills : Out(f)' => Out(f)
         /\ Turn(r, "maker", worker[r].fill, worker[r].seen)
         /\ \A j \in FillIds : moved'[j].maker = moved[j].maker
<1> DEFINE f == worker[r].fill
           m == [moved[f.id] EXCEPT !.taker = @ + 1]
<1>1. /\ TypeOK /\ worker[r].pc = "taker" /\ Goto(r, "maker")
      /\ moved' = [moved EXCEPT ![f.id] = m]
      /\ UNCHANGED <<engineVars, inbox, fills, moneyVars, orders>>
      /\ Past(r) /\ "maker" \in Places \ {"idle", "down", "insert"}
  BY DEF Core, MoveTaker, At, Past, Places
<1>2. f.id \in FillIds /\ paid[f.id] = 1 /\ moved[f.id].taker = 0 /\ moved[f.id].maker = 0
  BY <1>1, FillFields DEF Core, Holding, TypeOK, Applied, PaidAt, TakerAt, MakerAt
<1>3. Turn(r, "maker", f, worker[r].seen)
  BY <1>1, TurnGoto, TypesOf
<1>4. m \in [taker : Nat, maker : Nat] /\ m.taker = 1 /\ m.maker = 0
  <2> HIDE DEF f
  <2>1. moved[f.id] \in [taker : Nat, maker : Nat]
    BY <1>1, <1>2 DEF TypeOK
  <2> QED BY <1>2, <2>1
<1> HIDE DEF m
<1>5. /\ moved' \in [FillIds -> [taker : Nat, maker : Nat]] /\ moved'[f.id] = m
      /\ \A j \in FillIds \ {f.id} : moved'[j] = moved[j]
  BY <1>1, <1>2, <1>4 DEF TypeOK
<1>6. TypeOK'
  BY <1>1, <1>3, <1>5 DEF TypeOK, engineVars, moneyVars, Turn, Workers
<1>7. PaidAt("maker") = 1 /\ TakerAt("maker") = 1 /\ MakerAt("maker") = 0
  BY DEF PaidAt, TakerAt, MakerAt
<1>8. Core' /\ \A g \in Fills : Out(g)' => Out(g)
  BY <1>1, <1>2, <1>3, <1>4, <1>5, <1>6, <1>7, Onward DEF moneyVars
<1> QED BY <1>2, <1>3, <1>4, <1>5, <1>8

\* The maker's position moves.
LEMMA MoveMakerDoes ==
  ASSUME Core, NEW r \in Replicas, MoveMaker(r)
  PROVE  /\ Core' /\ \A f \in Fills : Out(f)' => Out(f)
         /\ Turn(r, "loadMaker", worker[r].fill, worker[r].seen)
         /\ worker[r].fill \in fills /\ moved[worker[r].fill.id].maker = 0 /\ moved'[worker[r].fill.id].maker = 1
         /\ \A j \in FillIds \ {worker[r].fill.id} : moved'[j] = moved[j]
<1> DEFINE f == worker[r].fill
           m == [moved[f.id] EXCEPT !.maker = @ + 1]
<1>1. /\ TypeOK /\ worker[r].pc = "maker" /\ Goto(r, "loadMaker")
      /\ moved' = [moved EXCEPT ![f.id] = m]
      /\ UNCHANGED <<engineVars, inbox, fills, moneyVars, orders>>
      /\ Past(r) /\ "loadMaker" \in Places \ {"idle", "down", "insert"}
  BY DEF Core, MoveMaker, At, Past, Places
<1>2. f \in fills /\ f.id \in FillIds /\ paid[f.id] = 1 /\ moved[f.id].taker = 1 /\ moved[f.id].maker = 0
  BY <1>1, FillFields DEF Core, Holding, TypeOK, Applied, PaidAt, TakerAt, MakerAt
<1>3. Turn(r, "loadMaker", f, worker[r].seen)
  BY <1>1, TurnGoto, TypesOf
<1>4. m \in [taker : Nat, maker : Nat] /\ m.taker = 1 /\ m.maker = 1
  BY <1>1, <1>2 DEF TypeOK
<1> HIDE DEF m
<1>5. /\ moved' \in [FillIds -> [taker : Nat, maker : Nat]] /\ moved'[f.id] = m
      /\ \A j \in FillIds \ {f.id} : moved'[j] = moved[j]
  BY <1>1, <1>2, <1>4 DEF TypeOK
<1>6. TypeOK'
  BY <1>1, <1>3, <1>5 DEF TypeOK, engineVars, moneyVars, Turn, Workers
<1>7. PaidAt("loadMaker") = 1 /\ TakerAt("loadMaker") = 1 /\ MakerAt("loadMaker") = 1
  BY DEF PaidAt, TakerAt, MakerAt
<1>8. Core' /\ \A g \in Fills : Out(g)' => Out(g)
  BY <1>1, <1>2, <1>3, <1>4, <1>5, <1>6, <1>7, Onward DEF moneyVars
<1> QED BY <1>2, <1>3, <1>4, <1>5, <1>8

\* Where a worker is in the loop over the orders of its fill.
Updating == {"loadMaker", "writeMaker", "loadTaker", "writeTaker"}

\* Until update_orders ends, everything else was done.
LEMMA AllApplied ==
  ASSUME Core, NEW r \in Replicas, worker[r].pc \in Updating
  PROVE  /\ Past(r) /\ worker[r].fill \in fills /\ worker[r].fill \in Fills /\ worker[r].fill.id \in FillIds
         /\ \A pc \in Updating :
              /\ paid[worker[r].fill.id] = PaidAt(pc)
              /\ moved[worker[r].fill.id].taker = TakerAt(pc)
              /\ moved[worker[r].fill.id].maker = MakerAt(pc)
         /\ moved[worker[r].fill.id].maker = 1
<1>1. Past(r)
  BY DEF Past, Updating
<1>2. \A pc \in Updating : PaidAt(pc) = 1 /\ TakerAt(pc) = 1 /\ MakerAt(pc) = 1
  BY DEF PaidAt, TakerAt, MakerAt, Updating
<1> QED BY <1>1, <1>2, FillFields DEF Core, Holding, TypeOK, Applied

\* A worker reads the row of an order.
LEMMA LoadOrderDoes ==
  ASSUME Core, NEW r \in Replicas, LoadOrder(r)
  PROVE  /\ Core' /\ \A f \in Fills : Out(f)' => Out(f)
         /\ Turn(r, IF worker[r].pc = "loadMaker" THEN "writeMaker" ELSE "writeTaker",
                 worker[r].fill, orders[LoopOrder(r)].filled)
         /\ LoopOrder(r) \in Orders
<1> DEFINE pc == IF worker[r].pc = "loadMaker" THEN "writeMaker" ELSE "writeTaker"
           seen == orders[LoopOrder(r)].filled
           q == [worker[r] EXCEPT !.seen = seen, !.pc = pc]
<1>1. /\ TypeOK /\ worker[r].pc \in Updating
      /\ worker' = [worker EXCEPT ![r] = q]
      /\ UNCHANGED <<engineVars, inbox, fills, moneyVars, orders, moved>>
      /\ pc \in Updating /\ pc \in Places \ {"idle", "down", "insert"}
  BY DEF Core, LoadOrder, At, Updating, Places
<1>2. LoopOrder(r) \in Orders /\ seen \in Nat
  BY <1>1, AllApplied, FillFields, TypesOf DEF LoopOrder
<1>3. q \in Workers /\ q.pc = pc /\ q.fill = worker[r].fill /\ q.seen = seen
  BY <1>1, <1>2, TypesOf DEF Workers
<1> HIDE DEF q, pc, seen
<1>4. Turn(r, pc, worker[r].fill, seen)
  BY <1>1, <1>3, Turns, TypesOf
<1>5. TypeOK'
  BY <1>1, <1>4 DEF TypeOK, engineVars, moneyVars, Turn, Workers
<1>6. Core' /\ \A f \in Fills : Out(f)' => Out(f)
  BY <1>1, <1>4, <1>5, AllApplied, Onward DEF moneyVars
<1> QED BY <1>2, <1>4, <1>6 DEF pc, seen

\* The loop of update_orders goes on, or ends.
LEMMA NextOrderDoes ==
  ASSUME Core, NEW r \in Replicas, worker[r].pc \in Updating, NextOrder(r),
         UNCHANGED <<engineVars, inbox, fills, moneyVars, moved>>,
         orders' \in [Orders -> [filled : Nat, status : {"open", "partial", "filled"}]]
  PROVE  /\ Core' /\ \A f \in Fills : Out(f)' => Out(f)
         /\ \/ /\ worker[r].pc \in {"loadMaker", "writeMaker"}
               /\ Turn(r, "loadTaker", worker[r].fill, worker[r].seen)
            \/ worker[r].pc \in {"loadTaker", "writeTaker"} /\ Turn(r, "idle", None, 0)
<1>1. TypeOK /\ "loadTaker" \in Places /\ "loadTaker" \in Updating
  BY DEF Core, Places, Updating
<1>2. CASE worker[r].pc \in {"loadMaker", "writeMaker"}
  <2>1. Turn(r, "loadTaker", worker[r].fill, worker[r].seen)
    BY <1>1, <1>2, TurnGoto, TypesOf DEF NextOrder
  <2>2. TypeOK'
    BY <1>1, <2>1 DEF TypeOK, engineVars, moneyVars, Turn, Workers
  <2> QED BY <1>1, <1>2, <2>1, <2>2, AllApplied, Onward DEF moneyVars
<1>3. CASE worker[r].pc \in {"loadTaker", "writeTaker"}
  <2>1. Turn(r, "idle", None, 0)
    BY <1>1, <1>3, TurnDone, TypesOf DEF NextOrder
  <2>2. TypeOK'
    BY <1>1, <2>1 DEF TypeOK, engineVars, moneyVars, Turn, Workers
  <2> QED BY <1>3, <2>1, <2>2, GivesUp DEF moneyVars
<1> QED BY <1>2, <1>3 DEF Updating

\* A worker writes the row of an order from what it read.
LEMMA WriteOrderDoes ==
  ASSUME Core, NEW r \in Replicas, WriteOrder(r)
  PROVE  /\ Core' /\ \A f \in Fills : Out(f)' => Out(f)
         /\ worker[r].pc \in Updating /\ LoopOrder(r) \in Orders
         /\ \/ /\ worker[r].pc = "writeMaker" /\ Turn(r, "loadTaker", worker[r].fill, worker[r].seen)
            \/ worker[r].pc = "writeTaker" /\ Turn(r, "idle", None, 0)
         /\ LET filled == worker[r].seen + worker[r].fill.quantity
            IN /\ filled \in Nat
               /\ orders'[LoopOrder(r)].filled = filled
               /\ orders'[LoopOrder(r)].status = Status(LoopOrder(r), filled)
         /\ \A o \in Orders \ {LoopOrder(r)} : orders'[o] = orders[o]
<1> DEFINE o == LoopOrder(r)
           filled == worker[r].seen + worker[r].fill.quantity
           row == [filled |-> filled, status |-> Status(o, filled)]
<1>1. /\ TypeOK /\ worker[r].pc \in {"writeMaker", "writeTaker"} /\ worker[r].pc \in Updating
      /\ orders' = [orders EXCEPT ![o] = row] /\ NextOrder(r)
      /\ UNCHANGED <<engineVars, inbox, fills, moneyVars, moved>>
  BY DEF Core, WriteOrder, Updating
<1>2. o \in Orders /\ filled \in Nat
  BY <1>1, AllApplied, FillFields, TypesOf DEF LoopOrder
<1> HIDE DEF o, filled
<1>3. row \in [filled : Nat, status : {"open", "partial", "filled"}]
      /\ row.filled = filled /\ row.status = Status(o, filled)
  BY <1>2 DEF Status
<1> HIDE DEF row
<1>4. /\ orders' \in [Orders -> [filled : Nat, status : {"open", "partial", "filled"}]]
      /\ orders'[o] = row /\ \A p \in Orders \ {o} : orders'[p] = orders[p]
  BY <1>1, <1>2, <1>3 DEF TypeOK
<1>5. /\ Core' /\ \A f \in Fills : Out(f)' => Out(f)
      /\ \/ /\ worker[r].pc \in {"loadMaker", "writeMaker"}
            /\ Turn(r, "loadTaker", worker[r].fill, worker[r].seen)
         \/ worker[r].pc \in {"loadTaker", "writeTaker"} /\ Turn(r, "idle", None, 0)
  BY <1>1, <1>4, NextOrderDoes
<1> QED BY <1>1, <1>2, <1>3, <1>4, <1>5 DEF o, filled

\* An order that fails is skipped, and the loop goes on.
LEMMA SkipOrderDoes ==
  ASSUME Core, NEW r \in Replicas, SkipOrder(r)
  PROVE  /\ Core' /\ \A f \in Fills : Out(f)' => Out(f)
         /\ \/ /\ worker[r].pc \in {"loadMaker", "writeMaker"}
               /\ Turn(r, "loadTaker", worker[r].fill, worker[r].seen)
            \/ worker[r].pc \in {"loadTaker", "writeTaker"} /\ Turn(r, "idle", None, 0)
<1>1. /\ worker[r].pc \in Updating /\ NextOrder(r)
      /\ UNCHANGED <<engineVars, inbox, fills, moneyVars, orders, moved>>
  BY DEF SkipOrder, Updating
<1>2. orders' \in [Orders -> [filled : Nat, status : {"open", "partial", "filled"}]]
  BY <1>1 DEF Core, TypeOK
<1> QED BY <1>1, <1>2, NextOrderDoes

\* A worker fails, goes down, or comes up again.
LEMMA EndDoes ==
  ASSUME Core, NEW r \in Replicas, Fail(r) \/ Crash(r) \/ Resubscribe(r)
  PROVE  /\ Core' /\ \A f \in Fills : Out(f)' => Out(f)
         /\ \E pc \in {"idle", "down"} : Turn(r, pc, None, 0)
         /\ UNCHANGED <<engineVars, fills, balances, paid, orders, moved>>
<1>1. UNCHANGED <<engineVars, fills, balances, paid, orders, moved>>
  BY DEF Fail, Crash, Resubscribe, moneyVars
<1>2. TypeOK /\ worker \in [Replicas -> Workers]
  BY TypesOf DEF Core
<1>3. \E pc \in {"idle", "down"} : Turn(r, pc, None, 0)
  <2>1. CASE Done(r)
    BY <1>2, <2>1, TurnDone
  <2>2. CASE worker' = [worker EXCEPT ![r] = [Idle EXCEPT !.pc = "down"]]
    <3> DEFINE q == [Idle EXCEPT !.pc = "down"]
    <3>1. q \in Workers /\ q.pc = "down" /\ q.fill = None /\ q.seen = 0
      BY DEF Workers, Idle, Places
    <3> HIDE DEF q
    <3>2. worker' = [worker EXCEPT ![r] = q]
      BY <2>2 DEF q
    <3> QED BY <1>2, <3>1, <3>2, Turns
  <2> QED BY <2>1, <2>2 DEF Fail, Crash, Resubscribe
<1>4. PICK pc \in {"idle", "down"} : Turn(r, pc, None, 0)
  BY <1>3
<1>5. inbox' \in [Replicas -> Seq(Fills)] /\ \A s \in Replicas : inbox'[s] = inbox[s] \/ inbox'[s] = <<>>
  <2>1. inbox' = inbox \/ inbox' = [inbox EXCEPT ![r] = <<>>]
    BY DEF Fail, Crash, Resubscribe
  <2>2. inbox \in [Replicas -> Seq(Fills)] /\ <<>> \in Seq(Fills)
    BY <1>2, EmptySeq DEF TypeOK
  <2>3. CASE inbox' = inbox
    BY <2>2, <2>3
  <2>4. CASE inbox' = [inbox EXCEPT ![r] = <<>>]
    <3> DEFINE e == <<>>
    <3>1. e \in Seq(Fills) /\ inbox' = [inbox EXCEPT ![r] = e]
      BY <2>2, <2>4
    <3> HIDE DEF e
    <3>2. inbox' \in [Replicas -> Seq(Fills)] /\ \A s \in Replicas : inbox'[s] = inbox[s] \/ inbox'[s] = e
      BY <2>2, <3>1
    <3> QED BY <3>2 DEF e
  <2> QED BY <2>1, <2>3, <2>4
<1>6. locks' \in [Users -> Replicas \cup {None}]
  <2>1. locks' = locks \/ locks' = Unlocked(r)
    BY DEF Fail, Crash, Resubscribe, moneyVars
  <2> QED BY <1>2, <2>1, Unlocks DEF TypeOK
<1>7. TypeOK'
  BY <1>1, <1>2, <1>4, <1>5, <1>6 DEF TypeOK, engineVars, Turn, Workers
<1> QED BY <1>1, <1>4, <1>5, <1>7, GivesUp

\* Every step keeps Core.
LEMMA CoreNext == Core /\ [Next]_vars => Core'
<1> SUFFICES ASSUME Core, [Next]_vars PROVE Core'
  OBVIOUS
<1>1. ASSUME NEW maker \in Orders, NEW taker \in Orders, NEW q \in 1 .. Quantity[maker],
             MakeFill(maker, taker, q)
      PROVE  Core'
  BY <1>1, MakeFillDoes
<1>2. CASE Restart
  BY <1>2, RestartDoes
<1>3. ASSUME NEW r \in Replicas, Receive(r) \/ Work(r) \/ SkipOrder(r)
      PROVE  Core'
  BY <1>3, ReceiveDoes, InsertDoes, LockBuyerDoes, PaySellerDoes, MoveTakerDoes, MoveMakerDoes,
     LoadOrderDoes, WriteOrderDoes, SkipOrderDoes DEF Work
<1>4. ASSUME NEW r \in Replicas, Fail(r) \/ Crash(r) \/ Resubscribe(r) PROVE Core'
  BY <1>4, EndDoes
<1>5. CASE UNCHANGED vars
  BY <1>5 DEF Core, TypeOK, Identified, Holding, Applied, Out, Busy, Past,
              vars, engineVars, moneyVars
<1> QED BY <1>1, <1>2, <1>3, <1>4, <1>5 DEF Next, AbortDeadlocked

-----------------------------------------------------------------------------
(* The sets of fills that the properties sum up.                           *)

\* A fill whose worker has yet to write order o.
Pending(f, o) ==
    \E r \in Replicas :
        /\ worker[r].fill = f
        /\ \/ worker[r].pc \in {"loadMaker", "writeMaker"}
           \/ worker[r].pc \in {"loadTaker", "writeTaker"} /\ o = f.taker

\* The fills that are written to order o, or that a failure left unwritten.
Written(o) == {f \in Moved(o) : ~Pending(f, o)}

\* The sets that are summed over are finite and have one fill to an id.
Sets ==
    /\ \A o \in Orders : Batch(OutOf(o)) /\ Batch(Written(o)) /\ Moved(o) \subseteq OutOf(o)
    /\ \A u \in Users : Batch(Sold(u)) /\ Batch(Bought(u))

\* Core makes them so.
LEMMA CoreSets == Core => Sets
<1> SUFFICES ASSUME Core PROVE Sets
  OBVIOUS
<1>1. Identified /\ fills \subseteq {f \in Fills : Out(f)}
  BY DEF Core, TypeOK, Out
<1>2. \A o \in Orders : /\ OutOf(o) \subseteq {f \in Fills : Out(f)}
                        /\ Moved(o) \subseteq OutOf(o) /\ Written(o) \subseteq OutOf(o)
  BY <1>1 DEF OutOf, Moved, Written
<1>3. \A u \in Users : Sold(u) \subseteq fills /\ Bought(u) \subseteq fills
  BY DEF Sold, Bought
<1>4. \A S : S \subseteq {f \in Fills : Out(f)} => Batch(S)
  BY <1>1, OutFinite DEF Batch
<1>5. \A o \in Orders : Batch(OutOf(o)) /\ Batch(Written(o))
  BY <1>2, <1>4
<1>6. \A u \in Users : Batch(Sold(u)) /\ Batch(Bought(u))
  BY <1>1, <1>3, <1>4
<1> QED BY <1>2, <1>5, <1>6 DEF Sets

\* And in the next state.
LEMMA CoreSetsNext == Core' => Sets'
  BY CoreSets, PTL

-----------------------------------------------------------------------------
(* The engine fills no order beyond its quantity.                          *)

\* At first nothing is filled.
LEMMA BookInit == Init => BookSound
<1> SUFFICES ASSUME Init, NEW o \in Orders PROVE Cost(OutOf(o)) + book[o] <= Quantity[o]
  BY DEF BookSound
<1>1. \A r \in Replicas : worker[r].pc = "idle" /\ inbox[r] = <<>> /\ Len(inbox[r]) = 0
  BY EmptySeq DEF Init, Idle
<1>2. OutOf(o) = {}
  BY <1>1 DEF Init, OutOf, Out, Busy
<1>3. book[o] \in Nat /\ book[o] = Quantity[o]
  BY PipelineAssumption DEF Init
<1>4. Cost(OutOf(o)) = 0
  BY <1>2, CostOfNone
<1> QED BY <1>3, <1>4

\* No step but the engine's puts a fill under way, and none but the engine's touches a book.
LEMMA OutShrinks ==
  ASSUME Core, NEW r \in Replicas,
         Receive(r) \/ Work(r) \/ Fail(r) \/ SkipOrder(r) \/ Crash(r) \/ Resubscribe(r)
  PROVE  UNCHANGED engineVars /\ \A f \in Fills : Out(f)' => Out(f)
<1>1. UNCHANGED engineVars
  BY DEF Receive, Work, Insert, LockBuyer, PaySeller, MoveTaker, MoveMaker, LoadOrder, WriteOrder,
         Fail, SkipOrder, Crash, Resubscribe
<1>2. CASE Receive(r) \/ Work(r) \/ SkipOrder(r)
  BY <1>1, <1>2, ReceiveDoes, InsertDoes, LockBuyerDoes, PaySellerDoes, MoveTakerDoes, MoveMakerDoes,
     LoadOrderDoes, WriteOrderDoes, SkipOrderDoes DEF Work
<1>3. CASE Fail(r) \/ Crash(r) \/ Resubscribe(r)
  BY <1>1, <1>3, EndDoes
<1> QED BY <1>2, <1>3

\* A step that puts no fill under way and raises no book keeps BookSound.
LEMMA BookKept ==
  ASSUME Core, Core', BookSound, \A o \in Orders : book'[o] <= book[o],
         \A f \in Fills : Out(f)' => Out(f)
  PROVE  BookSound'
<1> SUFFICES ASSUME NEW o \in Orders PROVE Cost(OutOf(o)') + book'[o] <= Quantity[o]
  BY DEF BookSound
<1>1. OutOf(o)' \subseteq OutOf(o) /\ Batch(OutOf(o))
  BY CoreSets DEF OutOf, Sets
<1>2. Cost(OutOf(o)') <= Cost(OutOf(o)) /\ Cost(OutOf(o)') \in Nat /\ Cost(OutOf(o)) \in Nat
  BY <1>1, CostMonotone, CostTyped
<1>3. book[o] \in Nat /\ book'[o] \in Nat /\ Quantity[o] \in Nat
  BY PipelineAssumption DEF Core, TypeOK
<1>4. Cost(OutOf(o)) + book[o] <= Quantity[o] /\ book'[o] <= book[o]
  BY DEF BookSound
<1> QED BY <1>2, <1>3, <1>4

\* A fill that is made goes off the book.
LEMMA BookMakeFill ==
  ASSUME Core, BookSound, NEW maker \in Orders, NEW taker \in Orders, NEW q \in 1 .. Quantity[maker],
         MakeFill(maker, taker, q)
  PROVE  BookSound'
<1>1. PICK f \in Fills :
        /\ f.quantity = q /\ f.maker = maker /\ f.taker = taker /\ ~Out(f)
        /\ \A g \in Fills : Out(g)' => Out(g) \/ g = f
  BY MakeFillDoes
<1>2. /\ maker # taker /\ book \in [Orders -> Nat] /\ q \in Nat
      /\ book' = [book EXCEPT ![maker] = @ - q, ![taker] = @ - q]
      /\ q <= book[maker] /\ q <= book[taker]
  BY PipelineAssumption DEF Core, TypeOK, MakeFill
<1> SUFFICES ASSUME NEW o \in Orders PROVE Cost(OutOf(o)') + book'[o] <= Quantity[o]
  BY DEF BookSound
<1>3. Batch(OutOf(o)) /\ Cost(OutOf(o)) \in Nat
  BY CoreSets, CostTyped DEF Sets
<1>4. book[o] \in Nat /\ Quantity[o] \in Nat /\ Cost(OutOf(o)) + book[o] <= Quantity[o]
  BY <1>2, PipelineAssumption DEF BookSound
<1>5. CASE o \in {maker, taker}
  <2>1. book'[o] = book[o] - q
    BY <1>2, <1>5
  <2>2. OutOf(o)' \subseteq OutOf(o) \cup {f} /\ f \notin OutOf(o)
    BY <1>1 DEF OutOf
  <2>3. Batch(OutOf(o) \cup {f}) /\ Cost(OutOf(o) \cup {f}) = Cost(OutOf(o)) + q
    BY <1>1, <1>3, <2>2, CostMore
  <2>4. Cost(OutOf(o)') <= Cost(OutOf(o)) + q /\ Cost(OutOf(o)') \in Nat
    BY <2>2, <2>3, CostMonotone, CostTyped
  <2> QED BY <1>2, <1>3, <1>4, <2>1, <2>4
<1>6. CASE o \notin {maker, taker}
  <2>1. book'[o] = book[o]
    BY <1>2, <1>6
  <2>2. OutOf(o)' \subseteq OutOf(o)
    BY <1>1, <1>6 DEF OutOf
  <2>3. Cost(OutOf(o)') <= Cost(OutOf(o)) /\ Cost(OutOf(o)') \in Nat
    BY <1>3, <2>2, CostMonotone, CostTyped
  <2> QED BY <1>3, <1>4, <2>1, <2>3
<1> QED BY <1>5, <1>6

\* Every step keeps BookSound.
LEMMA BookNext == Core /\ BookSound /\ [Next]_vars => BookSound'
<1> SUFFICES ASSUME Core, BookSound, [Next]_vars PROVE BookSound'
  OBVIOUS
<1>0. Core' /\ \A o \in Orders : book[o] \in Nat
  BY CoreNext DEF Core, TypeOK
<1>1. ASSUME NEW maker \in Orders, NEW taker \in Orders, NEW q \in 1 .. Quantity[maker],
             MakeFill(maker, taker, q)
      PROVE  BookSound'
  BY <1>1, BookMakeFill
<1>2. CASE Restart
  <2>1. \A o \in Orders : book'[o] <= book[o]
    BY <1>0, <1>2 DEF Restart
  <2> QED BY <1>0, <1>2, <2>1, RestartDoes, BookKept
<1>3. ASSUME NEW r \in Replicas,
             Receive(r) \/ Work(r) \/ Fail(r) \/ SkipOrder(r) \/ Crash(r) \/ Resubscribe(r)
      PROVE  BookSound'
  <2>1. (\A f \in Fills : Out(f)' => Out(f)) /\ book' = book
    BY <1>3, OutShrinks DEF engineVars
  <2>2. \A o \in Orders : book'[o] <= book[o]
    BY <1>0, <2>1
  <2> QED BY <1>0, <2>1, <2>2, BookKept
<1>4. CASE UNCHANGED vars
  <2>1. \A o \in Orders : book'[o] <= book[o]
    BY <1>0, <1>4 DEF vars, engineVars
  <2>2. \A f \in Fills : Out(f)' => Out(f)
    BY <1>4 DEF vars, Out, Busy
  <2> QED BY <1>0, <2>1, <2>2, BookKept
<1> QED BY <1>1, <1>2, <1>3, <1>4 DEF Next, AbortDeadlocked

-----------------------------------------------------------------------------
\* Every variable of the pipeline keeps its type, whatever replicas crash and
\* however often the engine restarts; no balance goes below zero.
THEOREM PipelineTyped == Spec => []TypeOK
<1>1. Core => TypeOK
  BY DEF Core
<1> QED BY <1>1, CoreInit, CoreNext, PTL DEF Spec

\* Core has what AppliedOnce says.
LEMMA CoreAppliedOnce == Core => AppliedOnce
<1> SUFFICES ASSUME Core, NEW i \in FillIds
             PROVE  /\ paid[i] <= Cardinality({f \in fills : f.id = i})
                    /\ moved[i].taker <= paid[i]
                    /\ moved[i].maker <= moved[i].taker
  BY DEF AppliedOnce
<1> DEFINE S == {f \in fills : f.id = i}
<1>1. S \subseteq {f \in Fills : Out(f)} /\ fills \subseteq Fills /\ paid[i] \in Nat
  BY DEF Core, TypeOK, Out
<1>2. IsFiniteSet(S) /\ Cardinality(S) \in Nat
  BY <1>1, OutFinite, FS_CardinalityType DEF Core
<1>3. paid[i] > 0 => \E f \in fills : S = {f}
  <2> SUFFICES ASSUME paid[i] > 0 PROVE \E f \in fills : S = {f}
    OBVIOUS
  <2>1. PICK f \in fills : f.id = i
    BY DEF Core, Applied
  <2>2. \A g \in S : g = f
    BY <1>1, <2>1 DEF Core, Identified, Out
  <2> QED BY <2>1, <2>2
<1>4. (\E f \in fills : S = {f}) => Cardinality(S) = 1
  BY FS_Singleton
<1>5. paid[i] <= 1 /\ moved[i].taker <= paid[i] /\ moved[i].maker <= moved[i].taker
  BY DEF Core, Applied
<1> HIDE DEF S
<1>6. paid[i] <= Cardinality(S)
  BY <1>1, <1>2, <1>3, <1>4, <1>5
<1> QED BY <1>5, <1>6 DEF S

\* No fill is paid or moved twice, and none that is not in the table: settlement and
\* positions follow the insert that the unique index lets through once.
THEOREM FillsAppliedOnce == Spec => []AppliedOnce
  BY CoreAppliedOnce, CoreInit, CoreNext, PTL DEF Spec

-----------------------------------------------------------------------------
(* The money of the fills.                                                 *)

\* At first nobody has bought or sold.
LEMMA BalancesInit == Init => BalancesMatchFills
<1> SUFFICES ASSUME Init, NEW u \in Users
             PROVE  /\ balances[u].available = Cost(Sold(u))
                    /\ balances[u].reserved + Cost(Sold(u)) + Cost(Bought(u)) >= Reserved
                    /\ balances[u].reserved <= Reserved
  BY DEF BalancesMatchFills
<1>1. Sold(u) = {} /\ Bought(u) = {}
  BY DEF Init, Sold, Bought
<1>2. Cost(Sold(u)) = 0 /\ Cost(Bought(u)) = 0
  BY <1>1, CostOfNone
<1>3. balances[u].available = 0 /\ balances[u].reserved = Reserved /\ Reserved \in Nat
  BY PipelineAssumption DEF Init
<1> QED BY <1>2, <1>3

\* A step that touches neither balances nor what was paid for.
LEMMA BalancesKept ==
  ASSUME BalancesMatchFills, balances' = balances,
         \A u \in Users : Sold(u)' = Sold(u) /\ Bought(u)' = Bought(u)
  PROVE  BalancesMatchFills'
  BY DEF BalancesMatchFills

\* A payment moves the cost of one fill.
LEMMA BalancesPaySeller ==
  ASSUME Core, BalancesMatchFills, NEW r \in Replicas, PaySeller(r)
  PROVE  BalancesMatchFills'
<1> DEFINE f == worker[r].fill
<1>1. /\ f \in fills /\ f.id \in FillIds /\ paid[f.id] = 0 /\ paid'[f.id] = 1
      /\ \A j \in FillIds \ {f.id} : paid'[j] = paid[j]
      /\ \A u \in Users :
            /\ balances'[u].available = balances[u].available + (IF Seller(f) = u THEN f.quantity ELSE 0)
            /\ balances'[u].reserved <= balances[u].reserved
            /\ balances'[u].reserved + (IF Seller(f) = u THEN f.quantity ELSE 0)
                 + (IF Buyer(f) = u THEN f.quantity ELSE 0) >= balances[u].reserved
      /\ Core'
  BY PaySellerDoes
<1>2. fills' = fills /\ fills \subseteq Fills /\ Identified
  BY DEF PaySeller, Core, TypeOK
<1> SUFFICES ASSUME NEW u \in Users
             PROVE  /\ balances'[u].available = Cost(Sold(u)')
                    /\ balances'[u].reserved + Cost(Sold(u)') + Cost(Bought(u)') >= Reserved
                    /\ balances'[u].reserved <= Reserved
  BY DEF BalancesMatchFills
<1> HIDE DEF f
<1>3. f \in Fills /\ f.quantity \in Nat
  BY <1>1, <1>2, FillFields
<1>4. \A g \in fills : g.id \in FillIds /\ (g.id = f.id => g = f)
  BY <1>1, <1>2, FillFields DEF Identified, Out
<1>5. /\ Sold(u)' = (IF Seller(f) = u THEN Sold(u) \cup {f} ELSE Sold(u))
      /\ Bought(u)' = (IF Buyer(f) = u THEN Bought(u) \cup {f} ELSE Bought(u))
      /\ f \notin Sold(u) /\ f \notin Bought(u)
  <2>1. \A g \in fills : paid'[g.id] > 0 <=> paid[g.id] > 0 \/ g = f
    BY <1>1, <1>4
  <2>2. /\ Sold(u)' = {g \in fills : paid'[g.id] > 0 /\ Seller(g) = u}
        /\ Bought(u)' = {g \in fills : paid'[g.id] > 0 /\ Buyer(g) = u}
    BY <1>2 DEF Sold, Bought, Seller, Buyer
  <2>3. ~(paid[f.id] > 0)
    BY <1>1
  <2> QED BY <1>1, <2>1, <2>2, <2>3 DEF Sold, Bought
<1>6. /\ Batch(Sold(u)) /\ Batch(Bought(u)) /\ Cost(Sold(u)) \in Nat /\ Cost(Bought(u)) \in Nat
  BY CoreSets, CostTyped DEF Sets
<1>7. /\ Cost(Sold(u)') = Cost(Sold(u)) + (IF Seller(f) = u THEN f.quantity ELSE 0)
      /\ Cost(Bought(u)') = Cost(Bought(u)) + (IF Buyer(f) = u THEN f.quantity ELSE 0)
  BY <1>3, <1>5, <1>6, CostMore
<1>8. /\ balances[u].available = Cost(Sold(u))
      /\ balances[u].reserved + Cost(Sold(u)) + Cost(Bought(u)) >= Reserved
      /\ balances[u].reserved <= Reserved
  BY DEF BalancesMatchFills
<1>9. balances[u].reserved \in Nat /\ balances'[u].reserved \in Nat /\ Reserved \in Nat
  <2>1. TypeOK /\ TypeOK'
    BY <1>1 DEF Core
  <2> QED BY <2>1, PipelineAssumption DEF TypeOK
<1> QED BY <1>1, <1>3, <1>6, <1>7, <1>8, <1>9

\* A fill in the table is not paid yet.
LEMMA BalancesInsert ==
  ASSUME Core, BalancesMatchFills, NEW r \in Replicas, Insert(r)
  PROVE  BalancesMatchFills'
<1>1. balances' = balances /\ paid' = paid
  BY DEF Insert, moneyVars
<1>2. \/ fills' = fills
      \/ \E f \in Fills : fills' = fills \cup {f} /\ paid[f.id] = 0
  BY InsertDoes
<1>3. \A u \in Users : Sold(u)' = Sold(u) /\ Bought(u)' = Bought(u)
  BY <1>1, <1>2 DEF Sold, Bought, Seller, Buyer
<1> QED BY <1>1, <1>3, BalancesKept

\* Every step keeps the balances in step with the fills paid.
LEMMA BalancesNext == Core /\ BalancesMatchFills /\ [Next]_vars => BalancesMatchFills'
<1> SUFFICES ASSUME Core, BalancesMatchFills, [Next]_vars PROVE BalancesMatchFills'
  OBVIOUS
<1>1. ASSUME NEW r \in Replicas, PaySeller(r) \/ Insert(r) PROVE BalancesMatchFills'
  BY <1>1, BalancesPaySeller, BalancesInsert
<1>2. CASE UNCHANGED <<balances, paid, fills>>
  BY <1>2, BalancesKept DEF Sold, Bought, Seller, Buyer
<1>3. \/ \E r \in Replicas : PaySeller(r) \/ Insert(r)
      \/ UNCHANGED <<balances, paid, fills>>
  BY DEF Next, vars, moneyVars, MakeFill, Restart, Receive, Work, LockBuyer, MoveTaker, MoveMaker,
         LoadOrder, WriteOrder, Fail, SkipOrder, Crash, Resubscribe, AbortDeadlocked
<1> QED BY <1>1, <1>2, <1>3

\* Every seller has exactly what the paid fills it made cost, and nobody was deducted
\* more than the paid fills it took part in: settle_fill moves both sides in one
\* transaction, and a fill is settled once.
THEOREM MoneyMatchesFills == Spec => []BalancesMatchFills
  BY BalancesInit, BalancesNext, CoreInit, CoreNext, PTL DEF Spec

-----------------------------------------------------------------------------
(* The rows of the orders.                                                 *)

\* A row, and what a worker read of it, shows no more than the fills written to it.
OrdersSound ==
    /\ \A o \in Orders : orders[o].filled <= Cost(Written(o))
    /\ \A r \in Replicas : \A o \in Orders :
          worker[r].pc \in {"writeMaker", "writeTaker"} /\ o = LoopOrder(r)
              => worker[r].seen <= Cost(Written(o))
    /\ \A o \in Orders : orders[o].status = "filled" <=> orders[o].filled = Quantity[o]

\* No step unwrites a fill.
LEMMA WrittenGrows ==
  ASSUME Core, Core', NEW r \in Replicas, NEW pc \in Places, NEW fill, NEW seen, Turn(r, pc, fill, seen),
         fills \subseteq fills', \A j \in FillIds : moved[j].maker <= moved'[j].maker,
         \/ pc \notin Updating
         \/ moved[fill.id].maker = 0
         \/ /\ worker[r].fill = fill
            /\ \/ worker[r].pc \in {"loadMaker", "writeMaker"}
               \/ worker[r].pc \in Updating /\ pc \in {"loadTaker", "writeTaker"}
  PROVE  \A o \in Orders : Written(o) \subseteq Written(o)'
<1> SUFFICES ASSUME NEW o \in Orders, NEW f \in Written(o) PROVE f \in Written(o)'
  OBVIOUS
<1>1. /\ f \in fills /\ o \in {f.maker, f.taker} /\ moved[f.id].maker > 0 /\ ~Pending(f, o)
      /\ f.id \in FillIds
  BY FillFields DEF Written, Moved, Core, TypeOK
<1>2. f \in fills' /\ moved'[f.id].maker > 0
  <2>1. moved[f.id].maker \in Nat /\ moved'[f.id].maker \in Nat /\ moved[f.id].maker <= moved'[f.id].maker
    BY <1>1 DEF Core, TypeOK
  <2> QED BY <1>1, <2>1
<1>3. ASSUME NEW s \in Replicas, worker'[s].fill = f,
             \/ worker'[s].pc \in {"loadMaker", "writeMaker"}
             \/ worker'[s].pc \in {"loadTaker", "writeTaker"} /\ o = f.taker
      PROVE  FALSE
  <2>1. CASE s # r
    <3>1. worker'[s] = worker[s]
      BY <2>1 DEF Turn
    <3> QED BY <1>1, <1>3, <3>1 DEF Pending
  <2>2. CASE s = r
    <3>1. worker'[s].pc = pc /\ f = fill /\ pc \in Updating /\ moved[fill.id].maker # 0
      BY <1>1, <1>3, <2>2 DEF Turn, Updating
    <3> QED BY <1>1, <1>3, <2>2, <3>1 DEF Pending, Updating
  <2> QED BY <2>1, <2>2
<1>4. ~Pending(f, o)'
  BY <1>3 DEF Pending
<1> QED BY <1>1, <1>2, <1>4 DEF Written, Moved

\* What is written grows.
LEMMA WrittenCosts ==
  ASSUME Core, Core', \A o \in Orders : Written(o) \subseteq Written(o)'
  PROVE  \A o \in Orders : /\ Cost(Written(o)) <= Cost(Written(o)')
                          /\ Cost(Written(o)) \in Nat /\ Cost(Written(o)') \in Nat
<1> SUFFICES ASSUME NEW o \in Orders
             PROVE  /\ Cost(Written(o)) <= Cost(Written(o)')
                    /\ Cost(Written(o)) \in Nat /\ Cost(Written(o)') \in Nat
  OBVIOUS
<1>1. Batch(Written(o)) /\ Batch(Written(o)')
  BY CoreSets, CoreSetsNext DEF Sets
<1> QED BY <1>1, CostMonotone, CostTyped

\* Steps that leave the rows of the orders alone.
LEMMA OrdersKept ==
  ASSUME Core, Core', OrdersSound, orders' = orders,
         \A o \in Orders : Written(o) \subseteq Written(o)',
         NEW r \in Replicas, \A s \in Replicas \ {r} : worker'[s] = worker[s],
         worker'[r].pc \notin {"writeMaker", "writeTaker"}
  PROVE  OrdersSound'
<1>1. \A o \in Orders : /\ Cost(Written(o)) <= Cost(Written(o)')
                        /\ Cost(Written(o)) \in Nat /\ Cost(Written(o)') \in Nat
  BY WrittenCosts
<1>2. \A o \in Orders : orders[o].filled \in Nat /\ orders[o].filled <= Cost(Written(o))
  BY DEF Core, TypeOK, OrdersSound
<1>3. \A o \in Orders : orders'[o].filled <= Cost(Written(o)')
  BY <1>1, <1>2
<1>4. ASSUME NEW s \in Replicas, NEW o \in Orders,
             worker'[s].pc \in {"writeMaker", "writeTaker"}, o = LoopOrder(s)'
      PROVE  worker'[s].seen <= Cost(Written(o)')
  <2>1. worker'[s] = worker[s] /\ LoopOrder(s)' = LoopOrder(s)
    BY <1>4 DEF LoopOrder
  <2>2. worker[s].seen <= Cost(Written(o)) /\ worker[s].seen \in Nat
    BY <1>4, <2>1, TypesOf DEF OrdersSound, Core
  <2> QED BY <1>1, <2>1, <2>2
<1> QED BY <1>3, <1>4 DEF OrdersSound

\* A row that is read shows what the row has.
LEMMA OrdersLoad ==
  ASSUME Core, Core', OrdersSound, NEW r \in Replicas, LoadOrder(r)
  PROVE  OrdersSound'
<1> DEFINE pc == IF worker[r].pc = "loadMaker" THEN "writeMaker" ELSE "writeTaker"
           p == LoopOrder(r)
<1>1. /\ Turn(r, pc, worker[r].fill, orders[p].filled) /\ p \in Orders
      /\ worker[r].pc \in {"loadMaker", "loadTaker"}
      /\ orders' = orders /\ fills' = fills /\ moved' = moved
  BY LoadOrderDoes DEF LoadOrder
<1>2. \A o \in Orders : Written(o) \subseteq Written(o)'
  <2>1. /\ pc \in Places /\ worker[r].pc \in Updating
        /\ \/ worker[r].pc \in {"loadMaker", "writeMaker"}
           \/ worker[r].pc \in Updating /\ pc \in {"loadTaker", "writeTaker"}
    BY <1>1 DEF Places, Updating
  <2>2. \A j \in FillIds : moved[j].maker <= moved'[j].maker
    BY <1>1, TypesOf DEF Core
  <2> HIDE DEF pc, p
  <2> QED BY <1>1, <2>1, <2>2, WrittenGrows
<1>3. \A o \in Orders : /\ Cost(Written(o)) <= Cost(Written(o)')
                        /\ Cost(Written(o)) \in Nat /\ Cost(Written(o)') \in Nat
  BY <1>2, WrittenCosts
<1>4. \A o \in Orders : orders[o].filled \in Nat /\ orders[o].filled <= Cost(Written(o))
  BY DEF Core, TypeOK, OrdersSound
<1>5. \A o \in Orders : orders'[o].filled <= Cost(Written(o)')
  BY <1>1, <1>3, <1>4
<1>6. ASSUME NEW s \in Replicas, NEW o \in Orders,
             worker'[s].pc \in {"writeMaker", "writeTaker"}, o = LoopOrder(s)'
      PROVE  worker'[s].seen <= Cost(Written(o)')
  <2>1. CASE s # r
    <3>1. worker'[s] = worker[s]
      BY <1>1, <2>1 DEF Turn
    <3>2. LoopOrder(s)' = LoopOrder(s)
      BY <3>1 DEF LoopOrder
    <3>3. worker[s].seen <= Cost(Written(o)) /\ worker[s].seen \in Nat
      BY <1>6, <3>1, <3>2, TypesOf DEF OrdersSound, Core
    <3> QED BY <1>3, <3>1, <3>3
  <2>2. CASE s = r
    <3>1. worker'[r].pc = pc /\ worker'[r].fill = worker[r].fill /\ worker'[r].seen = orders[p].filled
      BY <1>1 DEF Turn
    <3>2. o = p
      BY <1>1, <1>6, <2>2, <3>1 DEF LoopOrder
    <3> HIDE DEF p
    <3> QED BY <1>1, <1>5, <2>2, <3>1, <3>2
  <2> QED BY <2>1, <2>2
<1> QED BY <1>1, <1>5, <1>6 DEF OrdersSound

\* The fill a worker writes to an order was not yet written to it, and then is.
LEMMA WritesItsFill ==
  ASSUME Core, NEW r \in Replicas, WriteOrder(r), NEW o, o = LoopOrder(r), NEW f, f = worker[r].fill
  PROVE  f \in Fills /\ f \notin Written(o) /\ f \in Written(o)'
<1>1. /\ worker[r].pc \in {"writeMaker", "writeTaker"} /\ worker[r].pc \in Updating
      /\ fills' = fills /\ moved' = moved
      /\ \/ /\ worker[r].pc = "writeMaker" /\ Turn(r, "loadTaker", f, worker[r].seen)
         \/ worker[r].pc = "writeTaker" /\ Turn(r, "idle", None, 0)
  BY WriteOrderDoes DEF WriteOrder
<1>2. /\ f \in fills /\ f \in Fills /\ moved[f.id].maker = 1 /\ Past(r)
  BY <1>1, AllApplied
<1>3. f.maker # f.taker
  BY <1>2 DEF Core, Identified, Out
<1>4. Pending(f, o)
  BY <1>1 DEF Pending, LoopOrder
<1>5. ASSUME NEW s \in Replicas, worker'[s].fill = f,
             \/ worker'[s].pc \in {"loadMaker", "writeMaker"}
             \/ worker'[s].pc \in {"loadTaker", "writeTaker"} /\ o = f.taker
      PROVE  FALSE
  <2>1. CASE s # r
    <3>1. worker'[s] = worker[s] /\ Past(s)
      BY <1>1, <1>5, <2>1 DEF Turn, Past
    <3> QED BY <1>2, <1>5, <2>1, <3>1 DEF Core, Holding
  <2>2. CASE s = r
    BY <1>1, <1>3, <1>5, <2>2 DEF Turn, LoopOrder
  <2> QED BY <2>1, <2>2
<1>6. ~Pending(f, o)'
  BY <1>5 DEF Pending
<1>7. o \in {f.maker, f.taker}
  BY DEF LoopOrder
<1> QED BY <1>1, <1>2, <1>4, <1>6, <1>7 DEF Written, Moved

\* A row that is written shows what was read and the fill, which is not among
\* those written before.
LEMMA OrdersWrite ==
  ASSUME Core, Core', BookSound', OrdersSound, NEW r \in Replicas, WriteOrder(r)
  PROVE  OrdersSound'
<1>1. PICK p \in Orders : p = LoopOrder(r)
  BY WriteOrderDoes
<1>2. PICK f \in Fills : f = worker[r].fill
  BY WritesItsFill
<1> DEFINE filled == worker[r].seen + f.quantity
<1>3. /\ worker[r].pc \in {"writeMaker", "writeTaker"} /\ worker[r].pc \in Updating
      /\ fills' = fills /\ moved' = moved
      /\ \/ /\ worker[r].pc = "writeMaker" /\ Turn(r, "loadTaker", f, worker[r].seen)
         \/ worker[r].pc = "writeTaker" /\ Turn(r, "idle", None, 0)
      /\ filled \in Nat
      /\ orders'[p].filled = filled /\ orders'[p].status = Status(p, filled)
      /\ \A o \in Orders \ {p} : orders'[o] = orders[o]
  BY <1>1, <1>2, WriteOrderDoes DEF WriteOrder
<1>4. f \notin Written(p) /\ f \in Written(p)' /\ f.quantity \in Nat
  BY <1>1, <1>2, WritesItsFill, FillFields
<1>5. worker[r].seen <= Cost(Written(p)) /\ worker[r].seen \in Nat
  BY <1>1, <1>3, TypesOf DEF OrdersSound, Core
<1>6. \A o \in Orders : Written(o) \subseteq Written(o)'
  <2>1. \A j \in FillIds : moved[j].maker <= moved'[j].maker
    BY <1>3, TypesOf DEF Core
  <2>2. {"loadTaker", "idle"} \subseteq Places /\ "idle" \notin Updating
    BY DEF Places, Updating
  <2>3. CASE worker[r].pc = "writeMaker" /\ Turn(r, "loadTaker", f, worker[r].seen)
    BY <1>2, <1>3, <2>1, <2>2, <2>3, WrittenGrows
  <2>4. CASE Turn(r, "idle", None, 0)
    BY <1>3, <2>1, <2>2, <2>4, WrittenGrows
  <2> QED BY <1>3, <2>3, <2>4
<1>7. \A o \in Orders : /\ Cost(Written(o)) <= Cost(Written(o)')
                        /\ Cost(Written(o)) \in Nat /\ Cost(Written(o)') \in Nat
  BY <1>6, WrittenCosts
<1>8. filled <= Cost(Written(p)') /\ filled <= Quantity[p] /\ Quantity[p] \in Nat
  <2>1. Batch(Written(p)) /\ Batch(Written(p)') /\ Batch(OutOf(p)') /\ Written(p)' \subseteq OutOf(p)'
    BY CoreSets, CoreSetsNext DEF Sets, Written
  <2>2. Batch(Written(p) \cup {f}) /\ Cost(Written(p) \cup {f}) = Cost(Written(p)) + f.quantity
    BY <1>4, <2>1, CostMore
  <2>3. Cost(Written(p) \cup {f}) <= Cost(Written(p)')
    BY <1>4, <1>6, <2>1, CostMonotone
  <2>4. Cost(Written(p)') <= Cost(OutOf(p)') /\ Cost(OutOf(p)') \in Nat
    BY <2>1, CostMonotone, CostTyped
  <2>5. book'[p] \in Nat /\ Quantity[p] \in Nat /\ Cost(OutOf(p)') + book'[p] <= Quantity[p]
    BY PipelineAssumption DEF Core, TypeOK, BookSound
  <2> QED BY <1>4, <1>5, <1>7, <2>2, <2>3, <2>4, <2>5
<1>9. \A o \in Orders : orders[o].filled \in Nat /\ orders[o].filled <= Cost(Written(o))
  BY DEF Core, TypeOK, OrdersSound
<1>10. \A o \in Orders : orders'[o].filled <= Cost(Written(o)')
  <2> SUFFICES ASSUME NEW o \in Orders, o # p PROVE orders'[o].filled <= Cost(Written(o)')
    BY <1>3, <1>8
  <2> QED BY <1>3, <1>7, <1>9
<1>11. ASSUME NEW s \in Replicas, NEW o \in Orders,
              worker'[s].pc \in {"writeMaker", "writeTaker"}, o = LoopOrder(s)'
       PROVE  worker'[s].seen <= Cost(Written(o)')
  <2>1. worker'[s] = worker[s]
    BY <1>3, <1>11 DEF Turn
  <2>2. LoopOrder(s)' = LoopOrder(s)
    BY <2>1 DEF LoopOrder
  <2>3. worker[s].seen <= Cost(Written(o)) /\ worker[s].seen \in Nat
    BY <1>11, <2>1, <2>2, TypesOf DEF OrdersSound, Core
  <2> QED BY <1>7, <2>1, <2>3
<1>12. \A o \in Orders : orders'[o].status = "filled" <=> orders'[o].filled = Quantity[o]
  <2>1. orders'[p].status = "filled" <=> orders'[p].filled = Quantity[p]
    BY <1>3, <1>8 DEF Status
  <2> QED BY <1>3, <2>1 DEF OrdersSound
<1> QED BY <1>10, <1>11, <1>12 DEF OrdersSound

\* The steps of a replica that write no order.
LEMMA OrdersTurn ==
  ASSUME Core, Core', OrdersSound, NEW r \in Replicas,
         \/ Receive(r) \/ Insert(r) \/ LockBuyer(r) \/ PaySeller(r) \/ MoveTaker(r) \/ MoveMaker(r)
         \/ SkipOrder(r) \/ Fail(r) \/ Crash(r) \/ Resubscribe(r)
  PROVE  OrdersSound'
<1>1. orders' = orders
  BY DEF Receive, Insert, LockBuyer, PaySeller, MoveTaker, MoveMaker, SkipOrder, Fail, Crash, Resubscribe
<1>2. \A j \in FillIds : moved[j].maker \in Nat
  BY TypesOf DEF Core
<1>3. \E pc, fill, seen :
        /\ pc \in Places
        /\ Turn(r, pc, fill, seen) /\ fills \subseteq fills'
        /\ \A j \in FillIds : moved[j].maker <= moved'[j].maker
        /\ \/ pc \notin Updating
           \/ moved[fill.id].maker = 0 /\ pc = "loadMaker"
           \/ worker[r].fill = fill /\ worker[r].pc \in {"loadMaker", "writeMaker"} /\ pc = "loadTaker"
  <2> USE DEF Places, Updating
  <2>1. CASE Receive(r)
    <3>1. moved' = moved /\ fills' = fills
      BY <2>1 DEF Receive
    <3> QED BY <1>2, <2>1, <3>1, ReceiveDoes
  <2>2. CASE Insert(r)
    <3>1. moved' = moved
      BY <2>2 DEF Insert
    <3> QED BY <1>2, <2>2, <3>1, InsertDoes
  <2>3. CASE LockBuyer(r)
    <3>1. moved' = moved /\ fills' = fills
      BY <2>3 DEF LockBuyer
    <3> QED BY <1>2, <2>3, <3>1, LockBuyerDoes
  <2>4. CASE PaySeller(r)
    <3>1. moved' = moved /\ fills' = fills
      BY <2>4 DEF PaySeller
    <3> QED BY <1>2, <2>4, <3>1, PaySellerDoes
  <2>5. CASE MoveTaker(r)
    <3>1. fills' = fills
      BY <2>5 DEF MoveTaker
    <3> QED BY <1>2, <2>5, <3>1, MoveTakerDoes
  <2>6. CASE MoveMaker(r)
    <3>1. fills' = fills
      BY <2>6 DEF MoveMaker
    <3>2. \A j \in FillIds : moved[j].maker <= moved'[j].maker
      BY <1>2, <2>6, MoveMakerDoes
    <3> QED BY <2>6, <3>1, <3>2, MoveMakerDoes
  <2>7. CASE SkipOrder(r)
    <3>1. moved' = moved /\ fills' = fills
      BY <2>7 DEF SkipOrder
    <3> QED BY <1>2, <2>7, <3>1, SkipOrderDoes
  <2>8. CASE Fail(r) \/ Crash(r) \/ Resubscribe(r)
    <3>1. moved' = moved /\ fills' = fills /\ \E pc \in {"idle", "down"} : Turn(r, pc, None, 0)
      BY <2>8, EndDoes
    <3> QED BY <1>2, <3>1
  <2> QED BY <2>1, <2>2, <2>3, <2>4, <2>5, <2>6, <2>7, <2>8
<1>4. PICK pc, fill, seen :
        /\ pc \in Places
        /\ Turn(r, pc, fill, seen) /\ fills \subseteq fills'
        /\ \A j \in FillIds : moved[j].maker <= moved'[j].maker
        /\ \/ pc \notin Updating
           \/ moved[fill.id].maker = 0 /\ pc = "loadMaker"
           \/ worker[r].fill = fill /\ worker[r].pc \in {"loadMaker", "writeMaker"} /\ pc = "loadTaker"
  BY <1>3
<1>5. \A o \in Orders : Written(o) \subseteq Written(o)'
  BY <1>4, WrittenGrows
<1>6. /\ \A s \in Replicas \ {r} : worker'[s] = worker[s]
      /\ worker'[r].pc \notin {"writeMaker", "writeTaker"}
  BY <1>4 DEF Turn, Updating
<1> QED BY <1>1, <1>5, <1>6, OrdersKept

\* At first nothing is written.
LEMMA OrdersInit == Init => OrdersSound
<1> SUFFICES ASSUME Init PROVE OrdersSound
  OBVIOUS
<1>1. \A o \in Orders : Written(o) = {} /\ orders[o].filled = 0 /\ orders[o].status = "open"
  BY DEF Init, Written, Moved
<1>2. \A r \in Replicas : worker[r].pc = "idle"
  BY DEF Init, Idle
<1>3. Cost({}) = 0 /\ \A o \in Orders : Quantity[o] # 0
  BY CostOfNone, PipelineAssumption
<1>4. \A o \in Orders : orders[o].filled <= Cost(Written(o))
  <2> SUFFICES ASSUME NEW o \in Orders PROVE orders[o].filled <= Cost(Written(o))
    OBVIOUS
  <2>1. Cost(Written(o)) = 0 /\ orders[o].filled = 0
    BY <1>1, <1>3
  <2> QED BY <2>1
<1>5. \A r \in Replicas : worker[r].pc \notin {"writeMaker", "writeTaker"}
  BY <1>2
<1>6. \A o \in Orders : orders[o].status = "filled" <=> orders[o].filled = Quantity[o]
  BY <1>1, <1>3
<1> QED BY <1>4, <1>5, <1>6 DEF OrdersSound

\* A step of the engine only.
LEMMA OrdersUnchanged ==
  ASSUME OrdersSound, UNCHANGED <<worker, fills, orders, moved>>
  PROVE  OrdersSound'
  BY DEF OrdersSound, Written, Moved, Pending, LoopOrder

\* Every step keeps OrdersSound.
LEMMA OrdersNext == Core /\ BookSound /\ OrdersSound /\ [Next]_vars => OrdersSound'
<1> SUFFICES ASSUME Core, BookSound, OrdersSound, [Next]_vars PROVE OrdersSound'
  OBVIOUS
<1>1. Core' /\ BookSound'
  BY CoreNext, BookNext
<1>2. CASE UNCHANGED <<worker, fills, orders, moved>>
  BY <1>2, OrdersUnchanged
<1>3. ASSUME NEW r \in Replicas, LoadOrder(r) \/ WriteOrder(r) PROVE OrdersSound'
  BY <1>1, <1>3, OrdersLoad, OrdersWrite
<1>4. ASSUME NEW r \in Replicas,
             \/ Receive(r) \/ Insert(r) \/ LockBuyer(r) \/ PaySeller(r) \/ MoveTaker(r) \/ MoveMaker(r)
             \/ SkipOrder(r) \/ Fail(r) \/ Crash(r) \/ Resubscribe(r)
      PROVE  OrdersSound'
  BY <1>1, <1>4, OrdersTurn
<1>5. \/ UNCHANGED <<worker, fills, orders, moved>>
      \/ \E r \in Replicas : Receive(r) \/ Work(r) \/ Fail(r) \/ SkipOrder(r) \/ Crash(r) \/ Resubscribe(r)
  BY DEF Next, vars, MakeFill, Restart, AbortDeadlocked
<1> QED BY <1>2, <1>3, <1>4, <1>5 DEF Work

\* With BookSound, a row shows no more than the order's quantity.
LEMMA OrdersFromSound == Core /\ BookSound /\ OrdersSound => OrdersMatchFills
<1> SUFFICES ASSUME Core, BookSound, OrdersSound, NEW o \in Orders
             PROVE  /\ orders[o].filled <= Cost(Moved(o))
                    /\ orders[o].filled <= Quantity[o]
                    /\ orders[o].status = "filled" <=> orders[o].filled = Quantity[o]
  BY DEF OrdersMatchFills
<1>1. Written(o) \subseteq Moved(o) /\ Moved(o) \subseteq OutOf(o) /\ Batch(OutOf(o)) /\ Batch(Written(o))
  BY CoreSets DEF Sets, Written
<1>2. /\ Cost(Written(o)) <= Cost(Moved(o)) /\ Cost(Moved(o)) <= Cost(OutOf(o))
      /\ Cost(Written(o)) \in Nat /\ Cost(Moved(o)) \in Nat /\ Cost(OutOf(o)) \in Nat
  <2>1. Batch(Moved(o)) /\ Cost(Moved(o)) <= Cost(OutOf(o))
    BY <1>1, CostMonotone
  <2> QED BY <1>1, <2>1, CostMonotone, CostTyped
<1>3. /\ orders[o].filled \in Nat /\ book[o] \in Nat /\ Quantity[o] \in Nat
  BY PipelineAssumption, TypesOf DEF Core
<1>4. /\ orders[o].filled <= Cost(Written(o)) /\ Cost(OutOf(o)) + book[o] <= Quantity[o]
      /\ orders[o].status = "filled" <=> orders[o].filled = Quantity[o]
  BY DEF OrdersSound, BookSound
<1> QED BY <1>2, <1>3, <1>4

\* An order's row never shows more filled than the fills moved for it, nor more than
\* its quantity, and says filled exactly at its quantity, though replicas that read
\* the row before each other's write lose updates.
THEOREM RowsMatchFills == Spec => []OrdersMatchFills
  BY OrdersInit, OrdersNext, OrdersFromSound, BookInit, BookNext, CoreInit, CoreNext, PTL DEF Spec

-----------------------------------------------------------------------------
(* The refinement of Settlement.                                           *)

\* A fill that the index does not know is recorded; a duplicate changes nothing.
LEMMA PromiseRecord ==
  ASSUME Core, NEW r \in Replicas, Insert(r)
  PROVE  Promise!Next \/ UNCHANGED Promise!vars
<1> DEFINE f == worker[r].fill
<1>1. /\ worker[r].pc = "insert" /\ UNCHANGED <<inbox, balances, locks, paid, moved>>
      /\ Known(f) => fills' = fills
      /\ ~ Known(f) => fills' = fills \cup {f}
  BY DEF Insert, At, moneyVars
<1>2. f \in Fills /\ Out(f)
  BY <1>1 DEF Core, Holding, Busy, Out
<1>3. CASE Known(f)
  BY <1>1, <1>3 DEF Promise!vars
<1>4. CASE ~ Known(f)
  <2>1. \A g \in fills : g.sequence # f.sequence
    BY <1>4 DEF Known
  <2>2. \A g \in fills : g.id # f.id
    BY <1>2, <2>1, NotBegun
  <2>3. fills' = fills \cup {f} /\ UNCHANGED <<balances, paid, moved>>
    BY <1>1, <1>4
  <2> HIDE DEF f
  <2>4. Promise!Record(f)
    BY <2>1, <2>2, <2>3 DEF Promise!Record
  <2> QED BY <2>3, <2>4 DEF Promise!Next
<1> QED BY <1>3, <1>4

\* The transaction of a fill commits all of its money.
LEMMA PromiseSettle ==
  ASSUME Core, NEW r \in Replicas, PaySeller(r)
  PROVE  Promise!Next
<1> DEFINE f == worker[r].fill
<1>1. /\ Core' /\ f \in fills /\ f.id \in FillIds /\ paid[f.id] = 0 /\ paid'[f.id] = 1
      /\ \A j \in FillIds \ {f.id} : paid'[j] = paid[j]
      /\ \A u \in Users :
            /\ balances'[u].available = balances[u].available + (IF Seller(f) = u THEN f.quantity ELSE 0)
            /\ balances'[u].reserved <= balances[u].reserved
            /\ balances'[u].reserved + (IF Seller(f) = u THEN f.quantity ELSE 0)
                 + (IF Buyer(f) = u THEN f.quantity ELSE 0) >= balances[u].reserved
  BY PaySellerDoes
<1>2. fills' = fills /\ moved' = moved
  BY DEF PaySeller
<1>3. f \in Fills /\ f.quantity \in Nat
  BY <1>1, FillFields DEF Core, TypeOK
<1> HIDE DEF f
<1>4. paid' = [paid EXCEPT ![f.id] = 1]
  BY <1>1 DEF Core, TypeOK
<1>5. ASSUME NEW u \in Users
      PROVE  /\ balances'[u].available = balances[u].available + (IF u = Seller(f) THEN f.quantity ELSE 0)
             /\ balances'[u].reserved \in Nat
             /\ balances[u].reserved - balances'[u].reserved
                  \in 0 .. (IF u = Buyer(f) THEN f.quantity ELSE 0) + (IF u = Seller(f) THEN f.quantity ELSE 0)
  <2>1. balances[u].reserved \in Nat /\ balances'[u].reserved \in Nat
    BY <1>1, TypesOf DEF Core, TypeOK
  <2> QED BY <1>1, <1>3, <2>1
<1>6. Promise!Settle(f)
  BY <1>1, <1>2, <1>4, <1>5 DEF Promise!Settle, Promise!Owes, Promise!Buyer, Promise!Seller, Buyer, Seller
<1> QED BY <1>1, <1>2, <1>6 DEF Promise!Next

\* What was done of the fill of a worker between its transaction and update_orders.
LEMMA AtMove ==
  ASSUME Core, NEW r \in Replicas, worker[r].pc \in {"taker", "maker"}
  PROVE  /\ worker[r].fill \in fills /\ worker[r].fill.id \in FillIds /\ paid[worker[r].fill.id] = 1
         /\ moved[worker[r].fill.id] = [taker |-> TakerAt(worker[r].pc), maker |-> 0]
<1> DEFINE f == worker[r].fill
<1>1. /\ f \in fills /\ f.id \in FillIds /\ paid[f.id] = 1
      /\ moved[f.id].taker = TakerAt(worker[r].pc) /\ moved[f.id].maker = 0
  BY FillFields DEF Core, TypeOK, Holding, Applied, Past, PaidAt, TakerAt, MakerAt
<1>2. moved[f.id] \in [taker : Nat, maker : Nat]
  BY <1>1 DEF Core, TypeOK
<1> HIDE DEF f
<1>3. moved[f.id] = [taker |-> TakerAt(worker[r].pc), maker |-> 0]
  BY <1>1, <1>2
<1> QED BY <1>1, <1>3 DEF f

\* The positions move, each by the worker that has the fill.
LEMMA PromiseMoveTaker ==
  ASSUME Core, NEW r \in Replicas, MoveTaker(r)
  PROVE  Promise!Next
<1> DEFINE f == worker[r].fill
           m == [moved[f.id] EXCEPT !.taker = @ + 1]
<1>1. /\ worker[r].pc = "taker" /\ UNCHANGED <<fills, balances, paid>>
      /\ moved' = [moved EXCEPT ![f.id] = m]
  BY DEF MoveTaker, At, moneyVars
<1>2. f \in fills /\ paid[f.id] = 1 /\ moved[f.id] = [taker |-> 0, maker |-> 0]
  BY <1>1, AtMove DEF TakerAt
<1>3. m = [taker |-> 1, maker |-> 0]
  BY <1>2
<1> HIDE DEF f, m
<1>4. Promise!MoveTaker(f)
  BY <1>1, <1>2, <1>3 DEF Promise!MoveTaker
<1> QED BY <1>1, <1>2, <1>4 DEF Promise!Next

LEMMA PromiseMoveMaker ==
  ASSUME Core, NEW r \in Replicas, MoveMaker(r)
  PROVE  Promise!Next
<1> DEFINE f == worker[r].fill
           m == [moved[f.id] EXCEPT !.maker = @ + 1]
<1>1. /\ worker[r].pc = "maker" /\ UNCHANGED <<fills, balances, paid>>
      /\ moved' = [moved EXCEPT ![f.id] = m]
  BY DEF MoveMaker, At, moneyVars
<1>2. f \in fills /\ paid[f.id] = 1 /\ moved[f.id] = [taker |-> 1, maker |-> 0]
  BY <1>1, AtMove DEF TakerAt
<1>3. m = [taker |-> 1, maker |-> 1]
  BY <1>2
<1> HIDE DEF f, m
<1>4. Promise!MoveMaker(f)
  BY <1>1, <1>2, <1>3 DEF Promise!MoveMaker
<1> QED BY <1>1, <1>2, <1>4 DEF Promise!Next

\* The FillProcessors of any number of replicas, with their subscriptions, row locks,
\* failures and crashes, implement the one processor of Settlement: the unique index is
\* all that decides which of them it is, and what it leaves undone nobody takes up.
THEOREM RefinesSettlement == Spec => KeepsPromise
<1>1. Init => Promise!Init
  BY DEF Init, Promise!Init
<1>2. Core /\ [Next]_vars => [Promise!Next]_(Promise!vars)
  <2> SUFFICES ASSUME Core, [Next]_vars PROVE Promise!Next \/ UNCHANGED Promise!vars
    OBVIOUS
  <2>1. ASSUME NEW r \in Replicas, Work(r) PROVE Promise!Next \/ UNCHANGED Promise!vars
    <3>1. CASE Insert(r)
      BY <3>1, PromiseRecord
    <3>2. CASE PaySeller(r) \/ MoveTaker(r) \/ MoveMaker(r)
      BY <3>2, PromiseSettle, PromiseMoveTaker, PromiseMoveMaker
    <3>3. CASE LockBuyer(r) \/ LoadOrder(r) \/ WriteOrder(r)
      BY <3>3 DEF LockBuyer, LoadOrder, WriteOrder, moneyVars, Promise!vars
    <3> QED BY <2>1, <3>1, <3>2, <3>3 DEF Work
  <2>2. ASSUME NEW r \in Replicas,
               Receive(r) \/ Fail(r) \/ SkipOrder(r) \/ Crash(r) \/ Resubscribe(r)
        PROVE  UNCHANGED Promise!vars
    BY <2>2 DEF Receive, Fail, SkipOrder, Crash, Resubscribe, moneyVars, Promise!vars
  <2>3. ASSUME NEW maker \in Orders, NEW taker \in Orders, NEW q \in 1 .. Quantity[maker],
               MakeFill(maker, taker, q)
        PROVE  UNCHANGED Promise!vars
    BY <2>3 DEF MakeFill, moneyVars, Promise!vars
  <2>4. CASE Restart \/ UNCHANGED vars
    BY <2>4 DEF Restart, vars, moneyVars, Promise!vars
  <2> QED BY <2>1, <2>2, <2>3, <2>4 DEF Next, AbortDeadlocked
<1> QED BY <1>1, <1>2, CoreInit, CoreNext, PTL DEF Spec, KeepsPromise, Promise!Spec

-----------------------------------------------------------------------------
(* The row locks.                                                          *)

\* A row is locked exactly while the worker that locked it is in its transaction: no
\* failure and no crash leaves a lock behind, and no worker loses one it counts on.
\* Whoever waits for a row waits for a worker that is about to pay.
LocksHeld ==
    \A u \in Users, r \in Replicas :
        locks[u] = r <=> worker[r].pc = "seller" /\ Buyer(worker[r].fill) = u

LEMMA LocksInit == Init => LocksHeld
<1> SUFFICES ASSUME Init, NEW u \in Users, NEW r \in Replicas
             PROVE  ~ (locks[u] = r) /\ worker[r].pc # "seller"
  BY DEF LocksHeld
<1> QED BY PipelineAssumption DEF Init, Idle

\* A worker that ends its transaction, or has none, leaves the locks of the others.
LEMMA LocksTurn ==
  ASSUME LocksHeld, NEW r \in Replicas, NEW pc, NEW fill, NEW seen, Turn(r, pc, fill, seen),
         pc # "seller",
         \/ locks' = Unlocked(r)
         \/ locks' = locks /\ worker[r].pc # "seller"
  PROVE  LocksHeld'
<1>1. worker'[r].pc # "seller" /\ \A s \in Replicas \ {r} : worker'[s] = worker[s]
  BY DEF Turn
<1> SUFFICES ASSUME NEW u \in Users, NEW s \in Replicas
             PROVE  locks'[u] = s <=> worker'[s].pc = "seller" /\ Buyer(worker'[s].fill) = u
  BY DEF LocksHeld, Buyer
<1>2. locks[u] = s <=> worker[s].pc = "seller" /\ Buyer(worker[s].fill) = u
  BY DEF LocksHeld
<1>3. CASE locks' = Unlocked(r)
  <2>1. locks'[u] = IF locks[u] = r THEN None ELSE locks[u]
    BY <1>3 DEF Unlocked
  <2>2. None # s
    BY PipelineAssumption
  <2> QED BY <1>1, <1>2, <2>1, <2>2
<1>4. CASE locks' = locks /\ worker[r].pc # "seller"
  BY <1>1, <1>2, <1>4
<1> QED BY <1>3, <1>4

\* A worker takes a lock that nobody has.
LEMMA LocksTaken ==
  ASSUME Core, LocksHeld, NEW r \in Replicas, LockBuyer(r)
  PROVE  LocksHeld'
<1> DEFINE b == Buyer(worker[r].fill)
<1>1. /\ worker[r].pc = "buyer" /\ locks[b] = None /\ locks' = [locks EXCEPT ![b] = r]
      /\ locks \in [Users -> Replicas \cup {None}]
  BY DEF LockBuyer, At, Core, TypeOK
<1>2. worker'[r].pc = "seller" /\ worker'[r].fill = worker[r].fill
      /\ \A s \in Replicas \ {r} : worker'[s] = worker[s]
  BY LockBuyerDoes DEF Turn
<1> SUFFICES ASSUME NEW u \in Users, NEW s \in Replicas
             PROVE  locks'[u] = s <=> worker'[s].pc = "seller" /\ Buyer(worker'[s].fill) = u
  BY DEF LocksHeld, Buyer
<1>3. locks[u] = s <=> worker[s].pc = "seller" /\ Buyer(worker[s].fill) = u
  BY DEF LocksHeld
<1>4. Buyer(worker'[r].fill) = b
  BY <1>2
<1> HIDE DEF b
<1>5. locks'[u] = IF u = b THEN r ELSE locks[u]
  BY <1>1
<1>6. None # s
  BY PipelineAssumption
<1> QED BY <1>1, <1>2, <1>3, <1>4, <1>5, <1>6

\* Every step keeps LocksHeld.
LEMMA LocksNext == Core /\ LocksHeld /\ [Next]_vars => LocksHeld'
<1> SUFFICES ASSUME Core, LocksHeld, [Next]_vars PROVE LocksHeld'
  OBVIOUS
<1>1. ASSUME NEW r \in Replicas, Receive(r) \/ Insert(r) PROVE LocksHeld'
  <2>1. locks' = locks /\ worker[r].pc # "seller"
    BY <1>1 DEF Receive, Insert, At, moneyVars
  <2>2. \E pc \in {"insert", "idle", "buyer"} : \E fill, seen : Turn(r, pc, fill, seen)
    <3>1. CASE Receive(r)
      BY <3>1, ReceiveDoes, Zenon
    <3>2. CASE Insert(r)
      BY <3>2, InsertDoes, Zenon
    <3> QED BY <1>1, <3>1, <3>2
  <2> QED BY <2>1, <2>2, LocksTurn
<1>2. ASSUME NEW r \in Replicas, LockBuyer(r) PROVE LocksHeld'
  BY <1>2, LocksTaken
<1>3. ASSUME NEW r \in Replicas, PaySeller(r) PROVE LocksHeld'
  <2>1. locks' = Unlocked(r)
    BY <1>3 DEF PaySeller
  <2>2. Turn(r, "taker", worker[r].fill, worker[r].seen)
    BY <1>3, PaySellerDoes
  <2> QED BY <2>1, <2>2, LocksTurn
<1>4. ASSUME NEW r \in Replicas, MoveTaker(r) \/ MoveMaker(r) \/ LoadOrder(r) \/ WriteOrder(r) \/ SkipOrder(r)
      PROVE  LocksHeld'
  <2>1. locks' = locks /\ worker[r].pc # "seller"
    BY <1>4 DEF MoveTaker, MoveMaker, LoadOrder, WriteOrder, SkipOrder, At, moneyVars
  <2>2. \E pc \in {"maker", "loadMaker", "writeMaker", "loadTaker", "writeTaker", "idle"} :
          \E fill, seen : Turn(r, pc, fill, seen)
    <3>1. CASE MoveTaker(r) \/ MoveMaker(r)
      BY <3>1, MoveTakerDoes, MoveMakerDoes
    <3>2. CASE LoadOrder(r)
      BY <3>2, LoadOrderDoes
    <3>3. CASE WriteOrder(r) \/ SkipOrder(r)
      BY <3>3, WriteOrderDoes, SkipOrderDoes
    <3> QED BY <1>4, <3>1, <3>2, <3>3
  <2> QED BY <2>1, <2>2, LocksTurn
<1>5. ASSUME NEW r \in Replicas, Fail(r) \/ Crash(r) \/ Resubscribe(r) PROVE LocksHeld'
  <2>1. \/ locks' = Unlocked(r)
        \/ locks' = locks /\ worker[r].pc # "seller"
    BY <1>5 DEF Fail, Crash, Resubscribe, At, moneyVars
  <2>2. \E pc \in {"idle", "down"} : Turn(r, pc, None, 0)
    BY <1>5, EndDoes
  <2> QED BY <2>1, <2>2, LocksTurn
<1>6. CASE UNCHANGED <<worker, locks>>
  BY <1>6 DEF LocksHeld, Buyer
<1>7. \/ UNCHANGED <<worker, locks>>
      \/ \E r \in Replicas : Receive(r) \/ Work(r) \/ Fail(r) \/ SkipOrder(r) \/ Crash(r) \/ Resubscribe(r)
  BY DEF Next, vars, MakeFill, Restart, AbortDeadlocked, moneyVars
<1> QED BY <1>1, <1>2, <1>3, <1>4, <1>5, <1>6, <1>7 DEF Work

\* Row locks belong to workers in their transactions, to all of them and to nobody else,
\* whatever fails or goes down: the safety that KeepsProcessing rests on.
THEOREM LocksBelongToTransactions == Spec => []LocksHeld
  BY LocksInit, LocksNext, CoreInit, CoreNext, PTL DEF Spec

=============================================================================
