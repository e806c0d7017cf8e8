------------------------ MODULE AlgoExecutionProofs -------------------------
(***************************************************************************)
(* Proofs about AlgoExecution.  That a cancelled order is left alone rests *)
(* on the lock: from StartPass to EndPass the executor holds it, so that   *)
(* what StartPass read of the orders' statuses stays true to the end of    *)
(* the pass, across all the waits for room in the channel (PassHolds); and *)
(* nobody else lets go of that lock, for a caller that is about to release *)
(* one holds it (SendHolds).  That what is submitted adds up rests on two  *)
(* things more: the cuts are whole and in the order of their times (Whole),*)
(* and before a submitted child every child was tried (Kept).  Last, both  *)
(* locks are held only where their holder goes on to release them.         *)
(***************************************************************************)
EXTENDS AlgoExecution, SumTheorems, SequenceTheorems

\* The orders are records, whatever their quantities and children are.
Records(T, C) == [status : Statuses, total : T, children : C]
Shaped(a) == \E T, C : a \in Seq(Records(T, C))

\* The callers that have cut an order and are about to insert it.
Inserting == {c \in Callers : At(c, "insert")}

\* The orders and those about to be inserted are no more than MaxOrders.
Bounded ==
    /\ IsFiniteSet(Inserting)
    /\ Len(algos) + Cardinality(Inserting) <= MaxOrders

\* What the steps need to know of types, whatever the orders' quantities are.
Shape ==
    /\ Shaped(algos)
    /\ DOMAIN caller = Callers
    /\ DOMAIN sent = Ids
    /\ now \in Nat
    /\ executor \in [pc : {"off", "sleep", "pass"}, now : Nat, left : SUBSET Nat, id : Nat \cup {None}]

\* A caller about to give the lock back holds it.
SendHolds == \A c \in Callers : At(c, "send") => lock = c

\* What StartPass read is still so, under the lock.
PassHolds ==
    executor.pc = "pass" =>
        /\ lock = "executor"
        /\ \A i \in executor.left : i \in Known /\ algos[i].status \in Active
        /\ executor.id # None =>
              /\ executor.id \in Known /\ algos[executor.id].status = "running"
              /\ executor.id \notin executor.left

\* The inductive invariant of the lock.
IInv == Shape /\ Bounded /\ SendHolds /\ PassHolds

-----------------------------------------------------------------------------
(* The sequence of orders.                                                 *)

\* b is a but for order i.
Except(a, i, b) ==
    /\ Shaped(b) /\ Len(b) = Len(a) /\ DOMAIN b = DOMAIN a
    /\ \A j \in DOMAIN a \ {i} : b[j] = a[j]

WithStatus(a, i, s) == [a EXCEPT ![i].status = s]
WithChild(a, i, k, s) == [a EXCEPT ![i].children[k].status = s]
Marked(cs, k, s) == [cs EXCEPT ![k].status = s]

\* A change of one order that keeps its record a record.
LEMMA OrderReplaced ==
    ASSUME NEW T, NEW C, NEW a \in Seq(Records(T, C)), NEW i \in DOMAIN a, NEW r \in Records(T, C)
    PROVE  Except(a, i, [a EXCEPT ![i] = r]) /\ [a EXCEPT ![i] = r][i] = r
  <1>. DEFINE b == [a EXCEPT ![i] = r]
  <1>1. DOMAIN a = 1 .. Len(a)
    BY LenProperties
  <1>2. /\ b \in Seq(Records(T, C)) /\ Len(b) = Len(a)
        /\ \A j \in 1 .. Len(a) : b[j] = IF j = i THEN r ELSE a[j]
    BY <1>1, ExceptSeq
  <1>. QED
    BY <1>1, <1>2 DEF Except, Shaped

\* A change of one order's status changes nothing else.
LEMMA StatusChanged ==
    ASSUME NEW a, Shaped(a), NEW i \in DOMAIN a, NEW s \in Statuses
    PROVE  /\ Except(a, i, WithStatus(a, i, s))
           /\ WithStatus(a, i, s)[i].status = s
           /\ a[i].status = s => WithStatus(a, i, s)[i] = a[i]
           /\ WithStatus(a, i, s)[i].children = a[i].children
           /\ WithStatus(a, i, s)[i].total = a[i].total
  <1>1. PICK T, C : a \in Seq(Records(T, C))
    BY DEF Shaped
  <1>2. a[i] \in Records(T, C)
    BY <1>1, ElementOfSeq, LenProperties
  <1>. DEFINE r == [a[i] EXCEPT !.status = s]
  <1>3. /\ r \in Records(T, C) /\ r.status = s /\ (a[i].status = s => r = a[i])
        /\ r.children = a[i].children /\ r.total = a[i].total
    BY <1>2 DEF Records
  <1>. HIDE DEF r
  <1>4. Except(a, i, [a EXCEPT ![i] = r]) /\ [a EXCEPT ![i] = r][i] = r
    BY <1>1, <1>3, OrderReplaced
  <1>5. WithStatus(a, i, s) = [a EXCEPT ![i] = r]
    BY DEF WithStatus, r
  <1>. QED
    BY <1>3, <1>4, <1>5

\* A change of one child of an order leaves the order's status as it is.
LEMMA ChildChanged ==
    ASSUME NEW a, Shaped(a), NEW i \in DOMAIN a, NEW k, NEW s
    PROVE  /\ Except(a, i, WithChild(a, i, k, s))
           /\ WithChild(a, i, k, s)[i].status = a[i].status
           /\ WithChild(a, i, k, s)[i].children = Marked(a[i].children, k, s)
           /\ WithChild(a, i, k, s)[i].total = a[i].total
  <1>1. PICK T, C : a \in Seq(Records(T, C))
    BY DEF Shaped
  <1>. DEFINE cs == Marked(a[i].children, k, s)
              D == C \cup {cs}
              r == [a[i] EXCEPT !.children = cs]
  <1>2. a[i] \in Records(T, C)
    BY <1>1, ElementOfSeq, LenProperties
  <1>3. WithChild(a, i, k, s) = [a EXCEPT ![i] = r]
    BY DEF WithChild, Marked
  <1>4. cs \in D /\ C \subseteq D
    OBVIOUS
  <1>. HIDE DEF cs, D
  <1>5. a \in Seq(Records(T, D))
    <2>1. Records(T, C) \subseteq Records(T, D)
      BY <1>4 DEF Records
    <2>. QED  BY <1>1, <2>1, SeqMonotonic
  <1>6. /\ r \in Records(T, D) /\ r.status = a[i].status
        /\ r.children = cs /\ r.total = a[i].total
    BY <1>2, <1>4 DEF Records
  <1>. HIDE DEF r
  <1>7. Except(a, i, [a EXCEPT ![i] = r]) /\ [a EXCEPT ![i] = r][i] = r
    BY <1>5, <1>6, OrderReplaced
  <1>. QED
    BY <1>3, <1>6, <1>7 DEF cs

\* A new order leaves the others as they are.
LEMMA OrderAppended ==
    ASSUME NEW a, Shaped(a), NEW t, NEW cs
    PROVE  LET b == Append(a, [status |-> "pending", total |-> t, children |-> cs])
           IN /\ Shaped(b) /\ Len(b) = Len(a) + 1 /\ DOMAIN a \subseteq DOMAIN b
              /\ \A j \in DOMAIN a : b[j] = a[j]
              /\ b[Len(a) + 1] = [status |-> "pending", total |-> t, children |-> cs]
              /\ DOMAIN b = DOMAIN a \cup {Len(a) + 1}
  <1>1. PICK T, C : a \in Seq(Records(T, C))
    BY DEF Shaped
  <1>. DEFINE r == [status |-> "pending", total |-> t, children |-> cs]
              TT == T \cup {t}
              CC == C \cup {cs}
              R == Records(TT, CC)
              b == Append(a, r)
  <1>2. T \subseteq TT /\ t \in TT /\ C \subseteq CC /\ cs \in CC
    OBVIOUS
  <1>. HIDE DEF TT, CC
  <1>3. a \in Seq(R)
    <2>1. Records(T, C) \subseteq R
      BY <1>2 DEF Records
    <2>. QED  BY <1>1, <2>1, SeqMonotonic
  <1>4. r \in R
    BY <1>2 DEF Statuses, Records
  <1>. HIDE DEF R, r
  <1>5. /\ b \in Seq(R) /\ Len(b) = Len(a) + 1 /\ \A j \in 1 .. Len(a) : b[j] = a[j]
        /\ b[Len(a) + 1] = r
    BY <1>3, <1>4, AppendProperties
  <1>6. DOMAIN a = 1 .. Len(a) /\ DOMAIN b = 1 .. Len(b) /\ Len(a) \in Nat
    BY <1>3, <1>5, LenProperties
  <1>7. Shaped(b)
    BY <1>5 DEF Shaped, R
  <1>. QED
    BY <1>5, <1>6, <1>7 DEF r

-----------------------------------------------------------------------------
(* Cutting an order.                                                       *)

\* The children are the whole of an order, in the order of their times.
Whole(total, children) ==
  /\ total \in Nat /\ children \in Seq(Children)
  /\ Total(children) = total
  /\ \A j, k \in DOMAIN children : j <= k => children[j].at <= children[k].at

\* Nothing of them was tried.
Fresh(children) == \A k \in DOMAIN children : children[k].status = "pending"

\* Division with a remainder.
LEMMA Divided ==
  ASSUME NEW a \in Nat, NEW b \in Nat \ {0}
  PROVE  /\ a \div b \in Nat /\ a % b \in Nat /\ a % b < b
         /\ a = b * (a \div b) + (a % b)
  OBVIOUS

\* A longer way takes no less time.
LEMMA Further ==
  ASSUME NEW a \in Nat, NEW b \in Nat, a <= b, NEW c \in Nat
  PROVE  a * c <= b * c /\ a * c \in Nat
<1>1. PICK d \in Nat : b = a + d
  <2>1. b - a \in Nat /\ b = a + (b - a)
    OBVIOUS
  <2> QED BY <2>1
<1>2. (a + d) * c = a * c + d * c /\ a * c \in Nat /\ d * c \in Nat
  OBVIOUS
<1> QED BY <1>1, <1>2

\* Nor does dividing it change that.
LEMMA DividedFurther ==
  ASSUME NEW a \in Nat, NEW b \in Nat, a <= b, NEW c \in Nat \ {0}
  PROVE  a \div c <= b \div c
<1> DEFINE x == a \div c
           y == b \div c
<1>1. /\ x \in Nat /\ a = c * x + (a % c) /\ a % c \in Nat
      /\ y \in Nat /\ b = c * y + (b % c) /\ b % c \in Nat /\ b % c < c
  BY Divided
<1> HIDE DEF x, y
<1>2. SUFFICES ASSUME y + 1 <= x PROVE FALSE
  BY <1>1
<1>3. (y + 1) * c <= x * c
  BY <1>1, <1>2, Further
<1>4. (y + 1) * c = c * y + c /\ x * c = c * x
  BY <1>1
<1>5. c * y \in Nat /\ c * x \in Nat
  BY <1>1
<1> QED BY <1>1, <1>3, <1>4, <1>5

\* A sequence of children.
LEMMA Cuts ==
  ASSUME NEW n \in Nat, NEW q, NEW at, \A i \in 1 .. n : q[i] \in Nat /\ at[i] \in Nat,
         \A i, j \in 1 .. n : i <= j => at[i] <= at[j],
         NEW cs, cs = [i \in 1 .. n |-> Child(q[i], at[i])],
         NEW total \in Nat, SumFunctionOnSet(q, 1 .. n) = total
  PROVE  Whole(total, cs) /\ Fresh(cs)
<1>1. DOMAIN cs = 1 .. n /\ \A i \in 1 .. n : cs[i] = Child(q[i], at[i])
  OBVIOUS
<1>2. cs \in Seq(Children)
  <2>1. \A i \in 1 .. n : Child(q[i], at[i]) \in Children
    BY DEF Child, Children
  <2>2. cs \in [1 .. n -> Children]
    BY <2>1
  <2> QED BY <2>2, SeqDef
<1>3. Total(cs) = SumFunctionOnSet(Sizes(cs), 1 .. n)
  BY <1>1 DEF Total, Sizes, SumFunction
<1>4. \A i \in 1 .. n : Sizes(cs)[i] = q[i]
  BY <1>1 DEF Sizes, Child
<1>5. IsFiniteSet(1 .. n)
  BY FS_Interval
<1>6. Total(cs) = total
  BY <1>3, <1>4, <1>5, SumSame
<1>7. \A j, k \in DOMAIN cs : j <= k => cs[j].at <= cs[k].at
  BY <1>1 DEF Child
<1>8. Fresh(cs)
  BY <1>1 DEF Fresh, Child
<1> QED BY <1>2, <1>6, <1>7, <1>8 DEF Whole

\* A sum over the numbers to n takes in the last one last.
LEMMA LastAdds ==
  ASSUME NEW n \in Nat \ {0}, NEW f, \A i \in 1 .. n : f[i] \in Int
  PROVE  /\ SumFunctionOnSet(f, 1 .. n) = f[n] + SumFunctionOnSet(f, 1 .. (n - 1))
         /\ IsFiniteSet(1 .. (n - 1)) /\ Cardinality(1 .. (n - 1)) = n - 1
<1>1. (1 .. n) \ {n} = 1 .. (n - 1)
  OBVIOUS
<1>2. IsFiniteSet(1 .. n) /\ IsFiniteSet(1 .. (n - 1))
  BY FS_Interval
<1>3. Cardinality(1 .. (n - 1)) = n - 1
  BY FS_Interval
<1>4. SumFunctionOnSet(f, 1 .. n) = f[n] + SumFunctionOnSet(f, (1 .. n) \ {n})
  BY <1>2, SumRemove
<1> QED BY <1>1, <1>2, <1>3, <1>4

\* Equal slices and a remainder.
LEMMA TwapWhole ==
  ASSUME now \in Nat, NEW q \in Nat, NEW w \in Nat, NEW n \in Nat \ {0}
  PROVE  Whole(q, Twap(q, w, n)) /\ Fresh(Twap(q, w, n))
<1> DEFINE s == q \div n
           r == q % n
           t == w \div n
           Q == [i \in 1 .. n |-> s + IF i = n THEN r ELSE 0]
           A == [i \in 1 .. n |-> now + (i - 1) * t]
<1>1. s \in Nat /\ r \in Nat /\ q = n * s + r /\ t \in Nat
  BY Divided
<1>2. Twap(q, w, n) = [i \in 1 .. n |-> Child(Q[i], A[i])]
  BY DEF Twap
<1> HIDE DEF s, r, t
<1>3. \A i \in 1 .. n : Q[i] \in Nat
  BY <1>1
<1>4. \A i, j \in 1 .. n : i <= j => A[i] <= A[j] /\ A[i] \in Nat
  <2> SUFFICES ASSUME NEW i \in 1 .. n, NEW j \in 1 .. n, i <= j
               PROVE  A[i] <= A[j] /\ A[i] \in Nat
    OBVIOUS
  <2>1. (i - 1) * t <= (j - 1) * t /\ (i - 1) * t \in Nat
    BY <1>1, Further
  <2>2. (j - 1) * t \in Nat
    BY <1>1, Further
  <2> QED BY <2>1, <2>2
<1>5. SumFunctionOnSet(Q, 1 .. n) = q
  <2>1. \A i \in 1 .. n : Q[i] \in Int
    BY <1>1
  <2>2. Q[n] = s + r /\ \A i \in 1 .. (n - 1) : Q[i] = s
    BY <1>1
  <2> HIDE DEF Q
  <2>3. /\ SumFunctionOnSet(Q, 1 .. n) = s + r + SumFunctionOnSet(Q, 1 .. (n - 1))
        /\ IsFiniteSet(1 .. (n - 1)) /\ Cardinality(1 .. (n - 1)) = n - 1
    BY <2>1, <2>2, LastAdds
  <2>4. SumFunctionOnSet(Q, 1 .. (n - 1)) = s * (n - 1)
    BY <1>1, <2>2, <2>3, SumConstant
  <2> QED BY <1>1, <2>3, <2>4
<1>6. \A i \in 1 .. n : A[i] \in Nat
  BY <1>4
<1> HIDE DEF Q, A
<1> QED BY <1>2, <1>3, <1>4, <1>5, <1>6, Cuts

\* Pieces of one size and what is left.
LEMMA IcebergWhole ==
  ASSUME now \in Nat, NEW q \in Nat \ {0}, NEW v \in Nat \ {0}
  PROVE  Whole(q, Iceberg(q, v)) /\ Fresh(Iceberg(q, v))
<1> DEFINE m == q + v - 1
           n == m \div v
           Q == [i \in 1 .. n |-> Piece(v, q - (i - 1) * v)]
           A == [i \in 1 .. n |-> now]
<1>1. n \in Nat /\ m % v \in Nat /\ m % v < v /\ m = v * n + (m % v)
  <2>1. m \in Nat
    OBVIOUS
  <2> HIDE DEF m
  <2> QED BY <2>1, Divided
<1>2. Iceberg(q, v) = [i \in 1 .. n |-> Child(Q[i], A[i])]
  BY DEF Iceberg
<1> HIDE DEF n
<1>3. n # 0 /\ n * v = v * n /\ n * v \in Nat /\ q <= n * v
  BY <1>1
<1>4. (n - 1) * v = n * v - v /\ (n - 1) * v \in Nat /\ (n - 1) * v < q
  BY <1>1, <1>3
<1> HIDE DEF m
<1>5. Q[n] = q - (n - 1) * v /\ Q[n] \in Nat
  BY <1>1, <1>3, <1>4 DEF Piece
<1>6. \A i \in 1 .. (n - 1) : Q[i] = v
  <2> SUFFICES ASSUME NEW i \in 1 .. (n - 1) PROVE Q[i] = v
    OBVIOUS
  <2>1. i * v <= (n - 1) * v /\ i * v \in Nat
    <3>1. i \in Nat /\ n - 1 \in Nat /\ i <= n - 1
      BY <1>1, <1>3
    <3> QED BY <3>1, Further
  <2>2. (i - 1) * v = i * v - v
    OBVIOUS
  <2>3. v <= q - (i - 1) * v
    BY <1>4, <2>1, <2>2
  <2>4. Q[i] = Piece(v, q - (i - 1) * v)
    BY <1>1
  <2> HIDE DEF Q
  <2>5. q - (i - 1) * v \in Int
    BY <2>1, <2>2
  <2> QED BY <2>3, <2>4, <2>5 DEF Piece
<1>7. \A i \in 1 .. n : Q[i] \in Nat
  <2> SUFFICES ASSUME NEW i \in 1 .. n PROVE Q[i] \in Nat
    OBVIOUS
  <2> HIDE DEF Q
  <2>1. i = n \/ i \in 1 .. (n - 1)
    BY <1>1
  <2> QED BY <2>1, <1>5, <1>6
<1> HIDE DEF Q
<1>8. SumFunctionOnSet(Q, 1 .. n) = q
  <2>1. /\ SumFunctionOnSet(Q, 1 .. n) = Q[n] + SumFunctionOnSet(Q, 1 .. (n - 1))
        /\ IsFiniteSet(1 .. (n - 1)) /\ Cardinality(1 .. (n - 1)) = n - 1
    <3>1. n \in Nat \ {0} /\ \A i \in 1 .. n : Q[i] \in Int
      BY <1>1, <1>3, <1>7
    <3> QED BY <3>1, LastAdds
  <2>2. SumFunctionOnSet(Q, 1 .. (n - 1)) = v * (n - 1)
    <3>1. v \in Int
      OBVIOUS
    <3> QED BY <1>6, <2>1, <3>1, SumConstant
  <2>3. v * (n - 1) = (n - 1) * v
    BY <1>1
  <2> QED BY <1>4, <1>5, <2>1, <2>2, <2>3
<1>9. \A i \in 1 .. n : A[i] \in Nat /\ \A j \in 1 .. n : A[i] <= A[j]
  OBVIOUS
<1> HIDE DEF A
<1> QED BY <1>1, <1>2, <1>7, <1>8, <1>9, Cuts

\* Shares by weight, each cut down to an integer, and what they leave: the shares
\* before the last take no more than there is.
LEMMA VwapWhole ==
  ASSUME now \in Nat, NEW q \in Nat, NEW w \in Nat, NEW n \in Nat \ {0},
         NEW weights \in [1 .. n -> Nat \ {0}]
  PROVE  Whole(q, Vwap(q, w, weights)) /\ Fresh(Vwap(q, w, weights))
<1> DEFINE W == Weight(weights)
           f == [i \in 1 .. (n - 1) |-> Share(q, weights, i)]
           a == SumFunctionOnSet(f, 1 .. (n - 1))
           Q == [i \in 1 .. n |-> IF i = n THEN q - a ELSE f[i]]
           A == [i \in 1 .. n |-> now + IF i = n THEN w ELSE ((i - 1) * w) \div n]
<1>1. IsFiniteSet(1 .. n) /\ IsFiniteSet(1 .. (n - 1)) /\ 1 .. (n - 1) \subseteq 1 .. n
  <2>1. 1 .. (n - 1) \subseteq 1 .. n
    OBVIOUS
  <2>2. IsFiniteSet(1 .. n)
    BY FS_Interval
  <2> QED BY <2>1, <2>2, FS_Subset
<1>2. W = SumFunctionOnSet(weights, 1 .. n)
  BY DEF Weight, SumFunction
<1>3. W \in Nat /\ W # 0 /\ SumFunctionOnSet(weights, 1 .. (n - 1)) \in Nat
      /\ SumFunctionOnSet(weights, 1 .. (n - 1)) <= W
  <2>1. \A i \in 1 .. n : weights[i] \in Nat /\ weights[i] \in Int
    OBVIOUS
  <2>2. \A i \in 1 .. (n - 1) : weights[i] \in Nat
    BY <1>1
  <2>3. SumFunctionOnSet(weights, 1 .. (n - 1)) \in Nat
    BY <1>1, <2>2, SumType
  <2>4. W = weights[n] + SumFunctionOnSet(weights, 1 .. (n - 1))
    BY <1>2, <2>1, LastAdds
  <2>5. weights[n] \in Nat \ {0}
    OBVIOUS
  <2> HIDE DEF W
  <2> QED BY <2>3, <2>4, <2>5
<1> HIDE DEF W
<1>4. \A i \in 1 .. (n - 1) : weights[i] \in Nat /\ f[i] \in Nat /\ W * f[i] <= q * weights[i]
  <2> SUFFICES ASSUME NEW i \in 1 .. (n - 1)
               PROVE  weights[i] \in Nat /\ f[i] \in Nat /\ W * f[i] <= q * weights[i]
    OBVIOUS
  <2>1. weights[i] \in Nat /\ f[i] = (q * weights[i]) \div W
    BY <1>1 DEF Share, W
  <2> DEFINE m == q * weights[i]
  <2>2. m \in Nat
    BY <2>1
  <2> HIDE DEF m
  <2>3. m \div W \in Nat /\ m % W \in Nat /\ m = W * (m \div W) + (m % W)
    BY <1>3, <2>2, Divided
  <2> DEFINE d == m \div W
  <2>4. d \in Nat /\ m % W \in Nat /\ m = W * d + (m % W) /\ f[i] = d
    BY <2>1, <2>3 DEF m
  <2> HIDE DEF d
  <2>5. W * d \in Nat
    BY <1>3, <2>4
  <2>6. W * d <= m
    BY <2>2, <2>4, <2>5
  <2> QED BY <2>1, <2>4, <2>6 DEF m
<1> HIDE DEF f
<1>5. a \in Nat
  BY <1>1, <1>4, SumType
<1>6. a <= q
  <2> DEFINE V == SumFunctionOnSet(weights, 1 .. (n - 1))
  <2>1. W * a <= q * V
    BY <1>1, <1>3, <1>4, SumScaled
  <2> HIDE DEF a, V
  <2>2. V \in Nat /\ V <= W
    BY <1>3 DEF V
  <2>3. V * q <= W * q
    BY <1>3, <2>2, Further
  <2>4. V * q = q * V
    BY <2>2
  <2>5. W * a \in Nat /\ W * q \in Nat /\ q * V \in Nat /\ W * a <= W * q
    BY <1>3, <1>5, <2>1, <2>2, <2>3, <2>4
  <2>6. ASSUME q + 1 <= a PROVE FALSE
    <3>1. (q + 1) * W <= a * W
      BY <1>3, <1>5, <2>6, Further
    <3>2. (q + 1) * W = W * q + W /\ a * W = W * a
      BY <1>3, <1>5
    <3> QED BY <1>3, <2>5, <3>1, <3>2
  <2> QED BY <1>5, <2>6
<1> HIDE DEF a
<1>7. \A i \in 1 .. n : Q[i] \in Nat
  BY <1>4, <1>5, <1>6
<1>8. SumFunctionOnSet(Q, 1 .. n) = q
  <2>1. Q[n] = q - a /\ \A i \in 1 .. (n - 1) : Q[i] = f[i]
    OBVIOUS
  <2> HIDE DEF Q
  <2>2. SumFunctionOnSet(Q, 1 .. n) = Q[n] + SumFunctionOnSet(Q, 1 .. (n - 1))
    BY <1>7, LastAdds
  <2>3. SumFunctionOnSet(Q, 1 .. (n - 1)) = a
    BY <1>1, <2>1, SumSame DEF a
  <2> QED BY <1>5, <2>1, <2>2, <2>3
<1>9. \A i, j \in 1 .. n : i <= j => A[i] <= A[j] /\ A[i] \in Nat
  <2>1. \A i \in 1 .. n : (i - 1) * w \in Nat /\ (i - 1) * w <= n * w
    BY Further
  <2>2. n * w \in Nat /\ (n * w) \div n = w
    <3>1. n * w \in Nat /\ n * w = w * n
      OBVIOUS
    <3> DEFINE d == (n * w) \div n
               r == (n * w) % n
    <3>2. d \in Nat /\ r \in Nat /\ r < n /\ w * n = n * d + r
      BY <3>1, Divided
    <3> HIDE DEF d, r
    <3>3. d <= w
      <4> SUFFICES ASSUME w + 1 <= d PROVE FALSE
        BY <3>2
      <4>1. (w + 1) * n <= d * n
        BY <3>2, Further
      <4>2. (w + 1) * n = w * n + n /\ d * n = n * d /\ n * d \in Nat
        BY <3>2
      <4> QED BY <3>1, <3>2, <4>1, <4>2
    <3>4. w <= d
      <4> SUFFICES ASSUME d + 1 <= w PROVE FALSE
        BY <3>2
      <4>1. (d + 1) * n <= w * n
        BY <3>2, Further
      <4>2. (d + 1) * n = n * d + n /\ n * d \in Nat
        BY <3>2
      <4> QED BY <3>1, <3>2, <4>1, <4>2
    <3> QED BY <3>1, <3>2, <3>3, <3>4 DEF d
  <2>3. \A i \in 1 .. n : ((i - 1) * w) \div n \in Nat /\ ((i - 1) * w) \div n <= w
    <3> SUFFICES ASSUME NEW i \in 1 .. n
                 PROVE  ((i - 1) * w) \div n \in Nat /\ ((i - 1) * w) \div n <= w
      OBVIOUS
    <3> DEFINE m == (i - 1) * w
    <3>1. m \in Nat /\ m <= n * w
      BY <2>1
    <3> HIDE DEF m
    <3>2. m \div n \in Nat /\ m \div n <= w
      BY <2>2, <3>1, DividedFurther, Divided
    <3> QED BY <3>2 DEF m
  <2> SUFFICES ASSUME NEW i \in 1 .. n, NEW j \in 1 .. n, i <= j
               PROVE  A[i] <= A[j] /\ A[i] \in Nat
    OBVIOUS
  <2>4. i # n /\ j # n => ((i - 1) * w) \div n <= ((j - 1) * w) \div n
    <3> DEFINE l == (i - 1) * w
               m == (j - 1) * w
    <3>1. l \in Nat /\ m \in Nat /\ l <= m
      <4>1. i - 1 \in Nat /\ j - 1 \in Nat /\ i - 1 <= j - 1
        OBVIOUS
      <4> QED BY <2>1, <4>1, Further
    <3> HIDE DEF l, m
    <3>2. l \div n <= m \div n
      BY <3>1, DividedFurther
    <3> QED BY <3>2 DEF l, m
  <2>5. A[i] = now + (IF i = n THEN w ELSE ((i - 1) * w) \div n)
        /\ A[j] = now + (IF j = n THEN w ELSE ((j - 1) * w) \div n)
    OBVIOUS
  <2> HIDE DEF A
  <2>6. CASE i = n
    BY <2>5, <2>6
  <2>7. CASE i # n /\ j = n
    BY <2>3, <2>5, <2>7
  <2>8. CASE i # n /\ j # n
    BY <2>3, <2>4, <2>5, <2>8
  <2> QED BY <2>6, <2>7, <2>8
<1>10. Vwap(q, w, weights) = [i \in 1 .. n |-> Child(Q[i], A[i])]
  <2>1. Len(weights) = n /\ weights \in Seq(Nat \ {0})
    BY LenProperties, SeqDef
  <2>2. SumFunction(f) = a
    BY DEF SumFunction, a, f
  <2>3. \A i \in 1 .. n : (IF i = n THEN Child(q - a, now + w)
                           ELSE Child(Share(q, weights, i), now + ((i - 1) * w) \div n))
                          = Child(Q[i], A[i])
    BY DEF f
  <2> HIDE DEF Q, A
  <2> QED BY <2>1, <2>2, <2>3 DEF Vwap, f
<1>11. \A i \in 1 .. n : A[i] \in Nat
  BY <1>9
<1> HIDE DEF Q, A
<1> QED BY <1>7, <1>8, <1>9, <1>10, <1>11, Cuts

-----------------------------------------------------------------------------
(* The invariant.                                                          *)

USE DEF Known, callVars, sendVars

\* There are no orders, locks or passes at first.
LEMMA InvInit == Init => IInv
  <1>. SUFFICES ASSUME Init PROVE IInv
    OBVIOUS
  <1>. USE DEF Init
  <1>1. Shape
    <2>1. algos \in Seq(Records({}, {}))
      BY EmptySeq
    <2>. QED  BY <2>1 DEF Shape, Shaped
  <1>2. Inserting = {}
    BY DEF Inserting, At, Idle
  <1>3. Bounded
    BY <1>2, FS_EmptySet, AlgoAssumption DEF Bounded
  <1>4. SendHolds /\ PassHolds
    BY DEF SendHolds, PassHolds, At, Idle
  <1>. QED
    BY <1>1, <1>3, <1>4 DEF IInv

\* The orders are numbered from 1 on, and Ids has all their numbers.
LEMMA KnownNat ==
    ASSUME IInv
    PROVE  /\ Len(algos) \in Nat /\ Known = 1 .. Len(algos) /\ Known \subseteq Ids
           /\ Cardinality(Inserting) \in Nat
  <1>1. PICK T, C : algos \in Seq(Records(T, C))
    BY DEF IInv, Shape, Shaped
  <1>2. Len(algos) \in Nat /\ DOMAIN algos = 1 .. Len(algos)
    BY <1>1, LenProperties
  <1>3. Cardinality(Inserting) \in Nat
    BY FS_CardinalityType DEF IInv, Bounded
  <1>. QED
    BY <1>2, <1>3, AlgoAssumption DEF IInv, Bounded, Ids

\* The steps that leave the orders, their lock, callers and executor alone.
LEMMA InvAside ==
    ASSUME IInv, UNCHANGED <<algos, lock, caller, executor>>, DOMAIN sent' = Ids, now' \in Nat
    PROVE  IInv'
  <1>1. Inserting' = Inserting
    BY DEF Inserting, At
  <1>2. Shape'
    BY DEF IInv, Shape
  <1>. QED
    BY <1>1, <1>2 DEF IInv, Bounded, SendHolds, PassHolds, At

\* A caller about to insert an order counts for the bound.
LEMMA InvCut ==
    ASSUME IInv, NEW c \in Callers, NEW q, NEW children, Cut(c, q, children)
    PROVE  IInv'
  <1>. USE DEF Cut
  <1>1. Shape'
    BY DEF IInv, Shape
  <1>2. Inserting' = Inserting \cup {c} /\ c \notin Inserting
    BY DEF IInv, Shape, Inserting, At
  <1>3. Inserting = {d \in Callers : At(d, "insert")}
    BY DEF Inserting
  <1>4. Bounded'
    <2>1. IsFiniteSet(Inserting \cup {c})
          /\ Cardinality(Inserting \cup {c}) = Cardinality(Inserting) + 1
      BY <1>2, FS_AddElement DEF IInv, Bounded
    <2>2. Cardinality(Known) = Len(algos)
      <3>1. Len(algos) \in Nat /\ Known = 1 .. Len(algos)
        BY KnownNat
      <3>2. Cardinality(1 .. Len(algos)) = IF 1 > Len(algos) THEN 0 ELSE Len(algos) - 1 + 1
        BY <3>1, FS_Interval
      <3>. QED  BY <3>1, <3>2
    <2>3. Len(algos) + Cardinality(Inserting) < MaxOrders
      BY <1>3, <2>2 DEF Room
    <2>. QED
      BY <1>2, <2>1, <2>3, KnownNat, AlgoAssumption DEF Bounded
  <1>5. SendHolds' /\ PassHolds'
    BY DEF IInv, Shape, SendHolds, PassHolds, At
  <1>. QED
    BY <1>1, <1>4, <1>5 DEF IInv

\* Insert takes the lock that nobody held.
LEMMA InvInsert ==
    ASSUME IInv, NEW c \in Callers, Insert(c)
    PROVE  IInv'
  <1>. USE DEF Insert
  <1>1. /\ Shaped(algos') /\ Len(algos') = Len(algos) + 1
        /\ Known \subseteq DOMAIN algos' /\ \A j \in Known : algos'[j] = algos[j]
    <2>. DEFINE t == caller[c].total
                cs == caller[c].children
    <2>1. algos' = Append(algos, [status |-> "pending", total |-> t, children |-> cs])
      OBVIOUS
    <2>2. Shaped(algos)
      BY DEF IInv, Shape
    <2>. HIDE DEF t, cs
    <2>. QED
      BY <2>1, <2>2, OrderAppended
  <1>2. Shape'
    BY <1>1 DEF IInv, Shape
  <1>3. Inserting' = Inserting \ {c} /\ c \in Inserting
    BY DEF IInv, Shape, Inserting, At, Idle
  <1>4. Bounded'
    <2>1. IsFiniteSet(Inserting \ {c}) /\ Cardinality(Inserting \ {c}) = Cardinality(Inserting) - 1
      BY <1>3, FS_RemoveElement DEF IInv, Bounded
    <2>. QED
      BY <1>1, <1>3, <2>1, KnownNat DEF IInv, Bounded
  <1>5. executor.pc # "pass"
    BY AlgoAssumption DEF IInv, PassHolds
  <1>6. \A d \in Callers : ~At(d, "send")
    BY AlgoAssumption DEF IInv, SendHolds
  <1>7. SendHolds' /\ PassHolds'
    BY <1>5, <1>6 DEF IInv, Shape, SendHolds, PassHolds, At, Idle
  <1>. QED
    BY <1>2, <1>4, <1>7 DEF IInv

\* Send releases the lock of its own caller.
LEMMA InvSend ==
    ASSUME IInv, NEW c \in Callers, Send(c)
    PROVE  IInv'
  <1>. USE DEF Send
  <1>1. Shape'
    BY DEF IInv, Shape
  <1>2. Inserting' = Inserting
    BY DEF IInv, Shape, Inserting, At, Idle
  <1>3. Bounded'
    BY <1>2 DEF IInv, Bounded
  <1>4. lock = c
    BY DEF IInv, SendHolds
  <1>5. executor.pc # "pass"
    BY <1>4, AlgoAssumption DEF IInv, PassHolds
  <1>6. SendHolds' /\ PassHolds'
    BY <1>4, <1>5 DEF IInv, Shape, SendHolds, PassHolds, At, Idle
  <1>. QED
    BY <1>1, <1>3, <1>6 DEF IInv

\* Cancel runs while nobody holds the lock, so never during a pass.
LEMMA InvCancel ==
    ASSUME IInv, NEW c \in Callers, Cancel(c)
    PROVE  IInv'
  <1>. USE DEF Cancel
  <1>1. Shaped(algos') /\ Len(algos') = Len(algos)
    <2>1. PICK i \in Known : algos' = WithStatus(algos, i, "cancelled")
      BY DEF WithStatus
    <2>2. Shaped(algos) /\ "cancelled" \in Statuses
      BY DEF IInv, Shape, Statuses
    <2>. QED
      BY <2>1, <2>2, StatusChanged DEF Except
  <1>2. Shape' /\ Bounded'
    BY <1>1 DEF IInv, Shape, Bounded, Inserting, At
  <1>3. executor.pc # "pass"
    BY AlgoAssumption DEF IInv, PassHolds
  <1>4. SendHolds' /\ PassHolds'
    BY <1>3 DEF IInv, SendHolds, PassHolds, At
  <1>. QED
    BY <1>2, <1>4 DEF IInv

\* A pass begins with the lock, and with active orders only.
LEMMA InvStart ==
    ASSUME IInv, RunExecutor \/ StartPass
    PROVE  IInv'
  <1>1. CASE RunExecutor
    BY <1>1 DEF RunExecutor, IInv, Shape, Bounded, Inserting, SendHolds, PassHolds, At
  <1>2. CASE StartPass
    <2>. USE <1>2 DEF StartPass
    <2>1. {i \in Known : algos[i].status \in Active} \in SUBSET Nat
      BY KnownNat
    <2>2. Shape' /\ Bounded'
      <3>. HIDE DEF Active
      <3>. QED  BY <2>1 DEF IInv, Shape, Bounded, Inserting, At
    <2>3. PassHolds'
      BY DEF PassHolds
    <2>4. SendHolds'
      BY AlgoAssumption DEF IInv, SendHolds, At
    <2>. QED
      BY <2>2, <2>3, <2>4 DEF IInv
  <1>. QED
    BY <1>1, <1>2

\* The order visited runs, and is left no more.
LEMMA InvVisit ==
    ASSUME IInv, NEW i \in Known, Visit(i)
    PROVE  IInv'
  <1>. USE DEF Visit
  <1>1. /\ Shaped(algos') /\ Len(algos') = Len(algos) /\ Known' = Known
        /\ algos'[i].status = "running" /\ \A j \in Known \ {i} : algos'[j] = algos[j]
    <2>1. algos' = WithStatus(algos, i, "running")
      BY DEF WithStatus
    <2>2. Shaped(algos) /\ "running" \in Statuses
      BY DEF IInv, Shape, Statuses
    <2>3. Except(algos, i, algos') /\ algos'[i].status = "running"
      <3>. HIDE DEF Visit
      <3>. QED  BY <2>1, <2>2, StatusChanged
    <2>. QED
      BY <2>3 DEF Except
  <1>2. Shape' /\ Bounded'
    BY <1>1, KnownNat DEF IInv, Shape, Bounded, Inserting, At
  <1>3. SendHolds' /\ PassHolds'
    BY <1>1 DEF IInv, Shape, SendHolds, PassHolds, At
  <1>. QED
    BY <1>2, <1>3 DEF IInv

\* The order of the pass is in the map, and not cancelled.
LEMMA InPass ==
    ASSUME IInv, executor.pc = "pass", executor.id # None
    PROVE  /\ executor.id \in Known /\ algos[executor.id].status = "running"
           /\ executor.id \notin executor.left /\ lock = "executor"
  BY DEF IInv, PassHolds

\* Submit changes a child of the pass's order, and what was sent of it.
LEMMA SubmitDoes ==
    ASSUME IInv, Submit
    PROVE  /\ Shaped(algos') /\ Len(algos') = Len(algos) /\ Known' = Known
           /\ algos'[executor.id].status = algos[executor.id].status
           /\ \A j \in Known \ {executor.id} : algos'[j] = algos[j] /\ sent'[j] = sent[j]
           /\ DOMAIN sent' = Ids
           /\ UNCHANGED <<now, lock, caller, executor>>
  <1>1. executor.id \in Known /\ executor.id \in Ids
    BY InPass, KnownNat DEF Submit
  <1>2. PICK k, s : algos' = WithChild(algos, executor.id, k, s)
    BY DEF Submit, WithChild
  <1>3. /\ Shaped(algos') /\ Len(algos') = Len(algos) /\ Known' = Known
        /\ algos'[executor.id].status = algos[executor.id].status
        /\ \A j \in Known \ {executor.id} : algos'[j] = algos[j]
    <2>1. Shaped(algos)
      BY DEF IInv, Shape
    <2>2. Except(algos, executor.id, algos') /\ algos'[executor.id].status = algos[executor.id].status
      BY <1>1, <1>2, <2>1, ChildChanged
    <2>. QED
      BY <1>1, <2>2 DEF Except
  <1>4. DOMAIN sent' = Ids /\ \A j \in Ids \ {executor.id} : sent'[j] = sent[j]
    BY <1>1 DEF Submit, IInv, Shape
  <1>. QED
    BY <1>3, <1>4, KnownNat DEF Submit

\* It leaves lock and pass as they are.
LEMMA InvSubmit ==
    ASSUME IInv, Submit
    PROVE  IInv'
  <1>1. Shape' /\ Bounded'
    BY SubmitDoes DEF IInv, Shape, Bounded, Inserting, At
  <1>2. SendHolds' /\ PassHolds'
    BY SubmitDoes, KnownNat DEF IInv, SendHolds, PassHolds, At
  <1>. QED
    BY <1>1, <1>2 DEF IInv

\* Leave changes the status of the pass's order at most.
LEMMA LeaveDoes ==
    ASSUME IInv, Leave
    PROVE  /\ Shaped(algos') /\ Len(algos') = Len(algos) /\ Known' = Known
           /\ \A j \in Known \ {executor.id} : algos'[j] = algos[j]
  <1>1. executor.id \in Known /\ algos[executor.id].status = "running"
    BY InPass DEF Leave
  <1>2. PICK s \in Statuses : algos' = WithStatus(algos, executor.id, s)
    BY <1>1 DEF Leave, Statuses, WithStatus
  <1>3. Shaped(algos)
    BY DEF IInv, Shape
  <1>. QED
    BY <1>1, <1>2, <1>3, StatusChanged DEF Except

\* The pass goes on, or ends and releases the lock.
LEMMA InvLeave ==
    ASSUME IInv, Leave \/ EndPass
    PROVE  IInv'
  <1>1. CASE Leave
    <2>. USE <1>1 DEF Leave
    <2>1. Shape' /\ Bounded'
      BY LeaveDoes DEF IInv, Shape, Bounded, Inserting, At
    <2>2. SendHolds' /\ PassHolds'
      BY LeaveDoes, InPass DEF IInv, Shape, SendHolds, PassHolds, At
    <2>. QED
      BY <2>1, <2>2 DEF IInv
  <1>2. CASE EndPass
    <2>. USE <1>2 DEF EndPass
    <2>1. Shape' /\ Bounded'
      BY DEF IInv, Shape, Bounded, Inserting, At
    <2>2. \A c \in Callers : ~At(c, "send")
      BY AlgoAssumption DEF IInv, SendHolds, PassHolds
    <2>3. SendHolds' /\ PassHolds'
      BY <2>2 DEF IInv, Shape, SendHolds, PassHolds, At
    <2>. QED
      BY <2>1, <2>3 DEF IInv
  <1>. QED
    BY <1>1, <1>2

\* The steps of a caller that only cut an order.
Creates(c) == CreateTwap(c) \/ CreateVwap(c) \/ CreateIceberg(c) \/ CreateSmart(c)

\* Each of them is a Cut.
LEMMA CreateCuts ==
    ASSUME NEW c \in Callers, Creates(c)
    PROVE  \E q, children : Cut(c, q, children)
  BY DEF Creates, CreateTwap, CreateVwap, CreateIceberg, CreateSmart

\* Every step keeps the invariant.
LEMMA InvNext == IInv /\ [Next]_vars => IInv'
  <1>. SUFFICES ASSUME IInv, [Next]_vars PROVE IInv'
    OBVIOUS
  <1>0. /\ DOMAIN sent = Ids /\ now \in Nat
        /\ now + 1 \in Nat
    BY DEF IInv, Shape
  <1>1. CASE Advance \/ StartUpdate \/ UpdateVolume \/ Take \/ DropTaker \/ UNCHANGED vars
    <2>1. UNCHANGED <<algos, lock, caller, executor>> /\ sent' = sent /\ now' \in {now, now + 1}
      BY <1>1 DEF Advance, StartUpdate, UpdateVolume, Take, DropTaker, vars
    <2>. QED
      BY <1>0, <2>1, InvAside
  <1>2. ASSUME NEW c \in Callers, Creates(c)
        PROVE  IInv'
    BY <1>2, CreateCuts, InvCut
  <1>3. ASSUME NEW c \in Callers, Insert(c) \/ Send(c) \/ Cancel(c)
        PROVE  IInv'
    BY <1>3, InvInsert, InvSend, InvCancel
  <1>4. CASE RunExecutor \/ StartPass
    BY <1>4, InvStart
  <1>5. ASSUME NEW i \in Known, Visit(i)
        PROVE  IInv'
    BY <1>5, InvVisit
  <1>6. CASE Submit
    BY <1>6, InvSubmit
  <1>7. CASE Leave \/ EndPass
    BY <1>7, InvLeave
  <1>. QED
    BY <1>1, <1>2, <1>3, <1>4, <1>5, <1>6, <1>7 DEF Next, Execute, Creates

-----------------------------------------------------------------------------
(* What a cancelled order meets.                                           *)

Cancelled(i) == i \in Known /\ algos[i].status = "cancelled"

\* The executor is never about a cancelled order, nor has one before it.
LEMMA NotInPass ==
    ASSUME IInv, executor.pc = "pass", NEW i, Cancelled(i)
    PROVE  i \notin executor.left /\ (executor.id # None => i # executor.id)
  BY DEF IInv, PassHolds, Cancelled, Active

\* No step changes a cancelled order, or what was sent of it.
LEMMA CancelledKept ==
    ASSUME IInv, [Next]_vars, NEW i, Cancelled(i)
    PROVE  algos'[i] = algos[i] /\ sent'[i] = sent[i]
  <1>. USE DEF Cancelled
  <1>1. CASE Advance \/ StartUpdate \/ UpdateVolume \/ Take \/ DropTaker \/ UNCHANGED vars
             \/ RunExecutor \/ StartPass \/ EndPass
    BY <1>1 DEF Advance, StartUpdate, UpdateVolume, Take, DropTaker, vars, RunExecutor,
                StartPass, EndPass
  <1>2. ASSUME NEW c \in Callers, Creates(c)
        PROVE  algos' = algos /\ sent' = sent
    BY <1>2, CreateCuts DEF Cut
  <1>3. ASSUME NEW c \in Callers, Insert(c)
        PROVE  algos'[i] = algos[i] /\ sent' = sent
    <2>. DEFINE t == caller[c].total
                cs == caller[c].children
    <2>1. algos' = Append(algos, [status |-> "pending", total |-> t, children |-> cs]) /\ sent' = sent
      BY <1>3 DEF Insert
    <2>2. Shaped(algos)
      BY DEF IInv, Shape
    <2>. HIDE DEF t, cs
    <2>. QED
      BY <2>1, <2>2, OrderAppended
  <1>4. ASSUME NEW c \in Callers, Send(c)
        PROVE  algos' = algos /\ sent' = sent
    BY <1>4 DEF Send
  <1>5. ASSUME NEW c \in Callers, Cancel(c)
        PROVE  algos'[i] = algos[i] /\ sent' = sent
    <2>1. PICK k \in Known : algos' = WithStatus(algos, k, "cancelled")
      BY <1>5 DEF Cancel, WithStatus
    <2>2. Shaped(algos) /\ "cancelled" \in Statuses /\ sent' = sent
      BY <1>5 DEF Cancel, IInv, Shape, Statuses
    <2>3. Except(algos, k, algos') /\ (algos[k].status = "cancelled" => algos'[k] = algos[k])
      BY <2>1, <2>2, StatusChanged
    <2>. QED
      BY <2>2, <2>3 DEF Except
  <1>6. ASSUME NEW k \in Known, Visit(k)
        PROVE  algos'[i] = algos[i] /\ sent' = sent
    <2>1. k # i
      BY <1>6, NotInPass DEF Visit
    <2>. QED
      BY <1>6, <2>1 DEF Visit
  <1>7. CASE Submit
    <2>1. i # executor.id
      BY <1>7, NotInPass DEF Submit
    <2>. QED
      BY <1>7, <2>1, SubmitDoes
  <1>8. CASE Leave
    <2>1. i # executor.id /\ sent' = sent
      BY <1>8, NotInPass DEF Leave
    <2>. QED
      BY <1>8, <2>1, LeaveDoes
  <1>. QED
    BY <1>1, <1>2, <1>3, <1>4, <1>5, <1>6, <1>7, <1>8 DEF Next, Execute, Creates

\* Once cancel_order has returned, no step of executor or caller changes the order,
\* and nothing more of it is submitted, for any number of callers, orders and
\* children and any capacity of the channels.
THEOREM CancelStands == Spec => CancelHolds
  <1>1. Init => IInv
    BY InvInit
  <1>2. IInv /\ [Next]_vars => IInv'
    BY InvNext
  <1>3. IInv /\ [Next]_vars =>
           [\A i \in Known : algos[i].status = "cancelled"
               => algos'[i] = algos[i] /\ sent'[i] = sent[i]]_vars
    BY CancelledKept DEF Cancelled
  <1>. QED
    BY <1>1, <1>2, <1>3, PTL DEF Spec, CancelHolds

\* A set of naturals that has an element has a least one, which is Min.
LEMMA LeastIsMin ==
  ASSUME NEW S, S \subseteq Nat, S # {}
  PROVE  Min(S) \in S /\ \A y \in S : Min(S) <= y
<1>1. \E x \in S : \A y \in S : x <= y
  BY LeastNumber
<1> QED BY <1>1 DEF Min

-----------------------------------------------------------------------------
(* What was submitted of an order.                                         *)

SentQuantity(children, s) == SumFunction([n \in DOMAIN s |-> children[s[n]].quantity])
Submitted(children) == {k \in DOMAIN children : children[k].status = "submitted"}

\* The children submitted by the time t: in order, each after all before it were
\* tried; and they sum to the quantity of those that are marked so.
Kept(children, s, t, sim) ==
  /\ s \in Seq(DOMAIN children)
  /\ \A n \in DOMAIN s :
        /\ children[s[n]].at <= t
        /\ n > 1 => s[n - 1] < s[n]
        /\ \A k \in DOMAIN children : k <= s[n] => children[k].status # "pending"
  /\ IF sim THEN s = <<>>
     ELSE SentQuantity(children, s) = SumFunctionOnSet(Sizes(children), Submitted(children))

\* Every order in the map is whole, and so is what a caller has cut.
Filed == \A i \in Known : Whole(algos[i].total, algos[i].children)
CutsSound ==
  \A c \in Callers :
    At(c, "insert") => Whole(caller[c].total, caller[c].children) /\ Fresh(caller[c].children)
SentSound ==
  \A i \in Ids : IF i \in Known THEN Kept(algos[i].children, sent[i], now, simulation) ELSE sent[i] = <<>>

Sound == Filed /\ CutsSound /\ SentSound /\ executor.now <= now /\ simulation \in BOOLEAN

\* The domain of a whole order's children.
LEMMA WholeDomain ==
  ASSUME NEW t, NEW cs, Whole(t, cs)
  PROVE  /\ DOMAIN cs = 1 .. Len(cs) /\ Len(cs) \in Nat /\ IsFiniteSet(DOMAIN cs)
         /\ \A k \in DOMAIN cs : cs[k] \in Children
  BY LenProperties, ElementOfSeq, FS_Interval DEF Whole

\* A mark on one child changes its status and nothing else.
LEMMA MarkedWhole ==
  ASSUME NEW t, NEW cs, Whole(t, cs), NEW k \in DOMAIN cs, NEW st \in {"submitted", "failed"}
  PROVE  /\ Whole(t, Marked(cs, k, st)) /\ Sizes(Marked(cs, k, st)) = Sizes(cs)
         /\ DOMAIN Marked(cs, k, st) = DOMAIN cs
         /\ Marked(cs, k, st)[k].status = st
         /\ \A j \in DOMAIN cs : /\ Marked(cs, k, st)[j].at = cs[j].at
                                 /\ Marked(cs, k, st)[j].quantity = cs[j].quantity
                                 /\ j # k => Marked(cs, k, st)[j] = cs[j]
<1> DEFINE r == [cs[k] EXCEPT !.status = st]
           m == Marked(cs, k, st)
<1>1. m = [cs EXCEPT ![k] = r]
  BY DEF Marked
<1>2. cs[k] \in Children /\ DOMAIN cs = 1 .. Len(cs)
  BY WholeDomain
<1>3. r \in Children /\ r.status = st /\ r.at = cs[k].at /\ r.quantity = cs[k].quantity
  BY <1>2 DEF Children
<1> HIDE DEF r, m
<1>4. m \in Seq(Children) /\ Len(m) = Len(cs) /\ \A j \in 1 .. Len(cs) : m[j] = IF j = k THEN r ELSE cs[j]
  BY <1>1, <1>2, <1>3, ExceptSeq DEF Whole
<1>5. DOMAIN m = DOMAIN cs
  BY <1>2, <1>4, LenProperties
<1>6. \A j \in DOMAIN cs : m[j].at = cs[j].at /\ m[j].quantity = cs[j].quantity
                           /\ (j # k => m[j] = cs[j])
  BY <1>2, <1>3, <1>4
<1>7. Sizes(m) = Sizes(cs)
  BY <1>5, <1>6 DEF Sizes
<1>8. Whole(t, m)
  BY <1>4, <1>5, <1>6, <1>7 DEF Whole, Total
<1>9. m[k].status = st
  BY <1>2, <1>3, <1>4
<1> QED BY <1>5, <1>6, <1>7, <1>8, <1>9 DEF m

\* Time does not undo what was submitted.
LEMMA KeptLater ==
  ASSUME NEW total, NEW cs, Whole(total, cs), NEW s, NEW sim, NEW t \in Nat, NEW u \in Nat, t <= u, Kept(cs, s, t, sim)
  PROVE  Kept(cs, s, u, sim)
<1>1. \A n \in DOMAIN s : cs[s[n]].at \in Nat
  <2>1. \A n \in DOMAIN s : s[n] \in DOMAIN cs
    BY ElementOfSeq, LenProperties DEF Kept
  <2> QED BY <2>1, WholeDomain DEF Children
<1>2. \A n \in DOMAIN s : cs[s[n]].at <= u
  BY <1>1 DEF Kept
<1> QED BY <1>2 DEF Kept

\* A child that could not be submitted leaves what was.
LEMMA KeptFailed ==
  ASSUME NEW total, NEW cs, Whole(total, cs), NEW s, NEW t, NEW sim \in BOOLEAN, Kept(cs, s, t, sim),
         NEW k \in DOMAIN cs, cs[k].status = "pending", NEW st \in {"submitted", "failed"},
         sim \/ st = "failed"
  PROVE  Kept(Marked(cs, k, st), s, t, sim)
<1> DEFINE m == Marked(cs, k, st)
<1>1. /\ Sizes(m) = Sizes(cs) /\ DOMAIN m = DOMAIN cs /\ m[k].status = st
      /\ \A j \in DOMAIN cs : /\ m[j].at = cs[j].at /\ m[j].quantity = cs[j].quantity
                              /\ j # k => m[j] = cs[j]
  <2>1. CASE st = "failed"
    BY <2>1, MarkedWhole
  <2>2. CASE st = "submitted"
    BY <2>2, MarkedWhole
  <2> QED BY <2>1, <2>2
<1> HIDE DEF m
<1>2. \A n \in DOMAIN s : s[n] \in DOMAIN cs
  BY ElementOfSeq, LenProperties DEF Kept
<1>3. s \in Seq(DOMAIN m)
  BY <1>1 DEF Kept
<1>4. \A n \in DOMAIN s :
        /\ m[s[n]].at <= t
        /\ n > 1 => s[n - 1] < s[n]
        /\ \A j \in DOMAIN m : j <= s[n] => m[j].status # "pending"
  BY <1>1, <1>2 DEF Kept
<1>5. SentQuantity(m, s) = SentQuantity(cs, s)
  <2>1. [n \in DOMAIN s |-> m[s[n]].quantity] = [n \in DOMAIN s |-> cs[s[n]].quantity]
    BY <1>1, <1>2
  <2> QED BY <2>1 DEF SentQuantity
<1>6. st = "failed" => Submitted(m) = Submitted(cs)
  BY <1>1 DEF Submitted
<1> QED BY <1>1, <1>3, <1>4, <1>5, <1>6 DEF Kept, m

\* The next child that is submitted comes after the others, and adds its quantity.
LEMMA KeptMore ==
  ASSUME NEW total, NEW cs, Whole(total, cs), NEW s, NEW t, NEW sim \in BOOLEAN, Kept(cs, s, t, sim),
         NEW k \in DOMAIN cs, cs[k].status = "pending", cs[k].at <= t, ~sim,
         \A j \in DOMAIN cs : j < k => cs[j].status # "pending"
  PROVE  Kept(Marked(cs, k, "submitted"), Append(s, k), t, sim)
<1> DEFINE m == Marked(cs, k, "submitted")
           z == Append(s, k)
<1>1. /\ Sizes(m) = Sizes(cs) /\ DOMAIN m = DOMAIN cs /\ m[k].status = "submitted"
      /\ \A j \in DOMAIN cs : /\ m[j].at = cs[j].at /\ m[j].quantity = cs[j].quantity
                              /\ j # k => m[j] = cs[j]
  BY MarkedWhole
<1>2. /\ DOMAIN cs = 1 .. Len(cs) /\ Len(cs) \in Nat /\ IsFiniteSet(DOMAIN cs)
      /\ \A j \in DOMAIN cs : cs[j] \in Children
  BY WholeDomain
<1>3. /\ DOMAIN s = 1 .. Len(s) /\ Len(s) \in Nat
      /\ \A n \in DOMAIN s : s[n] \in DOMAIN cs
  BY ElementOfSeq, LenProperties DEF Kept
<1>4. /\ z \in Seq(DOMAIN cs) /\ Len(z) = Len(s) + 1 /\ z[Len(s) + 1] = k
      /\ \A n \in 1 .. Len(s) : z[n] = s[n]
  BY AppendProperties DEF Kept
<1>5. DOMAIN z = 1 .. (Len(s) + 1)
  BY <1>4, LenProperties
<1> HIDE DEF m, z
<1>6. \A n \in DOMAIN s : s[n] < k
  BY <1>2, <1>3 DEF Kept
<1>7. \A n \in DOMAIN z :
        /\ m[z[n]].at <= t
        /\ n > 1 => z[n - 1] < z[n]
        /\ \A j \in DOMAIN m : j <= z[n] => m[j].status # "pending"
  <2> SUFFICES ASSUME NEW n \in DOMAIN z
               PROVE  /\ m[z[n]].at <= t
                      /\ n > 1 => z[n - 1] < z[n]
                      /\ \A j \in DOMAIN m : j <= z[n] => m[j].status # "pending"
    OBVIOUS
  <2>1. CASE n = Len(s) + 1
    <3>1. z[n] = k /\ m[k].at <= t
      BY <1>1, <1>4, <2>1
    <3>2. n > 1 => z[n - 1] < z[n]
      BY <1>3, <1>4, <1>6, <2>1
    <3>3. \A j \in DOMAIN cs : j <= k => m[j].status # "pending"
      BY <1>1, <1>2
    <3> QED BY <1>1, <3>1, <3>2, <3>3
  <2>2. CASE n \in 1 .. Len(s)
    <3>1. z[n] = s[n] /\ n \in DOMAIN s /\ s[n] \in DOMAIN cs
      BY <1>3, <1>4, <2>2
    <3>2. cs[s[n]].at <= t /\ (n > 1 => s[n - 1] < s[n])
          /\ \A j \in DOMAIN cs : j <= s[n] => cs[j].status # "pending"
      BY <3>1 DEF Kept
    <3>3. n > 1 => z[n - 1] = s[n - 1]
      BY <1>3, <1>4, <2>2
    <3> QED BY <1>1, <3>1, <3>2, <3>3
  <2> QED BY <1>3, <1>5, <2>1, <2>2
<1>8. SentQuantity(m, z) = cs[k].quantity + SentQuantity(cs, s)
  <2> DEFINE f == [n \in DOMAIN s |-> cs[s[n]].quantity]
             g == [n \in DOMAIN z |-> m[z[n]].quantity]
             L == Len(s) + 1
  <2>1. g[L] = cs[k].quantity /\ \A n \in 1 .. Len(s) : g[n] = f[n]
    BY <1>1, <1>3, <1>4, <1>5
  <2>2. \A n \in 1 .. L : g[n] \in Int
    <3>1. \A n \in 1 .. L : z[n] \in DOMAIN cs
      BY <1>3, <1>4, <1>5
    <3> QED BY <1>1, <1>2, <1>5, <3>1 DEF Children
  <2>3. L \in Nat \ {0} /\ L - 1 = Len(s) /\ DOMAIN f = 1 .. Len(s) /\ DOMAIN g = 1 .. L
    BY <1>3, <1>5
  <2>4. SumFunction(f) = SumFunctionOnSet(f, 1 .. Len(s)) /\ SumFunction(g) = SumFunctionOnSet(g, 1 .. L)
    BY <2>3 DEF SumFunction
  <2> HIDE DEF f, g, L
  <2>5. SumFunctionOnSet(g, 1 .. L) = g[L] + SumFunctionOnSet(g, 1 .. Len(s)) /\ IsFiniteSet(1 .. Len(s))
    BY <2>2, <2>3, LastAdds
  <2>6. SumFunctionOnSet(g, 1 .. Len(s)) = SumFunctionOnSet(f, 1 .. Len(s))
    BY <2>1, <2>5, SumSame
  <2> QED BY <2>1, <2>4, <2>5, <2>6 DEF SentQuantity, f, g
<1>9. SumFunctionOnSet(Sizes(m), Submitted(m)) = cs[k].quantity + SumFunctionOnSet(Sizes(cs), Submitted(cs))
  <2>1. Submitted(m) = Submitted(cs) \cup {k} /\ k \notin Submitted(cs)
    BY <1>1 DEF Submitted
  <2>2. IsFiniteSet(Submitted(cs)) /\ Submitted(cs) \subseteq DOMAIN cs
    BY <1>2, FS_Subset DEF Submitted
  <2>3. Sizes(cs)[k] = cs[k].quantity /\ \A j \in DOMAIN cs : Sizes(cs)[j] \in Int
    BY <1>2 DEF Sizes, Children
  <2> QED BY <1>1, <2>1, <2>2, <2>3, SumAdd
<1> QED BY <1>1, <1>4, <1>7, <1>8, <1>9 DEF Kept, m, z

\* Nothing was submitted of an order that was just cut.
LEMMA KeptFresh ==
  ASSUME NEW cs, Fresh(cs), NEW t, NEW sim
  PROVE  Kept(cs, <<>>, t, sim)
<1>1. Submitted(cs) = {}
  BY DEF Submitted, Fresh
<1>2. DOMAIN <<>> = {} /\ <<>> \in Seq(DOMAIN cs)
  OBVIOUS
<1> DEFINE f == [n \in DOMAIN <<>> |-> cs[<<>>[n]].quantity]
<1>3. DOMAIN f = {}
  BY <1>2
<1>4. SentQuantity(cs, <<>>) = SumFunctionOnSet(f, {})
  BY <1>2, <1>3 DEF SentQuantity, SumFunction
<1>5. SentQuantity(cs, <<>>) = SumFunctionOnSet(Sizes(cs), Submitted(cs))
  BY <1>1, <1>4, SumEmpty
<1> QED BY <1>2, <1>5 DEF Kept

\* At first there are no orders.
LEMMA SoundInit == Init => Sound
<1> SUFFICES ASSUME Init PROVE Sound
  OBVIOUS
<1>1. Known = {}
  BY DEF Init
<1> QED BY <1>1 DEF Init, Sound, Filed, CutsSound, SentSound, At, Idle

\* The steps that leave the children and what was submitted alone.
LEMMA SoundAside ==
  ASSUME IInv, Sound, Known' = Known, sent' = sent, simulation' = simulation,
         \A i \in Known : algos'[i].children = algos[i].children /\ algos'[i].total = algos[i].total,
         now' \in Nat, now <= now', executor'.now <= now', CutsSound'
  PROVE  Sound'
<1>1. now \in Nat
  BY DEF IInv, Shape
<1>2. Filed'
  BY DEF Sound, Filed
<1>3. SentSound'
  <2> SUFFICES ASSUME NEW i \in Ids
               PROVE  IF i \in Known THEN Kept(algos'[i].children, sent[i], now', simulation)
                      ELSE sent[i] = <<>>
    BY DEF SentSound, Ids
  <2>1. CASE i \in Known
    <3>1. Whole(algos[i].total, algos[i].children) /\ Kept(algos[i].children, sent[i], now, simulation)
      BY <2>1 DEF Sound, Filed, SentSound
    <3> QED BY <1>1, <2>1, <3>1, KeptLater
  <2>2. CASE i \notin Known
    BY <2>2 DEF Sound, SentSound
  <2> QED BY <2>1, <2>2
<1> QED BY <1>2, <1>3 DEF Sound

\* However an order is cut, its children are the whole of it.
LEMMA SoundCut ==
  ASSUME IInv, Sound, NEW c \in Callers, Creates(c)
  PROVE  Sound'
<1>1. PICK q, cs : q \in Nat /\ Cut(c, q, cs) /\ Whole(q, cs) /\ Fresh(cs)
  <2>1. now \in Nat
    BY DEF IInv, Shape
  <2>2. CASE CreateTwap(c)
    <3>1. PICK q \in Quantities, n \in Slices, w \in Windows : Cut(c, q, Twap(q, w, n))
      BY <2>2 DEF CreateTwap
    <3>2. q \in Nat /\ n \in Nat \ {0} /\ w \in Nat
      BY AlgoAssumption
    <3> QED BY <2>1, <3>1, <3>2, TwapWhole
  <2>3. CASE CreateIceberg(c)
    <3>1. PICK q \in Quantities, v \in Visible : Cut(c, q, Iceberg(q, v))
      BY <2>3 DEF CreateIceberg
    <3>2. q \in Nat \ {0} /\ v \in Nat \ {0}
      BY AlgoAssumption
    <3> QED BY <2>1, <3>1, <3>2, IcebergWhole
  <2>4. CASE CreateVwap(c)
    <3>1. PICK q \in Quantities, n \in Slices, w \in Windows :
             \E weights \in [1 .. n -> Weights] : Cut(c, q, Vwap(q, w, weights))
      BY <2>4 DEF CreateVwap
    <3>2. PICK weights \in [1 .. n -> Weights] : Cut(c, q, Vwap(q, w, weights))
      BY <3>1
    <3>3. q \in Nat /\ n \in Nat \ {0} /\ w \in Nat /\ weights \in [1 .. n -> Nat \ {0}]
      BY AlgoAssumption
    <3> QED BY <2>1, <3>2, <3>3, VwapWhole
  <2>5. CASE CreateSmart(c)
    <3>1. PICK q \in Quantities, plan \in Plans :
             \E weights \in [1 .. plan[1] -> Weights] : Cut(c, q, Vwap(q, plan[2], weights))
      BY <2>5 DEF CreateSmart
    <3>2. PICK weights \in [1 .. plan[1] -> Weights] : Cut(c, q, Vwap(q, plan[2], weights))
      BY <3>1
    <3>3. plan[1] \in Nat \ {0} /\ plan[2] \in Nat
      BY AlgoAssumption
    <3>4. q \in Nat /\ weights \in [1 .. plan[1] -> Nat \ {0}]
      BY AlgoAssumption
    <3> QED BY <2>1, <3>2, <3>3, <3>4, VwapWhole
  <2> QED BY <2>2, <2>3, <2>4, <2>5 DEF Creates
<1>2. CutsSound'
  <2> SUFFICES ASSUME NEW d \in Callers, At(d, "insert")'
               PROVE  Whole(caller'[d].total, caller'[d].children) /\ Fresh(caller'[d].children)
    BY DEF CutsSound
  <2>1. DOMAIN caller = Callers
    BY DEF IInv, Shape
  <2>2. CASE d = c
    BY <1>1, <2>1, <2>2 DEF Cut
  <2>3. CASE d # c
    BY <1>1, <2>1, <2>3 DEF Cut, Sound, CutsSound, At
  <2> QED BY <2>2, <2>3
<1>3. now' = now /\ executor' = executor /\ algos' = algos /\ sent' = sent /\ simulation' = simulation
  BY <1>1 DEF Cut
<1>4. now \in Nat /\ executor.now <= now
  BY DEF IInv, Shape, Sound
<1> QED BY <1>2, <1>3, <1>4, SoundAside

\* A caller that goes on, or back, has cut nothing new.
LEMMA CutsKept ==
  ASSUME IInv, Sound,
         \/ caller' = caller
         \/ \E c \in Callers, pc \in {"idle", "send"} : caller' = [caller EXCEPT ![c] = [Idle EXCEPT !.pc = pc]]
  PROVE  CutsSound'
<1>1. CASE caller' = caller
  BY <1>1 DEF Sound, CutsSound, At
<1>2. ASSUME NEW c \in Callers, NEW pc \in {"idle", "send"},
             caller' = [caller EXCEPT ![c] = [Idle EXCEPT !.pc = pc]]
      PROVE  CutsSound'
  <2>1. DOMAIN caller = Callers
    BY DEF IInv, Shape
  <2>2. \A d \in Callers : At(d, "insert")' => d # c /\ caller'[d] = caller[d]
    BY <1>2, <2>1 DEF At, Idle
  <2> QED BY <2>2 DEF Sound, CutsSound, At
<1> QED BY <1>1, <1>2

\* The caller's order is now in the map.
LEMMA SoundInsert ==
  ASSUME IInv, Sound, NEW c \in Callers, Insert(c)
  PROVE  Sound'
<1> DEFINE t == caller[c].total
           cs == caller[c].children
           L == Len(algos) + 1
<1>1. Whole(t, cs) /\ Fresh(cs)
  BY DEF Insert, Sound, CutsSound
<1>2. /\ algos' = Append(algos, [status |-> "pending", total |-> t, children |-> cs])
      /\ now' = now /\ executor' = executor /\ sent' = sent /\ simulation' = simulation
  BY DEF Insert
<1>3. CutsSound'
  <2>1. caller' = [caller EXCEPT ![c] = [Idle EXCEPT !.pc = "send"]]
    BY DEF Insert
  <2> QED BY <2>1, CutsKept
<1>5. Len(algos) \in Nat /\ Known = 1 .. Len(algos)
  BY KnownNat
<1> HIDE DEF t, cs
<1>6. /\ Known' = Known \cup {L} /\ algos'[L].total = t /\ algos'[L].children = cs
      /\ \A i \in Known : algos'[i] = algos[i]
  <2>1. Shaped(algos)
    BY DEF IInv, Shape
  <2> QED BY <1>2, <2>1, OrderAppended
<1>7. L \notin Known /\ L \in Ids
  <2>1. c \in Inserting
    BY DEF Insert, Inserting
  <2>2. Cardinality(Inserting) \in Nat \ {0}
    BY <2>1, FS_EmptySet, FS_CardinalityType DEF IInv, Bounded
  <2>3. L <= MaxOrders
    BY <1>5, <2>2, AlgoAssumption DEF IInv, Bounded
  <2> QED BY <1>5, <2>3, AlgoAssumption DEF Ids
<1>8. Filed'
  BY <1>1, <1>6 DEF Sound, Filed
<1>9. SentSound'
  <2> SUFFICES ASSUME NEW i \in Ids
               PROVE  IF i \in Known' THEN Kept(algos'[i].children, sent[i], now, simulation)
                      ELSE sent[i] = <<>>
    BY <1>2 DEF SentSound, Ids
  <2>1. CASE i = L
    <3>1. sent[L] = <<>>
      BY <1>7 DEF Sound, SentSound
    <3> QED BY <1>1, <1>6, <2>1, <3>1, KeptFresh
  <2>2. CASE i # L
    BY <1>6, <2>2 DEF Sound, SentSound
  <2> QED BY <2>1, <2>2
<1> QED BY <1>2, <1>3, <1>8, <1>9 DEF Sound

\* The executor tries the first child that is due: those before it were tried,
\* since their times had come as well.
LEMMA SoundSubmit ==
  ASSUME IInv, Sound, Submit
  PROVE  Sound'
<1> DEFINE i == executor.id
           k == Min(Due(i))
           cs == algos[i].children
           total == algos[i].total
<1>1. /\ i \in Known /\ Due(i) # {}
      /\ UNCHANGED <<now, caller, executor, simulation>>
  BY InPass DEF Submit
<1>2. i \in Ids /\ Known \subseteq Ids
  BY <1>1, KnownNat
<1>3. Whole(total, cs) /\ Kept(cs, sent[i], now, simulation) /\ executor.now <= now
      /\ simulation \in BOOLEAN
  BY <1>1, <1>2 DEF Sound, Filed, SentSound
<1>4. now \in Nat /\ executor.now \in Nat
  BY DEF IInv, Shape
<1>5. /\ DOMAIN cs = 1 .. Len(cs) /\ Len(cs) \in Nat
      /\ \A j \in DOMAIN cs : cs[j].at \in Nat
  BY <1>3, WholeDomain DEF Children
<1>6. k \in Due(i) /\ \A j \in Due(i) : k <= j
  <2>1. Due(i) \subseteq Nat
    BY <1>5 DEF Due
  <2> QED BY <1>1, <2>1, LeastIsMin
<1>7. k \in DOMAIN cs /\ cs[k].status = "pending" /\ cs[k].at <= executor.now
  BY <1>6 DEF Due
<1>8. \A j \in DOMAIN cs : j < k => cs[j].status # "pending"
  <2> SUFFICES ASSUME NEW j \in DOMAIN cs, j < k, cs[j].status = "pending" PROVE FALSE
    OBVIOUS
  <2> HIDE DEF k
  <2>1. cs[j].at <= cs[k].at
    BY <1>3, <1>5, <1>7 DEF Whole
  <2>2. cs[j].at <= executor.now
    BY <1>4, <1>5, <1>7, <2>1
  <2>3. j \in Due(i)
    BY <2>2 DEF Due
  <2> QED BY <1>5, <1>6, <1>7, <2>3
<1>9. PICK st \in {"submitted", "failed"} :
        /\ algos' = WithChild(algos, i, k, st)
        /\ \/ sent' = sent /\ (simulation \/ st = "failed")
           \/ sent' = [sent EXCEPT ![i] = Append(@, k)] /\ ~simulation /\ st = "submitted"
  BY DEF Submit, WithChild, Failed
<1> HIDE DEF k, cs, total
<1>10. /\ algos'[i].children = Marked(cs, k, st) /\ algos'[i].total = total
       /\ Known' = Known /\ \A j \in Known \ {i} : algos'[j] = algos[j]
  <2>1. Shaped(algos)
    BY DEF IInv, Shape
  <2>2. /\ Except(algos, i, WithChild(algos, i, k, st))
        /\ WithChild(algos, i, k, st)[i].children = Marked(cs, k, st)
        /\ WithChild(algos, i, k, st)[i].total = total
    BY <1>1, <2>1, ChildChanged DEF cs, total
  <2> QED BY <1>9, <2>2 DEF Except
<1>11. Whole(total, Marked(cs, k, st))
  BY <1>3, <1>7, MarkedWhole
<1>12. Filed'
  BY <1>1, <1>10, <1>11 DEF Sound, Filed
<1>13. CutsSound'
  BY <1>1, CutsKept
<1>14. Kept(Marked(cs, k, st), sent'[i], now, simulation)
  <2>1. CASE sent' = sent /\ (simulation \/ st = "failed")
    BY <1>3, <1>7, <2>1, KeptFailed
  <2>2. CASE sent' = [sent EXCEPT ![i] = Append(@, k)] /\ ~simulation /\ st = "submitted"
    <3>1. sent'[i] = Append(sent[i], k)
      BY <1>2, <2>2 DEF IInv, Shape
    <3>2. cs[k].at <= now
      BY <1>3, <1>4, <1>5, <1>7
    <3> QED BY <1>3, <1>7, <1>8, <2>2, <3>1, <3>2, KeptMore
  <2> QED BY <1>9, <2>1, <2>2
<1>15. \A j \in Ids \ {i} : sent'[j] = sent[j]
  BY <1>9 DEF IInv, Shape
<1>16. SentSound'
  <2> SUFFICES ASSUME NEW j \in Ids
               PROVE  IF j \in Known THEN Kept(algos'[j].children, sent'[j], now, simulation)
                      ELSE sent'[j] = <<>>
    BY <1>1, <1>10 DEF SentSound, Ids
  <2>1. CASE j = i
    BY <1>1, <1>10, <1>14, <2>1
  <2>2. CASE j # i
    BY <1>10, <1>15, <2>2 DEF Sound, SentSound
  <2> QED BY <2>1, <2>2
<1> QED BY <1>1, <1>12, <1>13, <1>16 DEF Sound

\* Every step keeps the orders whole and what was submitted of them in line.
LEMMA SoundNext == IInv /\ Sound /\ [Next]_vars => Sound'
<1> SUFFICES ASSUME IInv, Sound, [Next]_vars PROVE Sound'
  OBVIOUS
<1>0. now \in Nat /\ executor.now \in Nat /\ executor.now <= now /\ Shaped(algos)
      /\ executor \in [pc : {"off", "sleep", "pass"}, now : Nat, left : SUBSET Nat, id : Nat \cup {None}]
  BY DEF IInv, Shape, Sound
<1>1. CASE Advance \/ StartUpdate \/ UpdateVolume \/ Take \/ DropTaker \/ UNCHANGED vars
  <2>1. UNCHANGED <<algos, caller, executor, simulation, sent>> /\ now' \in {now, now + 1}
    BY <1>1 DEF Advance, StartUpdate, UpdateVolume, Take, DropTaker, vars
  <2> QED BY <1>0, <2>1, CutsKept, SoundAside
<1>2. ASSUME NEW c \in Callers, Creates(c) PROVE Sound'
  BY <1>2, SoundCut
<1>3. ASSUME NEW c \in Callers, Insert(c) PROVE Sound'
  BY <1>3, SoundInsert
<1>4. ASSUME NEW c \in Callers, Send(c) PROVE Sound'
  <2>1. UNCHANGED <<algos, executor, simulation, sent, now>> /\ caller' = [caller EXCEPT ![c] = Idle]
    BY <1>4 DEF Send
  <2>2. Idle = [Idle EXCEPT !.pc = "idle"]
    BY DEF Idle
  <2>3. CutsSound'
    BY <2>1, <2>2, CutsKept
  <2> QED BY <1>0, <2>1, <2>3, SoundAside
<1>5. ASSUME NEW i \in Known, NEW s \in Statuses, algos' = WithStatus(algos, i, s),
             UNCHANGED <<caller, simulation, sent, now>>, executor'.now = executor.now
      PROVE  Sound'
  <2>1. /\ Except(algos, i, algos') /\ algos'[i].children = algos[i].children
        /\ algos'[i].total = algos[i].total
    BY <1>0, <1>5, StatusChanged
  <2>2. Known' = Known /\ \A j \in Known \ {i} : algos'[j] = algos[j]
    BY <2>1 DEF Except
  <2>3. \A j \in Known : algos'[j].children = algos[j].children /\ algos'[j].total = algos[j].total
    BY <2>1, <2>2
  <2>4. CutsSound'
    BY <1>5, CutsKept
  <2> QED BY <1>0, <1>5, <2>2, <2>3, <2>4, SoundAside
<1>6. ASSUME NEW c \in Callers, Cancel(c) PROVE Sound'
  <2>1. PICK i \in Known : algos' = WithStatus(algos, i, "cancelled")
    BY <1>6 DEF Cancel, WithStatus
  <2>2. UNCHANGED <<caller, simulation, sent, now, executor>>
    BY <1>6 DEF Cancel
  <2> QED BY <1>5, <2>1, <2>2 DEF Statuses
<1>7. CASE RunExecutor \/ StartPass \/ EndPass
  <2>1. UNCHANGED <<algos, caller, simulation, sent, now>>
    BY <1>7 DEF RunExecutor, StartPass, EndPass
  <2>2. executor'.now \in {executor.now, now, 0}
    <3>1. CASE RunExecutor
      BY <1>0, <3>1 DEF RunExecutor
    <3>2. CASE StartPass
      <4> DEFINE left == {i \in Known : algos[i].status \in Active}
      <4>1. executor' = [pc |-> "pass", now |-> now, id |-> None, left |-> left]
        BY <3>2 DEF StartPass
      <4> HIDE DEF left
      <4> QED BY <4>1
    <3>3. CASE EndPass
      BY <1>0, <3>3 DEF EndPass
    <3> QED BY <1>7, <3>1, <3>2, <3>3
  <2> QED BY <1>0, <2>1, <2>2, CutsKept, SoundAside
<1>8. ASSUME NEW i \in Known, Visit(i) PROVE Sound'
  <2>1. algos' = WithStatus(algos, i, "running") /\ UNCHANGED <<caller, simulation, sent, now>>
    BY <1>8 DEF Visit, WithStatus
  <2>2. executor'.now = executor.now
    BY <1>0, <1>8 DEF Visit
  <2> QED BY <1>5, <2>1, <2>2 DEF Statuses
<1>9. CASE Submit
  BY <1>9, SoundSubmit
<1>10. CASE Leave
  <2>1. executor.id \in Known /\ algos[executor.id].status = "running"
    BY <1>10, InPass DEF Leave
  <2>2. PICK s \in Statuses : algos' = WithStatus(algos, executor.id, s)
    BY <1>10, <2>1 DEF Leave, Statuses, WithStatus
  <2>3. UNCHANGED <<caller, simulation, sent, now>> /\ executor'.now = executor.now
    BY <1>0, <1>10 DEF Leave
  <2> QED BY <1>5, <2>1, <2>2, <2>3
<1> QED BY <1>1, <1>2, <1>3, <1>4, <1>6, <1>7, <1>8, <1>9, <1>10 DEF Next, Execute, Creates

\* What was submitted is never more than the order, and all of it in the end.
LEMMA SoundSent == IInv /\ Sound => SentInFull
<1> SUFFICES ASSUME IInv, Sound, NEW i \in Known
             PROVE  LET children == algos[i].children
                        Quantity == SumFunction([n \in DOMAIN sent[i] |-> children[sent[i][n]].quantity])
                    IN /\ \A n \in DOMAIN sent[i] :
                             /\ children[sent[i][n]].at <= now
                             /\ n > 1 => sent[i][n - 1] < sent[i][n]
                       /\ Quantity <= algos[i].total
                       /\ ~simulation /\ (\A k \in DOMAIN children : children[k].status = "submitted")
                             => Quantity = algos[i].total
  BY DEF SentInFull
<1> DEFINE cs == algos[i].children
           total == algos[i].total
           Q == SentQuantity(cs, sent[i])
<1>1. Whole(total, cs) /\ Kept(cs, sent[i], now, simulation)
  BY KnownNat DEF Sound, Filed, SentSound
<1>2. total = SumFunctionOnSet(Sizes(cs), DOMAIN cs) /\ total \in Nat
  BY <1>1 DEF Whole, Total, SumFunction, Sizes
<1>3. IsFiniteSet(DOMAIN cs) /\ \A k \in DOMAIN cs : Sizes(cs)[k] \in Nat
  BY <1>1, WholeDomain DEF Sizes, Children
<1>4. Q <= total /\ (~simulation /\ (\A k \in DOMAIN cs : cs[k].status = "submitted") => Q = total)
  <2>1. CASE simulation
    <3>1. sent[i] = <<>>
      BY <1>1, <2>1 DEF Kept
    <3> DEFINE f == [n \in DOMAIN sent[i] |-> cs[sent[i][n]].quantity]
    <3>2. DOMAIN f = {}
      BY <3>1
    <3>3. Q = SumFunctionOnSet(f, {})
      BY <3>2 DEF SentQuantity, SumFunction
    <3> HIDE DEF f
    <3> QED BY <1>2, <2>1, <3>3, SumEmpty
  <2>2. CASE ~simulation
    <3>1. Q = SumFunctionOnSet(Sizes(cs), Submitted(cs)) /\ Submitted(cs) \subseteq DOMAIN cs
      BY <1>1, <2>2 DEF Kept, Submitted
    <3>2. Q <= total
      BY <1>2, <1>3, <3>1, SumMonotone
    <3>3. (\A k \in DOMAIN cs : cs[k].status = "submitted") => Submitted(cs) = DOMAIN cs
      BY DEF Submitted
    <3> QED BY <1>2, <3>1, <3>2, <3>3
  <2> QED BY <2>1, <2>2
<1> QED BY <1>1, <1>4 DEF Kept, SentQuantity

\* Each child of an order is submitted once at most, in order and not before its time;
\* together they are never more than the order, and all of it once every one was
\* submitted: for every quantity, window, number of slices and weights that create_twap,
\* create_vwap, create_iceberg and create_smart take, and however passes, creations and
\* cancels of any number of callers interleave.
THEOREM OrdersSentInFull == Spec => []SentInFull
<1>1. Init => IInv /\ Sound
  BY InvInit, SoundInit
<1>2. IInv /\ Sound /\ [Next]_vars => IInv' /\ Sound'
  BY InvNext, SoundNext
<1>3. IInv /\ Sound => SentInFull
  BY SoundSent
<1> QED BY <1>1, <1>2, <1>3, PTL DEF Spec

-----------------------------------------------------------------------------
(* The types.                                                              *)

\* What TypeOK says of the variables the other parts say nothing of.
Rest ==
  /\ now \in 0 .. MaxTime /\ lock \in Callers \cup {None, "executor"}
  /\ \A c \in Callers : caller[c].pc \in {"idle", "insert", "send"}
                        /\ (caller[c].pc # "insert" => caller[c].children = <<>>)
  /\ readers \subseteq Callers /\ volume \in {"idle", "waiting"}
  /\ unread \in 0 .. Capacity /\ outgoing \in 0 .. ChildCapacity
  /\ rxOpen \in BOOLEAN /\ takerOpen \in BOOLEAN
  /\ executor.left \subseteq Known /\ executor.id \in Known \cup {None}

\* The types hold at first, and after every step.
LEMMA RestInit == Init => Rest
<1> SUFFICES ASSUME Init PROVE Rest
  OBVIOUS
<1>1. 0 \in 0 .. MaxTime /\ 0 \in 0 .. Capacity /\ 0 \in 0 .. ChildCapacity
  BY AlgoAssumption
<1> QED BY <1>1 DEF Init, Rest, Idle

\* No step makes the map forget an order.
LEMMA KnownGrows ==
  ASSUME IInv, [Next]_vars
  PROVE  Known \subseteq Known'
<1>1. Shaped(algos)
  BY DEF IInv, Shape
<1>2. ASSUME NEW c \in Callers, Insert(c) PROVE Known \subseteq Known'
  <2> DEFINE t == caller[c].total
             cs == caller[c].children
  <2>1. algos' = Append(algos, [status |-> "pending", total |-> t, children |-> cs])
    BY <1>2 DEF Insert
  <2> HIDE DEF t, cs
  <2> QED BY <1>1, <2>1, OrderAppended
<1>3. ASSUME NEW c \in Callers, Cancel(c) PROVE Known \subseteq Known'
  BY <1>3 DEF Cancel
<1>4. ASSUME NEW i \in Known, Visit(i) PROVE Known \subseteq Known'
  BY <1>4 DEF Visit
<1>5. CASE Submit
  BY <1>5, SubmitDoes
<1>6. CASE Leave
  BY <1>6, LeaveDoes
<1>7. CASE UNCHANGED algos
  BY <1>7
<1>8. \/ UNCHANGED algos \/ Submit \/ Leave \/ \E i \in Known : Visit(i)
      \/ \E c \in Callers : Insert(c) \/ Cancel(c)
  BY DEF Next, Execute, vars, Advance, CreateTwap, CreateVwap, CreateIceberg, CreateSmart, Cut, Send,
         StartUpdate, UpdateVolume, RunExecutor, StartPass, EndPass, Take, DropTaker
<1> QED BY <1>2, <1>3, <1>4, <1>5, <1>6, <1>7, <1>8

\* Every action keeps them.
LEMMA RestNext == IInv /\ Rest /\ [Next]_vars => Rest'
<1> SUFFICES ASSUME IInv, Rest, [Next]_vars PROVE Rest'
  OBVIOUS
<1>0. /\ Known \subseteq Known' /\ DOMAIN caller = Callers
      /\ executor \in [pc : {"off", "sleep", "pass"}, now : Nat, left : SUBSET Nat, id : Nat \cup {None}]
      /\ MaxTime \in Nat /\ Capacity \in Nat \ {0} /\ ChildCapacity \in Nat \ {0}
  BY KnownGrows, AlgoAssumption DEF IInv, Shape
<1>1. CASE Advance \/ StartUpdate \/ UpdateVolume \/ Take \/ DropTaker \/ UNCHANGED vars
  <2>1. UNCHANGED <<algos, lock, caller, executor, readers, unread, rxOpen>>
    BY <1>1 DEF Advance, StartUpdate, UpdateVolume, Take, DropTaker, vars
  <2>2. now' \in 0 .. MaxTime
    BY <1>0, <1>1 DEF Rest, Advance, StartUpdate, UpdateVolume, Take, DropTaker, vars
  <2>3. volume' \in {"idle", "waiting"} /\ outgoing' \in 0 .. ChildCapacity /\ takerOpen' \in BOOLEAN
    <3>1. CASE Advance \/ UNCHANGED vars
      BY <3>1 DEF Rest, Advance, vars
    <3>2. CASE StartUpdate \/ UpdateVolume
      BY <3>2 DEF Rest, StartUpdate, UpdateVolume
    <3>3. CASE Take
      BY <1>0, <3>3 DEF Rest, Take
    <3>4. CASE DropTaker
      <4>1. outgoing' = 0 /\ volume' = volume
        BY <3>4 DEF DropTaker
      <4>2. takerOpen' \in BOOLEAN
        BY <3>4 DEF DropTaker
      <4> QED BY <1>0, <4>1, <4>2 DEF Rest
    <3> QED BY <1>1, <3>1, <3>2, <3>3, <3>4
  <2> QED BY <2>1, <2>2, <2>3 DEF Rest
<1>2. ASSUME NEW c \in Callers, Creates(c) PROVE Rest'
  <2>1. PICK q, cs : Cut(c, q, cs)
    BY <1>2, CreateCuts
  <2>2. readers' \subseteq Callers
    BY <1>2 DEF Creates, CreateTwap, CreateVwap, CreateIceberg, CreateSmart, Rest
  <2>3. \A d \in Callers : caller'[d].pc \in {"idle", "insert", "send"}
                           /\ (caller'[d].pc # "insert" => caller'[d].children = <<>>)
    BY <1>0, <2>1 DEF Cut, Rest
  <2> QED BY <1>0, <2>1, <2>2, <2>3 DEF Cut, Rest
<1>3. ASSUME NEW c \in Callers, Insert(c) PROVE Rest'
  <2>1. \A d \in Callers : caller'[d].pc \in {"idle", "insert", "send"}
                           /\ (caller'[d].pc # "insert" => caller'[d].children = <<>>)
    BY <1>0, <1>3 DEF Insert, Rest, Idle
  <2> QED BY <1>0, <1>3, <2>1 DEF Insert, Rest
<1>4. ASSUME NEW c \in Callers, Send(c) PROVE Rest'
  <2>1. \A d \in Callers : caller'[d].pc \in {"idle", "insert", "send"}
                           /\ (caller'[d].pc # "insert" => caller'[d].children = <<>>)
    BY <1>0, <1>4 DEF Send, Rest, Idle
  <2> QED BY <1>0, <1>4, <2>1 DEF Send, Rest
<1>5. ASSUME NEW c \in Callers, Cancel(c) PROVE Rest'
  <2>1. UNCHANGED <<now, lock, callVars, rxOpen, executor, sendVars>>
    BY <1>5 DEF Cancel
  <2> QED BY <1>0, <2>1 DEF Rest
<1>6. CASE RunExecutor
  <2>1. executor'.left = executor.left /\ executor'.id = executor.id
    BY <1>0, <1>6 DEF RunExecutor
  <2>2. UNCHANGED <<now, algos, lock, caller, readers, volume, sendVars>> /\ unread' = 0
    BY <1>6 DEF RunExecutor
  <2>3. rxOpen' \in BOOLEAN
    BY <1>6 DEF RunExecutor
  <2> QED BY <1>0, <2>1, <2>2, <2>3 DEF Rest
<1>7. CASE StartPass
  <2> DEFINE left == {i \in Known : algos[i].status \in Active}
  <2>1. /\ executor' = [pc |-> "pass", now |-> now, id |-> None, left |-> left]
        /\ lock' = "executor" /\ UNCHANGED <<now, algos, callVars, rxOpen, sendVars>>
    BY <1>7 DEF StartPass
  <2>2. left \subseteq Known
    OBVIOUS
  <2> HIDE DEF left
  <2> QED BY <1>0, <2>1, <2>2 DEF Rest
<1>8. ASSUME NEW i \in Known, Visit(i) PROVE Rest'
  <2>1. /\ executor'.left \subseteq executor.left /\ executor'.id = i
        /\ UNCHANGED <<now, lock, callVars, rxOpen, sendVars>>
    BY <1>0, <1>8 DEF Visit
  <2> QED BY <1>0, <1>8, <2>1 DEF Rest
<1>9. CASE Submit
  <2>1. outgoing' \in 0 .. ChildCapacity
    BY <1>0, <1>9 DEF Submit, Rest
  <2>2. UNCHANGED <<now, lock, callVars, rxOpen, executor, takerOpen>>
    BY <1>9 DEF Submit
  <2> QED BY <1>0, <2>1, <2>2 DEF Rest
<1>10. CASE Leave \/ EndPass
  <2>1. executor'.left = executor.left /\ executor'.id \in {executor.id, None}
    BY <1>0, <1>10 DEF Leave, EndPass
  <2>2. UNCHANGED <<now, callVars, rxOpen, sendVars>> /\ lock' \in {lock, None}
    BY <1>10 DEF Leave, EndPass
  <2> QED BY <1>0, <2>1, <2>2 DEF Rest
<1> QED
  BY <1>1, <1>2, <1>3, <1>4, <1>5, <1>6, <1>7, <1>8, <1>9, <1>10 DEF Next, Execute, Creates

\* Together the parts give the types of all variables.
LEMMA TypesOf == IInv /\ Sound /\ Rest => TypeOK
<1> SUFFICES ASSUME IInv, Sound, Rest PROVE TypeOK
  OBVIOUS
<1>1. algos \in Seq([status : Statuses, total : Nat, children : Seq(Children)])
  <2>1. PICK T, C : algos \in Seq(Records(T, C))
    BY DEF IInv, Shape, Shaped
  <2>2. DOMAIN algos = 1 .. Len(algos) /\ Len(algos) \in Nat
    BY <2>1, LenProperties
  <2> DEFINE R == [status : Statuses, total : Nat, children : Seq(Children)]
  <2>3. \A i \in 1 .. Len(algos) : algos[i] \in R
    <3> SUFFICES ASSUME NEW i \in 1 .. Len(algos) PROVE algos[i] \in R
      OBVIOUS
    <3>1. algos[i] \in Records(T, C)
      BY <2>1, <2>2, ElementOfSeq
    <3>2. algos[i].total \in Nat /\ algos[i].children \in Seq(Children)
      BY <2>2 DEF Sound, Filed, Whole
    <3> QED BY <3>1, <3>2 DEF Records
  <2>4. algos = [i \in 1 .. Len(algos) |-> algos[i]]
    BY <2>1, <2>2, SeqDef
  <2> HIDE DEF R
  <2>5. algos \in [1 .. Len(algos) -> R]
    BY <2>3, <2>4
  <2>6. algos \in Seq(R)
    BY <2>2, <2>5, SeqDef
  <2> QED BY <2>6 DEF R
<1>2. \A c \in Callers : caller[c].children \in Seq(Children)
  BY EmptySeq DEF Rest, Sound, CutsSound, Whole, At
<1>3. \A i \in Ids : sent[i] \in Seq(Nat)
  <2> SUFFICES ASSUME NEW i \in Ids PROVE sent[i] \in Seq(Nat)
    OBVIOUS
  <2>1. CASE i \in Known
    <3>1. Whole(algos[i].total, algos[i].children) /\ sent[i] \in Seq(DOMAIN algos[i].children)
      BY <2>1 DEF Sound, Filed, SentSound, Kept
    <3>2. DOMAIN algos[i].children \subseteq Nat
      BY <3>1, WholeDomain
    <3> QED BY <3>1, <3>2, SeqMonotonic
  <2>2. CASE i \notin Known
    BY <2>2, EmptySeq DEF Sound, SentSound
  <2> QED BY <2>1, <2>2
<1>4. \A i \in Known : Total(algos[i].children) = algos[i].total
  BY DEF Sound, Filed, Whole
<1>5. now \in Nat /\ executor.now \in Nat /\ executor.now <= now /\ executor.pc \in {"off", "sleep", "pass"}
  BY DEF IInv, Shape, Sound
<1> QED BY <1>1, <1>2, <1>3, <1>4, <1>5 DEF TypeOK, Rest, Sound

\* Every variable keeps its type: no slice is larger than what the slices before it
\* left, where u64 would wrap around, and no channel holds more than its capacity.
THEOREM AlgoTyped == Spec => []TypeOK
<1>1. Init => IInv /\ Sound /\ Rest
  BY InvInit, SoundInit, RestInit
<1>2. IInv /\ Sound /\ Rest /\ [Next]_vars => IInv' /\ Sound' /\ Rest'
  BY InvNext, SoundNext, RestNext
<1>3. IInv /\ Sound /\ Rest => TypeOK
  BY TypesOf
<1> QED BY <1>1, <1>2, <1>3, PTL DEF Spec

-----------------------------------------------------------------------------
(* The locks.                                                              *)

\* Whoever has a lock is where the code lets go of it: the lock of the orders is held
\* by a caller exactly while it sends, and by the executor exactly during a pass, the
\* read lock of the profiles only from a cut to the end of the call.  So who holds the
\* lock of the orders waits for room in a channel at most and never for a lock, and
\* who holds that of the profiles alone waits for that of the orders: the waits for
\* locks cannot form a circle.
LocksOwned ==
    /\ lock \in Callers \cup {None, "executor"}
    /\ \A c \in Callers : lock = c <=> At(c, "send")
    /\ lock = "executor" <=> executor.pc = "pass"
    /\ \A c \in readers : c \in Callers /\ (At(c, "insert") \/ At(c, "send"))

\* At first nobody holds a lock.
LEMMA OwnedInit == Init => LocksOwned
  BY AlgoAssumption DEF Init, LocksOwned, At, Idle

\* Every step that takes a lock or gives one back is one of its holder.
LEMMA OwnedNext == IInv /\ LocksOwned /\ [Next]_vars => LocksOwned'
<1> SUFFICES ASSUME IInv, LocksOwned, [Next]_vars PROVE LocksOwned'
  OBVIOUS
<1>0. /\ DOMAIN caller = Callers
      /\ executor \in [pc : {"off", "sleep", "pass"}, now : Nat, left : SUBSET Nat, id : Nat \cup {None}]
      /\ None \notin Callers /\ "executor" \notin Callers \cup {None}
  BY AlgoAssumption DEF IInv, Shape
<1>1. CASE UNCHANGED <<lock, caller, readers, executor>>
  BY <1>1 DEF LocksOwned, At
<1>2. ASSUME NEW c \in Callers, Creates(c) PROVE LocksOwned'
  <2>1. PICK q, cs : Cut(c, q, cs)
    BY <1>2, CreateCuts
  <2>2. readers' \subseteq readers \cup {c}
    BY <1>2 DEF Creates, CreateTwap, CreateVwap, CreateIceberg, CreateSmart
  <2>3. At(c, "idle") /\ caller'[c].pc = "insert" /\ \A d \in Callers \ {c} : caller'[d] = caller[d]
    BY <1>0, <2>1 DEF Cut
  <2>4. lock' = lock /\ executor' = executor
    BY <2>1 DEF Cut
  <2> QED BY <2>2, <2>3, <2>4 DEF LocksOwned, At
<1>3. ASSUME NEW c \in Callers, Insert(c) PROVE LocksOwned'
  <2>1. caller'[c].pc = "send" /\ \A d \in Callers \ {c} : caller'[d] = caller[d]
    BY <1>0, <1>3 DEF Insert, Idle
  <2>2. lock = None /\ lock' = c /\ UNCHANGED <<readers, executor>>
    BY <1>3 DEF Insert
  <2> QED BY <1>0, <2>1, <2>2 DEF LocksOwned, At
<1>4. ASSUME NEW c \in Callers, Send(c) PROVE LocksOwned'
  <2>1. caller'[c].pc = "idle" /\ \A d \in Callers \ {c} : caller'[d] = caller[d]
    BY <1>0, <1>4 DEF Send, Idle
  <2>2. At(c, "send") /\ lock' = None /\ readers' = readers \ {c} /\ executor' = executor
    BY <1>4 DEF Send
  <2> QED BY <1>0, <2>1, <2>2 DEF LocksOwned, At
<1>5. CASE RunExecutor
  <2>1. executor.pc = "off" /\ executor'.pc = "sleep" /\ UNCHANGED <<lock, caller, readers>>
    BY <1>0, <1>5 DEF RunExecutor
  <2> QED BY <2>1 DEF LocksOwned, At
<1>6. CASE StartPass
  <2>1. lock = None /\ lock' = "executor" /\ executor'.pc = "pass" /\ UNCHANGED <<caller, readers>>
    BY <1>6 DEF StartPass, callVars
  <2> QED BY <1>0, <2>1 DEF LocksOwned, At
<1>7. CASE Leave \/ \E i \in Known : Visit(i)
  <2>1. executor.pc = "pass" /\ executor'.pc = executor.pc /\ UNCHANGED <<lock, caller, readers>>
    BY <1>0, <1>7 DEF Leave, Visit, callVars
  <2> QED BY <2>1 DEF LocksOwned, At
<1>8. CASE EndPass
  <2>1. /\ executor.pc = "pass" /\ executor'.pc = "sleep" /\ lock' = None
        /\ UNCHANGED <<caller, readers>>
    BY <1>0, <1>8 DEF EndPass, callVars
  <2> QED BY <1>0, <2>1 DEF LocksOwned, At
<1>9. \/ UNCHANGED <<lock, caller, readers, executor>>
      \/ \E c \in Callers : Creates(c) \/ Insert(c) \/ Send(c)
      \/ RunExecutor \/ StartPass \/ Leave \/ (\E i \in Known : Visit(i)) \/ EndPass
  <2>1. Advance \/ (\E c \in Callers : Cancel(c)) \/ StartUpdate \/ UpdateVolume \/ Submit
        \/ Take \/ DropTaker \/ UNCHANGED vars => UNCHANGED <<lock, caller, readers, executor>>
    BY DEF Advance, Cancel, StartUpdate, UpdateVolume, Submit, Take, DropTaker, vars, callVars
  <2> QED BY <2>1 DEF Next, Execute, Creates
<1> QED BY <1>1, <1>2, <1>3, <1>4, <1>5, <1>6, <1>7, <1>8, <1>9

\* Callers and executor hold the locks only where they go on to give them back.
THEOREM LocksAreOwned == Spec => []LocksOwned
<1>1. Init => IInv /\ LocksOwned
  BY InvInit, OwnedInit
<1>2. IInv /\ LocksOwned /\ [Next]_vars => IInv' /\ LocksOwned'
  BY InvNext, OwnedNext
<1> QED BY <1>1, <1>2, PTL DEF Spec

=============================================================================
