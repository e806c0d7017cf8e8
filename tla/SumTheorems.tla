---------------------------- MODULE SumTheorems -----------------------------
(***************************************************************************)
(* What the other proof modules need to know of SumFunctionOnSet, the sum  *)
(* of a function over a finite set: sums exist, do not depend on the order *)
(* in which elements are taken, and change with the set and the function   *)
(* the way sums do. SumFunctionOnSet is a fold that picks an arbitrary     *)
(* element at a time; a smallest set for which a claim fails               *)
(* (MinimalSubset) stands in for the induction over finite sets.           *)
(***************************************************************************)
EXTENDS Functions, FiniteSetTheorems, TLAPS

\* The element the fold takes first.
Pick(s) == CHOOSE x \in s : TRUE

\* It is one of the set.
LEMMA PickIn == \A s : s # {} => Pick(s) \in s
  BY DEF Pick

\* What the fold defines: the sum over every subset of S, from a smaller one.
Defines(sum, f, S) ==
  sum = [s \in SUBSET S |-> IF s = {} THEN 0 ELSE f[Pick(s)] + sum[s \ {Pick(s)}]]

\* SumFunctionOnSet unfolds to that function.
LEMMA SumDefined ==
  ASSUME NEW f, NEW S
  PROVE  SumFunctionOnSet(f, S) = (CHOOSE sum : Defines(sum, f, S))[S]
  BY DEF SumFunctionOnSet, FoldFunctionOnSet, MapThenFoldSet, Defines, Pick

\* Among subsets of a finite set there is a smallest one.
LEMMA MinimalSubset ==
  ASSUME NEW S, IsFiniteSet(S), NEW C, C \subseteq SUBSET S, C # {}
  PROVE  \E T \in C : \A U \in C : U \subseteq T => U = T
<1>1. C \subseteq FiniteSubsetsOf(S)
  BY FS_Subset DEF FiniteSubsetsOf
<1>2. PICK T \in C : \A U \in C : <<U, T>> \notin StrictSubsetOrdering(S)
  BY <1>1, WFMin, FS_StrictSubsetOrderingWellFounded
<1>3. \A U \in C : U \subseteq T => U = T
  BY <1>2 DEF StrictSubsetOrdering
<1> QED BY <1>3

\* A set of naturals that has an element has a least one.
LEMMA LeastNumber ==
  ASSUME NEW S, S \subseteq Nat, S # {}
  PROVE  \E x \in S : \A y \in S : x <= y
<1>1. PICK n \in S : TRUE
  OBVIOUS
<1> DEFINE I == 1 .. n
<1> DEFINE C == {T \in SUBSET I : \E x \in S : x <= n /\ T = 1 .. x}
<1>2. IsFiniteSet(I)
  BY <1>1, FS_Interval
<1>3. C \subseteq SUBSET I
  OBVIOUS
<1>3a. I \in C
  BY <1>1
<1> HIDE DEF C, I
<1>4. PICK T \in C : \A U \in C : U \subseteq T => U = T
  BY <1>2, <1>3, <1>3a, MinimalSubset
<1> USE DEF C, I
<1>5. PICK x \in S : x <= n /\ T = 1 .. x
  OBVIOUS
<1>6. \A y \in S : x <= y
  <2> SUFFICES ASSUME NEW y \in S, y < x PROVE FALSE
    BY <1>5
  <2>1. 1 .. y \in C /\ 1 .. y \subseteq T /\ x \in T /\ x \notin 1 .. y
    BY <1>1, <1>5
  <2> QED BY <2>1, <1>4
<1> QED BY <1>6

\* There is one such function at most.
LEMMA SumUnique ==
  ASSUME NEW f, NEW S, IsFiniteSet(S), NEW g, NEW h, Defines(g, f, S), Defines(h, f, S)
  PROVE  g = h
<1> DEFINE C == {s \in SUBSET S : g[s] # h[s]}
<1>1. CASE C = {}
  BY <1>1 DEF Defines
<1>2. CASE C # {}
  <2>1. C \subseteq SUBSET S
    OBVIOUS
  <2> HIDE DEF C
  <2>2. PICK T \in C : \A U \in C : U \subseteq T => U = T
    BY <1>2, <2>1, MinimalSubset
  <2> USE DEF C
  <2>3. T # {}
    BY <2>2 DEF Defines
  <2>4. Pick(T) \in T /\ T \ {Pick(T)} \in SUBSET S /\ T \ {Pick(T)} \notin C
    BY <2>2, <2>3, PickIn
  <2> QED BY <2>2, <2>3, <2>4 DEF Defines
<1> QED BY <1>1, <1>2

\* There is one: over a smallest set without, the sums of its subsets would
\* define it.
LEMMA SumExists ==
  ASSUME NEW f, NEW S, IsFiniteSet(S)
  PROVE  \E sum : Defines(sum, f, S)
<1> DEFINE C == {T \in SUBSET S : ~ \E sum : Defines(sum, f, T)}
<1>1. CASE C = {}
  BY <1>1
<1>2. CASE C # {}
  <2>0. C \subseteq SUBSET S
    OBVIOUS
  <2> HIDE DEF C
  <2>1. PICK T \in C : \A U \in C : U \subseteq T => U = T
    BY <1>2, <2>0, MinimalSubset
  <2> USE DEF C
  <2> DEFINE Of(U) == CHOOSE sum : Defines(sum, f, U)
  <2>2. \A U \in SUBSET T : U # T => Defines(Of(U), f, U)
    BY <2>1
  <2>3. \A U \in SUBSET T : U # T => \A s \in SUBSET U : Of(U)[s] = Of(s)[s]
    <3> SUFFICES ASSUME NEW U \in SUBSET T, U # T, NEW s \in SUBSET U
                 PROVE  Of(U)[s] = Of(s)[s]
      OBVIOUS
    <3>1. s \in SUBSET T /\ s # T /\ s \in SUBSET S
      BY <2>1
    <3>2. Defines(Of(U), f, U) /\ Defines(Of(s), f, s)
      BY <2>2, <3>1
    <3> HIDE DEF Of
    <3> DEFINE k == [t \in SUBSET s |-> Of(U)[t]]
    <3>3. Defines(k, f, s)
      BY <3>2, PickIn DEF Defines
    <3>4. k = Of(s)
      BY <3>1, <3>2, <3>3, FS_Subset, SumUnique
    <3> QED BY <3>4
  <2> HIDE DEF Of
  <2> DEFINE g == [s \in SUBSET T |->
                     IF s # T THEN Of(s)[s]
                     ELSE IF T = {} THEN 0 ELSE f[Pick(T)] + Of(T \ {Pick(T)})[T \ {Pick(T)}]]
  <2>4. \A s \in SUBSET T : g[s] = IF s = {} THEN 0 ELSE f[Pick(s)] + g[s \ {Pick(s)}]
    <3> SUFFICES ASSUME NEW s \in SUBSET T
                 PROVE g[s] = IF s = {} THEN 0 ELSE f[Pick(s)] + g[s \ {Pick(s)}]
      OBVIOUS
    <3>1. CASE s = T
      BY <3>1, PickIn
    <3>2. CASE s # T
      <4>1. Of(s)[s] = IF s = {} THEN 0 ELSE f[Pick(s)] + Of(s)[s \ {Pick(s)}]
        BY <2>2, <3>2 DEF Defines
      <4>2. s # {} => Of(s)[s \ {Pick(s)}] = Of(s \ {Pick(s)})[s \ {Pick(s)}]
        BY <2>3, <3>2, PickIn
      <4>3. s # {} => s \ {Pick(s)} # T
        BY PickIn
      <4> QED BY <3>2, <4>1, <4>2, <4>3
    <3> QED BY <3>1, <3>2
  <2>5. Defines(g, f, T)
    BY <2>4 DEF Defines
  <2> QED BY <2>1, <2>5
<1> QED BY <1>1, <1>2

\* A sum is the sum over all but the picked element, and that element.
LEMMA SumPick ==
  ASSUME NEW f, NEW S, IsFiniteSet(S)
  PROVE  SumFunctionOnSet(f, S) =
           IF S = {} THEN 0 ELSE f[Pick(S)] + SumFunctionOnSet(f, S \ {Pick(S)})
<1> DEFINE Of(U) == CHOOSE sum : Defines(sum, f, U)
           R == S \ {Pick(S)}
           k == [t \in SUBSET R |-> Of(S)[t]]
<1>1. \A U : IsFiniteSet(U) => Defines(Of(U), f, U)
  BY SumExists
<1>2. IsFiniteSet(R)
  BY FS_Subset
<1>3. SumFunctionOnSet(f, S) = Of(S)[S] /\ SumFunctionOnSet(f, R) = Of(R)[R]
  BY SumDefined
<1>4. Defines(Of(S), f, S) /\ Defines(Of(R), f, R)
  BY <1>1, <1>2
<1> HIDE DEF Of
<1>5. Defines(k, f, R)
  BY <1>4, PickIn DEF Defines
<1>6. k = Of(R)
  <2> HIDE DEF k, R
  <2> QED BY <1>2, <1>4, <1>5, SumUnique
<1>7. Of(S)[R] = Of(R)[R]
  BY <1>6
<1>8. Of(S)[S] = IF S = {} THEN 0 ELSE f[Pick(S)] + Of(S)[R]
  BY <1>4 DEF Defines
<1> QED BY <1>3, <1>7, <1>8

\* Nothing sums to zero.
LEMMA SumEmpty == \A f : SumFunctionOnSet(f, {}) = 0
  BY SumPick, FS_EmptySet

\* Integers sum to an integer.
LEMMA SumType ==
  ASSUME NEW f, NEW S, IsFiniteSet(S), NEW N \in {Nat, Int}, \A x \in S : f[x] \in N
  PROVE  SumFunctionOnSet(f, S) \in N
<1> DEFINE C == {T \in SUBSET S : SumFunctionOnSet(f, T) \notin N}
<1>1. CASE C = {}
  BY <1>1
<1>2. CASE C # {}
  <2>1. C \subseteq SUBSET S
    OBVIOUS
  <2> HIDE DEF C
  <2>2. PICK T \in C : \A U \in C : U \subseteq T => U = T
    BY <1>2, <2>1, MinimalSubset
  <2> USE DEF C
  <2>3. IsFiniteSet(T)
    BY <2>2, FS_Subset
  <2>4. T # {}
    BY <2>2, SumEmpty
  <2>5. Pick(T) \in T /\ SumFunctionOnSet(f, T \ {Pick(T)}) \in N
    <3> DEFINE R == T \ {Pick(T)}
    <3>1. Pick(T) \in T
      BY <2>4, PickIn
    <3>2. R \in SUBSET S /\ R \subseteq T /\ R # T
      BY <2>2, <3>1
    <3>3. R \notin C
      BY <2>2, <3>2, Zenon
    <3> QED BY <3>1, <3>2, <3>3
  <2>6. SumFunctionOnSet(f, T) = f[Pick(T)] + SumFunctionOnSet(f, T \ {Pick(T)})
    BY <2>3, <2>4, SumPick
  <2> QED BY <2>2, <2>5, <2>6
<1> QED BY <1>1, <1>2

\* Any element can be taken out first, not the picked one only.
LEMMA SumRemove ==
  ASSUME NEW f, NEW S, IsFiniteSet(S), \A y \in S : f[y] \in Int, NEW x \in S
  PROVE  SumFunctionOnSet(f, S) = f[x] + SumFunctionOnSet(f, S \ {x})
<1> DEFINE C == {T \in SUBSET S : \E y \in T : SumFunctionOnSet(f, T) # f[y] + SumFunctionOnSet(f, T \ {y})}
<1>1. CASE C = {}
  BY <1>1
<1>2. CASE C # {}
  <2>1. C \subseteq SUBSET S
    OBVIOUS
  <2> HIDE DEF C
  <2>2. PICK T \in C : \A U \in C : U \subseteq T => U = T
    BY <1>2, <2>1, MinimalSubset
  <2> USE DEF C
  <2>3. PICK y \in T : SumFunctionOnSet(f, T) # f[y] + SumFunctionOnSet(f, T \ {y})
    BY <2>2
  <2> DEFINE p == Pick(T)
             P == T \ {p}
             Y == T \ {y}
             B == (T \ {y}) \ {p}
  <2>4. p \in T /\ SumFunctionOnSet(f, T) = f[p] + SumFunctionOnSet(f, P)
    BY <2>2, <2>3, PickIn, SumPick, FS_Subset
  <2> HIDE DEF p
  <2>5. p # y
    BY <2>3, <2>4
  <2>6. P \in SUBSET S /\ Y \in SUBSET S /\ P \notin C /\ Y \notin C /\ y \in P /\ p \in Y
    BY <2>2, <2>3, <2>4, <2>5
  <2>7. SumFunctionOnSet(f, P) = f[y] + SumFunctionOnSet(f, B)
    <3>1. P \ {y} = B
      OBVIOUS
    <3> QED BY <2>6, <3>1
  <2>8. SumFunctionOnSet(f, Y) = f[p] + SumFunctionOnSet(f, B)
    BY <2>6
  <2>9. SumFunctionOnSet(f, B) \in Int /\ f[p] \in Int /\ f[y] \in Int
    <3>1. IsFiniteSet(B) /\ \A z \in B : f[z] \in Int
      BY <2>2, FS_Subset
    <3> HIDE DEF B
    <3> QED BY <3>1, <2>2, <2>3, <2>4, SumType
  <2> QED BY <2>3, <2>4, <2>7, <2>8, <2>9
<1> QED BY <1>1, <1>2

\* The sum depends on the values over the set only.
LEMMA SumSame ==
  ASSUME NEW f, NEW g, NEW S, IsFiniteSet(S), \A x \in S : f[x] = g[x]
  PROVE  SumFunctionOnSet(f, S) = SumFunctionOnSet(g, S)
<1> DEFINE C == {T \in SUBSET S : SumFunctionOnSet(f, T) # SumFunctionOnSet(g, T)}
<1>1. CASE C = {}
  BY <1>1
<1>2. CASE C # {}
  <2>1. C \subseteq SUBSET S
    OBVIOUS
  <2> HIDE DEF C
  <2>2. PICK T \in C : \A U \in C : U \subseteq T => U = T
    BY <1>2, <2>1, MinimalSubset
  <2> USE DEF C
  <2>3. IsFiniteSet(T)
    BY <2>2, FS_Subset
  <2>4. T # {}
    BY <2>2, SumEmpty
  <2>5. Pick(T) \in T
    BY <2>4, PickIn
  <2>6. SumFunctionOnSet(f, T \ {Pick(T)}) = SumFunctionOnSet(g, T \ {Pick(T)})
    BY <2>2, <2>5
  <2>7. /\ SumFunctionOnSet(f, T) = f[Pick(T)] + SumFunctionOnSet(f, T \ {Pick(T)})
        /\ SumFunctionOnSet(g, T) = g[Pick(T)] + SumFunctionOnSet(g, T \ {Pick(T)})
    BY <2>3, <2>4, SumPick
  <2> QED BY <2>2, <2>5, <2>6, <2>7
<1> QED BY <1>1, <1>2

\* Zeroes sum to zero.
LEMMA SumZero ==
  ASSUME NEW f, NEW S, IsFiniteSet(S), \A x \in S : f[x] = 0
  PROVE  SumFunctionOnSet(f, S) = 0
<1> DEFINE C == {T \in SUBSET S : SumFunctionOnSet(f, T) # 0}
<1>1. CASE C = {}
  BY <1>1
<1>2. CASE C # {}
  <2>1. C \subseteq SUBSET S
    OBVIOUS
  <2> HIDE DEF C
  <2>2. PICK T \in C : \A U \in C : U \subseteq T => U = T
    BY <1>2, <2>1, MinimalSubset
  <2> USE DEF C
  <2>3. IsFiniteSet(T) /\ T # {}
    BY <2>2, SumEmpty, FS_Subset
  <2>4. Pick(T) \in T /\ SumFunctionOnSet(f, T \ {Pick(T)}) = 0
    BY <2>2, <2>3, PickIn
  <2>5. SumFunctionOnSet(f, T) = f[Pick(T)] + SumFunctionOnSet(f, T \ {Pick(T)})
    BY <2>3, SumPick
  <2> QED BY <2>2, <2>4, <2>5
<1> QED BY <1>1, <1>2

\* A new element adds its value.
LEMMA SumAdd ==
  ASSUME NEW f, NEW S, IsFiniteSet(S), NEW x, x \notin S, \A y \in S \cup {x} : f[y] \in Int
  PROVE  SumFunctionOnSet(f, S \cup {x}) = f[x] + SumFunctionOnSet(f, S)
<1>1. IsFiniteSet(S \cup {x})
  BY FS_AddElement
<1>2. (S \cup {x}) \ {x} = S
  OBVIOUS
<1> QED BY <1>1, <1>2, SumRemove

\* One value that changes changes the sum by the difference.
LEMMA SumChange ==
  ASSUME NEW f, NEW g, NEW S, IsFiniteSet(S), NEW x \in S,
         \A y \in S : f[y] \in Int /\ g[y] \in Int, \A y \in S \ {x} : f[y] = g[y]
  PROVE  SumFunctionOnSet(g, S) = SumFunctionOnSet(f, S) + g[x] - f[x]
<1>1. IsFiniteSet(S \ {x})
  BY FS_Subset
<1>2. SumFunctionOnSet(g, S \ {x}) = SumFunctionOnSet(f, S \ {x})
  BY <1>1, SumSame
<1>3. SumFunctionOnSet(f, S \ {x}) \in Int
  BY <1>1, SumType
<1>4. /\ SumFunctionOnSet(f, S) = f[x] + SumFunctionOnSet(f, S \ {x})
      /\ SumFunctionOnSet(g, S) = g[x] + SumFunctionOnSet(g, S \ {x})
  BY SumRemove
<1> QED BY <1>2, <1>3, <1>4

\* A larger set of naturals sums to no less.
LEMMA SumMonotone ==
  ASSUME NEW f, NEW S, IsFiniteSet(S), \A x \in S : f[x] \in Nat, NEW R \in SUBSET S
  PROVE  SumFunctionOnSet(f, R) <= SumFunctionOnSet(f, S)
<1> DEFINE C == {T \in SUBSET S : R \subseteq T /\ ~ (SumFunctionOnSet(f, R) <= SumFunctionOnSet(f, T))}
<1>1. CASE C = {}
  BY <1>1
<1>2. CASE C # {}
  <2>1. C \subseteq SUBSET S
    OBVIOUS
  <2> HIDE DEF C
  <2>2. PICK T \in C : \A U \in C : U \subseteq T => U = T
    BY <1>2, <2>1, MinimalSubset
  <2> USE DEF C
  <2>3. \A U \in SUBSET S : IsFiniteSet(U) /\ SumFunctionOnSet(f, U) \in Nat
    <3> SUFFICES ASSUME NEW U \in SUBSET S PROVE IsFiniteSet(U) /\ SumFunctionOnSet(f, U) \in Nat
      OBVIOUS
    <3>1. IsFiniteSet(U)
      BY FS_Subset
    <3> QED BY <3>1, SumType
  <2>4. PICK x \in T : x \notin R
    <3>1. R # T /\ R \subseteq T
      BY <2>2, <2>3
    <3> HIDE DEF C
    <3> QED BY <3>1
  <2>5. SumFunctionOnSet(f, T) = f[x] + SumFunctionOnSet(f, T \ {x})
    BY <2>2, <2>3, SumRemove
  <2>6. SumFunctionOnSet(f, R) <= SumFunctionOnSet(f, T \ {x})
    BY <2>2, <2>4
  <2>7. /\ SumFunctionOnSet(f, R) \in Nat /\ SumFunctionOnSet(f, T) \in Nat
        /\ SumFunctionOnSet(f, T \ {x}) \in Nat /\ f[x] \in Nat
    BY <2>2, <2>3
  <2> QED BY <2>2, <2>5, <2>6, <2>7
<1> QED BY <1>1, <1>2

\* A sum over elements of which one changes, joins or leaves.
LEMMA SumDiffer ==
  ASSUME NEW f, NEW g, NEW S, IsFiniteSet(S), NEW R, NEW x, S \ {x} = R \ {x},
         \A y \in S : f[y] \in Int, \A y \in R : g[y] \in Int,
         \A y \in S \ {x} : f[y] = g[y]
  PROVE  SumFunctionOnSet(g, R) = SumFunctionOnSet(f, S) + (IF x \in R THEN g[x] ELSE 0)
                                                       - (IF x \in S THEN f[x] ELSE 0)
<1> DEFINE B == S \ {x}
<1>1. IsFiniteSet(B)
  BY FS_Subset
<1>2. R \subseteq B \cup {x}
  OBVIOUS
<1>3. IsFiniteSet(R)
  BY <1>1, <1>2, FS_AddElement, FS_Subset
<1>4. SumFunctionOnSet(g, B) = SumFunctionOnSet(f, B)
  <2>1. \A y \in B : g[y] = f[y]
    OBVIOUS
  <2> QED BY <1>1, <2>1, SumSame
<1>5. SumFunctionOnSet(f, B) \in Int
  <2>1. \A y \in B : f[y] \in Int
    OBVIOUS
  <2> QED BY <1>1, <2>1, SumType
<1>6. SumFunctionOnSet(f, S) = SumFunctionOnSet(f, B) + IF x \in S THEN f[x] ELSE 0
  <2>1. CASE x \in S
    <3>1. SumFunctionOnSet(f, S) = f[x] + SumFunctionOnSet(f, B)
      BY <2>1, SumRemove
    <3> HIDE DEF B
    <3> QED BY <1>5, <2>1, <3>1
  <2>2. CASE x \notin S
    <3>1. B = S
      BY <2>2
    <3> HIDE DEF B
    <3> QED BY <1>5, <2>2, <3>1
  <2> QED BY <2>1, <2>2
<1>7. SumFunctionOnSet(g, R) = SumFunctionOnSet(f, B) + IF x \in R THEN g[x] ELSE 0
  <2>1. CASE x \in R
    <3>1. SumFunctionOnSet(g, R) = g[x] + SumFunctionOnSet(g, R \ {x})
      BY <1>3, <2>1, SumRemove
    <3>2. B = R \ {x} /\ g[x] \in Int
      BY <2>1
    <3> HIDE DEF B
    <3> QED BY <1>4, <1>5, <2>1, <3>1, <3>2
  <2>2. CASE x \notin R
    <3>1. B = R
      BY <2>2
    <3> HIDE DEF B
    <3> QED BY <1>4, <1>5, <2>2, <3>1
  <2> QED BY <2>1, <2>2
<1>8. (x \in S => f[x] \in Int) /\ (x \in R => g[x] \in Int)
  OBVIOUS
<1> HIDE DEF B
<1> QED BY <1>5, <1>6, <1>7, <1>8
\* As many times a constant as there are elements.
LEMMA SumConstant ==
  ASSUME NEW f, NEW S, IsFiniteSet(S), NEW c \in Int, \A x \in S : f[x] = c
  PROVE  SumFunctionOnSet(f, S) = c * Cardinality(S)
<1> DEFINE C == {T \in SUBSET S : SumFunctionOnSet(f, T) # c * Cardinality(T)}
<1>1. CASE C = {}
  BY <1>1
<1>2. CASE C # {}
  <2>1. C \subseteq SUBSET S
    OBVIOUS
  <2> HIDE DEF C
  <2>2. PICK T \in C : \A U \in C : U \subseteq T => U = T
    BY <1>2, <2>1, MinimalSubset
  <2> USE DEF C
  <2>3. IsFiniteSet(T) /\ T # {}
    BY <2>2, SumEmpty, FS_Subset, FS_EmptySet
  <2> DEFINE R == T \ {Pick(T)}
  <2>4. Pick(T) \in T /\ SumFunctionOnSet(f, R) = c * Cardinality(R)
    BY <2>2, <2>3, PickIn
  <2>5. SumFunctionOnSet(f, T) = c + SumFunctionOnSet(f, R)
    BY <2>2, <2>3, <2>4, SumPick
  <2>6. Cardinality(R) = Cardinality(T) - 1 /\ Cardinality(T) \in Nat
    BY <2>3, <2>4, FS_RemoveElement, FS_CardinalityType
  <2>7. SumFunctionOnSet(f, T) # c * Cardinality(T)
    BY <2>2
  <2> HIDE DEF C, R
  <2>8. c * Cardinality(T) = c + c * Cardinality(R)
    BY <2>6
  <2> QED BY <2>4, <2>5, <2>7, <2>8
<1> QED BY <1>1, <1>2

\* What bounds the elements of a sum bounds the sum.
LEMMA SumScaled ==
  ASSUME NEW f, NEW g, NEW S, IsFiniteSet(S), NEW a \in Nat, NEW b \in Nat,
         \A x \in S : f[x] \in Nat /\ g[x] \in Nat /\ a * f[x] <= b * g[x]
  PROVE  a * SumFunctionOnSet(f, S) <= b * SumFunctionOnSet(g, S)
<1> DEFINE C == {T \in SUBSET S : ~ (a * SumFunctionOnSet(f, T) <= b * SumFunctionOnSet(g, T))}
<1>1. CASE C = {}
  BY <1>1
<1>2. CASE C # {}
  <2>1. C \subseteq SUBSET S
    OBVIOUS
  <2> HIDE DEF C
  <2>2. PICK T \in C : \A U \in C : U \subseteq T => U = T
    BY <1>2, <2>1, MinimalSubset
  <2> USE DEF C
  <2>3. IsFiniteSet(T) /\ T # {}
    <3>1. a * 0 <= b * 0
      OBVIOUS
    <3> QED BY <2>2, <3>1, SumEmpty, FS_Subset
  <2> DEFINE R == T \ {Pick(T)}
             F == SumFunctionOnSet(f, R)
             G == SumFunctionOnSet(g, R)
  <2>4. Pick(T) \in T /\ a * F <= b * G
    BY <2>2, <2>3, PickIn
  <2>5. SumFunctionOnSet(f, T) = f[Pick(T)] + F /\ SumFunctionOnSet(g, T) = g[Pick(T)] + G
    BY <2>3, SumPick
  <2>6. F \in Nat /\ G \in Nat
    <3>1. IsFiniteSet(R) /\ \A x \in R : f[x] \in Nat /\ g[x] \in Nat
      BY <2>2, FS_Subset
    <3> HIDE DEF R
    <3> QED BY <3>1, SumType
  <2>7. ~ (a * SumFunctionOnSet(f, T) <= b * SumFunctionOnSet(g, T))
    BY <2>2
  <2>8. PICK x \in S : x = Pick(T)
    BY <2>2, <2>4
  <2>9. f[x] \in Nat /\ g[x] \in Nat /\ a * f[x] <= b * g[x]
    OBVIOUS
  <2> HIDE DEF C, R, F, G
  <2>10. a * (f[x] + F) = a * f[x] + a * F /\ b * (g[x] + G) = b * g[x] + b * G
    BY <2>6, <2>9
  <2>11. a * f[x] \in Nat /\ a * F \in Nat /\ b * g[x] \in Nat /\ b * G \in Nat
    BY <2>6, <2>9
  <2>12. a * f[x] + a * F <= b * g[x] + b * G
    BY <2>4, <2>9, <2>11
  <2> QED BY <2>5, <2>7, <2>8, <2>10, <2>12
<1> QED BY <1>1, <1>2

=============================================================================
