---------------------------- MODULE DataTheorems ----------------------------
(***************************************************************************)
(* Facts about sums over finite sets, for the proofs about stakes,         *)
(* attestations and voting power, and about numbers packed into bytes, for *)
(* those about signatures and receipts.  Induction is by minimal           *)
(* counterexample: it needs no theorem with an operator as a parameter.    *)
(***************************************************************************)
EXTENDS Bytes, Functions, FiniteSetTheorems, SequenceTheorems, TLAPS

-----------------------------------------------------------------------------
(***************************************************************************)
(* Minimal counterexamples.                                                *)
(***************************************************************************)

\* A set of natural numbers that is not empty has a least element.
LEMMA LeastNatural ==
    ASSUME NEW T \in SUBSET Nat, T # {}
    PROVE  \E x \in T : \A y \in T : x <= y
<1> DEFINE R == {p \in Nat \X Nat : p[1] < p[2]}
<1>1. IsWellFoundedOn(R, Nat)
  BY NatLessThanWellFounded DEF OpToRel
<1> HIDE DEF R
<1>2. PICK x \in T : \A y \in T : <<y, x>> \notin R
  BY <1>1, WFMin
<1>3. ASSUME NEW y \in T PROVE x <= y
  <2>1. <<y, x>> \notin R
    BY <1>2
  <2> QED
    BY <2>1 DEF R
<1> QED
  BY <1>3

\* Among subsets of a finite set there is one of which no other is a subset.
LEMMA MinimalSubset ==
    ASSUME NEW S, IsFiniteSet(S), NEW C \in SUBSET (SUBSET S), C # {}
    PROVE  \E T \in C : \A U \in C : U \subseteq T => U = T
<1> DEFINE N == {n \in Nat : \E T \in C : Cardinality(T) = n}
<1>1. ASSUME NEW T \in C PROVE IsFiniteSet(T) /\ Cardinality(T) \in N
  <2>1. IsFiniteSet(T) /\ Cardinality(T) \in Nat
    BY FS_Subset, FS_CardinalityType
  <2> QED
    BY <2>1
<1>2. N \in SUBSET Nat /\ N # {}
  BY <1>1
<1> HIDE DEF N
<1>3. PICK n \in N : \A m \in N : n <= m
  BY <1>2, LeastNatural
<1>4. PICK T \in C : Cardinality(T) = n
  BY <1>3 DEF N
<1>5. ASSUME NEW U \in C, U \subseteq T PROVE U = T
  <2>1. IsFiniteSet(T) /\ U \in SUBSET T
    BY <1>1, <1>5
  <2>2. Cardinality(U) <= Cardinality(T) /\ (Cardinality(T) = Cardinality(U) => T = U)
    BY <2>1, FS_Subset
  <2>3. Cardinality(U) \in Nat /\ Cardinality(T) \in Nat /\ n <= Cardinality(U)
    BY <1>1, <1>2, <1>3
  <2> QED
    BY <2>2, <2>3, <1>4
<1> QED
  BY <1>5

-----------------------------------------------------------------------------
(***************************************************************************)
(* The sum of a function over a finite set.                                *)
(***************************************************************************)

\* The element that the fold takes first.
Any(s) == CHOOSE x \in s : TRUE

\* h adds f up over the subsets of S, element by element.
AddsUp(h, f, S) ==
    h = [s \in SUBSET S |-> IF s = {} THEN 0 ELSE f[Any(s)] + h[s \ {Any(s)}]]

\* What the sum of the community modules stands for.
LEMMA SumUnfolded ==
    ASSUME NEW f, NEW S
    PROVE  SumFunctionOnSet(f, S) = (CHOOSE h : AddsUp(h, f, S))[S]
BY DEF SumFunctionOnSet, FoldFunctionOnSet, MapThenFoldSet, AddsUp, Any

\* What AddsUp says of a subset that is not empty, and of the empty one.
LEMMA AddsUpAt ==
    ASSUME NEW h, NEW f, NEW S, AddsUp(h, f, S), NEW s \in SUBSET S, s # {}
    PROVE  Any(s) \in s /\ h[s] = f[Any(s)] + h[s \ {Any(s)}]
<1>1. Any(s) \in s
  BY DEF Any
<1>2. h[s] = f[Any(s)] + h[s \ {Any(s)}]
  BY DEF AddsUp
<1> QED
  BY <1>1, <1>2

\* Such a function is 0 on the empty set.
LEMMA AddsUpEmpty ==
    ASSUME NEW h, NEW f, NEW S, AddsUp(h, f, S)
    PROVE  h[{}] = 0
BY DEF AddsUp

\* Two such functions agree on the sets on which the summands do.
LEMMA AddsUpAgree ==
    ASSUME NEW h, NEW f, NEW S, AddsUp(h, f, S),
           NEW k, NEW g, NEW T, AddsUp(k, g, T),
           NEW U, IsFiniteSet(U), U \subseteq S, U \subseteq T,
           \A x \in U : f[x] = g[x]
    PROVE  h[U] = k[U]
<1> DEFINE C == {s \in SUBSET U : h[s] # k[s]}
<1> SUFFICES ASSUME C # {} PROVE FALSE
  OBVIOUS
<1>1. C \in SUBSET (SUBSET U)
  OBVIOUS
<1>2. PICK s \in C : \A t \in C : t \subseteq s => t = s
  <2> HIDE DEF C
  <2> QED
    BY <1>1, MinimalSubset
<1>3. s \in SUBSET S /\ s \in SUBSET T /\ s \in SUBSET U
  BY <1>2
<1>4. s # {}
  BY <1>2, AddsUpEmpty
<1>5. Any(s) \in s /\ f[Any(s)] = g[Any(s)]
  BY <1>3, <1>4, AddsUpAt
<1>6. h[s \ {Any(s)}] = k[s \ {Any(s)}]
  BY <1>2, <1>3, <1>5
<1>7. h[s] = k[s]
  <2>1. h[s] = f[Any(s)] + h[s \ {Any(s)}]
    BY <1>3, <1>4, AddsUpAt
  <2>2. k[s] = g[Any(s)] + k[s \ {Any(s)}]
    BY <1>3, <1>4, AddsUpAt
  <2> QED
    BY <1>5, <1>6, <2>1, <2>2
<1> QED
  BY <1>2, <1>7

\* Over a finite set such a function exists.
LEMMA AddsUpExists ==
    ASSUME NEW f, NEW S, IsFiniteSet(S)
    PROVE  \E h : AddsUp(h, f, S)
<1> DEFINE C == {s \in SUBSET S : ~ \E h : AddsUp(h, f, s)}
<1> SUFFICES ASSUME C # {} PROVE FALSE
  OBVIOUS
<1>1. C \in SUBSET (SUBSET S)
  OBVIOUS
<1>2. PICK s \in C : \A t \in C : t \subseteq s => t = s
  <2> HIDE DEF C
  <2> QED
    BY <1>1, MinimalSubset
<1>3. s \in SUBSET S /\ ~ \E h : AddsUp(h, f, s)
  BY <1>2
<1>4. ASSUME NEW t \in SUBSET s, t # s PROVE \E h : AddsUp(h, f, t)
  BY <1>2, <1>3, <1>4
<1> DEFINE H(t) == CHOOSE h : AddsUp(h, f, t)
<1>5. ASSUME NEW t \in SUBSET s, t # s PROVE AddsUp(H(t), f, t)
  BY <1>4, <1>5
<1> HIDE DEF C, H
<1> DEFINE h == [t \in SUBSET s |->
                   IF t = {} THEN 0
                             ELSE f[Any(t)] + H(t \ {Any(t)})[t \ {Any(t)}]]
<1>6. ASSUME NEW t \in SUBSET s, t # s PROVE h[t] = H(t)[t]
  <2>1. AddsUp(H(t), f, t) /\ t \in SUBSET t
    BY <1>5, <1>6
  <2>2. CASE t = {}
    BY <2>1, <2>2, AddsUpEmpty
  <2>3. CASE t # {}
    <3> DEFINE u == t \ {Any(t)}
    <3>1. Any(t) \in t /\ H(t)[t] = f[Any(t)] + H(t)[u]
      BY <2>1, <2>3, AddsUpAt
    <3>2. u \in SUBSET s /\ u # s /\ u \subseteq t /\ u \subseteq u /\ u \subseteq S
      BY <3>1, <1>3
    <3>3. AddsUp(H(u), f, u) /\ IsFiniteSet(u)
      BY <3>2, <1>5, FS_Subset
    <3>4. H(t)[u] = H(u)[u]
      <4> HIDE DEF u
      <4> QED
        BY <3>2, <3>3, <2>1, AddsUpAgree
    <3> QED
      BY <2>3, <3>1, <3>4
  <2> QED
    BY <2>2, <2>3
<1>7. ASSUME NEW t \in SUBSET s
      PROVE  h[t] = IF t = {} THEN 0 ELSE f[Any(t)] + h[t \ {Any(t)}]
  <2>1. CASE t # {}
    <3>1. Any(t) \in t
      BY <2>1 DEF Any
    <3>2. h[t \ {Any(t)}] = H(t \ {Any(t)})[t \ {Any(t)}]
      <4> HIDE DEF h
      <4> QED
        BY <1>6, <3>1
    <3>3. h[t] = f[Any(t)] + H(t \ {Any(t)})[t \ {Any(t)}]
      BY <2>1
    <3> QED
      BY <2>1, <3>2, <3>3
  <2> QED
    BY <2>1
<1>8. h = [t \in SUBSET s |-> h[t]]
  OBVIOUS
<1> HIDE DEF h
<1>9. h = [t \in SUBSET s |-> IF t = {} THEN 0 ELSE f[Any(t)] + h[t \ {Any(t)}]]
  BY <1>7, <1>8
<1> QED
  BY <1>3, <1>9 DEF AddsUp

\* The sum of f over S is the value of any function that adds f up.
LEMMA SumIs ==
    ASSUME NEW f, NEW S, IsFiniteSet(S)
    PROVE  \E h : AddsUp(h, f, S) /\ SumFunctionOnSet(f, S) = h[S]
BY AddsUpExists, SumUnfolded

\* Sums of integers are integers, and sums of natural numbers natural.
LEMMA AddsUpType ==
    ASSUME NEW h, NEW f, NEW S, IsFiniteSet(S), AddsUp(h, f, S),
           NEW Typ, Typ \in {Int, Nat}, \A x \in S : f[x] \in Typ,
           NEW U \in SUBSET S
    PROVE  h[U] \in Typ
<1> DEFINE C == {s \in SUBSET S : h[s] \notin Typ}
<1> SUFFICES ASSUME C # {} PROVE FALSE
  OBVIOUS
<1>1. C \in SUBSET (SUBSET S)
  OBVIOUS
<1>2. PICK s \in C : \A t \in C : t \subseteq s => t = s
  <2> HIDE DEF C
  <2> QED
    BY <1>1, MinimalSubset
<1>3. s \in SUBSET S /\ h[s] \notin Typ
  BY <1>2
<1>4. ASSUME NEW t \in SUBSET s, t # s PROVE h[t] \in Typ
  BY <1>2, <1>3, <1>4
<1> HIDE DEF C
<1>5. s # {}
  <2>1. 0 \in Typ
    OBVIOUS
  <2> QED
    BY <2>1, <1>3, AddsUpEmpty
<1>6. Any(s) \in s /\ h[s] = f[Any(s)] + h[s \ {Any(s)}]
  <2>1. Any(s) \in s
    BY <1>3, <1>5, AddsUpAt
  <2>2. s \in SUBSET S
    BY <1>3
  <2>3. h[s] = f[Any(s)] + h[s \ {Any(s)}]
    BY <2>2, <1>5, AddsUpAt, Zenon
  <2> QED
    BY <2>1, <2>3, Zenon
<1>7. h[s \ {Any(s)}] \in Typ /\ f[Any(s)] \in Typ
  BY <1>3, <1>4, <1>6
<1>8. \A m, n \in Typ : m + n \in Typ
  OBVIOUS
<1> QED
  BY <1>3, <1>6, <1>7, <1>8

\* It does not matter which element is added last.
LEMMA AddsUpAnyOrder ==
    ASSUME NEW h, NEW f, NEW S, IsFiniteSet(S), AddsUp(h, f, S),
           \A x \in S : f[x] \in Int,
           NEW U \in SUBSET S, NEW x \in U
    PROVE  h[U] = f[x] + h[U \ {x}]
<1> DEFINE C == {s \in SUBSET S : \E y \in s : h[s] # f[y] + h[s \ {y}]}
<1> SUFFICES ASSUME C # {} PROVE FALSE
  OBVIOUS
<1>1. C \in SUBSET (SUBSET S)
  OBVIOUS
<1>2. PICK s \in C : \A t \in C : t \subseteq s => t = s
  <2> HIDE DEF C
  <2> QED
    BY <1>1, MinimalSubset
<1>3. PICK y \in s : h[s] # f[y] + h[s \ {y}]
  BY <1>2
<1>4. s \in SUBSET S /\ s # {}
  BY <1>2, <1>3
<1>5. ASSUME NEW t \in SUBSET s, t # s, NEW z \in t PROVE h[t] = f[z] + h[t \ {z}]
  BY <1>2, <1>4, <1>5
<1> HIDE DEF C
<1>6. PICK a \in s : h[s] = f[a] + h[s \ {a}]
  <2>1. Any(s) \in s
    BY <1>4, AddsUpAt
  <2>2. h[s] = f[Any(s)] + h[s \ {Any(s)}]
    BY <1>4, AddsUpAt, Zenon
  <2> QED
    BY <2>1, <2>2, Zenon
<1>7. a # y
  BY <1>3, <1>6
<1>8. h[s \ {a}] = f[y] + h[(s \ {a}) \ {y}]
  BY <1>5, <1>7
<1>9. h[s \ {y}] = f[a] + h[(s \ {y}) \ {a}]
  BY <1>5, <1>7
<1>10. (s \ {a}) \ {y} = (s \ {y}) \ {a}
  OBVIOUS
<1> DEFINE r == h[(s \ {y}) \ {a}]
<1>11. f[a] \in Int /\ f[y] \in Int /\ r \in Int
  BY <1>4, AddsUpType
<1>12. h[s] = f[a] + (f[y] + r)
  BY <1>6, <1>8, <1>10, Zenon
<1>13. f[y] + h[s \ {y}] = f[y] + (f[a] + r)
  BY <1>9, Zenon
<1> HIDE DEF r
<1>14. f[a] + (f[y] + r) = f[y] + (f[a] + r)
  BY <1>11
<1> QED
  BY <1>3, <1>12, <1>13, <1>14, Zenon

\* The sum over no elements is 0.
LEMMA SumEmpty ==
    ASSUME NEW f
    PROVE  SumFunctionOnSet(f, {}) = 0
BY SumIs, AddsUpEmpty, FS_EmptySet

\* A sum of integers is an integer, and one of natural numbers a natural number.
LEMMA SumType ==
    ASSUME NEW f, NEW S, IsFiniteSet(S),
           NEW Typ, Typ \in {Int, Nat}, \A x \in S : f[x] \in Typ
    PROVE  SumFunctionOnSet(f, S) \in Typ
BY SumIs, AddsUpType

\* Equal summands have equal sums.
LEMMA SumAgree ==
    ASSUME NEW f, NEW g, NEW S, IsFiniteSet(S), \A x \in S : f[x] = g[x]
    PROVE  SumFunctionOnSet(f, S) = SumFunctionOnSet(g, S)
<1>1. PICK h : AddsUp(h, f, S) /\ SumFunctionOnSet(f, S) = h[S]
  BY SumIs
<1>2. PICK k : AddsUp(k, g, S) /\ SumFunctionOnSet(g, S) = k[S]
  BY SumIs
<1> QED
  BY <1>1, <1>2, AddsUpAgree

\* A new element adds its summand.
LEMMA SumAddElement ==
    ASSUME NEW f, NEW S, IsFiniteSet(S), NEW x, x \notin S,
           \A y \in S \cup {x} : f[y] \in Int
    PROVE  SumFunctionOnSet(f, S \cup {x}) = SumFunctionOnSet(f, S) + f[x]
<1> DEFINE T == S \cup {x}
<1>1. IsFiniteSet(T) /\ T \in SUBSET T /\ x \in T /\ S \subseteq T /\ S \in SUBSET T
  BY FS_AddElement
<1>2. T \ {x} = S
  OBVIOUS
<1>3. \A y \in T : f[y] \in Int
  OBVIOUS
<1> HIDE DEF T
<1>4. PICK h : AddsUp(h, f, T) /\ SumFunctionOnSet(f, T) = h[T]
  BY <1>1, SumIs
<1>5. PICK k : AddsUp(k, f, S) /\ SumFunctionOnSet(f, S) = k[S]
  BY SumIs
<1>6. h[T] = f[x] + h[S]
  BY <1>1, <1>2, <1>3, <1>4, AddsUpAnyOrder
<1>7. h[S] = k[S]
  BY <1>1, <1>4, <1>5, AddsUpAgree
<1>8. h[S] \in Int /\ f[x] \in Int
  BY <1>1, <1>3, <1>4, AddsUpType
<1> QED
  BY <1>4, <1>5, <1>6, <1>7, <1>8 DEF T

-----------------------------------------------------------------------------
(***************************************************************************)
(* Powers of the base of a byte.  That the recursive function exists is    *)
(* shown by tables of its first values.                                    *)
(***************************************************************************)

\* A table of the first n + 1 powers.
PowerTable(p, n) ==
    p = [k \in 0 .. n |-> IF k = 0 THEN 1 ELSE ByteBase * p[k - 1]]

\* What a table says of one power.
LEMMA TableAt ==
    ASSUME NEW n \in Nat, NEW p, PowerTable(p, n), NEW k \in 0 .. n
    PROVE  p[k] = IF k = 0 THEN 1 ELSE ByteBase * p[k - 1]
BY Zenon DEF PowerTable

\* Two tables agree on what both have.
LEMMA TablesAgree ==
    ASSUME NEW n \in Nat, NEW m \in Nat, NEW p, NEW q,
           PowerTable(p, n), PowerTable(q, m), NEW k \in Nat, k <= n, k <= m
    PROVE  p[k] = q[k]
<1> DEFINE T == {j \in Nat : j <= n /\ j <= m /\ p[j] # q[j]}
<1> SUFFICES ASSUME T # {} PROVE FALSE
  OBVIOUS
<1>1. PICK j \in T : \A i \in T : j <= i
  BY LeastNatural
<1>2. CASE j = 0
  <2>1. j \in 0 .. n /\ j \in 0 .. m
    BY <1>1
  <2>2. p[j] = 1 /\ q[j] = 1
    BY <1>2, <2>1, TableAt
  <2> QED
    BY <1>1, <2>2
<1>3. CASE j # 0
  <2>1. j \in 0 .. n /\ j \in 0 .. m /\ j - 1 \in Nat /\ j - 1 \notin T
    BY <1>1, <1>3
  <2>2. p[j - 1] = q[j - 1]
    BY <1>1, <2>1
  <2>3. p[j] = ByteBase * p[j - 1] /\ q[j] = ByteBase * q[j - 1]
    BY <1>3, <2>1, TableAt
  <2> QED
    BY <1>1, <2>2, <2>3
<1> QED
  BY <1>2, <1>3

\* There are tables of every size.
LEMMA TablesExist ==
    ASSUME NEW n \in Nat
    PROVE  \E p : PowerTable(p, n)
<1> DEFINE T == {j \in Nat : ~ \E p : PowerTable(p, j)}
<1> SUFFICES ASSUME T # {} PROVE FALSE
  OBVIOUS
<1>1. PICK j \in T : \A i \in T : j <= i
  BY LeastNatural
<1>2. CASE j = 0
  <2> DEFINE p == [k \in 0 .. 0 |-> 1]
  <2>1. PowerTable(p, 0)
    BY DEF PowerTable
  <2> QED
    BY <2>1, <1>2
<1>3. CASE j # 0
  <2>1. j - 1 \in Nat /\ j - 1 \notin T
    BY <1>1, <1>3
  <2>2. PICK p : PowerTable(p, j - 1)
    BY <2>1
  <2> DEFINE q == [k \in 0 .. j |-> IF k = j THEN ByteBase * p[j - 1] ELSE p[k]]
  <2>3. ASSUME NEW k \in 0 .. j PROVE q[k] = IF k = 0 THEN 1 ELSE ByteBase * q[k - 1]
    <3>1. CASE k = j
      BY <1>3, <2>1, <3>1
    <3>2. CASE k # j
      <4>1. k \in 0 .. j - 1
        BY <2>1, <3>2
      <4>2. p[k] = IF k = 0 THEN 1 ELSE ByteBase * p[k - 1]
        BY <2>1, <2>2, <4>1, TableAt
      <4> QED
        BY <4>1, <4>2, <2>1
    <3> QED
      BY <3>1, <3>2
  <2>4. q = [k \in 0 .. j |-> q[k]]
    OBVIOUS
  <2>5. PowerTable(q, j)
    <3> HIDE DEF q
    <3> QED
      BY <2>3, <2>4 DEF PowerTable
  <2> QED
    BY <2>5, <1>1
<1> QED
  BY <1>2, <1>3

\* The powers of the base satisfy their equation.
LEMMA PowerEquation ==
    Power = [k \in Nat |-> IF k = 0 THEN 1 ELSE ByteBase * Power[k - 1]]
<1> DEFINE table(n) == CHOOSE p : PowerTable(p, n)
           f == [k \in Nat |-> table(k)[k]]
<1>1. ASSUME NEW n \in Nat PROVE PowerTable(table(n), n)
  BY TablesExist
<1> HIDE DEF table
<1>2. ASSUME NEW k \in Nat PROVE f[k] = IF k = 0 THEN 1 ELSE ByteBase * f[k - 1]
  <2>1. PowerTable(table(k), k)
    BY <1>1
  <2>2. CASE k = 0
    BY <2>1, <2>2, TableAt
  <2>3. CASE k # 0
    <3>1. k - 1 \in Nat /\ k - 1 <= k /\ k - 1 <= k - 1
      BY <2>3
    <3>2. PowerTable(table(k - 1), k - 1)
      BY <3>1, <1>1
    <3>3. table(k)[k - 1] = table(k - 1)[k - 1]
      BY <2>1, <3>1, <3>2, TablesAgree
    <3>4. table(k)[k] = ByteBase * table(k)[k - 1]
      BY <2>1, <2>3, <3>1, TableAt
    <3> QED
      BY <2>3, <3>1, <3>3, <3>4
  <2> QED
    BY <2>2, <2>3
<1>3. f = [k \in Nat |-> f[k]]
  OBVIOUS
<1> HIDE DEF f
<1>4. f = [k \in Nat |-> IF k = 0 THEN 1 ELSE ByteBase * f[k - 1]]
  BY <1>2, <1>3
<1> QED
  BY <1>4 DEF Power

\* Each power is the base times the one below.
LEMMA PowerStep ==
    /\ Power[0] = 1
    /\ \A k \in Nat : Power[k + 1] = ByteBase * Power[k]
<1>1. ASSUME NEW k \in Nat PROVE Power[k] = IF k = 0 THEN 1 ELSE ByteBase * Power[k - 1]
  BY PowerEquation, Zenon
<1> QED
  BY <1>1

\* Powers are positive.
LEMMA PowerPositive == \A k \in Nat : Power[k] \in Nat \ {0}
<1> DEFINE T == {k \in Nat : Power[k] \notin Nat \ {0}}
<1> SUFFICES ASSUME T # {} PROVE FALSE
  OBVIOUS
<1>1. PICK j \in T : \A i \in T : j <= i
  BY LeastNatural
<1>2. j # 0
  BY <1>1, PowerStep
<1>3. j - 1 \in Nat /\ j - 1 \notin T /\ j = (j - 1) + 1
  BY <1>1, <1>2
<1>4. Power[j - 1] \in Nat \ {0}
  BY <1>3
<1>5. Power[j] = ByteBase * Power[j - 1]
  BY <1>3, PowerStep
<1>6. ASSUME NEW a \in Nat \ {0}, NEW b \in Nat \ {0} PROVE a * b \in Nat \ {0}
  BY <1>6
<1> QED
  BY <1>1, <1>4, <1>5, <1>6, ByteAssumption

\* Powers do not decrease.
LEMMA PowerMonotone ==
    ASSUME NEW j \in Nat, NEW k \in Nat, j <= k
    PROVE  Power[j] <= Power[k]
<1> DEFINE T == {i \in Nat : ~ (Power[j] <= Power[j + i])}
<1>1. T = {}
  <2> SUFFICES ASSUME T # {} PROVE FALSE
    OBVIOUS
  <2>1. PICK n \in T : \A i \in T : n <= i
    BY LeastNatural
  <2>2. n # 0
    <3>1. j + 0 = j /\ Power[j] \in Nat
      BY PowerPositive
    <3> QED
      BY <2>1, <3>1
  <2>3. n - 1 \in Nat /\ n - 1 \notin T /\ j + n = (j + (n - 1)) + 1 /\ j + (n - 1) \in Nat
    BY <2>1, <2>2
  <2>4. PICK p \in Nat : p = Power[j + (n - 1)]
    BY <2>3, PowerPositive
  <2>5. Power[j] <= p /\ Power[j] \in Nat
    BY <2>3, <2>4, PowerPositive
  <2>6. Power[j + n] = ByteBase * p
    BY <2>3, <2>4, PowerStep
  <2>7. ASSUME NEW b \in Nat \ {0} PROVE b * p >= p
    BY <2>7
  <2>8. Power[j + n] >= p /\ Power[j + n] \in Nat
    BY <2>1, <2>6, <2>7, ByteAssumption
  <2> QED
    BY <2>1, <2>5, <2>8
<1>2. k - j \in Nat /\ j + (k - j) = k
  OBVIOUS
<1>3. k - j \notin T
  BY <1>1
<1> HIDE DEF T
<1>4. Power[j] <= Power[j + (k - j)]
  BY <1>2, <1>3 DEF T
<1> QED
  BY <1>2, <1>4

\* The k-th power exceeds k.
LEMMA PowerExceeds == \A k \in Nat : k < Power[k]
<1> DEFINE T == {k \in Nat : ~ (k < Power[k])}
<1> SUFFICES ASSUME T # {} PROVE FALSE
  OBVIOUS
<1>1. PICK j \in T : \A i \in T : j <= i
  BY LeastNatural
<1>2. j # 0
  BY <1>1, PowerStep
<1>3. j - 1 \in Nat /\ j - 1 \notin T /\ j = (j - 1) + 1
  BY <1>1, <1>2
<1>4. j - 1 < Power[j - 1] /\ Power[j - 1] \in Nat
  BY <1>3, PowerPositive
<1>5. Power[j] = ByteBase * Power[j - 1]
  BY <1>3, PowerStep
<1>6. ASSUME NEW a \in Nat, NEW b \in Nat, b >= 2 PROVE b * a >= a + a
  BY <1>6
<1>7. Power[j] >= Power[j - 1] + Power[j - 1]
  BY <1>4, <1>5, <1>6, ByteAssumption
<1> QED
  BY <1>1, <1>2, <1>3, <1>4, <1>7, PowerPositive

-----------------------------------------------------------------------------
(***************************************************************************)
(* Digits and bytes.                                                       *)
(***************************************************************************)

\* Division with remainder.
LEMMA Division ==
    ASSUME NEW x \in Nat, NEW d \in Nat \ {0}
    PROVE  x \div d \in Nat /\ x % d \in 0 .. d - 1 /\ x = d * (x \div d) + (x % d)
OBVIOUS

\* There is only one way to divide with remainder.
LEMMA QuotientUnique ==
    ASSUME NEW x \in Nat, NEW d \in Nat \ {0}, NEW q \in Nat, NEW r \in 0 .. d - 1,
           x = d * q + r
    PROVE  x \div d = q
<1>1. PICK u \in Nat : u = x \div d
  BY Division
<1>2. PICK s \in 0 .. d - 1 : s = x % d
  BY Division
<1>3. x = d * u + s
  BY <1>1, <1>2, Division
<1>4. ASSUME NEW a \in Nat, NEW b \in Nat, a < b PROVE d * a + d <= d * b
  <2>1. PICK c \in Nat : b = a + 1 + c
    <3>1. b - a - 1 \in Nat /\ b = a + 1 + (b - a - 1)
      BY <1>4
    <3> QED
      BY <3>1
  <2>2. d * b = d * a + d + d * c
    BY <2>1
  <2>3. d * c \in Nat /\ d * a \in Nat
    OBVIOUS
  <2> QED BY <2>2, <2>3
<1>5. ~ (u < q)
  <2> SUFFICES ASSUME u < q PROVE FALSE
    OBVIOUS
  <2>1. d * u + d <= d * q
    BY <1>4
  <2>2. d * u \in Nat /\ d * q \in Nat
    OBVIOUS
  <2> QED BY <2>1, <2>2, <1>3
<1>6. ~ (q < u)
  <2> SUFFICES ASSUME q < u PROVE FALSE
    OBVIOUS
  <2>1. d * q + d <= d * u
    BY <1>4
  <2>2. d * u \in Nat /\ d * q \in Nat
    OBVIOUS
  <2> QED BY <2>1, <2>2, <1>3
<1> QED
  BY <1>1, <1>5, <1>6

\* A digit and the quotient above it make up the quotient.
LEMMA DigitStep ==
    ASSUME NEW x \in Nat, NEW k \in Nat
    PROVE  /\ x \div Power[k] \in Nat
           /\ x \div Power[k] =
                 ByteBase * (x \div Power[k + 1]) + ((x \div Power[k]) % ByteBase)
<1>1. PICK P \in Nat \ {0} : P = Power[k]
  BY PowerPositive
<1>2. PICK B \in Nat \ {0} : B = ByteBase
  BY ByteAssumption
<1>3. Power[k + 1] = B * P
  BY <1>1, <1>2, PowerStep
<1>4. PICK q \in Nat, r \in 0 .. P - 1 : q = x \div P /\ x = P * q + r
  BY Division
<1>5. PICK u \in Nat, s \in 0 .. B - 1 : u = q \div B /\ s = q % B /\ q = B * u + s
  BY Division
<1>6. x = (B * P) * u + (P * s + r)
  <2>1. P * q = P * (B * u) + P * s
    BY <1>5
  <2>2. P * (B * u) = (B * P) * u
    OBVIOUS
  <2> QED
    BY <1>4, <2>1, <2>2
<1>7. P * s + r \in 0 .. (B * P) - 1
  <2>1. P * s + P <= B * P
    <3>1. PICK c \in Nat : B = s + 1 + c
      <4>1. B - s - 1 \in Nat /\ B = s + 1 + (B - s - 1)
        OBVIOUS
      <4> QED
        BY <4>1
    <3>2. B * P = P * s + P + P * c /\ P * c \in Nat /\ P * s \in Nat
      BY <3>1
    <3> QED
      BY <3>2
  <2>2. P * s \in Nat /\ B * P \in Nat
    OBVIOUS
  <2> QED
    BY <2>1, <2>2
<1>8. x \div (B * P) = u
  <2>1. B * P \in Nat \ {0}
    OBVIOUS
  <2> QED
    BY <1>6, <1>7, <2>1, QuotientUnique
<1> QED
  BY <1>1, <1>2, <1>3, <1>4, <1>5, <1>8

\* Two numbers with the same n digits and nothing above them are the same.
LEMMA DigitsDetermine ==
    ASSUME NEW n \in Nat, NEW x \in Nat, NEW y \in Nat, x < Power[n], y < Power[n],
           \A k \in 0 .. n - 1 :
               (x \div Power[k]) % ByteBase = (y \div Power[k]) % ByteBase
    PROVE  x = y
<1> DEFINE T == {j \in Nat : j <= n /\ x \div Power[n - j] # y \div Power[n - j]}
<1>1. T = {}
  <2> SUFFICES ASSUME T # {} PROVE FALSE
    OBVIOUS
  <2>1. PICK j \in T : \A i \in T : j <= i
    BY LeastNatural
  <2>2. CASE j = 0
    <3>1. ASSUME NEW z \in Nat, z < Power[n] PROVE z \div Power[n] = 0
      <4>1. Power[n] \in Nat \ {0} /\ z \in 0 .. Power[n] - 1 /\ z = Power[n] * 0 + z
        BY <3>1, PowerPositive
      <4> QED
        BY <4>1, QuotientUnique
    <3>2. n - 0 = n
      OBVIOUS
    <3> QED
      BY <2>1, <2>2, <3>1, <3>2
  <2>3. CASE j # 0
    <3>1. j - 1 \in Nat /\ j - 1 <= n /\ j - 1 \notin T /\ n - j \in 0 .. n - 1 /\ n - j \in Nat
          /\ n - (j - 1) = (n - j) + 1
      BY <2>1, <2>3
    <3>2. x \div Power[(n - j) + 1] = y \div Power[(n - j) + 1]
      BY <3>1
    <3>3. (x \div Power[n - j]) % ByteBase = (y \div Power[n - j]) % ByteBase
      BY <3>1
    <3>4. x \div Power[n - j] = y \div Power[n - j]
      <4>1. ASSUME NEW z \in Nat
            PROVE  z \div Power[n - j] = ByteBase * (z \div Power[(n - j) + 1])
                                             + ((z \div Power[n - j]) % ByteBase)
        <5> HIDE DEF T
        <5> QED
          BY <3>1, DigitStep
      <4> HIDE DEF T
      <4> QED
        BY <3>2, <3>3, <4>1, Zenon
    <3> QED
      BY <2>1, <3>4
  <2> QED
    BY <2>2, <2>3
<1>2. n - n = 0 /\ n <= n
  OBVIOUS
<1>3. x \div Power[n - n] = y \div Power[n - n]
  <2> SUFFICES ASSUME x \div Power[n - n] # y \div Power[n - n] PROVE n \in T
    BY <1>1
  <2> QED
    BY <1>2, Zenon
<1>4. ASSUME NEW z \in Nat PROVE z \div Power[0] = z
  BY PowerStep
<1> QED
  BY <1>2, <1>3, <1>4

\* ByteLen is the number of digits.
LEMMA ByteLenSound ==
    ASSUME NEW n \in Nat
    PROVE  /\ ByteLen(n) \in Nat
           /\ n < Power[ByteLen(n)]
           /\ ByteLen(n) > 0 => Power[ByteLen(n) - 1] <= n
<1> DEFINE T == {k \in Nat : n < Power[k]}
<1>1. n \in T
  BY PowerExceeds
<1>2. PICK k \in T : \A i \in T : k <= i
  BY <1>1, LeastNatural
<1>3. k \in 0 .. n /\ n < Power[k]
  BY <1>1, <1>2
<1>4. ASSUME k > 0 PROVE Power[k - 1] <= n
  <2>1. k - 1 \in Nat /\ k - 1 \notin T
    BY <1>2, <1>3, <1>4
  <2>2. Power[k - 1] \in Nat
    BY <2>1, PowerPositive
  <2> QED
    BY <2>1, <2>2
<1>5. \E i \in 0 .. n : n < Power[i] /\ (i > 0 => Power[i - 1] <= n)
  BY <1>3, <1>4
<1>6. ByteLen(n) \in 0 .. n /\ n < Power[ByteLen(n)]
      /\ (ByteLen(n) > 0 => Power[ByteLen(n) - 1] <= n)
  BY <1>5, Zenon DEF ByteLen
<1> QED
  BY <1>6

\* BigBytes gives an array of ByteLen bytes.
LEMMA BigBytesType ==
    ASSUME NEW n \in Nat
    PROVE  BigBytes(n) \in Seq(Byte) /\ Len(BigBytes(n)) = ByteLen(n)
<1>1. ByteLen(n) \in Nat
  BY ByteLenSound
<1>2. ASSUME NEW i \in 1 .. ByteLen(n)
      PROVE  (n \div Power[ByteLen(n) - i]) % ByteBase \in Byte
  <2>1. ByteLen(n) - i \in Nat
    BY <1>1
  <2>2. n \div Power[ByteLen(n) - i] \in Nat
    BY <2>1, DigitStep
  <2> QED
    BY <2>2, Division, ByteAssumption DEF Byte
<1>3. BigBytes(n) \in [1 .. ByteLen(n) -> Byte]
  BY <1>2 DEF BigBytes
<1> QED
  BY <1>1, <1>3

\* Different numbers have different bytes.
LEMMA BigBytesInjective ==
    ASSUME NEW n \in Nat, NEW m \in Nat, BigBytes(n) = BigBytes(m)
    PROVE  n = m
<1>1. PICK L \in Nat : L = ByteLen(n) /\ L = ByteLen(m)
  BY BigBytesType, ByteLenSound
<1>2. n < Power[L] /\ m < Power[L]
  BY <1>1, ByteLenSound
<1>3. ASSUME NEW k \in 0 .. L - 1
      PROVE  (n \div Power[k]) % ByteBase = (m \div Power[k]) % ByteBase
  <2>1. L - k \in 1 .. L /\ L - (L - k) = k
    BY <1>1
  <2>2. BigBytes(n)[L - k] = BigBytes(m)[L - k]
    OBVIOUS
  <2>3. /\ BigBytes(n)[L - k] = (n \div Power[L - (L - k)]) % ByteBase
        /\ BigBytes(m)[L - k] = (m \div Power[L - (L - k)]) % ByteBase
    BY <1>1, <2>1 DEF BigBytes
  <2> QED
    BY <2>1, <2>2, <2>3
<1> QED
  BY <1>2, <1>3, DigitsDetermine

\* A number fits into n bytes when it is below the n-th power.
LEMMA ByteLenBound ==
    ASSUME NEW n \in Nat, NEW v \in Nat, v < Power[n]
    PROVE  ByteLen(v) <= n
<1> SUFFICES ASSUME ~ (ByteLen(v) <= n) PROVE FALSE
  OBVIOUS
<1>1. ByteLen(v) \in Nat /\ ByteLen(v) > 0 /\ Power[ByteLen(v) - 1] <= v
  BY ByteLenSound
<1>2. ByteLen(v) - 1 \in Nat /\ n <= ByteLen(v) - 1
  BY <1>1
<1>3. Power[n] <= Power[ByteLen(v) - 1]
  BY <1>2, PowerMonotone
<1> QED
  BY <1>1, <1>2, <1>3, PowerPositive

\* The bytes of a number behind n - ByteLen(v) zeros are its n lowest digits.
LEMMA PaddedDigits ==
    ASSUME NEW n \in Nat, NEW v \in Nat, v < Power[n],
           NEW w, w = [i \in 1 .. n - Len(BigBytes(v)) |-> 0] \o BigBytes(v)
    PROVE  /\ w \in Seq(Byte)
           /\ Len(w) = n
           /\ \A k \in 0 .. n - 1 : w[n - k] = (v \div Power[k]) % ByteBase
<1>1. PICK L \in Nat : L = ByteLen(v) /\ L <= n
  BY ByteLenSound, ByteLenBound
<1>2. PICK Z \in Nat : Z = n - L /\ n = Z + L
  BY <1>1
<1>3. PICK b \in Seq(Byte) : b = BigBytes(v) /\ Len(b) = L
  BY <1>1, BigBytesType
<1>4. PICK z \in Seq(Byte) : z = [i \in 1 .. Z |-> 0] /\ Len(z) = Z
  <2>1. 0 \in Byte
    BY ByteAssumption DEF Byte
  <2> DEFINE zeros == [i \in 1 .. Z |-> 0]
  <2>2. zeros \in [1 .. Z -> Byte]
    BY <2>1
  <2>3. zeros = [i \in 1 .. Z |-> 0]
    OBVIOUS
  <2> HIDE DEF zeros
  <2>4. zeros \in Seq(Byte) /\ Len(zeros) = Z
    BY <2>2
  <2> QED
    BY <2>3, <2>4
<1>5. w = z \o b
  BY <1>2, <1>3, <1>4
<1>6. /\ w \in Seq(Byte)
      /\ Len(w) = Z + L
      /\ \A i \in 1 .. Z + L : w[i] = IF i <= Z THEN z[i] ELSE b[i - Z]
  <2>1. /\ z \o b \in Seq(Byte)
        /\ Len(z \o b) = Len(z) + Len(b)
        /\ \A i \in 1 .. Len(z) + Len(b) :
              (z \o b)[i] = IF i <= Len(z) THEN z[i] ELSE b[i - Len(z)]
    BY ConcatProperties
  <2> QED
    BY <1>3, <1>4, <1>5, <2>1, Zenon
<1>7. ASSUME NEW k \in 0 .. n - 1 PROVE w[n - k] = (v \div Power[k]) % ByteBase
  <2>1. n - k \in 1 .. Z + L /\ k \in Nat
    BY <1>2
  <2>2. CASE n - k <= Z
    <3>1. w[n - k] = 0
      <4>1. n - k \in 1 .. Z
        BY <2>1, <2>2
      <4>2. w[n - k] = z[n - k]
        BY <1>6, <2>1, <2>2
      <4>3. z[n - k] = 0
        BY <1>4, <4>1
      <4> QED
        BY <4>2, <4>3
    <3>2. L <= k
      BY <1>2, <2>1, <2>2
    <3>3. Power[L] <= Power[k] /\ v < Power[L]
      BY <1>1, <2>1, <3>2, PowerMonotone, ByteLenSound
    <3>4. PICK d \in Nat \ {0} : d = Power[k]
      BY <2>1, PowerPositive
    <3>5. v \in 0 .. d - 1 /\ v = d * 0 + v
      BY <1>1, <3>3, <3>4, PowerPositive
    <3>6. v \div d = 0
      BY <3>5, QuotientUnique
    <3>7. 0 % ByteBase = 0
      BY ByteAssumption
    <3> QED
      BY <3>1, <3>4, <3>6, <3>7
  <2>3. CASE ~ (n - k <= Z)
    <3>1. (n - k) - Z \in 1 .. L /\ L - ((n - k) - Z) = k
      BY <1>2, <2>1, <2>3
    <3>2. w[n - k] = b[(n - k) - Z]
      BY <1>6, <2>1, <2>3
    <3>3. BigBytes(v)[(n - k) - Z] = (v \div Power[L - ((n - k) - Z)]) % ByteBase
      BY <1>1, <3>1, Zenon DEF BigBytes
    <3> QED
      BY <1>3, <3>1, <3>2, <3>3
  <2> QED
    BY <2>2, <2>3
<1>8. Len(w) = n
  BY <1>2, <1>6
<1> QED
  BY <1>6, <1>7, <1>8

\* e is a followed by b.
Joins(e, a, b) == e = a \o b

\* Two arrays put together can be told apart again when the width of one is known.
LEMMA JoinSplits ==
    ASSUME NEW a \in Seq(Byte), NEW b \in Seq(Byte),
           NEW c \in Seq(Byte), NEW d \in Seq(Byte),
           Len(a) = Len(c) \/ Len(b) = Len(d),
           NEW e, Joins(e, a, b), Joins(e, c, d)
    PROVE  a = c /\ b = d
<1>0. a \o b = c \o d
  BY DEF Joins
<1>1. /\ Len(a \o b) = Len(a) + Len(b)
      /\ \A i \in 1 .. Len(a) + Len(b) :
            (a \o b)[i] = IF i <= Len(a) THEN a[i] ELSE b[i - Len(a)]
  BY ConcatProperties
<1>2. /\ Len(c \o d) = Len(c) + Len(d)
      /\ \A i \in 1 .. Len(c) + Len(d) :
            (c \o d)[i] = IF i <= Len(c) THEN c[i] ELSE d[i - Len(c)]
  BY ConcatProperties
<1>3. Len(a) = Len(c) /\ Len(b) = Len(d) /\ Len(a) \in Nat /\ Len(b) \in Nat
  BY <1>0, <1>1, <1>2
<1>4. ASSUME NEW i \in 1 .. Len(a) PROVE a[i] = c[i]
  <2>1. i \in 1 .. Len(a) + Len(b) /\ i <= Len(a)
    BY <1>3
  <2> QED
    BY <1>0, <1>1, <1>2, <1>3, <2>1
<1>5. ASSUME NEW i \in 1 .. Len(b) PROVE b[i] = d[i]
  <2>1. Len(a) + i \in 1 .. Len(a) + Len(b) /\ ~ (Len(a) + i <= Len(a))
        /\ (Len(a) + i) - Len(a) = i
    BY <1>3
  <2>2. (a \o b)[Len(a) + i] = b[i]
    BY <1>1, <2>1
  <2>3. (c \o d)[Len(a) + i] = d[i]
    BY <1>2, <1>3, <2>1
  <2> QED
    BY <1>0, <2>2, <2>3
<1> QED
  BY <1>3, <1>4, <1>5, SeqEqual

=============================================================================
