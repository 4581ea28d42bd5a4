----------------------------- MODULE JsonTreeProofs -----------------------------
(***************************************************************************)
(* Proofs about JsonTree: on a heap of any size the pointers stay good.    *)
(* The inductive invariant TreeInv says that the heap has a shape: lists   *)
(* of children k, one for each item, that the pointers follow, in which    *)
(* every item is once or, if it is the caller's or lost, not at all.  That *)
(* the walks of the model find those lists is shown first (ListOfChain,    *)
(* FreedItems, WaysDown: each solves a recursion); then one lemma per      *)
(* surgery says what it makes of a shape (Appending, Unlinking, Replacing, *)
(* Freeing, Grafting...); the actions follow from these.  The last part    *)
(* shows that the lists go as JsonForest says.                             *)
(***************************************************************************)
EXTENDS JsonTree, SequenceFacts

-----------------------------------------------------------------------------
(***************************************************************************)
(* Recursion on numbers, and what is reached from a set in steps           *)
(***************************************************************************)

\* A function on the numbers may be defined by its first value and by what it makes
\* of the value before.
LEMMA RecursionSolves ==
  ASSUME NEW S, NEW a \in S, NEW g \in [S -> S]
  PROVE  \E f \in [Nat -> S] : f[0] = a /\ \A n \in Nat : f[n + 1] = g[f[n]]
<1> DEFINE Upto(n, f) == /\ f \in [0 .. n -> S] /\ f[0] = a
                         /\ \A m \in Nat : m < n => f[m + 1] = g[f[m]]
           Bad == {n \in Nat : ~ \E f : Upto(n, f)}
<1>1. Bad = {}
  <2> SUFFICES ASSUME Bad # {} PROVE FALSE
    OBVIOUS
  <2>1. PICK n \in Bad : \A m \in Bad : n <= m
    <3>1. Bad \in SUBSET Nat
      OBVIOUS
    <3> HIDE DEF Bad
    <3>2. QED
      BY <3>1, Least
  <2>2. n \in Nat /\ ~ \E f : Upto(n, f)
    BY <2>1
  <2>3. n # 0
    <3>1. SUFFICES ASSUME n = 0 PROVE Upto(n, [i \in 0 .. 0 |-> a])
      BY <2>2
    <3>2. \A m \in Nat : ~(m < 0)
      OBVIOUS
    <3>3. QED
      BY <3>1, <3>2
  <2>4. n - 1 \in Nat /\ n - 1 \notin Bad
    <3>1. n - 1 \in Nat /\ ~(n <= n - 1)
      BY <2>2, <2>3
    <3> HIDE DEF Bad
    <3>2. QED
      BY <2>1, <3>1
  <2>5. PICK f : Upto(n - 1, f)
    BY <2>4
  <2> DEFINE h == [i \in 0 .. n |-> IF i = n THEN g[f[n - 1]] ELSE f[i]]
  <2>6. \A i \in 0 .. n : i # n => i \in 0 .. n - 1
    BY <2>2
  <2>7. n - 1 \in 0 .. n - 1 /\ f[n - 1] \in S
    BY <2>2, <2>4, <2>5
  <2>8. h \in [0 .. n -> S]
    BY <2>5, <2>6, <2>7
  <2>9. h[0] = a
    BY <2>2, <2>3, <2>5
  <2>10. ASSUME NEW m \in Nat, m < n PROVE h[m + 1] = g[h[m]]
    <3>1. m \in 0 .. n /\ m # n /\ m + 1 \in 0 .. n
      BY <2>2, <2>10
    <3>2. CASE m + 1 = n
      <4>1. m = n - 1
        BY <2>2, <3>2
      <4>2. QED
        BY <3>1, <3>2, <4>1
    <3>3. CASE m + 1 # n
      <4>1. m < n - 1
        BY <2>2, <2>10, <3>3
      <4>2. f[m + 1] = g[f[m]]
        BY <2>5, <4>1
      <4>3. QED
        BY <3>1, <3>3, <4>2
    <3>4. QED
      BY <3>2, <3>3
  <2> HIDE DEF h
  <2>11. Upto(n, h)
    BY <2>8, <2>9, <2>10
  <2>12. QED
    BY <2>2, <2>11
<1>2. ASSUME NEW n \in Nat, NEW m \in Nat, NEW f, NEW e, Upto(n, f), Upto(m, e)
      PROVE  \A i \in Nat : i <= n /\ i <= m => f[i] = e[i]
  <2> DEFINE Differ == {i \in Nat : i <= n /\ i <= m /\ f[i] # e[i]}
  <2> SUFFICES ASSUME Differ # {} PROVE FALSE
    OBVIOUS
  <2>1. PICK i \in Differ : \A j \in Differ : i <= j
    <3>1. Differ \in SUBSET Nat
      OBVIOUS
    <3> HIDE DEF Differ
    <3>2. QED
      BY <3>1, Least
  <2>2. i \in Nat /\ i <= n /\ i <= m /\ f[i] # e[i]
    BY <2>1
  <2>3. i # 0
    BY <1>2, <2>2
  <2>4. i - 1 \in Nat /\ i - 1 <= n /\ i - 1 <= m /\ i - 1 < n /\ i - 1 < m /\ i - 1 + 1 = i /\ ~(i <= i - 1)
    BY <2>2, <2>3
  <2>5. f[i - 1] = e[i - 1]
    BY <2>1, <2>4
  <2>6. f[i] = g[f[i - 1]] /\ e[i] = g[e[i - 1]]
    <3> DEFINE j == i - 1
    <3>1. j \in Nat /\ j < n /\ j < m /\ j + 1 = i
      BY <2>4
    <3> HIDE DEF j
    <3>2. f[j + 1] = g[f[j]] /\ e[j + 1] = g[e[j]]
      BY <1>2, <3>1
    <3>3. QED
      BY <3>1, <3>2 DEF j
  <2>7. QED
    BY <2>2, <2>5, <2>6
<1> DEFINE Some(n) == CHOOSE f : Upto(n, f)
           F == [n \in Nat |-> Some(n)[n]]
<1>3. ASSUME NEW n \in Nat PROVE Upto(n, Some(n))
  <2>1. \E f : Upto(n, f)
    BY <1>1
  <2> HIDE DEF Upto
  <2>2. QED
    BY <2>1, Zenon
<1> HIDE DEF Some, Bad
<1>4. ASSUME NEW n \in Nat PROVE F[n] \in S
  <2>1. n \in 0 .. n
    OBVIOUS
  <2>2. QED
    BY <1>3, <2>1
<1>5. F[0] = a
  BY <1>3
<1>6. ASSUME NEW n \in Nat PROVE F[n + 1] = g[F[n]]
  <2>1. n + 1 \in Nat /\ n < n + 1 /\ n <= n + 1 /\ n <= n
    OBVIOUS
  <2>2. Upto(n, Some(n)) /\ Upto(n + 1, Some(n + 1))
    BY <1>3, <2>1
  <2>3. Some(n + 1)[n + 1] = g[Some(n + 1)[n]]
    BY <2>1, <2>2
  <2> HIDE DEF Upto
  <2>4. Some(n + 1)[n] = Some(n)[n]
    BY <1>2, <2>1, <2>2
  <2>5. F[n + 1] = Some(n + 1)[n + 1] /\ F[n] = Some(n)[n]
    BY <2>1
  <2>6. QED
    BY <2>3, <2>4, <2>5
<1>7. QED
  <2>1. F \in [Nat -> S]
    BY <1>4
  <2> HIDE DEF F
  <2>2. QED
    BY <1>5, <1>6, <2>1

\* After as many steps as there are elements, nothing new is reached: the set
\* reached from `a' by d is closed, and in every closed set that a is in.
Spreads(D, d, a, f) ==
  /\ f \in [Nat -> SUBSET D] /\ f[0] = a
  /\ \A n \in Nat : f[n + 1] = f[n] \cup UNION {d[y] : y \in f[n]}

Reached(D, d, a, F) ==
  /\ F \in SUBSET D /\ a \subseteq F
  /\ \A y \in F : d[y] \subseteq F
  /\ \A T : a \subseteq T /\ (\A y \in T \cap D : d[y] \subseteq T) => F \subseteq T

LEMMA Closure ==
  ASSUME NEW D, IsFiniteSet(D), NEW d \in [D -> SUBSET D], NEW a \in SUBSET D, a # {},
         NEW f, Spreads(D, d, a, f)
  PROVE  Reached(D, d, a, f[Cardinality(D)])
<1>0. f \in [Nat -> SUBSET D] /\ f[0] = a /\ \A n \in Nat : f[n + 1] = f[n] \cup UNION {d[y] : y \in f[n]}
  BY DEF Spreads
<1> DEFINE N == Cardinality(D)
<1>1. N \in Nat
  BY FS_CardinalityType
<1>2. \A n \in Nat : f[n] \in SUBSET D /\ IsFiniteSet(f[n]) /\ Cardinality(f[n]) \in Nat /\ Cardinality(f[n]) <= N
  <2> SUFFICES ASSUME NEW n \in Nat
               PROVE  f[n] \in SUBSET D /\ IsFiniteSet(f[n]) /\ Cardinality(f[n]) \in Nat /\ Cardinality(f[n]) <= N
    OBVIOUS
  <2>1. f[n] \in SUBSET D
    BY <1>0
  <2>2. QED
    BY <2>1, FS_Subset, FS_CardinalityType
<1> HIDE DEF N
<1>3. ASSUME NEW T, a \subseteq T, \A y \in T \cap D : d[y] \subseteq T, NEW n \in Nat PROVE f[n] \subseteq T
  <2> DEFINE Bad == {m \in Nat : ~(f[m] \subseteq T)}
  <2> SUFFICES ASSUME Bad # {} PROVE FALSE
    OBVIOUS
  <2>1. PICK m \in Bad : \A l \in Bad : m <= l
    <3>1. Bad \in SUBSET Nat
      OBVIOUS
    <3> HIDE DEF Bad
    <3>2. QED
      BY <3>1, Least
  <2>2. m \in Nat /\ ~(f[m] \subseteq T)
    BY <2>1
  <2>3. m # 0
    BY <1>0, <1>3, <2>2
  <2> DEFINE l == m - 1
  <2>4. l \in Nat /\ l + 1 = m /\ ~(m <= l)
    BY <2>2, <2>3
  <2> HIDE DEF l
  <2>5. f[l] \subseteq T
    BY <2>1, <2>4
  <2>6. f[m] = f[l] \cup UNION {d[y] : y \in f[l]}
    BY <1>0, <2>4
  <2>7. \A y \in f[l] : d[y] \subseteq T
    BY <1>2, <1>3, <2>4, <2>5
  <2>8. QED
    BY <2>2, <2>5, <2>6, <2>7
<1>4. \A n \in Nat : f[n] \subseteq f[n + 1]
  BY <1>0
<1>5. \A n \in Nat : f[n] # f[n + 1] => Cardinality(f[n]) + 1 <= Cardinality(f[n + 1])
  <2> SUFFICES ASSUME NEW n \in Nat, f[n] # f[n + 1] PROVE Cardinality(f[n]) + 1 <= Cardinality(f[n + 1])
    OBVIOUS
  <2>1. n + 1 \in Nat
    OBVIOUS
  <2> DEFINE A == f[n]
             B == f[n + 1]
  <2>2. IsFiniteSet(A) /\ IsFiniteSet(B) /\ A \in SUBSET B /\ A # B /\ Cardinality(A) \in Nat /\ Cardinality(B) \in Nat
    BY <1>2, <1>4, <2>1
  <2> HIDE DEF A, B
  <2>3. Cardinality(A) <= Cardinality(B) /\ Cardinality(A) # Cardinality(B)
    BY <2>2, FS_Subset
  <2>4. Cardinality(A) + 1 <= Cardinality(B)
    BY <2>2, <2>3
  <2>5. QED
    BY <2>4 DEF A, B
\* When a step adds nothing, no later one does.
<1>6. ASSUME NEW n \in Nat, f[n] = f[n + 1] PROVE \A y \in f[n] : d[y] \subseteq f[n]
  BY <1>0, <1>6
<1>8. ASSUME NEW k \in Nat PROVE a \subseteq f[k]
  <2> DEFINE Bad == {j \in Nat : ~(a \subseteq f[j])}
  <2> SUFFICES ASSUME Bad # {} PROVE FALSE
    OBVIOUS
  <2>1. PICK j \in Bad : \A l \in Bad : j <= l
    <3>1. Bad \in SUBSET Nat
      OBVIOUS
    <3> HIDE DEF Bad
    <3>2. QED
      BY <3>1, Least
  <2>2. j \in Nat /\ ~(a \subseteq f[j]) /\ j # 0
    BY <1>0, <2>1
  <2> DEFINE l == j - 1
  <2>3. l \in Nat /\ l + 1 = j /\ ~(j <= l)
    BY <2>2
  <2> HIDE DEF l
  <2>4. a \subseteq f[l]
    BY <2>1, <2>3
  <2>5. QED
    BY <1>4, <2>2, <2>3, <2>4
<1>7. f[N] = f[N + 1]
  <2> DEFINE Grown == {n \in Nat : n <= N + 1 /\ ~(n + 1 <= Cardinality(f[n]))}
  <2> SUFFICES ASSUME f[N] # f[N + 1] PROVE FALSE
    OBVIOUS
  <2>1. N + 1 \in Grown
    <3>1. N + 1 \in Nat
      BY <1>1
    <3>2. Cardinality(f[N + 1]) \in Nat /\ Cardinality(f[N + 1]) <= N
      BY <1>2, <3>1
    <3>3. QED
      BY <1>1, <3>1, <3>2
  <2>2. PICK n \in Grown : \A m \in Grown : n <= m
    <3>1. Grown \in SUBSET Nat
      OBVIOUS
    <3> HIDE DEF Grown
    <3>2. QED
      BY <2>1, <3>1, Least
  <2>3. n \in Nat /\ n <= N + 1 /\ ~(n + 1 <= Cardinality(f[n]))
    BY <2>2
  <2>4. n # 0
    <3>1. Cardinality(a) \in Nat /\ Cardinality(a) # 0
      <4>1. IsFiniteSet(a)
        BY FS_Subset
      <4>2. QED
        BY <4>1, FS_CardinalityType, FS_EmptySet
    <3>2. SUFFICES ASSUME n = 0 PROVE FALSE
      OBVIOUS
    <3>3. Cardinality(f[n]) = Cardinality(a)
      BY <1>0, <3>2
    <3>4. QED
      BY <2>3, <3>1, <3>2, <3>3
  <2> DEFINE m == n - 1
  <2>5. m \in Nat /\ m + 1 = n /\ ~(n <= m) /\ m <= N /\ m <= N + 1
    BY <1>1, <2>3, <2>4
  <2> HIDE DEF m
  <2>6. m + 1 <= Cardinality(f[m])
    BY <2>2, <2>5
  <2>7. f[m] = f[n]
    <3>1. SUFFICES ASSUME f[m] # f[n] PROVE FALSE
      OBVIOUS
    <3>2. Cardinality(f[m]) + 1 <= Cardinality(f[n])
      BY <1>5, <2>5, <3>1
    <3>3. Cardinality(f[m]) \in Nat /\ Cardinality(f[n]) \in Nat
      BY <1>2, <2>3, <2>5
    <3>4. QED
      BY <2>3, <2>5, <2>6, <3>2, <3>3
  \* Then the set f[m] is closed, and f[N] and f[N + 1] are in it.
  <2>8. \A y \in f[m] \cap D : d[y] \subseteq f[m]
    BY <1>6, <2>5, <2>7
  <2>9. a \subseteq f[m]
    BY <1>8, <2>5
  <2>10. f[N + 1] \subseteq f[m]
    <3>1. N + 1 \in Nat
      BY <1>1
    <3>2. QED
      BY <1>3, <2>8, <2>9, <3>1
  <2>11. f[m] \subseteq f[N]
    <3> DEFINE Bad == {j \in Nat : m <= j /\ ~(f[m] \subseteq f[j])}
    <3> SUFFICES ASSUME Bad # {} PROVE FALSE
      BY <1>1, <2>5
    <3>1. PICK j \in Bad : \A l \in Bad : j <= l
      <4>1. Bad \in SUBSET Nat
        OBVIOUS
      <4> HIDE DEF Bad
      <4>2. QED
        BY <4>1, Least
    <3>2. j \in Nat /\ m <= j /\ ~(f[m] \subseteq f[j]) /\ j # m
      BY <3>1
    <3> DEFINE l == j - 1
    <3>3. l \in Nat /\ l + 1 = j /\ ~(j <= l) /\ m <= l
      BY <2>5, <3>2
    <3> HIDE DEF l
    <3>4. f[m] \subseteq f[l]
      BY <3>1, <3>3
    <3>5. QED
      BY <1>4, <3>2, <3>3, <3>4
  <2>12. QED
    BY <1>1, <1>4, <2>10, <2>11
<1>9. f[N] \in SUBSET D /\ \A y \in f[N] : d[y] \subseteq f[N]
  BY <1>1, <1>2, <1>6, <1>7
<1>10. \A T : a \subseteq T /\ (\A y \in T \cap D : d[y] \subseteq T) => f[N] \subseteq T
  BY <1>1, <1>3
<1>11. QED
  BY <1>1, <1>8, <1>9, <1>10 DEF N, Reached

-----------------------------------------------------------------------------
(***************************************************************************)
(* Lists                                                                   *)
(***************************************************************************)

FirstOf(s) == IF s = <<>> THEN Null ELSE s[1]

\* The items of s follow one another, the last one is followed by nothing.
Chained(h, s) ==
  \A i \in 1 .. Len(s) : h[s[i]].next = IF i = Len(s) THEN Null ELSE s[i + 1]

WalkStep(h, w, x, k) ==
  IF k = 0 THEN <<x>>
  ELSE IF Last(w[k - 1]) = Null THEN w[k - 1] ELSE Append(w[k - 1], h[Last(w[k - 1])].next)

Walk(h, x) == CHOOSE w : w = [k \in Nat |-> WalkStep(h, w, x, k)]

LEMMA ListFromIsWalk ==
  \A h, x : ListFrom(h, x) =
    LET all == Walk(h, x)[Cardinality(DOMAIN h) + 1]
    IN IF Last(all) = Null THEN Front(all) ELSE all
BY Zenon DEF ListFrom, Walk, WalkStep

LEMMA ListOfChain ==
  ASSUME NEW h, NEW s \in Seq(DOMAIN h), Null \notin DOMAIN h, Chained(h, s),
         Cardinality(DOMAIN h) \in Nat, Len(s) <= Cardinality(DOMAIN h) + 1
  PROVE  ListFrom(h, FirstOf(s)) = s
<1> DEFINE x == FirstOf(s)
           e == [k \in Nat |-> IF k < Len(s) THEN SubSeq(s, 1, k + 1) ELSE Append(s, Null)]
           Solves(w) == w = [k \in Nat |-> WalkStep(h, w, x, k)]
<1>1. Len(s) \in Nat /\ s \in Seq(DOMAIN h \cup {Null}) /\ \A i \in 1 .. Len(s) : s[i] \in DOMAIN h
  BY SeqMonotonic, ElementOfSeq, LenProperties
<1>2. /\ Len(Append(s, Null)) = Len(s) + 1 /\ Append(s, Null)[Len(s) + 1] = Null
      /\ \A i \in 1 .. Len(s) : Append(s, Null)[i] = s[i]
      /\ Append(s, Null) \in Seq(DOMAIN h \cup {Null})
  BY <1>1, AppendProperties
<1>3. ASSUME NEW k \in Nat, k < Len(s)
      PROVE  /\ SubSeq(s, 1, k + 1) \in Seq(DOMAIN h \cup {Null}) /\ Len(SubSeq(s, 1, k + 1)) = k + 1
             /\ \A i \in 1 .. k + 1 : SubSeq(s, 1, k + 1)[i] = s[i]
             /\ Last(SubSeq(s, 1, k + 1)) = s[k + 1]
  <2>1. k + 1 \in Nat /\ 1 <= k + 1 /\ k + 1 <= Len(s) /\ k + 1 \in 1 .. k + 1
    BY <1>1, <1>3
  <2> DEFINE m == k + 1
  <2>2. m \in Nat /\ 1 <= m /\ m <= Len(s) /\ m \in 1 .. m
    BY <2>1
  <2> HIDE DEF m
  <2>3. /\ SubSeq(s, 1, m) \in Seq(DOMAIN h \cup {Null}) /\ Len(SubSeq(s, 1, m)) = m
        /\ \A i \in 1 .. m : SubSeq(s, 1, m)[i] = s[i]
    BY <1>1, <2>2
  <2>4. QED
    BY <2>2, <2>3 DEF m, Last
<1>4. ASSUME NEW k \in Nat PROVE e[k] = WalkStep(h, e, x, k)
  <2>1. CASE k = 0
    <3>1. CASE s = <<>>
      <4>1. e[0] = <<Null>>
        BY <3>1
      <4>2. QED
        BY <2>1, <3>1, <4>1 DEF WalkStep, FirstOf
    <3>2. CASE s # <<>>
      <4>1. 0 < Len(s) /\ 0 + 1 = 1
        BY <1>1, <3>2
      <4>2. SubSeq(s, 1, 1) = <<s[1]>>
        <5> DEFINE b == SubSeq(s, 1, 1)
        <5>1. b \in Seq(DOMAIN h \cup {Null}) /\ Len(b) = 1 /\ b[1] = s[1]
          BY <1>1, <4>1
        <5> HIDE DEF b
        <5>2. b = <<s[1]>>
          BY <5>1
        <5>3. QED
          BY <5>2 DEF b
      <4>3. QED
        BY <2>1, <3>2, <4>1, <4>2 DEF WalkStep, FirstOf
    <3>3. QED
      BY <3>1, <3>2
  <2>2. CASE k # 0
    <3> DEFINE j == k - 1
    <3>1. j \in Nat /\ j + 1 = k
      BY <2>2
    <3> HIDE DEF j
    <3>2. WalkStep(h, e, x, k) = IF Last(e[j]) = Null THEN e[j] ELSE Append(e[j], h[Last(e[j])].next)
      BY <2>2 DEF WalkStep, j
    <3>3. CASE j < Len(s)
      <4>1. e[j] = SubSeq(s, 1, k) /\ Last(e[j]) = s[k] /\ k \in 1 .. Len(s)
        BY <1>1, <1>3, <3>1, <3>3
      <4>2. Last(e[j]) # Null
        BY <1>1, <4>1
      <4>3. WalkStep(h, e, x, k) = Append(SubSeq(s, 1, k), h[s[k]].next)
        BY <3>2, <4>1, <4>2
      <4> DEFINE b == SubSeq(s, 1, k)
      <4>4. b \in Seq(DOMAIN h \cup {Null}) /\ Len(b) = k /\ \A i \in 1 .. k : b[i] = s[i]
        BY <1>3, <3>1, <3>3
      <4> HIDE DEF b
      <4>5. CASE k = Len(s)
        <5>1. h[s[k]].next = Null /\ ~(k < Len(s))
          BY <4>1, <4>5 DEF Chained
        <5>2. b = s
          BY <1>1, <4>4, <4>5
        <5>3. QED
          BY <4>3, <5>1, <5>2 DEF b
      <4>6. CASE k # Len(s)
        <5>1. k < Len(s) /\ h[s[k]].next = s[k + 1]
          BY <1>1, <4>1, <4>6 DEF Chained
        <5>2. s[k + 1] \in DOMAIN h \cup {Null}
          BY <1>1, <5>1
        <5> DEFINE c == SubSeq(s, 1, k + 1)
                   n == s[k + 1]
        <5>3. c \in Seq(DOMAIN h \cup {Null}) /\ Len(c) = k + 1 /\ \A i \in 1 .. k + 1 : c[i] = s[i]
          BY <1>3, <5>1
        <5> HIDE DEF c
        <5>4. Append(b, n) = c
          <6>1. n \in DOMAIN h \cup {Null} /\ k \in Nat
            BY <5>2
          <6> HIDE DEF n
          <6>2. Append(b, n) \in Seq(DOMAIN h \cup {Null}) /\ Len(Append(b, n)) = k + 1
                /\ \A i \in 1 .. k : Append(b, n)[i] = b[i]
            BY <4>4, <6>1, AppendProperties
          <6>3. Append(b, n)[k + 1] = n
            BY <4>4, <6>1, AppendProperties
          <6>4. \A i \in 1 .. k + 1 : Append(b, n)[i] = c[i]
            <7> TAKE i \in 1 .. k + 1
            <7>1. CASE i = k + 1
              BY <5>3, <6>3, <7>1 DEF n
            <7>2. CASE i # k + 1
              <8>1. i \in 1 .. k
                BY <6>1, <7>2
              <8>2. QED
                BY <4>4, <5>3, <6>2, <8>1
            <7>3. QED
              BY <7>1, <7>2
          <6>5. QED
            BY <5>3, <6>2, <6>4, SeqEqual
        <5>5. QED
          BY <4>3, <5>1, <5>4 DEF b, c, n
      <4>7. QED
        BY <4>5, <4>6
    <3>4. CASE ~(j < Len(s))
      <4>1. e[j] = Append(s, Null) /\ e[k] = Append(s, Null)
        BY <1>1, <3>1, <3>4
      <4>2. Last(Append(s, Null)) = Null
        BY <1>2 DEF Last
      <4>3. QED
        BY <3>2, <4>1, <4>2
    <3>5. QED
      BY <3>3, <3>4
  <2>3. QED
    BY <2>1, <2>2
<1>5. Solves(e)
  <2>1. e = [k \in Nat |-> e[k]]
    OBVIOUS
  <2> HIDE DEF e
  <2>2. QED
    BY <1>4, <2>1
<1> DEFINE w == Walk(h, x)
<1>6. Solves(w)
  <2>1. w = CHOOSE v : Solves(v)
    BY Zenon DEF Walk
  <2> HIDE DEF Solves, w
  <2>2. QED
    BY <1>5, <2>1, Zenon
<1> HIDE DEF w, e
<1>7. \A k \in Nat : w[k] = WalkStep(h, w, x, k)
  BY <1>6
<1>8. \A k \in Nat : w[k] = e[k]
  <2> DEFINE Differ == {k \in Nat : w[k] # e[k]}
  <2> SUFFICES ASSUME Differ # {} PROVE FALSE
    OBVIOUS
  <2>1. PICK k \in Differ : \A i \in Differ : k <= i
    <3>1. Differ \in SUBSET Nat
      OBVIOUS
    <3> HIDE DEF Differ
    <3>2. QED
      BY <3>1, Least
  <2>2. k \in Nat /\ w[k] # e[k]
    BY <2>1
  <2>3. k # 0
    BY <1>4, <1>7, <2>2 DEF WalkStep
  <2>4. k - 1 \in Nat /\ ~(k <= k - 1)
    BY <2>2, <2>3
  <2>5. w[k - 1] = e[k - 1]
    BY <2>1, <2>4
  <2>6. WalkStep(h, w, x, k) = WalkStep(h, e, x, k)
    BY <2>3, <2>5 DEF WalkStep
  <2>7. QED
    BY <1>4, <1>7, <2>2, <2>6
<1> DEFINE n == Cardinality(DOMAIN h) + 1
<1>9. n \in Nat /\ ~(n < Len(s))
  BY <1>1
<1>10. ListFrom(h, x) = IF Last(w[n]) = Null THEN Front(w[n]) ELSE w[n]
  BY ListFromIsWalk, Zenon DEF w
<1> HIDE DEF n
<1>11. w[n] = Append(s, Null)
  BY <1>8, <1>9 DEF e
<1>12. Front(Append(s, Null)) = s
  <2>1. Len(s) + 1 - 1 = Len(s)
    BY <1>1
  <2>2. SubSeq(Append(s, Null), 1, Len(s)) = s
    BY <1>1, <1>2
  <2>3. QED
    BY <1>2, <2>1, <2>2 DEF Front
<1>13. Last(Append(s, Null)) = Null
  BY <1>2 DEF Last
<1>14. QED
  BY <1>10, <1>11, <1>12, <1>13

-----------------------------------------------------------------------------
(***************************************************************************)
(* The shape of the heap                                                   *)
(***************************************************************************)

Item == [next : Nodes \cup {Null}, prev : Nodes \cup {Null}, child : Nodes \cup {Null},
         string : Keys \cup {NoKey}, ref : BOOLEAN]

\* Each item of s knows the next one and the one before; the first knows the last.
Linked(h, s) ==
  \A i \in 1 .. Len(s) :
    /\ h[s[i]].next = IF i = Len(s) THEN Null ELSE s[i + 1]
    /\ h[s[i]].prev = s[IF i = 1 THEN Len(s) ELSE i - 1]

\* The list of p is s; a reference has none of its own.
HasList(h, p, s) ==
  IF h[p].ref THEN s = <<>>
  ELSE h[p].child = FirstOf(s) /\ Linked(h, s) /\ IsInjective(s)

\* What a reference shows is the list of an item that is no reference.
ShowsList(h, r) ==
  h[r].ref /\ h[r].child # Null => \E o \in DOMAIN h : ~h[o].ref /\ h[o].child = h[r].child

\* No item is in two lists.
OnePlace(k) == \A p, q \in DOMAIN k : \A x \in ToSet(k[p]) : x \in ToSet(k[q]) => p = q

\* Those at the top are in no list and point nowhere.
Loose(h, k, top) ==
  \A x \in top : h[x].next = Null /\ h[x].prev = Null /\ \A p \in DOMAIN k : x \notin ToSet(k[p])

\* All others are in a list.
Placed(k, top) == \A x \in DOMAIN k : x \notin top => \E p \in DOMAIN k : x \in ToSet(k[p])

\* The items of heap h have the lists k, and those of top are in none.
Shape(h, k, top) ==
  /\ DOMAIN h \subseteq Nodes /\ h \in [DOMAIN h -> Item]
  /\ k \in [DOMAIN h -> Seq(DOMAIN h)] /\ top \subseteq DOMAIN h
  /\ \A p \in DOMAIN h : HasList(h, p, k[p]) /\ ShowsList(h, p)
  /\ OnePlace(k) /\ Loose(h, k, top) /\ Placed(k, top)

\* Changes to the list of one item, which no reference shows, leave the shape.
LEMMA Surgery ==
  ASSUME NEW h, NEW k, NEW top, Shape(h, k, top),
         NEW p \in DOMAIN h, ~h[p].ref, ~Shown(h, p),
         NEW g \in [DOMAIN h -> Item],
         NEW t \in Seq(DOMAIN h), IsInjective(t), Linked(g, t),
         \A q \in DOMAIN h : /\ g[q].ref = h[q].ref
                             /\ g[q].child = IF q = p THEN FirstOf(t) ELSE h[q].child,
         \A y \in DOMAIN h : y \notin ToSet(k[p]) /\ y \notin ToSet(t) =>
                               g[y].next = h[y].next /\ g[y].prev = h[y].prev,
         \A y \in ToSet(t) : y \in ToSet(k[p]) \/ y \in top,
         \A y \in ToSet(k[p]) : y \notin ToSet(t) => g[y].next = Null /\ g[y].prev = Null
  PROVE  Shape(g, [k EXCEPT ![p] = t], (top \ ToSet(t)) \cup (ToSet(k[p]) \ ToSet(t)))
<1> DEFINE D == DOMAIN h
           l == [k EXCEPT ![p] = t]
           now == (top \ ToSet(t)) \cup (ToSet(k[p]) \ ToSet(t))
<1>1. /\ D \subseteq Nodes /\ h \in [D -> Item] /\ k \in [D -> Seq(D)] /\ top \subseteq D
      /\ \A q \in D : HasList(h, q, k[q]) /\ ShowsList(h, q)
      /\ OnePlace(k) /\ Loose(h, k, top) /\ Placed(k, top) /\ DOMAIN k = D
  BY DEF Shape
<1>2. \A q \in D : ToSet(k[q]) \subseteq D /\ Len(k[q]) \in Nat /\ DOMAIN k[q] = 1 .. Len(k[q])
  <2> TAKE q \in D
  <2>1. k[q] \in Seq(D)
    BY <1>1
  <2>2. QED
    BY <2>1, ElementOfSeq DEF ToSet
<1>3. ToSet(t) \subseteq D
  BY ElementOfSeq DEF ToSet
<1>4. l \in [D -> Seq(D)] /\ l[p] = t /\ \A q \in D : q # p => l[q] = k[q]
  BY <1>1
<1>5. now \subseteq D
  BY <1>1, <1>2
<1> HIDE DEF l
<1>6. ASSUME NEW q \in D PROVE HasList(g, q, l[q])
  <2>1. CASE q = p
    BY <1>4, <2>1 DEF HasList
  <2>2. CASE q # p
    <3>1. l[q] = k[q] /\ g[q].ref = h[q].ref /\ g[q].child = h[q].child
      BY <1>4, <2>2
    <3>2. CASE h[q].ref
      BY <1>1, <3>1, <3>2 DEF HasList
    <3>3. CASE ~h[q].ref
      <4>1. h[q].child = FirstOf(k[q]) /\ Linked(h, k[q]) /\ IsInjective(k[q])
        BY <1>1, <3>3 DEF HasList
      <4>2. ASSUME NEW i \in 1 .. Len(k[q])
            PROVE  g[k[q][i]].next = h[k[q][i]].next /\ g[k[q][i]].prev = h[k[q][i]].prev
        <5> DEFINE y == k[q][i]
        <5>1. y \in ToSet(k[q]) /\ y \in D
          BY <1>2 DEF ToSet
        <5>2. y \notin ToSet(k[p])
          BY <1>1, <2>2, <5>1 DEF OnePlace
        <5>3. y \notin top
          BY <1>1, <5>1 DEF Loose
        <5> HIDE DEF y
        <5>4. y \notin ToSet(t)
          BY <5>2, <5>3
        <5>5. g[y].next = h[y].next /\ g[y].prev = h[y].prev
          BY <5>1, <5>2, <5>4
        <5>6. QED
          BY <5>5 DEF y
      <4>3. Linked(g, k[q])
        <5> SUFFICES ASSUME NEW i \in 1 .. Len(k[q])
                     PROVE  /\ g[k[q][i]].next = IF i = Len(k[q]) THEN Null ELSE k[q][i + 1]
                            /\ g[k[q][i]].prev = k[q][IF i = 1 THEN Len(k[q]) ELSE i - 1]
          BY Zenon DEF Linked
        <5>1. /\ h[k[q][i]].next = IF i = Len(k[q]) THEN Null ELSE k[q][i + 1]
              /\ h[k[q][i]].prev = k[q][IF i = 1 THEN Len(k[q]) ELSE i - 1]
          BY <4>1, Zenon DEF Linked
        <5>2. QED
          BY <4>2, <5>1
      <4>4. QED
        BY <3>1, <3>3, <4>1, <4>3 DEF HasList
    <3>4. QED
      BY <3>2, <3>3
  <2>3. QED
    BY <2>1, <2>2
<1>7. ASSUME NEW r \in D PROVE ShowsList(g, r)
  <2> SUFFICES ASSUME g[r].ref, g[r].child # Null
               PROVE  \E o \in D : ~g[o].ref /\ g[o].child = g[r].child
    BY DEF ShowsList
  <2>1. h[r].ref /\ r # p /\ g[r].child = h[r].child
    OBVIOUS
  <2>2. PICK o \in D : ~h[o].ref /\ h[o].child = h[r].child
    BY <1>1, <2>1 DEF ShowsList
  <2>3. o # p
    BY <2>1, <2>2 DEF Shown
  <2>4. QED
    BY <2>1, <2>2, <2>3
<1>8. OnePlace(l)
  <2> SUFFICES ASSUME NEW a \in D, NEW b \in D, NEW x \in ToSet(l[a]), x \in ToSet(l[b]), a # b
               PROVE  FALSE
    BY <1>4 DEF OnePlace
  <2>1. ASSUME NEW q \in D, q # p, x \in ToSet(k[q]), x \in ToSet(t) PROVE FALSE
    <3>1. x \notin top
      BY <1>1, <2>1 DEF Loose
    <3>2. x \in ToSet(k[p])
      BY <2>1, <3>1
    <3>3. QED
      BY <1>1, <2>1, <3>2 DEF OnePlace
  <2>2. CASE a = p
    BY <1>4, <2>1, <2>2
  <2>3. CASE b = p
    BY <1>4, <2>1, <2>3
  <2>4. CASE a # p /\ b # p
    BY <1>1, <1>4, <2>4 DEF OnePlace
  <2>5. QED
    BY <2>2, <2>3, <2>4
<1>9. Loose(g, l, now)
  <2> SUFFICES ASSUME NEW x \in now
               PROVE  g[x].next = Null /\ g[x].prev = Null /\ \A q \in D : x \notin ToSet(l[q])
    BY <1>4 DEF Loose
  <2>1. x \notin ToSet(t) /\ x \in D
    BY <1>5
  <2>2. CASE x \in top
    <3>1. h[x].next = Null /\ h[x].prev = Null /\ \A q \in D : x \notin ToSet(k[q])
      BY <1>1, <2>2 DEF Loose
    <3>2. g[x].next = Null /\ g[x].prev = Null
      BY <2>1, <3>1
    <3>3. QED
      BY <1>4, <2>1, <3>1, <3>2
  <2>3. CASE x \notin top
    <3>1. x \in ToSet(k[p])
      BY <2>3
    <3>2. ASSUME NEW q \in D PROVE x \notin ToSet(l[q])
      BY <1>1, <1>4, <2>1, <3>1 DEF OnePlace
    <3>3. QED
      BY <2>1, <3>1, <3>2
  <2>4. QED
    BY <2>2, <2>3
<1>10. Placed(l, now)
  <2> SUFFICES ASSUME NEW x \in D, x \notin now PROVE \E q \in D : x \in ToSet(l[q])
    BY <1>4 DEF Placed
  <2>1. CASE x \in ToSet(t)
    BY <1>4, <2>1
  <2>2. CASE x \notin ToSet(t)
    <3>1. x \notin top /\ x \notin ToSet(k[p])
      BY <2>2
    <3>2. PICK q \in D : x \in ToSet(k[q])
      BY <1>1, <3>1 DEF Placed
    <3>3. q # p
      BY <3>1, <3>2
    <3>4. QED
      BY <1>4, <3>2, <3>3
  <2>3. QED
    BY <2>1, <2>2
<1> HIDE DEF now
<1>11. Shape(g, l, now)
  BY <1>1, <1>4, <1>5, <1>6, <1>7, <1>8, <1>9, <1>10 DEF Shape
<1>12. QED
  BY <1>11 DEF l, now

-----------------------------------------------------------------------------
(***************************************************************************)
(* What walking finds                                                      *)
(***************************************************************************)

LEMMA NoLonger ==
  ASSUME NEW D, IsFiniteSet(D), NEW s \in Seq(D), IsInjective(s)
  PROVE  Len(s) \in Nat /\ Cardinality(D) \in Nat /\ Len(s) <= Cardinality(D)
<1>1. Len(s) \in Nat /\ DOMAIN s = 1 .. Len(s) /\ s \in [1 .. Len(s) -> D]
  BY LenProperties
<1>2. IsFiniteSet(1 .. Len(s)) /\ Cardinality(1 .. Len(s)) = Len(s)
  <2>1. 1 \in Int /\ Len(s) \in Int
    BY <1>1
  <2>2. IsFiniteSet(1 .. Len(s)) /\ Cardinality(1 .. Len(s)) = IF 1 > Len(s) THEN 0 ELSE Len(s) - 1 + 1
    BY <2>1, FS_Interval
  <2>3. QED
    BY <1>1, <2>2
<1>3. s \in Injection(1 .. Len(s), D)
  BY <1>1 DEF Injection, IsInjective
<1> DEFINE I == 1 .. Len(s)
<1>4. s \in Injection(I, D)
  BY <1>3
<1> HIDE DEF I
<1>5. Cardinality(I) <= Cardinality(D)
  BY <1>4, FS_Injection
<1>6. QED
  BY <1>1, <1>2, <1>5, FS_CardinalityType DEF I

LEMMA HeapFacts ==
  ASSUME NEW h, NEW k, NEW top, Shape(h, k, top)
  PROVE  /\ IsFiniteSet(DOMAIN h) /\ Null \notin DOMAIN h /\ Cardinality(DOMAIN h) \in Nat
         /\ DOMAIN k = DOMAIN h /\ top \subseteq DOMAIN h
         /\ \A p \in DOMAIN h : /\ k[p] \in Seq(DOMAIN h) /\ IsInjective(k[p]) /\ ToSet(k[p]) \subseteq DOMAIN h
                                /\ Len(k[p]) \in Nat /\ Len(k[p]) <= Cardinality(DOMAIN h)
                                /\ DOMAIN k[p] = 1 .. Len(k[p])
                                /\ \A i \in 1 .. Len(k[p]) : k[p][i] \in DOMAIN h
<1>1. /\ DOMAIN h \subseteq Nodes /\ k \in [DOMAIN h -> Seq(DOMAIN h)] /\ top \subseteq DOMAIN h
      /\ \A p \in DOMAIN h : HasList(h, p, k[p])
  BY DEF Shape
<1>2. IsFiniteSet(DOMAIN h) /\ Null \notin DOMAIN h /\ Cardinality(DOMAIN h) \in Nat
  BY <1>1, JsonTreeAssumption, FS_Subset, FS_CardinalityType
<1>3. ASSUME NEW p \in DOMAIN h
      PROVE  /\ k[p] \in Seq(DOMAIN h) /\ IsInjective(k[p]) /\ ToSet(k[p]) \subseteq DOMAIN h
             /\ Len(k[p]) \in Nat /\ Len(k[p]) <= Cardinality(DOMAIN h)
             /\ DOMAIN k[p] = 1 .. Len(k[p])
             /\ \A i \in 1 .. Len(k[p]) : k[p][i] \in DOMAIN h
  <2>1. k[p] \in Seq(DOMAIN h)
    BY <1>1
  <2>2. IsInjective(k[p])
    <3>1. IsInjective(<<>>)
      BY DEF IsInjective
    <3>2. QED
      BY <1>1, <3>1 DEF HasList
  <2>3. Len(k[p]) \in Nat /\ DOMAIN k[p] = 1 .. Len(k[p]) /\ \A i \in 1 .. Len(k[p]) : k[p][i] \in DOMAIN h
    BY <2>1, LenProperties, ElementOfSeq
  <2>4. ToSet(k[p]) \subseteq DOMAIN h
    BY <2>3 DEF ToSet
  <2>5. QED
    BY <1>2, <2>1, <2>2, <2>3, <2>4, NoLonger
<1>4. QED
  BY <1>1, <1>2, <1>3

LEMMA LinkedIsChained == \A h, s : Linked(h, s) => Chained(h, s)
BY Zenon DEF Linked, Chained

\* Walking from a first child finds the list; from a reference, the list it shows.
LEMMA ChildrenFound ==
  ASSUME NEW h, NEW k, NEW top, Shape(h, k, top), NEW p \in DOMAIN h
  PROVE  /\ ~h[p].ref => Children(h, p) = k[p]
         /\ \E o \in DOMAIN h : Children(h, p) \in {<<>>, k[o]}
         /\ Children(h, p) \in Seq(DOMAIN h) /\ IsInjective(Children(h, p)) /\ Linked(h, Children(h, p))
         /\ h[p].child = FirstOf(Children(h, p))
<1> DEFINE D == DOMAIN h
<1>1. IsFiniteSet(D) /\ Null \notin D /\ Cardinality(D) \in Nat
  BY HeapFacts
<1>2. ASSUME NEW o \in D, ~h[o].ref
      PROVE  /\ ListFrom(h, h[o].child) = k[o] /\ k[o] \in Seq(D) /\ IsInjective(k[o]) /\ Linked(h, k[o])
             /\ h[o].child = FirstOf(k[o])
  <2>1. k[o] \in Seq(D) /\ IsInjective(k[o]) /\ Len(k[o]) \in Nat /\ Len(k[o]) <= Cardinality(D)
    BY HeapFacts
  <2>2. h[o].child = FirstOf(k[o]) /\ Linked(h, k[o])
    BY <1>2 DEF Shape, HasList
  <2>3. Chained(h, k[o])
    BY <2>2, LinkedIsChained
  <2>4. Len(k[o]) <= Cardinality(D) + 1
    BY <1>1, <2>1
  <2>5. ListFrom(h, FirstOf(k[o])) = k[o]
    BY <1>1, <2>1, <2>3, <2>4, ListOfChain
  <2>6. QED
    BY <2>1, <2>2, <2>5
<1>3. ListFrom(h, Null) = <<>>
  <2>1. <<>> \in Seq(D) /\ Len(<<>>) = 0 /\ 0 <= Cardinality(D) + 1 /\ FirstOf(<<>>) = Null
    BY <1>1 DEF FirstOf
  <2>2. Chained(h, <<>>)
    BY <2>1 DEF Chained
  <2>3. QED
    BY <1>1, <2>1, <2>2, ListOfChain
<1>4. <<>> \in Seq(D) /\ IsInjective(<<>>) /\ Linked(h, <<>>) /\ FirstOf(<<>>) = Null
  BY DEF IsInjective, Linked, FirstOf
<1>5. CASE ~h[p].ref
  BY <1>2, <1>5 DEF Children
<1>6. CASE h[p].ref
  <2>1. CASE h[p].child = Null
    BY <1>3, <1>4, <1>6, <2>1 DEF Children
  <2>2. CASE h[p].child # Null
    <3>1. PICK o \in D : ~h[o].ref /\ h[o].child = h[p].child
      BY <1>6, <2>2 DEF Shape, ShowsList
    <3>2. Children(h, p) = k[o]
      BY <1>2, <3>1 DEF Children
    <3>3. QED
      BY <1>2, <1>6, <3>1, <3>2
  <2>3. QED
    BY <2>1, <2>2
<1>7. QED
  BY <1>5, <1>6

-----------------------------------------------------------------------------
(***************************************************************************)
(* Sequences without repetition                                            *)
(***************************************************************************)

LEMMA AppendedList ==
  ASSUME NEW D, NEW s \in Seq(D), IsInjective(s), NEW x \in D, x \notin ToSet(s)
  PROVE  /\ Append(s, x) \in Seq(D) /\ IsInjective(Append(s, x))
         /\ ToSet(Append(s, x)) = ToSet(s) \cup {x}
         /\ Len(s) \in Nat /\ Len(Append(s, x)) = Len(s) + 1 /\ Append(s, x)[Len(s) + 1] = x
         /\ \A i \in 1 .. Len(s) : Append(s, x)[i] = s[i]
<1>1. /\ Append(s, x) \in Seq(D) /\ Len(s) \in Nat /\ Len(Append(s, x)) = Len(s) + 1
      /\ Append(s, x)[Len(s) + 1] = x /\ \A i \in 1 .. Len(s) : Append(s, x)[i] = s[i]
      /\ DOMAIN s = 1 .. Len(s)
  BY AppendProperties, LenProperties
<1> DEFINE t == Append(s, x)
           n == Len(s) + 1
<1>2. DOMAIN t = 1 .. n /\ n \in Nat /\ n >= 1 /\ n \in 1 .. n
  BY <1>1, LenProperties
<1>3. \A i \in 1 .. n : i = n \/ i \in 1 .. Len(s)
  BY <1>1
<1>4. \A i \in 1 .. Len(s) : i \in 1 .. n
  BY <1>1
<1>5. t[n] = x /\ \A i \in 1 .. Len(s) : t[i] = s[i]
  BY <1>1
<1> HIDE DEF t, n
<1>6. ToSet(t) = ToSet(s) \cup {x}
  BY <1>1, <1>2, <1>3, <1>4, <1>5 DEF ToSet
<1>7. IsInjective(t)
  <2> SUFFICES ASSUME NEW i \in 1 .. n, NEW j \in 1 .. n, t[i] = t[j] PROVE i = j
    BY <1>2 DEF IsInjective
  <2>1. \A m \in 1 .. Len(s) : s[m] # x
    BY <1>1 DEF ToSet
  <2>2. CASE i = n
    BY <1>3, <1>5, <2>1, <2>2
  <2>3. CASE j = n
    BY <1>3, <1>5, <2>1, <2>3
  <2>4. CASE i \in 1 .. Len(s) /\ j \in 1 .. Len(s)
    BY <1>1, <1>5, <2>4 DEF IsInjective
  <2>5. QED
    BY <1>3, <2>2, <2>3, <2>4
<1>8. QED
  BY <1>1, <1>6, <1>7 DEF t, n

LEMMA InsertedList ==
  ASSUME NEW D, NEW s \in Seq(D), IsInjective(s), NEW x \in D, x \notin ToSet(s), NEW j \in 1 .. Len(s)
  PROVE  /\ InsertAt(s, j, x) \in Seq(D) /\ IsInjective(InsertAt(s, j, x))
         /\ ToSet(InsertAt(s, j, x)) = ToSet(s) \cup {x}
         /\ Len(s) \in Nat /\ Len(InsertAt(s, j, x)) = Len(s) + 1
         /\ \A i \in 1 .. Len(s) + 1 :
              InsertAt(s, j, x)[i] = IF i < j THEN s[i] ELSE IF i = j THEN x ELSE s[i - 1]
<1> DEFINE t == InsertAt(s, j, x)
           n == Len(s) + 1
           a == SubSeq(s, 1, j - 1)
           b == SubSeq(s, j, Len(s))
<1>1. Len(s) \in Nat /\ DOMAIN s = 1 .. Len(s) /\ \A i \in 1 .. Len(s) : s[i] \in D
  BY LenProperties, ElementOfSeq
<1>2. j \in Nat /\ j >= 1 /\ j <= Len(s) /\ n \in Nat
  BY <1>1
<1>3. a \in Seq(D) /\ Len(a) = j - 1 /\ \A i \in 1 .. j - 1 : a[i] = s[i]
  <2>1. \A i \in 1 .. j - 1 : s[i] \in D
    BY <1>1, <1>2
  <2>2. 1 \in Int /\ j - 1 \in Int
    BY <1>2
  <2>3. CASE j = 1
    BY <1>1, <1>2, <2>3, SubSeqEmpty
  <2>4. CASE j # 1
    <3> DEFINE m == j - 1
    <3>1. m \in Nat /\ m >= 1 /\ m <= Len(s)
      BY <1>1, <1>2, <2>4
    <3> HIDE DEF m
    <3>2. SubSeq(s, 1, m) \in Seq(D) /\ Len(SubSeq(s, 1, m)) = m /\ \A i \in 1 .. m : SubSeq(s, 1, m)[i] = s[i]
      BY <1>1, <3>1
    <3>3. QED
      BY <3>2 DEF m
  <2>5. QED
    BY <2>3, <2>4
<1>4. b \in Seq(D) /\ Len(b) = Len(s) + 1 - j /\ \A i \in 1 .. Len(s) + 1 - j : b[i] = s[j - 1 + i]
  BY <1>1, <1>2
<1> HIDE DEF a, b
<1> DEFINE c == a \o <<x>>
<1>5. c \in Seq(D) /\ Len(c) = j /\ \A i \in 1 .. j : c[i] = IF i < j THEN s[i] ELSE x
  <2> DEFINE m == j - 1
  <2>1. m \in Nat /\ m + 1 = j /\ Len(a) = m /\ \A i \in 1 .. m : a[i] = s[i]
    BY <1>2, <1>3
  <2> HIDE DEF m
  <2>2. c = Append(a, x)
    BY <1>3, AppendIsConcat
  <2>3. /\ Append(a, x) \in Seq(D) /\ Len(Append(a, x)) = Len(a) + 1
        /\ \A i \in 1 .. Len(a) : Append(a, x)[i] = a[i]
        /\ Append(a, x)[Len(a) + 1] = x
    BY <1>3, AppendProperties
  <2> HIDE DEF c
  <2>4. c \in Seq(D) /\ Len(c) = j /\ c[j] = x /\ \A i \in 1 .. m : c[i] = s[i]
    BY <2>1, <2>2, <2>3
  <2>5. ASSUME NEW i \in 1 .. j PROVE c[i] = IF i < j THEN s[i] ELSE x
    <3>1. (i < j => i \in 1 .. m) /\ (~(i < j) => i = j)
      BY <1>2, <2>1
    <3>2. QED
      BY <2>4, <3>1
  <2>6. QED
    BY <2>4, <2>5
<1>6. t = c \o b
  BY Zenon DEF t, c, b, a, InsertAt
<1> HIDE DEF c, t
<1>7. t \in Seq(D) /\ Len(t) = n /\ \A i \in 1 .. n : t[i] = IF i <= j THEN c[i] ELSE b[i - j]
  <2>1. c \o b \in Seq(D) /\ Len(c \o b) = Len(c) + Len(b)
        /\ \A i \in 1 .. Len(c) + Len(b) : (c \o b)[i] = IF i <= Len(c) THEN c[i] ELSE b[i - Len(c)]
    BY <1>4, <1>5, ConcatProperties
  <2>2. Len(c) + Len(b) = n /\ Len(c) = j
    BY <1>1, <1>2, <1>4, <1>5
  <2>3. QED
    BY <1>6, <2>1, <2>2
<1>8. ASSUME NEW i \in 1 .. n PROVE t[i] = IF i < j THEN s[i] ELSE IF i = j THEN x ELSE s[i - 1]
  <2>1. CASE i <= j
    <3>1. i \in 1 .. j
      BY <1>2, <2>1
    <3>2. QED
      BY <1>2, <1>5, <1>7, <2>1, <3>1
  <2>2. CASE ~(i <= j)
    <3>1. i - j \in 1 .. Len(s) + 1 - j /\ j - 1 + (i - j) = i - 1 /\ ~(i < j) /\ i # j
      BY <1>1, <1>2, <2>2
    <3>2. b[i - j] = s[i - 1]
      <4> DEFINE m == i - j
      <4>1. m \in 1 .. Len(s) + 1 - j /\ j - 1 + m = i - 1
        BY <3>1
      <4> HIDE DEF m
      <4>2. QED
        BY <1>4, <4>1 DEF m
    <3>3. QED
      BY <1>7, <2>2, <3>1, <3>2
  <2>3. QED
    BY <2>1, <2>2
<1>9. DOMAIN t = 1 .. n
  BY <1>7, LenProperties
<1>10. \A i \in 1 .. Len(s) : IF i < j THEN i \in 1 .. n /\ t[i] = s[i]
                              ELSE i + 1 \in 1 .. n /\ t[i + 1] = s[i]
  <2> TAKE i \in 1 .. Len(s)
  <2>1. i \in 1 .. n /\ i + 1 \in 1 .. n /\ i + 1 - 1 = i
    BY <1>1
  <2>2. ~(i < j) => ~(i + 1 < j) /\ i + 1 # j
    BY <1>2
  <2>3. QED
    BY <1>8, <2>1, <2>2
<1>11. ToSet(t) = ToSet(s) \cup {x}
  <2>1. ASSUME NEW y \in ToSet(t) PROVE y \in ToSet(s) \cup {x}
    <3>1. PICK i \in 1 .. n : y = t[i]
      BY <1>9 DEF ToSet
    <3>2. i < j => i \in 1 .. Len(s)
      BY <1>1, <1>2
    <3>3. ~(i < j) /\ i # j => i - 1 \in 1 .. Len(s)
      BY <1>1, <1>2
    <3>4. QED
      BY <1>1, <1>8, <3>1, <3>2, <3>3 DEF ToSet
  <2>2. ToSet(s) \subseteq ToSet(t)
    BY <1>1, <1>9, <1>10 DEF ToSet
  <2>3. x \in ToSet(t)
    <3>1. j \in 1 .. n /\ ~(j < j)
      BY <1>1, <1>2
    <3>2. t[j] = x
      BY <1>8, <3>1
    <3>3. QED
      BY <1>9, <3>1, <3>2 DEF ToSet
  <2>4. QED
    BY <2>1, <2>2, <2>3
<1>12. IsInjective(t)
  <2> SUFFICES ASSUME NEW i \in 1 .. n, NEW l \in 1 .. n, t[i] = t[l] PROVE i = l
    BY <1>9 DEF IsInjective
  <2>1. \A m \in 1 .. Len(s) : s[m] # x
    BY <1>1 DEF ToSet
  <2> DEFINE old(m) == IF m < j THEN m ELSE m - 1
  <2>2. \A m \in 1 .. n : m # j => old(m) \in 1 .. Len(s) /\ t[m] = s[old(m)]
    <3> TAKE m \in 1 .. n
    <3> SUFFICES ASSUME m # j PROVE old(m) \in 1 .. Len(s) /\ t[m] = s[old(m)]
      OBVIOUS
    <3>1. old(m) \in 1 .. Len(s)
      BY <1>1, <1>2
    <3>2. QED
      BY <1>8, <3>1
  <2>3. \A m \in 1 .. n, q \in 1 .. n : m # j /\ q # j /\ old(m) = old(q) => m = q
    BY <1>2
  <2>4. t[j] = x
    <3>1. j \in 1 .. n /\ ~(j < j)
      BY <1>1, <1>2
    <3>2. QED
      BY <1>8, <3>1
  <2> HIDE DEF old
  <2>5. CASE i = j
    BY <2>1, <2>2, <2>4, <2>5
  <2>6. CASE l = j
    BY <2>1, <2>2, <2>4, <2>6
  <2>7. CASE i # j /\ l # j
    BY <1>1, <2>2, <2>3, <2>7 DEF IsInjective
  <2>8. QED
    BY <2>5, <2>6, <2>7
<1>13. QED
  BY <1>1, <1>7, <1>8, <1>11, <1>12 DEF t, n

LEMMA RemovedList ==
  ASSUME NEW D, NEW s \in Seq(D), IsInjective(s), NEW j \in 1 .. Len(s)
  PROVE  /\ RemoveAt(s, j) \in Seq(D) /\ IsInjective(RemoveAt(s, j))
         /\ ToSet(RemoveAt(s, j)) = ToSet(s) \ {s[j]}
         /\ Len(s) \in Nat /\ Len(RemoveAt(s, j)) = Len(s) - 1
         /\ \A i \in 1 .. Len(s) - 1 : RemoveAt(s, j)[i] = IF i < j THEN s[i] ELSE s[i + 1]
<1> DEFINE t == RemoveAt(s, j)
           n == Len(s) - 1
           a == SubSeq(s, 1, j - 1)
           b == SubSeq(s, j + 1, Len(s))
<1>1. Len(s) \in Nat /\ DOMAIN s = 1 .. Len(s) /\ \A i \in 1 .. Len(s) : s[i] \in D
  BY LenProperties, ElementOfSeq
<1>2. j \in Nat /\ j >= 1 /\ j <= Len(s) /\ n \in Nat
  BY <1>1
<1>3. a \in Seq(D) /\ Len(a) = j - 1 /\ \A i \in 1 .. j - 1 : a[i] = s[i]
  <2>1. CASE j = 1
    BY <1>1, <1>2, <2>1, SubSeqEmpty
  <2>2. CASE j # 1
    <3> DEFINE m == j - 1
    <3>1. m \in Nat /\ m >= 1 /\ m <= Len(s)
      BY <1>1, <1>2, <2>2
    <3> HIDE DEF m
    <3>2. SubSeq(s, 1, m) \in Seq(D) /\ Len(SubSeq(s, 1, m)) = m /\ \A i \in 1 .. m : SubSeq(s, 1, m)[i] = s[i]
      BY <1>1, <3>1
    <3>3. QED
      BY <3>2 DEF m
  <2>3. QED
    BY <2>1, <2>2
<1>4. b \in Seq(D) /\ Len(b) = Len(s) - j /\ \A i \in 1 .. Len(s) - j : b[i] = s[j + i]
  <2>1. CASE j = Len(s)
    BY <1>1, <1>2, <2>1, SubSeqEmpty, SMTT(30)
  <2>2. CASE j # Len(s)
    <3> DEFINE m == j + 1
    <3>0. j < Len(s)
      <4> DEFINE L == Len(s)
      <4>1. j \in Nat /\ L \in Nat /\ j <= L /\ j # L
        BY <1>1, <1>2, <2>2
      <4> HIDE DEF L
      <4>2. j < L
        BY <4>1
      <4>3. QED
        BY <4>2 DEF L
    <3>1. m \in Nat /\ m >= 1 /\ m <= Len(s) /\ Len(s) - m + 1 = Len(s) - j
      BY <1>1, <1>2, <3>0
    <3> HIDE DEF m
    <3>2. SubSeq(s, m, Len(s)) \in Seq(D) /\ Len(SubSeq(s, m, Len(s))) = Len(s) - m + 1
          /\ \A i \in 1 .. Len(s) - m + 1 : SubSeq(s, m, Len(s))[i] = s[m + i - 1]
      <4> DEFINE l == Len(s)
      <4>1. m \in Int /\ l \in Int /\ m <= l /\ \A i \in m .. l : i \in 1 .. l
        BY <1>1, <3>1
      <4>2. \A i \in m .. l : s[i] \in D
        BY <1>1, <4>1
      <4> HIDE DEF l
      <4>3. /\ SubSeq(s, m, l) \in Seq(D) /\ Len(SubSeq(s, m, l)) = IF m <= l THEN l - m + 1 ELSE 0
            /\ \A i \in 1 .. l - m + 1 : SubSeq(s, m, l)[i] = s[m + i - 1]
        BY <4>1, <4>2, SubSeqProperties
      <4>4. QED
        BY <4>1, <4>3 DEF l
    <3>3. \A i \in 1 .. Len(s) - j : m + i - 1 = j + i
      BY <1>1, <1>2 DEF m
    <3>4. QED
      BY <3>1, <3>2, <3>3 DEF m
  <2>3. QED
    BY <2>1, <2>2
<1>5. t = a \o b
  BY Zenon DEF RemoveAt
<1> HIDE DEF a, b, t
<1>6. t \in Seq(D) /\ Len(t) = n /\ \A i \in 1 .. n : t[i] = IF i <= j - 1 THEN a[i] ELSE b[i - (j - 1)]
  <2>1. a \o b \in Seq(D) /\ Len(a \o b) = Len(a) + Len(b)
        /\ \A i \in 1 .. Len(a) + Len(b) : (a \o b)[i] = IF i <= Len(a) THEN a[i] ELSE b[i - Len(a)]
    BY <1>3, <1>4, ConcatProperties
  <2>2. Len(a) + Len(b) = n /\ Len(a) = j - 1
    BY <1>1, <1>2, <1>3, <1>4
  <2>3. QED
    BY <1>5, <2>1, <2>2
<1>7. ASSUME NEW i \in 1 .. n PROVE t[i] = IF i < j THEN s[i] ELSE s[i + 1]
  <2>1. CASE i < j
    <3>1. i <= j - 1 /\ i \in 1 .. j - 1
      BY <1>2, <2>1
    <3>2. QED
      BY <1>3, <1>6, <2>1, <3>1
  <2>2. CASE ~(i < j)
    <3> DEFINE m == i - (j - 1)
    <3>1. m \in 1 .. Len(s) - j /\ j + m = i + 1 /\ ~(i <= j - 1)
      BY <1>1, <1>2, <2>2
    <3> HIDE DEF m
    <3>2. b[m] = s[i + 1]
      BY <1>4, <3>1
    <3>3. QED
      BY <1>6, <2>2, <3>1, <3>2 DEF m
  <2>3. QED
    BY <2>1, <2>2
<1>8. DOMAIN t = 1 .. n
  BY <1>6, LenProperties
<1> DEFINE old(m) == IF m < j THEN m ELSE m + 1
<1>9. \A m \in 1 .. n : old(m) \in 1 .. Len(s) /\ old(m) # j /\ t[m] = s[old(m)]
  <2> TAKE m \in 1 .. n
  <2>1. old(m) \in 1 .. Len(s) /\ old(m) # j
    BY <1>1, <1>2
  <2>2. QED
    BY <1>7, <2>1
<1>10. \A m, q \in 1 .. n : old(m) = old(q) => m = q
  BY <1>2
<1>11. \A i \in 1 .. Len(s) : i # j => \E m \in 1 .. n : old(m) = i
  <2> TAKE i \in 1 .. Len(s)
  <2> SUFFICES ASSUME i # j PROVE \E m \in 1 .. n : old(m) = i
    OBVIOUS
  <2>1. CASE i < j
    <3>1. i \in 1 .. n
      BY <1>1, <1>2, <2>1
    <3>2. QED
      BY <2>1, <3>1
  <2>2. CASE ~(i < j)
    <3>1. i - 1 \in 1 .. n /\ ~(i - 1 < j) /\ i - 1 + 1 = i
      BY <1>1, <1>2, <2>2
    <3>2. QED
      BY <3>1
  <2>3. QED
    BY <2>1, <2>2
<1> HIDE DEF old
<1>12. ToSet(t) = ToSet(s) \ {s[j]}
  <2>1. ASSUME NEW y \in ToSet(t) PROVE y \in ToSet(s) /\ y # s[j]
    <3>1. PICK m \in 1 .. n : y = t[m]
      BY <1>8 DEF ToSet
    <3>2. QED
      BY <1>1, <1>9, <3>1 DEF ToSet, IsInjective
  <2>2. ASSUME NEW y \in ToSet(s), y # s[j] PROVE y \in ToSet(t)
    <3>1. PICK i \in 1 .. Len(s) : y = s[i]
      BY <1>1 DEF ToSet
    <3>2. PICK m \in 1 .. n : old(m) = i
      BY <1>11, <2>2, <3>1
    <3>3. y = t[m]
      BY <1>9, <3>1, <3>2
    <3>4. QED
      BY <1>8, <3>3 DEF ToSet
  <2>3. QED
    BY <2>1, <2>2
<1>13. IsInjective(t)
  BY <1>1, <1>8, <1>9, <1>10 DEF IsInjective
<1>14. QED
  BY <1>1, <1>6, <1>7, <1>12, <1>13 DEF t, n

Swapped(s, j, x) == [s EXCEPT ![j] = x]

LEMMA SwappedList ==
  ASSUME NEW D, NEW s \in Seq(D), IsInjective(s), NEW j \in 1 .. Len(s), NEW x \in D, x \notin ToSet(s)
  PROVE  /\ Swapped(s, j, x) \in Seq(D) /\ IsInjective(Swapped(s, j, x))
         /\ ToSet(Swapped(s, j, x)) = (ToSet(s) \ {s[j]}) \cup {x}
         /\ Len(s) \in Nat /\ Len(Swapped(s, j, x)) = Len(s)
         /\ \A i \in 1 .. Len(s) : Swapped(s, j, x)[i] = IF i = j THEN x ELSE s[i]
<1> DEFINE t == Swapped(s, j, x)
<1>1. Len(s) \in Nat /\ DOMAIN s = 1 .. Len(s) /\ \A i \in 1 .. Len(s) : s[i] \in D
  BY LenProperties, ElementOfSeq
<1>2. t \in Seq(D) /\ Len(t) = Len(s) /\ DOMAIN t = 1 .. Len(s)
  BY <1>1, ExceptSeq, LenProperties DEF Swapped
<1>3. \A i \in 1 .. Len(s) : t[i] = IF i = j THEN x ELSE s[i]
  BY <1>1 DEF Swapped
<1> HIDE DEF t
<1>4. ToSet(t) = (ToSet(s) \ {s[j]}) \cup {x}
  <2>1. ASSUME NEW y \in ToSet(t) PROVE y \in (ToSet(s) \ {s[j]}) \cup {x}
    BY <1>1, <1>2, <1>3 DEF ToSet, IsInjective
  <2>2. ASSUME NEW y \in ToSet(s), y # s[j] PROVE y \in ToSet(t)
    <3>1. PICK i \in 1 .. Len(s) : y = s[i]
      BY <1>1 DEF ToSet
    <3>2. t[i] = y
      BY <1>3, <2>2, <3>1
    <3>3. QED
      BY <1>2, <3>2 DEF ToSet
  <2>3. x \in ToSet(t)
    BY <1>2, <1>3 DEF ToSet
  <2>4. QED
    BY <2>1, <2>2, <2>3
<1>5. IsInjective(t)
  BY <1>1, <1>2, <1>3 DEF ToSet, IsInjective
<1>6. QED
  BY <1>1, <1>2, <1>3, <1>4, <1>5 DEF t

-----------------------------------------------------------------------------
(***************************************************************************)
(* Changes to one list                                                     *)
(***************************************************************************)

SetNext(h, a, v) == [h EXCEPT ![a].next = v]
SetPrev(h, a, v) == [h EXCEPT ![a].prev = v]
SetChild(h, a, v) == [h EXCEPT ![a].child = v]

LEMMA NextSet ==
  ASSUME NEW D, NEW h \in [D -> Item], NEW a \in D, NEW v \in Nodes \cup {Null}
  PROVE  /\ SetNext(h, a, v) \in [D -> Item]
         /\ \A y \in D : /\ SetNext(h, a, v)[y].next = IF y = a THEN v ELSE h[y].next
                         /\ SetNext(h, a, v)[y].prev = h[y].prev /\ SetNext(h, a, v)[y].child = h[y].child
                         /\ SetNext(h, a, v)[y].ref = h[y].ref /\ SetNext(h, a, v)[y].string = h[y].string
BY DEF SetNext, Item

LEMMA PrevSet ==
  ASSUME NEW D, NEW h \in [D -> Item], NEW a \in D, NEW v \in Nodes \cup {Null}
  PROVE  /\ SetPrev(h, a, v) \in [D -> Item]
         /\ \A y \in D : /\ SetPrev(h, a, v)[y].prev = IF y = a THEN v ELSE h[y].prev
                         /\ SetPrev(h, a, v)[y].next = h[y].next /\ SetPrev(h, a, v)[y].child = h[y].child
                         /\ SetPrev(h, a, v)[y].ref = h[y].ref /\ SetPrev(h, a, v)[y].string = h[y].string
BY DEF SetPrev, Item

LEMMA ChildSet ==
  ASSUME NEW D, NEW h \in [D -> Item], NEW a \in D, NEW v \in Nodes \cup {Null}
  PROVE  /\ SetChild(h, a, v) \in [D -> Item]
         /\ \A y \in D : /\ SetChild(h, a, v)[y].child = IF y = a THEN v ELSE h[y].child
                         /\ SetChild(h, a, v)[y].next = h[y].next /\ SetChild(h, a, v)[y].prev = h[y].prev
                         /\ SetChild(h, a, v)[y].ref = h[y].ref /\ SetChild(h, a, v)[y].string = h[y].string
BY DEF SetChild, Item

LEMMA AddItemSets ==
  \A h, p, x :
    AddItem(h, p, x) =
      LET first == h[p].child IN
        IF first = Null THEN SetNext(SetPrev(SetChild(h, p, x), x, x), x, Null)
        ELSE IF h[first].prev = Null THEN h
        ELSE SetPrev(SetPrev(SetNext(h, h[first].prev, x), x, h[first].prev), first, x)
BY DEF AddItem, Suffix, SetNext, SetPrev, SetChild

LEMMA UnlinkedSets ==
  \A h, p, x :
    Unlinked(h, p, x) =
      LET a == IF x # h[p].child THEN SetNext(h, h[x].prev, h[x].next) ELSE h
          b == IF h[x].next # Null THEN SetPrev(a, h[x].next, h[x].prev) ELSE a
          c == IF x = h[p].child THEN SetChild(b, p, h[x].next)
               ELSE IF h[x].next = Null THEN SetPrev(b, h[p].child, h[x].prev)
               ELSE b
      IN SetNext(SetPrev(c, x, Null), x, Null)
BY DEF Unlinked, SetNext, SetPrev, SetChild

LEMMA InheritedSets ==
  \A h, x, y : Inherited(h, x, y) = SetPrev(SetNext(h, y, h[x].next), y, h[x].prev)
BY DEF Inherited, SetNext, SetPrev

LEMMA ReplacedSets ==
  ASSUME NEW h, NEW p, NEW x, NEW y
  PROVE  /\ NextTold(h, y) = IF h[y].next # Null THEN SetPrev(h, h[y].next, y) ELSE h
         /\ h[p].child = x =>
              BeforeTold(h, p, x, y) = SetChild(SetPrev(h, y, IF h[x].prev = x THEN y ELSE h[y].prev), p, y)
         /\ h[p].child # x /\ h[y].next # Null => BeforeTold(h, p, x, y) = SetNext(h, h[y].prev, y)
         /\ h[p].child # x /\ h[y].next = Null =>
              BeforeTold(h, p, x, y) =
                SetPrev(SetNext(h, h[y].prev, y), SetNext(h, h[y].prev, y)[p].child, y)
         /\ Alone(h, x) = SetPrev(SetNext(h, x, Null), x, Null)
<1>2. NextTold(h, y) = IF h[y].next # Null THEN SetPrev(h, h[y].next, y) ELSE h
  BY DEF NextTold, SetPrev
<1>3. h[p].child = x =>
        BeforeTold(h, p, x, y) = SetChild(SetPrev(h, y, IF h[x].prev = x THEN y ELSE h[y].prev), p, y)
  BY DEF BeforeTold, SetPrev, SetChild
<1>4. h[p].child # x /\ h[y].next # Null => BeforeTold(h, p, x, y) = SetNext(h, h[y].prev, y)
  BY DEF BeforeTold, SetNext
<1>5. h[p].child # x /\ h[y].next = Null =>
        BeforeTold(h, p, x, y) =
          SetPrev(SetNext(h, h[y].prev, y), SetNext(h, h[y].prev, y)[p].child, y)
  BY DEF BeforeTold, SetNext, SetPrev
<1>6. Alone(h, x) = SetPrev(SetNext(h, x, Null), x, Null)
  BY DEF Alone, SetNext, SetPrev
<1>7. QED
  BY <1>2, <1>3, <1>4, <1>5, <1>6

\* What is known of the list of an item and of an item at the top.
LEMMA OwnList ==
  ASSUME NEW h, NEW k, NEW top, Shape(h, k, top), NEW p \in DOMAIN h, ~h[p].ref
  PROVE  LET s == k[p]
             n == Len(k[p]) IN
           /\ h \in [DOMAIN h -> Item] /\ Null \notin DOMAIN h /\ DOMAIN h \subseteq Nodes
           /\ s \in Seq(DOMAIN h) /\ IsInjective(s) /\ n \in Nat /\ ToSet(s) \subseteq DOMAIN h
           /\ (n = 0 <=> s = <<>>) /\ (n = 0 <=> h[p].child = Null) /\ (n # 0 => h[p].child = s[1])
           /\ \A i \in 1 .. n : s[i] \in DOMAIN h /\ s[i] \in ToSet(s)
           /\ \A i, j \in 1 .. n : s[i] = s[j] => i = j
           /\ \A i \in 1 .. n : /\ h[s[i]].next = IF i = n THEN Null ELSE s[i + 1]
                                /\ h[s[i]].prev = IF i = 1 THEN s[n] ELSE s[i - 1]
           /\ \A y \in ToSet(s) : \E i \in 1 .. n : y = s[i]
           /\ \A x \in top : x \in DOMAIN h /\ h[x].next = Null /\ h[x].prev = Null /\ x \notin ToSet(s)
<1> DEFINE s == k[p]
           n == Len(k[p])
<1>1. /\ DOMAIN k = DOMAIN h /\ s \in Seq(DOMAIN h) /\ IsInjective(s) /\ ToSet(s) \subseteq DOMAIN h
      /\ n \in Nat /\ DOMAIN s = 1 .. n /\ Null \notin DOMAIN h
      /\ \A i \in 1 .. n : s[i] \in DOMAIN h
  BY HeapFacts
<1>2. h[p].child = FirstOf(s) /\ Linked(h, s) /\ h \in [DOMAIN h -> Item] /\ DOMAIN h \subseteq Nodes
  BY DEF Shape, HasList
<1>3. \A x \in top : x \in DOMAIN h /\ h[x].next = Null /\ h[x].prev = Null /\ x \notin ToSet(s)
  BY <1>1 DEF Shape, Loose
<1>4. n = 0 <=> s = <<>>
  BY <1>1
<1>5. (n = 0 <=> h[p].child = Null) /\ (n # 0 => h[p].child = s[1])
  <2>1. n # 0 => 1 \in 1 .. n
    BY <1>1
  <2>2. QED
    BY <1>1, <1>2, <1>4, <2>1 DEF FirstOf
<1>6. \A i \in 1 .. n : s[i] \in ToSet(s)
  BY <1>1 DEF ToSet
<1>7. \A i, j \in 1 .. n : s[i] = s[j] => i = j
  BY <1>1 DEF IsInjective
<1>8. \A i \in 1 .. n : /\ h[s[i]].next = IF i = n THEN Null ELSE s[i + 1]
                        /\ h[s[i]].prev = IF i = 1 THEN s[n] ELSE s[i - 1]
  <2> TAKE i \in 1 .. n
  <2>1. /\ h[s[i]].next = IF i = n THEN Null ELSE s[i + 1]
        /\ h[s[i]].prev = s[IF i = 1 THEN n ELSE i - 1]
    BY <1>2, Zenon DEF Linked
  <2>2. QED
    BY <2>1
<1>9. \A y \in ToSet(s) : \E i \in 1 .. n : y = s[i]
  BY <1>1 DEF ToSet
<1> HIDE DEF s, n
<1>10. QED
  BY <1>1, <1>2, <1>3, <1>4, <1>5, <1>6, <1>7, <1>8, <1>9 DEF s, n

\* add_item_to_array
LEMMA Appending ==
  ASSUME NEW h, NEW k, NEW top, Shape(h, k, top), NEW p \in DOMAIN h, ~h[p].ref, ~Shown(h, p),
         NEW x \in top, x # p
  PROVE  Shape(AddItem(h, p, x), [k EXCEPT ![p] = Append(k[p], x)], top \ {x})
<1> DEFINE D == DOMAIN h
           s == k[p]
           n == Len(s)
           t == Append(s, x)
           g == AddItem(h, p, x)
<1>1. /\ h \in [D -> Item] /\ Null \notin D /\ D \subseteq Nodes /\ x \in D /\ x \notin ToSet(s)
      /\ s \in Seq(D) /\ IsInjective(s) /\ n \in Nat /\ ToSet(s) \subseteq D
      /\ h[x].next = Null
  BY OwnList
<1>1a. x \in Nodes \cup {Null} /\ \A y \in D : y \in Nodes \cup {Null}
  BY <1>1
<1>2. /\ (n = 0 <=> s = <<>>) /\ (n = 0 <=> h[p].child = Null) /\ (n # 0 => h[p].child = s[1])
      /\ \A i \in 1 .. n : s[i] \in D /\ s[i] \in ToSet(s)
      /\ \A i, j \in 1 .. n : s[i] = s[j] => i = j
      /\ \A y \in ToSet(s) : \E i \in 1 .. n : y = s[i]
  BY OwnList
<1>3. \A i \in 1 .. n : /\ h[s[i]].next = IF i = n THEN Null ELSE s[i + 1]
                        /\ h[s[i]].prev = IF i = 1 THEN s[n] ELSE s[i - 1]
  BY OwnList
<1>4. /\ t \in Seq(D) /\ IsInjective(t) /\ ToSet(t) = ToSet(s) \cup {x}
      /\ Len(t) = n + 1 /\ t[n + 1] = x /\ \A i \in 1 .. n : t[i] = s[i]
  BY <1>1, AppendedList
<1> HIDE DEF s, n, t
<1>5. FirstOf(t) = IF n = 0 THEN x ELSE s[1]
  <2>1. t # <<>>
    BY <1>1, <1>4
  <2>2. n # 0 => 1 \in 1 .. n
    BY <1>1
  <2>3. n = 0 => t[1] = x
    BY <1>4
  <2>4. QED
    BY <1>4, <2>1, <2>2, <2>3 DEF FirstOf
<1>6. /\ g \in [D -> Item]
      /\ \A y \in D : /\ g[y].ref = h[y].ref
                      /\ g[y].child = IF y = p THEN FirstOf(t) ELSE h[y].child
      /\ \A y \in D : y \notin ToSet(t) => g[y].next = h[y].next /\ g[y].prev = h[y].prev
      /\ Linked(g, t)
  <2>1. CASE n = 0
    <3> DEFINE h1 == SetChild(h, p, x)
               h2 == SetPrev(h1, x, x)
    <3>1. g = SetNext(h2, x, Null)
      BY <1>2, <2>1, AddItemSets
    <3>2. h1 \in [D -> Item] /\ \A y \in D : h1[y].child = (IF y = p THEN x ELSE h[y].child)
            /\ h1[y].next = h[y].next /\ h1[y].prev = h[y].prev /\ h1[y].ref = h[y].ref
      BY <1>1, ChildSet
    <3> HIDE DEF h1
    <3>3. h2 \in [D -> Item] /\ \A y \in D : h2[y].prev = (IF y = x THEN x ELSE h1[y].prev)
            /\ h2[y].next = h1[y].next /\ h2[y].child = h1[y].child /\ h2[y].ref = h1[y].ref
      <4>1. h1 \in [D -> Item] /\ x \in D /\ x \in Nodes \cup {Null}
        BY <1>1, <1>1a, <3>2
      <4>2. QED
        BY <4>1, PrevSet
    <3> HIDE DEF h2, g
    <3>4. g \in [D -> Item] /\ \A y \in D : g[y].next = (IF y = x THEN Null ELSE h2[y].next)
            /\ g[y].prev = h2[y].prev /\ g[y].child = h2[y].child /\ g[y].ref = h2[y].ref
      BY <1>1, <3>1, <3>3, NextSet
    <3>5. \A y \in D : /\ g[y].child = (IF y = p THEN x ELSE h[y].child) /\ g[y].ref = h[y].ref
                       /\ g[y].next = (IF y = x THEN Null ELSE h[y].next)
                       /\ g[y].prev = (IF y = x THEN x ELSE h[y].prev)
      BY <3>2, <3>3, <3>4
    <3>6. Linked(g, t)
      <4>1. Len(t) = 1 /\ t[1] = x
        BY <1>4, <2>1
      <4>2. QED
        BY <1>1, <3>5, <4>1 DEF Linked
    <3>7. QED
      BY <1>4, <1>5, <2>1, <3>4, <3>5, <3>6
  <2>2. CASE n # 0
    <3> DEFINE first == s[1]
               final == s[n]
               h1 == SetNext(h, final, x)
               h2 == SetPrev(h1, x, final)
    <3>1. 1 \in 1 .. n /\ n \in 1 .. n
      BY <1>1, <2>2
    <3>2. h[p].child = first /\ first \in D /\ final \in D /\ h[first].prev = final /\ first # x /\ final # x
      BY <1>1, <1>2, <1>3, <2>2, <3>1
    <3>3. g = SetPrev(h2, first, x)
      BY <1>1, <3>2, AddItemSets
    <3> HIDE DEF first, final, g
    <3>4. h1 \in [D -> Item] /\ \A y \in D : h1[y].next = (IF y = final THEN x ELSE h[y].next)
            /\ h1[y].child = h[y].child /\ h1[y].prev = h[y].prev /\ h1[y].ref = h[y].ref
      <4>1. h \in [D -> Item] /\ final \in D /\ x \in Nodes \cup {Null}
        BY <1>1, <1>1a, <3>2
      <4>2. QED
        BY <4>1, NextSet
    <3> HIDE DEF h1
    <3>5. h2 \in [D -> Item] /\ \A y \in D : h2[y].prev = (IF y = x THEN final ELSE h1[y].prev)
            /\ h2[y].next = h1[y].next /\ h2[y].child = h1[y].child /\ h2[y].ref = h1[y].ref
      <4>1. h1 \in [D -> Item] /\ x \in D /\ final \in Nodes \cup {Null}
        BY <1>1, <1>1a, <3>2, <3>4
      <4>2. QED
        BY <4>1, PrevSet
    <3> HIDE DEF h2
    <3>6. g \in [D -> Item] /\ \A y \in D : g[y].prev = (IF y = first THEN x ELSE h2[y].prev)
            /\ g[y].next = h2[y].next /\ g[y].child = h2[y].child /\ g[y].ref = h2[y].ref
      <4>1. h2 \in [D -> Item] /\ first \in D /\ x \in Nodes \cup {Null}
        BY <1>1, <1>1a, <3>2, <3>5
      <4>2. QED
        BY <3>3, <4>1, PrevSet
    <3>7. \A y \in D : /\ g[y].child = h[y].child /\ g[y].ref = h[y].ref
                       /\ g[y].next = (IF y = final THEN x ELSE h[y].next)
                       /\ g[y].prev = (IF y = first THEN x ELSE IF y = x THEN final ELSE h[y].prev)
      BY <3>4, <3>5, <3>6
    <3>8. Linked(g, t)
      <4> SUFFICES ASSUME NEW i \in 1 .. n + 1
                   PROVE  /\ g[t[i]].next = IF i = n + 1 THEN Null ELSE t[i + 1]
                          /\ g[t[i]].prev = t[IF i = 1 THEN n + 1 ELSE i - 1]
        BY <1>4, Zenon DEF Linked
      <4>1. CASE i = n + 1
        <5>1. i # 1 /\ i - 1 = n
          BY <1>1, <2>2, <4>1
        <5>2. t[i] = x /\ t[n] = final
          BY <1>4, <3>1, <4>1 DEF final
        <5>3. g[x].next = Null /\ g[x].prev = final
          BY <1>1, <3>2, <3>7
        <5>4. QED
          BY <4>1, <5>1, <5>2, <5>3
      <4>2. CASE i # n + 1
        <5>1. i \in 1 .. n
          BY <1>1, <4>2
        <5>2. t[i] = s[i] /\ s[i] \in D /\ s[i] # x
          BY <1>1, <1>2, <1>4, <5>1
        <5>3. (s[i] = final <=> i = n) /\ (s[i] = first <=> i = 1)
          BY <1>2, <3>1, <5>1 DEF first, final
        <5>4. g[t[i]].next = t[i + 1]
          <6>1. i # n => i + 1 \in 1 .. n
            BY <1>1, <5>1
          <6>2. QED
            BY <1>3, <1>4, <3>7, <5>1, <5>2, <5>3, <6>1
        <5>5. g[t[i]].prev = IF i = 1 THEN t[n + 1] ELSE t[i - 1]
          <6>1. i # 1 => i - 1 \in 1 .. n
            BY <1>1, <5>1
          <6>2. QED
            BY <1>3, <1>4, <3>7, <5>1, <5>2, <5>3, <6>1
        <5>6. QED
          BY <4>2, <5>4, <5>5
      <4>3. QED
        BY <4>1, <4>2
    <3>9. final \in ToSet(t) /\ first \in ToSet(t)
      BY <1>2, <1>4, <3>1 DEF first, final
    <3>10. QED
      BY <1>4, <1>5, <2>2, <3>2, <3>6, <3>7, <3>8, <3>9 DEF first
  <2>3. QED
    BY <2>1, <2>2
<1> HIDE DEF g
<1>7. Shape(g, [k EXCEPT ![p] = t], (top \ ToSet(t)) \cup (ToSet(k[p]) \ ToSet(t)))
  <2>1. \A y \in D : y \notin ToSet(k[p]) /\ y \notin ToSet(t) => g[y].next = h[y].next /\ g[y].prev = h[y].prev
    BY <1>6
  <2>2. \A y \in ToSet(t) : y \in ToSet(k[p]) \/ y \in top
    BY <1>4 DEF s
  <2>3. \A y \in ToSet(k[p]) : y \notin ToSet(t) => g[y].next = Null /\ g[y].prev = Null
    BY <1>4 DEF s
  <2>4. QED
    BY <1>4, <1>6, <2>1, <2>2, <2>3, Surgery
<1>8. (top \ ToSet(t)) \cup (ToSet(k[p]) \ ToSet(t)) = top \ {x}
  <2>1. \A y \in top : y \notin ToSet(s)
    BY OwnList DEF s
  <2>2. QED
    BY <1>4, <2>1 DEF s
<1>9. QED
  BY <1>7, <1>8 DEF g, t, s

\* cJSON_InsertItemInArray, before an item of the list.
LEMMA Inserting ==
  ASSUME NEW h, NEW k, NEW top, Shape(h, k, top), NEW p \in DOMAIN h, ~h[p].ref, ~Shown(h, p),
         NEW x \in top, x # p, NEW j \in 1 .. Len(k[p])
  PROVE  Shape(Inserted(h, p, x, k[p][j]), [k EXCEPT ![p] = InsertAt(k[p], j, x)], top \ {x})
<1> DEFINE D == DOMAIN h
           s == k[p]
           n == Len(s)
           t == InsertAt(s, j, x)
           after == s[j]
           g == Inserted(h, p, x, after)
<1>1. /\ h \in [D -> Item] /\ Null \notin D /\ D \subseteq Nodes /\ x \in D /\ x \notin ToSet(s)
      /\ s \in Seq(D) /\ IsInjective(s) /\ n \in Nat /\ ToSet(s) \subseteq D
      /\ h[x].next = Null
  BY OwnList
<1>2. \A y \in D : y \in Nodes \cup {Null}
  BY <1>1
<1>3. /\ n # 0 => h[p].child = s[1]
      /\ \A i \in 1 .. n : s[i] \in D /\ s[i] \in ToSet(s)
      /\ \A i, m \in 1 .. n : s[i] = s[m] => i = m
  BY OwnList
<1>4. \A i \in 1 .. n : /\ h[s[i]].next = IF i = n THEN Null ELSE s[i + 1]
                        /\ h[s[i]].prev = IF i = 1 THEN s[n] ELSE s[i - 1]
  BY OwnList
<1>5. /\ t \in Seq(D) /\ IsInjective(t) /\ ToSet(t) = ToSet(s) \cup {x} /\ Len(t) = n + 1
      /\ \A i \in 1 .. n + 1 : t[i] = IF i < j THEN s[i] ELSE IF i = j THEN x ELSE s[i - 1]
  <2>1. s \in Seq(D) /\ IsInjective(s) /\ x \in D /\ x \notin ToSet(s) /\ j \in 1 .. Len(s)
    BY <1>1
  <2> HIDE DEF s
  <2>2. /\ InsertAt(s, j, x) \in Seq(D) /\ IsInjective(InsertAt(s, j, x))
        /\ ToSet(InsertAt(s, j, x)) = ToSet(s) \cup {x} /\ Len(InsertAt(s, j, x)) = Len(s) + 1
        /\ \A i \in 1 .. Len(s) + 1 :
             InsertAt(s, j, x)[i] = IF i < j THEN s[i] ELSE IF i = j THEN x ELSE s[i - 1]
    BY <2>1, InsertedList
  <2>3. QED
    BY <2>2
<1>6. j \in Nat /\ j >= 1 /\ j <= n /\ n # 0 /\ 1 \in 1 .. n /\ n \in 1 .. n
  BY <1>1
<1>7. after \in D /\ after \in ToSet(s) /\ after # x /\ (after = s[1] <=> j = 1)
  BY <1>1, <1>3, <1>6
<1> DEFINE before == h[after].prev
<1>8. before \in D /\ before \in ToSet(s) /\ before # x /\ before = IF j = 1 THEN s[n] ELSE s[j - 1]
  <2>1. j # 1 => j - 1 \in 1 .. n
    BY <1>1, <1>6
  <2>2. before = IF j = 1 THEN s[n] ELSE s[j - 1]
    BY <1>4
  <2>3. QED
    BY <1>1, <1>3, <1>6, <2>1, <2>2
<1> HIDE DEF s, n, t
<1>9. FirstOf(t) = IF j = 1 THEN x ELSE s[1]
  <2>1. t # <<>>
    <3>1. Len(t) # 0
      BY <1>1, <1>5
    <3>2. QED
      BY <3>1
  <2>2. 1 \in 1 .. n + 1 /\ (1 < j <=> j # 1)
    BY <1>1, <1>6
  <2>3. t[1] = IF j = 1 THEN x ELSE s[1]
    BY <1>5, <2>2
  <2>4. QED
    BY <2>1, <2>3 DEF FirstOf
<1> DEFINE h1 == SetNext(h, x, after)
           h2 == SetPrev(h1, x, before)
           h3 == SetPrev(h2, after, x)
<1>10. g = IF j = 1 THEN SetChild(h3, p, x) ELSE SetNext(h3, h3[x].prev, x)
  <2>1. h[p].child = s[1]
    BY <1>3, <1>6
  <2>2. (after = h[p].child) <=> (j = 1)
    BY <1>7, <2>1
  <2>3. g = IF after = h[p].child THEN SetChild(h3, p, x) ELSE SetNext(h3, h3[x].prev, x)
    <3> HIDE DEF after
    <3>1. h3 = [h EXCEPT ![x].next = after, ![x].prev = h[after].prev, ![after].prev = x]
      BY DEF SetNext, SetPrev
    <3> HIDE DEF h3
    <3>2. QED
      BY <3>1 DEF Inserted, SetChild, SetNext
  <2> HIDE DEF g, h3
  <2>4. QED
    BY <2>2, <2>3
<1> HIDE DEF after, before, g
<1>11. h1 \in [D -> Item] /\ \A y \in D : h1[y].next = (IF y = x THEN after ELSE h[y].next)
        /\ h1[y].prev = h[y].prev /\ h1[y].child = h[y].child /\ h1[y].ref = h[y].ref
  <2>1. h \in [D -> Item] /\ x \in D /\ after \in Nodes \cup {Null}
    BY <1>1, <1>2, <1>7
  <2>2. QED
    BY <2>1, NextSet
<1> HIDE DEF h1
<1>12. h2 \in [D -> Item] /\ \A y \in D : h2[y].prev = (IF y = x THEN before ELSE h1[y].prev)
        /\ h2[y].next = h1[y].next /\ h2[y].child = h1[y].child /\ h2[y].ref = h1[y].ref
  <2>1. h1 \in [D -> Item] /\ x \in D /\ before \in Nodes \cup {Null}
    BY <1>1, <1>2, <1>8, <1>11
  <2>2. QED
    BY <2>1, PrevSet
<1> HIDE DEF h2
<1>13. h3 \in [D -> Item] /\ \A y \in D : h3[y].prev = (IF y = after THEN x ELSE h2[y].prev)
        /\ h3[y].next = h2[y].next /\ h3[y].child = h2[y].child /\ h3[y].ref = h2[y].ref
  <2>1. h2 \in [D -> Item] /\ after \in D /\ x \in Nodes \cup {Null}
    BY <1>1, <1>2, <1>7, <1>12
  <2>2. QED
    BY <2>1, PrevSet
<1> HIDE DEF h3
<1>14. h3[x].prev = before
  BY <1>1, <1>7, <1>12, <1>13
<1>15. g \in [D -> Item] /\ \A y \in D :
         /\ g[y].child = (IF j = 1 /\ y = p THEN x ELSE h3[y].child) /\ g[y].ref = h3[y].ref
         /\ g[y].next = (IF j # 1 /\ y = before THEN x ELSE h3[y].next) /\ g[y].prev = h3[y].prev
  <2>1. CASE j = 1
    <3>1. h3 \in [D -> Item] /\ p \in D /\ x \in Nodes \cup {Null} /\ g = SetChild(h3, p, x)
      BY <1>1, <1>2, <1>10, <1>13, <2>1
    <3>2. QED
      BY <2>1, <3>1, ChildSet
  <2>2. CASE j # 1
    <3>1. h3 \in [D -> Item] /\ before \in D /\ x \in Nodes \cup {Null} /\ g = SetNext(h3, before, x)
      BY <1>1, <1>2, <1>8, <1>10, <1>13, <1>14, <2>2
    <3>2. QED
      BY <2>2, <3>1, NextSet
  <2>3. QED
    BY <2>1, <2>2
<1>16. \A y \in D :
         /\ g[y].child = (IF j = 1 /\ y = p THEN x ELSE h[y].child) /\ g[y].ref = h[y].ref
         /\ g[y].next = (IF j # 1 /\ y = before THEN x ELSE IF y = x THEN after ELSE h[y].next)
         /\ g[y].prev = (IF y = after THEN x ELSE IF y = x THEN before ELSE h[y].prev)
  BY <1>11, <1>12, <1>13, <1>15
<1>17. Linked(g, t)
  <2> SUFFICES ASSUME NEW i \in 1 .. n + 1
               PROVE  /\ g[t[i]].next = IF i = n + 1 THEN Null ELSE t[i + 1]
                      /\ g[t[i]].prev = t[IF i = 1 THEN n + 1 ELSE i - 1]
    BY <1>5, Zenon DEF Linked
  <2>1. t[n + 1] = s[n]
    <3> DEFINE m == n + 1
    <3>1. m \in 1 .. m /\ ~(m < j) /\ m # j /\ m - 1 = n
      BY <1>1, <1>6
    <3>2. \A v \in 1 .. m : t[v] = IF v < j THEN s[v] ELSE IF v = j THEN x ELSE s[v - 1]
      BY <1>5
    <3> HIDE DEF m
    <3>3. t[m] = s[n]
      BY <3>1, <3>2
    <3>4. QED
      BY <3>3 DEF m
  <2>2. CASE i = j
    <3>1. t[i] = x /\ i # n + 1
      BY <1>1, <1>5, <1>6, <2>2
    <3>2. t[i + 1] = after
      <4>1. i + 1 \in 1 .. n + 1 /\ ~(i + 1 < j) /\ i + 1 # j /\ i + 1 - 1 = j
        BY <1>1, <1>6, <2>2
      <4>2. QED
        BY <1>5, <4>1 DEF after
    <3>3. g[x].next = after /\ g[x].prev = before
      BY <1>1, <1>7, <1>8, <1>16
    <3>4. CASE i = 1
      BY <1>8, <2>1, <2>2, <3>1, <3>2, <3>3, <3>4
    <3>5. CASE i # 1
      <4>1. i - 1 \in 1 .. n + 1 /\ i - 1 < j
        BY <1>1, <1>6, <2>2, <3>5
      <4>2. t[i - 1] = s[j - 1]
        BY <1>5, <2>2, <4>1
      <4>3. QED
        BY <1>8, <2>2, <3>1, <3>2, <3>3, <3>5, <4>2
    <3>6. QED
      BY <3>4, <3>5
  <2>3. CASE i < j
    <3>1. i \in 1 .. n /\ i # n /\ i # n + 1 /\ i + 1 \in 1 .. n + 1 /\ i # j
      BY <1>1, <1>6, <2>3
    <3>2. t[i] = s[i] /\ s[i] \in D /\ s[i] # x /\ s[i] # after
      <4>1. t[i] = s[i]
        BY <1>5, <2>3
      <4>2. s[i] \in D /\ s[i] # x
        BY <1>1, <1>3, <3>1
      <4>3. s[i] # after
        <5>1. j \in 1 .. n
          BY <1>1, <1>6
        <5>2. QED
          BY <1>3, <3>1, <5>1 DEF after
      <4>4. QED
        BY <4>1, <4>2, <4>3
    <3>3. g[s[i]].next = t[i + 1]
      <4>1. CASE i + 1 = j
        <5>1. j # 1 /\ j - 1 = i
          BY <1>1, <1>6, <2>3, <4>1
        <5>2. s[i] = before /\ t[i + 1] = x
          BY <1>5, <1>8, <3>1, <4>1, <5>1
        <5>3. QED
          BY <1>16, <3>2, <5>1, <5>2
      <4>2. CASE i + 1 # j
        <5>1. i + 1 < j /\ (j # 1 => j - 1 \in 1 .. n /\ j - 1 # i)
          BY <1>1, <1>6, <2>3, <4>2
        <5>2. t[i + 1] = s[i + 1] /\ ~(j # 1 /\ s[i] = before)
          BY <1>3, <1>5, <1>8, <3>1, <5>1
        <5>3. QED
          BY <1>4, <1>16, <3>1, <3>2, <5>2
      <4>3. QED
        BY <4>1, <4>2
    <3>4. g[s[i]].prev = IF i = 1 THEN t[n + 1] ELSE t[i - 1]
      <4>1. i # 1 => i - 1 \in 1 .. n + 1 /\ i - 1 < j
        BY <1>1, <1>6, <2>3
      <4>2. i # 1 => t[i - 1] = s[i - 1]
        BY <1>5, <4>1
      <4>3. QED
        BY <1>4, <1>16, <2>1, <3>1, <3>2, <4>2
    <3>5. QED
      BY <3>1, <3>2, <3>3, <3>4
  <2>4. CASE ~(i = j) /\ ~(i < j)
    <3> DEFINE m == i - 1
    <3>1. m \in 1 .. n /\ j <= m /\ i = m + 1 /\ i # 1 /\ (m = n <=> i = n + 1)
      BY <1>1, <1>6, <2>4
    <3>2. t[i] = s[m]
      BY <1>5, <2>4
    <3> HIDE DEF m
    <3>3. s[m] \in D /\ s[m] # x /\ (s[m] = after <=> m = j)
      BY <1>1, <1>3, <3>1 DEF after
    <3>4. ~(j # 1 /\ s[m] = before)
      <4> SUFFICES ASSUME j # 1 PROVE s[m] # before
        OBVIOUS
      <4>1. j - 1 \in 1 .. n /\ j - 1 # m
        BY <1>1, <1>6, <3>1
      <4>2. QED
        BY <1>3, <1>8, <3>1, <4>1
    <3>5. g[s[m]].next = IF i = n + 1 THEN Null ELSE t[i + 1]
      <4>1. i # n + 1 => i + 1 \in 1 .. n + 1 /\ ~(i + 1 < j) /\ i + 1 # j /\ i + 1 - 1 = m + 1
        BY <1>1, <1>6, <2>4, <3>1
      <4>2. i # n + 1 => t[i + 1] = s[m + 1]
        BY <1>5, <4>1
      <4>3. QED
        BY <1>4, <1>16, <3>1, <3>3, <3>4, <4>2
    <3>6. g[s[m]].prev = t[m]
      <4>1. m \in 1 .. n + 1 /\ ~(m < j)
        BY <1>1, <1>6, <3>1
      <4>2. CASE m = j
        BY <1>5, <1>16, <3>3, <4>1, <4>2
      <4>3. CASE m # j
        <5>1. m # 1 /\ t[m] = s[m - 1]
          BY <1>1, <1>5, <1>6, <3>1, <4>1, <4>3
        <5>2. QED
          BY <1>4, <1>16, <3>1, <3>3, <4>3, <5>1
      <4>4. QED
        BY <4>2, <4>3
    <3>7. QED
      BY <3>1, <3>2, <3>5, <3>6 DEF m
  <2>5. QED
    BY <2>2, <2>3, <2>4
<1>18. Shape(g, [k EXCEPT ![p] = t], (top \ ToSet(t)) \cup (ToSet(k[p]) \ ToSet(t)))
  <2>1. \A y \in D : y \notin ToSet(k[p]) /\ y \notin ToSet(t) => g[y].next = h[y].next /\ g[y].prev = h[y].prev
    BY <1>5, <1>7, <1>8, <1>16 DEF s
  <2>2. \A y \in ToSet(t) : y \in ToSet(k[p]) \/ y \in top
    BY <1>5 DEF s
  <2>3. \A y \in ToSet(k[p]) : y \notin ToSet(t) => g[y].next = Null /\ g[y].prev = Null
    BY <1>5 DEF s
  <2>4. \A y \in D : g[y].ref = h[y].ref /\ g[y].child = IF y = p THEN FirstOf(t) ELSE h[y].child
    BY <1>3, <1>6, <1>9, <1>16
  <2>5. QED
    BY <1>5, <1>15, <1>17, <2>1, <2>2, <2>3, <2>4, Surgery
<1>19. (top \ ToSet(t)) \cup (ToSet(k[p]) \ ToSet(t)) = top \ {x}
  <2>1. \A y \in top : y \notin ToSet(s)
    BY OwnList DEF s
  <2>2. QED
    BY <1>5, <2>1 DEF s
<1>20. QED
  BY <1>18, <1>19 DEF g, t, s, after

\* No item came or went, and what references show is the same.
RefsStay(h, g) ==
  /\ DOMAIN g = DOMAIN h
  /\ \A r \in DOMAIN h : g[r].ref = h[r].ref /\ (h[r].ref => g[r].child = h[r].child)

\* cJSON_DetachItemViaPointer, an item of the list.
LEMMA Unlinking ==
  ASSUME NEW h, NEW k, NEW top, Shape(h, k, top), NEW p \in DOMAIN h, ~h[p].ref, ~Shown(h, p),
         NEW j \in 1 .. Len(k[p])
  PROVE  /\ Shape(Unlinked(h, p, k[p][j]), [k EXCEPT ![p] = RemoveAt(k[p], j)], top \cup {k[p][j]})
         /\ RefsStay(h, Unlinked(h, p, k[p][j]))
<1> DEFINE D == DOMAIN h
           s == k[p]
           n == Len(s)
           t == RemoveAt(s, j)
           x == s[j]
           g == Unlinked(h, p, x)
           before == h[x].prev
           behind == h[x].next
<1>1. /\ h \in [D -> Item] /\ Null \notin D /\ D \subseteq Nodes
      /\ s \in Seq(D) /\ IsInjective(s) /\ n \in Nat /\ ToSet(s) \subseteq D
  BY OwnList
<1>2. \A y \in D : y \in Nodes \cup {Null}
  BY <1>1
<1>3. /\ n # 0 => h[p].child = s[1]
      /\ \A i \in 1 .. n : s[i] \in D /\ s[i] \in ToSet(s)
      /\ \A i, m \in 1 .. n : s[i] = s[m] => i = m
  BY OwnList
<1>4. \A i \in 1 .. n : /\ h[s[i]].next = IF i = n THEN Null ELSE s[i + 1]
                        /\ h[s[i]].prev = IF i = 1 THEN s[n] ELSE s[i - 1]
  BY OwnList
<1>5. /\ t \in Seq(D) /\ IsInjective(t) /\ ToSet(t) = ToSet(s) \ {x} /\ Len(t) = n - 1
      /\ \A i \in 1 .. n - 1 : t[i] = IF i < j THEN s[i] ELSE s[i + 1]
  <2>1. s \in Seq(D) /\ IsInjective(s) /\ j \in 1 .. Len(s)
    BY <1>1
  <2> HIDE DEF s
  <2>2. /\ RemoveAt(s, j) \in Seq(D) /\ IsInjective(RemoveAt(s, j))
        /\ ToSet(RemoveAt(s, j)) = ToSet(s) \ {s[j]} /\ Len(RemoveAt(s, j)) = Len(s) - 1
        /\ \A i \in 1 .. Len(s) - 1 : RemoveAt(s, j)[i] = IF i < j THEN s[i] ELSE s[i + 1]
    BY <2>1, RemovedList
  <2>3. QED
    BY <2>2
<1>6. j \in 1 .. n /\ j \in Nat /\ j >= 1 /\ j <= n /\ n # 0 /\ 1 \in 1 .. n /\ n \in 1 .. n
  BY <1>1
<1>7. x \in D /\ x \in ToSet(s) /\ (x = h[p].child <=> j = 1) /\ h[p].child = s[1] /\ s[1] \in D
  BY <1>3, <1>6
<1>8. before = (IF j = 1 THEN s[n] ELSE s[j - 1]) /\ behind = IF j = n THEN Null ELSE s[j + 1]
  BY <1>4
<1>9. /\ before \in D /\ (behind = Null <=> j = n) /\ (j # n => behind \in D)
      /\ (j # 1 => before = s[j - 1] /\ j - 1 \in 1 .. n) /\ (j # n => behind = s[j + 1] /\ j + 1 \in 1 .. n)
  <2>1. (j # 1 => j - 1 \in 1 .. n) /\ (j # n => j + 1 \in 1 .. n)
    BY <1>1, <1>6
  <2>2. QED
    BY <1>1, <1>3, <1>6, <1>8, <2>1
<1> HIDE DEF s, n, t
<1>10. FirstOf(t) = IF j = 1 THEN behind ELSE s[1]
  <2>1. CASE n = 1
    <3>1. j = 1 /\ j = n /\ Len(t) = 0
      BY <1>5, <1>6, <2>1
    <3>2. t = <<>>
      BY <1>5, <3>1
    <3>3. QED
      BY <1>9, <3>1, <3>2 DEF FirstOf
  <2>2. CASE n # 1
    <3>1. 1 \in 1 .. n - 1 /\ (1 < j <=> j # 1) /\ (j = 1 => j # n /\ j + 1 = 1 + 1)
      BY <1>1, <1>6, <2>2
    <3>2. t # <<>>
      BY <1>5, <3>1
    <3>3. t[1] = IF 1 < j THEN s[1] ELSE s[1 + 1]
      BY <1>5, <3>1
    <3>4. QED
      BY <1>9, <3>1, <3>2, <3>3 DEF FirstOf
  <2>3. QED
    BY <2>1, <2>2
<1> DEFINE a == IF j # 1 THEN SetNext(h, before, behind) ELSE h
           b == IF j # n THEN SetPrev(a, behind, before) ELSE a
           c == IF j = 1 THEN SetChild(b, p, behind) ELSE IF j = n THEN SetPrev(b, s[1], before) ELSE b
           d == SetPrev(c, x, Null)
<1>11. g = SetNext(d, x, Null)
  <2> DEFINE a0 == IF x # h[p].child THEN SetNext(h, h[x].prev, h[x].next) ELSE h
             b0 == IF h[x].next # Null THEN SetPrev(a0, h[x].next, h[x].prev) ELSE a0
             c0 == IF x = h[p].child THEN SetChild(b0, p, h[x].next)
                   ELSE IF h[x].next = Null THEN SetPrev(b0, h[p].child, h[x].prev)
                   ELSE b0
  <2>1. g = SetNext(SetPrev(c0, x, Null), x, Null)
    BY UnlinkedSets, Zenon
  <2>2. a0 = a
    BY <1>7
  <2> HIDE DEF a, a0
  <2>3. b0 = b
    BY <1>9, <2>2
  <2> HIDE DEF b, b0
  <2>4. c0 = c
    BY <1>7, <1>9, <2>3
  <2> HIDE DEF c, c0
  <2>5. QED
    BY <2>1, <2>4
<1> HIDE DEF x, before, behind, g
<1>12. a \in [D -> Item] /\ \A y \in D : a[y].next = (IF j # 1 /\ y = before THEN behind ELSE h[y].next)
        /\ a[y].prev = h[y].prev /\ a[y].child = h[y].child /\ a[y].ref = h[y].ref
  <2>1. h \in [D -> Item] /\ before \in D /\ behind \in Nodes \cup {Null}
    BY <1>1, <1>2, <1>9
  <2>2. CASE j # 1
    BY <2>1, <2>2, NextSet
  <2>3. CASE j = 1
    BY <2>1, <2>3
  <2>4. QED
    BY <2>2, <2>3
<1> HIDE DEF a
<1>13. b \in [D -> Item] /\ \A y \in D : b[y].prev = (IF j # n /\ y = behind THEN before ELSE a[y].prev)
        /\ b[y].next = a[y].next /\ b[y].child = a[y].child /\ b[y].ref = a[y].ref
  <2>1. a \in [D -> Item] /\ before \in Nodes \cup {Null}
    BY <1>2, <1>9, <1>12
  <2>2. CASE j # n
    <3>1. behind \in D
      BY <1>9, <2>2
    <3>2. QED
      BY <2>1, <2>2, <3>1, PrevSet
  <2>3. CASE j = n
    BY <2>1, <2>3
  <2>4. QED
    BY <2>2, <2>3
<1> HIDE DEF b
<1>14. c \in [D -> Item] /\ \A y \in D :
         /\ c[y].child = (IF j = 1 /\ y = p THEN behind ELSE b[y].child) /\ c[y].ref = b[y].ref
         /\ c[y].prev = (IF j # 1 /\ j = n /\ y = s[1] THEN before ELSE b[y].prev) /\ c[y].next = b[y].next
  <2>1. b \in [D -> Item] /\ before \in Nodes \cup {Null} /\ behind \in Nodes \cup {Null} /\ s[1] \in D
    BY <1>2, <1>7, <1>9, <1>13
  <2>2. CASE j = 1
    BY <2>1, <2>2, ChildSet
  <2>3. CASE j # 1 /\ j = n
    <3>1. c = SetPrev(b, s[1], before)
      BY <2>3
    <3> HIDE DEF c
    <3>2. c \in [D -> Item] /\ \A y \in D : c[y].prev = (IF y = s[1] THEN before ELSE b[y].prev)
            /\ c[y].next = b[y].next /\ c[y].child = b[y].child /\ c[y].ref = b[y].ref
      BY <2>1, <3>1, PrevSet
    <3>3. QED
      BY <2>3, <3>2
  <2>4. CASE j # 1 /\ j # n
    BY <2>1, <2>4
  <2>5. QED
    BY <2>2, <2>3, <2>4
<1> HIDE DEF c
<1>15. d \in [D -> Item] /\ \A y \in D : d[y].prev = (IF y = x THEN Null ELSE c[y].prev)
        /\ d[y].next = c[y].next /\ d[y].child = c[y].child /\ d[y].ref = c[y].ref
  <2>1. c \in [D -> Item] /\ x \in D /\ Null \in Nodes \cup {Null}
    BY <1>7, <1>14
  <2>2. QED
    BY <2>1, PrevSet
<1> HIDE DEF d
<1>16. g \in [D -> Item] /\ \A y \in D : g[y].next = (IF y = x THEN Null ELSE d[y].next)
        /\ g[y].prev = d[y].prev /\ g[y].child = d[y].child /\ g[y].ref = d[y].ref
  <2>1. d \in [D -> Item] /\ x \in D /\ Null \in Nodes \cup {Null}
    BY <1>7, <1>15
  <2>2. QED
    BY <1>11, <2>1, NextSet
<1>17. \A y \in D :
         /\ g[y].child = (IF j = 1 /\ y = p THEN behind ELSE h[y].child) /\ g[y].ref = h[y].ref
         /\ g[y].next = (IF y = x THEN Null ELSE IF j # 1 /\ y = before THEN behind ELSE h[y].next)
         /\ g[y].prev = (IF y = x THEN Null ELSE IF j # 1 /\ j = n /\ y = s[1] THEN before
                         ELSE IF j # n /\ y = behind THEN before ELSE h[y].prev)
  BY <1>12, <1>13, <1>14, <1>15, <1>16
<1>18. Linked(g, t)
  <2> DEFINE l == n - 1
  <2>1. l \in Nat /\ l + 1 = n /\ Len(t) = l /\ \A i \in 1 .. l : t[i] = IF i < j THEN s[i] ELSE s[i + 1]
    BY <1>1, <1>5, <1>6
  <2> HIDE DEF l
  <2> SUFFICES ASSUME NEW i \in 1 .. l
               PROVE  /\ g[t[i]].next = IF i = l THEN Null ELSE t[i + 1]
                      /\ g[t[i]].prev = t[IF i = 1 THEN l ELSE i - 1]
    BY <2>1, Zenon DEF Linked
  <2>2. t[l] = IF j = n THEN s[l] ELSE s[n]
    <3>1. l \in 1 .. l /\ (l < j <=> j = n)
      BY <1>6, <2>1
    <3>2. QED
      BY <2>1, <3>1
  <2>3. CASE i < j
    <3>1. i \in 1 .. n /\ i # n /\ i # j /\ j # 1
      BY <1>6, <2>1, <2>3
    <3>2. t[i] = s[i] /\ s[i] \in D /\ s[i] # x
      <4>1. t[i] = s[i]
        BY <2>1, <2>3
      <4>2. s[i] \in D /\ s[i] # x
        BY <1>3, <1>6, <3>1 DEF x
      <4>3. QED
        BY <4>1, <4>2
    <3>3. (s[i] = before <=> i = j - 1) /\ (s[i] = s[1] <=> i = 1) /\ (j # n => s[i] # behind)
      <4>1. j # n => i # j + 1
        BY <1>6, <2>3
      <4>2. QED
        BY <1>3, <1>6, <1>9, <3>1, <4>1
    <3>4. g[s[i]].next = IF i = l THEN Null ELSE t[i + 1]
      <4>1. CASE i = j - 1
        <5>1. g[s[i]].next = behind
          BY <1>17, <3>1, <3>2, <3>3, <4>1
        <5>2. (i = l <=> j = n) /\ i + 1 = j
          BY <1>6, <2>1, <4>1
        <5>3. j # n => j \in 1 .. l /\ ~(j < j)
          BY <1>6, <2>1
        <5>4. j # n => t[j] = s[j + 1]
          BY <2>1, <5>3
        <5>5. QED
          BY <1>9, <5>1, <5>2, <5>4
      <4>2. CASE i # j - 1
        <5>1. i + 1 < j /\ i # l /\ i + 1 \in 1 .. l
          BY <1>6, <2>1, <2>3, <4>2
        <5>2. t[i + 1] = s[i + 1]
          BY <2>1, <5>1
        <5>3. QED
          BY <1>4, <1>17, <3>1, <3>2, <3>3, <4>2, <5>1, <5>2
      <4>3. QED
        BY <4>1, <4>2
    <3>5. g[s[i]].prev = IF i = 1 THEN t[l] ELSE t[i - 1]
      <4>1. CASE i = 1
        <5>1. CASE j = n
          <6>1. g[s[i]].prev = before /\ j - 1 = l
            BY <1>6, <1>17, <2>1, <3>1, <3>2, <4>1, <5>1
          <6>2. QED
            BY <1>9, <2>2, <3>1, <4>1, <5>1, <6>1
        <5>2. CASE j # n
          BY <1>4, <1>17, <2>2, <3>1, <3>2, <3>3, <4>1, <5>2
        <5>3. QED
          BY <5>1, <5>2
      <4>2. CASE i # 1
        <5>1. i - 1 \in 1 .. l /\ i - 1 < j
          BY <1>6, <2>1, <2>3, <4>2
        <5>2. t[i - 1] = s[i - 1]
          BY <2>1, <5>1
        <5>3. QED
          BY <1>4, <1>17, <3>1, <3>2, <3>3, <4>2, <5>2
      <4>3. QED
        BY <4>1, <4>2
    <3>6. QED
      BY <3>2, <3>4, <3>5
  <2>4. CASE ~(i < j)
    <3> DEFINE m == i + 1
    <3>1. m \in 1 .. n /\ m # j /\ m # 1 /\ j # n /\ (m = n <=> i = l) /\ m - 1 = i /\ m # j - 1
      BY <1>6, <2>1, <2>4
    <3>2. t[i] = s[m]
      BY <2>1, <2>4
    <3> HIDE DEF m
    <3>3. s[m] \in D /\ s[m] # x /\ (s[m] = behind <=> m = j + 1) /\ ~(j # 1 /\ s[m] = before) /\ s[m] # s[1]
      <4>1. s[m] \in D /\ s[m] # x /\ s[m] # s[1]
        BY <1>3, <1>6, <3>1 DEF x
      <4>2. s[m] = behind <=> m = j + 1
        BY <1>3, <1>9, <3>1
      <4>3. ~(j # 1 /\ s[m] = before)
        BY <1>3, <1>9, <3>1
      <4>4. QED
        BY <4>1, <4>2, <4>3
    <3>4. g[s[m]].next = IF i = l THEN Null ELSE t[i + 1]
      <4>1. i # l => m \in 1 .. l /\ ~(m < j) /\ i + 1 = m
        BY <1>6, <2>1, <2>4 DEF m
      <4>2. i # l => t[m] = s[m + 1]
        BY <2>1, <4>1
      <4>3. QED
        BY <1>4, <1>17, <3>1, <3>3, <4>1, <4>2
    <3>5. g[s[m]].prev = IF i = 1 THEN t[l] ELSE t[i - 1]
      <4>1. CASE m = j + 1
        <5>1. i = j /\ g[s[m]].prev = before
          BY <1>6, <1>17, <3>1, <3>3, <4>1 DEF m
        <5>2. j = 1 => before = s[n] /\ t[l] = s[n]
          BY <1>8, <2>2, <3>1
        <5>3. j # 1 => j - 1 \in 1 .. l /\ j - 1 < j
          BY <1>6, <2>1
        <5>4. j # 1 => t[j - 1] = s[j - 1]
          BY <2>1, <5>3
        <5>5. QED
          BY <1>9, <5>1, <5>2, <5>4
      <4>2. CASE m # j + 1
        <5>1. i # 1 /\ i - 1 \in 1 .. l /\ ~(i - 1 < j) /\ i - 1 + 1 = i
          BY <1>6, <2>1, <2>4, <4>2 DEF m
        <5>2. t[i - 1] = s[i]
          BY <2>1, <5>1
        <5>3. QED
          BY <1>4, <1>17, <3>1, <3>3, <4>2, <5>1, <5>2
      <4>3. QED
        BY <4>1, <4>2
    <3>6. QED
      BY <3>2, <3>4, <3>5
  <2>5. QED
    BY <2>3, <2>4
<1>19. Shape(g, [k EXCEPT ![p] = t], (top \ ToSet(t)) \cup (ToSet(k[p]) \ ToSet(t)))
  <2>1. \A y \in D : y \notin ToSet(k[p]) /\ y \notin ToSet(t) => g[y].next = h[y].next /\ g[y].prev = h[y].prev
    <3>1. j # 1 => before \in ToSet(s)
      BY <1>3, <1>9
    <3>2. j # n => behind \in ToSet(s)
      BY <1>3, <1>9
    <3>3. s[1] \in ToSet(s)
      BY <1>3, <1>6
    <3>4. QED
      BY <1>7, <1>17, <3>1, <3>2, <3>3 DEF s
  <2>2. \A y \in ToSet(t) : y \in ToSet(k[p]) \/ y \in top
    BY <1>5 DEF s, x
  <2>3. \A y \in ToSet(k[p]) : y \notin ToSet(t) => g[y].next = Null /\ g[y].prev = Null
    BY <1>5, <1>7, <1>17 DEF s, x
  <2>4. \A y \in D : g[y].ref = h[y].ref /\ g[y].child = IF y = p THEN FirstOf(t) ELSE h[y].child
    BY <1>7, <1>10, <1>17
  <2>5. QED
    BY <1>5, <1>16, <1>18, <2>1, <2>2, <2>3, <2>4, Surgery
<1>20. (top \ ToSet(t)) \cup (ToSet(k[p]) \ ToSet(t)) = top \cup {x}
  <2>1. \A y \in top : y \notin ToSet(s)
    BY OwnList DEF s
  <2>2. ToSet(t) = ToSet(s) \ {x} /\ x \in ToSet(s)
    BY <1>5, <1>7 DEF s, x
  <2>3. QED
    BY <2>1, <2>2 DEF s
<1>21. RefsStay(h, g)
  <2>1. DOMAIN g = D /\ \A r \in D : g[r].ref = h[r].ref /\ (h[r].ref => g[r].child = h[r].child)
    BY <1>16, <1>17
  <2>2. QED
    BY <2>1 DEF RefsStay
<1>22. QED
  BY <1>19, <1>20, <1>21 DEF g, t, s, x

\* cJSON_ReplaceItemViaPointer, an item of the list, before it is deleted.
LEMMA Replacing ==
  ASSUME NEW h, NEW k, NEW top, Shape(h, k, top), NEW p \in DOMAIN h, ~h[p].ref, ~Shown(h, p),
         NEW y \in top, y # p, NEW j \in 1 .. Len(k[p])
  PROVE  /\ Shape(Replaced(h, p, k[p][j], y), [k EXCEPT ![p] = Swapped(k[p], j, y)],
                  (top \ {y}) \cup {k[p][j]})
         /\ RefsStay(h, Replaced(h, p, k[p][j], y))
<1> DEFINE D == DOMAIN h
           s == k[p]
           n == Len(s)
           t == Swapped(s, j, y)
           x == s[j]
           g == Replaced(h, p, x, y)
           before == h[x].prev
           behind == h[x].next
<1>1. /\ h \in [D -> Item] /\ Null \notin D /\ D \subseteq Nodes /\ y \in D /\ y \notin ToSet(s)
      /\ s \in Seq(D) /\ IsInjective(s) /\ n \in Nat /\ ToSet(s) \subseteq D
  BY OwnList
<1>2. \A v \in D : v \in Nodes \cup {Null}
  BY <1>1
<1>3. /\ n # 0 => h[p].child = s[1]
      /\ \A i \in 1 .. n : s[i] \in D /\ s[i] \in ToSet(s)
      /\ \A i, m \in 1 .. n : s[i] = s[m] => i = m
  BY OwnList
<1>4. \A i \in 1 .. n : /\ h[s[i]].next = IF i = n THEN Null ELSE s[i + 1]
                        /\ h[s[i]].prev = IF i = 1 THEN s[n] ELSE s[i - 1]
  BY OwnList
<1>5. /\ t \in Seq(D) /\ IsInjective(t) /\ ToSet(t) = (ToSet(s) \ {x}) \cup {y} /\ Len(t) = n
      /\ \A i \in 1 .. n : t[i] = IF i = j THEN y ELSE s[i]
  <2>1. s \in Seq(D) /\ IsInjective(s) /\ j \in 1 .. Len(s) /\ y \in D /\ y \notin ToSet(s)
    BY <1>1
  <2> HIDE DEF s
  <2>2. /\ Swapped(s, j, y) \in Seq(D) /\ IsInjective(Swapped(s, j, y))
        /\ ToSet(Swapped(s, j, y)) = (ToSet(s) \ {s[j]}) \cup {y}
        /\ Len(Swapped(s, j, y)) = Len(s)
        /\ \A i \in 1 .. Len(s) : Swapped(s, j, y)[i] = IF i = j THEN y ELSE s[i]
    BY <2>1, SwappedList
  <2>3. QED
    BY <2>2
<1>6. j \in 1 .. n /\ j \in Nat /\ j >= 1 /\ j <= n /\ n # 0 /\ 1 \in 1 .. n /\ n \in 1 .. n
  BY <1>1
<1>7. x \in D /\ x \in ToSet(s) /\ x # y /\ (h[p].child = x <=> j = 1) /\ h[p].child = s[1]
      /\ s[1] \in D /\ s[1] # y
  BY <1>1, <1>3, <1>6
<1>8. before = (IF j = 1 THEN s[n] ELSE s[j - 1]) /\ behind = IF j = n THEN Null ELSE s[j + 1]
  BY <1>4
<1>9. /\ before \in D /\ (behind = Null <=> j = n) /\ (j # n => behind \in D)
      /\ (j # 1 => before = s[j - 1] /\ j - 1 \in 1 .. n) /\ (j # n => behind = s[j + 1] /\ j + 1 \in 1 .. n)
  <2>1. (j # 1 => j - 1 \in 1 .. n) /\ (j # n => j + 1 \in 1 .. n)
    BY <1>1, <1>6
  <2>2. QED
    BY <1>1, <1>3, <1>6, <1>8, <2>1
<1>10. before # y /\ behind # y /\ behind # x /\ (j # 1 => before # x) /\ (j = 1 => (before = x <=> n = 1))
  <2>1. \A i \in 1 .. n : s[i] # y
    BY <1>1, <1>3
  <2>2. before # y /\ behind # y
    BY <1>1, <1>6, <1>8, <1>9, <2>1
  <2>3. behind # x
    <3>1. j + 1 # j /\ s[j] = x
      BY <1>6
    <3>2. CASE j = n
      BY <1>1, <1>7, <1>9, <3>2
    <3>3. CASE j # n
      <4>1. behind = s[j + 1] /\ j + 1 \in 1 .. n
        BY <1>9, <3>3
      <4> HIDE DEF behind, x
      <4>2. QED
        BY <1>3, <1>6, <3>1, <4>1
    <3>4. QED
      BY <3>2, <3>3
  <2>4. j # 1 => before # x
    <3>1. j - 1 # j
      BY <1>6
    <3>2. QED
      BY <1>3, <1>6, <1>9, <3>1
  <2>5. j = 1 => (before = x <=> n = 1)
    BY <1>3, <1>6, <1>8
  <2>6. QED
    BY <2>2, <2>3, <2>4, <2>5
<1> HIDE DEF s, n, t
<1>11. FirstOf(t) = IF j = 1 THEN y ELSE s[1]
  <2>1. t # <<>>
    BY <1>5, <1>6
  <2>2. t[1] = IF j = 1 THEN y ELSE s[1]
    BY <1>5, <1>6
  <2>3. QED
    BY <2>1, <2>2 DEF FirstOf
\* The steps of the function, one after the other.
<1> DEFINE a == Inherited(h, x, y)
           b == NextTold(a, y)
           c == BeforeTold(b, p, x, y)
<1>12. g = Alone(c, x)
  BY Zenon DEF Replaced
<1> DEFINE a1 == SetNext(h, y, behind)
<1>13. a = SetPrev(a1, y, before)
  BY InheritedSets
<1> HIDE DEF x, before, behind, g, a, b, c
<1>14. a1 \in [D -> Item] /\ \A v \in D : a1[v].next = (IF v = y THEN behind ELSE h[v].next)
        /\ a1[v].prev = h[v].prev /\ a1[v].child = h[v].child /\ a1[v].ref = h[v].ref
  <2>1. h \in [D -> Item] /\ y \in D /\ behind \in Nodes \cup {Null}
    BY <1>1, <1>2, <1>9
  <2>2. QED
    BY <2>1, NextSet
<1> HIDE DEF a1
<1>15. a \in [D -> Item] /\ \A v \in D : a[v].prev = (IF v = y THEN before ELSE a1[v].prev)
        /\ a[v].next = a1[v].next /\ a[v].child = a1[v].child /\ a[v].ref = a1[v].ref
  <2>1. a1 \in [D -> Item] /\ y \in D /\ before \in Nodes \cup {Null}
    BY <1>1, <1>2, <1>9, <1>14
  <2>2. QED
    BY <1>13, <2>1, PrevSet
<1>16. b \in [D -> Item] /\ \A v \in D : b[v].prev = (IF j # n /\ v = behind THEN y ELSE a[v].prev)
        /\ b[v].next = a[v].next /\ b[v].child = a[v].child /\ b[v].ref = a[v].ref
  <2>1. a[y].next = behind /\ b = IF a[y].next # Null THEN SetPrev(a, a[y].next, y) ELSE a
    BY <1>1, <1>14, <1>15, ReplacedSets DEF b
  <2>2. CASE j # n
    <3>1. a \in [D -> Item] /\ behind \in D /\ y \in Nodes \cup {Null} /\ b = SetPrev(a, behind, y)
      BY <1>1, <1>2, <1>9, <1>15, <2>1, <2>2
    <3>2. QED
      BY <2>2, <3>1, PrevSet
  <2>3. CASE j = n
    <3>1. b = a
      BY <1>9, <2>1, <2>3
    <3>2. QED
      BY <1>15, <2>3, <3>1
  <2>4. QED
    BY <2>2, <2>3
<1>17. \A v \in D : /\ b[v].prev = (IF j # n /\ v = behind THEN y ELSE IF v = y THEN before ELSE h[v].prev)
                    /\ b[v].next = (IF v = y THEN behind ELSE h[v].next)
                    /\ b[v].child = h[v].child /\ b[v].ref = h[v].ref
  BY <1>14, <1>15, <1>16
<1>18. b[y].next = behind /\ b[y].prev = before /\ b[x].prev = before /\ (b[p].child = x <=> j = 1)
       /\ b[p].child = s[1]
  <2>1. h[x].prev = before
    BY DEF before
  <2>2. QED
    BY <1>1, <1>7, <1>10, <1>17, <2>1
<1>19. c \in [D -> Item] /\ \A v \in D :
         /\ c[v].child = (IF j = 1 /\ v = p THEN y ELSE b[v].child) /\ c[v].ref = b[v].ref
         /\ c[v].next = (IF j # 1 /\ v = before THEN y ELSE b[v].next)
         /\ c[v].prev = (IF j = 1 /\ n = 1 /\ v = y THEN y ELSE IF j # 1 /\ j = n /\ v = s[1] THEN y ELSE b[v].prev)
  <2>1. CASE j = 1
    <3> DEFINE w == IF b[x].prev = x THEN y ELSE b[y].prev
               e == SetPrev(b, y, w)
    <3>1. c = SetChild(e, p, y)
      BY <1>18, <2>1, ReplacedSets DEF c
    <3>2. w = IF n = 1 THEN y ELSE before
      BY <1>10, <1>18, <2>1
    <3> HIDE DEF w
    <3>3. b \in [D -> Item] /\ y \in D /\ w \in Nodes \cup {Null} /\ y \in Nodes \cup {Null}
      BY <1>1, <1>2, <1>9, <1>16, <3>2
    <3>4. e \in [D -> Item] /\ \A v \in D : e[v].prev = (IF v = y THEN w ELSE b[v].prev)
            /\ e[v].next = b[v].next /\ e[v].child = b[v].child /\ e[v].ref = b[v].ref
      BY <3>3, PrevSet
    <3> HIDE DEF e
    <3>5. c \in [D -> Item] /\ \A v \in D : c[v].child = (IF v = p THEN y ELSE e[v].child)
            /\ c[v].next = e[v].next /\ c[v].prev = e[v].prev /\ c[v].ref = e[v].ref
      BY <3>1, <3>3, <3>4, ChildSet
    <3>6. QED
      BY <1>18, <2>1, <3>2, <3>4, <3>5
  <2>2. CASE j # 1
    <3> DEFINE e == SetNext(b, before, y)
    <3>1. b \in [D -> Item] /\ before \in D /\ y \in Nodes \cup {Null}
      BY <1>1, <1>2, <1>9, <1>16
    <3>2. e \in [D -> Item] /\ \A v \in D : e[v].next = (IF v = before THEN y ELSE b[v].next)
            /\ e[v].prev = b[v].prev /\ e[v].child = b[v].child /\ e[v].ref = b[v].ref
      BY <3>1, NextSet
    <3>3. CASE j # n
      <4>1. c = e
        BY <1>9, <1>18, <2>2, <3>3, ReplacedSets DEF c
      <4> HIDE DEF e
      <4>2. QED
        BY <2>2, <3>2, <3>3, <4>1
    <3>4. CASE j = n
      <4>1. c = SetPrev(e, e[p].child, y)
        BY <1>9, <1>18, <2>2, <3>4, ReplacedSets DEF c
      <4>2. e[p].child = s[1]
        BY <1>18, <3>2
      <4> HIDE DEF e
      <4>3. e \in [D -> Item] /\ s[1] \in D /\ y \in Nodes \cup {Null}
        BY <1>7, <3>1, <3>2
      <4>4. c \in [D -> Item] /\ \A v \in D : c[v].prev = (IF v = s[1] THEN y ELSE e[v].prev)
              /\ c[v].next = e[v].next /\ c[v].child = e[v].child /\ c[v].ref = e[v].ref
        BY <4>1, <4>2, <4>3, PrevSet
      <4>5. QED
        BY <2>2, <3>2, <3>4, <4>4
    <3>5. QED
      BY <3>3, <3>4
  <2>3. QED
    BY <2>1, <2>2
<1> DEFINE d == SetNext(c, x, Null)
<1>20. g = SetPrev(d, x, Null)
  BY <1>12, ReplacedSets
<1>21. d \in [D -> Item] /\ \A v \in D : d[v].next = (IF v = x THEN Null ELSE c[v].next)
        /\ d[v].prev = c[v].prev /\ d[v].child = c[v].child /\ d[v].ref = c[v].ref
  <2>1. c \in [D -> Item] /\ x \in D /\ Null \in Nodes \cup {Null}
    BY <1>7, <1>19
  <2>2. QED
    BY <2>1, NextSet
<1> HIDE DEF d
<1>22. g \in [D -> Item] /\ \A v \in D : g[v].prev = (IF v = x THEN Null ELSE d[v].prev)
        /\ g[v].next = d[v].next /\ g[v].child = d[v].child /\ g[v].ref = d[v].ref
  <2>1. d \in [D -> Item] /\ x \in D /\ Null \in Nodes \cup {Null}
    BY <1>7, <1>21
  <2>2. QED
    BY <1>20, <2>1, PrevSet
<1>23. \A v \in D :
         /\ g[v].child = (IF j = 1 /\ v = p THEN y ELSE h[v].child) /\ g[v].ref = h[v].ref
         /\ g[v].next = (IF v = x THEN Null ELSE IF j # 1 /\ v = before THEN y
                         ELSE IF v = y THEN behind ELSE h[v].next)
         /\ g[v].prev = (IF v = x THEN Null ELSE IF j = 1 /\ n = 1 /\ v = y THEN y
                         ELSE IF j # 1 /\ j = n /\ v = s[1] THEN y ELSE IF j # n /\ v = behind THEN y
                         ELSE IF v = y THEN before ELSE h[v].prev)
  BY <1>17, <1>19, <1>21, <1>22
<1>24. Linked(g, t)
  <2> SUFFICES ASSUME NEW i \in 1 .. n
               PROVE  /\ g[t[i]].next = IF i = n THEN Null ELSE t[i + 1]
                      /\ g[t[i]].prev = t[IF i = 1 THEN n ELSE i - 1]
    BY <1>5, Zenon DEF Linked
  <2>1. i \in Nat /\ (i # n => i + 1 \in 1 .. n) /\ (i # 1 => i - 1 \in 1 .. n)
    BY <1>1
  <2>2. CASE i = j
    <3>1. t[i] = y /\ y # x
      BY <1>5, <1>7, <2>2
    <3>2. g[y].next = behind
      BY <1>1, <1>7, <1>10, <1>23
    <3>3. g[y].prev = IF j = 1 /\ n = 1 THEN y ELSE before
      BY <1>1, <1>7, <1>10, <1>23
    <3>4. i # n => t[i + 1] = s[j + 1]
      <4>1. j + 1 # j
        BY <1>6
      <4>2. QED
        BY <1>5, <2>1, <2>2, <4>1
    <3>5. i # 1 => t[i - 1] = s[j - 1]
      <4>1. j - 1 # j
        BY <1>6
      <4>2. QED
        BY <1>5, <2>1, <2>2, <4>1
    <3>6. i = 1 => t[n] = IF n = 1 THEN y ELSE s[n]
      BY <1>5, <1>6, <2>2
    <3>7. QED
      BY <1>8, <2>2, <3>1, <3>2, <3>3, <3>4, <3>5, <3>6
  <2>3. CASE i # j
    <3>1. t[i] = s[i] /\ s[i] \in D /\ s[i] # y
      BY <1>1, <1>3, <1>5, <2>3
    <3>2. s[i] # x /\ (s[i] = s[1] <=> i = 1)
      BY <1>3, <1>6, <2>3 DEF x
    <3>3. j # 1 => (s[i] = before <=> i = j - 1)
      BY <1>3, <1>9
    <3>4. j # n => (s[i] = behind <=> i = j + 1)
      BY <1>3, <1>9
    <3>5. g[s[i]].next = IF i = n THEN Null ELSE t[i + 1]
      <4>1. CASE j # 1 /\ i = j - 1
        <5>1. i # n /\ i + 1 = j
          BY <1>6, <4>1
        <5>2. t[i + 1] = y
          BY <1>5, <1>6, <5>1
        <5>3. QED
          BY <1>23, <3>1, <3>2, <3>3, <4>1, <5>1, <5>2
      <4>2. CASE ~(j # 1 /\ i = j - 1)
        <5>1. i # n => i + 1 # j
          BY <1>6, <2>1, <4>2
        <5>2. i # n => t[i + 1] = s[i + 1]
          BY <1>5, <2>1, <5>1
        <5>3. QED
          BY <1>4, <1>23, <3>1, <3>2, <3>3, <4>2, <5>2
      <4>3. QED
        BY <4>1, <4>2
    <3>6. g[s[i]].prev = IF i = 1 THEN t[n] ELSE t[i - 1]
      <4>1. CASE i = 1
        <5>1. t[n] = IF j = n THEN y ELSE s[n]
          BY <1>5, <1>6
        <5>2. j # n => s[i] # behind
          <6>1. j + 1 # 1
            BY <1>6
          <6>2. QED
            BY <3>4, <4>1, <6>1
        <5>3. QED
          BY <1>4, <1>23, <2>3, <3>1, <3>2, <4>1, <5>1, <5>2
      <4>2. CASE i # 1
        <5>1. i - 1 = j <=> i = j + 1
          BY <1>6, <2>1
        <5>2. t[i - 1] = IF i = j + 1 THEN y ELSE s[i - 1]
          BY <1>5, <2>1, <4>2, <5>1
        <5>3. i = j + 1 => j # n
          BY <1>6, <2>1
        <5>4. QED
          BY <1>4, <1>23, <3>1, <3>2, <3>4, <4>2, <5>2, <5>3
      <4>3. QED
        BY <4>1, <4>2
    <3>7. QED
      BY <3>1, <3>5, <3>6
  <2>4. QED
    BY <2>2, <2>3
<1>25. Shape(g, [k EXCEPT ![p] = t], (top \ ToSet(t)) \cup (ToSet(k[p]) \ ToSet(t)))
  <2>1. \A v \in D : v \notin ToSet(k[p]) /\ v \notin ToSet(t) => g[v].next = h[v].next /\ g[v].prev = h[v].prev
    <3>1. (j # 1 => before \in ToSet(s)) /\ (j # n => behind \in ToSet(s)) /\ s[1] \in ToSet(s)
      BY <1>3, <1>6, <1>9
    <3>2. y \in ToSet(t) /\ x \in ToSet(s)
      BY <1>5, <1>7
    <3>3. QED
      BY <1>23, <3>1, <3>2 DEF s
  <2>2. \A v \in ToSet(t) : v \in ToSet(k[p]) \/ v \in top
    BY <1>5 DEF s, x
  <2>3. \A v \in ToSet(k[p]) : v \notin ToSet(t) => g[v].next = Null /\ g[v].prev = Null
    BY <1>5, <1>7, <1>23 DEF s, x
  <2>4. \A v \in D : g[v].ref = h[v].ref /\ g[v].child = IF v = p THEN FirstOf(t) ELSE h[v].child
    BY <1>7, <1>11, <1>23
  <2>5. QED
    BY <1>5, <1>22, <1>24, <2>1, <2>2, <2>3, <2>4, Surgery
<1>26. (top \ ToSet(t)) \cup (ToSet(k[p]) \ ToSet(t)) = (top \ {y}) \cup {x}
  <2>1. \A v \in top : v \notin ToSet(s)
    BY OwnList DEF s
  <2>2. ToSet(t) = (ToSet(s) \ {x}) \cup {y} /\ x \in ToSet(s) /\ x # y
    BY <1>5, <1>7 DEF s, x
  <2>3. QED
    BY <2>1, <2>2 DEF s
<1>27. RefsStay(h, g)
  <2>1. DOMAIN g = D /\ \A r \in D : g[r].ref = h[r].ref /\ (h[r].ref => g[r].child = h[r].child)
    BY <1>22, <1>23
  <2>2. QED
    BY <2>1 DEF RefsStay
<1>28. QED
  BY <1>25, <1>26, <1>27 DEF g, t, s, x

-----------------------------------------------------------------------------
(***************************************************************************)
(* Items that come and go                                                  *)
(***************************************************************************)

\* Nothing but keys was changed.
LEMMA Renaming ==
  ASSUME NEW h, NEW k, NEW top, Shape(h, k, top), NEW g \in [DOMAIN h -> Item],
         \A y \in DOMAIN h : /\ g[y].next = h[y].next /\ g[y].prev = h[y].prev
                             /\ g[y].child = h[y].child /\ g[y].ref = h[y].ref
  PROVE  Shape(g, k, top)
<1> DEFINE D == DOMAIN h
<1>1. /\ D \subseteq Nodes /\ k \in [D -> Seq(D)] /\ top \subseteq D /\ DOMAIN g = D
      /\ \A p \in D : HasList(h, p, k[p]) /\ ShowsList(h, p)
      /\ OnePlace(k) /\ Loose(h, k, top) /\ Placed(k, top)
  BY DEF Shape
<1>2. \A p \in D : \A i \in 1 .. Len(k[p]) : k[p][i] \in D
  BY HeapFacts
<1>3. ASSUME NEW p \in D PROVE HasList(g, p, k[p])
  <2>1. Linked(h, k[p]) => Linked(g, k[p])
    <3> SUFFICES ASSUME Linked(h, k[p]), NEW i \in 1 .. Len(k[p])
                 PROVE  /\ g[k[p][i]].next = IF i = Len(k[p]) THEN Null ELSE k[p][i + 1]
                        /\ g[k[p][i]].prev = k[p][IF i = 1 THEN Len(k[p]) ELSE i - 1]
      BY Zenon DEF Linked
    <3>1. /\ h[k[p][i]].next = IF i = Len(k[p]) THEN Null ELSE k[p][i + 1]
          /\ h[k[p][i]].prev = k[p][IF i = 1 THEN Len(k[p]) ELSE i - 1]
      BY Zenon DEF Linked
    <3>2. QED
      BY <1>2, <3>1
  <2>2. QED
    BY <1>1, <2>1 DEF HasList
<1>4. ASSUME NEW r \in D PROVE ShowsList(g, r)
  <2> SUFFICES ASSUME g[r].ref, g[r].child # Null
               PROVE  \E o \in D : ~g[o].ref /\ g[o].child = g[r].child
    BY <1>1 DEF ShowsList
  <2>1. \A o \in D : g[o].ref = h[o].ref /\ g[o].child = h[o].child
    OBVIOUS
  <2>2. PICK o \in D : ~h[o].ref /\ h[o].child = h[r].child
    BY <1>1, <2>1 DEF ShowsList
  <2>3. QED
    BY <2>1, <2>2
<1>5. Loose(g, k, top)
  BY <1>1 DEF Loose
<1>6. QED
  BY <1>1, <1>3, <1>4, <1>5 DEF Shape

\* What is new: items of which no other heap knows, with lists among themselves;
\* references may show a list of the heap.
Graft(h, g, kg, new) ==
  /\ DOMAIN g \subseteq Nodes \ DOMAIN h /\ g \in [DOMAIN g -> Item]
  /\ kg \in [DOMAIN g -> Seq(DOMAIN g)] /\ new \subseteq DOMAIN g
  /\ \A p \in DOMAIN g : HasList(g, p, kg[p])
  /\ \A r \in DOMAIN g : g[r].ref /\ g[r].child # Null =>
       \E o \in DOMAIN h : ~h[o].ref /\ h[o].child = g[r].child
  /\ OnePlace(kg) /\ Loose(g, kg, new) /\ Placed(kg, new)

LEMMA LinkedSame ==
  ASSUME NEW h, NEW g, NEW D, NEW s \in Seq(D), \A y \in D : g[y] = h[y], Linked(h, s)
  PROVE  Linked(g, s)
<1> SUFFICES ASSUME NEW i \in 1 .. Len(s)
             PROVE  /\ g[s[i]].next = IF i = Len(s) THEN Null ELSE s[i + 1]
                    /\ g[s[i]].prev = s[IF i = 1 THEN Len(s) ELSE i - 1]
  BY Zenon DEF Linked
<1>1. /\ h[s[i]].next = IF i = Len(s) THEN Null ELSE s[i + 1]
      /\ h[s[i]].prev = s[IF i = 1 THEN Len(s) ELSE i - 1]
  BY Zenon DEF Linked
<1>2. s[i] \in D
  BY ElementOfSeq
<1>3. QED
  BY <1>1, <1>2

LEMMA Grafting ==
  ASSUME NEW h, NEW k, NEW top, Shape(h, k, top), NEW g, NEW kg, NEW new, Graft(h, g, kg, new)
  PROVE  Shape(Both(g, h), Both(kg, k), top \cup new)
<1> DEFINE D == DOMAIN h
           E == DOMAIN g
           f == Both(g, h)
           l == Both(kg, k)
<1>1. /\ D \subseteq Nodes /\ h \in [D -> Item] /\ k \in [D -> Seq(D)] /\ top \subseteq D
      /\ \A q \in D : HasList(h, q, k[q]) /\ ShowsList(h, q)
      /\ OnePlace(k) /\ Loose(h, k, top) /\ Placed(k, top) /\ DOMAIN k = D
  BY DEF Shape
<1>2. /\ E \subseteq Nodes \ D /\ g \in [E -> Item] /\ kg \in [E -> Seq(E)] /\ new \subseteq E /\ DOMAIN kg = E
      /\ \A p \in E : HasList(g, p, kg[p])
      /\ \A r \in E : g[r].ref /\ g[r].child # Null => \E o \in D : ~h[o].ref /\ h[o].child = g[r].child
      /\ OnePlace(kg) /\ Loose(g, kg, new) /\ Placed(kg, new)
  BY DEF Graft
<1>3. /\ DOMAIN f = E \cup D /\ DOMAIN l = E \cup D
      /\ \A y \in E : f[y] = g[y] /\ l[y] = kg[y]
      /\ \A y \in D : f[y] = h[y] /\ l[y] = k[y]
  BY <1>1, <1>2 DEF Both
<1>4. f = [y \in E \cup D |-> f[y]] /\ l = [y \in E \cup D |-> l[y]]
  BY <1>1, <1>2 DEF Both
<1> HIDE DEF f, l
<1>5. f \in [E \cup D -> Item]
  BY <1>1, <1>2, <1>3, <1>4
<1>6. l \in [E \cup D -> Seq(E \cup D)]
  <2>1. \A s \in Seq(E) : s \in Seq(E \cup D)
    BY SeqMonotonic
  <2>2. \A s \in Seq(D) : s \in Seq(E \cup D)
    BY SeqMonotonic
  <2>3. \A y \in E \cup D : l[y] \in Seq(E \cup D)
    BY <1>1, <1>2, <1>3, <2>1, <2>2
  <2>4. QED
    BY <1>4, <2>3
<1>7. ASSUME NEW q \in E \cup D PROVE HasList(f, q, l[q])
  <2>1. CASE q \in E
    <3>1. HasList(g, q, kg[q]) /\ l[q] = kg[q] /\ f[q] = g[q] /\ kg[q] \in Seq(E)
      BY <1>2, <1>3, <2>1
    <3>2. \A y \in E : f[y] = g[y]
      BY <1>3
    <3>3. Linked(g, kg[q]) => Linked(f, kg[q])
      BY <3>1, <3>2, LinkedSame
    <3>4. QED
      BY <3>1, <3>3 DEF HasList
  <2>2. CASE q \in D
    <3>1. HasList(h, q, k[q]) /\ l[q] = k[q] /\ f[q] = h[q] /\ k[q] \in Seq(D)
      BY <1>1, <1>3, <2>2
    <3>2. \A y \in D : f[y] = h[y]
      BY <1>3
    <3>3. Linked(h, k[q]) => Linked(f, k[q])
      BY <3>1, <3>2, LinkedSame
    <3>4. QED
      BY <3>1, <3>3 DEF HasList
  <2>3. QED
    BY <2>1, <2>2
<1>8. ASSUME NEW q \in E \cup D PROVE ShowsList(f, q)
  <2>1. CASE q \in E
    BY <1>2, <1>3, <2>1 DEF ShowsList
  <2>2. CASE q \in D
    BY <1>1, <1>3, <2>2 DEF ShowsList
  <2>3. QED
    BY <2>1, <2>2
<1>9. /\ \A q \in E : ToSet(l[q]) \subseteq E /\ ToSet(l[q]) = ToSet(kg[q])
      /\ \A q \in D : ToSet(l[q]) \subseteq D /\ ToSet(l[q]) = ToSet(k[q])
  <2>1. \A S, s : s \in Seq(S) => ToSet(s) \subseteq S
    BY ElementOfSeq, LenProperties DEF ToSet
  <2>2. QED
    BY <1>1, <1>2, <1>3, <2>1
<1>10. OnePlace(l)
  BY <1>1, <1>2, <1>3, <1>9 DEF OnePlace
<1>11. Loose(f, l, top \cup new)
  <2> SUFFICES ASSUME NEW x \in top \cup new
               PROVE  f[x].next = Null /\ f[x].prev = Null /\ \A q \in E \cup D : x \notin ToSet(l[q])
    BY <1>3 DEF Loose
  <2>1. CASE x \in top
    BY <1>1, <1>2, <1>3, <1>9, <2>1 DEF Loose
  <2>2. CASE x \in new
    BY <1>1, <1>2, <1>3, <1>9, <2>2 DEF Loose
  <2>3. QED
    BY <2>1, <2>2
<1>12. Placed(l, top \cup new)
  <2> SUFFICES ASSUME NEW x \in E \cup D, x \notin top \cup new PROVE \E q \in E \cup D : x \in ToSet(l[q])
    BY <1>3 DEF Placed
  <2>1. CASE x \in E
    BY <1>2, <1>9, <2>1 DEF Placed
  <2>2. CASE x \in D
    BY <1>1, <1>9, <2>2 DEF Placed
  <2>3. QED
    BY <2>1, <2>2
<1>13. E \cup D \subseteq Nodes /\ top \cup new \subseteq E \cup D
  BY <1>1, <1>2
<1>14. Shape(f, l, top \cup new)
  BY <1>3, <1>5, <1>6, <1>7, <1>8, <1>10, <1>11, <1>12, <1>13 DEF Shape
<1>15. QED
  BY <1>14 DEF f, l

\* A new item points nowhere, but a reference shows what an item of the heap does.
Fits(h, i) ==
  /\ i \in Item /\ i.next = Null /\ i.prev = Null
  /\ i.child = Null \/ (i.ref /\ \E o \in DOMAIN h : ~h[o].ref /\ h[o].child = i.child)

LEMMA NewItem ==
  ASSUME NEW h, NEW k, NEW top, Shape(h, k, top), NEW x \in Nodes, x \notin DOMAIN h,
         NEW i, Fits(h, i)
  PROVE  Shape(Both(Single(x, i), h), Both(Single(x, <<>>), k), top \cup {x})
<1> DEFINE g == Single(x, i)
           kg == Single(x, <<>>)
<1>1. DOMAIN g = {x} /\ g[x] = i /\ DOMAIN kg = {x} /\ kg[x] = <<>> /\ g \in [{x} -> Item]
  BY DEF Single, Fits
<1>1a. /\ i.next = Null /\ i.prev = Null
       /\ ~i.ref => i.child = Null
       /\ i.ref /\ i.child # Null => \E o \in DOMAIN h : ~h[o].ref /\ h[o].child = i.child
  BY DEF Fits
<1>2. kg \in [{x} -> Seq({x})]
  BY DEF Single
<1> HIDE DEF g, kg
<1>3. ToSet(<<>>) = {}
  BY DEF ToSet
<1>4. HasList(g, x, kg[x])
  <2>1. Linked(g, <<>>) /\ IsInjective(<<>>) /\ FirstOf(<<>>) = Null
    BY DEF Linked, IsInjective, FirstOf
  <2>2. QED
    BY <1>1, <1>1a, <2>1 DEF HasList
<1>5. OnePlace(kg) /\ Loose(g, kg, {x}) /\ Placed(kg, {x})
  BY <1>1, <1>1a, <1>3 DEF OnePlace, Loose, Placed
<1>6. Graft(h, g, kg, {x})
  BY <1>1, <1>1a, <1>2, <1>4, <1>5 DEF Graft
<1>7. Shape(Both(g, h), Both(kg, k), top \cup {x})
  BY <1>6, Grafting
<1>8. QED
  BY <1>7 DEF g, kg

-----------------------------------------------------------------------------
(***************************************************************************)
(* What cJSON_Delete frees                                                 *)
(***************************************************************************)

Down(h, y) == IF h[y].ref THEN {} ELSE ToSet(Children(h, y))

BelowStep(h, b, x, n) ==
  IF n = 0 THEN ToSet(ListFrom(h, x)) ELSE b[n - 1] \cup UNION {Down(h, y) : y \in b[n - 1]}

Below(h, x) == CHOOSE b : b = [n \in Nat |-> BelowStep(h, b, x, n)]

LEMMA FreedIsBelow == \A h, x : Freed(h, x) = Below(h, x)[Cardinality(DOMAIN h)]
BY Zenon DEF Freed, Below, BelowStep, Down

\* The lists that are walked from x hold items of the heap only.
Contained(h, x) ==
  /\ IsFiniteSet(DOMAIN h) /\ Cardinality(DOMAIN h) \in Nat
  /\ \A y \in DOMAIN h : Down(h, y) \subseteq DOMAIN h
  /\ ToSet(ListFrom(h, x)) \subseteq DOMAIN h /\ ToSet(ListFrom(h, x)) # {}

\* What is freed is reached from the list of x, going down.
LEMMA FreedIsReached ==
  ASSUME NEW h, NEW x, Contained(h, x)
  PROVE  Reached(DOMAIN h, [y \in DOMAIN h |-> Down(h, y)], ToSet(ListFrom(h, x)), Freed(h, x))
<1> DEFINE D == DOMAIN h
           a == ToSet(ListFrom(h, x))
           d == [y \in D |-> Down(h, y)]
           F == Freed(h, x)
<1>1. IsFiniteSet(D) /\ Cardinality(D) \in Nat
  BY DEF Contained
<1>2. \A y \in D : Down(h, y) = d[y]
  OBVIOUS
<1>3. d \in [D -> SUBSET D] /\ a \in SUBSET D /\ a # {}
  BY DEF Contained
<1>4. a = ToSet(ListFrom(h, x))
  OBVIOUS
<1> DEFINE g == [b \in SUBSET D |-> b \cup UNION {d[y] : y \in b}]
<1>6. g \in [SUBSET D -> SUBSET D]
  <2>1. \A b \in SUBSET D : b \cup UNION {d[y] : y \in b} \in SUBSET D
    BY <1>3
  <2>2. QED
    BY <2>1
<1> HIDE DEF d, a
<1>7. \A b \in SUBSET D : UNION {Down(h, y) : y \in b} = UNION {d[y] : y \in b}
  BY <1>2
<1>8. \A b \in SUBSET D : g[b] = b \cup UNION {Down(h, y) : y \in b}
  BY <1>7
<1> HIDE DEF g
<1>9. PICK f \in [Nat -> SUBSET D] : f[0] = a /\ \A n \in Nat : f[n + 1] = g[f[n]]
  <2> DEFINE S == SUBSET D
  <2>1. a \in S /\ g \in [S -> S]
    BY <1>3, <1>6
  <2> HIDE DEF S
  <2>2. \E f \in [Nat -> S] : f[0] = a /\ \A n \in Nat : f[n + 1] = g[f[n]]
    BY <2>1, RecursionSolves
  <2>3. QED
    BY <2>2 DEF S
<1> DEFINE Solves(b) == b = [n \in Nat |-> BelowStep(h, b, x, n)]
<1>10. ASSUME NEW n \in Nat PROVE f[n] = BelowStep(h, f, x, n)
  <2>1. CASE n = 0
    BY <1>4, <1>9, <2>1 DEF BelowStep
  <2>2. CASE n # 0
    <3> DEFINE m == n - 1
    <3>1. m \in Nat /\ m + 1 = n
      BY <2>2
    <3>2. BelowStep(h, f, x, n) = f[m] \cup UNION {Down(h, y) : y \in f[m]}
      BY <2>2 DEF BelowStep
    <3> HIDE DEF m
    <3>3. f[n] = g[f[m]] /\ f[m] \in SUBSET D
      BY <1>9, <3>1
    <3>4. QED
      BY <1>8, <3>2, <3>3
  <2>3. QED
    BY <2>1, <2>2
<1>11. Solves(f)
  <2>1. f = [n \in Nat |-> f[n]]
    BY <1>9
  <2>2. QED
    BY <1>10, <2>1
<1> DEFINE w == Below(h, x)
<1>12. Solves(w)
  <2>1. w = CHOOSE b : Solves(b)
    BY Zenon DEF Below
  <2> HIDE DEF Solves, w
  <2>2. QED
    BY <1>11, <2>1, Zenon
<1> HIDE DEF w
<1>13. \A n \in Nat : w[n] = BelowStep(h, w, x, n)
  BY <1>12
<1>14. \A n \in Nat : w[n] = f[n]
  <2> DEFINE Differ == {n \in Nat : w[n] # f[n]}
  <2> SUFFICES ASSUME Differ # {} PROVE FALSE
    OBVIOUS
  <2>1. PICK n \in Differ : \A i \in Differ : n <= i
    <3>1. Differ \in SUBSET Nat
      OBVIOUS
    <3> HIDE DEF Differ
    <3>2. QED
      BY <3>1, Least
  <2>2. n \in Nat /\ w[n] # f[n]
    BY <2>1
  <2>3. n # 0
    BY <1>10, <1>13, <2>2 DEF BelowStep
  <2>4. n - 1 \in Nat /\ ~(n <= n - 1)
    BY <2>2, <2>3
  <2>5. w[n - 1] = f[n - 1]
    BY <2>1, <2>4
  <2>6. BelowStep(h, w, x, n) = BelowStep(h, f, x, n)
    BY <2>3, <2>5 DEF BelowStep
  <2>7. QED
    BY <1>10, <1>13, <2>2, <2>6
<1>15. F = f[Cardinality(D)]
  BY <1>1, <1>14, FreedIsBelow DEF w
<1>16. \A n \in Nat : f[n + 1] = f[n] \cup UNION {d[y] : y \in f[n]}
  BY <1>9 DEF g
<1> HIDE DEF F, D
<1>17. Spreads(D, d, a, f)
  BY <1>3, <1>9, <1>16 DEF Spreads
<1>18. Reached(D, d, a, f[Cardinality(D)])
  BY <1>1, <1>3, <1>17, Closure
<1>19. QED
  BY <1>15, <1>18 DEF D, d, a, F

LEMMA FreedItems ==
  ASSUME NEW h, NEW k, NEW top, Shape(h, k, top), NEW x \in top
  PROVE  /\ Freed(h, x) \subseteq DOMAIN h /\ x \in Freed(h, x)
         /\ \A y \in Freed(h, x) : ToSet(k[y]) \subseteq Freed(h, x)
         /\ \A y \in Freed(h, x) : y # x => \E q \in Freed(h, x) : y \in ToSet(k[q])
<1> DEFINE D == DOMAIN h
           a == {x}
           d == [y \in D |-> ToSet(k[y])]
           F == Freed(h, x)
<1>1. /\ IsFiniteSet(D) /\ Null \notin D /\ Cardinality(D) \in Nat /\ x \in D
      /\ \A y \in D : ToSet(k[y]) \subseteq D
  BY HeapFacts
<1>2. \A y \in D : Down(h, y) = d[y]
  <2> TAKE y \in D
  <2>1. CASE h[y].ref
    <3>1. k[y] = <<>>
      BY <2>1 DEF Shape, HasList
    <3>2. ToSet(<<>>) = {}
      BY DEF ToSet
    <3>3. QED
      BY <2>1, <3>1, <3>2 DEF Down
  <2>2. CASE ~h[y].ref
    BY <2>2, ChildrenFound DEF Down
  <2>3. QED
    BY <2>1, <2>2
<1>3. ListFrom(h, x) = <<x>>
  <2>1. <<x>> \in Seq(D) /\ Len(<<x>>) = 1 /\ FirstOf(<<x>>) = x /\ <<x>>[1] = x
    BY <1>1 DEF FirstOf
  <2>2. h[x].next = Null
    BY DEF Shape, Loose
  <2>3. Chained(h, <<x>>)
    BY <2>1, <2>2 DEF Chained
  <2>4. 1 <= Cardinality(D) + 1
    BY <1>1
  <2>5. ListFrom(h, FirstOf(<<x>>)) = <<x>>
    BY <1>1, <2>1, <2>3, <2>4, ListOfChain
  <2>6. QED
    BY <2>1, <2>5
<1>4. ToSet(<<x>>) = a
  BY DEF ToSet
<1>5. d = [y \in D |-> Down(h, y)]
  BY <1>2
<1>6. Reached(D, [y \in D |-> Down(h, y)], ToSet(ListFrom(h, x)), F)
  <2>1. \A y \in D : Down(h, y) \subseteq D
    BY <1>1, <1>2
  <2>2. ToSet(ListFrom(h, x)) \subseteq D /\ ToSet(ListFrom(h, x)) # {}
    BY <1>1, <1>3, <1>4
  <2>3. Contained(h, x)
    BY <1>1, <2>1, <2>2 DEF Contained
  <2>4. QED
    BY <2>3, FreedIsReached
<1> HIDE DEF F
<1>17. /\ F \in SUBSET D /\ a \subseteq F
       /\ \A y \in F : d[y] \subseteq F
       /\ \A T : a \subseteq T /\ (\A y \in T \cap D : d[y] \subseteq T) => F \subseteq T
  <2> HIDE DEF D, d, a
  <2>1. Reached(D, d, a, F)
    BY <1>3, <1>4, <1>5, <1>6
  <2>2. QED
    BY <2>1, Zenon DEF Reached
<1>18. x \in F /\ \A y \in F : ToSet(k[y]) \subseteq F
  BY <1>17 DEF a, d
<1>19. ASSUME NEW y \in F, y # x PROVE \E q \in F : y \in ToSet(k[q])
  <2> DEFINE T == {v \in F : v = x \/ \E q \in F : v \in ToSet(k[q])}
  <2>1. a \subseteq T
    BY <1>18 DEF a
  <2>2. \A v \in T \cap D : d[v] \subseteq T
    BY <1>17, <1>18 DEF d
  <2>3. F \subseteq T
    <3> HIDE DEF T
    <3>1. QED
      BY <1>17, <2>1, <2>2
  <2>4. QED
    BY <1>19, <2>3
<1>20. QED
  BY <1>17, <1>18, <1>19 DEF F

LEMMA Freeing ==
  ASSUME NEW h, NEW k, NEW top, Shape(h, k, top), NEW x \in top,
         \A r \in DOMAIN h \ Freed(h, x) : h[r].ref => h[r].child \notin Freed(h, x)
  PROVE  /\ Shape(Free(h, Freed(h, x)), [y \in DOMAIN h \ Freed(h, x) |-> k[y]], top \ {x})
         /\ \A y \in top : y # x => y \notin Freed(h, x)
<1> DEFINE D == DOMAIN h
           gone == Freed(h, x)
           E == D \ gone
           g == Free(h, gone)
           l == [y \in E |-> k[y]]
<1>1. /\ D \subseteq Nodes /\ h \in [D -> Item] /\ k \in [D -> Seq(D)] /\ top \subseteq D
      /\ \A q \in D : HasList(h, q, k[q]) /\ ShowsList(h, q)
      /\ OnePlace(k) /\ Loose(h, k, top) /\ Placed(k, top) /\ DOMAIN k = D
  BY DEF Shape
<1>2. /\ gone \subseteq D /\ x \in gone /\ \A y \in gone : ToSet(k[y]) \subseteq gone
      /\ \A y \in gone : y # x => \E q \in gone : y \in ToSet(k[q])
  BY FreedItems
<1> HIDE DEF gone
<1>3. DOMAIN g = E /\ g \in [E -> Item] /\ \A y \in E : g[y] = h[y]
  BY <1>1 DEF Free
<1>4. DOMAIN l = E /\ \A y \in E : l[y] = k[y]
  OBVIOUS
<1>5. \A p \in D : /\ k[p] \in Seq(D) /\ ToSet(k[p]) \subseteq D /\ Len(k[p]) \in Nat /\ DOMAIN k[p] = 1 .. Len(k[p])
                   /\ \A i \in 1 .. Len(k[p]) : k[p][i] \in ToSet(k[p])
  <2> TAKE p \in D
  <2>1. k[p] \in Seq(D) /\ ToSet(k[p]) \subseteq D /\ Len(k[p]) \in Nat /\ DOMAIN k[p] = 1 .. Len(k[p])
    BY HeapFacts
  <2>2. QED
    BY <2>1 DEF ToSet
\* What stays has no child that goes, and what goes none that stays.
<1>6. \A p \in E : ToSet(k[p]) \subseteq E
  <2> SUFFICES ASSUME NEW p \in E, NEW y \in ToSet(k[p]), y \in gone PROVE FALSE
    BY <1>5
  <2>1. y # x
    BY <1>1 DEF Loose
  <2>2. PICK q \in gone : y \in ToSet(k[q])
    BY <1>2, <2>1
  <2>3. QED
    BY <1>1, <1>2, <2>2 DEF OnePlace
<1>7. \A p \in E : l[p] \in Seq(E)
  <2> TAKE p \in E
  <2>1. k[p] \in Seq(D) /\ \A i \in 1 .. Len(k[p]) : k[p][i] \in E
    BY <1>5, <1>6
  <2>2. k[p] \in Seq(E)
    <3> DEFINE s == k[p]
    <3>1. s \in Seq(D) /\ \A i \in 1 .. Len(s) : s[i] \in E
      BY <2>1
    <3> HIDE DEF s, E
    <3>2. s \in Seq(E)
      <4>1. Len(s) \in Nat /\ DOMAIN s = 1 .. Len(s) /\ s \in [1 .. Len(s) -> D]
        BY <3>1, LenProperties
      <4>2. s \in [1 .. Len(s) -> E]
        BY <3>1, <4>1
      <4>3. QED
        BY <4>1, <4>2
    <3>3. QED
      BY <3>2 DEF s
  <2>3. QED
    BY <1>4, <2>2
<1> HIDE DEF l, g
<1>8. l \in [E -> Seq(E)]
  <2>1. l = [y \in E |-> l[y]]
    BY DEF l
  <2>2. QED
    BY <1>7, <2>1
<1>9. ASSUME NEW q \in E PROVE HasList(g, q, l[q])
  <2>1. HasList(h, q, k[q]) /\ l[q] = k[q] /\ g[q] = h[q] /\ k[q] \in Seq(E)
    BY <1>1, <1>3, <1>4, <1>7
  <2>2. \A y \in E : g[y] = h[y]
    BY <1>3
  <2>3. Linked(h, k[q]) => Linked(g, k[q])
    BY <2>1, <2>2, LinkedSame
  <2>4. QED
    BY <2>1, <2>3 DEF HasList
<1>10. ASSUME NEW r \in E PROVE ShowsList(g, r)
  <2> SUFFICES ASSUME g[r].ref, g[r].child # Null
               PROVE  \E o \in E : ~g[o].ref /\ g[o].child = g[r].child
    BY <1>3 DEF ShowsList
  <2>1. PICK o \in D : ~h[o].ref /\ h[o].child = h[r].child
    BY <1>1, <1>3 DEF ShowsList
  <2>2. o \notin gone
    <3> SUFFICES ASSUME o \in gone PROVE FALSE
      OBVIOUS
    <3>1. h[o].child = FirstOf(k[o]) /\ h[o].child # Null
      BY <1>1, <1>3, <2>1 DEF HasList
    <3>2. k[o] # <<>> /\ h[o].child = k[o][1]
      BY <3>1 DEF FirstOf
    <3>3. 1 \in 1 .. Len(k[o])
      BY <1>5, <3>2
    <3>4. h[o].child \in gone
      BY <1>2, <1>5, <3>2, <3>3
    <3>5. h[r].ref /\ h[r].child \in gone
      BY <1>3, <2>1, <3>4
    <3>6. QED
      BY <3>5 DEF gone
  <2>3. QED
    BY <1>3, <2>1, <2>2
<1>11. OnePlace(l)
  BY <1>1, <1>4 DEF OnePlace
<1>12. \A y \in top : y # x => y \notin gone
  BY <1>1, <1>2 DEF Loose
<1>13. Loose(g, l, top \ {x}) /\ top \ {x} \subseteq E
  BY <1>1, <1>3, <1>4, <1>12 DEF Loose
<1>14. Placed(l, top \ {x})
  <2> SUFFICES ASSUME NEW y \in E, y \notin top \ {x} PROVE \E q \in E : y \in ToSet(l[q])
    BY <1>4 DEF Placed
  <2>1. y \notin top
    BY <1>2
  <2>2. PICK q \in D : y \in ToSet(k[q])
    BY <1>1, <2>1 DEF Placed
  <2>3. q \notin gone
    BY <1>2, <2>2
  <2>4. QED
    BY <1>4, <2>2, <2>3
<1>15. Shape(g, l, top \ {x})
  BY <1>1, <1>3, <1>8, <1>9, <1>10, <1>11, <1>13, <1>14 DEF Shape
<1>16. QED
  BY <1>12, <1>15 DEF g, l, gone

-----------------------------------------------------------------------------
(***************************************************************************)
(* The ways that cJSON_Duplicate goes                                      *)
(***************************************************************************)

Longer(h, p) == {Append(p, y) : y \in ToSet(Children(h, Last(p)))}

PathStep(h, u, x, n) ==
  IF n = 0 THEN {<<x>>} ELSE u[n - 1] \cup UNION {Longer(h, p) : p \in u[n - 1]}

UpTo(h, x) == CHOOSE u : u = [n \in Nat |-> PathStep(h, u, x, n)]

LEMMA PathsAreUpTo == \A x : Paths(x) = UpTo(heap, x)[CircularLimit]
BY Zenon DEF Paths, UpTo, PathStep, Longer

\* The last of a sequence that was appended to, and what is before it.
LEMMA EndOfAppend ==
  ASSUME NEW D, NEW s \in Seq(D), NEW y \in D
  PROVE  Last(Append(s, y)) = y /\ Front(Append(s, y)) = s /\ Append(s, y) \in Seq(D)
         /\ Len(s) \in Nat /\ Len(Append(s, y)) = Len(s) + 1
<1>1. /\ Append(s, y) \in Seq(D) /\ Len(s) \in Nat /\ Len(Append(s, y)) = Len(s) + 1
      /\ Append(s, y)[Len(s) + 1] = y /\ \A i \in 1 .. Len(s) : Append(s, y)[i] = s[i]
  BY AppendProperties, LenProperties
<1>2. Len(s) + 1 - 1 = Len(s)
  BY <1>1
<1>3. SubSeq(Append(s, y), 1, Len(s)) = s
  BY <1>1
<1>4. QED
  BY <1>1, <1>2, <1>3 DEF Last, Front

LEMMA WaysDown ==
  ASSUME NEW h, NEW k, NEW top, Shape(h, k, top), NEW x \in DOMAIN h, NEW limit \in Nat
  PROVE  LET P == UpTo(h, x)[limit] IN
           /\ <<x>> \in P
           /\ \A p \in P : /\ p \in Seq(DOMAIN h) /\ Len(p) \in Nat /\ Len(p) >= 1 /\ Last(p) \in DOMAIN h
                           /\ Len(p) <= limit => Longer(h, p) \subseteq P
                           /\ p = <<x>> \/ \E q \in P : p \in Longer(h, q)
<1> DEFINE D == DOMAIN h
           Ways == {s \in Seq(D) : s # <<>>}
<1>1. \A y \in D : Children(h, y) \in Seq(D) /\ ToSet(Children(h, y)) \subseteq D
  <2> TAKE y \in D
  <2>1. Children(h, y) \in Seq(D)
    BY ChildrenFound
  <2>2. QED
    BY <2>1, ElementOfSeq, LenProperties DEF ToSet
<1>2. \A p \in Ways : /\ Len(p) \in Nat /\ Len(p) >= 1 /\ Last(p) \in D
                      /\ \A q \in Longer(h, p) : q \in Ways /\ Len(q) = Len(p) + 1
  <2> TAKE p \in Ways
  <2>1. Len(p) \in Nat /\ Len(p) >= 1 /\ p \in Seq(D)
    BY LenProperties
  <2>2. Last(p) \in D
    <3>1. Len(p) \in 1 .. Len(p)
      BY <2>1
    <3>2. QED
      BY <2>1, <3>1, ElementOfSeq DEF Last
  <2>3. ASSUME NEW q \in Longer(h, p) PROVE q \in Ways /\ Len(q) = Len(p) + 1
    <3>1. PICK y \in D : q = Append(p, y)
      BY <1>1, <2>2 DEF Longer
    <3>2. q \in Seq(D) /\ Len(q) = Len(p) + 1
      BY <2>1, <3>1, EndOfAppend
    <3>3. q # <<>>
      BY <2>1, <3>2
    <3>4. QED
      BY <3>2, <3>3
  <2>4. QED
    BY <2>1, <2>2, <2>3
<1>3. <<x>> \in Ways /\ Len(<<x>>) = 1
  OBVIOUS
<1> HIDE DEF Ways
<1> DEFINE S == SUBSET Ways
           a == {<<x>>}
           g == [u \in S |-> u \cup UNION {Longer(h, p) : p \in u}]
<1>4. a \in S /\ g \in [S -> S]
  <2>1. \A u \in S : u \cup UNION {Longer(h, p) : p \in u} \in S
    BY <1>2
  <2>2. QED
    BY <1>3, <2>1
<1>5. \A u \in S : g[u] = u \cup UNION {Longer(h, p) : p \in u}
  OBVIOUS
<1> HIDE DEF S, a, g
<1>6. PICK f \in [Nat -> S] : f[0] = a /\ \A n \in Nat : f[n + 1] = g[f[n]]
  <2>1. \E f \in [Nat -> S] : f[0] = a /\ \A n \in Nat : f[n + 1] = g[f[n]]
    BY <1>4, RecursionSolves, SMTT(60)
  <2>2. QED
    BY <2>1
<1> DEFINE Solves(u) == u = [n \in Nat |-> PathStep(h, u, x, n)]
<1>7. ASSUME NEW n \in Nat PROVE f[n] = PathStep(h, f, x, n)
  <2>1. CASE n = 0
    BY <1>6, <2>1 DEF PathStep, a
  <2>2. CASE n # 0
    <3> DEFINE m == n - 1
    <3>1. m \in Nat /\ m + 1 = n
      BY <2>2
    <3>2. PathStep(h, f, x, n) = f[m] \cup UNION {Longer(h, p) : p \in f[m]}
      BY <2>2 DEF PathStep
    <3> HIDE DEF m
    <3>3. f[n] = g[f[m]] /\ f[m] \in S
      BY <1>6, <3>1
    <3>4. QED
      BY <1>5, <3>2, <3>3
  <2>3. QED
    BY <2>1, <2>2
<1>8. Solves(f)
  <2>1. f = [n \in Nat |-> f[n]]
    BY <1>6
  <2>2. QED
    BY <1>7, <2>1
<1> DEFINE w == UpTo(h, x)
<1>9. Solves(w)
  <2>1. w = CHOOSE u : Solves(u)
    BY Zenon DEF UpTo
  <2> HIDE DEF Solves, w
  <2>2. QED
    BY <1>8, <2>1, Zenon
<1> HIDE DEF w
<1>10. \A n \in Nat : w[n] = PathStep(h, w, x, n)
  BY <1>9
<1>11. w[0] = a
  BY <1>10 DEF PathStep, a
<1>12. ASSUME NEW n \in Nat PROVE w[n + 1] = w[n] \cup UNION {Longer(h, p) : p \in w[n]}
  <2> DEFINE m == n + 1
  <2>1. m \in Nat /\ m # 0 /\ m - 1 = n
    OBVIOUS
  <2> HIDE DEF m
  <2>2. w[m] = w[n] \cup UNION {Longer(h, p) : p \in w[n]}
    BY <1>10, <2>1 DEF PathStep
  <2>3. QED
    BY <2>2 DEF m
\* Later ones hold the earlier ones.
<1>13. ASSUME NEW m \in Nat, NEW n \in Nat, m <= n PROVE w[m] \subseteq w[n]
  <2> DEFINE Bad == {j \in Nat : m <= j /\ ~(w[m] \subseteq w[j])}
  <2> SUFFICES ASSUME Bad # {} PROVE FALSE
    BY <1>13
  <2>1. PICK j \in Bad : \A l \in Bad : j <= l
    <3>1. Bad \in SUBSET Nat
      OBVIOUS
    <3> HIDE DEF Bad
    <3>2. QED
      BY <3>1, Least
  <2>2. j \in Nat /\ m <= j /\ ~(w[m] \subseteq w[j]) /\ j # m
    BY <2>1
  <2> DEFINE l == j - 1
  <2>3. l \in Nat /\ l + 1 = j /\ ~(j <= l) /\ m <= l
    BY <2>2
  <2> HIDE DEF l
  <2>4. w[m] \subseteq w[l]
    BY <2>1, <2>3
  <2>5. w[l] \subseteq w[j]
    BY <1>12, <2>3
  <2>6. QED
    BY <2>2, <2>4, <2>5
\* Each way is there as soon as it may be, and is one step longer than another.
<1> DEFINE Good(n) == \A p \in w[n] : /\ p \in Ways /\ p \in w[Len(p) - 1]
                                      /\ p = <<x>> \/ \E q \in w[n] : p \in Longer(h, q)
<1>14. ASSUME NEW n \in Nat PROVE Good(n)
  <2> DEFINE Bad == {j \in Nat : ~Good(j)}
  <2> SUFFICES ASSUME Bad # {} PROVE FALSE
    OBVIOUS
  <2> HIDE DEF Good
  <2>1. PICK j \in Bad : \A l \in Bad : j <= l
    <3>1. Bad \in SUBSET Nat
      OBVIOUS
    <3> HIDE DEF Bad
    <3>2. QED
      BY <3>1, Least
  <2>2. j \in Nat /\ ~Good(j)
    BY <2>1
  <2>3. j # 0
    <3>1. Len(<<x>>) - 1 = 0
      BY <1>3
    <3>2. Good(0)
      BY <1>3, <1>11, <3>1 DEF Good, a
    <3>3. QED
      BY <2>2, <3>2
  <2> DEFINE l == j - 1
  <2>4. l \in Nat /\ l + 1 = j /\ ~(j <= l)
    BY <2>2, <2>3
  <2> HIDE DEF l
  <2>5. Good(l)
    BY <2>1, <2>4
  <2>6. w[j] = w[l] \cup UNION {Longer(h, p) : p \in w[l]} /\ w[l] \subseteq w[j]
    BY <1>12, <2>4
  <2>7. Good(j)
    <3> SUFFICES ASSUME NEW p \in w[j]
                 PROVE  /\ p \in Ways /\ p \in w[Len(p) - 1]
                        /\ p = <<x>> \/ \E q \in w[j] : p \in Longer(h, q)
      BY DEF Good
    <3>1. CASE p \in w[l]
      BY <2>5, <2>6, <3>1 DEF Good
    <3>2. CASE p \notin w[l]
      <4>1. PICK q \in w[l] : p \in Longer(h, q)
        BY <2>6, <3>2
      <4>2. q \in Ways /\ q \in w[Len(q) - 1]
        BY <2>5 DEF Good
      <4>3. p \in Ways /\ Len(p) = Len(q) + 1 /\ Len(q) \in Nat /\ Len(q) >= 1
        BY <1>2, <4>1, <4>2
      <4> DEFINE m == Len(q) - 1
      <4>4. m \in Nat /\ Len(p) - 1 = m + 1
        BY <4>3
      <4>5. q \in w[m]
        BY <4>2
      <4> HIDE DEF m
      <4>6. p \in w[m + 1]
        <5>1. w[m + 1] = w[m] \cup UNION {Longer(h, v) : v \in w[m]}
          BY <1>12, <4>4
        <5>2. p \in UNION {Longer(h, v) : v \in w[m]}
          BY <4>1, <4>5
        <5>3. QED
          BY <5>1, <5>2
      <4>7. p \in w[Len(p) - 1]
        BY <4>4, <4>6
      <4>8. QED
        BY <2>6, <4>1, <4>3, <4>7
    <3>3. QED
      BY <3>1, <3>2
  <2>8. QED
    BY <2>2, <2>7
<1>15. <<x>> \in w[limit]
  <2>1. 0 <= limit
    OBVIOUS
  <2>2. w[0] \subseteq w[limit]
    BY <1>13, <2>1
  <2>3. QED
    BY <1>11, <2>2 DEF a
<1>16. ASSUME NEW p \in w[limit], Len(p) <= limit PROVE Longer(h, p) \subseteq w[limit]
  <2>1. p \in Ways /\ p \in w[Len(p) - 1]
    BY <1>14
  <2>2. Len(p) \in Nat /\ Len(p) >= 1
    BY <1>2, <2>1
  <2> DEFINE m == Len(p) - 1
  <2>3. m \in Nat /\ m + 1 \in Nat /\ m + 1 <= limit
    BY <1>16, <2>2
  <2>4. p \in w[m]
    BY <2>1
  <2> HIDE DEF m
  <2>5. Longer(h, p) \subseteq w[m + 1]
    BY <1>12, <2>3, <2>4
  <2>6. w[m + 1] \subseteq w[limit]
    BY <1>13, <2>3
  <2>7. QED
    BY <2>5, <2>6
<1>17. \A p \in w[limit] : /\ p \in Ways
                           /\ p = <<x>> \/ \E q \in w[limit] : p \in Longer(h, q)
  BY <1>14
<1>18. \A p \in Ways : p \in Seq(D)
  BY DEF Ways
<1>19. QED
  BY <1>2, <1>15, <1>16, <1>17, <1>18 DEF w

\* The items of k can be numbered so that what an item has is numbered higher.
Ranked(k) ==
  \E rank \in [DOMAIN k -> Nat] : \A y \in DOMAIN k : \A z \in ToSet(k[y]) : rank[y] < rank[z]

\* The copies are items of their own, and nothing shows them.
LEMMA Copying ==
  ASSUME NEW k, NEW top, Shape(heap, k, top), NEW x \in DOMAIN heap,
         \A p \in Paths(x) : Len(p) > CircularLimit => heap[Last(p)].child = Null,
         NEW to \in [Paths(x) -> Unused], \A p, q \in Paths(x) : to[p] = to[q] => p = q
  PROVE  \E kg : /\ Graft(heap, [y \in {to[p] : p \in Paths(x)} |-> CopyOf(CHOOSE p \in Paths(x) : to[p] = y, to)],
                          kg, {to[<<x>>]})
                 /\ Ranked(kg)
<1> DEFINE D == DOMAIN heap
           P == Paths(x)
           E == {to[p] : p \in P}
           way(y) == CHOOSE p \in P : to[p] = y
           g == [y \in E |-> CopyOf(way(y), to)]
           inside(p) == Children(heap, Last(p))
           copies(p) == [i \in 1 .. Len(inside(p)) |-> to[Append(p, inside(p)[i])]]
           kg == [y \in E |-> copies(way(y))]
<1>1. /\ <<x>> \in P
      /\ \A p \in P : /\ p \in Seq(D) /\ Len(p) \in Nat /\ Len(p) >= 1 /\ Last(p) \in D
                      /\ Len(p) <= CircularLimit => Longer(heap, p) \subseteq P
                      /\ p = <<x>> \/ \E q \in P : p \in Longer(heap, q)
  <2>1. CircularLimit \in Nat
    BY JsonTreeAssumption
  <2>2. P = UpTo(heap, x)[CircularLimit]
    BY PathsAreUpTo
  <2> HIDE DEF P
  <2>3. QED
    BY <2>1, <2>2, WaysDown
<1>2. E \subseteq Nodes \ D /\ \A p \in P : to[p] \in E /\ to[p] \in Nodes
  BY DEF Unused
<1>3. \A p \in P : way(to[p]) = p
  OBVIOUS
<1>4. \A y \in E : way(y) \in P /\ to[way(y)] = y
  OBVIOUS
<1>5. \A p \in P : /\ inside(p) \in Seq(D) /\ Len(inside(p)) \in Nat /\ IsInjective(inside(p))
                   /\ DOMAIN inside(p) = 1 .. Len(inside(p))
                   /\ \A i \in 1 .. Len(inside(p)) : inside(p)[i] \in D
                   /\ heap[Last(p)].child = FirstOf(inside(p))
  <2> TAKE p \in P
  <2>1. inside(p) \in Seq(D) /\ IsInjective(inside(p)) /\ heap[Last(p)].child = FirstOf(inside(p))
    BY <1>1, ChildrenFound
  <2> HIDE DEF inside
  <2>2. QED
    BY <2>1, LenProperties, ElementOfSeq
<1> HIDE DEF P, E, way, inside
<1>6. \A p \in P : g[to[p]] = CopyOf(p, to) /\ kg[to[p]] = copies(p)
  BY <1>2, <1>3
<1>7. DOMAIN g = E /\ DOMAIN kg = E
  OBVIOUS
<1> HIDE DEF g, kg
\* Where there is a child there is a way to it.
<1>8. ASSUME NEW p \in P, NEW i \in 1 .. Len(inside(p)) PROVE Append(p, inside(p)[i]) \in P
  <2>1. inside(p)[i] \in ToSet(Children(heap, Last(p)))
    BY <1>5 DEF ToSet, inside
  <2>2. Append(p, inside(p)[i]) \in Longer(heap, p)
    BY <2>1 DEF Longer
  <2>3. inside(p) # <<>> /\ inside(p)[1] \in D
    <3>1. Len(inside(p)) # 0 /\ 1 \in 1 .. Len(inside(p))
      BY <1>5
    <3>2. QED
      BY <1>5, <3>1
  <2>4. heap[Last(p)].child # Null
    <3>1. Null \notin D
      BY HeapFacts
    <3>2. QED
      BY <1>5, <2>3, <3>1 DEF FirstOf
  <2>5. ~(Len(p) > CircularLimit)
    BY <2>4 DEF P
  <2>6. Len(p) <= CircularLimit
    BY <1>1, <2>5, JsonTreeAssumption
  <2>7. QED
    BY <1>1, <2>2, <2>6
<1>9. ASSUME NEW p \in P
      PROVE  /\ copies(p) \in Seq(E) /\ Len(copies(p)) = Len(inside(p)) /\ DOMAIN copies(p) = 1 .. Len(inside(p))
             /\ \A i \in 1 .. Len(inside(p)) : copies(p)[i] = to[Append(p, inside(p)[i])] /\ copies(p)[i] \in E
  <2> DEFINE n == Len(inside(p))
  <2>1. n \in Nat /\ \A i \in 1 .. n : to[Append(p, inside(p)[i])] \in E
    BY <1>2, <1>5, <1>8
  <2>2. copies(p) \in [1 .. n -> E]
    BY <2>1
  <2>3. QED
    BY <2>1, <2>2
<1> HIDE DEF copies
\* The neighbours of the i-th copy.
<1>10. ASSUME NEW p \in P, NEW i \in 1 .. Len(inside(p))
       PROVE  LET n == Len(inside(p)) IN
                /\ g[copies(p)[i]].next = IF i = n THEN Null ELSE copies(p)[i + 1]
                /\ g[copies(p)[i]].prev = copies(p)[IF i = 1 THEN n ELSE i - 1]
  <2> DEFINE s == inside(p)
             n == Len(s)
             q == Append(p, s[i])
             spot == Spot(s, s[i])
  <2>1. /\ s \in Seq(D) /\ n \in Nat /\ IsInjective(s) /\ DOMAIN s = 1 .. n /\ s[i] \in D
        /\ p \in Seq(D) /\ Len(p) \in Nat /\ Len(p) >= 1 /\ i \in 1 .. n
    BY <1>1, <1>5
  <2>2. Last(q) = s[i] /\ Front(q) = p /\ Len(q) = Len(p) + 1 /\ Len(q) # 1
    <3>1. Last(q) = s[i] /\ Front(q) = p /\ Len(q) = Len(p) + 1
      BY <2>1, EndOfAppend
    <3>2. QED
      BY <2>1, <3>1
  <2>3. q \in P /\ copies(p)[i] = to[q] /\ g[to[q]] = CopyOf(q, to)
    BY <1>6, <1>8, <1>9
  <2>4. spot = i
    BY <2>1 DEF IsInjective, Spot
  <2>5. Beside(q) = s
    BY <2>2 DEF inside, Beside
  <2>6. /\ CopyOf(q, to).next = IF spot = n THEN Null ELSE to[Append(Front(q), s[spot + 1])]
        /\ CopyOf(q, to).prev = IF spot = 1 THEN to[Append(Front(q), s[n])] ELSE to[Append(Front(q), s[spot - 1])]
    <3> HIDE DEF s, q
    <3>1. QED
      BY <2>2, <2>5 DEF CopyOf, spot
  <2>6a. n \in Nat /\ i \in 1 .. n /\ n = Len(inside(p))
    BY <2>1
  <2> HIDE DEF s, q, spot, n
  <2>7. /\ g[copies(p)[i]].next = IF i = n THEN Null ELSE to[Append(p, s[i + 1])]
        /\ g[copies(p)[i]].prev = IF i = 1 THEN to[Append(p, s[n])] ELSE to[Append(p, s[i - 1])]
    <3>1. Front(q) = p /\ g[copies(p)[i]] = CopyOf(q, to) /\ spot = i
      BY <2>2, <2>3, <2>4, Zenon
    <3>2. QED
      BY <2>6, <3>1, Zenon
  <2>8. (i # n => i + 1 \in 1 .. n) /\ (i # 1 => i - 1 \in 1 .. n) /\ n \in 1 .. n
    BY <2>6a
  <2>9. \A l \in 1 .. n : copies(p)[l] = to[Append(p, s[l])]
    BY <1>9, <2>6a DEF s
  <2>10. QED
    BY <2>6a, <2>7, <2>8, <2>9
<1>11. \A p \in P : CopyOf(p, to).ref = FALSE /\ CopyOf(p, to).child = FirstOf(copies(p))
  <2> TAKE p \in P
  <2>1. CopyOf(p, to).ref = FALSE
    BY DEF CopyOf
  <2>2. CopyOf(p, to).child = IF inside(p) = <<>> THEN Null ELSE to[Append(p, inside(p)[1])]
    BY DEF CopyOf, inside
  <2>3. CASE inside(p) = <<>>
    <3>1. Len(copies(p)) = 0 /\ copies(p) = <<>>
      BY <1>9, <2>3
    <3>2. QED
      BY <2>1, <2>2, <2>3, <3>1 DEF FirstOf
  <2>4. CASE inside(p) # <<>>
    <3>1. 1 \in 1 .. Len(inside(p)) /\ Len(inside(p)) # 0
      BY <1>5, <2>4
    <3>2. copies(p) # <<>> /\ copies(p)[1] = to[Append(p, inside(p)[1])]
      BY <1>9, <3>1
    <3>3. QED
      BY <2>1, <2>2, <2>4, <3>2 DEF FirstOf
  <2>5. QED
    BY <2>3, <2>4
<1>12. ASSUME NEW p \in P, NEW q \in P, NEW i \in 1 .. Len(inside(p)), NEW j \in 1 .. Len(inside(q)),
              copies(p)[i] = copies(q)[j]
       PROVE  p = q /\ i = j
  <2>1. Append(p, inside(p)[i]) = Append(q, inside(q)[j])
    <3>1. to[Append(p, inside(p)[i])] = to[Append(q, inside(q)[j])]
      BY <1>9, <1>12
    <3>2. Append(p, inside(p)[i]) \in P /\ Append(q, inside(q)[j]) \in P
      BY <1>8
    <3>3. QED
      BY <3>1, <3>2 DEF P
  <2>2. /\ p \in Seq(D) /\ q \in Seq(D) /\ inside(p)[i] \in D /\ inside(q)[j] \in D
    BY <1>1, <1>5
  <2>3. p = q /\ inside(p)[i] = inside(q)[j]
    <3>1. Front(Append(p, inside(p)[i])) = p /\ Last(Append(p, inside(p)[i])) = inside(p)[i]
      BY <2>2, EndOfAppend
    <3>2. Front(Append(q, inside(q)[j])) = q /\ Last(Append(q, inside(q)[j])) = inside(q)[j]
      BY <2>2, EndOfAppend
    <3>3. QED
      BY <2>1, <3>1, <3>2
  <2>4. QED
    BY <1>5, <2>3 DEF IsInjective
<1>13. \A p \in P : HasList(g, to[p], kg[to[p]])
  <2> TAKE p \in P
  <2>1. g[to[p]].ref = FALSE /\ g[to[p]].child = FirstOf(copies(p)) /\ kg[to[p]] = copies(p)
    BY <1>6, <1>11
  <2>2. Linked(g, copies(p))
    <3>1. Len(copies(p)) = Len(inside(p))
      BY <1>9
    <3> SUFFICES ASSUME NEW i \in 1 .. Len(inside(p))
                 PROVE  /\ g[copies(p)[i]].next = IF i = Len(inside(p)) THEN Null ELSE copies(p)[i + 1]
                        /\ g[copies(p)[i]].prev = copies(p)[IF i = 1 THEN Len(inside(p)) ELSE i - 1]
      BY <3>1, Zenon DEF Linked
    <3>2. QED
      BY <1>10
  <2>3. IsInjective(copies(p))
    BY <1>9, <1>12 DEF IsInjective
  <2>4. QED
    BY <2>1, <2>2, <2>3 DEF HasList
<1>14. \A y \in E : HasList(g, y, kg[y]) /\ g[y].ref = FALSE
  <2> TAKE y \in E
  <2>1. way(y) \in P /\ to[way(y)] = y
    BY <1>4
  <2>2. QED
    BY <1>6, <1>11, <1>13, <2>1
<1>15. kg \in [E -> Seq(E)]
  <2>1. \A y \in E : copies(way(y)) \in Seq(E)
    BY <1>4, <1>9
  <2>2. QED
    BY <2>1 DEF kg
\* The item at the top is on its own.
<1>16. g[to[<<x>>]].next = Null /\ g[to[<<x>>]].prev = Null
  <2>1. Len(<<x>>) = 1 /\ Last(<<x>>) = x /\ DOMAIN <<x>> = {1} /\ <<x>>[1] = x
    BY DEF Last
  <2>2. (CHOOSE j \in DOMAIN <<x>> : <<x>>[j] = Last(<<x>>)) = 1
    BY <2>1
  <2>3. CopyOf(<<x>>, to).prev = Null
    BY <2>1 DEF CopyOf
  <2>4. CopyOf(<<x>>, to).next = Null
    BY <2>1, <2>2 DEF CopyOf, Beside, Spot
  <2>5. QED
    BY <1>1, <1>6, <2>3, <2>4
<1>17. \A p \in P : ToSet(kg[to[p]]) = {copies(p)[i] : i \in 1 .. Len(inside(p))}
  BY <1>6, <1>9 DEF ToSet
<1>17a. ASSUME NEW a \in E, NEW y \in ToSet(kg[a])
       PROVE  \E i \in 1 .. Len(inside(way(a))) : y = copies(way(a))[i]
  <2>1. way(a) \in P /\ kg[to[way(a)]] = kg[a]
    BY <1>4
  <2>2. ToSet(kg[a]) = {copies(way(a))[i] : i \in 1 .. Len(inside(way(a)))}
    BY <1>17, <2>1
  <2>3. QED
    BY <2>2
<1>18. OnePlace(kg)
  <2> SUFFICES ASSUME NEW a \in E, NEW b \in E, NEW y \in ToSet(kg[a]), y \in ToSet(kg[b]) PROVE a = b
    BY <1>7 DEF OnePlace
  <2>1. way(a) \in P /\ to[way(a)] = a /\ way(b) \in P /\ to[way(b)] = b
    BY <1>4
  <2>2. PICK i \in 1 .. Len(inside(way(a))) : y = copies(way(a))[i]
    BY <1>17a
  <2>3. PICK j \in 1 .. Len(inside(way(b))) : y = copies(way(b))[j]
    BY <1>17a
  <2>4. way(a) = way(b)
    BY <1>12, <2>1, <2>2, <2>3
  <2>5. QED
    BY <2>1, <2>4
<1>19. \A y \in E : to[<<x>>] \notin ToSet(kg[y])
  <2> SUFFICES ASSUME NEW y \in E, to[<<x>>] \in ToSet(kg[y]) PROVE FALSE
    OBVIOUS
  <2>1. way(y) \in P /\ to[way(y)] = y
    BY <1>4
  <2> DEFINE p == way(y)
  <2>2. PICK i \in 1 .. Len(inside(p)) : to[<<x>>] = copies(p)[i]
    BY <1>17a
  <2>3. <<x>> = Append(p, inside(p)[i])
    <3>1. to[<<x>>] = to[Append(p, inside(p)[i])] /\ Append(p, inside(p)[i]) \in P
      BY <1>8, <1>9, <2>1, <2>2
    <3>2. QED
      BY <1>1, <3>1 DEF P
  <2>4. p \in Seq(D) /\ Len(p) >= 1 /\ inside(p)[i] \in D /\ Len(p) \in Nat
    BY <1>1, <1>5, <2>1
  <2>5. Len(Append(p, inside(p)[i])) = Len(p) + 1
    BY <2>4, EndOfAppend
  <2>6. Len(<<x>>) = 1
    OBVIOUS
  <2>7. QED
    BY <2>3, <2>4, <2>5, <2>6
<1>20. Loose(g, kg, {to[<<x>>]})
  BY <1>7, <1>16, <1>19 DEF Loose
<1>21. Placed(kg, {to[<<x>>]})
  <2> SUFFICES ASSUME NEW y \in E, y # to[<<x>>] PROVE \E b \in E : y \in ToSet(kg[b])
    BY <1>7 DEF Placed
  <2>1. way(y) \in P /\ to[way(y)] = y /\ way(y) # <<x>>
    BY <1>4
  <2>2. PICK q \in P : way(y) \in Longer(heap, q)
    BY <1>1, <2>1
  <2>3. PICK i \in 1 .. Len(inside(q)) : way(y) = Append(q, inside(q)[i])
    <3>1. PICK v \in ToSet(inside(q)) : way(y) = Append(q, v)
      BY <2>2 DEF Longer, inside
    <3>2. QED
      BY <1>5, <3>1 DEF ToSet
  <2>4. y = copies(q)[i]
    BY <1>9, <2>1, <2>3
  <2>5. y \in ToSet(kg[to[q]]) /\ to[q] \in E
    <3>1. ToSet(kg[to[q]]) = {copies(q)[j] : j \in 1 .. Len(inside(q))}
      BY <1>17
    <3>2. QED
      BY <1>2, <2>4, <3>1
  <2>6. QED
    BY <2>5
<1>22. g \in [E -> Item]
  <2>1. ASSUME NEW y \in E PROVE g[y] \in Item
    <3> DEFINE p == way(y)
    <3>1. p \in P /\ to[p] = y
      BY <1>4
    <3> HIDE DEF p
    <3>2. g[y].next \in Nodes \cup {Null} /\ g[y].prev \in Nodes \cup {Null}
      <4>1. CASE p = <<x>>
        BY <1>16, <3>1, <4>1
      <4>2. CASE p # <<x>>
        <5>1. y # to[<<x>>]
          BY <1>1, <3>1, <4>2 DEF P
        <5>2. PICK b \in E : y \in ToSet(kg[b])
          BY <1>7, <1>21, <5>1 DEF Placed
        <5>3. way(b) \in P /\ to[way(b)] = b
          BY <1>4
        <5> DEFINE q == way(b)
                   n == Len(inside(q))
        <5>4. PICK i \in 1 .. n : y = copies(q)[i]
          BY <1>17a, <5>2
        <5>5. n \in Nat /\ (i # n => i + 1 \in 1 .. n) /\ (i # 1 => i - 1 \in 1 .. n) /\ n \in 1 .. n
          BY <1>5, <5>3
        <5>6. /\ g[y].next = IF i = n THEN Null ELSE copies(q)[i + 1]
              /\ g[y].prev = copies(q)[IF i = 1 THEN n ELSE i - 1]
          BY <1>10, <5>3, <5>4
        <5>7. \A j \in 1 .. n : copies(q)[j] \in Nodes
          BY <1>2, <1>9, <5>3
        <5> HIDE DEF n, q
        <5>8. QED
          BY <5>5, <5>6, <5>7
      <4>3. QED
        BY <4>1, <4>2
    <3>3. g[y].child \in Nodes \cup {Null} /\ g[y].ref \in BOOLEAN
      <4>1. g[y].child = FirstOf(copies(p)) /\ g[y].ref = FALSE
        BY <1>6, <1>11, <3>1
      <4>2. copies(p) # <<>> => copies(p)[1] \in Nodes
        <5>1. copies(p) \in Seq(E) /\ (copies(p) # <<>> => 1 \in 1 .. Len(copies(p)))
          BY <1>9, <3>1
        <5>2. QED
          BY <1>2, <1>9, <3>1, <5>1
      <4>3. QED
        BY <4>1, <4>2 DEF FirstOf
    <3>4. g[y].string \in Keys \cup {NoKey}
      <4>1. g[y].string = heap[Last(p)].string
        <5>1. g[y] = CopyOf(p, to)
          BY <1>6, <3>1
        <5>2. CopyOf(p, to).string = heap[Last(p)].string
          BY DEF CopyOf
        <5>3. QED
          BY <5>1, <5>2
      <4>2. heap[Last(p)] \in Item
        BY <1>1, <3>1 DEF Shape
      <4>3. QED
        BY <4>1, <4>2 DEF Item
    <3>5. g[y] = [next |-> g[y].next, prev |-> g[y].prev, child |-> g[y].child, string |-> g[y].string, ref |-> g[y].ref]
      <4>1. g[y] = CopyOf(p, to)
        BY <1>6, <3>1
      <4>2. QED
        BY <4>1 DEF CopyOf
    <3>6. QED
      BY <3>2, <3>3, <3>4, <3>5 DEF Item
  <2>2. g = [y \in E |-> g[y]]
    BY DEF g
  <2>3. QED
    BY <2>1, <2>2
<1>23. to[<<x>>] \in E
  BY <1>1, <1>2
<1>24. Graft(heap, g, kg, {to[<<x>>]})
  BY <1>2, <1>7, <1>14, <1>15, <1>18, <1>20, <1>21, <1>22, <1>23 DEF Graft
\* A copy is numbered by the length of the way.
<1>25. Ranked(kg)
  <2> DEFINE rank == [y \in E |-> Len(way(y))]
  <2>1. rank \in [DOMAIN kg -> Nat]
    BY <1>1, <1>4, <1>7
  <2>2. ASSUME NEW a \in E, NEW y \in ToSet(kg[a])
        PROVE  rank[a] < rank[y]
    <3>1. way(a) \in P /\ to[way(a)] = a
      BY <1>4
    <3> DEFINE p == way(a)
    <3>2. PICK i \in 1 .. Len(inside(p)) : y = copies(p)[i]
      BY <1>17a
    <3> DEFINE q == Append(p, inside(p)[i])
    <3>3. q \in P /\ y = to[q] /\ y \in E
      BY <1>8, <1>9, <3>1, <3>2
    <3>4. way(y) = q
      BY <1>3, <3>3
    <3>5. Len(p) \in Nat /\ Len(q) = Len(p) + 1
      BY <1>1, <1>5, <3>1, EndOfAppend
    <3> HIDE DEF q
    <3>6. rank[a] = Len(p) /\ rank[y] = Len(q)
      BY <3>3, <3>4
    <3>7. QED
      BY <3>5, <3>6
  <2> HIDE DEF rank
  <2>3. QED
    BY <1>7, <2>1, <2>2 DEF Ranked
<1>26. QED
  BY <1>24, <1>25 DEF g, E, P, way

LEMMA BothIsFunction ==
  ASSUME NEW f1, NEW f2
  PROVE  Both(f1, f2) = [y \in DOMAIN Both(f1, f2) |-> Both(f1, f2)[y]]
<1> DEFINE E == DOMAIN f1 \cup DOMAIN f2
           v(y) == IF y \in DOMAIN f1 THEN f1[y] ELSE f2[y]
<1>1. Both(f1, f2) = [y \in E |-> v(y)]
  BY Zenon DEF Both
<1> HIDE DEF E, v
<1>2. QED
  BY <1>1

\* New items with their lists: all are in the root.
Fresh(D, kg, root) ==
  /\ DOMAIN kg \subseteq Nodes \ D /\ kg \in [DOMAIN kg -> Seq(DOMAIN kg)]
  /\ root \in DOMAIN kg /\ Placed(kg, {root}) /\ Ranked(kg)

LEMMA GraftIsFresh ==
  ASSUME NEW h, NEW g, NEW kg, NEW root, Graft(h, g, kg, {root}), Ranked(kg)
  PROVE  Fresh(DOMAIN h, kg, root)
BY DEF Graft, Fresh

\* cJSON_CreateIntArray: a new list of new items.
LEMMA Filling ==
  ASSUME NEW h, NEW k, NEW top, Shape(h, k, top), NEW a \in Nodes \ DOMAIN h,
         NEW n \in Nat, n >= 1, NEW items \in [1 .. n -> Nodes \ DOMAIN h], IsInjective(items),
         a \notin ToSet(items)
  PROVE  \E kg : /\ Shape(Both([i \in ToSet(items) |-> Element(items, Spot(items, i))],
                               Both(Single(a, [BlankItem EXCEPT !.child = Head(items)]), h)),
                          Both(kg, k), top \cup {a})
                 /\ Fresh(DOMAIN h, kg, a)
<1> DEFINE S == ToSet(items)
           E == S \cup {a}
           e == [i \in S |-> Element(items, Spot(items, i))]
           b == Single(a, [BlankItem EXCEPT !.child = Head(items)])
           g == Both(e, b)
           kg == [y \in E |-> IF y = a THEN items ELSE <<>>]
           nx == [i \in 1 .. n |-> IF i = n THEN Null ELSE items[i + 1]]
           pv == [i \in 1 .. n |-> IF i = 1 THEN items[n] ELSE items[i - 1]]
<1>1. /\ DOMAIN items = 1 .. n /\ items \in Seq(S) /\ Len(items) = n /\ \A i \in 1 .. n : items[i] \in S
      /\ 1 \in 1 .. n /\ n \in 1 .. n /\ S \subseteq Nodes \ DOMAIN h
  <2>1. DOMAIN items = 1 .. n /\ 1 \in 1 .. n /\ n \in 1 .. n
    OBVIOUS
  <2>2. \A i \in 1 .. n : items[i] \in S
    BY <2>1 DEF ToSet
  <2>3. S \subseteq Nodes \ DOMAIN h
    BY <2>1 DEF ToSet
  <2> HIDE DEF S
  <2>4. items \in [1 .. n -> S]
    BY <2>1, <2>2
  <2>5. items \in Seq(S) /\ Len(items) = n
    BY <2>4
  <2>6. QED
    BY <2>1, <2>2, <2>3, <2>5
<1>2. \A i \in 1 .. n : Spot(items, items[i]) = i
  BY <1>1 DEF Spot, IsInjective
<1>3. \A y \in S : \E i \in 1 .. n : y = items[i]
  BY <1>1 DEF ToSet
<1>4. items # <<>> /\ FirstOf(items) = items[1] /\ Head(items) = items[1]
  <2>1. items # <<>>
    BY <1>1
  <2>2. QED
    BY <1>1, <2>1 DEF FirstOf
<1>5. /\ DOMAIN g = E
      /\ g[a] = [next |-> Null, prev |-> Null, child |-> items[1], string |-> NoKey, ref |-> FALSE]
      /\ \A i \in 1 .. n : g[items[i]] = [next |-> nx[i], prev |-> pv[i], child |-> Null, string |-> NoKey, ref |-> FALSE]
  <2>1. DOMAIN e = S /\ DOMAIN b = {a}
    BY DEF Single
  <2>2. b[a] = [next |-> Null, prev |-> Null, child |-> items[1], string |-> NoKey, ref |-> FALSE]
    BY <1>4 DEF Single, BlankItem
  <2>3. \A i \in 1 .. n : e[items[i]] = Element(items, i)
    BY <1>1, <1>2
  <2>4. ASSUME NEW i \in 1 .. n
        PROVE  Element(items, i) = [next |-> nx[i], prev |-> pv[i], child |-> Null, string |-> NoKey, ref |-> FALSE]
    <3>1. Last(items) = items[n] /\ Len(items) = n
      BY <1>1 DEF Last
    <3>2. nx[i] = (IF i = Len(items) THEN Null ELSE items[i + 1])
          /\ pv[i] = (IF i = 1 THEN Last(items) ELSE items[i - 1])
      BY <3>1
    <3> HIDE DEF nx, pv
    <3>3. Element(items, i) = [BlankItem EXCEPT !.next = nx[i], !.prev = pv[i]]
      BY <3>2 DEF Element
    <3>4. QED
      BY <3>3 DEF BlankItem
  <2>4a. a \notin S
    OBVIOUS
  <2> HIDE DEF e, b, S, nx, pv
  <2>5. DOMAIN g = E
    BY <2>1 DEF Both
  <2>6. g[a] = b[a]
    BY <2>1, <2>4a DEF Both
  <2>7. \A i \in 1 .. n : g[items[i]] = e[items[i]]
    BY <1>1, <2>1 DEF Both
  <2>8. QED
    BY <2>2, <2>3, <2>4, <2>5, <2>6, <2>7
<1>6. DOMAIN kg = E /\ kg[a] = items /\ \A y \in S : kg[y] = <<>>
  OBVIOUS
<1>7. kg \in [E -> Seq(E)]
  <2>1. items \in Seq(E) /\ <<>> \in Seq(E)
    <3> HIDE DEF S
    <3>1. S \subseteq E
      OBVIOUS
    <3> HIDE DEF E
    <3>2. QED
      BY <1>1, <3>1, SeqMonotonic
  <2>2. QED
    BY <2>1
<1>7a. /\ \A i \in 1 .. n : nx[i] \in Nodes \cup {Null} /\ pv[i] \in Nodes \cup {Null}
       /\ items[1] \in Nodes
  <2>1. \A i \in 1 .. n : (i # n => i + 1 \in 1 .. n) /\ (i # 1 => i - 1 \in 1 .. n)
    OBVIOUS
  <2>2. \A i \in 1 .. n : items[i] \in Nodes
    BY <1>1
  <2>3. QED
    BY <1>1, <2>1, <2>2
<1> HIDE DEF S, e, b, kg, nx, pv
<1>7b. DOMAIN g = E /\ g = [y \in E |-> g[y]]
  <2>1. g = [y \in DOMAIN g |-> g[y]]
    BY Zenon, BothIsFunction
  <2>2. DOMAIN g = E
    BY <1>5
  <2>3. QED
    BY <2>1, <2>2, Zenon
<1>7c. /\ g[a].next = Null /\ g[a].prev = Null /\ g[a].child = items[1] /\ g[a].ref = FALSE
       /\ g[a] \in Item
  <2>1. g[a] = [next |-> Null, prev |-> Null, child |-> items[1], string |-> NoKey, ref |-> FALSE]
    BY <1>5
  <2> HIDE DEF g, E
  <2>2. QED
    BY <2>1, <1>7a DEF Item
<1> DEFINE kid(i) == g[items[i]]
<1>7d. \A i \in 1 .. n :
         kid(i) = [next |-> nx[i], prev |-> pv[i], child |-> Null, string |-> NoKey, ref |-> FALSE]
  BY <1>5, Zenon
<1> HIDE DEF kid
<1>7e. \A i \in 1 .. n : kid(i).next = nx[i] /\ kid(i).prev = pv[i] /\ kid(i).child = Null /\ kid(i).ref = FALSE
  BY <1>7d
<1>7f. \A i \in 1 .. n : kid(i) \in Item
  <2>1. \A u, v \in Nodes \cup {Null} :
          [next |-> u, prev |-> v, child |-> Null, string |-> NoKey, ref |-> FALSE] \in Item
    BY DEF Item
  <2>2. ASSUME NEW i \in 1 .. n
        PROVE  kid(i) \in Item
    <3>1. nx[i] \in Nodes \cup {Null} /\ pv[i] \in Nodes \cup {Null}
      BY <1>7a
    <3>2. kid(i) = [next |-> nx[i], prev |-> pv[i], child |-> Null, string |-> NoKey, ref |-> FALSE]
      BY <1>7d, Zenon
    <3>3. [next |-> nx[i], prev |-> pv[i], child |-> Null, string |-> NoKey, ref |-> FALSE] \in Item
      BY <2>1, <3>1, Zenon
    <3>4. QED
      BY <3>2, <3>3, Zenon
  <2>3. QED
    BY <2>2, Zenon
<1>7g. \A i \in 1 .. n : kid(i) = g[items[i]]
  BY Zenon DEF kid
<1> HIDE DEF g
<1>8. g \in [E -> Item]
  <2>3. \A i \in 1 .. n : g[items[i]] \in Item
    BY <1>7f, <1>7g, Zenon
  <2>4. ASSUME NEW y \in E
        PROVE  g[y] \in Item
    <3>1. CASE y = a
      BY <1>7c, <3>1
    <3>2. CASE y # a
      <4>1. PICK i \in 1 .. n : y = items[i]
        BY <1>3, <3>2
      <4>2. QED
        BY <2>3, <4>1, Zenon
    <3>3. QED
      BY <3>1, <3>2
  <2>5. [y \in E |-> g[y]] \in [E -> Item]
    BY <2>4
  <2>8. QED
    BY <2>5, <1>7b, Zenon
<1>9. Linked(g, items)
  <2> SUFFICES ASSUME NEW i \in 1 .. n
               PROVE  /\ g[items[i]].next = IF i = n THEN Null ELSE items[i + 1]
                      /\ g[items[i]].prev = items[IF i = 1 THEN n ELSE i - 1]
    BY <1>1, Zenon DEF Linked
  <2>1. g[items[i]].next = nx[i] /\ g[items[i]].prev = pv[i]
    BY <1>7e, <1>7g, Zenon
  <2>2. QED
    BY <2>1 DEF nx, pv
<1>10. HasList(g, a, kg[a])
  BY <1>1, <1>4, <1>7c, <1>6, <1>9 DEF HasList
<1>11. \A y \in S : HasList(g, y, kg[y])
  <2> TAKE y \in S
  <2>1. PICK i \in 1 .. n : y = items[i]
    BY <1>3
  <2>2. g[y].child = Null /\ g[y].ref = FALSE
    <3>1. g[items[i]].child = Null /\ g[items[i]].ref = FALSE
      BY <1>7e, <1>7g, Zenon
    <3>2. QED
      BY <2>1, <3>1
  <2>3. FirstOf(<<>>) = Null /\ Linked(g, <<>>) /\ IsInjective(<<>>)
    BY DEF FirstOf, Linked, IsInjective
  <2>4. QED
    BY <1>6, <2>2, <2>3 DEF HasList
<1>12. \A y \in E : g[y].ref = FALSE
  <2>1. ASSUME NEW y \in S
        PROVE  g[y].ref = FALSE
    <3>1. PICK i \in 1 .. n : y = items[i]
      BY <1>3
    <3>2. g[items[i]].ref = FALSE
      BY <1>7e, <1>7g, Zenon
    <3>3. QED
      BY <3>1, <3>2
  <2>2. QED
    BY <1>7c, <2>1, Zenon
<1>13. ToSet(kg[a]) = S /\ \A y \in S : ToSet(kg[y]) = {}
  <2>1. ToSet(<<>>) = {}
    BY DEF ToSet
  <2>2. QED
    BY <1>6, <2>1 DEF S
<1>14. a \notin S
  BY DEF S
<1>15. OnePlace(kg) /\ Placed(kg, {a}) /\ Loose(g, kg, {a})
  <2>1. OnePlace(kg) /\ Placed(kg, {a})
    BY <1>6, <1>13, <1>14 DEF OnePlace, Placed
  <2>2. Loose(g, kg, {a})
    BY <1>6, <1>7c, <1>13, <1>14 DEF Loose
  <2>3. QED
    BY <2>1, <2>2
<1>16. Graft(h, g, kg, {a})
  BY <1>1, <1>7b, <1>6, <1>7, <1>8, <1>10, <1>11, <1>12, <1>15 DEF Graft
<1>17. Shape(Both(g, h), Both(kg, k), top \cup {a})
  BY <1>16, Grafting
<1>18. Both(g, h) = Both(e, Both(b, h))
  BY DEF Both, g
<1>19. Fresh(DOMAIN h, kg, a)
  <2> DEFINE rank == [y \in E |-> IF y = a THEN 0 ELSE 1]
  <2>1. rank \in [DOMAIN kg -> Nat]
    BY <1>6
  <2>2. \A y \in DOMAIN kg : \A z \in ToSet(kg[y]) : rank[y] < rank[z]
    BY <1>6, <1>13, <1>14
  <2> HIDE DEF rank
  <2>3. Ranked(kg)
    BY <2>1, <2>2 DEF Ranked
  <2>4. QED
    BY <1>16, <2>3, GraftIsFresh
<1>20. QED
  BY <1>17, <1>18, <1>19 DEF e, b, S

-----------------------------------------------------------------------------
(***************************************************************************)
(* What is found is in the list                                            *)
(***************************************************************************)

LEMMA ArrayItemFound ==
  ASSUME NEW k, NEW top, Shape(heap, k, top), NEW p \in DOMAIN heap, ~heap[p].ref, NEW which \in Nat,
         GetArrayItem(p, which) # Null
  PROVE  \E j \in 1 .. Len(k[p]) : GetArrayItem(p, which) = k[p][j]
<1>1. Children(heap, p) = k[p] /\ Len(k[p]) \in Nat
  BY ChildrenFound, HeapFacts
<1>2. which < Len(k[p]) /\ GetArrayItem(p, which) = k[p][which + 1]
  BY <1>1 DEF GetArrayItem
<1>3. which + 1 \in 1 .. Len(k[p])
  BY <1>1, <1>2
<1>4. QED
  BY <1>2, <1>3

\* What get_object_item finds among the children s.
FirstNamed(h, s, key, caseSensitive) ==
  LET stops(x) == IF caseSensitive THEN h[x].string \in {key, NoKey}
                  ELSE h[x].string # NoKey /\ Lower[h[x].string] = Lower[key]
      at == {i \in DOMAIN s : stops(s[i])}
      first == CHOOSE i \in at : \A j \in at : i <= j
  IN IF at = {} \/ h[s[first]].string = NoKey THEN Null ELSE s[first]

LEMMA ObjectItemFound ==
  ASSUME NEW k, NEW top, Shape(heap, k, top), NEW p \in DOMAIN heap, ~heap[p].ref,
         NEW key, NEW caseSensitive, GetObjectItem(p, key, caseSensitive) # Null
  PROVE  \E j \in 1 .. Len(k[p]) : GetObjectItem(p, key, caseSensitive) = k[p][j]
<1> DEFINE items == k[p]
           stops(x) == IF caseSensitive THEN heap[x].string \in {key, NoKey}
                       ELSE heap[x].string # NoKey /\ Lower[heap[x].string] = Lower[key]
           spots == {i \in DOMAIN items : stops(items[i])}
           first == CHOOSE i \in spots : \A j \in spots : i <= j
<1>1. Children(heap, p) = items /\ DOMAIN items = 1 .. Len(items)
  BY ChildrenFound, HeapFacts
<1> HIDE DEF items
<1>2. GetObjectItem(p, key, caseSensitive) =
        IF spots = {} \/ heap[items[first]].string = NoKey THEN Null ELSE items[first]
  <2>1. GetObjectItem(p, key, caseSensitive) = FirstNamed(heap, Children(heap, p), key, caseSensitive)
    BY Zenon DEF GetObjectItem, FirstNamed
  <2>2. GetObjectItem(p, key, caseSensitive) = FirstNamed(heap, items, key, caseSensitive)
    BY <1>1, <2>1
  <2>3. QED
    BY <2>2, Zenon DEF FirstNamed
<1>3. spots \in SUBSET Nat /\ spots \subseteq 1 .. Len(items)
  BY <1>1
<1> HIDE DEF spots
<1>4. spots # {} /\ GetObjectItem(p, key, caseSensitive) = items[first]
  BY <1>2
<1>5. first \in spots
  <2>1. \E i \in spots : \A j \in spots : i <= j
    BY <1>3, <1>4, Least
  <2>2. QED
    BY <2>1
<1>6. QED
  BY <1>3, <1>4, <1>5 DEF items


-----------------------------------------------------------------------------
(***************************************************************************)
(* An item is inside itself                                                *)
(***************************************************************************)

\* Cut behind x, the list from x is x, and the others stay in the heap.
LEMMA CutList ==
  ASSUME NEW h, NEW k, NEW top, Shape(h, k, top), NEW x \in DOMAIN h
  PROVE  Contained(SetNext(h, x, Null), x) /\ x \in ToSet(ListFrom(SetNext(h, x, Null), x))
<1> DEFINE D == DOMAIN h
           g == SetNext(h, x, Null)
<1>1. /\ IsFiniteSet(D) /\ Null \notin D /\ Cardinality(D) \in Nat /\ x \in D /\ h \in [D -> Item]
      /\ 1 <= Cardinality(D) + 1
  <2>1. IsFiniteSet(D) /\ Null \notin D /\ Cardinality(D) \in Nat /\ x \in D
    BY HeapFacts
  <2>2. h \in [D -> Item]
    BY DEF Shape
  <2>3. QED
    BY <2>1, <2>2
<1>2. /\ g \in [D -> Item] /\ DOMAIN g = D
      /\ \A y \in D : g[y].next = (IF y = x THEN Null ELSE h[y].next) /\ g[y].child = h[y].child /\ g[y].ref = h[y].ref
  <2>1. Null \in Nodes \cup {Null}
    OBVIOUS
  <2> HIDE DEF g, D
  <2>2. /\ g \in [D -> Item]
        /\ \A y \in D : g[y].next = (IF y = x THEN Null ELSE h[y].next) /\ g[y].child = h[y].child /\ g[y].ref = h[y].ref
    BY <1>1, <2>1, NextSet DEF g
  <2>3. QED
    BY <2>2
<1> HIDE DEF g, D
<1>3. ListFrom(g, x) = <<x>>
  <2>1. <<x>> \in Seq(D) /\ Len(<<x>>) = 1 /\ FirstOf(<<x>>) = x /\ <<x>>[1] = x
    BY <1>1 DEF FirstOf
  <2>2. Chained(g, <<x>>)
    BY <1>1, <1>2, <2>1 DEF Chained
  <2>3. ListFrom(g, FirstOf(<<x>>)) = <<x>>
    BY <1>1, <1>2, <2>1, <2>2, ListOfChain
  <2>4. QED
    BY <2>1, <2>3
<1>4. ToSet(<<x>>) = {x}
  BY DEF ToSet
<1>5. ASSUME NEW y \in D
      PROVE  Down(g, y) \subseteq D
  <2>1. CASE h[y].ref
    BY <1>2, <2>1 DEF Down
  <2>2. CASE ~h[y].ref
    <3> DEFINE s == k[y]
               n == Len(s)
    <3>1. /\ s \in Seq(D) /\ n \in Nat /\ n <= Cardinality(D) /\ ToSet(s) \subseteq D /\ IsInjective(s)
          /\ DOMAIN s = 1 .. n /\ \A i \in 1 .. n : s[i] \in D
      BY HeapFacts DEF D
    <3>2. h[y].child = FirstOf(s) /\ Linked(h, s)
      BY <2>2 DEF Shape, HasList, D
    <3>3. Chained(h, s)
      BY <3>2, LinkedIsChained
    <3> HIDE DEF s
    <3>4. \A i \in 1 .. n : h[s[i]].next = IF i = n THEN Null ELSE s[i + 1]
      BY <3>3 DEF Chained
    <3> HIDE DEF n
    <3>5. \E t \in Seq(D) : Chained(g, t) /\ Len(t) <= Cardinality(D) + 1 /\ FirstOf(t) = FirstOf(s)
      <4>1. CASE x \notin ToSet(s)
        <5>1. \A i \in 1 .. n : s[i] # x
          BY <3>1, <4>1 DEF ToSet
        <5>2. Chained(g, s)
          <6>1. \A i \in 1 .. n : g[s[i]].next = IF i = n THEN Null ELSE s[i + 1]
            BY <1>2, <3>1, <3>4, <5>1
          <6>2. QED
            BY <6>1 DEF Chained, n
        <5>3. Len(s) <= Cardinality(D) + 1
          BY <1>1, <3>1 DEF n
        <5>4. QED
          BY <3>1, <5>2, <5>3
      <4>2. CASE x \in ToSet(s)
        <5>1. PICK j \in 1 .. n : s[j] = x
          BY <3>1, <4>2 DEF ToSet
        <5> DEFINE t == [i \in 1 .. j |-> s[i]]
        <5>2. t \in Seq(D) /\ Len(t) = j /\ j \in Nat /\ j >= 1 /\ j <= n
          <6>1. j \in Nat /\ j >= 1 /\ j <= n
            BY <3>1
          <6>2. \A i \in 1 .. j : s[i] \in D
            BY <3>1, <6>1
          <6>3. t \in [1 .. j -> D]
            BY <6>2
          <6> HIDE DEF t
          <6>4. QED
            BY <6>1, <6>3
        <5>3. \A i \in 1 .. j : t[i] = s[i]
          OBVIOUS
        <5> HIDE DEF t
        <5>4. \A i \in 1 .. j : i # j => s[i] # x
          BY <3>1, <5>1, <5>2 DEF IsInjective
        <5>5. ASSUME NEW i \in 1 .. j
              PROVE  g[t[i]].next = IF i = j THEN Null ELSE t[i + 1]
          <6>1. i \in 1 .. n /\ t[i] = s[i] /\ s[i] \in D
            BY <3>1, <5>2, <5>3
          <6>2. CASE i = j
            BY <1>2, <5>1, <6>1, <6>2
          <6>3. CASE i # j
            <7>1. i # n /\ i + 1 \in 1 .. j
              BY <3>1, <5>2, <6>3
            <7>2. t[i + 1] = s[i + 1]
              BY <5>3, <7>1
            <7>3. h[s[i]].next = s[i + 1]
              BY <3>4, <6>1, <7>1
            <7>4. g[s[i]].next = h[s[i]].next
              BY <1>2, <5>4, <6>1, <6>3
            <7>5. QED
              BY <6>1, <6>3, <7>2, <7>3, <7>4
          <6>4. QED
            BY <6>2, <6>3
        <5>6. Chained(g, t)
          BY <5>2, <5>5 DEF Chained
        <5>7. Len(t) <= Cardinality(D) + 1
          BY <1>1, <3>1, <5>2
        <5>8. FirstOf(t) = FirstOf(s)
          <6>1. t # <<>> /\ s # <<>>
            BY <3>1, <5>2 DEF n
          <6>2. t[1] = s[1]
            BY <5>2, <5>3
          <6>3. QED
            BY <6>1, <6>2 DEF FirstOf
        <5>9. QED
          BY <5>2, <5>6, <5>7, <5>8
      <4>3. QED
        BY <4>1, <4>2
    <3>6. PICK t \in Seq(D) : Chained(g, t) /\ Len(t) <= Cardinality(D) + 1 /\ FirstOf(t) = FirstOf(s)
      BY <3>5
    <3>7. ListFrom(g, FirstOf(t)) = t
      BY <1>1, <1>2, <3>6, ListOfChain
    <3>8. Children(g, y) = t
      BY <1>2, <3>2, <3>6, <3>7 DEF Children, s
    <3>9. ToSet(t) \subseteq D
      BY <3>6 DEF ToSet
    <3>10. QED
      BY <1>2, <2>2, <3>8, <3>9 DEF Down
  <2>3. QED
    BY <2>1, <2>2
<1>6. QED
  BY <1>1, <1>2, <1>3, <1>4, <1>5 DEF Contained, g

LEMMA InsideItself ==
  ASSUME NEW h, NEW k, NEW top, Shape(h, k, top), NEW x \in DOMAIN h
  PROVE  x \in Inside(h, x)
<1> DEFINE g == SetNext(h, x, Null)
<1>1. Inside(h, x) = Freed(g, x)
  BY DEF Inside, SetNext
<1>2. Contained(g, x) /\ x \in ToSet(ListFrom(g, x))
  BY CutList
<1> HIDE DEF g
<1>3. ToSet(ListFrom(g, x)) \subseteq Freed(g, x)
  BY <1>2, FreedIsReached, Zenon DEF Reached
<1>4. QED
  BY <1>1, <1>2, <1>3

-----------------------------------------------------------------------------
(***************************************************************************)
(* The inductive invariant                                                 *)
(***************************************************************************)

ListsOf(h) == [p \in DOMAIN h |-> IF h[p].ref THEN <<>> ELSE Children(h, p)]

LEMMA ListsFound ==
  ASSUME NEW h, NEW k, NEW top, Shape(h, k, top)
  PROVE  k = ListsOf(h)
<1>1. ASSUME NEW p \in DOMAIN h
      PROVE  k[p] = IF h[p].ref THEN <<>> ELSE Children(h, p)
  <2>1. CASE h[p].ref
    BY <2>1 DEF Shape, HasList
  <2>2. CASE ~h[p].ref
    BY <2>2, ChildrenFound
  <2>3. QED
    BY <2>1, <2>2
<1>2. k = [p \in DOMAIN h |-> k[p]]
  BY DEF Shape
<1>3. QED
  BY <1>1, <1>2 DEF ListsOf

\* The heap has a shape, in which the caller's items and the lost ones are at the
\* top.
TreeInv ==
  /\ roots \cap lost = {}
  /\ Shape(heap, ListsOf(heap), roots \cup lost)

LEMMA StaysShaped ==
  ASSUME roots' \cap lost' = {}, NEW k, Shape(heap', k, roots' \cup lost')
  PROVE  TreeInv' /\ ListsOf(heap') = k
<1>1. k = ListsOf(heap')
  BY ListsFound
<1>2. QED
  BY <1>1 DEF TreeInv

\* What the actions make of the lists of the heap.
Grows ==
  \E kg, root :
    /\ Fresh(DOMAIN heap, kg, root)
    /\ ListsOf(heap') = Both(kg, ListsOf(heap))
    /\ roots' = roots \cup {root} /\ lost' = lost

Attaches ==
  \E p, x :
    /\ MayAdd(p, x)
    /\ \E i \in 1 .. Len(ListsOf(heap)[p]) + 1 :
         ListsOf(heap') = [ListsOf(heap) EXCEPT ![p] = InsertAt(ListsOf(heap)[p], i, x)]
    /\ roots' = roots \ {x} /\ lost' = lost

\* The list of p grows by a new item.
Extends ==
  \E p \in Owners, r \in Nodes \ DOMAIN heap :
    /\ ListsOf(heap') = [Both(Single(r, <<>>), ListsOf(heap)) EXCEPT ![p] = Append(ListsOf(heap)[p], r)]
    /\ roots' = roots /\ lost' = lost

Loses ==
  \E r \in Nodes \ DOMAIN heap :
    /\ ListsOf(heap') = Both(Single(r, <<>>), ListsOf(heap))
    /\ roots' = roots /\ lost' = lost \cup {r}

Detaches ==
  \E p \in DOMAIN heap : \E j \in 1 .. Len(ListsOf(heap)[p]) :
    /\ ListsOf(heap') = [ListsOf(heap) EXCEPT ![p] = RemoveAt(ListsOf(heap)[p], j)]
    /\ roots' = roots \cup {ListsOf(heap)[p][j]} /\ lost' = lost

\* F is x and what is in it.
IsBelow(k, x, F) ==
  /\ F \subseteq DOMAIN k /\ x \in F
  /\ \A y \in F : ToSet(k[y]) \subseteq F
  /\ \A y \in F : y # x => \E q \in F : y \in ToSet(k[q])

Drops ==
  \E F : \E x \in roots :
    /\ IsBelow(ListsOf(heap), x, F)
    /\ ListsOf(heap') = [y \in DOMAIN heap \ F |-> ListsOf(heap)[y]]
    /\ roots' = roots \ {x} /\ lost' = lost

\* A child is taken out of the lists k, and goes.
DropsChild ==
  \E k, F : \E p \in DOMAIN heap : \E j \in 1 .. Len(ListsOf(heap)[p]) :
    /\ k = [ListsOf(heap) EXCEPT ![p] = RemoveAt(ListsOf(heap)[p], j)]
    /\ IsBelow(k, ListsOf(heap)[p][j], F)
    /\ ListsOf(heap') = [v \in DOMAIN heap \ F |-> k[v]]
    /\ roots' = roots /\ lost' = lost

Replaces ==
  \E k, F, p, y : \E j \in 1 .. Len(ListsOf(heap)[p]) :
    /\ MayAdd(p, y)
    /\ k = [ListsOf(heap) EXCEPT ![p] = Swapped(ListsOf(heap)[p], j, y)]
    /\ IsBelow(k, ListsOf(heap)[p][j], F)
    /\ ListsOf(heap') = [v \in DOMAIN heap \ F |-> k[v]]
    /\ roots' = roots \ {y} /\ lost' = lost

NothingMoves == ListsOf(heap') = ListsOf(heap) /\ roots' = roots /\ lost' = lost

Moves ==
  \/ Grows \/ Attaches \/ Extends \/ Loses
  \/ Detaches \/ Drops \/ DropsChild \/ Replaces \/ NothingMoves

\* An item put behind the last one.
LEMMA AppendIsInsert ==
  ASSUME NEW D, NEW s \in Seq(D), NEW x
  PROVE  Len(s) + 1 \in 1 .. Len(s) + 1 /\ InsertAt(s, Len(s) + 1, x) = Append(s, x)
<1>1. Len(s) \in Nat /\ s \in Seq(D \cup {x}) /\ x \in D \cup {x}
  BY SeqMonotonic
<1> DEFINE n == Len(s)
           m == n + 1
<1>2. n \in Nat /\ m - 1 = n /\ m > n /\ m \in 1 .. m
  BY <1>1
<1>3. SubSeq(s, 1, n) = s /\ SubSeq(s, m, n) = <<>>
  BY <1>1, <1>2
<1> HIDE DEF n, m
<1>4. InsertAt(s, m, x) = s \o <<x>> \o <<>>
  BY <1>2, <1>3 DEF InsertAt, n
<1>5. s \o <<x>> \o <<>> = Append(s, x)
  BY <1>1
<1>6. QED
  BY <1>2, <1>4, <1>5 DEF m, n

LEMMA TreeFacts ==
  ASSUME TreeInv
  PROVE  /\ roots \subseteq DOMAIN heap /\ lost \subseteq DOMAIN heap /\ roots \cap lost = {}
         /\ heap \in [DOMAIN heap -> Item] /\ Null \notin DOMAIN heap /\ DOMAIN heap \subseteq Nodes
<1>1. Shape(heap, ListsOf(heap), roots \cup lost) /\ roots \cap lost = {}
  BY DEF TreeInv
<1>2. roots \cup lost \subseteq DOMAIN heap /\ Null \notin DOMAIN heap
  BY <1>1, HeapFacts
<1>3. heap \in [DOMAIN heap -> Item] /\ DOMAIN heap \subseteq Nodes
  BY <1>1 DEF Shape
<1>4. QED
  BY <1>1, <1>2, <1>3

\* What may be added is at the top and is another item.
LEMMA AddFacts ==
  ASSUME TreeInv, NEW p, NEW x, MayAdd(p, x)
  PROVE  /\ p \in DOMAIN heap /\ ~heap[p].ref /\ ~Shown(heap, p)
         /\ x \in roots /\ x \in DOMAIN heap /\ x \notin lost /\ x # p
<1>1. Shape(heap, ListsOf(heap), roots \cup lost)
  BY DEF TreeInv
<1>2. x \in DOMAIN heap
  BY TreeFacts DEF MayAdd
<1>3. x \in Inside(heap, x)
  BY <1>1, <1>2, InsideItself
<1>4. QED
  BY <1>2, <1>3, TreeFacts DEF MayAdd, MayEdit

\* Only the key of an item is written.
Named(h, x, key) == [h EXCEPT ![x].string = key]

LEMMA Naming ==
  ASSUME NEW h, NEW k, NEW top, Shape(h, k, top), NEW x \in DOMAIN h, NEW key \in Keys
  PROVE  /\ Shape(Named(h, x, key), k, top) /\ RefsStay(h, Named(h, x, key))
         /\ \A p : p \in DOMAIN h /\ ~Shown(h, p) => ~Shown(Named(h, x, key), p)
<1> DEFINE D == DOMAIN h
           g == Named(h, x, key)
<1>1. h \in [D -> Item]
  BY DEF Shape
<1>2. /\ g \in [D -> Item]
      /\ \A y \in D : /\ g[y].next = h[y].next /\ g[y].prev = h[y].prev
                      /\ g[y].child = h[y].child /\ g[y].ref = h[y].ref
  BY <1>1 DEF Named, Item
<1> HIDE DEF g, D
<1>3. Shape(g, k, top)
  BY <1>2, Renaming DEF D
<1>4. RefsStay(h, g)
  BY <1>2 DEF RefsStay, D
<1>5. \A p : p \in D /\ ~Shown(h, p) => ~Shown(g, p)
  BY <1>2 DEF Shown, D
<1>6. QED
  BY <1>3, <1>4, <1>5 DEF g, D

\* Another item in the heap that no one shows and that shows nothing of p leaves p
\* unseen.
LEMMA NewSeen ==
  ASSUME NEW h, NEW x, x \notin DOMAIN h, NEW i, NEW p \in DOMAIN h, ~Shown(h, p),
         i.ref /\ h[p].child # Null => i.child # h[p].child
  PROVE  ~Shown(Both(Single(x, i), h), p)
<1> DEFINE g == Both(Single(x, i), h)
<1>1. DOMAIN g = DOMAIN h \cup {x} /\ g[x] = i /\ \A y \in DOMAIN h : g[y] = h[y]
  BY DEF Both, Single
<1> HIDE DEF g
<1>2. ~Shown(g, p)
  BY <1>1 DEF Shown
<1>3. QED
  BY <1>2 DEF g

-----------------------------------------------------------------------------
(***************************************************************************)
(* One lemma per action                                                    *)
(***************************************************************************)

LEMMA CreateKeeps ==
  ASSUME TreeInv, NEW x, Create(x)
  PROVE  TreeInv' /\ Grows
<1> DEFINE T == roots \cup lost
           L == ListsOf(heap)
<1>1. Shape(heap, L, T)
  BY DEF TreeInv
<1>2. x \in Nodes /\ x \notin DOMAIN heap /\ heap' = Both(Single(x, BlankItem), heap)
      /\ roots' = roots \cup {x} /\ lost' = lost
  BY DEF Create, Unused
<1>3. roots' \cap lost' = {} /\ roots' \cup lost' = T \cup {x}
  BY <1>2, TreeFacts
<1> HIDE DEF T, L
<1>4. Fits(heap, BlankItem)
  <2>1. BlankItem \in Item /\ BlankItem.next = Null /\ BlankItem.prev = Null /\ BlankItem.child = Null
    BY DEF BlankItem, Item
  <2>2. QED
    BY <2>1, Zenon DEF Fits
<1>5. Shape(Both(Single(x, BlankItem), heap), Both(Single(x, <<>>), L), T \cup {x})
  BY <1>1, <1>2, <1>4, NewItem
<1>6. TreeInv' /\ ListsOf(heap') = Both(Single(x, <<>>), L)
  BY <1>2, <1>3, <1>5, StaysShaped
<1>7. Fresh(DOMAIN heap, Single(x, <<>>), x)
  <2> DEFINE kg == Single(x, <<>>)
  <2>1. DOMAIN kg = {x} /\ kg[x] = <<>> /\ kg \in [{x} -> Seq({x})]
    BY DEF Single
  <2>2. ToSet(<<>>) = {}
    BY DEF ToSet
  <2>3. [y \in {x} |-> 0] \in [{x} -> Nat]
    OBVIOUS
  <2> HIDE DEF kg
  <2>4. Ranked(kg)
    BY <2>1, <2>2, <2>3 DEF Ranked
  <2>5. QED
    BY <1>2, <2>1, <2>4 DEF Fresh, Placed, kg
<1>8. Grows
  BY <1>2, <1>6, <1>7 DEF Grows, L
<1>9. QED
  BY <1>6, <1>8

LEMMA CreateArrayKeeps ==
  ASSUME TreeInv, NEW a, NEW n \in Nat, n >= 1, NEW items \in [1 .. n -> Unused], IsInjective(items),
         CreateArray(a, items)
  PROVE  TreeInv' /\ Grows
<1> DEFINE T == roots \cup lost
           L == ListsOf(heap)
           g == Both([i \in ToSet(items) |-> Element(items, Spot(items, i))],
                     Both(Single(a, [BlankItem EXCEPT !.child = Head(items)]), heap))
<1>1. Shape(heap, L, T)
  BY DEF TreeInv
<1>2. a \in Nodes \ DOMAIN heap /\ a \notin ToSet(items) /\ items \in [1 .. n -> Nodes \ DOMAIN heap]
  BY DEF CreateArray, Unused
<1>3. heap' = g /\ roots' = roots \cup {a} /\ lost' = lost
  BY Zenon DEF CreateArray
<1>4. roots' \cap lost' = {} /\ roots' \cup lost' = T \cup {a}
  BY <1>2, <1>3, TreeFacts
<1> HIDE DEF T, L
<1>5. PICK kg : Shape(g, Both(kg, L), T \cup {a}) /\ Fresh(DOMAIN heap, kg, a)
  BY <1>1, <1>2, Filling
<1> HIDE DEF g
<1>6. TreeInv' /\ ListsOf(heap') = Both(kg, L)
  BY <1>3, <1>4, <1>5, StaysShaped
<1>7. Grows
  BY <1>3, <1>5, <1>6 DEF Grows, L
<1>8. QED
  BY <1>6, <1>7

LEMMA DuplicateKeeps ==
  ASSUME TreeInv, NEW x \in DOMAIN heap, Duplicate(x)
  PROVE  TreeInv' /\ Grows
<1> DEFINE T == roots \cup lost
           L == ListsOf(heap)
<1>1. Shape(heap, L, T)
  BY DEF TreeInv
<1>2. \A p \in Paths(x) : Len(p) > CircularLimit => heap[Last(p)].child = Null
  BY DEF Duplicate
<1> DEFINE copies(to) == [y \in {to[p] : p \in Paths(x)} |-> CopyOf(CHOOSE p \in Paths(x) : to[p] = y, to)]
<1>3. PICK to \in [Paths(x) -> Unused] :
        /\ \A p, q \in Paths(x) : to[p] = to[q] => p = q
        /\ heap' = Both(copies(to), heap)
        /\ roots' = roots \cup {to[<<x>>]}
  BY Zenon DEF Duplicate
<1>4. lost' = lost
  BY DEF Duplicate
<1>5. <<x>> \in Paths(x)
  BY <1>1, WaysDown, PathsAreUpTo, JsonTreeAssumption
<1>6. to[<<x>>] \notin DOMAIN heap
  BY <1>3, <1>5 DEF Unused
<1>7. roots' \cap lost' = {} /\ roots' \cup lost' = T \cup {to[<<x>>]}
  BY <1>3, <1>4, <1>6, TreeFacts
<1> HIDE DEF T, L
<1>8. \E kg : Graft(heap, copies(to), kg, {to[<<x>>]}) /\ Ranked(kg)
  BY <1>1, <1>2, <1>3, Copying
<1> HIDE DEF copies
<1>9. PICK kg : Graft(heap, copies(to), kg, {to[<<x>>]}) /\ Ranked(kg)
  BY <1>8
<1>10. Shape(Both(copies(to), heap), Both(kg, L), T \cup {to[<<x>>]})
  BY <1>1, <1>9, Grafting
<1>11. TreeInv' /\ ListsOf(heap') = Both(kg, L)
  BY <1>3, <1>7, <1>10, StaysShaped
<1>12. Fresh(DOMAIN heap, kg, to[<<x>>])
  BY <1>9, GraftIsFresh
<1>13. Grows
  BY <1>3, <1>4, <1>11, <1>12 DEF Grows, L
<1>14. QED
  BY <1>11, <1>13

LEMMA FreedIsBelowIt ==
  ASSUME NEW h, NEW k, NEW top, Shape(h, k, top), NEW x \in top
  PROVE  IsBelow(k, x, Freed(h, x))
<1>1. DOMAIN k = DOMAIN h
  BY HeapFacts
<1>2. QED
  BY <1>1, FreedItems DEF IsBelow

LEMMA DeleteKeeps ==
  ASSUME TreeInv, NEW x, Delete(x)
  PROVE  TreeInv' /\ Drops
<1> DEFINE T == roots \cup lost
           L == ListsOf(heap)
           F == Freed(heap, x)
<1>1. Shape(heap, L, T)
  BY DEF TreeInv
<1>2. x \in roots /\ heap' = Free(heap, F) /\ roots' = roots \ {x} /\ lost' = lost
      /\ \A r \in DOMAIN heap \ F : heap[r].ref => heap[r].child \notin F
  BY DEF Delete, MayDelete
<1>3. roots' \cap lost' = {} /\ roots' \cup lost' = T \ {x} /\ x \in T
  BY <1>2, TreeFacts
<1> HIDE DEF T, L
<1>4. Shape(Free(heap, F), [y \in DOMAIN heap \ F |-> L[y]], T \ {x})
  BY <1>1, <1>2, <1>3, Freeing
<1>5. TreeInv' /\ ListsOf(heap') = [y \in DOMAIN heap \ F |-> L[y]]
  BY <1>2, <1>3, <1>4, StaysShaped
<1>6. IsBelow(L, x, F)
  BY <1>1, <1>3, FreedIsBelowIt
<1> HIDE DEF F
<1>7. Drops
  BY <1>2, <1>5, <1>6 DEF Drops, L
<1>8. QED
  BY <1>5, <1>7

LEMMA AddItemToArrayKeeps ==
  ASSUME TreeInv, NEW p, NEW x, AddItemToArray(p, x)
  PROVE  TreeInv' /\ Attaches
<1> DEFINE T == roots \cup lost
           L == ListsOf(heap)
<1>1. Shape(heap, L, T)
  BY DEF TreeInv
<1>2. MayAdd(p, x) /\ heap' = AddItem(heap, p, x) /\ roots' = roots \ {x} /\ lost' = lost
  BY DEF AddItemToArray
<1>3. p \in DOMAIN heap /\ ~heap[p].ref /\ ~Shown(heap, p) /\ x \in roots /\ x \notin lost /\ x # p
  BY <1>2, AddFacts
<1>4. roots' \cap lost' = {} /\ roots' \cup lost' = T \ {x} /\ x \in T
  BY <1>2, <1>3, TreeFacts
<1> HIDE DEF T, L
<1>5. Shape(AddItem(heap, p, x), [L EXCEPT ![p] = Append(L[p], x)], T \ {x})
  BY <1>1, <1>3, <1>4, Appending
<1>6. TreeInv' /\ ListsOf(heap') = [L EXCEPT ![p] = Append(L[p], x)]
  BY <1>2, <1>4, <1>5, StaysShaped
<1>7. L[p] \in Seq(DOMAIN heap)
  BY <1>1, <1>3, HeapFacts
<1>8. Attaches
  BY <1>2, <1>6, <1>7, AppendIsInsert DEF Attaches, L
<1>9. QED
  BY <1>6, <1>8

LEMMA AddItemToObjectKeeps ==
  ASSUME TreeInv, NEW p, NEW x, NEW key \in Keys, AddItemToObject(p, key, x)
  PROVE  TreeInv' /\ Attaches
<1> DEFINE T == roots \cup lost
           L == ListsOf(heap)
           h == Named(heap, x, key)
<1>1. Shape(heap, L, T)
  BY DEF TreeInv
<1>2. MayAdd(p, x) /\ heap' = AddItem(h, p, x) /\ roots' = roots \ {x} /\ lost' = lost
  BY DEF AddItemToObject, Named
<1>3. p \in DOMAIN heap /\ ~heap[p].ref /\ ~Shown(heap, p) /\ x \in roots /\ x \in DOMAIN heap /\ x \notin lost /\ x # p
  BY <1>2, AddFacts
<1>4. roots' \cap lost' = {} /\ roots' \cup lost' = T \ {x} /\ x \in T
  BY <1>2, <1>3, TreeFacts
<1> HIDE DEF T, L
<1>5. Shape(h, L, T) /\ RefsStay(heap, h) /\ ~Shown(h, p)
  BY <1>1, <1>3, Naming
<1>6. p \in DOMAIN h /\ ~h[p].ref
  BY <1>3, <1>5 DEF RefsStay
<1> HIDE DEF h
<1>7. Shape(AddItem(h, p, x), [L EXCEPT ![p] = Append(L[p], x)], T \ {x})
  BY <1>3, <1>4, <1>5, <1>6, Appending
<1>8. TreeInv' /\ ListsOf(heap') = [L EXCEPT ![p] = Append(L[p], x)]
  BY <1>2, <1>4, <1>7, StaysShaped
<1>9. L[p] \in Seq(DOMAIN heap)
  BY <1>1, <1>3, HeapFacts
<1>10. Attaches
  BY <1>2, <1>8, <1>9, AppendIsInsert DEF Attaches, L
<1>11. QED
  BY <1>8, <1>10

\* A new item leaves the lists of the others.
LEMMA OldLists ==
  ASSUME NEW h, NEW k, NEW top, Shape(h, k, top), NEW x \in Nodes, x \notin DOMAIN h, NEW p \in DOMAIN h
  PROVE  Both(Single(x, <<>>), k)[p] = k[p]
BY HeapFacts DEF Both, Single

LEMMA AddNewToObjectKeeps ==
  ASSUME TreeInv, NEW p, NEW x, NEW key \in Keys, AddNewToObject(p, key, x)
  PROVE  TreeInv' /\ Extends
<1> DEFINE T == roots \cup lost
           L == ListsOf(heap)
           i == [BlankItem EXCEPT !.string = key]
           h == Both(Single(x, i), heap)
           k == Both(Single(x, <<>>), L)
<1>1. Shape(heap, L, T)
  BY DEF TreeInv
<1>2. p \in DOMAIN heap /\ ~heap[p].ref /\ ~Shown(heap, p) /\ x \in Nodes /\ x \notin DOMAIN heap
      /\ heap' = AddItem(h, p, x) /\ roots' = roots /\ lost' = lost
  BY DEF AddNewToObject, MayEdit, Unused
<1>3. ~i.ref /\ Fits(heap, i)
  <2>1. i \in Item /\ i.next = Null /\ i.prev = Null /\ i.child = Null /\ ~i.ref
    BY DEF BlankItem, Item
  <2> HIDE DEF i
  <2>2. QED
    BY <2>1, Zenon DEF Fits
<1>4. roots' \cap lost' = {} /\ roots' \cup lost' = (T \cup {x}) \ {x} /\ x \in T \cup {x} /\ x # p
  BY <1>2, TreeFacts
<1> HIDE DEF T, L, i
<1>5. Shape(h, k, T \cup {x}) /\ DOMAIN h = DOMAIN heap \cup {x} /\ h[p] = heap[p]
  <2>1. Shape(h, k, T \cup {x})
    BY <1>1, <1>2, <1>3, NewItem
  <2>2. DOMAIN h = DOMAIN heap \cup {x} /\ \A y \in DOMAIN heap : h[y] = heap[y]
    BY <1>2 DEF Both, Single
  <2> HIDE DEF h, k
  <2>3. QED
    BY <1>2, <2>1, <2>2
<1>6. ~Shown(h, p)
  BY <1>2, <1>3, NewSeen
<1> HIDE DEF h, k
<1>7. p \in DOMAIN h /\ ~h[p].ref
  BY <1>2, <1>5
<1>8. Shape(AddItem(h, p, x), [k EXCEPT ![p] = Append(k[p], x)], (T \cup {x}) \ {x})
  BY <1>4, <1>5, <1>6, <1>7, Appending
<1>9. TreeInv' /\ ListsOf(heap') = [k EXCEPT ![p] = Append(k[p], x)]
  BY <1>2, <1>4, <1>8, StaysShaped
<1>10. k[p] = L[p]
  BY <1>1, <1>2, OldLists DEF k
<1>11. Extends
  BY <1>2, <1>9, <1>10 DEF Extends, Owners, L, k
<1>12. QED
  BY <1>9, <1>11

\* Two items that are no references do not share children.
LEMMA FirstChildIsOwn ==
  ASSUME NEW h, NEW k, NEW top, Shape(h, k, top), NEW p \in DOMAIN h, ~h[p].ref, NEW q \in DOMAIN h, ~h[q].ref,
         h[p].child # Null, h[q].child = h[p].child
  PROVE  p = q
<1>1. /\ Len(k[p]) \in Nat /\ Len(k[p]) # 0 /\ h[p].child = k[p][1]
      /\ \A i \in 1 .. Len(k[p]) : k[p][i] \in ToSet(k[p])
  BY OwnList
<1>2. /\ Len(k[q]) \in Nat /\ Len(k[q]) # 0 /\ h[q].child = k[q][1]
      /\ \A i \in 1 .. Len(k[q]) : k[q][i] \in ToSet(k[q])
  BY OwnList
<1>3. h[p].child \in ToSet(k[p]) /\ h[p].child \in ToSet(k[q])
  BY <1>1, <1>2
<1>4. OnePlace(k) /\ DOMAIN k = DOMAIN h
  BY DEF Shape
<1>5. QED
  BY <1>3, <1>4, Zenon DEF OnePlace

\* i shows what an item that is no reference has, and nothing of p.
Refers(h, p, i) ==
  /\ i \in Item /\ i.next = Null /\ i.prev = Null /\ i.ref
  /\ i.child = Null \/ \E o \in DOMAIN h : ~h[o].ref /\ h[o].child = i.child
  /\ h[p].child # Null => i.child # h[p].child

\* A new reference shows what an item that is no reference has, and nothing of p.
LEMMA ReferFacts ==
  ASSUME TreeInv, NEW p, NEW x, MayRefer(p, x), NEW key \in Keys \cup {NoKey}
  PROVE  /\ p \in DOMAIN heap /\ ~heap[p].ref /\ ~Shown(heap, p)
         /\ Refers(heap, p, [Reference(x) EXCEPT !.string = key])
<1> DEFINE L == ListsOf(heap)
           T == roots \cup lost
           i == [Reference(x) EXCEPT !.string = key]
<1>1. Shape(heap, L, T)
  BY DEF TreeInv
<1>2. p \in DOMAIN heap /\ ~heap[p].ref /\ ~Shown(heap, p) /\ x \in DOMAIN heap /\ p \notin Inside(heap, x)
  BY DEF MayRefer, MayEdit
<1>3. heap[x] \in Item
  BY <1>2, TreeFacts
<1>4. i \in Item /\ i.next = Null /\ i.prev = Null /\ i.ref /\ i.child = heap[x].child
  BY <1>3 DEF Reference, Item
<1> HIDE DEF L, T, i
<1>5. x # p
  BY <1>1, <1>2, InsideItself
<1>6. i.child = Null \/ \E o \in DOMAIN heap : ~heap[o].ref /\ heap[o].child = i.child
  <2>1. ShowsList(heap, x)
    BY <1>1, <1>2 DEF Shape
  <2>2. QED
    BY <1>2, <1>4, <2>1 DEF ShowsList
<1>7. ASSUME heap[p].child # Null, heap[x].child = heap[p].child
      PROVE  FALSE
  <2>1. CASE heap[x].ref
    BY <1>2, <1>7, <2>1 DEF Shown
  <2>2. CASE ~heap[x].ref
    <3>1. p = x
      BY <1>1, <1>2, <1>7, <2>2, FirstChildIsOwn
    <3>2. QED
      BY <1>5, <3>1
  <2>3. QED
    BY <2>1, <2>2
<1>8. Refers(heap, p, i)
  BY <1>4, <1>6, <1>7 DEF Refers
<1>9. QED
  BY <1>2, <1>8 DEF i

\* A new reference is put behind the children of p, or is lost.
LEMMA ReferenceAdded ==
  ASSUME TreeInv, NEW p \in DOMAIN heap, ~heap[p].ref, ~Shown(heap, p), NEW i, Refers(heap, p, i),
         NEW r \in Nodes, r \notin DOMAIN heap
  PROVE  LET k == Both(Single(r, <<>>), ListsOf(heap)) IN
           /\ Shape(Both(Single(r, i), heap), k, (roots \cup lost) \cup {r})
           /\ Shape(AddItem(Both(Single(r, i), heap), p, r), [k EXCEPT ![p] = Append(ListsOf(heap)[p], r)],
                    roots \cup lost)
<1> DEFINE L == ListsOf(heap)
           T == roots \cup lost
           h == Both(Single(r, i), heap)
           k == Both(Single(r, <<>>), L)
<1>1. Shape(heap, L, T)
  BY DEF TreeInv
<1>2. /\ i \in Item /\ i.next = Null /\ i.prev = Null /\ i.ref
      /\ i.child = Null \/ \E o \in DOMAIN heap : ~heap[o].ref /\ heap[o].child = i.child
      /\ heap[p].child # Null => i.child # heap[p].child
  BY DEF Refers
<1>3. T = (T \cup {r}) \ {r} /\ r \in T \cup {r} /\ r # p
  BY <1>2, TreeFacts
<1> HIDE DEF T, L
<1>4. Shape(h, k, T \cup {r})
  <2>1. Fits(heap, i)
    BY <1>2, Zenon DEF Fits
  <2>2. QED
    BY <1>1, <2>1, NewItem
<1>5. DOMAIN h = DOMAIN heap \cup {r} /\ \A y \in DOMAIN heap : h[y] = heap[y]
  BY DEF Both, Single
<1>6. ~Shown(h, p)
  BY <1>2, NewSeen
<1> HIDE DEF h, k
<1>7. p \in DOMAIN h /\ ~h[p].ref
  BY <1>2, <1>5
<1>8. Shape(AddItem(h, p, r), [k EXCEPT ![p] = Append(k[p], r)], (T \cup {r}) \ {r})
  BY <1>3, <1>4, <1>6, <1>7, Appending
<1>9. Shape(AddItem(h, p, r), [k EXCEPT ![p] = Append(k[p], r)], T)
  BY <1>3, <1>8
<1>10. k[p] = L[p]
  BY <1>1, OldLists DEF k
<1>11. QED
  BY <1>4, <1>9, <1>10 DEF h, T, k, L

LEMMA PlainReference ==
  ASSUME TreeInv, NEW p, NEW x, MayRefer(p, x)
  PROVE  Reference(x) = [Reference(x) EXCEPT !.string = NoKey]
<1>1. heap[x] \in Item
  BY TreeFacts DEF MayRefer
<1>2. QED
  BY <1>1 DEF Reference, Item

LEMMA AddReferenceToArrayKeeps ==
  ASSUME TreeInv, NEW p, NEW x, NEW r, AddReferenceToArray(p, x, r)
  PROVE  TreeInv' /\ Extends
<1> DEFINE i == [Reference(x) EXCEPT !.string = NoKey]
<1>1. /\ MayRefer(p, x) /\ r \in Nodes /\ r \notin DOMAIN heap
      /\ heap' = AddItem(Both(Single(r, Reference(x)), heap), p, r) /\ roots' = roots /\ lost' = lost
  BY DEF AddReferenceToArray, Unused
<1>2. Reference(x) = i
  BY <1>1, PlainReference
<1> HIDE DEF i
<1>3. p \in DOMAIN heap /\ ~heap[p].ref /\ ~Shown(heap, p) /\ Refers(heap, p, i)
  <2>1. NoKey \in Keys \cup {NoKey}
    OBVIOUS
  <2>2. QED
    BY <1>1, <2>1, ReferFacts DEF i
<1> DEFINE k == Both(Single(r, <<>>), ListsOf(heap))
<1>4. Shape(AddItem(Both(Single(r, i), heap), p, r), [k EXCEPT ![p] = Append(ListsOf(heap)[p], r)], roots \cup lost)
  BY <1>1, <1>3, ReferenceAdded
<1> HIDE DEF k
<1>5. TreeInv' /\ ListsOf(heap') = [k EXCEPT ![p] = Append(ListsOf(heap)[p], r)]
  BY <1>1, <1>2, <1>4, StaysShaped, TreeFacts
<1>6. Extends
  BY <1>1, <1>3, <1>5 DEF Extends, Owners, k
<1>7. QED
  BY <1>5, <1>6

LEMMA AddReferenceToObjectKeeps ==
  ASSUME TreeInv, NEW p, NEW x, NEW r, NEW key \in Keys, AddReferenceToObject(p, key, x, r)
  PROVE  TreeInv' /\ (Extends \/ Loses)
<1> DEFINE i == [Reference(x) EXCEPT !.string = key]
           j == [Reference(x) EXCEPT !.string = NoKey]
<1>1. MayRefer(p, x) /\ r \in Nodes /\ r \notin DOMAIN heap /\ roots' = roots
  BY DEF AddReferenceToObject, Unused
<1>2. \/ heap' = AddItem(Both(Single(r, i), heap), p, r) /\ lost' = lost
      \/ heap' = Both(Single(r, Reference(x)), heap) /\ lost' = lost \cup {r}
  BY DEF AddReferenceToObject
<1>3. Reference(x) = j
  BY <1>1, PlainReference
<1>4. p \in DOMAIN heap /\ ~heap[p].ref /\ ~Shown(heap, p) /\ Refers(heap, p, i) /\ Refers(heap, p, j)
  <2>1. key \in Keys \cup {NoKey} /\ NoKey \in Keys \cup {NoKey}
    OBVIOUS
  <2>2. p \in DOMAIN heap /\ ~heap[p].ref /\ ~Shown(heap, p) /\ Refers(heap, p, i)
    BY <1>1, <2>1, ReferFacts
  <2>3. Refers(heap, p, j)
    BY <1>1, <2>1, ReferFacts
  <2>4. QED
    BY <2>2, <2>3
<1> DEFINE k == Both(Single(r, <<>>), ListsOf(heap))
<1> HIDE DEF i, j
<1>5. CASE heap' = AddItem(Both(Single(r, i), heap), p, r) /\ lost' = lost
  <2>1. Shape(AddItem(Both(Single(r, i), heap), p, r), [k EXCEPT ![p] = Append(ListsOf(heap)[p], r)], roots \cup lost)
    BY <1>1, <1>4, ReferenceAdded
  <2> HIDE DEF k
  <2>2. TreeInv' /\ ListsOf(heap') = [k EXCEPT ![p] = Append(ListsOf(heap)[p], r)]
    BY <1>1, <1>5, <2>1, StaysShaped, TreeFacts
  <2>3. Extends
    BY <1>1, <1>4, <1>5, <2>2 DEF Extends, Owners, k
  <2>4. QED
    BY <2>2, <2>3
<1>6. CASE heap' = Both(Single(r, Reference(x)), heap) /\ lost' = lost \cup {r}
  <2>1. Shape(Both(Single(r, j), heap), k, (roots \cup lost) \cup {r})
    BY <1>1, <1>4, ReferenceAdded
  <2>2. roots' \cup lost' = (roots \cup lost) \cup {r} /\ roots' \cap lost' = {}
    BY <1>1, <1>6, TreeFacts
  <2> HIDE DEF k
  <2>3. TreeInv' /\ ListsOf(heap') = k
    BY <1>3, <1>6, <2>1, <2>2, StaysShaped
  <2>4. Loses
    BY <1>1, <1>6, <2>3 DEF Loses, k
  <2>5. QED
    BY <2>3, <2>4
<1>7. QED
  BY <1>2, <1>5, <1>6

LEMMA InsertKeeps ==
  ASSUME TreeInv, NEW p, NEW which \in Nat, NEW x, Insert(p, which, x)
  PROVE  TreeInv' /\ Attaches
<1> DEFINE T == roots \cup lost
           L == ListsOf(heap)
           after == GetArrayItem(p, which)
<1>1. Shape(heap, L, T)
  BY DEF TreeInv
<1>2. /\ MayAdd(p, x) /\ roots' = roots \ {x} /\ lost' = lost
      /\ heap' = IF after = Null THEN AddItem(heap, p, x) ELSE Inserted(heap, p, x, after)
  BY DEF Insert
<1>3. p \in DOMAIN heap /\ ~heap[p].ref /\ ~Shown(heap, p) /\ x \in roots /\ x \notin lost /\ x # p
  BY <1>2, AddFacts
<1>4. roots' \cap lost' = {} /\ roots' \cup lost' = T \ {x} /\ x \in T
  BY <1>2, <1>3, TreeFacts
<1> HIDE DEF T, L
<1>4a. L[p] \in Seq(DOMAIN heap)
  BY <1>1, <1>3, HeapFacts
<1>5. CASE after = Null
  <2>1. Shape(AddItem(heap, p, x), [L EXCEPT ![p] = Append(L[p], x)], T \ {x})
    BY <1>1, <1>3, <1>4, Appending
  <2>2. TreeInv' /\ ListsOf(heap') = [L EXCEPT ![p] = Append(L[p], x)]
    BY <1>2, <1>4, <1>5, <2>1, StaysShaped
  <2>3. Attaches
    BY <1>2, <1>4a, <2>2, AppendIsInsert DEF Attaches, L
  <2>4. QED
    BY <2>2, <2>3
<1>6. CASE after # Null
  <2>1. PICK j \in 1 .. Len(L[p]) : after = L[p][j]
    BY <1>1, <1>3, <1>6, ArrayItemFound
  <2> HIDE DEF after
  <2>2. Shape(Inserted(heap, p, x, L[p][j]), [L EXCEPT ![p] = InsertAt(L[p], j, x)], T \ {x})
    BY <1>1, <1>3, <1>4, Inserting
  <2>3. TreeInv' /\ ListsOf(heap') = [L EXCEPT ![p] = InsertAt(L[p], j, x)]
    BY <1>2, <1>4, <1>6, <2>1, <2>2, StaysShaped
  <2>4. j \in 1 .. Len(L[p]) + 1
    BY <1>4a
  <2>5. Attaches
    BY <1>2, <2>3, <2>4 DEF Attaches, L
  <2>6. QED
    BY <2>3, <2>5
<1>7. QED
  BY <1>5, <1>6

\* The item that the caller names by its place or by its key.
LEMMA ItemFound ==
  ASSUME NEW k, NEW top, Shape(heap, k, top), NEW p \in DOMAIN heap, ~heap[p].ref, NEW x, x # Null,
         \/ \E which \in Nat : x = GetArrayItem(p, which)
         \/ \E key, caseSensitive : x = GetObjectItem(p, key, caseSensitive)
  PROVE  \E j \in 1 .. Len(k[p]) : x = k[p][j]
<1>1. CASE \E which \in Nat : x = GetArrayItem(p, which)
  <2>1. PICK which \in Nat : x = GetArrayItem(p, which)
    BY <1>1
  <2>2. GetArrayItem(p, which) # Null
    BY <2>1
  <2>3. \E j \in 1 .. Len(k[p]) : GetArrayItem(p, which) = k[p][j]
    BY <2>2, ArrayItemFound
  <2>4. QED
    BY <2>1, <2>3
<1>2. CASE \E key, caseSensitive : x = GetObjectItem(p, key, caseSensitive)
  <2>1. PICK key, caseSensitive : x = GetObjectItem(p, key, caseSensitive)
    BY <1>2
  <2>2. GetObjectItem(p, key, caseSensitive) # Null
    BY <2>1
  <2>3. \E j \in 1 .. Len(k[p]) : GetObjectItem(p, key, caseSensitive) = k[p][j]
    BY <2>2, ObjectItemFound
  <2>4. QED
    BY <2>1, <2>3
<1>3. QED
  BY <1>1, <1>2

\* x is a child of p.
IsIn(p, x) == \E j \in 1 .. Len(ListsOf(heap)[p]) : x = ListsOf(heap)[p][j]

LEMMA FoundIsIn ==
  ASSUME TreeInv, NEW p \in DOMAIN heap, ~heap[p].ref, NEW x, x # Null,
         \/ \E which \in Nat : x = GetArrayItem(p, which)
         \/ \E key, caseSensitive : x = GetObjectItem(p, key, caseSensitive)
  PROVE  IsIn(p, x)
<1>1. Shape(heap, ListsOf(heap), roots \cup lost)
  BY DEF TreeInv
<1>2. QED
  BY <1>1, ItemFound DEF IsIn

LEMMA DetachKeeps ==
  ASSUME TreeInv, NEW p, NEW x, IsIn(p, x), Detach(p, x)
  PROVE  TreeInv' /\ Detaches
<1> DEFINE T == roots \cup lost
           L == ListsOf(heap)
<1>1. Shape(heap, L, T)
  BY DEF TreeInv
<1>2. p \in DOMAIN heap /\ ~heap[p].ref /\ ~Shown(heap, p)
      /\ heap' = Unlinked(heap, p, x) /\ roots' = roots \cup {x} /\ lost' = lost
  BY DEF Detach, MayEdit
<1>3. PICK j \in 1 .. Len(L[p]) : x = L[p][j]
  BY DEF IsIn
<1> HIDE DEF L
<1>4. x \notin T
  BY <1>1, <1>2, <1>3, OwnList
<1>5. roots' \cap lost' = {} /\ roots' \cup lost' = T \cup {x}
  BY <1>2, <1>4, TreeFacts
<1> HIDE DEF T
<1>6. Shape(Unlinked(heap, p, L[p][j]), [L EXCEPT ![p] = RemoveAt(L[p], j)], T \cup {L[p][j]})
  BY <1>1, <1>2, Unlinking
<1>7. TreeInv' /\ ListsOf(heap') = [L EXCEPT ![p] = RemoveAt(L[p], j)]
  BY <1>2, <1>3, <1>5, <1>6, StaysShaped
<1>8. Detaches
  BY <1>2, <1>3, <1>7 DEF Detaches, L
<1>9. QED
  BY <1>7, <1>8

\* What may be deleted from the heap may be deleted from one that shows the same.
LEMMA DeletedThere ==
  ASSUME NEW h, RefsStay(heap, h), NEW gone, MayDelete(gone)
  PROVE  \A r \in DOMAIN h \ gone : h[r].ref => h[r].child \notin gone
BY DEF RefsStay, MayDelete

LEMMA DeleteFromKeeps ==
  ASSUME TreeInv, NEW p, NEW x, IsIn(p, x), DeleteFrom(p, x)
  PROVE  TreeInv' /\ DropsChild
<1> DEFINE T == roots \cup lost
           L == ListsOf(heap)
           h == Unlinked(heap, p, x)
           F == Freed(h, x)
<1>1. Shape(heap, L, T)
  BY DEF TreeInv
<1>2. p \in DOMAIN heap /\ ~heap[p].ref /\ ~Shown(heap, p) /\ MayDelete(F)
      /\ heap' = Free(h, F) /\ roots' = roots /\ lost' = lost
  BY Zenon DEF DeleteFrom, MayEdit
<1>3. PICK j \in 1 .. Len(L[p]) : x = L[p][j]
  BY DEF IsIn
<1> HIDE DEF L
<1>4. x \notin T
  BY <1>1, <1>2, <1>3, OwnList
<1>5. roots' \cap lost' = {} /\ roots' \cup lost' = (T \cup {x}) \ {x} /\ x \in T \cup {x}
  BY <1>2, <1>4, TreeFacts
<1> DEFINE k == [L EXCEPT ![p] = RemoveAt(L[p], j)]
<1> HIDE DEF T
<1>6. Shape(h, k, T \cup {x}) /\ RefsStay(heap, h)
  BY <1>1, <1>2, <1>3, Unlinking
<1> HIDE DEF k, h
<1>7. \A r \in DOMAIN h \ F : h[r].ref => h[r].child \notin F
  BY <1>2, <1>6, DeletedThere
<1>8. Shape(Free(h, F), [y \in DOMAIN h \ F |-> k[y]], (T \cup {x}) \ {x})
  BY <1>5, <1>6, <1>7, Freeing
<1>9. TreeInv' /\ ListsOf(heap') = [y \in DOMAIN h \ F |-> k[y]]
  BY <1>2, <1>5, <1>8, StaysShaped
<1>10. IsBelow(k, x, F)
  BY <1>5, <1>6, FreedIsBelowIt
<1>11. DOMAIN h = DOMAIN heap
  BY <1>6 DEF RefsStay
<1> HIDE DEF F
<1>12. ListsOf(heap') = [y \in DOMAIN heap \ F |-> k[y]]
  BY <1>9, <1>11
<1>13. DropsChild
  BY <1>2, <1>3, <1>10, <1>12 DEF DropsChild, k, L
<1>14. QED
  BY <1>9, <1>13

\* h is the heap, but for keys.
LEMMA ReplaceKeeps ==
  ASSUME TreeInv, NEW p, NEW x, IsIn(p, x), NEW y, NEW h, Replace(h, p, x, y),
         Shape(h, ListsOf(heap), roots \cup lost), RefsStay(heap, h), ~Shown(h, p)
  PROVE  TreeInv' /\ Replaces
<1> DEFINE T == roots \cup lost
           L == ListsOf(heap)
           g == Replaced(h, p, x, y)
           F == Freed(g, x)
<1>1. Shape(h, L, T) /\ Shape(heap, L, T)
  BY DEF TreeInv
<1>2. MayAdd(p, y) /\ MayDelete(F) /\ heap' = Free(g, F) /\ roots' = roots \ {y} /\ lost' = lost
  BY Zenon DEF Replace
<1>3. p \in DOMAIN heap /\ ~heap[p].ref /\ y \in roots /\ y \notin lost /\ y # p
  BY <1>2, AddFacts
<1>4. p \in DOMAIN h /\ ~h[p].ref
  BY <1>3 DEF RefsStay
<1>5. PICK j \in 1 .. Len(L[p]) : x = L[p][j]
  BY DEF IsIn
<1> HIDE DEF L
<1>6. x \notin T
  BY <1>1, <1>3, <1>5, OwnList
<1>7. /\ roots' \cap lost' = {} /\ roots' \cup lost' = ((T \ {y}) \cup {x}) \ {x}
      /\ x \in (T \ {y}) \cup {x} /\ y \in T
  BY <1>2, <1>3, <1>6, TreeFacts
<1> DEFINE k == [L EXCEPT ![p] = Swapped(L[p], j, y)]
           U == (T \ {y}) \cup {x}
<1> HIDE DEF T
<1>8. Shape(g, k, U) /\ RefsStay(h, g)
  BY <1>1, <1>3, <1>4, <1>5, <1>7, Replacing
<1> HIDE DEF k, g
<1>9. RefsStay(heap, g)
  BY <1>8 DEF RefsStay
<1>10. \A r \in DOMAIN g \ F : g[r].ref => g[r].child \notin F
  BY <1>2, <1>9, DeletedThere
<1>11. x \in U /\ roots' \cup lost' = U \ {x}
  BY <1>7
<1> HIDE DEF U
<1>12. Shape(Free(g, F), [v \in DOMAIN g \ F |-> k[v]], U \ {x})
  BY <1>8, <1>10, <1>11, Freeing
<1>13. TreeInv' /\ ListsOf(heap') = [v \in DOMAIN g \ F |-> k[v]]
  BY <1>2, <1>7, <1>11, <1>12, StaysShaped
<1>14. IsBelow(k, x, F)
  BY <1>8, <1>11, FreedIsBelowIt
<1>15. DOMAIN g = DOMAIN heap
  BY <1>9 DEF RefsStay
<1> HIDE DEF F
<1>16. ListsOf(heap') = [v \in DOMAIN heap \ F |-> k[v]]
  BY <1>13, <1>15
<1>17. Replaces
  BY <1>2, <1>5, <1>14, <1>16 DEF Replaces, k, L
<1>18. QED
  BY <1>13, <1>17

LEMMA ReplaceInArrayKeeps ==
  ASSUME TreeInv, NEW p, NEW which \in Nat, NEW y, ReplaceInArray(p, which, y)
  PROVE  TreeInv' /\ Replaces
<1> DEFINE x == GetArrayItem(p, which)
<1>1. Replace(heap, p, x, y)
  BY DEF ReplaceInArray
<1> HIDE DEF x
<1>2. p \in DOMAIN heap /\ ~heap[p].ref /\ ~Shown(heap, p) /\ x # Null
  BY <1>1, AddFacts DEF Replace
<1>3. IsIn(p, x)
  BY <1>2, FoundIsIn DEF x
<1>4. Shape(heap, ListsOf(heap), roots \cup lost) /\ RefsStay(heap, heap)
  BY DEF TreeInv, RefsStay
<1>5. QED
  BY <1>1, <1>2, <1>3, <1>4, ReplaceKeeps

LEMMA ReplaceInObjectKeeps ==
  ASSUME TreeInv, NEW p, NEW key \in Keys, NEW y, NEW caseSensitive,
         ReplaceInObject(p, key, y, caseSensitive)
  PROVE  TreeInv' /\ (Replaces \/ NothingMoves)
<1> DEFINE x == GetObjectItem(p, key, caseSensitive)
           h == Named(heap, y, key)
           T == roots \cup lost
           L == ListsOf(heap)
<1>1. /\ MayAdd(p, y)
      /\ IF x # Null THEN Replace(h, p, x, y) ELSE heap' = h /\ roots' = roots /\ lost' = lost
  BY Zenon DEF ReplaceInObject, Named
<1> HIDE DEF x
<1>2. p \in DOMAIN heap /\ ~heap[p].ref /\ ~Shown(heap, p) /\ y \in DOMAIN heap
  BY <1>1, AddFacts
<1>3. Shape(heap, L, T)
  BY DEF TreeInv
<1> HIDE DEF L, T
<1>4. Shape(h, L, T) /\ RefsStay(heap, h) /\ ~Shown(h, p)
  BY <1>2, <1>3, Naming
<1> HIDE DEF h
<1>5. CASE x # Null
  <2>1. IsIn(p, x)
    BY <1>2, <1>5, FoundIsIn DEF x
  <2>2. QED
    BY <1>1, <1>4, <1>5, <2>1, ReplaceKeeps DEF L, T
<1>6. CASE x = Null
  <2>1. heap' = h /\ roots' = roots /\ lost' = lost /\ roots' \cup lost' = T /\ roots' \cap lost' = {}
    BY <1>1, <1>6, TreeFacts DEF T
  <2>2. TreeInv' /\ ListsOf(heap') = L
    BY <1>4, <2>1, StaysShaped
  <2>3. QED
    BY <2>1, <2>2 DEF NothingMoves, L
<1>7. QED
  BY <1>5, <1>6

-----------------------------------------------------------------------------
(***************************************************************************)
(* The theorems                                                            *)
(***************************************************************************)

LEMMA TreeInvStarts == TreeInit => TreeInv
<1> SUFFICES ASSUME TreeInit PROVE TreeInv
  OBVIOUS
<1>1. heap = [x \in {} |-> Null] /\ roots = {} /\ lost = {}
  BY DEF TreeInit
<1>2. DOMAIN heap = {} /\ heap \in [{} -> Item]
  BY <1>1
<1> DEFINE k == ListsOf(heap)
<1>3. DOMAIN k = {} /\ k \in [{} -> Seq({})]
  BY <1>2 DEF ListsOf
<1> HIDE DEF k
<1>4. OnePlace(k) /\ Loose(heap, k, {}) /\ Placed(k, {})
  BY <1>3 DEF OnePlace, Loose, Placed
<1>5. Shape(heap, k, {})
  BY <1>2, <1>3, <1>4 DEF Shape
<1>6. QED
  BY <1>1, <1>5 DEF TreeInv, k

LEMMA PlacesAreNumbers ==
  ASSUME TreeInv
  PROVE  0 .. Cardinality(DOMAIN heap) \subseteq Nat
<1>1. Shape(heap, ListsOf(heap), roots \cup lost)
  BY DEF TreeInv
<1>2. Cardinality(DOMAIN heap) \in Nat
  BY <1>1, HeapFacts
<1>3. QED
  BY <1>2

LEMMA PutKeeps ==
  ASSUME TreeInv, NEW p, NEW x, Put(p, x)
  PROVE  TreeInv' /\ Moves
<1>0. 0 .. Cardinality(DOMAIN heap) \subseteq Nat
  BY PlacesAreNumbers
<1>1. CASE AddItemToArray(p, x)
  BY <1>1, AddItemToArrayKeeps DEF Moves
<1>2. ASSUME NEW which \in 0 .. Cardinality(DOMAIN heap), Insert(p, which, x)
      PROVE  TreeInv' /\ Moves
  BY <1>0, <1>2, InsertKeeps DEF Moves
<1>3. ASSUME NEW which \in 0 .. Cardinality(DOMAIN heap), ReplaceInArray(p, which, x)
      PROVE  TreeInv' /\ Moves
  BY <1>0, <1>3, ReplaceInArrayKeeps DEF Moves
<1>4. ASSUME NEW key \in Keys, AddItemToObject(p, key, x)
      PROVE  TreeInv' /\ Moves
  BY <1>4, AddItemToObjectKeeps DEF Moves
<1>5. ASSUME NEW key \in Keys, NEW caseSensitive \in BOOLEAN, ReplaceInObject(p, key, x, caseSensitive)
      PROVE  TreeInv' /\ Moves
  BY <1>5, ReplaceInObjectKeeps DEF Moves
<1>6. QED
  BY <1>1, <1>2, <1>3, <1>4, <1>5, Zenon DEF Put

LEMMA ExtendKeeps ==
  ASSUME TreeInv, NEW p, NEW r, Extend(p, r)
  PROVE  TreeInv' /\ Moves
<1>1. ASSUME NEW key \in Keys, AddNewToObject(p, key, r)
      PROVE  TreeInv' /\ Moves
  BY <1>1, AddNewToObjectKeeps DEF Moves
<1>2. ASSUME NEW x \in DOMAIN heap, AddReferenceToArray(p, x, r)
      PROVE  TreeInv' /\ Moves
  BY <1>2, AddReferenceToArrayKeeps DEF Moves
<1>3. ASSUME NEW x \in DOMAIN heap, NEW key \in Keys, AddReferenceToObject(p, key, x, r)
      PROVE  TreeInv' /\ Moves
  BY <1>3, AddReferenceToObjectKeeps DEF Moves
<1>4. QED
  BY <1>1, <1>2, <1>3, Zenon DEF Extend

LEMMA TakeKeeps ==
  ASSUME TreeInv, NEW p \in DOMAIN heap, Take(p)
  PROVE  TreeInv' /\ Moves
<1>0. 0 .. Cardinality(DOMAIN heap) \subseteq Nat
  BY PlacesAreNumbers
<1>1. ASSUME NEW x, Detach(p, x) \/ DeleteFrom(p, x),
             \/ \E which \in Nat : x = GetArrayItem(p, which)
             \/ \E key, caseSensitive : x = GetObjectItem(p, key, caseSensitive)
      PROVE  TreeInv' /\ Moves
  <2>1. ~heap[p].ref /\ x # Null
    BY <1>1 DEF Detach, DeleteFrom, MayEdit
  <2>2. IsIn(p, x)
    BY <1>1, <2>1, FoundIsIn
  <2>3. QED
    BY <1>1, <2>2, DetachKeeps, DeleteFromKeeps DEF Moves
<1>2. ASSUME NEW which \in 0 .. Cardinality(DOMAIN heap),
             DetachFromArray(p, which) \/ DeleteFrom(p, GetArrayItem(p, which))
      PROVE  TreeInv' /\ Moves
  <2> DEFINE x == GetArrayItem(p, which)
  <2>1. Detach(p, x) \/ DeleteFrom(p, x)
    BY <1>2 DEF DetachFromArray
  <2>2. \E w \in Nat : x = GetArrayItem(p, w)
    BY <1>0
  <2> HIDE DEF x
  <2>3. QED
    BY <1>1, <2>1, <2>2
<1>3. ASSUME NEW key \in Keys, NEW caseSensitive \in BOOLEAN,
             \/ DetachFromObject(p, key, caseSensitive)
             \/ DeleteFrom(p, GetObjectItem(p, key, caseSensitive))
      PROVE  TreeInv' /\ Moves
  <2> DEFINE x == GetObjectItem(p, key, caseSensitive)
  <2>1. Detach(p, x) \/ DeleteFrom(p, x)
    BY <1>3 DEF DetachFromObject
  <2>2. \E o, c : x = GetObjectItem(p, o, c)
    OBVIOUS
  <2> HIDE DEF x
  <2>3. QED
    BY <1>1, <2>1, <2>2
<1>4. QED
  BY <1>2, <1>3, Zenon DEF Take

LEMMA TreeInvStays == TreeInv /\ [TreeNext]_treeVars => TreeInv' /\ Moves
<1> SUFFICES ASSUME TreeInv, [TreeNext]_treeVars PROVE TreeInv' /\ Moves
  OBVIOUS
<1>1. ASSUME NEW x \in Nodes, Create(x)
      PROVE  TreeInv' /\ Moves
  BY <1>1, CreateKeeps DEF Moves
<1>2. ASSUME NEW a \in Unused, NEW n \in 1 .. MaxArray, NEW items \in [1 .. n -> Unused],
             IsInjective(items), CreateArray(a, items)
      PROVE  TreeInv' /\ Moves
  <2>1. n \in Nat /\ n >= 1
    BY JsonTreeAssumption
  <2>2. QED
    BY <1>2, <2>1, CreateArrayKeeps DEF Moves
<1>3. ASSUME NEW x \in DOMAIN heap, Duplicate(x)
      PROVE  TreeInv' /\ Moves
  BY <1>3, DuplicateKeeps DEF Moves
<1>4. ASSUME NEW x \in roots, Delete(x)
      PROVE  TreeInv' /\ Moves
  BY <1>4, DeleteKeeps DEF Moves
<1>5. ASSUME NEW p \in DOMAIN heap, NEW x \in roots, Put(p, x)
      PROVE  TreeInv' /\ Moves
  BY <1>5, PutKeeps
<1>6. ASSUME NEW p \in DOMAIN heap, NEW r \in Unused, Extend(p, r)
      PROVE  TreeInv' /\ Moves
  BY <1>6, ExtendKeeps
<1>7. ASSUME NEW p \in DOMAIN heap, Take(p)
      PROVE  TreeInv' /\ Moves
  BY <1>7, TakeKeeps
<1>8. CASE UNCHANGED treeVars
  BY <1>8 DEF treeVars, TreeInv, Moves, NothingMoves
<1>9. TreeNext => TreeInv' /\ Moves
  BY <1>1, <1>2, <1>3, <1>4, <1>5, <1>6, <1>7, Zenon DEF TreeNext
<1>10. QED
  BY <1>8, <1>9

\* cJSON.c: whatever is created, added, detached, replaced, duplicated and deleted, in
\* any order, the heap keeps its shape.
THEOREM TreesKeepTheirShape == TreeSpec => []TreeInv
BY TreeInvStarts, TreeInvStays, PTL DEF TreeSpec

\* Neither an item nor the caller points to an item that was freed.
THEOREM PointersAreGood == TreeSpec => []NothingDangles
<1>1. ASSUME TreeInv PROVE NothingDangles
  <2> DEFINE D == DOMAIN heap
             L == ListsOf(heap)
             T == roots \cup lost
  <2>1. Shape(heap, L, T)
    BY <1>1 DEF TreeInv
  <2> HIDE DEF L, T
  <2>2. /\ D \subseteq Nodes /\ roots \subseteq D /\ heap \in [D -> Item]
    BY <1>1, TreeFacts
  <2>3. ASSUME NEW x \in D
        PROVE  heap[x].next \in D \cup {Null} /\ heap[x].prev \in D \cup {Null}
    <3>1. CASE x \in T
      BY <2>1, <3>1 DEF Shape, Loose
    <3>2. CASE x \notin T
      <4>1. PICK p \in D : x \in ToSet(L[p])
        BY <2>1, <3>2, HeapFacts DEF Shape, Placed
      <4> DEFINE s == L[p]
                 n == Len(s)
      <4>2. n \in Nat /\ DOMAIN s = 1 .. n /\ \A i \in 1 .. n : s[i] \in D
        BY <2>1, HeapFacts
      <4>3. PICK i \in 1 .. n : s[i] = x
        BY <4>1, <4>2 DEF ToSet
      <4>4. s # <<>>
        BY <4>2, <4>3
      <4>5. Linked(heap, s)
        BY <2>1, <4>4 DEF Shape, HasList
      <4> HIDE DEF s
      <4>6. /\ heap[s[i]].next = IF i = n THEN Null ELSE s[i + 1]
            /\ heap[s[i]].prev = s[IF i = 1 THEN n ELSE i - 1]
        BY <4>3, <4>5 DEF Linked
      <4> HIDE DEF n
      <4>7. (i # n => i + 1 \in 1 .. n) /\ (i # 1 => i - 1 \in 1 .. n) /\ n \in 1 .. n
        BY <4>2, <4>3
      <4>8. QED
        BY <4>2, <4>3, <4>6, <4>7
    <3>3. QED
      BY <3>1, <3>2
  <2>4. ASSUME NEW x \in D
        PROVE  heap[x].child \in D \cup {Null}
    <3>1. /\ heap[x].child = FirstOf(Children(heap, x))
          /\ Children(heap, x) \in Seq(D)
      BY <2>1, ChildrenFound
    <3> DEFINE c == Children(heap, x)
    <3> HIDE DEF c
    <3>2. c \in Seq(D) /\ heap[x].child = FirstOf(c)
      BY <3>1 DEF c
    <3>3. c # <<>> => c[1] \in D
      BY <3>2
    <3>4. QED
      BY <3>2, <3>3 DEF FirstOf
  <2>5. ASSUME NEW x \in D
        PROVE  heap[x] \in [next : D \cup {Null}, prev : D \cup {Null}, child : D \cup {Null},
                            string : Keys \cup {NoKey}, ref : BOOLEAN]
    <3>1. heap[x] \in Item
      BY <2>2
    <3>2. QED
      BY <2>3, <2>4, <3>1 DEF Item
  <2>6. QED
    BY <2>2, <2>5, Zenon DEF NothingDangles
<1>2. QED
  BY <1>1, TreesKeepTheirShape, PTL

\* Every list of children ends, and each item knows the one before it.
THEOREM ListsStayWhole == TreeSpec => []ListsAreWhole
<1>1. ASSUME TreeInv PROVE ListsAreWhole
  <2>1. Shape(heap, ListsOf(heap), roots \cup lost)
    BY <1>1 DEF TreeInv
  <2>2. ASSUME NEW p \in Owners
        PROVE  LET c == Children(heap, p) IN
                 /\ IsInjective(c)
                 /\ \A i \in DOMAIN c : heap[c[i]].prev = c[IF i = 1 THEN Len(c) ELSE i - 1]
    <3> DEFINE c == Children(heap, p)
    <3>1. c \in Seq(DOMAIN heap) /\ IsInjective(c) /\ Linked(heap, c)
      BY <2>1, ChildrenFound DEF Owners
    <3> HIDE DEF c
    <3>2. DOMAIN c = 1 .. Len(c)
      BY <3>1
    <3>3. \A i \in DOMAIN c : heap[c[i]].prev = c[IF i = 1 THEN Len(c) ELSE i - 1]
      BY <3>1, <3>2, Zenon DEF Linked
    <3>4. QED
      BY <3>1, <3>3 DEF c
  <2>3. \A x \in roots : heap[x].next = Null /\ heap[x].prev = Null
    BY <2>1 DEF Shape, Loose
  <2>4. QED
    BY <2>2, <2>3 DEF ListsAreWhole
<1>2. QED
  BY <1>1, TreesKeepTheirShape, PTL

\* An item that is neither with the caller nor lost is a child of exactly one item.
THEOREM PlacesAreUnique == TreeSpec => []EveryItemHasAPlace
<1>1. ASSUME TreeInv PROVE EveryItemHasAPlace
  <2> DEFINE D == DOMAIN heap
             L == ListsOf(heap)
             T == roots \cup lost
             parents(x) == {p \in Owners : x \in ToSet(Children(heap, p))}
  <2>1. Shape(heap, L, T)
    BY <1>1 DEF TreeInv
  <2> HIDE DEF L
  <2>2. Owners \subseteq D /\ \A p \in Owners : Children(heap, p) = L[p]
    BY <2>1, ChildrenFound DEF Owners
  <2>3. \A p \in D : ~(p \in Owners) => ToSet(L[p]) = {}
    <3>1. \A p \in D : ~(p \in Owners) => L[p] = <<>>
      BY <2>1 DEF Shape, HasList, Owners
    <3>2. ToSet(<<>>) = {}
      BY DEF ToSet
    <3>3. QED
      BY <3>1, <3>2
  <2>4. /\ DOMAIN L = D /\ OnePlace(L) /\ Placed(L, T)
        /\ \A x \in T : \A p \in D : x \notin ToSet(L[p])
    BY <2>1 DEF Shape, Loose
  <2>5. ASSUME NEW x \in D
        PROVE  IF x \in T THEN parents(x) = {} ELSE Cardinality(parents(x)) = 1
    <3>1. CASE x \in T
      BY <2>2, <2>4, <3>1
    <3>2. CASE x \notin T
      <4>1. PICK p \in D : x \in ToSet(L[p])
        BY <2>4, <3>2 DEF Placed
      <4>2. parents(x) = {p}
        BY <2>2, <2>3, <2>4, <4>1 DEF OnePlace
      <4> HIDE DEF parents
      <4>3. Cardinality(parents(x)) = 1
        BY <4>2, FS_Singleton
      <4>4. QED
        BY <3>2, <4>3
    <3>3. QED
      BY <3>1, <3>2
  <2>6. QED
    BY <2>5, Zenon DEF EveryItemHasAPlace
<1>2. QED
  BY <1>1, TreesKeepTheirShape, PTL

-----------------------------------------------------------------------------
(***************************************************************************)
(* The pointers implement the sequences of JsonForest: each of the moves   *)
(* above is an action of JsonForest, or changes nothing there.  That needs *)
(* more of the invariant: no item is below itself, and what was lost is a  *)
(* reference.                                                              *)
(***************************************************************************)

-----------------------------------------------------------------------------
(***************************************************************************)
(* What is inside an item                                                  *)
(***************************************************************************)

WithinStep(k, w, x, n) ==
  IF n = 0 THEN {x} ELSE w[n - 1] \cup UNION {ToSet(k[y]) : y \in w[n - 1]}

Within(k, x) == CHOOSE w : w = [n \in Nat |-> WithinStep(k, w, x, n)]

LEMMA InsideIsWithin == \A k, x : Forest!Inside(k, x) = Within(k, x)[Cardinality(DOMAIN k)]
BY Zenon DEF Forest!Inside, Within, WithinStep, Forest!ToSet, ToSet, Forest!Cardinality, Cardinality

\* The lists of a finite number of items.
ListsIn(D, k) == IsFiniteSet(D) /\ k \in [D -> Seq(D)]

LEMMA ItemsOfLists ==
  ASSUME NEW D, NEW k, ListsIn(D, k)
  PROVE  DOMAIN k = D /\ \A y \in D : ToSet(k[y]) \subseteq D
<1>1. DOMAIN k = D /\ \A y \in D : k[y] \in Seq(D)
  BY DEF ListsIn
<1>2. \A s \in Seq(D) : ToSet(s) \subseteq D
  BY ElementOfSeq DEF ToSet
<1>3. QED
  BY <1>1, <1>2

\* What is inside x is reached from x, by going from an item to its children.
LEMMA InsideIsReached ==
  ASSUME NEW D, NEW k, ListsIn(D, k), NEW x \in D
  PROVE  Reached(D, [y \in D |-> ToSet(k[y])], {x}, Forest!Inside(k, x))
<1> DEFINE a == {x}
           d == [y \in D |-> ToSet(k[y])]
           g == [b \in SUBSET D |-> b \cup UNION {d[y] : y \in b}]
<1>1. IsFiniteSet(D) /\ Cardinality(D) \in Nat /\ DOMAIN k = D
  BY ItemsOfLists, FS_CardinalityType DEF ListsIn
<1>2. \A y \in D : ToSet(k[y]) = d[y]
  OBVIOUS
<1>3. d \in [D -> SUBSET D] /\ a \in SUBSET D /\ a # {}
  BY ItemsOfLists
<1>4. g \in [SUBSET D -> SUBSET D]
  <2>1. \A b \in SUBSET D : b \cup UNION {d[y] : y \in b} \in SUBSET D
    BY <1>3, Zenon
  <2>2. QED
    BY <2>1
<1> HIDE DEF d
<1>5. \A b \in SUBSET D : UNION {ToSet(k[y]) : y \in b} = UNION {d[y] : y \in b}
  BY <1>2
<1>6. \A b \in SUBSET D : g[b] = b \cup UNION {ToSet(k[y]) : y \in b}
  BY <1>5
<1>7. \A b \in SUBSET D : g[b] = b \cup UNION {d[y] : y \in b}
  OBVIOUS
<1> HIDE DEF g
<1>8. PICK f \in [Nat -> SUBSET D] : f[0] = a /\ \A n \in Nat : f[n + 1] = g[f[n]]
  <2> DEFINE S == SUBSET D
  <2>1. a \in S /\ g \in [S -> S]
    BY <1>3, <1>4
  <2> HIDE DEF S, a
  <2>2. \E f \in [Nat -> S] : f[0] = a /\ \A n \in Nat : f[n + 1] = g[f[n]]
    BY <2>1, RecursionSolves
  <2>3. QED
    BY <2>2 DEF S
<1> DEFINE Solves(b) == b = [n \in Nat |-> WithinStep(k, b, x, n)]
<1>9. ASSUME NEW n \in Nat PROVE f[n] = WithinStep(k, f, x, n)
  <2>1. CASE n = 0
    BY <1>8, <2>1 DEF WithinStep
  <2>2. CASE n # 0
    <3> DEFINE m == n - 1
    <3>1. m \in Nat /\ m + 1 = n
      BY <2>2
    <3>2. WithinStep(k, f, x, n) = f[m] \cup UNION {ToSet(k[y]) : y \in f[m]}
      BY <2>2 DEF WithinStep
    <3> HIDE DEF m
    <3>3. f[n] = g[f[m]] /\ f[m] \in SUBSET D
      BY <1>8, <3>1
    <3>4. QED
      BY <1>6, <3>2, <3>3
  <2>3. QED
    BY <2>1, <2>2
<1>10. Solves(f)
  <2>1. f = [n \in Nat |-> f[n]]
    BY <1>8
  <2>2. QED
    BY <1>9, <2>1
<1> DEFINE w == Within(k, x)
<1>11. Solves(w)
  <2>1. w = CHOOSE b : Solves(b)
    BY Zenon DEF Within
  <2> HIDE DEF Solves, w
  <2>2. QED
    BY <1>10, <2>1, Zenon
<1> HIDE DEF w
<1>12. \A n \in Nat : w[n] = WithinStep(k, w, x, n)
  BY <1>11
<1>13. \A n \in Nat : w[n] = f[n]
  <2> DEFINE Differ == {n \in Nat : w[n] # f[n]}
  <2> SUFFICES ASSUME Differ # {} PROVE FALSE
    OBVIOUS
  <2>1. PICK n \in Differ : \A i \in Differ : n <= i
    <3>1. Differ \in SUBSET Nat
      OBVIOUS
    <3> HIDE DEF Differ
    <3>2. QED
      BY <3>1, Least
  <2>2. n \in Nat /\ w[n] # f[n]
    BY <2>1
  <2>3. n # 0
    BY <1>9, <1>12, <2>2 DEF WithinStep
  <2>4. n - 1 \in Nat /\ ~(n <= n - 1)
    BY <2>2, <2>3
  <2>5. w[n - 1] = f[n - 1]
    BY <2>1, <2>4
  <2>6. WithinStep(k, w, x, n) = WithinStep(k, f, x, n)
    BY <2>3, <2>5 DEF WithinStep
  <2>7. QED
    BY <1>9, <1>12, <2>2, <2>6
<1>14. Forest!Inside(k, x) = f[Cardinality(D)]
  BY <1>1, <1>13, InsideIsWithin DEF w
<1>15. \A n \in Nat : f[n + 1] = f[n] \cup UNION {d[y] : y \in f[n]}
  BY <1>7, <1>8
<1>16. d \in [D -> SUBSET D] /\ a \in SUBSET D /\ a # {} /\ f[0] = a /\ f \in [Nat -> SUBSET D]
  BY <1>3, <1>8
<1> HIDE DEF a
<1>17. Spreads(D, d, a, f)
  BY <1>15, <1>16 DEF Spreads
<1>18. Reached(D, d, a, f[Cardinality(D)])
  BY <1>1, <1>16, <1>17, Closure
<1>19. QED
  BY <1>14, <1>18 DEF d, a

\* Nothing outside a closed set is inside an item of it.
LEMMA InsideFacts ==
  ASSUME NEW D, NEW k, ListsIn(D, k), NEW x \in D
  PROVE  LET F == Forest!Inside(k, x) IN
           /\ F \subseteq D /\ x \in F
           /\ \A y \in F : ToSet(k[y]) \subseteq F
           /\ \A T : x \in T /\ (\A y \in T \cap D : ToSet(k[y]) \subseteq T) => F \subseteq T
<1> DEFINE a == {x}
           d == [y \in D |-> ToSet(k[y])]
           F == Forest!Inside(k, x)
<1>1. Reached(D, d, a, F)
  BY InsideIsReached
<1>2. \A y \in D : d[y] = ToSet(k[y])
  OBVIOUS
<1> HIDE DEF d, F
<1>3. /\ F \in SUBSET D /\ a \subseteq F
      /\ \A y \in F : d[y] \subseteq F
      /\ \A T : a \subseteq T /\ (\A y \in T \cap D : d[y] \subseteq T) => F \subseteq T
  BY <1>1, Zenon DEF Reached
<1>4. F \subseteq D /\ x \in F /\ \A y \in F : ToSet(k[y]) \subseteq F
  BY <1>2, <1>3
<1>5. ASSUME NEW T, x \in T, \A y \in T \cap D : ToSet(k[y]) \subseteq T
      PROVE  F \subseteq T
  <2>1. a \subseteq T /\ \A y \in T \cap D : d[y] \subseteq T
    BY <1>2, <1>5
  <2>2. QED
    BY <1>3, <2>1
<1>6. QED
  BY <1>4, <1>5 DEF F

-----------------------------------------------------------------------------
(***************************************************************************)
(* Lists without a loop                                                    *)
(***************************************************************************)

\* Going from items to their parents one leaves every set of items.
NoLoop(k) ==
  \A T \in SUBSET DOMAIN k : T # {} => \E y \in T : \A p \in T : y \notin ToSet(k[p])

\* Taking items and children away makes no loop.
LEMMA LessHasNoLoop ==
  ASSUME NEW k, NoLoop(k), NEW l, DOMAIN l \subseteq DOMAIN k, \A p \in DOMAIN l : ToSet(l[p]) \subseteq ToSet(k[p])
  PROVE  NoLoop(l)
<1> SUFFICES ASSUME NEW T \in SUBSET DOMAIN l, T # {}
             PROVE  \E y \in T : \A p \in T : y \notin ToSet(l[p])
  BY DEF NoLoop
<1>1. PICK y \in T : \A p \in T : y \notin ToSet(k[p])
  BY DEF NoLoop
<1>2. QED
  BY <1>1

\* A child of p may be added, when it is in a closed set that p is not in.
LEMMA AddingMakesNoLoop ==
  ASSUME NEW k, NoLoop(k), NEW F, \A y \in F : y \in DOMAIN k => ToSet(k[y]) \subseteq F,
         NEW p, p \notin F, NEW x \in F,
         NEW l, DOMAIN l = DOMAIN k, \A q \in DOMAIN k : q # p => l[q] = k[q],
         p \in DOMAIN k => ToSet(l[p]) \subseteq ToSet(k[p]) \cup {x}
  PROVE  NoLoop(l)
<1> DEFINE D == DOMAIN k
<1> SUFFICES ASSUME NEW T \in SUBSET D, T # {}, \A y \in T : \E q \in T : y \in ToSet(l[q])
             PROVE  FALSE
  BY DEF NoLoop
<1>1. CASE T \subseteq F
  <2>1. \A q \in T : l[q] = k[q]
    BY <1>1
  <2>2. \A y \in T : \E q \in T : y \in ToSet(k[q])
    BY <2>1
  <2>3. QED
    BY <2>2 DEF NoLoop
<1>2. CASE ~(T \subseteq F)
  <2> DEFINE U == T \ F
  <2>1. U \in SUBSET D /\ U # {}
    BY <1>2
  <2>2. ASSUME NEW y \in U
        PROVE  \E q \in U : y \in ToSet(k[q])
    <3>1. PICK q \in T : y \in ToSet(l[q])
      OBVIOUS
    <3>2. y # x
      OBVIOUS
    <3>3. y \in ToSet(k[q])
      BY <3>1, <3>2
    <3>4. q \notin F
      BY <3>3
    <3>5. QED
      BY <3>3, <3>4
  <2> HIDE DEF U
  <2>3. QED
    BY <2>1, <2>2 DEF NoLoop
<1>3. QED
  BY <1>1, <1>2

LEMMA RankedHasNoLoop ==
  ASSUME NEW k, Ranked(k)
  PROVE  NoLoop(k)
<1>1. PICK rank \in [DOMAIN k -> Nat] : \A y \in DOMAIN k : \A z \in ToSet(k[y]) : rank[y] < rank[z]
  BY DEF Ranked
<1> SUFFICES ASSUME NEW T \in SUBSET DOMAIN k, T # {}
             PROVE  \E y \in T : \A p \in T : y \notin ToSet(k[p])
  BY DEF NoLoop
<1> DEFINE R == {rank[y] : y \in T}
<1>2. R \in SUBSET Nat /\ R # {}
  BY <1>1
<1>3. PICK n \in R : \A i \in R : n <= i
  <2> HIDE DEF R
  <2>1. QED
    BY <1>2, Least
<1>4. PICK y \in T : rank[y] = n
  OBVIOUS
<1>5. ASSUME NEW p \in T, y \in ToSet(k[p])
      PROVE  FALSE
  <2>1. rank[p] < rank[y] /\ rank[y] <= rank[p] /\ rank[p] \in Nat /\ rank[y] \in Nat
    BY <1>1, <1>3, <1>4, <1>5
  <2>2. QED
    BY <2>1
<1>6. QED
  BY <1>5

\* Lists that are apart make no loop together.
LEMMA BothHaveNoLoop ==
  ASSUME NEW D, NEW E, D \cap E = {}, NEW k \in [D -> Seq(D)], NEW l \in [E -> Seq(E)], NoLoop(k), NoLoop(l)
  PROVE  NoLoop(Both(l, k))
<1> DEFINE m == Both(l, k)
<1>1. DOMAIN m = D \cup E /\ (\A y \in D : m[y] = k[y]) /\ (\A y \in E : m[y] = l[y])
  BY DEF Both
<1>2. (\A y \in D : ToSet(k[y]) \subseteq D) /\ (\A y \in E : ToSet(l[y]) \subseteq E)
  BY ElementOfSeq DEF ToSet
<1> HIDE DEF m
<1> SUFFICES ASSUME NEW T \in SUBSET (D \cup E), T # {}, \A y \in T : \E q \in T : y \in ToSet(m[q])
             PROVE  FALSE
  BY <1>1 DEF NoLoop, m
<1>3. CASE T \cap D # {}
  <2>1. T \cap D \in SUBSET DOMAIN k
    OBVIOUS
  <2>2. PICK y \in T \cap D : \A q \in T \cap D : y \notin ToSet(k[q])
    BY <1>3, <2>1 DEF NoLoop
  <2>3. PICK q \in T : y \in ToSet(m[q])
    OBVIOUS
  <2>4. QED
    BY <1>1, <1>2, <2>2, <2>3
<1>4. CASE T \cap D = {}
  <2>1. T \in SUBSET DOMAIN l /\ T \subseteq E
    BY <1>4
  <2>2. PICK y \in T : \A q \in T : y \notin ToSet(l[q])
    BY <2>1 DEF NoLoop
  <2>3. QED
    BY <1>1, <2>1, <2>2
<1>5. QED
  BY <1>3, <1>4

\* Without a loop, what is below x is what is inside x.
LEMMA InsideIsBelow ==
  ASSUME NEW D, NEW k, ListsIn(D, k), NoLoop(k), NEW x \in D, NEW F, IsBelow(k, x, F)
  PROVE  Forest!Inside(k, x) = F
<1> DEFINE G == Forest!Inside(k, x)
<1>1. /\ DOMAIN k = D /\ F \subseteq D /\ x \in F
      /\ \A y \in F : ToSet(k[y]) \subseteq F
      /\ \A y \in F : y # x => \E q \in F : y \in ToSet(k[q])
  BY ItemsOfLists DEF IsBelow
<1>2. /\ G \subseteq D /\ x \in G
      /\ \A y \in G : ToSet(k[y]) \subseteq G
      /\ \A T : x \in T /\ (\A y \in T \cap D : ToSet(k[y]) \subseteq T) => G \subseteq T
  BY InsideFacts
<1> HIDE DEF G
<1>3. G \subseteq F
  BY <1>1, <1>2
<1>4. F \ G = {}
  <2> SUFFICES ASSUME F \ G # {} PROVE FALSE
    OBVIOUS
  <2>1. F \ G \in SUBSET DOMAIN k
    BY <1>1
  <2>2. PICK y \in F \ G : \A p \in F \ G : y \notin ToSet(k[p])
    BY <2>1 DEF NoLoop
  <2>3. PICK q \in F : y \in ToSet(k[q])
    BY <1>1, <1>2, <2>2
  <2>4. QED
    BY <1>2, <2>2, <2>3
<1>5. QED
  BY <1>3, <1>4 DEF G

-----------------------------------------------------------------------------
(***************************************************************************)
(* What was lost is a reference                                            *)
(***************************************************************************)

\* Heap g has the items of h, and the same of them are references.
SameRefs(h, g) ==
  /\ DOMAIN h \subseteq DOMAIN g
  /\ \A y \in DOMAIN h : "ref" \in DOMAIN g[y] /\ g[y].ref = h[y].ref

LEMMA SetsKeepRefs ==
  ASSUME NEW h, NEW g, SameRefs(h, g)
  PROVE  \A a, v : /\ SameRefs(h, SetNext(g, a, v)) /\ SameRefs(h, SetPrev(g, a, v))
                   /\ SameRefs(h, SetChild(g, a, v)) /\ SameRefs(h, Named(g, a, v))
<1> TAKE a, v
<1>1. SameRefs(h, SetNext(g, a, v))
  BY Zenon DEF SameRefs, SetNext
<1>2. SameRefs(h, SetPrev(g, a, v))
  BY Zenon DEF SameRefs, SetPrev
<1>3. SameRefs(h, SetChild(g, a, v))
  BY Zenon DEF SameRefs, SetChild
<1>4. SameRefs(h, Named(g, a, v))
  BY Zenon DEF SameRefs, Named
<1>5. QED
  BY <1>1, <1>2, <1>3, <1>4

LEMMA AddItemKeepsRefs ==
  ASSUME NEW h, NEW g, SameRefs(h, g), NEW p, NEW x
  PROVE  SameRefs(h, AddItem(g, p, x))
BY Zenon, SetsKeepRefs, AddItemSets

LEMMA InsertedKeepsRefs ==
  ASSUME NEW h, NEW g, SameRefs(h, g), NEW p, NEW x, NEW after
  PROVE  SameRefs(h, Inserted(g, p, x, after))
<1> DEFINE m == SetPrev(SetPrev(SetNext(g, x, after), x, g[after].prev), after, x)
<1>1. SameRefs(h, m)
  BY SetsKeepRefs, Zenon
<1>2. Inserted(g, p, x, after) = IF after = g[p].child THEN SetChild(m, p, x) ELSE SetNext(m, m[x].prev, x)
  BY DEF Inserted, SetPrev, SetNext, SetChild
<1> HIDE DEF m
<1>3. QED
  BY <1>1, <1>2, SetsKeepRefs, Zenon

LEMMA UnlinkedKeepsRefs ==
  ASSUME NEW h, NEW g, SameRefs(h, g), NEW p, NEW x
  PROVE  SameRefs(h, Unlinked(g, p, x))
<1> DEFINE a == IF x # g[p].child THEN SetNext(g, g[x].prev, g[x].next) ELSE g
           b == IF g[x].next # Null THEN SetPrev(a, g[x].next, g[x].prev) ELSE a
           c == IF x = g[p].child THEN SetChild(b, p, g[x].next)
                ELSE IF g[x].next = Null THEN SetPrev(b, g[p].child, g[x].prev)
                ELSE b
<1>1. SameRefs(h, a)
  BY SetsKeepRefs, Zenon
<1>2. Unlinked(g, p, x) = SetNext(SetPrev(c, x, Null), x, Null)
  BY UnlinkedSets, Zenon
<1> HIDE DEF a
<1>3. SameRefs(h, b)
  BY <1>1, SetsKeepRefs, Zenon
<1> HIDE DEF b
<1>4. SameRefs(h, c)
  BY <1>3, SetsKeepRefs, Zenon
<1> HIDE DEF c
<1>5. SameRefs(h, SetPrev(c, x, Null))
  BY <1>4, SetsKeepRefs, Zenon
<1>6. QED
  BY <1>2, <1>5, SetsKeepRefs, Zenon

LEMMA ReplacedKeepsRefs ==
  ASSUME NEW h, NEW g, SameRefs(h, g), NEW p, NEW x, NEW y
  PROVE  SameRefs(h, Replaced(g, p, x, y))
<1> DEFINE a == Inherited(g, x, y)
           b == NextTold(a, y)
           c == BeforeTold(b, p, x, y)
<1>1. SameRefs(h, a)
  <2>1. SameRefs(h, SetNext(g, y, g[x].next))
    BY SetsKeepRefs, Zenon
  <2>2. QED
    BY <2>1, InheritedSets, SetsKeepRefs, Zenon
<1>2. Replaced(g, p, x, y) = Alone(c, x)
  BY DEF Replaced
<1> HIDE DEF a
<1>3. SameRefs(h, b)
  <2>1. b = IF a[y].next # Null THEN SetPrev(a, a[y].next, y) ELSE a
    BY DEF NextTold, SetPrev
  <2> HIDE DEF b
  <2>2. QED
    BY <1>1, <2>1, SetsKeepRefs, Zenon
<1> HIDE DEF b
<1>4. SameRefs(h, c)
  <2>1. CASE b[p].child = x
    <3> DEFINE v == IF b[x].prev = x THEN y ELSE b[y].prev
    <3>1. c = SetChild(SetPrev(b, y, v), p, y)
      BY <2>1 DEF BeforeTold, SetPrev, SetChild
    <3> HIDE DEF v, c
    <3>2. SameRefs(h, SetPrev(b, y, v))
      BY <1>3, SetsKeepRefs, Zenon
    <3>3. QED
      BY <3>1, <3>2, SetsKeepRefs, Zenon
  <2> DEFINE d == SetNext(b, b[y].prev, y)
  <2>2. SameRefs(h, d)
    BY <1>3, SetsKeepRefs, Zenon
  <2>3. CASE b[p].child # x /\ b[y].next # Null
    <3>1. c = d
      BY <2>3 DEF BeforeTold, SetNext
    <3>2. QED
      BY <2>2, <3>1
  <2>4. CASE b[p].child # x /\ b[y].next = Null
    <3>1. c = SetPrev(d, d[p].child, y)
      BY <2>4 DEF BeforeTold, SetNext, SetPrev
    <3> HIDE DEF d, c
    <3>2. QED
      BY <2>2, <3>1, SetsKeepRefs, Zenon
  <2>5. QED
    BY <2>1, <2>3, <2>4
<1> HIDE DEF c
<1>5. SameRefs(h, SetNext(c, x, Null))
  BY <1>4, SetsKeepRefs, Zenon
<1>6. Alone(c, x) = SetPrev(SetNext(c, x, Null), x, Null)
  BY DEF Alone, SetNext, SetPrev
<1>7. QED
  BY <1>2, <1>5, <1>6, SetsKeepRefs, Zenon

LostAreRefs == \A r \in lost : heap[r].ref

\* An item that stays is as much a reference as it was; what is lost is one.
RefsHold ==
  /\ \A y \in DOMAIN heap \cap DOMAIN heap' : heap'[y].ref = heap[y].ref
  /\ \A r \in lost' \ lost : heap'[r].ref

\* No item is written but by linking it, and some may go.
LEMMA LinkingHoldsRefs ==
  ASSUME NEW g, SameRefs(heap, g), heap' = g \/ (\E gone : heap' = Free(g, gone)), lost' = lost
  PROVE  RefsHold
<1>1. ASSUME NEW y \in DOMAIN heap \cap DOMAIN heap'
      PROVE  heap'[y].ref = heap[y].ref
  <2>1. g[y].ref = heap[y].ref
    BY DEF SameRefs
  <2>2. heap'[y] = g[y]
    BY DEF Free
  <2>3. QED
    BY <2>1, <2>2
<1>2. QED
  BY <1>1 DEF RefsHold

LEMMA HeapHasRefs ==
  ASSUME TreeInv
  PROVE  /\ SameRefs(heap, heap)
         /\ \A new : DOMAIN new \subseteq Unused => SameRefs(heap, Both(new, heap))
<1>1. \A y \in DOMAIN heap : "ref" \in DOMAIN heap[y]
  <2>1. \A y \in DOMAIN heap : heap[y] \in Item
    BY TreeFacts
  <2>2. \A i \in Item : "ref" \in DOMAIN i
    BY DEF Item
  <2>3. QED
    BY <2>1, <2>2
<1>2. SameRefs(heap, heap)
  BY <1>1, Zenon DEF SameRefs
<1>3. ASSUME NEW new, DOMAIN new \subseteq Unused
      PROVE  SameRefs(heap, Both(new, heap))
  <2>1. DOMAIN heap \subseteq DOMAIN Both(new, heap) /\ \A y \in DOMAIN heap : Both(new, heap)[y] = heap[y]
    BY <1>3 DEF Both, Unused
  <2>2. QED
    BY <1>1, <2>1 DEF SameRefs
<1>4. QED
  BY <1>2, <1>3

LEMMA MakingHoldsRefs ==
  ASSUME TreeInv, NEW new, DOMAIN new \subseteq Unused, heap' = Both(new, heap), lost' = lost
  PROVE  RefsHold
BY HeapHasRefs, LinkingHoldsRefs

LEMMA PutHoldsRefs ==
  ASSUME TreeInv, NEW p, NEW x, Put(p, x)
  PROVE  RefsHold
<1>1. SameRefs(heap, heap)
  BY HeapHasRefs
<1>2. CASE AddItemToArray(p, x)
  BY <1>1, <1>2, AddItemKeepsRefs, LinkingHoldsRefs DEF AddItemToArray
<1>3. ASSUME NEW which, Insert(p, which, x)
      PROVE  RefsHold
  <2> DEFINE after == GetArrayItem(p, which)
             g == IF after = Null THEN AddItem(heap, p, x) ELSE Inserted(heap, p, x, after)
  <2>1. heap' = g /\ lost' = lost
    BY <1>3, Zenon DEF Insert
  <2>2. SameRefs(heap, g)
    BY <1>1, AddItemKeepsRefs, InsertedKeepsRefs, Zenon
  <2> HIDE DEF g
  <2>3. QED
    BY <2>1, <2>2, LinkingHoldsRefs
<1>4. ASSUME NEW h, SameRefs(heap, h), NEW z, Replace(h, p, z, x)
      PROVE  RefsHold
  <2> DEFINE g == Replaced(h, p, z, x)
  <2>1. heap' = Free(g, Freed(g, z)) /\ lost' = lost
    BY <1>4, Zenon DEF Replace
  <2>2. SameRefs(heap, g)
    BY <1>4, ReplacedKeepsRefs
  <2> HIDE DEF g
  <2>3. QED
    BY <2>1, <2>2, LinkingHoldsRefs
<1>5. ASSUME NEW which, ReplaceInArray(p, which, x)
      PROVE  RefsHold
  BY <1>1, <1>4, <1>5 DEF ReplaceInArray
<1>6. ASSUME NEW key, AddItemToObject(p, key, x)
      PROVE  RefsHold
  <2> DEFINE h == Named(heap, x, key)
  <2>1. SameRefs(heap, h)
    BY <1>1, SetsKeepRefs, Zenon
  <2>2. heap' = AddItem(h, p, x) /\ lost' = lost
    BY <1>6 DEF AddItemToObject, Named
  <2> HIDE DEF h
  <2>3. QED
    BY <2>1, <2>2, AddItemKeepsRefs, LinkingHoldsRefs
<1>7. ASSUME NEW key, NEW caseSensitive, ReplaceInObject(p, key, x, caseSensitive)
      PROVE  RefsHold
  <2> DEFINE h == Named(heap, x, key)
             z == GetObjectItem(p, key, caseSensitive)
  <2>1. SameRefs(heap, h)
    BY <1>1, SetsKeepRefs, Zenon
  <2>2. IF z # Null THEN Replace(h, p, z, x) ELSE heap' = h /\ lost' = lost
    BY <1>7, Zenon DEF ReplaceInObject, Named
  <2> HIDE DEF h, z
  <2>3. QED
    BY <1>4, <2>1, <2>2, LinkingHoldsRefs
<1>8. QED
  BY <1>2, <1>3, <1>5, <1>6, <1>7, Zenon DEF Put

LEMMA ExtendHoldsRefs ==
  ASSUME TreeInv, NEW p, NEW r \in Unused, Extend(p, r)
  PROVE  RefsHold
<1>1. \A i : DOMAIN Single(r, i) \subseteq Unused
  BY DEF Single
<1>2. \A i : SameRefs(heap, Both(Single(r, i), heap))
  BY <1>1, HeapHasRefs
<1>3. ASSUME NEW i, heap' = AddItem(Both(Single(r, i), heap), p, r), lost' = lost
      PROVE  RefsHold
  <2>1. SameRefs(heap, AddItem(Both(Single(r, i), heap), p, r))
    BY <1>2, AddItemKeepsRefs
  <2>2. QED
    BY <1>3, <2>1, LinkingHoldsRefs
<1>4. ASSUME NEW key, AddNewToObject(p, key, r)
      PROVE  RefsHold
  BY <1>3, <1>4 DEF AddNewToObject
<1>5. ASSUME NEW x, AddReferenceToArray(p, x, r)
      PROVE  RefsHold
  BY <1>3, <1>5 DEF AddReferenceToArray
<1>6. ASSUME NEW x \in DOMAIN heap, NEW key, AddReferenceToObject(p, key, x, r)
      PROVE  RefsHold
  <2> DEFINE i == [Reference(x) EXCEPT !.string = key]
  <2>1. CASE heap' = AddItem(Both(Single(r, i), heap), p, r) /\ lost' = lost
    BY <1>3, <2>1
  <2> DEFINE m == Both(Single(r, Reference(x)), heap)
  <2>2. CASE heap' = m /\ lost' = lost \cup {r}
    <3>1. SameRefs(heap, m)
      BY <1>2
    <3>2. m[r].ref
      <4>1. heap[x] \in Item
        BY TreeFacts
      <4>2. Reference(x).ref
        BY <4>1 DEF Reference, Item
      <4>3. m[r] = Reference(x)
        BY DEF Both, Single
      <4>4. QED
        BY <4>2, <4>3
    <3> HIDE DEF m
    <3>3. QED
      BY <2>2, <3>1, <3>2 DEF RefsHold, SameRefs
  <2>3. QED
    BY <1>6, <2>1, <2>2, Zenon DEF AddReferenceToObject
<1>7. QED
  BY <1>4, <1>5, <1>6, Zenon DEF Extend

LEMMA TakeHoldsRefs ==
  ASSUME TreeInv, NEW p, Take(p)
  PROVE  RefsHold
<1>1. ASSUME NEW x, Detach(p, x) \/ DeleteFrom(p, x)
      PROVE  RefsHold
  <2> DEFINE g == Unlinked(heap, p, x)
  <2>1. heap' = g \/ heap' = Free(g, Freed(g, x))
    BY <1>1, Zenon DEF Detach, DeleteFrom
  <2>2. lost' = lost
    BY <1>1 DEF Detach, DeleteFrom
  <2>3. SameRefs(heap, g)
    BY HeapHasRefs, UnlinkedKeepsRefs
  <2> HIDE DEF g
  <2>4. QED
    BY <2>1, <2>2, <2>3, LinkingHoldsRefs
<1>2. QED
  BY <1>1, Zenon DEF Take, DetachFromArray, DetachFromObject

LEMMA StepsHoldRefs == TreeInv /\ [TreeNext]_treeVars => RefsHold
<1> SUFFICES ASSUME TreeInv, [TreeNext]_treeVars PROVE RefsHold
  OBVIOUS
<1>1. ASSUME NEW x \in Nodes, Create(x)
      PROVE  RefsHold
  <2>1. DOMAIN Single(x, BlankItem) \subseteq Unused
    BY <1>1 DEF Create, Single
  <2>2. QED
    BY <1>1, <2>1, MakingHoldsRefs DEF Create
<1>2. ASSUME NEW a \in Unused, NEW n, NEW items \in [1 .. n -> Unused], CreateArray(a, items)
      PROVE  RefsHold
  <2> DEFINE b == Single(a, [BlankItem EXCEPT !.child = Head(items)])
             c == [i \in ToSet(items) |-> Element(items, Spot(items, i))]
  <2>1. heap' = Both(c, Both(b, heap)) /\ lost' = lost
    BY <1>2, Zenon DEF CreateArray
  <2>2. DOMAIN b \subseteq Unused /\ DOMAIN c \subseteq Unused
    BY DEF Single, ToSet
  <2> HIDE DEF b, c
  <2>3. SameRefs(heap, Both(b, heap))
    BY <2>2, HeapHasRefs
  <2>4. SameRefs(heap, Both(c, Both(b, heap)))
    BY <2>2, <2>3 DEF SameRefs, Both, Unused
  <2>5. QED
    BY <2>1, <2>4, LinkingHoldsRefs
<1>3. ASSUME NEW x, Duplicate(x)
      PROVE  RefsHold
  <2> DEFINE copies(to) == [y \in {to[p] : p \in Paths(x)} |-> CopyOf(CHOOSE p \in Paths(x) : to[p] = y, to)]
  <2>1. PICK to \in [Paths(x) -> Unused] : heap' = Both(copies(to), heap)
    BY <1>3, Zenon DEF Duplicate
  <2>2. lost' = lost
    BY <1>3 DEF Duplicate
  <2>3. DOMAIN copies(to) \subseteq Unused
    OBVIOUS
  <2> HIDE DEF copies
  <2>4. QED
    BY <2>1, <2>2, <2>3, MakingHoldsRefs
<1>4. ASSUME NEW x, Delete(x)
      PROVE  RefsHold
  BY <1>4, HeapHasRefs, LinkingHoldsRefs DEF Delete
<1>5. ASSUME NEW p \in DOMAIN heap, NEW r \in Unused, Extend(p, r)
      PROVE  RefsHold
  BY <1>5, ExtendHoldsRefs
<1>6. CASE UNCHANGED treeVars
  BY <1>6 DEF treeVars, RefsHold
<1>7. TreeNext => RefsHold
  BY <1>1, <1>2, <1>3, <1>4, <1>5, PutHoldsRefs, TakeHoldsRefs, Zenon DEF TreeNext
<1>8. QED
  BY <1>6, <1>7

LEMMA LostStayRefs ==
  ASSUME TreeInv, LostAreRefs, RefsHold, lost' \subseteq DOMAIN heap'
  PROVE  LostAreRefs'
BY TreeFacts DEF LostAreRefs, RefsHold

-----------------------------------------------------------------------------
(***************************************************************************)
(* The children as JsonForest sees them                                    *)
(***************************************************************************)

Kept(k, l) == [y \in DOMAIN k \ l |-> k[y]]

LEMMA KeptLists ==
  ASSUME NEW h, NEW k, NEW top, Shape(h, k, top), NEW l, l \subseteq top
  PROVE  /\ DOMAIN k = DOMAIN h /\ DOMAIN Kept(k, l) = DOMAIN h \ l
         /\ \A y \in DOMAIN h \ l : Kept(k, l)[y] = k[y]
         /\ \A y \in DOMAIN h : ToSet(k[y]) \cap top = {}
         /\ ListsIn(DOMAIN h \ l, Kept(k, l))
<1> DEFINE D == DOMAIN h
           E == D \ l
           K == Kept(k, l)
<1>1. IsFiniteSet(D) /\ DOMAIN k = D /\ \A y \in D : k[y] \in Seq(D) /\ ToSet(k[y]) \subseteq D
  BY HeapFacts
<1>2. \A y \in D : ToSet(k[y]) \cap top = {}
  BY <1>1 DEF Shape, Loose
<1>3. IsFiniteSet(E)
  BY <1>1, FS_Subset
<1>4. ASSUME NEW y \in E
      PROVE  k[y] \in Seq(E)
  <2>1. k[y] \in Seq(D) /\ ToSet(k[y]) \subseteq E
    BY <1>1, <1>2
  <2> DEFINE s == k[y]
  <2> HIDE DEF s, E
  <2>2. Len(s) \in Nat /\ DOMAIN s = 1 .. Len(s) /\ s = [i \in 1 .. Len(s) |-> s[i]]
    BY <2>1, LenProperties DEF s
  <2>3. \A i \in 1 .. Len(s) : s[i] \in E
    BY <2>1, <2>2 DEF ToSet, s
  <2>4. s \in [1 .. Len(s) -> E]
    BY <2>2, <2>3
  <2>5. QED
    BY <2>2, <2>4, SeqDef DEF s
<1>5. K = [y \in E |-> k[y]]
  BY <1>1 DEF Kept
<1>6. ListsIn(E, K)
  BY <1>3, <1>4, <1>5 DEF ListsIn
<1>7. QED
  BY <1>1, <1>2, <1>5, <1>6

LEMMA KeptInside ==
  ASSUME NEW h, NEW k, NEW top, Shape(h, k, top), NoLoop(k), NEW l, l \subseteq top,
         NEW x \in DOMAIN h, x \notin l, NEW F, IsBelow(k, x, F)
  PROVE  F \cap l = {} /\ Forest!Inside(Kept(k, l), x) = F
<1> DEFINE D == DOMAIN h \ l
           K == Kept(k, l)
<1>1. /\ DOMAIN k = DOMAIN h /\ DOMAIN K = D
      /\ \A y \in D : K[y] = k[y]
      /\ \A y \in DOMAIN h : ToSet(k[y]) \cap top = {}
      /\ ListsIn(D, K)
  BY KeptLists
<1>2. F \subseteq DOMAIN h
  BY <1>1 DEF IsBelow
<1>3. F \cap l = {}
  BY <1>1, <1>2 DEF IsBelow
<1> HIDE DEF K
<1>4. F \subseteq D /\ \A y \in F : K[y] = k[y]
  BY <1>1, <1>2, <1>3
<1>5. IsBelow(K, x, F)
  BY <1>1, <1>4 DEF IsBelow
<1>6. NoLoop(K)
  BY <1>1, LessHasNoLoop
<1>7. Forest!Inside(K, x) = F
  BY <1>1, <1>5, <1>6, InsideIsBelow
<1>8. QED
  BY <1>3, <1>7 DEF K

-----------------------------------------------------------------------------
(***************************************************************************)
(* The inductive invariant                                                 *)
(***************************************************************************)

\* The heap has a shape, its lists have no loop, and what was lost shows nothing
\* of its own.
ForestInv == TreeInv /\ LostAreRefs /\ NoLoop(ListsOf(heap))

LEMMA ForestFacts ==
  ASSUME ForestInv
  PROVE  /\ Shape(heap, ListsOf(heap), roots \cup lost) /\ NoLoop(ListsOf(heap))
         /\ lost \subseteq DOMAIN heap /\ roots \subseteq DOMAIN heap \ lost
         /\ DOMAIN ListsOf(heap) = DOMAIN heap /\ DOMAIN Kept(ListsOf(heap), lost) = DOMAIN heap \ lost
         /\ \A y \in DOMAIN heap \ lost : Kept(ListsOf(heap), lost)[y] = ListsOf(heap)[y]
         /\ \A y \in DOMAIN heap : /\ ListsOf(heap)[y] \in Seq(DOMAIN heap) /\ IsInjective(ListsOf(heap)[y])
                                   /\ ToSet(ListsOf(heap)[y]) \subseteq DOMAIN heap \ (roots \cup lost)
                                   /\ Len(ListsOf(heap)[y]) \in Nat
                                   /\ DOMAIN ListsOf(heap)[y] = 1 .. Len(ListsOf(heap)[y])
                                   /\ y \in lost => ListsOf(heap)[y] = <<>>
<1> DEFINE k == ListsOf(heap)
           top == roots \cup lost
           D == DOMAIN heap
<1>1. Shape(heap, k, top) /\ NoLoop(k) /\ lost \subseteq top
  BY DEF ForestInv, TreeInv
<1>2. lost \subseteq D /\ roots \subseteq D \ lost
  BY TreeFacts DEF ForestInv
<1>3. \A y \in D : y \in lost => k[y] = <<>>
  BY DEF ForestInv, LostAreRefs, ListsOf
<1> HIDE DEF k, top
<1>4. /\ DOMAIN k = D /\ DOMAIN Kept(k, lost) = D \ lost
      /\ \A y \in D \ lost : Kept(k, lost)[y] = k[y]
      /\ \A y \in D : ToSet(k[y]) \cap top = {}
  <2>1. Shape(heap, k, top) /\ lost \subseteq top
    BY <1>1
  <2>2. DOMAIN k = D /\ \A y \in D : ToSet(k[y]) \cap top = {}
    BY <2>1, KeptLists
  <2>3. QED
    BY <2>2 DEF Kept
<1>5. \A y \in D : /\ k[y] \in Seq(D) /\ IsInjective(k[y]) /\ ToSet(k[y]) \subseteq D
                   /\ Len(k[y]) \in Nat /\ DOMAIN k[y] = 1 .. Len(k[y])
  BY <1>1, HeapFacts
<1>6. QED
  BY <1>1, <1>2, <1>3, <1>4, <1>5 DEF k, top

\* What is below an item the caller may have is what JsonForest finds in it.
LEMMA SeenInside ==
  ASSUME ForestInv, NEW x \in DOMAIN heap, x \notin lost, NEW F, IsBelow(ListsOf(heap), x, F)
  PROVE  /\ F \subseteq DOMAIN heap \ lost /\ x \in F
         /\ \A y \in F : ToSet(ListsOf(heap)[y]) \subseteq F
         /\ Forest!Inside(Kept(ListsOf(heap), lost), x) = F
<1> DEFINE k == ListsOf(heap)
           top == roots \cup lost
<1>1. Shape(heap, k, top) /\ NoLoop(k) /\ lost \subseteq top /\ DOMAIN k = DOMAIN heap
  BY ForestFacts
<1> HIDE DEF k, top
<1>2. F \cap lost = {} /\ Forest!Inside(Kept(k, lost), x) = F
  BY <1>1, KeptInside DEF k
<1>3. QED
  BY <1>1, <1>2 DEF IsBelow, k

\* An item that may be added, and what is in it.
LEMMA AddedIsOutside ==
  ASSUME ForestInv, NEW p, NEW x, MayAdd(p, x)
  PROVE  /\ p \in DOMAIN heap \ lost /\ x \in roots /\ x \in DOMAIN heap /\ x \notin lost
         /\ IsBelow(ListsOf(heap), x, Freed(heap, x)) /\ p \notin Freed(heap, x)
<1>1. p \in DOMAIN heap /\ ~heap[p].ref /\ x \in roots /\ x \in DOMAIN heap /\ x \notin lost
      /\ p \notin Inside(heap, x)
  BY AddFacts DEF ForestInv, MayAdd
<1>2. p \notin lost
  BY <1>1 DEF ForestInv, LostAreRefs
<1>3. Shape(heap, ListsOf(heap), roots \cup lost)
  BY ForestFacts
<1>4. heap[x].next = Null
  BY <1>1, <1>3 DEF Shape, Loose
<1>5. heap = SetNext(heap, x, Null)
  <2>1. heap \in [DOMAIN heap -> Item] /\ heap[x] \in Item
    BY <1>1, <1>3 DEF Shape
  <2>2. [heap[x] EXCEPT !.next = Null] = heap[x]
    BY <1>4, <2>1 DEF Item
  <2>3. QED
    BY <2>1, <2>2 DEF SetNext
<1>6. Inside(heap, x) = Freed(heap, x)
  BY <1>5 DEF Inside, SetNext
<1>7. IsBelow(ListsOf(heap), x, Freed(heap, x))
  BY <1>1, <1>3, FreedIsBelowIt
<1>8. QED
  BY <1>1, <1>2, <1>6, <1>7

-----------------------------------------------------------------------------
(***************************************************************************)
(* Each move is an action of JsonForest                                    *)
(***************************************************************************)

LEMMA SameLists ==
  \A s, i, x : Forest!InsertAt(s, i, x) = InsertAt(s, i, x) /\ Forest!RemoveAt(s, i) = RemoveAt(s, i)
BY Zenon DEF Forest!InsertAt, InsertAt, Forest!RemoveAt, RemoveAt

\* A list that is changed is changed in what JsonForest sees.
LEMMA KeptChange ==
  ASSUME NEW k, NEW l, NEW p \in DOMAIN k, p \notin l, NEW s
  PROVE  Kept([k EXCEPT ![p] = s], l) = [Kept(k, l) EXCEPT ![p] = s]
BY DEF Kept

\* So are items that go.
LEMMA KeptLess ==
  ASSUME NEW k, NEW l, NEW F, NEW m, DOMAIN m = DOMAIN k \ F, \A v \in DOMAIN m : m[v] = k[v]
  PROVE  Kept(m, l) = Forest!Without(Kept(k, l), F)
BY DEF Kept, Forest!Without

LEMMA GrowingIsCreate ==
  ASSUME ForestInv, TreeInv', Grows
  PROVE  /\ NoLoop(ListsOf(heap'))
         /\ Forest!Create(Kept(ListsOf(heap), lost), Kept(ListsOf(heap'), lost'))
<1> DEFINE k == ListsOf(heap)
           m == ListsOf(heap')
           D == DOMAIN heap
<1>1. PICK kg, root :
        /\ Fresh(D, kg, root)
        /\ m = Both(kg, k)
        /\ roots' = roots \cup {root} /\ lost' = lost
  BY DEF Grows
<1> DEFINE E == DOMAIN kg
<1>2. /\ NoLoop(k) /\ DOMAIN k = D /\ k \in [D -> Seq(D)] /\ lost \subseteq D
      /\ DOMAIN Kept(k, lost) = D \ lost /\ \A y \in D \ lost : Kept(k, lost)[y] = k[y]
  BY ForestFacts DEF Shape
<1>3. /\ E \subseteq Nodes \ D /\ kg \in [E -> Seq(E)] /\ root \in E /\ Placed(kg, {root}) /\ NoLoop(kg)
  BY <1>1, RankedHasNoLoop DEF Fresh
<1>4. Shape(heap', m, roots' \cup lost')
  BY DEF TreeInv
<1>5. DOMAIN m = D \cup E /\ (\A y \in D : m[y] = k[y]) /\ (\A y \in E : m[y] = kg[y]) /\ DOMAIN heap' = D \cup E
  <2>1. DOMAIN m = DOMAIN heap'
    BY <1>4, HeapFacts
  <2> HIDE DEF m
  <2>2. QED
    BY <1>1, <1>2, <1>3, <2>1 DEF Both
<1>6. NoLoop(m)
  <2>1. D \cap E = {}
    BY <1>3
  <2> HIDE DEF k, m, D, E
  <2>2. QED
    BY <1>1, <1>2, <1>3, <2>1, BothHaveNoLoop
<1>7. IsBelow(m, root, E)
  <2>1. \A y \in E : ToSet(kg[y]) \subseteq E
    BY <1>3, ElementOfSeq DEF ToSet
  <2>2. \A y \in E : y # root => \E q \in E : y \in ToSet(kg[q])
    BY <1>3 DEF Placed
  <2> HIDE DEF m, E
  <2>3. QED
    BY <1>3, <1>5, <2>1, <2>2 DEF IsBelow
<1> DEFINE K == Kept(k, lost)
           M == Kept(m, lost')
<1>8. DOMAIN M = (D \cup E) \ lost /\ \A y \in (D \cup E) \ lost : M[y] = m[y]
  BY <1>1, <1>5 DEF Kept
<1>9. root \in DOMAIN heap' /\ root \notin lost' /\ lost' \subseteq roots' \cup lost'
  BY <1>1, <1>2, <1>3, <1>5
<1> HIDE DEF k, m
<1>10. Forest!Inside(M, root) = E
  BY <1>4, <1>6, <1>7, <1>9, KeptInside
<1>11. DOMAIN K = D \ lost /\ DOMAIN M = (D \ lost) \cup E /\ (D \ lost) \cap E = {}
  BY <1>2, <1>3, <1>8
<1>12. \A y \in DOMAIN K : M[y] = K[y]
  BY <1>2, <1>5, <1>8, <1>11
<1>13. DOMAIN M \subseteq Nodes
  <2>1. D \subseteq Nodes
    BY TreeFacts DEF ForestInv
  <2>2. QED
    BY <1>3, <1>11, <2>1
<1>14. DOMAIN M \ DOMAIN K = E /\ DOMAIN K \subseteq DOMAIN M
  BY <1>11
<1> HIDE DEF K, M, E
<1>15. Forest!Create(K, M)
  BY <1>1, <1>3, <1>10, <1>12, <1>13, <1>14 DEF Forest!Create
<1>16. QED
  BY <1>6, <1>15 DEF k, m, K, M

LEMMA AttachingIsAttach ==
  ASSUME ForestInv, Attaches
  PROVE  /\ NoLoop(ListsOf(heap'))
         /\ Forest!Attach(Kept(ListsOf(heap), lost), Kept(ListsOf(heap'), lost'))
<1> DEFINE k == ListsOf(heap)
           m == ListsOf(heap')
           D == DOMAIN heap
<1>1. PICK p, x :
        /\ MayAdd(p, x)
        /\ \E i \in 1 .. Len(k[p]) + 1 : m = [k EXCEPT ![p] = InsertAt(k[p], i, x)]
        /\ roots' = roots \ {x} /\ lost' = lost
  BY DEF Attaches
<1>2. PICK i \in 1 .. Len(k[p]) + 1 : m = [k EXCEPT ![p] = InsertAt(k[p], i, x)]
  BY <1>1
<1> DEFINE G == Freed(heap, x)
           s == k[p]
<1>3. p \in D /\ p \notin lost /\ x \in roots /\ x \in D /\ x \notin lost /\ IsBelow(k, x, G) /\ p \notin G
  BY <1>1, AddedIsOutside
<1>4. /\ NoLoop(k) /\ DOMAIN k = D /\ DOMAIN Kept(k, lost) = D \ lost
      /\ s \in Seq(D) /\ IsInjective(s) /\ x \notin ToSet(s) /\ Len(s) \in Nat
      /\ Kept(k, lost)[p] = s
  BY <1>3, ForestFacts
<1>5. /\ x \in G /\ \A y \in G : ToSet(k[y]) \subseteq G
      /\ Forest!Inside(Kept(k, lost), x) = G
  BY <1>3, SeenInside
<1> HIDE DEF k, m, D, G
<1>6. ToSet(InsertAt(s, i, x)) = ToSet(s) \cup {x}
  <2>1. CASE i \in 1 .. Len(s)
    BY <1>3, <1>4, <2>1, InsertedList
  <2>2. CASE i = Len(s) + 1
    <3>1. InsertAt(s, i, x) = Append(s, x)
      BY <1>4, <2>2, AppendIsInsert
    <3>2. ToSet(Append(s, x)) = ToSet(s) \cup {x}
      BY <1>3, <1>4, AppendedList
    <3>3. QED
      BY <3>1, <3>2
  <2>3. QED
    BY <1>2, <1>4, <2>1, <2>2
<1>7. DOMAIN m = DOMAIN k /\ (\A q \in DOMAIN k : q # p => m[q] = k[q]) /\ m[p] = InsertAt(s, i, x)
  BY <1>2, <1>3, <1>4
<1>8. NoLoop(m)
  BY <1>3, <1>4, <1>5, <1>6, <1>7, AddingMakesNoLoop
<1> DEFINE K == Kept(k, lost)
           M == Kept(m, lost')
<1>9. M = [K EXCEPT ![p] = Forest!InsertAt(K[p], i, x)]
  <2>1. Forest!InsertAt(K[p], i, x) = InsertAt(s, i, x)
    BY <1>4, SameLists
  <2>2. Kept([k EXCEPT ![p] = InsertAt(s, i, x)], lost) = [K EXCEPT ![p] = InsertAt(s, i, x)]
    <3>1. p \in DOMAIN k
      BY <1>3, <1>4
    <3> HIDE DEF s
    <3>2. QED
      BY <1>3, <3>1, KeptChange
  <2> HIDE DEF K
  <2>3. QED
    BY <1>1, <1>2, <2>1, <2>2
<1>10. p \in DOMAIN K \ Forest!Inside(K, x) /\ i \in 1 .. Len(K[p]) + 1
  BY <1>2, <1>3, <1>4, <1>5
<1> HIDE DEF K, M, s
<1>11. Forest!Attach(K, M)
  BY <1>1, <1>3, <1>9, <1>10, Zenon DEF Forest!Attach
<1>12. QED
  BY <1>8, <1>11 DEF k, m, K, M

LEMMA ExtendingIsExtend ==
  ASSUME ForestInv, Extends
  PROVE  /\ NoLoop(ListsOf(heap'))
         /\ Forest!Extend(Kept(ListsOf(heap), lost), Kept(ListsOf(heap'), lost'))
<1> DEFINE k == ListsOf(heap)
           m == ListsOf(heap')
           D == DOMAIN heap
<1>1. PICK p \in Owners, r \in Nodes \ D :
        /\ m = [Both(Single(r, <<>>), k) EXCEPT ![p] = Append(k[p], r)]
        /\ roots' = roots /\ lost' = lost
  BY DEF Extends
<1> DEFINE s == k[p]
           b == Both(Single(r, <<>>), k)
<1>2. p \in D /\ p \notin lost /\ r # p
  BY <1>1 DEF Owners, ForestInv, LostAreRefs
<1>3. /\ NoLoop(k) /\ DOMAIN k = D /\ lost \subseteq D
      /\ s \in Seq(D) /\ IsInjective(s) /\ ToSet(s) \subseteq D
      /\ \A y \in D : k[y] \in Seq(D)
  BY <1>2, ForestFacts
<1>4. k = [y \in D |-> k[y]]
  BY <1>3 DEF ListsOf
<1> HIDE DEF k, m, D
<1>5. DOMAIN b = D \cup {r} /\ b[r] = <<>> /\ \A y \in D : b[y] = k[y]
  BY <1>1, <1>3 DEF Both, Single
<1>6. NoLoop(b)
  <2> DEFINE l == Single(r, <<>>)
  <2>1. DOMAIN l = {r} /\ l[r] = <<>> /\ l \in [{r} -> Seq({r})]
    BY DEF Single
  <2>2. ToSet(<<>>) = {}
    BY DEF ToSet
  <2> HIDE DEF l
  <2>3. NoLoop(l)
    BY <2>1, <2>2 DEF NoLoop
  <2>4. k \in [D -> Seq(D)] /\ D \cap {r} = {}
    BY <1>1, <1>3, <1>4
  <2>5. NoLoop(Both(l, k))
    BY <1>3, <2>1, <2>3, <2>4, BothHaveNoLoop
  <2>6. QED
    BY <2>5 DEF l
<1>7. ToSet(Append(s, r)) = ToSet(s) \cup {r}
  <2>1. s \in Seq(D \cup {r}) /\ r \in D \cup {r} /\ r \notin ToSet(s)
    BY <1>1, <1>3, SeqMonotonic
  <2> HIDE DEF s
  <2>2. QED
    BY <1>3, <2>1, AppendedList
<1> HIDE DEF b
<1>8. /\ m = [b EXCEPT ![p] = Append(s, r)]
      /\ DOMAIN m = DOMAIN b /\ (\A q \in DOMAIN b : q # p => m[q] = b[q]) /\ m[p] = Append(s, r)
  BY <1>1, <1>2, <1>5 DEF b
<1>9. NoLoop(m)
  <2> DEFINE F == {r}
  <2>1. ToSet(b[r]) = {} /\ p \notin F /\ r \in F
    BY <1>2, <1>5 DEF ToSet
  <2>2. \A y \in F : y \in DOMAIN b => ToSet(b[y]) \subseteq F
    BY <2>1
  <2>3. ToSet(m[p]) \subseteq ToSet(b[p]) \cup {r}
    BY <1>2, <1>5, <1>7, <1>8
  <2> HIDE DEF F
  <2>4. QED
    BY <1>6, <1>8, <2>1, <2>2, <2>3, AddingMakesNoLoop, Zenon
<1> DEFINE K == Kept(k, lost)
           M == Kept(m, lost')
<1>10. DOMAIN K = D \ lost /\ \A y \in D \ lost : K[y] = k[y]
  BY <1>3 DEF Kept
<1>11. M = [y \in DOMAIN K \cup {r} |-> IF y = r THEN <<>> ELSE IF y = p THEN Append(K[p], r) ELSE K[y]]
  <2>1. DOMAIN M = DOMAIN K \cup {r} /\ DOMAIN M = DOMAIN m \ lost
    BY <1>1, <1>3, <1>5, <1>8, <1>10 DEF Kept
  <2>2. ASSUME NEW y \in DOMAIN M
        PROVE  M[y] = IF y = r THEN <<>> ELSE IF y = p THEN Append(K[p], r) ELSE K[y]
    <3>1. M[y] = m[y] /\ y \in DOMAIN b
      BY <1>1, <1>8, <2>1 DEF Kept
    <3>2. CASE y = r
      BY <1>2, <1>5, <1>8, <3>1, <3>2
    <3>3. CASE y = p
      BY <1>2, <1>8, <1>10, <3>1, <3>3
    <3>4. CASE y # r /\ y # p
      BY <1>5, <1>8, <1>10, <2>1, <3>1, <3>4
    <3>5. QED
      BY <3>2, <3>3, <3>4
  <2>3. M = [y \in DOMAIN M |-> M[y]]
    BY DEF Kept
  <2> HIDE DEF K, M
  <2>4. QED
    BY <2>1, <2>2, <2>3
<1>12. r \in Nodes \ DOMAIN K /\ p \in DOMAIN K
  BY <1>1, <1>2, <1>10
<1> HIDE DEF K, M
<1>13. Forest!Extend(K, M)
  BY <1>1, <1>11, <1>12, Zenon DEF Forest!Extend
<1>14. QED
  BY <1>9, <1>13 DEF k, m, K, M

\* A reference that is lost is nowhere in JsonForest.
LEMMA LosingIsStutter ==
  ASSUME ForestInv, Loses
  PROVE  /\ NoLoop(ListsOf(heap'))
         /\ Kept(ListsOf(heap'), lost') = Kept(ListsOf(heap), lost) /\ roots' = roots
<1> DEFINE k == ListsOf(heap)
           m == ListsOf(heap')
           D == DOMAIN heap
<1>1. PICK r \in Nodes \ D :
        /\ m = Both(Single(r, <<>>), k)
        /\ roots' = roots /\ lost' = lost \cup {r}
  BY DEF Loses
<1>2. NoLoop(k) /\ DOMAIN k = D /\ \A y \in D : k[y] \in Seq(D)
  BY ForestFacts
<1>3. k = [y \in D |-> k[y]]
  BY <1>2 DEF ListsOf
<1> HIDE DEF k, m, D
<1> DEFINE l == Single(r, <<>>)
<1>4. DOMAIN l = {r} /\ l[r] = <<>> /\ l \in [{r} -> Seq({r})]
  BY DEF Single
<1>5. ToSet(<<>>) = {}
  BY DEF ToSet
<1> HIDE DEF l
<1>6. NoLoop(l)
  BY <1>4, <1>5 DEF NoLoop
<1>7. k \in [D -> Seq(D)] /\ D \cap {r} = {}
  BY <1>1, <1>2, <1>3
<1>8. NoLoop(Both(l, k))
  BY <1>2, <1>4, <1>6, <1>7, BothHaveNoLoop
<1>9. Kept(m, lost') = Kept(k, lost)
  <2>1. DOMAIN m = D \cup {r} /\ \A y \in D : m[y] = k[y]
    BY <1>1, <1>2, <1>4 DEF Both, l
  <2>2. DOMAIN m \ lost' = DOMAIN k \ lost
    BY <1>1, <1>2, <2>1
  <2>3. QED
    BY <1>2, <2>1, <2>2 DEF Kept
<1>10. QED
  BY <1>1, <1>8, <1>9 DEF k, m, l

LEMMA DetachingIsDetach ==
  ASSUME ForestInv, Detaches
  PROVE  /\ NoLoop(ListsOf(heap'))
         /\ Forest!Detach(Kept(ListsOf(heap), lost), Kept(ListsOf(heap'), lost'))
<1> DEFINE k == ListsOf(heap)
           m == ListsOf(heap')
           D == DOMAIN heap
<1>0. PICK p \in D : \E j \in 1 .. Len(k[p]) :
        /\ m = [k EXCEPT ![p] = RemoveAt(k[p], j)]
        /\ roots' = roots \cup {k[p][j]} /\ lost' = lost
  BY DEF Detaches
<1>1. PICK j \in 1 .. Len(k[p]) :
        /\ m = [k EXCEPT ![p] = RemoveAt(k[p], j)]
        /\ roots' = roots \cup {k[p][j]} /\ lost' = lost
  BY <1>0
<1>2. /\ NoLoop(k) /\ DOMAIN k = D /\ DOMAIN Kept(k, lost) = D \ lost
      /\ k[p] \in Seq(D) /\ IsInjective(k[p]) /\ DOMAIN k[p] = 1 .. Len(k[p])
      /\ p \in lost => k[p] = <<>>
      /\ p \notin lost => Kept(k, lost)[p] = k[p]
  BY ForestFacts
<1>3. p \notin lost
  BY <1>1, <1>2
<1> HIDE DEF k, m, D
<1>4. ToSet(RemoveAt(k[p], j)) \subseteq ToSet(k[p])
  BY <1>1, <1>2, RemovedList
<1>5. DOMAIN m = DOMAIN k /\ (\A q \in DOMAIN k : q # p => m[q] = k[q]) /\ m[p] = RemoveAt(k[p], j)
  BY <1>1, <1>2
<1>6. NoLoop(m)
  <2>1. \A q \in DOMAIN m : ToSet(m[q]) \subseteq ToSet(k[q])
    BY <1>4, <1>5
  <2>2. QED
    BY <1>2, <1>5, <2>1, LessHasNoLoop
<1> DEFINE K == Kept(k, lost)
           M == Kept(m, lost')
<1>7. M = [K EXCEPT ![p] = Forest!RemoveAt(K[p], j)]
  <2>1. Forest!RemoveAt(K[p], j) = RemoveAt(k[p], j)
    BY <1>2, <1>3, SameLists
  <2> DEFINE s == RemoveAt(k[p], j)
  <2> HIDE DEF s
  <2>2. p \in DOMAIN k
    BY <1>2
  <2>3. Kept([k EXCEPT ![p] = s], lost) = [K EXCEPT ![p] = s]
    BY <1>3, <2>2, KeptChange
  <2> HIDE DEF K
  <2>4. QED
    BY <1>1, <2>1, <2>3 DEF s
<1>8. p \in DOMAIN K /\ j \in DOMAIN K[p] /\ K[p][j] = k[p][j]
  BY <1>1, <1>2, <1>3
<1> HIDE DEF K, M
<1>9. Forest!Detach(K, M)
  BY <1>1, <1>7, <1>8, Zenon DEF Forest!Detach
<1>10. QED
  BY <1>6, <1>9 DEF k, m, K, M

\* cJSON_Delete
LEMMA DroppingIsDelete ==
  ASSUME ForestInv, Drops
  PROVE  /\ NoLoop(ListsOf(heap'))
         /\ Forest!Delete(Kept(ListsOf(heap), lost), Kept(ListsOf(heap'), lost'))
<1> DEFINE k == ListsOf(heap)
           m == ListsOf(heap')
           D == DOMAIN heap
<1>1. PICK F : \E x \in roots :
        /\ IsBelow(k, x, F)
        /\ m = [y \in D \ F |-> k[y]]
        /\ roots' = roots \ {x} /\ lost' = lost
  BY DEF Drops
<1>2. PICK x \in roots :
        /\ IsBelow(k, x, F)
        /\ m = [y \in D \ F |-> k[y]]
        /\ roots' = roots \ {x} /\ lost' = lost
  BY <1>1
<1>3. NoLoop(k) /\ DOMAIN k = D /\ x \in D /\ x \notin lost
  BY ForestFacts
<1>4. Forest!Inside(Kept(k, lost), x) = F
  BY <1>2, <1>3, SeenInside
<1> HIDE DEF k, m, D
<1>5. NoLoop(m)
  BY <1>2, <1>3, LessHasNoLoop
<1> DEFINE K == Kept(k, lost)
           M == Kept(m, lost')
<1>6. M = Forest!Without(K, Forest!Inside(K, x))
  <2>1. DOMAIN m = DOMAIN k \ F /\ \A y \in DOMAIN m : m[y] = k[y]
    BY <1>2, <1>3
  <2>2. Kept(m, lost) = Forest!Without(Kept(k, lost), F)
    BY <2>1, KeptLess, Zenon
  <2>3. QED
    BY <1>2, <1>4, <2>1, <2>2
<1> HIDE DEF K, M
<1>7. Forest!Delete(K, M)
  BY <1>2, <1>6, Zenon DEF Forest!Delete
<1>8. QED
  BY <1>5, <1>7 DEF k, m, K, M

\* cJSON_DeleteItemFromArray and ...FromObject
LEMMA DroppingChildIsDelete ==
  ASSUME ForestInv, DropsChild
  PROVE  /\ NoLoop(ListsOf(heap'))
         /\ Forest!Delete(Kept(ListsOf(heap), lost), Kept(ListsOf(heap'), lost'))
<1> DEFINE k == ListsOf(heap)
           m == ListsOf(heap')
           D == DOMAIN heap
<1>1. PICK c, F : \E p \in D : \E j \in 1 .. Len(k[p]) :
        /\ c = [k EXCEPT ![p] = RemoveAt(k[p], j)]
        /\ IsBelow(c, k[p][j], F)
        /\ m = [v \in D \ F |-> c[v]]
        /\ roots' = roots /\ lost' = lost
  BY DEF DropsChild
<1>2. PICK p \in D : \E j \in 1 .. Len(k[p]) :
        /\ c = [k EXCEPT ![p] = RemoveAt(k[p], j)]
        /\ IsBelow(c, k[p][j], F)
        /\ m = [v \in D \ F |-> c[v]]
        /\ roots' = roots /\ lost' = lost
  BY <1>1
<1>3. PICK j \in 1 .. Len(k[p]) :
        /\ c = [k EXCEPT ![p] = RemoveAt(k[p], j)]
        /\ IsBelow(c, k[p][j], F)
        /\ m = [v \in D \ F |-> c[v]]
        /\ roots' = roots /\ lost' = lost
  BY <1>2
<1> DEFINE s == k[p]
           x == s[j]
<1>4. /\ NoLoop(k) /\ DOMAIN k = D /\ DOMAIN Kept(k, lost) = D \ lost
      /\ s \in Seq(D) /\ IsInjective(s) /\ DOMAIN s = 1 .. Len(s)
      /\ ToSet(s) \subseteq D \ (roots \cup lost)
      /\ p \in lost => s = <<>>
      /\ p \notin lost => Kept(k, lost)[p] = s
  BY ForestFacts
<1>5. p \notin lost
  BY <1>4
<1>6. x \in ToSet(s) /\ x \in D /\ x \notin lost
  BY <1>4 DEF ToSet
<1> HIDE DEF k, m, D, s
<1>7. ToSet(RemoveAt(s, j)) = ToSet(s) \ {x}
  BY <1>3, <1>4, RemovedList DEF s
<1>8. DOMAIN c = DOMAIN k /\ (\A q \in DOMAIN k : q # p => c[q] = k[q]) /\ c[p] = RemoveAt(s, j)
  BY <1>3, <1>4 DEF s
<1>9. \A q \in DOMAIN k : ToSet(c[q]) \subseteq ToSet(k[q]) /\ ToSet(k[q]) \subseteq ToSet(c[q]) \cup {x}
  BY <1>7, <1>8 DEF s
<1> HIDE DEF x
<1>10. IsBelow(k, x, F)
  <2>1. IsBelow(c, x, F)
    BY <1>3 DEF x, s
  <2>2. QED
    BY <1>8, <1>9, <2>1 DEF IsBelow
<1>11. Forest!Inside(Kept(k, lost), x) = F
  BY <1>6, <1>10, SeenInside DEF k, D
<1>12. NoLoop(m)
  <2>1. DOMAIN m \subseteq DOMAIN k /\ \A q \in DOMAIN m : ToSet(m[q]) \subseteq ToSet(k[q])
    BY <1>3, <1>4, <1>9
  <2>2. QED
    BY <1>4, <2>1, LessHasNoLoop
<1> DEFINE K == Kept(k, lost)
           M == Kept(m, lost')
           t == RemoveAt(s, j)
<1>13. Forest!RemoveAt(K[p], j) = t
  BY <1>4, <1>5, SameLists
<1>14. K[p] = s /\ p \in DOMAIN K /\ j \in DOMAIN K[p] /\ K[p][j] = x
  BY <1>3, <1>4, <1>5 DEF x, s
<1> HIDE DEF t
<1>15. M = Forest!Without([K EXCEPT ![p] = t], F)
  <2>1. p \in DOMAIN k
    BY <1>4
  <2>2. Kept([k EXCEPT ![p] = t], lost) = [K EXCEPT ![p] = t]
    BY <1>5, <2>1, KeptChange
  <2>3. c = [k EXCEPT ![p] = t] /\ m = [v \in DOMAIN c \ F |-> c[v]]
    BY <1>3, <1>4, <1>8 DEF t, s
  <2>4. DOMAIN m = DOMAIN c \ F /\ \A v \in DOMAIN m : m[v] = c[v]
    BY <2>3
  <2> HIDE DEF t
  <2>5. Kept(m, lost) = Forest!Without(Kept(c, lost), F)
    BY <2>4, KeptLess, Zenon
  <2>6. M = Forest!Without(Kept(c, lost), F)
    BY <1>3, <2>5
  <2> HIDE DEF K, M
  <2>7. QED
    BY <2>2, <2>3, <2>6
<1>16. M = Forest!Without([K EXCEPT ![p] = Forest!RemoveAt(K[p], j)], Forest!Inside(K, K[p][j]))
  BY <1>11, <1>13, <1>14, <1>15
<1> HIDE DEF K, M
<1>17. Forest!Delete(K, M)
  BY <1>3, <1>14, <1>16, Zenon DEF Forest!Delete
<1>18. QED
  BY <1>12, <1>17 DEF k, m, K, M

\* cJSON_ReplaceItemViaPointer
LEMMA ReplacingIsReplace ==
  ASSUME ForestInv, Replaces
  PROVE  /\ NoLoop(ListsOf(heap'))
         /\ Forest!Replace(Kept(ListsOf(heap), lost), Kept(ListsOf(heap'), lost'))
<1> DEFINE k == ListsOf(heap)
           m == ListsOf(heap')
           D == DOMAIN heap
<1>1. PICK c, F, p, y : \E j \in 1 .. Len(k[p]) :
        /\ MayAdd(p, y)
        /\ c = [k EXCEPT ![p] = Swapped(k[p], j, y)]
        /\ IsBelow(c, k[p][j], F)
        /\ m = [v \in D \ F |-> c[v]]
        /\ roots' = roots \ {y} /\ lost' = lost
  BY DEF Replaces
<1>2. PICK j \in 1 .. Len(k[p]) :
        /\ MayAdd(p, y)
        /\ c = [k EXCEPT ![p] = Swapped(k[p], j, y)]
        /\ IsBelow(c, k[p][j], F)
        /\ m = [v \in D \ F |-> c[v]]
        /\ roots' = roots \ {y} /\ lost' = lost
  BY <1>1
<1> DEFINE s == k[p]
           x == s[j]
           G == Freed(heap, y)
<1>3. p \in D /\ p \notin lost /\ y \in roots /\ y \in D /\ y \notin lost /\ IsBelow(k, y, G) /\ p \notin G
  BY <1>2, AddedIsOutside
<1>4. /\ NoLoop(k) /\ DOMAIN k = D /\ DOMAIN Kept(k, lost) = D \ lost
      /\ s \in Seq(D) /\ IsInjective(s) /\ DOMAIN s = 1 .. Len(s)
      /\ ToSet(s) \subseteq D \ (roots \cup lost)
      /\ Kept(k, lost)[p] = s
  BY <1>3, ForestFacts
<1>5. x \in ToSet(s) /\ x \in D /\ x \notin lost /\ y \notin ToSet(s)
  BY <1>3, <1>4 DEF ToSet
<1>6. /\ y \in G /\ \A v \in G : ToSet(k[v]) \subseteq G
      /\ Forest!Inside(Kept(k, lost), y) = G
  BY <1>3, SeenInside
<1> HIDE DEF k, m, D, s, G
<1>7. ToSet(Swapped(s, j, y)) = (ToSet(s) \ {x}) \cup {y}
  BY <1>2, <1>3, <1>4, <1>5, SwappedList DEF s
<1>8. DOMAIN c = DOMAIN k /\ (\A q \in DOMAIN k : q # p => c[q] = k[q]) /\ c[p] = Swapped(s, j, y)
  BY <1>2, <1>3, <1>4 DEF s
<1>9. IsBelow(c, x, F)
  BY <1>2 DEF s
<1> HIDE DEF x
<1>10. /\ F \subseteq D /\ x \in F
       /\ \A v \in F : ToSet(c[v]) \subseteq F
       /\ \A v \in F : v # x => \E q \in F : v \in ToSet(c[q])
  BY <1>4, <1>8, <1>9 DEF IsBelow
<1>11. p \notin F
  <2> SUFFICES ASSUME p \in F PROVE FALSE
    OBVIOUS
  <2> DEFINE T == F \ G
  <2>1. T \in SUBSET DOMAIN k /\ p \in T
    BY <1>3, <1>4, <1>10
  <2>2. ASSUME NEW v \in T
        PROVE  \E q \in T : v \in ToSet(k[q])
    <3>1. CASE v = x
      BY <1>5, <2>1, <3>1 DEF s
    <3>2. CASE v # x
      <4>1. PICK q \in F : v \in ToSet(c[q])
        BY <1>10, <3>2
      <4>2. v # y
        BY <1>6
      <4>3. v \in ToSet(k[q])
        BY <1>4, <1>7, <1>8, <1>10, <4>1, <4>2 DEF s
      <4>4. q \notin G
        BY <1>6, <4>3
      <4>5. QED
        BY <4>1, <4>3, <4>4
    <3>3. QED
      BY <3>1, <3>2
  <2> HIDE DEF T
  <2>3. QED
    BY <1>4, <2>1, <2>2 DEF NoLoop
<1>12. \A v \in F : c[v] = k[v]
  BY <1>4, <1>8, <1>10, <1>11
<1>13. IsBelow(k, x, F)
  BY <1>4, <1>10, <1>12 DEF IsBelow
<1>14. Forest!Inside(Kept(k, lost), x) = F
  BY <1>5, <1>13, SeenInside DEF k, D
<1>15. NoLoop(c)
  <2>1. ToSet(c[p]) \subseteq ToSet(k[p]) \cup {y}
    BY <1>7, <1>8 DEF s
  <2>2. \A v \in G : v \in DOMAIN k => ToSet(k[v]) \subseteq G
    BY <1>6
  <2>3. QED
    BY <1>3, <1>4, <1>6, <1>8, <2>1, <2>2, AddingMakesNoLoop
<1>16. m = [v \in DOMAIN c \ F |-> c[v]]
  BY <1>2, <1>4, <1>8
<1>17. NoLoop(m)
  BY <1>15, <1>16, LessHasNoLoop
<1> DEFINE K == Kept(k, lost)
           M == Kept(m, lost')
           t == Swapped(s, j, y)
<1>18. K[p] = s /\ p \in DOMAIN K \ Forest!Inside(K, y) /\ j \in DOMAIN K[p] /\ K[p][j] = x
  BY <1>2, <1>3, <1>4, <1>6 DEF x, s
<1>19. t = [s EXCEPT ![j] = y]
  BY DEF Swapped
<1> HIDE DEF t
<1>20. M = Forest!Without([K EXCEPT ![p] = t], F)
  <2>1. p \in DOMAIN k
    BY <1>3, <1>4
  <2>2. Kept([k EXCEPT ![p] = t], lost) = [K EXCEPT ![p] = t]
    BY <1>3, <2>1, KeptChange
  <2>3. c = [k EXCEPT ![p] = t]
    BY <1>2 DEF t, s
  <2>4. DOMAIN m = DOMAIN c \ F /\ \A v \in DOMAIN m : m[v] = c[v]
    BY <1>16
  <2>5. Kept(m, lost) = Forest!Without(Kept(c, lost), F)
    BY <2>4, KeptLess, Zenon
  <2>6. M = Forest!Without(Kept(c, lost), F)
    BY <1>2, <2>5
  <2> HIDE DEF K, M
  <2>7. QED
    BY <2>2, <2>3, <2>6
<1>21. [K EXCEPT ![p] = t] = [K EXCEPT ![p][j] = y]
  <2> HIDE DEF K
  <2>1. QED
    BY <1>18, <1>19
<1>22. M = Forest!Without([K EXCEPT ![p][j] = y], Forest!Inside(K, K[p][j]))
  BY <1>14, <1>18, <1>20, <1>21
<1> HIDE DEF K, M
<1>23. Forest!Replace(K, M)
  BY <1>2, <1>3, <1>18, <1>22, Zenon DEF Forest!Replace
<1>24. QED
  BY <1>17, <1>23 DEF k, m, K, M

-----------------------------------------------------------------------------
(***************************************************************************)
(* The theorems                                                            *)
(***************************************************************************)

LEMMA ForestInvStarts == TreeInit => ForestInv
<1> SUFFICES ASSUME TreeInit PROVE ForestInv
  OBVIOUS
<1>1. TreeInv /\ lost = {} /\ DOMAIN heap = {}
  BY TreeInvStarts DEF TreeInit
<1>2. NoLoop(ListsOf(heap))
  BY <1>1 DEF NoLoop, ListsOf
<1>3. QED
  BY <1>1, <1>2 DEF ForestInv, LostAreRefs

\* The children change as JsonForest may change them, or not at all.
ForestMove ==
  \/ Forest!Change(Kept(ListsOf(heap), lost), Kept(ListsOf(heap'), lost'))
  \/ Kept(ListsOf(heap'), lost') = Kept(ListsOf(heap), lost) /\ roots' = roots

LEMMA ForestStep == ForestInv /\ [TreeNext]_treeVars => ForestInv' /\ ForestMove
<1> SUFFICES ASSUME ForestInv, [TreeNext]_treeVars PROVE ForestInv' /\ ForestMove
  OBVIOUS
<1>1. TreeInv' /\ Moves
  BY TreeInvStays DEF ForestInv
<1>2. LostAreRefs'
  <2>1. lost' \subseteq DOMAIN heap'
    <3>1. Shape(heap', ListsOf(heap'), roots' \cup lost')
      BY <1>1 DEF TreeInv
    <3>2. QED
      BY <3>1, HeapFacts
  <2>2. QED
    BY <1>1, <2>1, StepsHoldRefs, LostStayRefs DEF ForestInv
<1> DEFINE R == NoLoop(ListsOf(heap')) /\ ForestMove
<1>3. Grows => R
  BY <1>1, GrowingIsCreate DEF Forest!Change, ForestMove
<1>4. Attaches => R
  BY AttachingIsAttach DEF Forest!Change, ForestMove
<1>5. Extends => R
  BY ExtendingIsExtend DEF Forest!Change, ForestMove
<1>6. Loses => R
  BY LosingIsStutter DEF ForestMove
<1>7. Detaches => R
  BY DetachingIsDetach DEF Forest!Change, ForestMove
<1>8. Drops => R
  BY DroppingIsDelete DEF Forest!Change, ForestMove
<1>9. DropsChild => R
  BY DroppingChildIsDelete DEF Forest!Change, ForestMove
<1>10. Replaces => R
  BY ReplacingIsReplace DEF Forest!Change, ForestMove
<1>11. NothingMoves => R
  BY DEF NothingMoves, ForestInv, ForestMove
<1>12. R
  BY <1>1, <1>3, <1>4, <1>5, <1>6, <1>7, <1>8, <1>9, <1>10, <1>11 DEF Moves
<1>13. QED
  BY <1>1, <1>2, <1>12 DEF ForestInv

\* The lists of children behave as sequences, on a heap of any size: whatever the
\* caller does with trees, the pointers do what JsonForest says.
THEOREM TreesImplementForest == TreeSpec => ImplementsForest
<1> DEFINE seen == [x \in DOMAIN heap \ lost |-> IF heap[x].ref THEN <<>> ELSE Children(heap, x)]
<1>1. seen = Kept(ListsOf(heap), lost)
  BY DEF Kept, ListsOf
<1>2. seen' = Kept(ListsOf(heap'), lost')
  BY DEF Kept, ListsOf
<1>3. TreeInit => Forest!Init
  <2> SUFFICES ASSUME TreeInit PROVE Forest!Init
    OBVIOUS
  <2>1. roots = {} /\ DOMAIN heap = {}
    BY DEF TreeInit
  <2>2. seen = [x \in {} |-> <<>>]
    BY <2>1
  <2>3. QED
    BY <2>1, <2>2 DEF Forest!Init
<1>4. ForestInv /\ [TreeNext]_treeVars => ForestInv' /\ [Forest!Next]_(Forest!vars)
  <2> SUFFICES ASSUME ForestInv, [TreeNext]_treeVars
               PROVE  ForestInv' /\ [Forest!Next]_(Forest!vars)
    OBVIOUS
  <2>0. ForestInv' /\ ForestMove
    BY ForestStep
  <2> DEFINE k == Kept(ListsOf(heap), lost)
             l == Kept(ListsOf(heap'), lost')
  <2>1. ForestInv' /\ (Forest!Change(k, l) \/ (l = k /\ roots' = roots))
    BY <2>0 DEF ForestMove
  <2> HIDE DEF k, l
  <2>2. CASE Forest!Change(k, l)
    <3>1. seen = k /\ seen' = l
      BY <1>1, <1>2 DEF k, l
    <3>2. Forest!Next
      BY <2>2, <3>1, Zenon DEF Forest!Next
    <3>3. QED
      BY <2>1, <3>2
  <2>3. CASE l = k /\ roots' = roots
    <3>1. seen = k /\ seen' = l
      BY <1>1, <1>2 DEF k, l
    <3>2. QED
      BY <2>1, <2>3, <3>1 DEF Forest!vars
  <2>4. QED
    BY <2>1, <2>2, <2>3
<1>5. QED
  BY <1>3, <1>4, ForestInvStarts, PTL DEF TreeSpec, ImplementsForest, Forest!Spec

================================================================================
