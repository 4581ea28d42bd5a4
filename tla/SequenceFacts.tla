------------------------------ MODULE SequenceFacts ------------------------------
(***************************************************************************)
(* Facts about sequences and finite sets of numbers that the proofs about  *)
(* several components need.                                                *)
(***************************************************************************)
EXTENDS Integers, SequencesExt, FiniteSetTheorems, SequenceTheorems, WellFoundedInduction, TLAPS

AnySeq(s) == \E S : s \in Seq(S)

LEMMA AnyConcat ==
  ASSUME NEW s, AnySeq(s), NEW t, AnySeq(t)
  PROVE  /\ AnySeq(s \o t)
         /\ Len(s) \in Nat /\ Len(t) \in Nat /\ Len(s \o t) = Len(s) + Len(t)
         /\ DOMAIN s = 1 .. Len(s) /\ DOMAIN (s \o t) = 1 .. Len(s \o t)
         /\ \A i \in 1 .. Len(s) : (s \o t)[i] = s[i]
         /\ \A i \in 1 .. Len(t) : (s \o t)[Len(s) + i] = t[i]
<1>1. PICK S : s \in Seq(S)
  BY DEF AnySeq
<1>2. PICK T : t \in Seq(T)
  BY DEF AnySeq
<1>3. s \in Seq(S \cup T) /\ t \in Seq(S \cup T)
  BY <1>1, <1>2, SeqMonotonic
<1>4. /\ s \o t \in Seq(S \cup T)
      /\ Len(s \o t) = Len(s) + Len(t)
      /\ \A i \in 1 .. Len(s) + Len(t) : (s \o t)[i] =
                     IF i <= Len(s) THEN s[i] ELSE t[i - Len(s)]
  BY <1>3, ConcatProperties
<1>5. Len(s) \in Nat /\ Len(t) \in Nat /\ DOMAIN s = 1 .. Len(s) /\ DOMAIN (s \o t) = 1 .. Len(s \o t)
  BY <1>3, <1>4
<1>6. AnySeq(s \o t)
  BY <1>4 DEF AnySeq
<1>7. \A i \in 1 .. Len(s) : (s \o t)[i] = s[i]
  BY <1>4, <1>5
<1>8. ASSUME NEW i \in 1 .. Len(t) PROVE (s \o t)[Len(s) + i] = t[i]
  <2>1. Len(s) + i \in 1 .. Len(s) + Len(t) /\ ~(Len(s) + i <= Len(s)) /\ Len(s) + i - Len(s) = i
    BY <1>5
  <2>2. QED
    BY <1>4, <2>1
<1>9. QED
  BY <1>4, <1>5, <1>6, <1>7, <1>8

LEMMA AnyLength ==
  ASSUME NEW s, AnySeq(s)
  PROVE  Len(s) \in Nat /\ DOMAIN s = 1 .. Len(s)
<1>1. PICK S : s \in Seq(S)
  BY DEF AnySeq
<1>2. QED
  BY <1>1

LEMMA EmptyByLength ==
  ASSUME NEW s, AnySeq(s), Len(s) = 0
  PROVE  s = <<>>
<1>1. PICK S : s \in Seq(S)
  BY DEF AnySeq
<1>2. QED
  BY <1>1

LEMMA SameElements ==
  ASSUME NEW s, AnySeq(s), NEW t, AnySeq(t), Len(s) = Len(t), \A i \in 1 .. Len(s) : s[i] = t[i]
  PROVE  s = t
<1>1. PICK S : s \in Seq(S)
  BY DEF AnySeq
<1>2. PICK T : t \in Seq(T)
  BY DEF AnySeq
<1>3. s \in Seq(S \cup T) /\ t \in Seq(S \cup T)
  BY <1>1, <1>2, SeqMonotonic
<1>4. QED
  BY <1>3

LEMMA AnyLiteral ==
  ASSUME NEW x, NEW y
  PROVE  /\ AnySeq(<<>>) /\ AnySeq(<<x>>) /\ AnySeq(<<x, y>>)
         /\ Len(<<x>>) = 1 /\ <<x>>[1] = x /\ Len(<<>>) = 0 /\ Len(<<x, y>>) = 2
<1>1. <<>> \in Seq({}) /\ <<x>> \in Seq({x}) /\ <<x, y>> \in Seq({x, y})
  OBVIOUS
<1>2. QED
  BY <1>1 DEF AnySeq

LEMMA AnyAppend ==
  ASSUME NEW s, AnySeq(s), NEW x
  PROVE  Append(s, x) = s \o <<x>>
<1>1. PICK S : s \in Seq(S)
  BY DEF AnySeq
<1>2. s \in Seq(S \cup {x})
  BY <1>1, SeqMonotonic
<1>3. QED
  BY <1>2, AppendIsConcat

\* What ends a sequence is its suffix.
LEMMA ConcatSuffix ==
  ASSUME NEW s, AnySeq(s), NEW t, AnySeq(t)
  PROVE  IsSuffix(t, s \o t)
<1> DEFINE u == s \o t
<1>1. /\ Len(s) \in Nat /\ Len(t) \in Nat /\ Len(u) = Len(s) + Len(t)
      /\ \A i \in 1 .. Len(t) : u[Len(s) + i] = t[i]
      /\ DOMAIN u = 1 .. Len(u) /\ DOMAIN t = 1 .. Len(t)
  BY AnyConcat
<1> HIDE DEF u
<1>2. /\ Reverse(t) = [i \in 1 .. Len(t) |-> t[Len(t) - i + 1]]
      /\ Reverse(u) = [i \in 1 .. Len(u) |-> u[Len(u) - i + 1]]
  BY <1>1 DEF Reverse
<1>3. Len(Reverse(t)) = Len(t) /\ Len(Reverse(u)) = Len(u)
  BY <1>1, <1>2
<1>4. \A i \in 1 .. Len(t) : Reverse(t)[i] = Reverse(u)[i]
  <2> SUFFICES ASSUME NEW i \in 1 .. Len(t) PROVE Reverse(t)[i] = Reverse(u)[i]
    OBVIOUS
  <2>1. Len(t) - i + 1 \in 1 .. Len(t) /\ Len(u) - i + 1 = Len(s) + (Len(t) - i + 1)
    BY <1>1
  <2>2. i \in 1 .. Len(u)
    BY <1>1
  <2>3. QED
    BY <1>1, <1>2, <2>1, <2>2
<1>5. SubSeq(Reverse(t), 1, Len(t)) = SubSeq(Reverse(u), 1, Len(t))
  BY <1>1, <1>4
<1>6. QED
  BY <1>1, <1>3, <1>5 DEF IsSuffix, IsPrefix, u

LEMMA AnyAssoc ==
  ASSUME NEW s, AnySeq(s), NEW t, AnySeq(t), NEW u, AnySeq(u)
  PROVE  (s \o t) \o u = s \o (t \o u)
<1>1. PICK S : s \in Seq(S)
  BY DEF AnySeq
<1>2. PICK T : t \in Seq(T)
  BY DEF AnySeq
<1>3. PICK U : u \in Seq(U)
  BY DEF AnySeq
<1>4. s \in Seq(S \cup T \cup U) /\ t \in Seq(S \cup T \cup U) /\ u \in Seq(S \cup T \cup U)
  BY <1>1, <1>2, <1>3, SeqMonotonic
<1>5. QED
  BY <1>4, ConcatAssociative

\* A sequence is a suffix of one that ends with all its elements.
LEMMA SuffixByElements ==
  ASSUME NEW s, AnySeq(s), NEW t, AnySeq(t), Len(s) <= Len(t),
         \A i \in 1 .. Len(s) : s[i] = t[Len(t) - Len(s) + i]
  PROVE  IsSuffix(s, t)
<1>1. Len(s) \in Nat /\ Len(t) \in Nat /\ DOMAIN s = 1 .. Len(s) /\ DOMAIN t = 1 .. Len(t)
  BY AnyLength
<1>2. /\ Reverse(s) = [i \in 1 .. Len(s) |-> s[Len(s) - i + 1]]
      /\ Reverse(t) = [i \in 1 .. Len(t) |-> t[Len(t) - i + 1]]
  BY <1>1 DEF Reverse
<1>3. Len(Reverse(s)) = Len(s) /\ Len(Reverse(t)) = Len(t)
  BY <1>1, <1>2
<1>4. ASSUME NEW i \in 1 .. Len(s) PROVE Reverse(s)[i] = Reverse(t)[i]
  <2>1. Len(s) - i + 1 \in 1 .. Len(s) /\ i \in 1 .. Len(t)
        /\ Len(t) - Len(s) + (Len(s) - i + 1) = Len(t) - i + 1
    BY <1>1
  <2>2. s[Len(s) - i + 1] = t[Len(t) - i + 1]
    BY <2>1
  <2>3. QED
    BY <1>2, <2>1, <2>2
<1>5. SubSeq(Reverse(s), 1, Len(s)) = SubSeq(Reverse(t), 1, Len(s))
  BY <1>1, <1>4
<1>6. QED
  BY <1>3, <1>5 DEF IsSuffix, IsPrefix

\* The least-number principle.
LEMMA Least ==
  ASSUME NEW S \in SUBSET Nat, S # {}
  PROVE  \E n \in S : \A m \in S : n <= m
<1> DEFINE R == {ss \in Nat \X Nat : ss[1] < ss[2]}
<1>1. IsWellFoundedOn(R, Nat)
  <2>1. OpToRel(<, Nat) = R
    BY Zenon DEF OpToRel
  <2>2. QED
    BY <2>1, NatLessThanWellFounded, Zenon
<1>2. ASSUME NEW m \in Nat, NEW n \in Nat, <<m, n>> \notin R PROVE n <= m
  <2>1. ~(m < n)
    BY <1>2
  <2>2. QED
    BY <2>1
<1> HIDE DEF R
<1>3. PICK n \in S : \A m \in S : <<m, n>> \notin R
  BY <1>1, WFMin
<1>4. QED
  BY <1>2, <1>3

LEMMA Greatest ==
  ASSUME NEW k \in Nat, NEW S \in SUBSET (1 .. k), S # {}
  PROVE  \E n \in S : \A m \in S : m <= n
<1> DEFINE T == {t \in Nat : \E n \in S : t = k - n}
<1>1. T \in SUBSET Nat /\ T # {}
  <2>1. PICK n \in S : TRUE
    OBVIOUS
  <2>2. k - n \in T
    OBVIOUS
  <2>3. QED
    BY <2>2
<1>2. PICK t \in T : \A u \in T : t <= u
  <2> HIDE DEF T
  <2>1. QED
    BY <1>1, Least
<1>3. PICK n \in S : t = k - n
  OBVIOUS
<1>4. ASSUME NEW m \in S PROVE m <= n
  <2>1. k - n <= k - m
    BY <1>2, <1>3
  <2>2. QED
    BY <2>1
<1>5. QED
  BY <1>4

\* A sequence is a prefix of one that has all its elements, at their places.
LEMMA PrefixByElements ==
  ASSUME NEW s, AnySeq(s), NEW t, AnySeq(t), Len(s) <= Len(t), \A i \in 1 .. Len(s) : s[i] = t[i]
  PROVE  IsPrefix(s, t)
<1>1. Len(s) \in Nat
  BY AnyConcat
<1>2. SubSeq(s, 1, Len(s)) = SubSeq(t, 1, Len(s))
  BY <1>1
<1>3. QED
  BY <1>2 DEF IsPrefix

-----------------------------------------------------------------------------
(***************************************************************************)
(* Places: the elements of a set of positions in their order.              *)
(***************************************************************************)

\* The place of position i among the positions in S.
Place(S, i) == Cardinality({j \in S : j <= i})

\* The positions in S have the places from 1 on, each its own, in their order.
LEMMA Places ==
  ASSUME NEW k \in Nat, NEW S \in SUBSET (1 .. k)
  PROVE  /\ IsFiniteSet(S) /\ Cardinality(S) \in Nat
         /\ \A i \in Nat : Place(S, i) \in Nat /\ Place(S, i) <= i /\ Place(S, i) <= Cardinality(S)
         /\ \A i \in S : Place(S, i) = Place(S, i - 1) + 1 /\ Place(S, i) >= 1
         /\ \A i \in Nat \ {0} : i \notin S => Place(S, i) = Place(S, i - 1)
         /\ \A i, j \in Nat : i <= j => Place(S, i) <= Place(S, j)
         /\ Place(S, 0) = 0 /\ Place(S, k) = Cardinality(S)
<1> DEFINE Upto(i) == {j \in S : j <= i}
<1>0. \A j \in S : j \in Nat /\ j >= 1 /\ j <= k
  OBVIOUS
<1>1. \A i \in Nat : IsFiniteSet(1 .. i) /\ Cardinality(1 .. i) = i
  <2> SUFFICES ASSUME NEW i \in Nat PROVE IsFiniteSet(1 .. i) /\ Cardinality(1 .. i) = i
    OBVIOUS
  <2>1. 1 \in Int /\ i \in Int
    OBVIOUS
  <2>2. IsFiniteSet(1 .. i) /\ Cardinality(1 .. i) = IF 1 > i THEN 0 ELSE i - 1 + 1
    BY <2>1, FS_Interval
  <2>3. QED
    BY <2>2
<1>2. IsFiniteSet(S) /\ Cardinality(S) \in Nat
  BY <1>1, FS_Subset, FS_CardinalityType
<1>3. \A i \in Nat : /\ IsFiniteSet(Upto(i)) /\ Cardinality(Upto(i)) \in Nat
                     /\ Cardinality(Upto(i)) <= Cardinality(S)
                     /\ Cardinality(Upto(i)) <= i
  <2> SUFFICES ASSUME NEW i \in Nat
               PROVE  /\ IsFiniteSet(Upto(i)) /\ Cardinality(Upto(i)) \in Nat
                      /\ Cardinality(Upto(i)) <= Cardinality(S)
                      /\ Cardinality(Upto(i)) <= i
    OBVIOUS
  <2>1. Upto(i) \in SUBSET S /\ Upto(i) \in SUBSET (1 .. i)
    <3>1. \A j \in S : j <= i => j \in 1 .. i
      BY <1>0
    <3>2. QED
      BY <3>1, Zenon
  <2> HIDE DEF Upto
  <2>2. IsFiniteSet(Upto(i)) /\ Cardinality(Upto(i)) <= Cardinality(S)
    BY <1>2, <2>1, FS_Subset
  <2>3. Cardinality(Upto(i)) <= Cardinality(1 .. i)
    BY <1>1, <2>1, FS_Subset
  <2>4. QED
    BY <1>1, <2>2, <2>3, FS_CardinalityType
<1>4. ASSUME NEW i \in S PROVE Place(S, i) = Place(S, i - 1) + 1 /\ Place(S, i) >= 1
  <2>1. i - 1 \in Nat /\ i \in Nat /\ i >= 1
    BY <1>0
  <2>2. Upto(i) = Upto(i - 1) \cup {i} /\ i \notin Upto(i - 1)
    <3>1. ASSUME NEW j \in S PROVE j <= i <=> j <= i - 1 \/ j = i
      BY <1>0, <2>1
    <3>2. ~(i <= i - 1) /\ i <= i
      BY <2>1
    <3>3. QED
      BY <3>1, <3>2, Zenon
  <2> HIDE DEF Upto
  <2>3. Cardinality(Upto(i)) = Cardinality(Upto(i - 1)) + 1
    BY <1>3, <2>1, <2>2, FS_AddElement
  <2>4. Place(S, i) = Cardinality(Upto(i)) /\ Place(S, i - 1) = Cardinality(Upto(i - 1))
    BY Zenon DEF Place, Upto
  <2>5. Cardinality(Upto(i - 1)) \in Nat
    BY <1>3, <2>1
  <2>6. QED
    BY <2>3, <2>4, <2>5
<1>5. ASSUME NEW i \in Nat \ {0}, i \notin S PROVE Place(S, i) = Place(S, i - 1)
  <2>1. ASSUME NEW j \in S PROVE j <= i <=> j <= i - 1
    <3>1. j \in Nat /\ j # i
      BY <1>0, <1>5
    <3>2. QED
      BY <3>1
  <2>2. {j \in S : j <= i} = {j \in S : j <= i - 1}
    BY <2>1, Zenon
  <2>3. QED
    BY <2>2 DEF Place
<1>6. ASSUME NEW i \in Nat, NEW j \in Nat, i <= j PROVE Place(S, i) <= Place(S, j)
  <2>1. Upto(i) \in SUBSET Upto(j)
    <3>1. ASSUME NEW m \in S, m <= i PROVE m <= j
      BY <1>0, <1>6, <3>1
    <3>2. QED
      BY <3>1, Zenon
  <2> HIDE DEF Upto
  <2>2. Cardinality(Upto(i)) <= Cardinality(Upto(j))
    BY <1>3, <2>1, FS_Subset
  <2>3. QED
    BY <2>2 DEF Place, Upto
<1>7. Place(S, 0) = 0
  <2>1. ASSUME NEW j \in S PROVE ~(j <= 0)
    BY <1>0
  <2>2. {j \in S : j <= 0} = {}
    BY <2>1, Zenon
  <2>3. QED
    BY <2>2, FS_EmptySet DEF Place
<1>8. Place(S, k) = Cardinality(S)
  <2>1. {j \in S : j <= k} = S
    BY <1>0, Zenon
  <2>2. QED
    BY <2>1 DEF Place
<1>9. \A i \in Nat : Place(S, i) \in Nat /\ Place(S, i) <= i /\ Place(S, i) <= Cardinality(S)
  BY <1>3 DEF Place
<1> HIDE DEF Upto
<1>10. QED
  BY <1>2, <1>4, <1>5, <1>6, <1>7, <1>8, <1>9

\* The order of positions is that of their places.
LEMMA PlacesInOrder ==
  ASSUME NEW k \in Nat, NEW S \in SUBSET (1 .. k), NEW i \in S, NEW j \in S
  PROVE  i <= j <=> Place(S, i) <= Place(S, j)
<1>0. i \in Nat /\ j \in Nat
  OBVIOUS
<1>1. CASE i <= j
  BY <1>0, <1>1, Places
<1>2. CASE j < i
  <2>1. i \in Nat /\ j \in Nat /\ i - 1 \in Nat /\ j <= i - 1
    BY <1>2
  <2>2. Place(S, j) <= Place(S, i - 1) /\ Place(S, i) = Place(S, i - 1) + 1
        /\ Place(S, j) \in Nat /\ Place(S, i - 1) \in Nat
    BY <2>1, Places
  <2>3. QED
    BY <1>2, <2>1, <2>2
<1>3. QED
  BY <1>1, <1>2

\* There is a position for each place.
LEMMA PlaceTaken ==
  ASSUME NEW k \in Nat, NEW S \in SUBSET (1 .. k), NEW p \in 1 .. Cardinality(S)
  PROVE  \E i \in S : Place(S, i) = p
<1> DEFINE T == {i \in Nat : Place(S, i) >= p}
<1>0. p \in Nat /\ p >= 1 /\ p <= Cardinality(S) /\ Cardinality(S) \in Nat
  <2>1. Cardinality(S) \in Nat
    BY Places
  <2>2. QED
    BY <2>1
<1>1. T \in SUBSET Nat /\ k \in T
  BY <1>0, Places
<1>2. PICK i \in T : \A j \in T : i <= j
  <2> HIDE DEF T
  <2>1. QED
    BY <1>1, Least
<1>3. i \in Nat /\ Place(S, i) >= p /\ Place(S, i) \in Nat
  BY <1>2, Places
<1>4. i # 0
  <2>1. i = 0 => Place(S, i) = 0
    BY Places
  <2>2. QED
    BY <1>0, <1>3, <2>1
<1>5. i - 1 \in Nat /\ i - 1 \notin T
  BY <1>2, <1>3, <1>4
<1>6. Place(S, i - 1) \in Nat /\ Place(S, i - 1) < p
  <2>1. Place(S, i - 1) \in Nat
    BY <1>5, Places
  <2>2. QED
    BY <1>0, <1>5, <2>1
<1>7. i \in S
  <2>1. i \notin S => Place(S, i) = Place(S, i - 1)
    BY <1>3, <1>4, Places
  <2>2. QED
    BY <1>0, <1>3, <1>6, <2>1
<1>8. Place(S, i) = Place(S, i - 1) + 1
  BY <1>7, Places
<1>9. QED
  BY <1>0, <1>3, <1>6, <1>7, <1>8

=============================================================================
