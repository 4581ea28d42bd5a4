----------------------------- MODULE RoutingProofs -----------------------------
(***************************************************************************)
(* The route table and find_route, for every set of routes and every path. *)
(*                                                                         *)
(* match_route goes through template and path element by element, the      *)
(* properties speak of segments.  "Reached" relates the two: when          *)
(* match_route looks at i and j, the segments in front of them match and   *)
(* those they stand in are alike so far.  Going back from the end of the   *)
(* template, what match_route makes of the rest is then a match of all     *)
(* segments, with the parameters from i on.                                 *)
(***************************************************************************)
EXTENDS Routing, SequenceFacts

-----------------------------------------------------------------------------
(***************************************************************************)
(* match_route                                                             *)
(***************************************************************************)

\* What match_route makes of t from i on and p from j on, if f tells it what
\* it makes of what comes behind.
Entry(f, t, p, i, j) ==
  IF i > Len(t) \/ j > Len(p)
  THEN [ok |-> RouteEnds(t, i, p, j), params |-> <<>>]
  ELSE IF t[i] \in ParamNames
  THEN IF ParamsBefore(t, i) >= MaxParams
       THEN [ok |-> FALSE, params |-> <<>>]
       ELSE LET rest == f[i + 1][j + ValueLen(p, j)]
                value == SubSeq(p, j, j + ValueLen(p, j) - 1)
            IN [ok |-> rest.ok,
                params |-> <<[name |-> t[i], value |-> value]>> \o rest.params]
  ELSE IF t[i] = p[j] THEN f[i + 1][j + 1]
  ELSE [ok |-> FALSE, params |-> <<>>]

Matching(t, p) ==
  CHOOSE f : f = [i \in 1 .. Len(t) + 1 |-> [j \in 1 .. Len(p) + 1 |-> Entry(f, t, p, i, j)]]

LEMMA MatchingIsMatchRoute == \A t, p : MatchRoute(t, p) = Matching(t, p)[1][1]
BY Zenon DEF MatchRoute, Matching, Entry

\* A parameter takes what is in front of the next slash, or as much as fits.
LEMMA ValueEnds ==
  ASSUME NEW p, AnySeq(p), NEW j \in 1 .. Len(p)
  PROVE  \E e \in j .. Len(p) + 1 :
           /\ \A k \in j .. e - 1 : p[k] # "/"
           /\ e = Len(p) + 1 \/ p[e] = "/"
           /\ ValueLen(p, j) = IF e - j >= MaxValue THEN MaxValue - 1 ELSE e - j
           /\ ValueLen(p, j) \in Nat /\ j + ValueLen(p, j) \in 1 .. Len(p) + 1
<1> DEFINE slashes == {k \in j .. Len(p) : p[k] = "/"}
           first == CHOOSE k \in slashes : \A l \in slashes : k <= l
           e == IF slashes = {} THEN Len(p) + 1 ELSE first
<1>1. Len(p) \in Nat /\ MaxValue \in Nat \ {0} /\ j \in Nat
  BY AnyLength, RoutingAssumption
<1>2. ValueLen(p, j) = IF e - j >= MaxValue THEN MaxValue - 1 ELSE e - j
  BY Zenon DEF ValueLen
<1>3. e \in j .. Len(p) + 1 /\ (\A k \in j .. e - 1 : p[k] # "/") /\ (e = Len(p) + 1 \/ p[e] = "/")
  <2>1. CASE slashes = {}
    BY <1>1, <2>1
  <2>2. CASE slashes # {}
    <3>1. first \in slashes /\ \A l \in slashes : first <= l
      <4>1. slashes \in SUBSET Nat
        BY <1>1
      <4> HIDE DEF slashes
      <4>2. QED
        BY <2>2, <4>1, Least
    <3> HIDE DEF first
    <3>2. QED
      BY <1>1, <2>2, <3>1
  <2>3. QED
    BY <2>1, <2>2
<1> HIDE DEF e
<1>4. ValueLen(p, j) \in Nat /\ j + ValueLen(p, j) \in 1 .. Len(p) + 1
  <2>1. CASE e - j >= MaxValue
    BY <1>1, <1>2, <1>3, <2>1
  <2>2. CASE ~(e - j >= MaxValue)
    BY <1>1, <1>2, <1>3, <2>2
  <2>3. QED
    BY <2>1, <2>2
<1>5. QED
  BY <1>2, <1>3, <1>4

\* Only what comes behind matters.
LEMMA EntryLooksAhead ==
  ASSUME NEW t, AnySeq(t), NEW p, AnySeq(p), NEW f, NEW g,
         NEW i \in 1 .. Len(t) + 1, NEW j \in 1 .. Len(p) + 1,
         i <= Len(t) => \A k \in 1 .. Len(p) + 1 : f[i + 1][k] = g[i + 1][k]
  PROVE  Entry(f, t, p, i, j) = Entry(g, t, p, i, j)
<1>1. Len(t) \in Nat /\ Len(p) \in Nat
  BY AnyLength
<1>2. CASE i > Len(t) \/ j > Len(p)
  BY <1>2 DEF Entry
<1>3. CASE ~(i > Len(t)) /\ ~(j > Len(p))
  <2>1. i <= Len(t) /\ j \in 1 .. Len(p)
    BY <1>1, <1>3
  <2>2. f[i + 1][j + 1] = g[i + 1][j + 1]
    BY <1>1, <2>1
  <2>3. f[i + 1][j + ValueLen(p, j)] = g[i + 1][j + ValueLen(p, j)]
    <3>1. j + ValueLen(p, j) \in 1 .. Len(p) + 1
      BY <2>1, ValueEnds
    <3>2. QED
      BY <2>1, <3>1
  <2>4. QED
    BY <2>2, <2>3, Zenon DEF Entry
<1>4. QED
  BY <1>2, <1>3

LEMMA MatchingExists ==
  ASSUME NEW t, AnySeq(t), NEW p, AnySeq(p)
  PROVE  \E f : f = [i \in 1 .. Len(t) + 1 |-> [j \in 1 .. Len(p) + 1 |-> Entry(f, t, p, i, j)]]
<1> DEFINE N == Len(t) + 1
           M == Len(p) + 1
           From(f, n) == f = [i \in N + 1 - n .. N |-> [j \in 1 .. M |-> Entry(f, t, p, i, j)]]
           Bad == {n \in 0 .. N : ~ \E f : From(f, n)}
<1>1. N \in Nat /\ M \in Nat /\ N = Len(t) + 1 /\ M = Len(p) + 1
  BY AnyLength
<1> HIDE DEF N, M
<1>2. CASE Bad = {}
  <2>1. N \in 0 .. N /\ N + 1 - N = 1
    BY <1>1
  <2>2. \E f : From(f, N)
    BY <1>2, <2>1
  <2>3. PICK f : From(f, N)
    BY <2>2
  <2>4. f = [i \in 1 .. N |-> [j \in 1 .. M |-> Entry(f, t, p, i, j)]]
    BY <2>1, <2>3
  <2>5. QED
    BY <1>1, <2>4
<1>3. CASE Bad # {}
  <2>1. PICK n \in Bad : \A m \in Bad : n <= m
    <3>1. Bad \in SUBSET Nat
      BY <1>1
    <3> HIDE DEF Bad
    <3>2. QED
      BY <1>3, <3>1, Least
  <2>2. n \in 0 .. N /\ ~ \E f : From(f, n)
    BY <2>1
  <2>3. n # 0
    <3>1. \A i : i \notin N + 1 - 0 .. N
      BY <1>1
    <3>2. SUFFICES ASSUME n = 0 PROVE From([i \in N + 1 - 0 .. N |-> [j \in 1 .. M |-> 0]], n)
      BY <2>2
    <3>3. QED
      BY <3>1, <3>2
  <2>4. n - 1 \in 0 .. N /\ n - 1 \notin Bad
    <3>1. n - 1 \in 0 .. N /\ ~(n <= n - 1)
      BY <1>1, <2>2, <2>3
    <3> HIDE DEF Bad
    <3>2. QED
      BY <2>1, <3>1
  <2>5. PICK f : From(f, n - 1)
    BY <2>4
  <2> DEFINE k == N + 1 - n
             g == [i \in k .. N |-> [j \in 1 .. M |-> IF i > k THEN f[i][j] ELSE Entry(f, t, p, i, j)]]
  <2>6. k \in 1 .. N /\ N + 1 - (n - 1) = k + 1
    BY <1>1, <2>2, <2>3
  <2>7. f = [i \in k + 1 .. N |-> [j \in 1 .. M |-> Entry(f, t, p, i, j)]]
    BY <2>5, <2>6
  <2> HIDE DEF k
  <2>8. ASSUME NEW i \in k .. N, NEW j \in 1 .. M PROVE g[i][j] = Entry(g, t, p, i, j)
    <3>1. i \in 1 .. N /\ (i > k => i \in k + 1 .. N)
      BY <1>1, <2>6
    <3>2. i > k => f[i][j] = Entry(f, t, p, i, j)
      <4>1. \A a \in k + 1 .. N : f[a] = [b \in 1 .. M |-> Entry(f, t, p, a, b)]
        BY <2>7
      <4>2. QED
        BY <3>1, <4>1
    <3>3. g[i][j] = Entry(f, t, p, i, j)
      BY <3>2
    <3>4. ASSUME i <= Len(t), NEW l \in 1 .. M PROVE f[i + 1][l] = g[i + 1][l]
      <4>1. i + 1 \in k .. N /\ i + 1 > k
        BY <1>1, <2>6, <3>4
      <4>2. QED
        BY <4>1
    <3> HIDE DEF g
    <3>5. Entry(f, t, p, i, j) = Entry(g, t, p, i, j)
      <4>1. i \in 1 .. Len(t) + 1 /\ j \in 1 .. Len(p) + 1
        BY <1>1, <3>1
      <4>2. i <= Len(t) => \A l \in 1 .. Len(p) + 1 : f[i + 1][l] = g[i + 1][l]
        BY <1>1, <3>4
      <4>3. QED
        BY <4>1, <4>2, EntryLooksAhead
    <3>6. QED
      BY <3>3, <3>5
  <2>9. g = [i \in k .. N |-> [j \in 1 .. M |-> g[i][j]]]
    OBVIOUS
  <2>10. [i \in k .. N |-> [j \in 1 .. M |-> g[i][j]]] = [i \in k .. N |-> [j \in 1 .. M |-> Entry(g, t, p, i, j)]]
    <3> HIDE DEF g
    <3>1. QED
      BY <2>8
  <2>11. From(g, n)
    <3> HIDE DEF g
    <3>1. QED
      BY <2>9, <2>10 DEF k
  <2>12. QED
    BY <2>2, <2>11
<1>4. QED
  BY <1>2, <1>3

LEMMA MatchingChosen ==
  ASSUME NEW t, AnySeq(t), NEW p, AnySeq(p)
  PROVE  Matching(t, p) = [i \in 1 .. Len(t) + 1 |-> [j \in 1 .. Len(p) + 1 |-> Entry(Matching(t, p), t, p, i, j)]]
<1> DEFINE Solves(f) == f = [i \in 1 .. Len(t) + 1 |-> [j \in 1 .. Len(p) + 1 |-> Entry(f, t, p, i, j)]]
<1>1. \E f : Solves(f)
  BY MatchingExists
<1>2. Matching(t, p) = CHOOSE f : Solves(f)
  BY DEF Matching
<1> HIDE DEF Solves
<1>3. Solves(Matching(t, p))
  BY <1>1, <1>2, Zenon
<1>4. QED
  BY <1>3 DEF Solves

LEMMA MatchingEquation ==
  ASSUME NEW t, AnySeq(t), NEW p, AnySeq(p), NEW i \in 1 .. Len(t) + 1, NEW j \in 1 .. Len(p) + 1
  PROVE  Matching(t, p)[i][j] = Entry(Matching(t, p), t, p, i, j)
<1> DEFINE F == Matching(t, p)
<1>1. F = [a \in 1 .. Len(t) + 1 |-> [b \in 1 .. Len(p) + 1 |-> Entry(F, t, p, a, b)]]
  BY MatchingChosen
<1> HIDE DEF F
<1>2. F[i] = [b \in 1 .. Len(p) + 1 |-> Entry(F, t, p, i, b)]
  BY <1>1, Zenon
<1>3. F[i][j] = Entry(F, t, p, i, j)
  BY <1>2, Zenon
<1>4. QED
  BY <1>3 DEF F

-----------------------------------------------------------------------------
(***************************************************************************)
(* Segments                                                                *)
(***************************************************************************)

SlashesOf(s) == {k \in 1 .. Len(s) : s[k] = "/"}

\* Slashes are counted like places.
LEMMA SlashesArePlaces ==
  ASSUME NEW s, AnySeq(s)
  PROVE  /\ SlashesOf(s) \in SUBSET (1 .. Len(s)) /\ Len(s) \in Nat
         /\ \A i \in 0 .. Len(s) : SlashesUpTo(s, i) = Place(SlashesOf(s), i)
         /\ LastSegment(s) = Cardinality(SlashesOf(s)) /\ LastSegment(s) \in Nat
<1>1. Len(s) \in Nat
  BY AnyLength
<1>2. ASSUME NEW i \in 0 .. Len(s) PROVE SlashesUpTo(s, i) = Place(SlashesOf(s), i)
  <2>1. {k \in 1 .. i : s[k] = "/"} = {k \in SlashesOf(s) : k <= i}
    BY <1>1 DEF SlashesOf
  <2>2. QED
    BY <2>1, Zenon DEF SlashesUpTo, Place
<1>3. SlashesOf(s) \in SUBSET (1 .. Len(s))
  BY DEF SlashesOf
<1>4. LastSegment(s) = Cardinality(SlashesOf(s))
  BY Zenon DEF LastSegment, SlashesUpTo, SlashesOf
<1>5. LastSegment(s) \in Nat
  BY <1>1, <1>3, <1>4, Places
<1>6. QED
  BY <1>1, <1>2, <1>3, <1>4, <1>5

LEMMA SlashCounts ==
  ASSUME NEW s, AnySeq(s)
  PROVE  /\ \A i \in 0 .. Len(s) : SlashesUpTo(s, i) \in 0 .. LastSegment(s)
         /\ SlashesUpTo(s, 0) = 0 /\ SlashesUpTo(s, Len(s)) = LastSegment(s)
         /\ \A i \in 1 .. Len(s) : IF s[i] = "/" THEN SlashesUpTo(s, i) = SlashesUpTo(s, i - 1) + 1
                                   ELSE SlashesUpTo(s, i) = SlashesUpTo(s, i - 1)
         /\ \A i, j \in 0 .. Len(s) : i <= j => SlashesUpTo(s, i) <= SlashesUpTo(s, j)
<1> DEFINE S == SlashesOf(s)
           n == Len(s)
<1>1. S \in SUBSET (1 .. n) /\ n \in Nat /\ LastSegment(s) = Cardinality(S) /\ LastSegment(s) \in Nat
      /\ \A i \in 0 .. n : SlashesUpTo(s, i) = Place(S, i)
  BY SlashesArePlaces
<1>2. \A i \in 1 .. n : i \in S <=> s[i] = "/"
  BY DEF SlashesOf
<1> HIDE DEF S, n
<1>3. /\ \A i \in Nat : Place(S, i) \in Nat /\ Place(S, i) <= Cardinality(S)
      /\ \A i \in S : Place(S, i) = Place(S, i - 1) + 1
      /\ \A i \in Nat \ {0} : i \notin S => Place(S, i) = Place(S, i - 1)
      /\ \A i, j \in Nat : i <= j => Place(S, i) <= Place(S, j)
      /\ Place(S, 0) = 0 /\ Place(S, n) = Cardinality(S)
  BY <1>1, Places
<1>4. ASSUME NEW i \in 0 .. n PROVE SlashesUpTo(s, i) \in 0 .. LastSegment(s)
  <2>1. i \in Nat
    BY <1>1
  <2>2. Place(S, i) \in Nat /\ Place(S, i) <= LastSegment(s)
    BY <1>1, <1>3, <2>1
  <2>3. QED
    BY <1>1, <2>2
<1>5. SlashesUpTo(s, 0) = 0 /\ SlashesUpTo(s, n) = LastSegment(s)
  BY <1>1, <1>3
<1>6. ASSUME NEW i \in 1 .. n
      PROVE  IF s[i] = "/" THEN SlashesUpTo(s, i) = SlashesUpTo(s, i - 1) + 1
                           ELSE SlashesUpTo(s, i) = SlashesUpTo(s, i - 1)
  <2>1. i \in Nat \ {0} /\ i \in 0 .. n /\ i - 1 \in 0 .. n
    BY <1>1
  <2>2. SlashesUpTo(s, i) = Place(S, i) /\ SlashesUpTo(s, i - 1) = Place(S, i - 1)
    BY <1>1, <2>1
  <2>3. QED
    BY <1>2, <1>3, <2>1, <2>2
<1>7. ASSUME NEW i \in 0 .. n, NEW j \in 0 .. n, i <= j PROVE SlashesUpTo(s, i) <= SlashesUpTo(s, j)
  <2>1. i \in Nat /\ j \in Nat
    BY <1>1
  <2>2. QED
    BY <1>1, <1>3, <1>7, <2>1
<1>8. QED
  BY <1>4, <1>5, <1>6, <1>7 DEF n

\* Segment k of s stands between a and e: e is a slash or behind the end.
SegAt(s, k, a, e) ==
  /\ a \in 1 .. Len(s) + 1 /\ e \in a .. Len(s) + 1
  /\ \A i \in 1 .. Len(s) + 1 : SlashesUpTo(s, i - 1) = k <=> i \in a .. e
  /\ \A i \in a .. e - 1 : s[i] # "/"
  /\ e = Len(s) + 1 <=> k = LastSegment(s)
  /\ e <= Len(s) => s[e] = "/"
  /\ AnySeq(Segment(s, k)) /\ Len(Segment(s, k)) = e - a
  /\ \A d \in 1 .. e - a : Segment(s, k)[d] = s[a + d - 1]

LEMMA SubSeqFacts ==
  ASSUME NEW s, AnySeq(s), NEW a \in 1 .. Len(s) + 1, NEW e \in a .. Len(s) + 1
  PROVE  /\ AnySeq(SubSeq(s, a, e - 1)) /\ Len(SubSeq(s, a, e - 1)) = e - a
         /\ \A d \in 1 .. e - a : SubSeq(s, a, e - 1)[d] = s[a + d - 1]
<1>1. PICK S : s \in Seq(S)
  BY DEF AnySeq
<1>2. Len(s) \in Nat
  BY <1>1
<1>3. a \in Int /\ e - 1 \in Int /\ \A i \in a .. e - 1 : s[i] \in S
  BY <1>1, <1>2
<1>4. /\ SubSeq(s, a, e - 1) \in Seq(S)
      /\ Len(SubSeq(s, a, e - 1)) = IF a <= e - 1 THEN e - 1 - a + 1 ELSE 0
      /\ \A i \in 1 .. e - 1 - a + 1 : SubSeq(s, a, e - 1)[i] = s[a + i - 1]
  BY <1>3, SubSeqProperties
<1>5. e - 1 - a + 1 = e - a /\ (a <= e - 1 \/ e - a = 0)
  BY <1>2
<1>6. Len(SubSeq(s, a, e - 1)) = e - a
  BY <1>4, <1>5
<1>7. QED
  BY <1>4, <1>5, <1>6 DEF AnySeq

LEMMA SegmentStands ==
  ASSUME NEW s, AnySeq(s), NEW k \in 0 .. LastSegment(s)
  PROVE  \E a, e : SegAt(s, k, a, e)
<1> DEFINE n == Len(s)
           at == {i \in 1 .. n + 1 : SlashesUpTo(s, i - 1) = k}
           S == SlashesOf(s)
<1>1. /\ n \in Nat /\ S \in SUBSET (1 .. n) /\ LastSegment(s) = Cardinality(S) /\ LastSegment(s) \in Nat
      /\ \A i \in 0 .. n : SlashesUpTo(s, i) = Place(S, i)
  BY SlashesArePlaces
<1>2. \A i \in 0 .. n : SlashesUpTo(s, i) \in Nat
  BY <1>1, SlashCounts
<1>3. \A i, j \in 0 .. n : i <= j => SlashesUpTo(s, i) <= SlashesUpTo(s, j)
  BY <1>1, SlashCounts
<1>4. \A i \in 1 .. n : IF s[i] = "/" THEN SlashesUpTo(s, i) = SlashesUpTo(s, i - 1) + 1
                        ELSE SlashesUpTo(s, i) = SlashesUpTo(s, i - 1)
  BY SlashCounts
<1>5. SlashesUpTo(s, 0) = 0 /\ SlashesUpTo(s, n) = LastSegment(s)
  BY SlashCounts
<1> HIDE DEF n, S
<1>6. at # {}
  <2>1. CASE k = 0
    <3>1. 1 \in at
      BY <1>1, <1>5, <2>1
    <3>2. QED
      BY <3>1
  <2>2. CASE k # 0
    <3>1. k \in 1 .. Cardinality(S)
      BY <1>1, <2>2
    <3>2. PICK i \in S : Place(S, i) = k
      BY <1>1, <3>1, PlaceTaken
    <3>3. i \in 0 .. n /\ i + 1 \in 1 .. n + 1 /\ i + 1 - 1 = i
      BY <1>1
    <3>4. i + 1 \in at
      BY <1>1, <3>2, <3>3
    <3>5. QED
      BY <3>4
  <2>3. QED
    BY <2>1, <2>2
<1>7. at \in SUBSET (1 .. n + 1) /\ at \in SUBSET Nat
  BY <1>1
<1>8. \A i \in 1 .. n + 1 : i \in at <=> SlashesUpTo(s, i - 1) = k
  OBVIOUS
<1> HIDE DEF at
<1>9. PICK a \in at : \A i \in at : a <= i
  BY <1>6, <1>7, Least
<1>10. PICK e \in at : \A i \in at : i <= e
  <2>1. n + 1 \in Nat
    BY <1>1
  <2>2. QED
    BY <1>6, <1>7, <2>1, Greatest
<1>11. a \in 1 .. n + 1 /\ e \in a .. n + 1
  BY <1>1, <1>7, <1>9, <1>10
<1>12. ASSUME NEW i \in 1 .. n + 1 PROVE i \in at <=> i \in a .. e
  <2>1. i \in at => i \in a .. e
    BY <1>1, <1>7, <1>9, <1>10
  <2>2. ASSUME i \in a .. e PROVE i \in at
    <3>1. a - 1 \in 0 .. n /\ i - 1 \in 0 .. n /\ e - 1 \in 0 .. n /\ a - 1 <= i - 1 /\ i - 1 <= e - 1
      BY <1>1, <1>11, <2>2
    <3>2. SlashesUpTo(s, a - 1) = k /\ SlashesUpTo(s, e - 1) = k
      BY <1>7, <1>8, <1>9, <1>10
    <3>3. k <= SlashesUpTo(s, i - 1) /\ SlashesUpTo(s, i - 1) <= k /\ SlashesUpTo(s, i - 1) \in Nat /\ k \in Nat
      BY <1>1, <1>2, <1>3, <3>1, <3>2
    <3>4. SlashesUpTo(s, i - 1) = k
      BY <3>3
    <3>5. QED
      BY <1>8, <3>4
  <2>3. QED
    BY <2>1, <2>2
<1>13. ASSUME NEW i \in a .. e - 1 PROVE s[i] # "/"
  <2>1. i \in 1 .. n /\ i \in a .. e /\ i + 1 \in a .. e /\ i \in 1 .. n + 1 /\ i + 1 \in 1 .. n + 1 /\ i + 1 - 1 = i
    BY <1>1, <1>11
  <2>2. SlashesUpTo(s, i - 1) = k /\ SlashesUpTo(s, i) = k
    BY <1>8, <1>12, <2>1
  <2>3. QED
    BY <1>1, <1>4, <2>1, <2>2
<1>14. ASSUME e <= n PROVE s[e] = "/" /\ k # LastSegment(s)
  <2>1. e \in 1 .. n /\ e + 1 \in 1 .. n + 1 /\ e + 1 - 1 = e /\ e + 1 \notin a .. e /\ e \in 1 .. n + 1
        /\ e \in 0 .. n /\ n \in 0 .. n
    BY <1>1, <1>11, <1>14
  <2>2. SlashesUpTo(s, e) # k /\ SlashesUpTo(s, e - 1) = k
    BY <1>8, <1>10, <1>12, <2>1
  <2>3. s[e] = "/"
    BY <1>4, <2>1, <2>2
  <2>4. SlashesUpTo(s, e) = k + 1
    BY <1>4, <2>1, <2>2, <2>3
  <2>5. SlashesUpTo(s, e) <= SlashesUpTo(s, n)
    BY <1>3, <1>14, <2>1
  <2>6. k + 1 <= LastSegment(s) /\ k \in Nat /\ LastSegment(s) \in Nat
    BY <1>1, <1>5, <2>4, <2>5
  <2>7. QED
    BY <2>3, <2>6
<1>15. ASSUME e = n + 1 PROVE k = LastSegment(s)
  <2>1. e - 1 = n /\ e \in 1 .. n + 1
    BY <1>1, <1>11, <1>15
  <2>2. QED
    BY <1>5, <1>8, <1>10, <2>1
<1>16. e = n + 1 <=> k = LastSegment(s)
  BY <1>1, <1>11, <1>14, <1>15
<1> DEFINE inside == {i \in 1 .. n : s[i] # "/" /\ SlashesUpTo(s, i) = k}
           first == CHOOSE i \in inside : \A j \in inside : i <= j
<1>17. inside = a .. e - 1
  <2>1. ASSUME NEW i \in inside PROVE i \in a .. e - 1
    <3>1. i \in 1 .. n /\ s[i] # "/" /\ SlashesUpTo(s, i) = k /\ i \in 1 .. n + 1 /\ i + 1 \in 1 .. n + 1 /\ i + 1 - 1 = i
      BY <1>1
    <3>2. SlashesUpTo(s, i - 1) = k
      BY <1>4, <3>1
    <3>3. i \in a .. e /\ i + 1 \in a .. e
      BY <1>8, <1>12, <3>1, <3>2
    <3>4. QED
      BY <1>1, <1>11, <3>1, <3>3
  <2>2. ASSUME NEW i \in a .. e - 1 PROVE i \in inside
    <3>1. i \in 1 .. n /\ i + 1 \in a .. e /\ i + 1 \in 1 .. n + 1 /\ i + 1 - 1 = i
      BY <1>1, <1>11
    <3>2. SlashesUpTo(s, i) = k
      BY <1>8, <1>12, <3>1
    <3>3. QED
      BY <1>13, <3>1, <3>2
  <2>3. QED
    BY <2>1, <2>2
<1>18. Segment(s, k) = IF inside = {} THEN <<>> ELSE SubSeq(s, first, first + Cardinality(inside) - 1)
  BY Zenon DEF Segment, n
<1> HIDE DEF inside
<1>19. Segment(s, k) = SubSeq(s, a, e - 1)
  <2>1. CASE a <= e - 1
    <3>1. a \in inside /\ \A j \in inside : a <= j
      BY <1>1, <1>11, <1>17, <2>1
    <3>2. first \in inside /\ \A j \in inside : first <= j
      BY <3>1
    <3> HIDE DEF first
    <3>3. first = a
      <4>1. first \in Nat /\ a \in Nat /\ first <= a /\ a <= first
        BY <1>1, <1>11, <1>17, <3>1, <3>2
      <4>2. QED
        BY <4>1
    <3>4. Cardinality(inside) = e - a
      <4>1. a \in Int /\ e - 1 \in Int
        BY <1>1, <1>11
      <4>2. Cardinality(a .. e - 1) = IF a > e - 1 THEN 0 ELSE e - 1 - a + 1
        BY <4>1, FS_Interval
      <4>3. QED
        BY <1>1, <1>11, <1>17, <2>1, <4>2
    <3>5. a + (e - a) - 1 = e - 1
      BY <1>1, <1>11
    <3>6. QED
      BY <1>18, <3>1, <3>3, <3>4, <3>5
  <2>2. CASE ~(a <= e - 1)
    <3>1. inside = {} /\ e = a
      BY <1>1, <1>11, <1>17, <2>2
    <3>2. SubSeq(s, a, e - 1) = <<>>
      <4>1. a \in Int /\ e - 1 \in Int /\ e - 1 < a
        BY <1>1, <1>11, <3>1
      <4>2. QED
        BY <4>1, SubSeqEmpty
    <3>3. QED
      BY <1>18, <3>1, <3>2
  <2>3. QED
    BY <2>1, <2>2
<1>20. /\ AnySeq(SubSeq(s, a, e - 1)) /\ Len(SubSeq(s, a, e - 1)) = e - a
       /\ \A d \in 1 .. e - a : SubSeq(s, a, e - 1)[d] = s[a + d - 1]
  BY <1>11, SubSeqFacts DEF n
<1>21. \A i \in 1 .. n + 1 : SlashesUpTo(s, i - 1) = k <=> i \in a .. e
  BY <1>8, <1>12
<1>22. SegAt(s, k, a, e)
  BY <1>11, <1>13, <1>14, <1>16, <1>19, <1>20, <1>21 DEF SegAt, n
<1>23. QED
  BY <1>22

-----------------------------------------------------------------------------
(***************************************************************************)
(* How far match_route gets                                                *)
(***************************************************************************)

ParamsOf(t) == {q \in 1 .. Len(t) : t[q] \in ParamNames}

LEMMA ParamCounts ==
  ASSUME NEW t, AnySeq(t)
  PROVE  /\ ParamsOf(t) \in SUBSET (1 .. Len(t)) /\ IsFiniteSet(ParamsOf(t)) /\ Cardinality(ParamsOf(t)) \in Nat
         /\ \A i \in 1 .. Len(t) + 1 : ParamsBefore(t, i) = Place(ParamsOf(t), i - 1)
         /\ \A i \in 1 .. Len(t) + 1 : ParamsBefore(t, i) \in 0 .. Cardinality(ParamsOf(t))
         /\ ParamsBefore(t, 1) = 0 /\ ParamsBefore(t, Len(t) + 1) = Cardinality(ParamsOf(t))
         /\ \A i \in 1 .. Len(t) : IF t[i] \in ParamNames THEN ParamsBefore(t, i + 1) = ParamsBefore(t, i) + 1
                                   ELSE ParamsBefore(t, i + 1) = ParamsBefore(t, i)
         /\ \A i, j \in 1 .. Len(t) + 1 : i <= j => ParamsBefore(t, i) <= ParamsBefore(t, j)
<1> DEFINE S == ParamsOf(t)
           n == Len(t)
<1>1. n \in Nat /\ S \in SUBSET (1 .. n)
  BY AnyLength DEF ParamsOf
<1>2. ASSUME NEW i \in 1 .. n + 1 PROVE ParamsBefore(t, i) = Place(S, i - 1)
  <2>1. {k \in 1 .. (i - 1) : t[k] \in ParamNames} = {k \in S : k <= i - 1}
    BY <1>1 DEF ParamsOf
  <2>2. QED
    BY <2>1, Zenon DEF ParamsBefore, Place
<1>3. \A i \in 1 .. n : i \in S <=> t[i] \in ParamNames
  BY DEF ParamsOf
<1> HIDE DEF S, n
<1>4. /\ IsFiniteSet(S) /\ Cardinality(S) \in Nat
      /\ \A i \in Nat : Place(S, i) \in Nat /\ Place(S, i) <= Cardinality(S)
      /\ \A i \in S : Place(S, i) = Place(S, i - 1) + 1
      /\ \A i \in Nat \ {0} : i \notin S => Place(S, i) = Place(S, i - 1)
      /\ \A i, j \in Nat : i <= j => Place(S, i) <= Place(S, j)
      /\ Place(S, 0) = 0 /\ Place(S, n) = Cardinality(S)
  BY <1>1, Places
<1>5. ASSUME NEW i \in 1 .. n + 1 PROVE ParamsBefore(t, i) \in 0 .. Cardinality(S) /\ i - 1 \in Nat
  <2>1. i - 1 \in Nat
    BY <1>1
  <2>2. Place(S, i - 1) \in Nat /\ Place(S, i - 1) <= Cardinality(S)
    BY <1>4, <2>1
  <2>3. QED
    BY <1>2, <1>4, <2>1, <2>2
<1>6. ParamsBefore(t, 1) = 0 /\ ParamsBefore(t, n + 1) = Cardinality(S)
  <2>1. 1 \in 1 .. n + 1 /\ n + 1 \in 1 .. n + 1 /\ 1 - 1 = 0 /\ n + 1 - 1 = n
    BY <1>1
  <2>2. ParamsBefore(t, 1) = Place(S, 1 - 1)
    BY <1>2, <2>1
  <2>4. ParamsBefore(t, n + 1) = Place(S, n + 1 - 1)
    BY <1>1, <1>2, <2>1
  <2>3. ParamsBefore(t, 1) = Place(S, 0) /\ ParamsBefore(t, n + 1) = Place(S, n)
    BY <2>1, <2>2, <2>4
  <2>5. QED
    BY <1>4, <2>3
<1>7. ASSUME NEW i \in 1 .. n
      PROVE  IF t[i] \in ParamNames THEN ParamsBefore(t, i + 1) = ParamsBefore(t, i) + 1
             ELSE ParamsBefore(t, i + 1) = ParamsBefore(t, i)
  <2>1. i \in Nat \ {0} /\ i \in 1 .. n + 1 /\ i + 1 \in 1 .. n + 1 /\ i + 1 - 1 = i
    BY <1>1
  <2>2. ParamsBefore(t, i) = Place(S, i - 1) /\ ParamsBefore(t, i + 1) = Place(S, i)
    BY <1>2, <2>1
  <2>3. QED
    BY <1>3, <1>4, <2>1, <2>2
<1>8. ASSUME NEW i \in 1 .. n + 1, NEW j \in 1 .. n + 1, i <= j PROVE ParamsBefore(t, i) <= ParamsBefore(t, j)
  <2>1. i - 1 \in Nat /\ j - 1 \in Nat /\ i - 1 <= j - 1
    BY <1>1, <1>8
  <2>2. Place(S, i - 1) <= Place(S, j - 1)
    BY <1>4, <2>1
  <2>3. QED
    BY <1>2, <2>2
<1>9. QED
  BY <1>1, <1>2, <1>4, <1>5, <1>6, <1>7, <1>8 DEF S, n

\* match_route has got through the elements in front of i and j, in segment k,
\* none of them a parameter.
Alike(t, p, k, a, e, b, f, i, j) ==
  /\ SegAt(t, k, a, e) /\ SegAt(p, k, b, f)
  /\ i \in a .. e /\ j \in b .. f /\ i - a = j - b
  /\ \A d \in 1 .. i - a : t[a + d - 1] = p[b + d - 1] /\ t[a + d - 1] \notin ParamNames

\* The two segments in terms of the two sequences.
LEMMA SegmentsAlike ==
  ASSUME NEW t, AnySeq(t), NEW p, AnySeq(p), NEW k, NEW a, NEW e, NEW b, NEW f, NEW i, NEW j,
         Alike(t, p, k, a, e, b, f, i, j)
  PROVE  /\ a \in Nat /\ e \in Nat /\ b \in Nat /\ f \in Nat /\ i \in Nat /\ j \in Nat /\ i - a \in Nat /\ e - a \in Nat /\ f - b \in Nat
         /\ a <= i /\ i <= e /\ b <= j /\ j <= f /\ i - a = j - b /\ a >= 1 /\ b >= 1
         /\ e <= Len(t) + 1 /\ f <= Len(p) + 1 /\ Len(t) \in Nat /\ Len(p) \in Nat
         /\ AnySeq(Segment(t, k)) /\ Len(Segment(t, k)) = e - a
         /\ AnySeq(Segment(p, k)) /\ Len(Segment(p, k)) = f - b
         /\ \A d \in 1 .. e - a : Segment(t, k)[d] = t[a + d - 1]
         /\ \A d \in 1 .. f - b : Segment(p, k)[d] = p[b + d - 1]
         /\ \A d \in 1 .. i - a : Segment(t, k)[d] = Segment(p, k)[d] /\ Segment(t, k)[d] \notin ParamNames
<1>1. Len(t) \in Nat /\ Len(p) \in Nat
  BY AnyLength
<1>2. a \in 1 .. Len(t) + 1 /\ e \in a .. Len(t) + 1 /\ b \in 1 .. Len(p) + 1 /\ f \in b .. Len(p) + 1
      /\ i \in a .. e /\ j \in b .. f /\ i - a = j - b
  BY DEF Alike, SegAt
<1>3. /\ a \in Nat /\ e \in Nat /\ b \in Nat /\ f \in Nat /\ i \in Nat /\ j \in Nat /\ i - a \in Nat /\ e - a \in Nat /\ f - b \in Nat
      /\ a <= i /\ i <= e /\ b <= j /\ j <= f /\ a >= 1 /\ b >= 1
      /\ e <= Len(t) + 1 /\ f <= Len(p) + 1
  BY <1>1, <1>2
<1>4. /\ AnySeq(Segment(t, k)) /\ Len(Segment(t, k)) = e - a
      /\ AnySeq(Segment(p, k)) /\ Len(Segment(p, k)) = f - b
      /\ \A d \in 1 .. e - a : Segment(t, k)[d] = t[a + d - 1]
      /\ \A d \in 1 .. f - b : Segment(p, k)[d] = p[b + d - 1]
  BY DEF Alike, SegAt
<1>5. \A d \in 1 .. i - a : t[a + d - 1] = p[b + d - 1] /\ t[a + d - 1] \notin ParamNames
  BY DEF Alike
<1>6. \A d \in 1 .. i - a : d \in 1 .. e - a /\ d \in 1 .. f - b
  BY <1>1, <1>2
<1>7. QED
  BY <1>1, <1>2, <1>3, <1>4, <1>5, <1>6

\* Only the last element of a segment may be a parameter.
LEMMA ParamEndsSegment ==
  ASSUME NEW t, AnySeq(t), WellFormed(t), NEW k, NEW a, NEW e, SegAt(t, k, a, e), NEW i \in a .. e - 1, t[i] \in ParamNames
  PROVE  e = i + 1
<1>1. Len(t) \in Nat /\ a \in 1 .. Len(t) + 1 /\ e \in a .. Len(t) + 1 /\ \A l \in a .. e - 1 : t[l] # "/"
  BY AnyLength DEF SegAt
<1>2. i \in 1 .. Len(t)
  BY <1>1
<1>3. i = Len(t) \/ t[i + 1] = "/"
  BY <1>2 DEF WellFormed
<1>4. CASE i = Len(t)
  BY <1>1, <1>4
<1>5. CASE t[i + 1] = "/"
  <2>1. i + 1 \notin a .. e - 1
    BY <1>1, <1>5
  <2>2. QED
    BY <1>1, <2>1
<1>6. QED
  BY <1>3, <1>4, <1>5

\* Segments that are alike to their ends match.
LEMMA WholeSegment ==
  ASSUME NEW t, AnySeq(t), NEW p, AnySeq(p), NEW k, NEW a, NEW e, NEW b, NEW f,
         Alike(t, p, k, a, e, b, f, e, f), NEW x
  PROVE  SegmentMatches(Segment(t, k), Segment(p, k), x) /\ ~HasParam(Segment(t, k))
<1> DEFINE ts == Segment(t, k)
           ps == Segment(p, k)
<1>1. /\ e - a \in Nat /\ e - a = f - b /\ AnySeq(ts) /\ AnySeq(ps) /\ Len(ts) = e - a /\ Len(ps) = e - a
      /\ \A d \in 1 .. e - a : ts[d] = ps[d] /\ ts[d] \notin ParamNames
  BY SegmentsAlike
<1> HIDE DEF ts, ps
<1>2. ~HasParam(ts)
  <2>1. CASE e - a = 0
    <3>1. ts = <<>>
      BY <1>1, <2>1, EmptyByLength
    <3>2. QED
      BY <3>1 DEF HasParam
  <2>2. CASE e - a # 0
    <3>1. Len(ts) \in 1 .. e - a
      BY <1>1, <2>2
    <3>2. QED
      BY <1>1, <3>1 DEF HasParam
  <2>3. QED
    BY <2>1, <2>2
<1>3. ts = ps
  BY <1>1, SameElements
<1>4. QED
  BY <1>2, <1>3 DEF SegmentMatches, ts, ps

\* Segments that differ before a parameter do not match.
LEMMA Mismatch ==
  ASSUME NEW t, AnySeq(t), WellFormed(t), NEW p, AnySeq(p), NEW k, NEW a, NEW e, NEW b, NEW f, NEW i, NEW j,
         Alike(t, p, k, a, e, b, f, i, j), i < e \/ j < f, i < e => t[i] \notin ParamNames,
         i < e /\ j < f => t[i] # p[j], NEW x
  PROVE  ~SegmentMatches(Segment(t, k), Segment(p, k), x)
<1> DEFINE ts == Segment(t, k)
           ps == Segment(p, k)
           c == i - a
<1>1. /\ a \in Nat /\ e \in Nat /\ b \in Nat /\ f \in Nat /\ i \in Nat /\ j \in Nat /\ e - a \in Nat /\ f - b \in Nat
      /\ a <= i /\ i <= e /\ b <= j /\ j <= f
      /\ AnySeq(ts) /\ AnySeq(ps) /\ Len(ts) = e - a /\ Len(ps) = f - b
      /\ \A d \in 1 .. e - a : ts[d] = t[a + d - 1]
      /\ \A d \in 1 .. f - b : ps[d] = p[b + d - 1]
  <2>1. /\ a \in Nat /\ e \in Nat /\ b \in Nat /\ f \in Nat /\ i \in Nat /\ j \in Nat
        /\ a <= i /\ i <= e /\ b <= j /\ j <= f
    BY SegmentsAlike
  <2>2. e - a \in Nat /\ f - b \in Nat
    BY <2>1
  <2>3. AnySeq(ts) /\ AnySeq(ps) /\ Len(ts) = e - a /\ Len(ps) = f - b
    BY SegmentsAlike
  <2>4. \A d \in 1 .. e - a : ts[d] = t[a + d - 1]
    BY SegmentsAlike
  <2>5. \A d \in 1 .. f - b : ps[d] = p[b + d - 1]
    BY SegmentsAlike
  <2>6. QED
    BY <2>1, <2>2, <2>3, <2>4, <2>5
<1>10. c \in Nat /\ c = j - b /\ \A d \in 1 .. c : ts[d] = ps[d] /\ ts[d] \notin ParamNames
  <2>1. i - a \in Nat /\ i - a = j - b
    BY SegmentsAlike
  <2>2. \A d \in 1 .. i - a : Segment(t, k)[d] = Segment(p, k)[d] /\ Segment(t, k)[d] \notin ParamNames
    BY SegmentsAlike
  <2>3. QED
    BY <2>1, <2>2
<1> HIDE DEF ts, ps, c
<1>0. c = i - a
  BY DEF c
<1>2. i < e => c + 1 \in 1 .. e - a /\ ts[c + 1] = t[i]
  <2> SUFFICES ASSUME i < e PROVE c + 1 \in 1 .. e - a /\ ts[c + 1] = t[i]
    OBVIOUS
  <2>1. c + 1 \in 1 .. e - a
    BY <1>0, <1>1, <1>10
  <2>3. a + (c + 1) - 1 = i
    BY <1>0, <1>1, <1>10
  <2>2. QED
    BY <1>1, <2>1, <2>3
<1>3. j < f => c + 1 \in 1 .. f - b /\ ps[c + 1] = p[j]
  <2> SUFFICES ASSUME j < f PROVE c + 1 \in 1 .. f - b /\ ps[c + 1] = p[j]
    OBVIOUS
  <2>1. c + 1 \in 1 .. f - b
    BY <1>0, <1>1, <1>10
  <2>3. b + (c + 1) - 1 = j
    BY <1>0, <1>1, <1>10
  <2>2. QED
    BY <1>1, <2>1, <2>3
<1>4. ts # ps
  <2>1. CASE i < e /\ j < f
    BY <1>2, <1>3, <2>1
  <2>2. CASE ~(i < e /\ j < f)
    <3>1. e - a # f - b
      BY <1>0, <1>1, <1>10, <2>2
    <3>2. QED
      BY <1>1, <3>1
  <2>3. QED
    BY <2>1, <2>2
<1>5. ASSUME HasParam(ts), Len(ps) >= Len(ts) - 1 PROVE SubSeq(ts, 1, Len(ts) - 1) # SubSeq(ps, 1, Len(ts) - 1)
  <2>1. ts # <<>> /\ ts[Len(ts)] \in ParamNames
    BY <1>5 DEF HasParam
  <2>2. Len(ts) # 0
    BY <1>1, <2>1, EmptyByLength
  <2>3. Len(ts) \in Nat /\ Len(ts) \in 1 .. e - a /\ Len(ts) \notin 1 .. c
    BY <1>1, <2>1, <2>2, <1>10
  <2>4. i < e
    BY <1>0, <1>1, <1>10, <2>3
  <2>5. Len(ts) # c + 1
    BY <1>2, <2>1, <2>4
  <2>6. c + 1 \in 1 .. Len(ts) - 1 /\ c + 1 <= f - b
    <3>1. c + 1 \in 1 .. e - a /\ Len(ts) = e - a /\ e - a \in Nat /\ e - a # c + 1 /\ c \in Nat
      BY <1>1, <1>2, <1>10, <2>4, <2>5
    <3>2. c + 1 <= e - a - 1
      BY <3>1
    <3>3. f - b \in Nat /\ f - b >= e - a - 1
      BY <1>1, <1>5
    <3>4. QED
      BY <3>1, <3>2, <3>3
  <2>7. j < f
    BY <1>0, <1>1, <1>10, <2>6
  <2>8. ts[c + 1] # ps[c + 1]
    BY <1>2, <1>3, <2>4, <2>7
  <2>9. SubSeq(ts, 1, Len(ts) - 1)[c + 1] = ts[c + 1] /\ SubSeq(ps, 1, Len(ts) - 1)[c + 1] = ps[c + 1]
    <3>1. 1 \in 1 .. Len(ts) + 1 /\ Len(ts) \in 1 .. Len(ts) + 1 /\ 1 \in 1 .. Len(ps) + 1 /\ Len(ts) \in 1 .. Len(ps) + 1
          /\ 1 + (c + 1) - 1 = c + 1
      <4>1. Len(ts) \in Nat /\ Len(ps) \in Nat /\ Len(ts) >= 1 /\ Len(ps) >= Len(ts) - 1 /\ c \in Nat
        BY <1>1, <1>5, <1>10, <2>3
      <4>2. QED
        BY <4>1
    <3>2. \A d \in 1 .. Len(ts) - 1 : SubSeq(ts, 1, Len(ts) - 1)[d] = ts[1 + d - 1]
      BY <1>1, <3>1, SubSeqFacts
    <3>3. \A d \in 1 .. Len(ts) - 1 : SubSeq(ps, 1, Len(ts) - 1)[d] = ps[1 + d - 1]
      BY <1>1, <3>1, SubSeqFacts
    <3>4. QED
      BY <2>6, <3>1, <3>2, <3>3
  <2>10. QED
    BY <2>8, <2>9
<1>6. QED
  BY <1>4, <1>5 DEF SegmentMatches, ts, ps

\* What a parameter at i stands for, and when its segment matches.
LEMMA ParamSegment ==
  ASSUME NEW t, AnySeq(t), WellFormed(t), NEW p, AnySeq(p), NEW k, NEW a, NEW e, NEW b, NEW f, NEW i, NEW j,
         Alike(t, p, k, a, e, b, f, i, j), i < e, t[i] \in ParamNames
  PROVE  /\ e = i + 1 /\ HasParam(Segment(t, k)) /\ Segment(t, k)[Len(Segment(t, k))] = t[i]
         /\ ValueOf(Segment(t, k), Segment(p, k)) = SubSeq(p, j, f - 1)
         /\ \A x : SegmentMatches(Segment(t, k), Segment(p, k), x) <=> f - j < MaxValue /\ (x => f # j)
<1> DEFINE ts == Segment(t, k)
           ps == Segment(p, k)
           c == i - a
           v == SubSeq(p, j, f - 1)
<1>1. /\ a \in Nat /\ e \in Nat /\ b \in Nat /\ f \in Nat /\ i \in Nat /\ j \in Nat /\ b >= 1 /\ a >= 1
      /\ a <= i /\ i <= e /\ b <= j /\ j <= f /\ f <= Len(p) + 1 /\ Len(p) \in Nat
  BY SegmentsAlike
<1>2. c \in Nat /\ c = j - b
  <2>1. i - a \in Nat /\ i - a = j - b
    BY SegmentsAlike
  <2>2. QED
    BY <2>1
<1>3. AnySeq(ts) /\ AnySeq(ps) /\ Len(ts) = e - a /\ Len(ps) = f - b
  BY SegmentsAlike
<1>4. \A d \in 1 .. e - a : ts[d] = t[a + d - 1]
  BY SegmentsAlike
<1>5. \A d \in 1 .. f - b : ps[d] = p[b + d - 1]
  BY SegmentsAlike
<1>6. \A d \in 1 .. c : ts[d] = ps[d]
  BY SegmentsAlike
<1>7. e = i + 1
  <2>1. SegAt(t, k, a, e) /\ i \in a .. e - 1
    BY <1>1 DEF Alike
  <2>2. QED
    BY <2>1, ParamEndsSegment
<1>8. c = i - a
  OBVIOUS
<1> HIDE DEF ts, ps, c
<1>9. Len(ts) = c + 1 /\ Len(ts) \in Nat /\ Len(ps) \in Nat /\ c <= Len(ps)
  BY <1>1, <1>2, <1>3, <1>7, <1>8
<1>10. ts[Len(ts)] = t[i]
  <2>1. c + 1 \in 1 .. e - a /\ a + (c + 1) - 1 = i
    BY <1>1, <1>2, <1>7, <1>8
  <2>2. QED
    BY <1>4, <1>9, <2>1
<1>11. HasParam(ts)
  <2>1. ts # <<>>
    BY <1>2, <1>9
  <2>2. QED
    BY <1>10, <2>1 DEF HasParam
<1>12. SubSeq(ts, 1, Len(ts) - 1) = SubSeq(ps, 1, Len(ts) - 1)
  <2>1. /\ 1 \in 1 .. Len(ts) + 1 /\ Len(ts) \in 1 .. Len(ts) + 1
        /\ 1 \in 1 .. Len(ps) + 1 /\ Len(ts) \in 1 .. Len(ps) + 1 /\ Len(ts) - 1 = c
    BY <1>2, <1>9
  <2>2. /\ AnySeq(SubSeq(ts, 1, Len(ts) - 1)) /\ Len(SubSeq(ts, 1, Len(ts) - 1)) = Len(ts) - 1
        /\ \A d \in 1 .. Len(ts) - 1 : SubSeq(ts, 1, Len(ts) - 1)[d] = ts[1 + d - 1]
    BY <1>3, <2>1, SubSeqFacts
  <2>3. /\ AnySeq(SubSeq(ps, 1, Len(ts) - 1)) /\ Len(SubSeq(ps, 1, Len(ts) - 1)) = Len(ts) - 1
        /\ \A d \in 1 .. Len(ts) - 1 : SubSeq(ps, 1, Len(ts) - 1)[d] = ps[1 + d - 1]
    BY <1>3, <2>1, SubSeqFacts
  <2>4. ASSUME NEW d \in 1 .. Len(ts) - 1 PROVE SubSeq(ts, 1, Len(ts) - 1)[d] = SubSeq(ps, 1, Len(ts) - 1)[d]
    <3>1. 1 + d - 1 \in 1 .. c
      BY <2>1, <1>2
    <3>2. QED
      BY <1>6, <2>2, <2>3, <3>1
  <2>5. QED
    BY <2>2, <2>3, <2>4, SameElements
<1>13. ValueOf(ts, ps) = v
  <2>1. c + 1 \in 1 .. Len(ps) + 1 /\ Len(ps) + 1 \in c + 1 .. Len(ps) + 1 /\ Len(ps) + 1 - 1 = Len(ps)
        /\ Len(ps) + 1 - (c + 1) = f - j
    BY <1>1, <1>2, <1>3, <1>9
  <2> DEFINE first == c + 1
             behind == Len(ps) + 1
  <2>8. first \in 1 .. Len(ps) + 1 /\ behind \in first .. Len(ps) + 1
    BY <2>1
  <2>9. /\ AnySeq(SubSeq(ps, first, behind - 1)) /\ Len(SubSeq(ps, first, behind - 1)) = behind - first
        /\ \A d \in 1 .. behind - first : SubSeq(ps, first, behind - 1)[d] = ps[first + d - 1]
    <3> HIDE DEF first, behind
    <3>1. QED
      BY <1>3, <2>8, SubSeqFacts
  <2>2. behind - 1 = Len(ps) /\ first = Len(ts) /\ behind - first = f - j
    BY <1>9, <2>1
  <2>3. /\ AnySeq(ValueOf(ts, ps)) /\ Len(ValueOf(ts, ps)) = f - j
        /\ \A d \in 1 .. f - j : ValueOf(ts, ps)[d] = ps[c + 1 + d - 1]
    <3> HIDE DEF behind
    <3>1. first = c + 1
      OBVIOUS
    <3> HIDE DEF first
    <3>2. ValueOf(ts, ps) = SubSeq(ps, first, behind - 1)
      BY <2>2, Zenon DEF ValueOf
    <3>3. QED
      BY <2>2, <2>9, <3>1, <3>2
  <2>4. j \in 1 .. Len(p) + 1 /\ f \in j .. Len(p) + 1
    BY <1>1
  <2>5. AnySeq(v) /\ Len(v) = f - j /\ \A d \in 1 .. f - j : v[d] = p[j + d - 1]
    BY <2>4, SubSeqFacts
  <2> HIDE DEF v
  <2>6. ASSUME NEW d \in 1 .. f - j PROVE ValueOf(ts, ps)[d] = v[d]
    <3>1. c + 1 + d - 1 \in 1 .. f - b /\ b + (c + 1 + d - 1) - 1 = j + d - 1
      <4>1. d \in Nat /\ d >= 1 /\ d <= f - j
        BY <1>1
      <4>2. c + 1 + d - 1 = c + d /\ c + d <= f - b /\ c + d >= 1
        BY <1>1, <1>2, <4>1
      <4>3. b + (c + d) - 1 = j + d - 1
        BY <1>1, <1>2, <4>1
      <4>4. QED
        BY <1>1, <1>2, <4>1, <4>2, <4>3
    <3>2. QED
      BY <1>5, <2>3, <2>5, <3>1
  <2>7. QED
    BY <2>3, <2>5, <2>6, SameElements
<1>14. Len(v) = f - j /\ AnySeq(v)
  <2>1. j \in 1 .. Len(p) + 1 /\ f \in j .. Len(p) + 1
    BY <1>1
  <2>2. QED
    BY <2>1, SubSeqFacts
<1>15. v # <<>> <=> f # j
  <2>1. f = j => v = <<>>
    BY <1>1, <1>14, EmptyByLength
  <2>2. f # j => v # <<>>
    BY <1>1, <1>14
  <2>3. QED
    BY <2>1, <2>2
<1> HIDE DEF v
<1>16. Len(ps) >= Len(ts) - 1
  BY <1>2, <1>9
<1>17. ASSUME NEW x PROVE SegmentMatches(ts, ps, x) <=> f - j < MaxValue /\ (x => f # j)
  BY <1>11, <1>12, <1>13, <1>14, <1>15, <1>16 DEF SegmentMatches
<1>18. QED
  BY <1>7, <1>10, <1>11, <1>13, <1>17 DEF ts, ps, v

\* match_route has got to i and j: the segments before match, and this one as far
\* as it goes, or to its end by a parameter.
ReachedIn(t, p, i, j, k, a, e, b, f) ==
  /\ k \in 0 .. LastSegment(t) /\ k <= LastSegment(p)
  /\ SegAt(t, k, a, e) /\ SegAt(p, k, b, f)
  /\ \A l \in 0 .. k - 1 : SegmentMatches(Segment(t, l), Segment(p, l), FALSE)
  /\ \/ Alike(t, p, k, a, e, b, f, i, j)
     \/ i = e /\ j = f /\ SegmentMatches(Segment(t, k), Segment(p, k), k = LastSegment(p))

Reached(t, p, i, j) == \E k, a, e, b, f : ReachedIn(t, p, i, j, k, a, e, b, f)

\* All segments of t match.
SegmentsMatch(t, p) ==
  /\ LastSegment(t) = LastSegment(p)
  /\ \A k \in 0 .. LastSegment(t) :
       SegmentMatches(Segment(t, k), Segment(p, k), k = LastSegment(t))

LEMMA ReachedFacts ==
  ASSUME NEW t, AnySeq(t), NEW p, AnySeq(p), NEW i, NEW j, NEW k, NEW a, NEW e, NEW b, NEW f,
         ReachedIn(t, p, i, j, k, a, e, b, f)
  PROVE  /\ a \in Nat /\ e \in Nat /\ b \in Nat /\ f \in Nat /\ i \in Nat /\ j \in Nat /\ k \in Nat
         /\ a <= i /\ i <= e /\ b <= j /\ j <= f /\ a >= 1 /\ b >= 1
         /\ e <= Len(t) + 1 /\ f <= Len(p) + 1 /\ Len(t) \in Nat /\ Len(p) \in Nat
         /\ i \in 1 .. Len(t) + 1 /\ j \in 1 .. Len(p) + 1
         /\ LastSegment(t) \in Nat /\ LastSegment(p) \in Nat /\ k <= LastSegment(t) /\ k <= LastSegment(p)
         /\ e = Len(t) + 1 <=> k = LastSegment(t)
         /\ f = Len(p) + 1 <=> k = LastSegment(p)
         /\ e <= Len(t) => t[e] = "/"
         /\ f <= Len(p) => p[f] = "/"
         /\ \A l \in a .. e - 1 : t[l] # "/"
         /\ \A l \in b .. f - 1 : p[l] # "/"
         /\ SlashesUpTo(t, i - 1) = k
<1>1. Len(t) \in Nat /\ Len(p) \in Nat /\ LastSegment(t) \in Nat /\ LastSegment(p) \in Nat
  BY SlashesArePlaces
<1>2. k \in 0 .. LastSegment(t) /\ k <= LastSegment(p) /\ SegAt(t, k, a, e) /\ SegAt(p, k, b, f)
  BY DEF ReachedIn
<1>3. a \in 1 .. Len(t) + 1 /\ e \in a .. Len(t) + 1 /\ b \in 1 .. Len(p) + 1 /\ f \in b .. Len(p) + 1
  BY <1>2 DEF SegAt
<1>4. i \in a .. e /\ j \in b .. f
  BY <1>1, <1>3 DEF ReachedIn, Alike
<1>5. /\ e = Len(t) + 1 <=> k = LastSegment(t)
      /\ f = Len(p) + 1 <=> k = LastSegment(p)
      /\ e <= Len(t) => t[e] = "/"
      /\ f <= Len(p) => p[f] = "/"
      /\ \A l \in a .. e - 1 : t[l] # "/"
      /\ \A l \in b .. f - 1 : p[l] # "/"
      /\ \A l \in 1 .. Len(t) + 1 : SlashesUpTo(t, l - 1) = k <=> l \in a .. e
  BY <1>2 DEF SegAt
<1>6. i \in 1 .. Len(t) + 1 /\ j \in 1 .. Len(p) + 1
  BY <1>1, <1>3, <1>4
<1>7. SlashesUpTo(t, i - 1) = k
  BY <1>4, <1>5, <1>6
<1>8. /\ a \in Nat /\ e \in Nat /\ b \in Nat /\ f \in Nat /\ i \in Nat /\ j \in Nat /\ k \in Nat
      /\ a <= i /\ i <= e /\ b <= j /\ j <= f /\ a >= 1 /\ b >= 1
      /\ e <= Len(t) + 1 /\ f <= Len(p) + 1 /\ k <= LastSegment(t)
  BY <1>1, <1>2, <1>3, <1>4
<1>9. QED
  BY <1>1, <1>2, <1>5, <1>6, <1>7, <1>8

\* A segment that does not match leaves the whole without a match.
LEMMA OneMismatch ==
  ASSUME NEW t, NEW p, NEW k \in 0 .. LastSegment(t), ~SegmentMatches(Segment(t, k), Segment(p, k), k = LastSegment(t))
  PROVE  ~SegmentsMatch(t, p)
BY DEF SegmentsMatch

LEMMA ReachedStart ==
  ASSUME NEW t, AnySeq(t), NEW p, AnySeq(p)
  PROVE  Reached(t, p, 1, 1)
<1>1. Len(t) \in Nat /\ Len(p) \in Nat /\ LastSegment(t) \in Nat /\ LastSegment(p) \in Nat
  BY SlashesArePlaces
<1>2. 0 \in 0 .. LastSegment(t) /\ 0 \in 0 .. LastSegment(p) /\ SlashesUpTo(t, 0) = 0 /\ SlashesUpTo(p, 0) = 0
  BY <1>1, SlashCounts
<1>3. PICK a, e : SegAt(t, 0, a, e)
  BY <1>2, SegmentStands
<1>4. PICK b, f : SegAt(p, 0, b, f)
  BY <1>2, SegmentStands
<1>5. a = 1 /\ e \in 1 .. Len(t) + 1
  <2>1. a \in 1 .. Len(t) + 1 /\ e \in a .. Len(t) + 1
        /\ \A i \in 1 .. Len(t) + 1 : SlashesUpTo(t, i - 1) = 0 <=> i \in a .. e
    BY <1>3 DEF SegAt
  <2>2. 1 \in 1 .. Len(t) + 1 /\ 1 - 1 = 0
    BY <1>1
  <2>3. 1 \in a .. e
    BY <1>2, <2>1, <2>2
  <2>4. QED
    BY <1>1, <2>1, <2>3
<1>6. b = 1 /\ f \in 1 .. Len(p) + 1
  <2>1. b \in 1 .. Len(p) + 1 /\ f \in b .. Len(p) + 1
        /\ \A i \in 1 .. Len(p) + 1 : SlashesUpTo(p, i - 1) = 0 <=> i \in b .. f
    BY <1>4 DEF SegAt
  <2>2. 1 \in 1 .. Len(p) + 1 /\ 1 - 1 = 0
    BY <1>1
  <2>3. 1 \in b .. f
    BY <1>2, <2>1, <2>2
  <2>4. QED
    BY <1>1, <2>1, <2>3
<1>7. Alike(t, p, 0, a, e, b, f, 1, 1)
  <2>1. 1 \in a .. e /\ 1 \in b .. f /\ 1 - a = 1 - b /\ 1 - a = 0
    BY <1>1, <1>5, <1>6
  <2>2. \A d \in 1 .. 1 - a : FALSE
    BY <2>1
  <2>3. QED
    BY <1>3, <1>4, <2>1, <2>2 DEF Alike
<1>8. \A l \in 0 .. 0 - 1 : FALSE
  OBVIOUS
<1>9. ReachedIn(t, p, 1, 1, 0, a, e, b, f)
  BY <1>1, <1>2, <1>3, <1>4, <1>7, <1>8 DEF ReachedIn
<1>10. QED
  BY <1>9 DEF Reached

LEMMA ReachedEnd ==
  ASSUME NEW t, AnySeq(t), NEW p, AnySeq(p), Reached(t, p, Len(t) + 1, Len(p) + 1)
  PROVE  SegmentsMatch(t, p)
<1> DEFINE i == Len(t) + 1
           j == Len(p) + 1
<1>1. PICK k, a, e, b, f : ReachedIn(t, p, i, j, k, a, e, b, f)
  BY DEF Reached
<1> HIDE DEF i, j
<1>2. /\ e \in Nat /\ f \in Nat /\ i \in Nat /\ j \in Nat /\ k \in Nat /\ i <= e /\ j <= f
      /\ e <= Len(t) + 1 /\ f <= Len(p) + 1
  BY <1>1, ReachedFacts
<1>3. (e = Len(t) + 1 <=> k = LastSegment(t)) /\ (f = Len(p) + 1 <=> k = LastSegment(p))
      /\ LastSegment(t) \in Nat
  BY <1>1, ReachedFacts
<1>4. e = Len(t) + 1 /\ f = Len(p) + 1
  <2>1. Len(t) \in Nat /\ Len(p) \in Nat
    BY AnyLength
  <2>2. QED
    BY <1>2, <2>1 DEF i, j
<1>5. k = LastSegment(t) /\ k = LastSegment(p)
  BY <1>3, <1>4
<1>6. SegmentMatches(Segment(t, k), Segment(p, k), TRUE)
  <2>1. CASE Alike(t, p, k, a, e, b, f, i, j)
    <3>1. Alike(t, p, k, a, e, b, f, e, f)
      BY <1>4, <2>1 DEF i, j
    <3>2. QED
      BY <3>1, WholeSegment
  <2>2. CASE SegmentMatches(Segment(t, k), Segment(p, k), k = LastSegment(p))
    <3>1. (k = LastSegment(p)) = TRUE
      BY <1>5
    <3>2. QED
      BY <2>2, <3>1
  <2>3. QED
    BY <1>1, <2>1, <2>2 DEF ReachedIn
<1>7. ASSUME NEW l \in 0 .. LastSegment(t)
      PROVE  SegmentMatches(Segment(t, l), Segment(p, l), l = LastSegment(t))
  <2>1. CASE l = k
    <3>1. (l = LastSegment(t)) = TRUE
      BY <1>5, <2>1
    <3>2. QED
      BY <1>6, <2>1, <3>1
  <2>2. CASE l # k
    <3>1. (l = LastSegment(t)) = FALSE
      BY <1>5, <2>2
    <3>2. l \in 0 .. k - 1
      BY <1>2, <1>3, <1>5, <2>2
    <3>3. SegmentMatches(Segment(t, l), Segment(p, l), FALSE)
      BY <1>1, <3>2 DEF ReachedIn
    <3>4. QED
      BY <3>1, <3>3
  <2>3. QED
    BY <2>1, <2>2
<1>8. QED
  BY <1>5, <1>7 DEF SegmentsMatch

\* Where match_route gives up, nothing matches.
LEMMA ReachedFails ==
  ASSUME NEW t, AnySeq(t), WellFormed(t), NEW p, AnySeq(p), NEW i, NEW j, Reached(t, p, i, j),
         \/ i = Len(t) + 1 /\ j <= Len(p)
         \/ i <= Len(t) /\ j = Len(p) + 1
         \/ i <= Len(t) /\ j <= Len(p) /\ t[i] \notin ParamNames /\ t[i] # p[j]
  PROVE  ~SegmentsMatch(t, p)
<1> SUFFICES ASSUME SegmentsMatch(t, p) PROVE FALSE
  OBVIOUS
<1>1. PICK k, a, e, b, f : ReachedIn(t, p, i, j, k, a, e, b, f)
  BY DEF Reached
<1>2. /\ e \in Nat /\ f \in Nat /\ i \in Nat /\ j \in Nat /\ k \in Nat /\ i <= e /\ j <= f
      /\ e <= Len(t) + 1 /\ f <= Len(p) + 1 /\ Len(t) \in Nat /\ Len(p) \in Nat
      /\ LastSegment(t) \in Nat /\ k <= LastSegment(t)
  BY <1>1, ReachedFacts
<1>3. (e = Len(t) + 1 <=> k = LastSegment(t)) /\ (f = Len(p) + 1 <=> k = LastSegment(p))
  BY <1>1, ReachedFacts
<1>4. (e <= Len(t) => t[e] = "/") /\ (f <= Len(p) => p[f] = "/")
  BY <1>1, ReachedFacts
<1>5. e = Len(t) + 1 <=> f = Len(p) + 1
  BY <1>3 DEF SegmentsMatch
<1>6. ~(i = e /\ j = f)
  <2>1. SUFFICES ASSUME i = e, j = f PROVE FALSE
    OBVIOUS
  <2>2. CASE i = Len(t) + 1 /\ j <= Len(p)
    BY <1>2, <1>5, <2>1, <2>2
  <2>3. CASE i <= Len(t) /\ j = Len(p) + 1
    BY <1>2, <1>5, <2>1, <2>3
  <2>4. CASE i <= Len(t) /\ j <= Len(p) /\ t[i] \notin ParamNames /\ t[i] # p[j]
    BY <1>4, <2>1, <2>4
  <2>5. QED
    BY <2>2, <2>3, <2>4
<1>7. Alike(t, p, k, a, e, b, f, i, j)
  BY <1>1, <1>6 DEF ReachedIn
<1>8. k \in 0 .. LastSegment(t)
  BY <1>2
<1>9. CASE i < e /\ t[i] \in ParamNames
  <2>1. i <= Len(t) /\ j = Len(p) + 1
    BY <1>2, <1>9
  <2>2. f = j /\ f = Len(p) + 1 /\ e = Len(t) + 1
    BY <1>2, <1>5, <2>1
  <2>3. (k = LastSegment(t)) = TRUE
    BY <1>3, <2>2
  <2>4. ~SegmentMatches(Segment(t, k), Segment(p, k), TRUE)
    <3>1. \A x : SegmentMatches(Segment(t, k), Segment(p, k), x) <=> f - j < MaxValue /\ (x => f # j)
      BY <1>7, <1>9, ParamSegment
    <3>2. QED
      BY <2>2, <3>1
  <2>5. QED
    BY <1>8, <2>3, <2>4, OneMismatch
<1>10. CASE ~(i < e /\ t[i] \in ParamNames)
  <2>1. i < e \/ j < f
    BY <1>2, <1>6
  <2>2. ASSUME i < e, j < f PROVE t[i] # p[j]
    BY <1>2, <2>2
  <2>3. ~SegmentMatches(Segment(t, k), Segment(p, k), k = LastSegment(t))
    BY <1>7, <1>10, <2>1, <2>2, Mismatch
  <2>4. QED
    BY <1>8, <2>3, OneMismatch
<1>11. QED
  BY <1>9, <1>10

\* Behind a slash the next segment begins.
LEMMA NextSegment ==
  ASSUME NEW s, AnySeq(s), NEW k \in Nat, NEW a, NEW e, SegAt(s, k, a, e), e <= Len(s)
  PROVE  k + 1 \in 0 .. LastSegment(s) /\ \E g : SegAt(s, k + 1, e + 1, g)
<1>1. Len(s) \in Nat /\ LastSegment(s) \in Nat
  BY SlashesArePlaces
<1>2. a \in 1 .. Len(s) + 1 /\ e \in a .. Len(s) + 1 /\ s[e] = "/"
      /\ \A i \in 1 .. Len(s) + 1 : SlashesUpTo(s, i - 1) = k <=> i \in a .. e
  BY DEF SegAt
<1>3. e \in 1 .. Len(s) /\ e \in 1 .. Len(s) + 1 /\ e + 1 \in 1 .. Len(s) + 1 /\ e + 1 - 1 = e /\ e \in a .. e /\ e \in 0 .. Len(s)
  BY <1>1, <1>2
<1>4. SlashesUpTo(s, e - 1) = k
  BY <1>2, <1>3
<1>5. SlashesUpTo(s, e) = k + 1
  BY <1>2, <1>3, <1>4, SlashCounts
<1>6. k + 1 \in 0 .. LastSegment(s)
  BY <1>3, <1>5, SlashCounts
<1>7. PICK c, g : SegAt(s, k + 1, c, g)
  BY <1>6, SegmentStands
<1>8. c \in 1 .. Len(s) + 1 /\ g \in c .. Len(s) + 1
      /\ \A i \in 1 .. Len(s) + 1 : SlashesUpTo(s, i - 1) = k + 1 <=> i \in c .. g
  BY <1>7 DEF SegAt
<1>9. e + 1 \in c .. g
  <2> DEFINE m == e + 1
             l == k + 1
  <2>1. m \in 1 .. Len(s) + 1 /\ m - 1 = e /\ SlashesUpTo(s, e) = l
    BY <1>3, <1>5
  <2>2. \A i \in 1 .. Len(s) + 1 : SlashesUpTo(s, i - 1) = l <=> i \in c .. g
    BY <1>8
  <2> HIDE DEF m, l
  <2>3. m \in c .. g
    BY <2>1, <2>2
  <2>4. QED
    BY <2>3 DEF m
<1>10. e \notin c .. g
  BY <1>3, <1>4, <1>8
<1>11. c = e + 1
  BY <1>1, <1>3, <1>8, <1>9, <1>10
<1>12. QED
  BY <1>6, <1>7, <1>11

\* An element of the template is found in the path.
LEMMA ReachedSame ==
  ASSUME NEW t, AnySeq(t), NEW p, AnySeq(p), NEW i, NEW j, Reached(t, p, i, j),
         i <= Len(t), j <= Len(p), t[i] \notin ParamNames, t[i] = p[j]
  PROVE  Reached(t, p, i + 1, j + 1)
<1>1. PICK k, a, e, b, f : ReachedIn(t, p, i, j, k, a, e, b, f)
  BY DEF Reached
<1>2. /\ a \in Nat /\ e \in Nat /\ b \in Nat /\ f \in Nat /\ i \in Nat /\ j \in Nat /\ k \in Nat
      /\ a <= i /\ i <= e /\ b <= j /\ j <= f /\ a >= 1 /\ b >= 1
      /\ e <= Len(t) + 1 /\ f <= Len(p) + 1 /\ Len(t) \in Nat /\ Len(p) \in Nat
      /\ LastSegment(t) \in Nat /\ LastSegment(p) \in Nat
  BY <1>1, ReachedFacts
<1>3. (e <= Len(t) => t[e] = "/") /\ (f <= Len(p) => p[f] = "/")
      /\ (\A l \in a .. e - 1 : t[l] # "/") /\ (\A l \in b .. f - 1 : p[l] # "/")
  BY <1>1, ReachedFacts
<1>4. f = Len(p) + 1 <=> k = LastSegment(p)
  BY <1>1, ReachedFacts
<1>5. SegAt(t, k, a, e) /\ SegAt(p, k, b, f) /\ k \in 0 .. LastSegment(t) /\ k <= LastSegment(p)
      /\ \A l \in 0 .. k - 1 : SegmentMatches(Segment(t, l), Segment(p, l), FALSE)
  BY <1>1 DEF ReachedIn
<1>6. i < e => t[i] # "/"
  BY <1>2, <1>3
<1>7. j < f => p[j] # "/"
  BY <1>2, <1>3
<1>8. CASE t[i] = "/"
  <2>1. i = e /\ j = f
    BY <1>2, <1>6, <1>7, <1>8
  <2>2. SegmentMatches(Segment(t, k), Segment(p, k), FALSE)
    <3>1. CASE Alike(t, p, k, a, e, b, f, i, j)
      BY <2>1, <3>1, WholeSegment
    <3>2. CASE SegmentMatches(Segment(t, k), Segment(p, k), k = LastSegment(p))
      <4>1. (k = LastSegment(p)) = FALSE
        BY <1>2, <1>4, <2>1
      <4>2. QED
        BY <3>2, <4>1
    <3>3. QED
      BY <1>1, <3>1, <3>2 DEF ReachedIn
  <2>3. PICK g : k + 1 \in 0 .. LastSegment(t) /\ SegAt(t, k + 1, e + 1, g)
    BY <1>2, <1>5, <2>1, NextSegment
  <2>4. PICK h : k + 1 \in 0 .. LastSegment(p) /\ SegAt(p, k + 1, f + 1, h)
    BY <1>2, <1>5, <2>1, NextSegment
  <2> DEFINE kk == k + 1
             ee == e + 1
             ff == f + 1
             ii == i + 1
             jj == j + 1
  <2>5. Alike(t, p, kk, ee, g, ff, h, ii, jj)
    <3>1. g \in e + 1 .. Len(t) + 1 /\ h \in f + 1 .. Len(p) + 1
      BY <2>3, <2>4 DEF SegAt
    <3>2. ii \in ee .. g /\ jj \in ff .. h /\ ii - ee = 0 /\ jj - ff = 0
      BY <1>2, <2>1, <3>1
    <3>3. SegAt(t, kk, ee, g) /\ SegAt(p, kk, ff, h)
      BY <2>3, <2>4
    <3> HIDE DEF kk, ee, ff, ii, jj
    <3>4. \A d \in 1 .. ii - ee : FALSE
      BY <3>2
    <3>5. QED
      BY <3>2, <3>3, <3>4 DEF Alike
  <2>6. \A l \in 0 .. kk - 1 : SegmentMatches(Segment(t, l), Segment(p, l), FALSE)
    <3>1. ASSUME NEW l \in 0 .. kk - 1 PROVE SegmentMatches(Segment(t, l), Segment(p, l), FALSE)
      <4>1. l = k \/ l \in 0 .. k - 1
        BY <1>2
      <4>2. QED
        BY <1>5, <2>2, <4>1
    <3>2. QED
      BY <3>1
  <2>7. kk <= LastSegment(p) /\ kk \in 0 .. LastSegment(t) /\ SegAt(t, kk, ee, g) /\ SegAt(p, kk, ff, h)
    BY <1>2, <2>3, <2>4
  <2>8. ReachedIn(t, p, ii, jj, kk, ee, g, ff, h)
    <3> HIDE DEF kk, ee, ff, ii, jj
    <3>1. QED
      BY <2>5, <2>6, <2>7 DEF ReachedIn
  <2>9. Reached(t, p, ii, jj)
    <3> HIDE DEF kk, ee, ff, ii, jj
    <3>1. QED
      BY <2>8 DEF Reached
  <2>10. QED
    BY <2>9
<1>9. CASE t[i] # "/"
  <2>1. i < e /\ j < f
    <3>1. i # e
      BY <1>3, <1>9
    <3>2. j # f
      BY <1>3, <1>9
    <3>3. QED
      BY <1>2, <3>1, <3>2
  <2>2. Alike(t, p, k, a, e, b, f, i, j)
    BY <1>1, <1>2, <2>1 DEF ReachedIn
  <2> DEFINE ii == i + 1
             jj == j + 1
  <2>3. ii \in a .. e /\ jj \in b .. f /\ ii - a = jj - b
    BY <1>2, <2>1, <2>2 DEF Alike
  <2>4. ASSUME NEW d \in 1 .. ii - a PROVE t[a + d - 1] = p[b + d - 1] /\ t[a + d - 1] \notin ParamNames
    <3>1. CASE d = ii - a
      <4>1. a + d - 1 = i
        BY <1>2, <3>1
      <4>2. b + d - 1 = j
        BY <1>2, <2>3, <3>1
      <4>3. QED
        BY <4>1, <4>2
    <3>2. CASE d # ii - a
      <4>1. d \in 1 .. i - a
        BY <1>2, <3>2
      <4>2. QED
        BY <2>2, <4>1 DEF Alike
    <3>3. QED
      BY <3>1, <3>2
  <2>5. Alike(t, p, k, a, e, b, f, ii, jj)
    <3> HIDE DEF ii, jj
    <3>1. QED
      BY <1>5, <2>3, <2>4 DEF Alike
  <2>6. ReachedIn(t, p, ii, jj, k, a, e, b, f)
    <3> HIDE DEF ii, jj
    <3>1. QED
      BY <1>5, <2>5 DEF ReachedIn
  <2>7. Reached(t, p, ii, jj)
    <3> HIDE DEF ii, jj
    <3>1. QED
      BY <2>6 DEF Reached
  <2>8. QED
    BY <2>7
<1>10. QED
  BY <1>8, <1>9

\* A parameter at the place that was reached ends its segment of the template,
\* and takes what is left of the segment of the path, as far as it fits.
LEMMA AtParam ==
  ASSUME NEW t, AnySeq(t), WellFormed(t), NEW p, AnySeq(p), NEW i, NEW j, NEW k, NEW a, NEW e, NEW b, NEW f,
         ReachedIn(t, p, i, j, k, a, e, b, f), i <= Len(t), j <= Len(p), t[i] \in ParamNames
  PROVE  /\ Alike(t, p, k, a, e, b, f, i, j) /\ i < e /\ e = i + 1 /\ k = SlashesUpTo(t, i)
         /\ ValueLen(p, j) = IF f - j >= MaxValue THEN MaxValue - 1 ELSE f - j
         /\ ValueOf(Segment(t, k), Segment(p, k)) = SubSeq(p, j, f - 1)
         /\ \A x : SegmentMatches(Segment(t, k), Segment(p, k), x) <=> f - j < MaxValue /\ (x => f # j)
<1>1. /\ e \in Nat /\ f \in Nat /\ i \in Nat /\ j \in Nat /\ i <= e /\ j <= f
      /\ e <= Len(t) + 1 /\ f <= Len(p) + 1 /\ Len(t) \in Nat /\ Len(p) \in Nat
      /\ i \in 1 .. Len(t) + 1 /\ j \in 1 .. Len(p) + 1
  BY ReachedFacts
<1>2. (e <= Len(t) => t[e] = "/") /\ (f <= Len(p) => p[f] = "/")
  BY ReachedFacts
<1>3. /\ \A l \in b .. f - 1 : p[l] # "/"
      /\ b \in Nat /\ b <= j
  BY ReachedFacts
<1>4. t[i] # "/"
  BY RoutingAssumption
<1>5. i < e
  BY <1>1, <1>2, <1>4
<1>6. Alike(t, p, k, a, e, b, f, i, j)
  BY <1>1, <1>5 DEF ReachedIn
<1>7. e = i + 1 /\ ValueOf(Segment(t, k), Segment(p, k)) = SubSeq(p, j, f - 1)
  BY <1>5, <1>6, ParamSegment
<1>8. \A x : SegmentMatches(Segment(t, k), Segment(p, k), x) <=> f - j < MaxValue /\ (x => f # j)
  BY <1>5, <1>6, ParamSegment
<1>9. k = SlashesUpTo(t, i)
  <2>1. SlashesUpTo(t, i - 1) = k
    BY ReachedFacts
  <2>2. i \in 1 .. Len(t)
    BY <1>1
  <2>3. SlashesUpTo(t, i) = SlashesUpTo(t, i - 1)
    BY <1>4, <2>2, SlashCounts
  <2>4. QED
    BY <2>1, <2>3
<1>10. ValueLen(p, j) = IF f - j >= MaxValue THEN MaxValue - 1 ELSE f - j
  <2>1. j \in 1 .. Len(p)
    BY <1>1
  <2>2. PICK g \in j .. Len(p) + 1 :
           /\ \A l \in j .. g - 1 : p[l] # "/"
           /\ g = Len(p) + 1 \/ p[g] = "/"
           /\ ValueLen(p, j) = IF g - j >= MaxValue THEN MaxValue - 1 ELSE g - j
    BY <2>1, ValueEnds
  <2>3. ~(g < f)
    <3>1. g < f => g \in b .. f - 1 /\ g # Len(p) + 1
      BY <1>1, <1>3, <2>2
    <3>2. QED
      BY <1>3, <2>2, <3>1
  <2>4. ~(f < g)
    <3>1. f < g => f \in j .. g - 1 /\ f <= Len(p)
      BY <1>1, <2>2
    <3>2. QED
      BY <1>2, <2>2, <3>1
  <2>5. g = f
    BY <1>1, <2>2, <2>3, <2>4
  <2>6. QED
    BY <2>2, <2>5
<1>11. QED
  BY <1>5, <1>6, <1>7, <1>8, <1>9, <1>10

\* A value that does not fit: it is cut, and what is left of it is no slash.
LEMMA LongValue ==
  ASSUME NEW t, AnySeq(t), WellFormed(t), NEW p, AnySeq(p), NEW i, NEW j, NEW k, NEW a, NEW e, NEW b, NEW f,
         ReachedIn(t, p, i, j, k, a, e, b, f), i <= Len(t), j <= Len(p), t[i] \in ParamNames, f - j >= MaxValue
  PROVE  /\ ~SegmentsMatch(t, p)
         /\ Matching(t, p)[i + 1][j + ValueLen(p, j)] = [ok |-> FALSE, params |-> <<>>]
<1>1. /\ e \in Nat /\ f \in Nat /\ i \in Nat /\ j \in Nat /\ b \in Nat /\ b <= j /\ j <= f /\ j >= 1
      /\ e <= Len(t) + 1 /\ f <= Len(p) + 1 /\ Len(t) \in Nat /\ Len(p) \in Nat
      /\ i \in 1 .. Len(t) + 1 /\ j \in 1 .. Len(p) + 1
      /\ LastSegment(t) \in Nat /\ k \in Nat /\ k <= LastSegment(t)
  BY ReachedFacts
<1>2. /\ e <= Len(t) => t[e] = "/"
      /\ \A l \in b .. f - 1 : p[l] # "/"
  BY ReachedFacts
<1>3. e = i + 1 /\ ValueLen(p, j) = MaxValue - 1
  BY AtParam
<1>4. MaxValue \in Nat \ {0} /\ "/" \notin ParamNames
  BY RoutingAssumption
<1>5. ~SegmentsMatch(t, p)
  <2>1. \A x : SegmentMatches(Segment(t, k), Segment(p, k), x) <=> f - j < MaxValue /\ (x => f # j)
    BY AtParam
  <2>2. ~SegmentMatches(Segment(t, k), Segment(p, k), k = LastSegment(t))
    <3>1. ~(f - j < MaxValue)
      BY <1>1, <1>4
    <3>2. QED
      BY <2>1, <3>1
  <2>3. k \in 0 .. LastSegment(t)
    BY <1>1
  <2>4. QED
    BY <2>2, <2>3, OneMismatch
<1> DEFINE g == j + (MaxValue - 1)
<1>6. g \in b .. f - 1 /\ g \in 1 .. Len(p) /\ g \in 1 .. Len(p) + 1 /\ e \in 1 .. Len(t) + 1
  BY <1>1, <1>3, <1>4
<1> HIDE DEF g
<1>7. p[g] # "/"
  BY <1>2, <1>6
<1>8. Matching(t, p)[e][g] = Entry(Matching(t, p), t, p, e, g)
  BY <1>6, MatchingEquation
<1>9. Entry(Matching(t, p), t, p, e, g) = [ok |-> FALSE, params |-> <<>>]
  <2>1. g <= Len(p) /\ ~(g > Len(p))
    BY <1>1, <1>6
  <2>2. CASE e > Len(t)
    BY <2>1, <2>2 DEF Entry, RouteEnds
  <2>3. CASE ~(e > Len(t))
    <3>1. t[e] = "/"
      BY <1>1, <1>2, <2>3
    <3>2. t[e] \notin ParamNames /\ t[e] # p[g]
      BY <1>4, <1>7, <3>1
    <3>3. QED
      BY <2>1, <2>3, <3>2 DEF Entry
  <2>4. QED
    BY <2>2, <2>3
<1>10. Matching(t, p)[i + 1][j + ValueLen(p, j)] = Matching(t, p)[e][g]
  BY <1>3 DEF g
<1>11. QED
  BY <1>5, <1>8, <1>9, <1>10

\* A value that fits: match_route goes on behind it.
LEMMA ReachedParam ==
  ASSUME NEW t, AnySeq(t), WellFormed(t), NEW p, AnySeq(p), NEW i, NEW j, NEW k, NEW a, NEW e, NEW b, NEW f,
         ReachedIn(t, p, i, j, k, a, e, b, f), i <= Len(t), j <= Len(p), t[i] \in ParamNames, ~(f - j >= MaxValue)
  PROVE  Reached(t, p, e, f)
<1>1. /\ e \in Nat /\ f \in Nat /\ j \in Nat /\ j <= f /\ Len(p) \in Nat
      /\ (f = Len(p) + 1 <=> k = LastSegment(p))
  BY ReachedFacts
<1>2. MaxValue \in Nat
  BY RoutingAssumption
<1>3. \A x : SegmentMatches(Segment(t, k), Segment(p, k), x) <=> f - j < MaxValue /\ (x => f # j)
  BY AtParam
<1>4. SegmentMatches(Segment(t, k), Segment(p, k), k = LastSegment(p))
  <2>1. f - j < MaxValue
    BY <1>1, <1>2
  <2>2. k = LastSegment(p) => f # j
    BY <1>1
  <2>3. QED
    BY <1>3, <2>1, <2>2
<1>5. ReachedIn(t, p, e, f, k, a, e, b, f)
  BY <1>4 DEF ReachedIn
<1>6. QED
  BY <1>5 DEF Reached

\* What the parameter at q of the template stands for.
ParamIn(t, p, q) ==
  [name  |-> t[q],
   value |-> ValueOf(Segment(t, SlashesUpTo(t, q)), Segment(p, SlashesUpTo(t, q)))]

\* What comes of the elements from i on does not overrun the array.
Bounded(t, i, m) ==
  /\ m.ok \in BOOLEAN /\ AnySeq(m.params)
  /\ Len(m.params) + ParamsBefore(t, i) <= MaxParams

\* All parameters from i on, in their order, if t matches.
Delivers(t, p, i, m) ==
  /\ Bounded(t, i, m)
  /\ m.ok <=> SegmentsMatch(t, p) /\ Cardinality(ParamsOf(t)) <= MaxParams
  /\ m.ok => /\ Len(m.params) + ParamsBefore(t, i) = Cardinality(ParamsOf(t))
             /\ \A q \in ParamsOf(t) :
                  q >= i => m.params[ParamsBefore(t, q) + 1 - ParamsBefore(t, i)] = ParamIn(t, p, q)

LEMMA BoundedSame ==
  ASSUME NEW t, AnySeq(t), NEW i \in 1 .. Len(t), t[i] \notin ParamNames, NEW m
  PROVE  Bounded(t, i, m) <=> Bounded(t, i + 1, m)
<1>1. ParamsBefore(t, i + 1) = ParamsBefore(t, i)
  BY ParamCounts
<1>2. QED
  BY <1>1, Zenon DEF Bounded

LEMMA BoundedParam ==
  ASSUME NEW t, AnySeq(t), NEW i \in 1 .. Len(t), t[i] \in ParamNames, NEW rest, Bounded(t, i + 1, rest), NEW v
  PROVE  Bounded(t, i, [ok |-> rest.ok, params |-> <<v>> \o rest.params])
<1> DEFINE ps == rest.params
           all == <<v>> \o ps
<1>1. ParamsBefore(t, i + 1) = ParamsBefore(t, i) + 1 /\ ParamsBefore(t, i) \in Nat
  <2>1. Len(t) \in Nat /\ i \in 1 .. Len(t) + 1
    BY AnyLength
  <2>2. ParamsBefore(t, i) \in 0 .. Cardinality(ParamsOf(t))
    BY <2>1, ParamCounts
  <2>3. ParamsBefore(t, i + 1) = ParamsBefore(t, i) + 1
    BY ParamCounts
  <2>4. QED
    BY <2>2, <2>3
<1>2. rest.ok \in BOOLEAN /\ AnySeq(ps) /\ Len(ps) + ParamsBefore(t, i + 1) <= MaxParams
  BY DEF Bounded
<1>3. AnySeq(<<v>>) /\ Len(<<v>>) = 1 /\ Len(ps) \in Nat
  BY <1>2, AnyLiteral, AnyLength
<1> HIDE DEF ps
<1>4. AnySeq(all) /\ Len(all) = 1 + Len(ps)
  BY <1>2, <1>3, AnyConcat
<1> HIDE DEF all
<1>5. Len(all) + ParamsBefore(t, i) <= MaxParams
  <2>1. MaxParams \in Nat
    BY RoutingAssumption
  <2>2. Len(ps) + (ParamsBefore(t, i) + 1) <= MaxParams
    BY <1>1, <1>2
  <2>3. QED
    BY <1>1, <1>3, <1>4, <2>1, <2>2
<1>6. Bounded(t, i, [ok |-> rest.ok, params |-> all])
  BY <1>2, <1>4, <1>5 DEF Bounded
<1>7. QED
  BY <1>6 DEF all, ps

\* A parameter in front of what was delivered.
LEMMA DeliversParam ==
  ASSUME NEW t, AnySeq(t), NEW p, NEW i \in 1 .. Len(t), t[i] \in ParamNames, NEW rest, Delivers(t, p, i + 1, rest)
  PROVE  Delivers(t, p, i, [ok |-> rest.ok, params |-> <<ParamIn(t, p, i)>> \o rest.params])
<1> DEFINE v == ParamIn(t, p, i)
           ps == rest.params
           all == <<v>> \o ps
           P == ParamsOf(t)
           B(q) == ParamsBefore(t, q)
           h == i + 1
<1>1. B(h) = B(i) + 1 /\ B(i) \in Nat /\ Len(t) \in Nat
  <2>1. Len(t) \in Nat /\ i \in 1 .. Len(t) + 1
    BY AnyLength
  <2>2. ParamsBefore(t, i) \in 0 .. Cardinality(ParamsOf(t))
    BY <2>1, ParamCounts
  <2>3. ParamsBefore(t, i + 1) = ParamsBefore(t, i) + 1
    BY ParamCounts
  <2>4. QED
    BY <2>1, <2>2, <2>3
<1>2. Bounded(t, h, rest)
  BY DEF Delivers
<1>3. AnySeq(ps)
  BY <1>2 DEF Bounded
<1>4. Bounded(t, i, [ok |-> rest.ok, params |-> all])
  BY <1>2, BoundedParam
<1>5. rest.ok <=> SegmentsMatch(t, p) /\ Cardinality(P) <= MaxParams
  BY DEF Delivers
<1>6. ASSUME rest.ok
      PROVE  /\ Len(ps) + B(h) = Cardinality(P)
             /\ \A q \in P : q >= h => ps[B(q) + 1 - B(h)] = ParamIn(t, p, q)
  BY <1>6 DEF Delivers
<1>7. AnySeq(<<v>>) /\ Len(<<v>>) = 1 /\ <<v>>[1] = v /\ Len(ps) \in Nat
  BY <1>3, AnyLiteral, AnyLength
<1>8. h = i + 1 /\ i \in Nat
  OBVIOUS
<1>9. \A q \in P : q \in 1 .. Len(t) /\ q \in 1 .. Len(t) + 1
  BY <1>1 DEF ParamsOf
<1> HIDE DEF v, ps, h, P
<1>10. /\ Len(all) = 1 + Len(ps)
       /\ all[1] = v
       /\ \A d \in 1 .. Len(ps) : all[1 + d] = ps[d]
  <2>1. /\ Len(all) = Len(<<v>>) + Len(ps)
        /\ \A d \in 1 .. Len(<<v>>) : all[d] = <<v>>[d]
        /\ \A d \in 1 .. Len(ps) : all[Len(<<v>>) + d] = ps[d]
    BY <1>3, <1>7, AnyConcat
  <2> HIDE DEF all
  <2>2. 1 \in 1 .. Len(<<v>>)
    BY <1>7
  <2>3. QED
    BY <1>7, <2>1, <2>2
<1> HIDE DEF all
<1>11. ASSUME rest.ok PROVE Len(all) + B(i) = Cardinality(P)
  <2>1. Len(ps) + (B(i) + 1) = Cardinality(P)
    BY <1>1, <1>6, <1>11
  <2>2. QED
    BY <1>1, <1>7, <1>10, <2>1
<1>12. ASSUME rest.ok, NEW q \in P, q >= i PROVE all[B(q) + 1 - B(i)] = ParamIn(t, p, q)
  <2>1. CASE q = i
    <3>1. B(q) + 1 - B(i) = 1
      BY <1>1, <2>1
    <3>2. QED
      BY <1>10, <2>1, <3>1 DEF v
  <2>2. CASE q # i
    <3> DEFINE d == B(q) + 1 - B(h)
               g == B(q)
               c == B(i)
    <3>1. q >= h /\ h \in 1 .. Len(t) + 1 /\ q \in 1 .. Len(t) + 1 /\ q \in 1 .. Len(t)
      BY <1>1, <1>8, <1>9, <1>12, <2>2
    <3>2. B(h) <= B(q)
      BY <3>1, ParamCounts
    <3>3. g \in Nat /\ g + 1 <= Cardinality(P) /\ Cardinality(P) \in Nat
      <4>1. t[q] \in ParamNames
        BY <1>12 DEF P, ParamsOf
      <4>2. B(q + 1) = B(q) + 1
        BY <3>1, <4>1, ParamCounts
      <4>3. q + 1 \in 1 .. Len(t) + 1
        BY <1>1, <3>1
      <4>4. B(q + 1) \in 0 .. Cardinality(P)
        BY <4>3, ParamCounts DEF P
      <4>5. B(q) \in 0 .. Cardinality(P)
        BY <3>1, ParamCounts DEF P
      <4>6. Cardinality(P) \in Nat
        BY ParamCounts DEF P
      <4>7. QED
        BY <4>2, <4>4, <4>5, <4>6
    <3>4. Len(ps) + B(h) = Cardinality(P)
      BY <1>6, <1>12
    <3>5. d \in 1 .. Len(ps) /\ 1 + d = B(q) + 1 - B(i)
      <4>1. B(h) = c + 1 /\ c \in Nat
        BY <1>1
      <4>2. c + 1 <= g /\ Len(ps) + (c + 1) = Cardinality(P) /\ d = g + 1 - (c + 1)
        BY <3>2, <3>4, <4>1
      <4> HIDE DEF d, g, c
      <4>3. d \in 1 .. Len(ps) /\ 1 + d = g + 1 - c
        BY <1>7, <3>3, <4>1, <4>2
      <4>4. QED
        BY <4>3 DEF d, g, c
    <3>6. ps[d] = ParamIn(t, p, q)
      BY <1>6, <1>12, <3>1
    <3> HIDE DEF d
    <3>7. all[1 + d] = ps[d]
      BY <1>10, <3>5
    <3>8. QED
      BY <3>5, <3>6, <3>7
  <2>3. QED
    BY <2>1, <2>2
<1>13. Delivers(t, p, i, [ok |-> rest.ok, params |-> all])
  BY <1>4, <1>5, <1>11, <1>12 DEF Delivers, P
<1>14. QED
  BY <1>13 DEF all, v, ps

LEMMA DeliversSame ==
  ASSUME NEW t, AnySeq(t), NEW p, NEW i \in 1 .. Len(t), t[i] \notin ParamNames, NEW m, Delivers(t, p, i + 1, m)
  PROVE  Delivers(t, p, i, m)
<1> DEFINE h == i + 1
<1>1. ParamsBefore(t, h) = ParamsBefore(t, i)
  BY ParamCounts
<1>2. Bounded(t, i, m)
  BY BoundedSame DEF Delivers
<1>3. \A q \in ParamsOf(t) : q >= i => q >= h
  <2>1. ASSUME NEW q \in ParamsOf(t), q >= i PROVE q >= h
    <3>1. q \in 1 .. Len(t) /\ q # i /\ Len(t) \in Nat
      BY AnyLength DEF ParamsOf
    <3>2. QED
      BY <2>1, <3>1
  <2>2. QED
    BY <2>1
<1>4. Delivers(t, p, h, m)
  OBVIOUS
<1> HIDE DEF h
<1>5. QED
  BY <1>1, <1>2, <1>3, <1>4 DEF Delivers

LEMMA BoundedStep ==
  ASSUME NEW t, AnySeq(t), NEW p, AnySeq(p), NEW i \in 1 .. Len(t) + 1, NEW j \in 1 .. Len(p) + 1,
         ParamsBefore(t, i) <= MaxParams,
         i <= Len(t) /\ ParamsBefore(t, i + 1) <= MaxParams =>
           \A k \in 1 .. Len(p) + 1 : Bounded(t, i + 1, Matching(t, p)[i + 1][k])
  PROVE  Bounded(t, i, Matching(t, p)[i][j])
<1> DEFINE F == Matching(t, p)
           empty(ok) == [ok |-> ok, params |-> <<>>]
<1>1. Len(t) \in Nat /\ Len(p) \in Nat
  BY AnyLength
<1>2. F[i][j] = Entry(F, t, p, i, j)
  BY MatchingEquation
<1>3. ParamsBefore(t, i) \in Nat
  <2>1. ParamsBefore(t, i) \in 0 .. Cardinality(ParamsOf(t))
    BY ParamCounts
  <2>2. QED
    BY <2>1
<1>4. ASSUME NEW ok \in BOOLEAN PROVE Bounded(t, i, empty(ok))
  <2>1. AnySeq(<<>>) /\ Len(<<>>) = 0
    BY AnyLiteral
  <2>2. Len(<<>>) + ParamsBefore(t, i) <= MaxParams
    BY <1>3, <2>1
  <2>3. QED
    BY <2>1, <2>2 DEF Bounded
<1>5. i <= Len(t) /\ ParamsBefore(t, i + 1) <= MaxParams =>
        \A k \in 1 .. Len(p) + 1 : Bounded(t, i + 1, F[i + 1][k])
  OBVIOUS
<1> HIDE DEF F
<1>6. CASE i > Len(t) \/ j > Len(p)
  <2>1. F[i][j] = empty(RouteEnds(t, i, p, j))
    BY <1>2, <1>6 DEF Entry
  <2>2. RouteEnds(t, i, p, j) \in BOOLEAN
    BY DEF RouteEnds
  <2> HIDE DEF empty
  <2>3. Bounded(t, i, F[i][j])
    BY <1>4, <2>1, <2>2
  <2>4. QED
    BY <2>3 DEF F
<1>7. CASE ~(i > Len(t) \/ j > Len(p))
  <2>1. i \in 1 .. Len(t) /\ j \in 1 .. Len(p)
    BY <1>1, <1>7
  <2>2. CASE t[i] \in ParamNames
    <3>1. ParamsBefore(t, i + 1) = ParamsBefore(t, i) + 1
      BY <2>1, <2>2, ParamCounts
    <3>2. CASE ParamsBefore(t, i) >= MaxParams
      <4>1. F[i][j] = empty(FALSE)
        BY <1>2, <1>7, <2>2, <3>2 DEF Entry
      <4> HIDE DEF empty
      <4>2. Bounded(t, i, F[i][j])
        BY <1>4, <4>1
      <4>3. QED
        BY <4>2 DEF F
    <3>3. CASE ~(ParamsBefore(t, i) >= MaxParams)
      <4> DEFINE rest == F[i + 1][j + ValueLen(p, j)]
                 v == [name |-> t[i], value |-> SubSeq(p, j, j + ValueLen(p, j) - 1)]
      <4>1. F[i][j] = [ok |-> rest.ok, params |-> <<v>> \o rest.params]
        BY <1>2, <1>7, <2>2, <3>3, Zenon DEF Entry
      <4>2. ParamsBefore(t, i + 1) <= MaxParams
        <5>1. MaxParams \in Nat
          BY RoutingAssumption
        <5>2. QED
          BY <1>3, <3>1, <3>3, <5>1
      <4>3. Bounded(t, i + 1, rest)
        <5>1. j + ValueLen(p, j) \in 1 .. Len(p) + 1
          BY <2>1, ValueEnds
        <5>2. i <= Len(t)
          BY <1>1, <2>1
        <5>3. QED
          BY <1>5, <4>2, <5>1, <5>2
      <4> HIDE DEF v, rest
      <4>4. Bounded(t, i, F[i][j])
        BY <2>1, <2>2, <4>1, <4>3, BoundedParam
      <4>5. QED
        BY <4>4 DEF F
    <3>4. QED
      BY <3>2, <3>3
  <2>3. CASE t[i] \notin ParamNames /\ t[i] = p[j]
    <3>1. F[i][j] = F[i + 1][j + 1]
      BY <1>2, <1>7, <2>3 DEF Entry
    <3>2. ParamsBefore(t, i + 1) = ParamsBefore(t, i)
      BY <2>1, <2>3, ParamCounts
    <3>3. Bounded(t, i + 1, F[i + 1][j + 1])
      <4>1. i <= Len(t) /\ j + 1 \in 1 .. Len(p) + 1
        BY <1>1, <2>1
      <4>2. ParamsBefore(t, i + 1) <= MaxParams
        BY <3>2
      <4>3. QED
        BY <1>5, <4>1, <4>2
    <3>4. Bounded(t, i, F[i + 1][j + 1])
      BY <2>1, <2>3, <3>3, BoundedSame
    <3>5. QED
      BY <3>1, <3>4 DEF F
  <2>4. CASE t[i] \notin ParamNames /\ t[i] # p[j]
    <3>1. F[i][j] = empty(FALSE)
      BY <1>2, <1>7, <2>4 DEF Entry
    <3> HIDE DEF empty
    <3>2. Bounded(t, i, F[i][j])
      BY <1>4, <3>1
    <3>3. QED
      BY <3>2 DEF F
  <2>5. QED
    BY <2>2, <2>3, <2>4
<1>8. QED
  BY <1>6, <1>7

LEMMA MatchingBounded ==
  ASSUME NEW t, AnySeq(t), NEW p, AnySeq(p)
  PROVE  \A i \in 1 .. Len(t) + 1, j \in 1 .. Len(p) + 1 :
           ParamsBefore(t, i) <= MaxParams => Bounded(t, i, Matching(t, p)[i][j])
<1> DEFINE N == Len(t) + 1
           M == Len(p) + 1
           F == Matching(t, p)
           Good(i) == ParamsBefore(t, i) <= MaxParams => \A j \in 1 .. M : Bounded(t, i, F[i][j])
           bad == {i \in 1 .. N : ~Good(i)}
<1>1. N \in Nat /\ Len(t) \in Nat
  BY AnyLength
<1>2. CASE bad # {}
  <2>1. PICK i \in bad : \A l \in bad : l <= i
    <3>1. bad \in SUBSET (1 .. N)
      OBVIOUS
    <3> HIDE DEF bad, N
    <3>2. QED
      BY <1>1, <1>2, <3>1, Greatest
  <2>2. i \in 1 .. N /\ ~Good(i)
    BY <2>1
  <2>3. ASSUME i <= Len(t) PROVE Good(i + 1)
    <3>1. i + 1 \in 1 .. N /\ ~(i + 1 <= i)
      BY <1>1, <2>2, <2>3
    <3>2. i + 1 \notin bad
      <4> HIDE DEF bad
      <4>1. QED
        BY <2>1, <3>1
    <3> HIDE DEF Good
    <3>3. QED
      BY <3>1, <3>2
  <2>4. ASSUME ParamsBefore(t, i) <= MaxParams, NEW j \in 1 .. M PROVE Bounded(t, i, F[i][j])
    <3>1. i \in 1 .. Len(t) + 1 /\ j \in 1 .. Len(p) + 1
      BY <2>2
    <3>2. i <= Len(t) /\ ParamsBefore(t, i + 1) <= MaxParams =>
            \A k \in 1 .. Len(p) + 1 : Bounded(t, i + 1, Matching(t, p)[i + 1][k])
      BY <2>3
    <3> HIDE DEF bad, Good
    <3>3. QED
      BY <2>4, <3>1, <3>2, BoundedStep
  <2>5. QED
    BY <2>2, <2>4
<1>3. CASE bad = {}
  BY <1>3
<1>4. QED
  BY <1>2, <1>3

LEMMA DeliversStep ==
  ASSUME NEW t, AnySeq(t), WellFormed(t), NEW p, AnySeq(p), NEW i, NEW j, Reached(t, p, i, j),
         ParamsBefore(t, i) <= MaxParams,
         i <= Len(t) /\ ParamsBefore(t, i + 1) <= MaxParams =>
           \A l \in 1 .. Len(p) + 1 : Reached(t, p, i + 1, l) => Delivers(t, p, i + 1, Matching(t, p)[i + 1][l])
  PROVE  Delivers(t, p, i, Matching(t, p)[i][j])
<1> DEFINE F == Matching(t, p)
           m == F[i][j]
           empty(ok) == [ok |-> ok, params |-> <<>>]
<1>1. PICK k, a, e, b, f : ReachedIn(t, p, i, j, k, a, e, b, f)
  BY DEF Reached
<1>2. /\ i \in Nat /\ j \in Nat /\ Len(t) \in Nat /\ Len(p) \in Nat /\ f \in Nat /\ j <= f /\ f <= Len(p) + 1
      /\ i \in 1 .. Len(t) + 1 /\ j \in 1 .. Len(p) + 1
  BY <1>1, ReachedFacts
<1>3. F[i][j] = Entry(F, t, p, i, j)
  BY <1>2, MatchingEquation
<1>4. Bounded(t, i, m)
  BY <1>2, MatchingBounded
<1>5. ParamsBefore(t, i) \in Nat /\ MaxParams \in Nat /\ Cardinality(ParamsOf(t)) \in Nat
  <2>1. ParamsBefore(t, i) \in 0 .. Cardinality(ParamsOf(t))
    BY <1>2, ParamCounts
  <2>2. QED
    BY <2>1, ParamCounts, RoutingAssumption
<1>6. i <= Len(t) /\ ParamsBefore(t, i + 1) <= MaxParams =>
        \A l \in 1 .. Len(p) + 1 : Reached(t, p, i + 1, l) => Delivers(t, p, i + 1, F[i + 1][l])
  OBVIOUS
<1> HIDE DEF F
<1>7. ASSUME m = empty(FALSE), ~(SegmentsMatch(t, p) /\ Cardinality(ParamsOf(t)) <= MaxParams)
      PROVE  Delivers(t, p, i, m)
  <2>1. m.ok = FALSE
    BY <1>7
  <2> HIDE DEF m
  <2>2. QED
    BY <1>4, <1>7, <2>1 DEF Delivers
<1>8. CASE i > Len(t) \/ j > Len(p)
  <2>1. m = empty(RouteEnds(t, i, p, j))
    BY <1>3, <1>8 DEF Entry
  <2>2. CASE i = Len(t) + 1 /\ j = Len(p) + 1
    <3>1. SegmentsMatch(t, p)
      BY <2>2, ReachedEnd
    <3>2. ParamsBefore(t, i) = Cardinality(ParamsOf(t))
      BY <2>2, ParamCounts
    <3>3. RouteEnds(t, i, p, j) = TRUE
      BY <1>2, <2>2 DEF RouteEnds
    <3>4. m.ok = TRUE /\ m.params = <<>>
      BY <2>1, <3>3
    <3>5. Len(m.params) = 0
      BY <3>4
    <3>6. \A q \in ParamsOf(t) : ~(q >= i)
      BY <1>2, <2>2 DEF ParamsOf
    <3>7. Len(m.params) + ParamsBefore(t, i) = Cardinality(ParamsOf(t))
      BY <1>5, <3>2, <3>5
    <3>8. Cardinality(ParamsOf(t)) <= MaxParams
      BY <3>2
    <3> HIDE DEF m
    <3>9. Delivers(t, p, i, m)
      BY <1>4, <3>1, <3>4, <3>6, <3>7, <3>8 DEF Delivers
    <3>10. QED
      BY <3>9 DEF m, F
  <2>3. CASE ~(i = Len(t) + 1 /\ j = Len(p) + 1)
    <3>1. RouteEnds(t, i, p, j) = FALSE
      BY <1>2, <2>3 DEF RouteEnds
    <3>2. \/ i = Len(t) + 1 /\ j <= Len(p)
          \/ i <= Len(t) /\ j = Len(p) + 1
      BY <1>2, <1>8, <2>3
    <3>3. ~SegmentsMatch(t, p)
      BY <3>2, ReachedFails
    <3>4. m = empty(FALSE)
      BY <2>1, <3>1
    <3> HIDE DEF m, empty
    <3>5. Delivers(t, p, i, m)
      BY <1>7, <3>3, <3>4
    <3>6. QED
      BY <3>5 DEF m, F
  <2>4. QED
    BY <2>2, <2>3
<1>9. CASE ~(i > Len(t) \/ j > Len(p))
  <2>1. i <= Len(t) /\ j <= Len(p) /\ i \in 1 .. Len(t) /\ j \in 1 .. Len(p)
    BY <1>2, <1>9
  <2>2. CASE t[i] \in ParamNames
    <3>1. ParamsBefore(t, i + 1) = ParamsBefore(t, i) + 1
      BY <2>1, <2>2, ParamCounts
    <3>2. CASE ParamsBefore(t, i) >= MaxParams
      <4>1. m = empty(FALSE)
        BY <1>3, <1>9, <2>2, <3>2 DEF Entry
      <4>2. ~(Cardinality(ParamsOf(t)) <= MaxParams)
        <5> DEFINE h == i + 1
        <5>1. h \in 1 .. Len(t) + 1
          BY <1>2, <2>1
        <5>3. ParamsBefore(t, h) = ParamsBefore(t, i) + 1
          BY <3>1
        <5> HIDE DEF h
        <5>2. ParamsBefore(t, h) \in 0 .. Cardinality(ParamsOf(t))
          BY <5>1, ParamCounts
        <5>4. QED
          BY <1>5, <3>2, <5>2, <5>3
      <4> HIDE DEF m, empty
      <4>3. Delivers(t, p, i, m)
        BY <1>7, <4>1, <4>2
      <4>4. QED
        BY <4>3 DEF m, F
    <3>3. CASE ~(ParamsBefore(t, i) >= MaxParams)
      <4> DEFINE rest == F[i + 1][j + ValueLen(p, j)]
                 v == [name |-> t[i], value |-> SubSeq(p, j, j + ValueLen(p, j) - 1)]
      <4>1. m = [ok |-> rest.ok, params |-> <<v>> \o rest.params]
        BY <1>3, <1>9, <2>2, <3>3, Zenon DEF Entry
      <4>2. CASE f - j >= MaxValue
        <5>1. ~SegmentsMatch(t, p)
          BY <1>1, <2>1, <2>2, <4>2, LongValue
        <5>2. rest = [ok |-> FALSE, params |-> <<>>]
          BY <1>1, <2>1, <2>2, <4>2, LongValue DEF F
        <5>3. m.ok = FALSE
          BY <4>1, <5>2
        <5> HIDE DEF m
        <5>4. Delivers(t, p, i, m)
          BY <1>4, <5>1, <5>3 DEF Delivers
        <5>5. QED
          BY <5>4 DEF m, F
      <4>3. CASE ~(f - j >= MaxValue)
        <5>1. Reached(t, p, e, f)
          BY <1>1, <2>1, <2>2, <4>3, ReachedParam
        <5>2. e = i + 1 /\ k = SlashesUpTo(t, i) /\ ValueLen(p, j) = f - j
          BY <1>1, <2>1, <2>2, <4>3, AtParam
        <5>3. ValueOf(Segment(t, k), Segment(p, k)) = SubSeq(p, j, f - 1)
          BY <1>1, <2>1, <2>2, AtParam
        <5>4. j + ValueLen(p, j) = f
          BY <1>2, <5>2
        <5>5. v = ParamIn(t, p, i)
          <6> DEFINE s == SubSeq(p, j, f - 1)
          <6>1. v = [name |-> t[i], value |-> s]
            <7> DEFINE g == j + ValueLen(p, j) - 1
            <7>1. v = [name |-> t[i], value |-> SubSeq(p, j, g)]
              BY Zenon
            <7>2. g = f - 1
              BY <1>2, <5>2
            <7> HIDE DEF g, v
            <7>3. QED
              BY <7>1, <7>2, Zenon
          <6>2. ParamIn(t, p, i) = [name |-> t[i], value |-> ValueOf(Segment(t, k), Segment(p, k))]
            BY <5>2, Zenon DEF ParamIn
          <6> HIDE DEF v, s
          <6>3. ValueOf(Segment(t, k), Segment(p, k)) = s
            BY <5>3 DEF s
          <6>4. QED
            BY <6>1, <6>2, <6>3, Zenon
        <5>6. Delivers(t, p, i + 1, rest)
          <6>1. f \in 1 .. Len(p) + 1
            BY <1>2
          <6>2. ParamsBefore(t, i + 1) <= MaxParams
            BY <1>5, <3>1, <3>3
          <6>3. Reached(t, p, i + 1, f)
            BY <5>1, <5>2
          <6>4. QED
            BY <1>6, <2>1, <5>4, <6>1, <6>2, <6>3
        <5> HIDE DEF m, rest, v
        <5>7. Delivers(t, p, i, m)
          BY <2>1, <2>2, <4>1, <5>5, <5>6, DeliversParam
        <5>8. QED
          BY <5>7 DEF m, F
      <4>4. QED
        BY <4>2, <4>3
    <3>4. QED
      BY <3>2, <3>3
  <2>3. CASE t[i] \notin ParamNames /\ t[i] = p[j]
    <3>1. m = F[i + 1][j + 1]
      BY <1>3, <1>9, <2>3 DEF Entry
    <3>2. Reached(t, p, i + 1, j + 1)
      BY <2>1, <2>3, ReachedSame
    <3>3. ParamsBefore(t, i + 1) = ParamsBefore(t, i)
      BY <2>1, <2>3, ParamCounts
    <3>4. Delivers(t, p, i + 1, F[i + 1][j + 1])
      <4>1. j + 1 \in 1 .. Len(p) + 1
        BY <1>2, <2>1
      <4>2. ParamsBefore(t, i + 1) <= MaxParams
        BY <3>3
      <4>3. QED
        BY <1>6, <2>1, <3>2, <4>1, <4>2
    <3>5. Delivers(t, p, i + 1, m)
      BY <3>1, <3>4
    <3> HIDE DEF m
    <3>6. Delivers(t, p, i, m)
      BY <2>1, <2>3, <3>5, DeliversSame
    <3>7. QED
      BY <3>6 DEF m, F
  <2>4. CASE t[i] \notin ParamNames /\ t[i] # p[j]
    <3>1. m = empty(FALSE)
      BY <1>3, <1>9, <2>4 DEF Entry
    <3>2. ~SegmentsMatch(t, p)
      BY <2>1, <2>4, ReachedFails
    <3> HIDE DEF m, empty
    <3>3. Delivers(t, p, i, m)
      BY <1>7, <3>1, <3>2
    <3>4. QED
      BY <3>3 DEF m, F
  <2>5. QED
    BY <2>2, <2>3, <2>4
<1>10. QED
  BY <1>8, <1>9

LEMMA MatchingDelivers ==
  ASSUME NEW t, AnySeq(t), WellFormed(t), NEW p, AnySeq(p)
  PROVE  Delivers(t, p, 1, Matching(t, p)[1][1])
<1> DEFINE N == Len(t) + 1
           F == Matching(t, p)
           Good(i) == ParamsBefore(t, i) <= MaxParams =>
                        \A j \in 1 .. Len(p) + 1 : Reached(t, p, i, j) => Delivers(t, p, i, F[i][j])
           bad == {i \in 1 .. N : ~Good(i)}
<1>1. N \in Nat /\ Len(t) \in Nat /\ Len(p) \in Nat
  BY AnyLength
<1>2. CASE bad # {}
  <2>1. PICK i \in bad : \A l \in bad : l <= i
    <3>1. bad \in SUBSET (1 .. N)
      OBVIOUS
    <3> HIDE DEF bad, N
    <3>2. QED
      BY <1>1, <1>2, <3>1, Greatest
  <2>2. i \in 1 .. N /\ ~Good(i)
    BY <2>1
  <2>3. ASSUME i <= Len(t) PROVE Good(i + 1)
    <3>1. i + 1 \in 1 .. N /\ ~(i + 1 <= i)
      BY <1>1, <2>2, <2>3
    <3>2. i + 1 \notin bad
      <4> HIDE DEF bad
      <4>1. QED
        BY <2>1, <3>1
    <3> HIDE DEF Good
    <3>3. QED
      BY <3>1, <3>2
  <2>4. ASSUME ParamsBefore(t, i) <= MaxParams, NEW j \in 1 .. Len(p) + 1, Reached(t, p, i, j)
        PROVE  Delivers(t, p, i, F[i][j])
    <3>1. i <= Len(t) /\ ParamsBefore(t, i + 1) <= MaxParams =>
            \A l \in 1 .. Len(p) + 1 : Reached(t, p, i + 1, l) => Delivers(t, p, i + 1, Matching(t, p)[i + 1][l])
      BY <2>3
    <3> HIDE DEF bad, Good
    <3>2. QED
      BY <2>4, <3>1, DeliversStep
  <2>5. QED
    BY <2>2, <2>4
<1>3. CASE bad = {}
  <2>1. 1 \in 1 .. N /\ 1 \in 1 .. Len(p) + 1
    BY <1>1
  <2>2. Good(1)
    <3> HIDE DEF Good, N
    <3>1. QED
      BY <1>3, <2>1
  <2>3. ParamsBefore(t, 1) <= MaxParams
    <3>1. ParamsBefore(t, 1) = 0 /\ MaxParams \in Nat
      BY ParamCounts, RoutingAssumption
    <3>2. QED
      BY <3>1
  <2>4. Reached(t, p, 1, 1)
    BY ReachedStart
  <2>5. QED
    BY <2>1, <2>2, <2>3, <2>4
<1>4. QED
  BY <1>2, <1>3

\* What match_route makes of a template and a path, from the start.
LEMMA MatchRouteBounded ==
  ASSUME NEW t, AnySeq(t), NEW p, AnySeq(p)
  PROVE  /\ MatchRoute(t, p).ok \in BOOLEAN /\ AnySeq(MatchRoute(t, p).params)
         /\ Len(MatchRoute(t, p).params) \in 0 .. MaxParams
<1> DEFINE m == MatchRoute(t, p)
<1>1. Len(t) \in Nat /\ Len(p) \in Nat /\ 1 \in 1 .. Len(t) + 1 /\ 1 \in 1 .. Len(p) + 1
  BY AnyLength
<1>2. ParamsBefore(t, 1) = 0 /\ MaxParams \in Nat
  BY ParamCounts, RoutingAssumption
<1>3. ParamsBefore(t, 1) <= MaxParams
  BY <1>2
<1>4. Bounded(t, 1, Matching(t, p)[1][1])
  BY <1>1, <1>3, MatchingBounded
<1>5. m = Matching(t, p)[1][1]
  BY MatchingIsMatchRoute
<1> HIDE DEF m
<1>6. m.ok \in BOOLEAN /\ AnySeq(m.params) /\ Len(m.params) + ParamsBefore(t, 1) <= MaxParams
  BY <1>4, <1>5 DEF Bounded
<1>7. Len(m.params) \in Nat
  BY <1>6, AnyLength
<1>8. Len(m.params) \in 0 .. MaxParams
  BY <1>2, <1>6, <1>7
<1>9. QED
  BY <1>6, <1>8 DEF m

LEMMA MatchRouteRight ==
  ASSUME NEW t, AnySeq(t), WellFormed(t), NEW p, AnySeq(p)
  PROVE  /\ MatchRoute(t, p).ok <=> Matches(t, p)
         /\ MatchRoute(t, p).ok =>
              /\ Len(MatchRoute(t, p).params) = Cardinality(ParamsOf(t))
              /\ \A q \in ParamsOf(t) : MatchRoute(t, p).params[Place(ParamsOf(t), q)] = ParamIn(t, p, q)
<1> DEFINE m == MatchRoute(t, p)
<1>1. m = Matching(t, p)[1][1]
  BY MatchingIsMatchRoute
<1>2. Delivers(t, p, 1, Matching(t, p)[1][1])
  BY MatchingDelivers
<1> HIDE DEF m
<1>3. Delivers(t, p, 1, m)
  BY <1>1, <1>2
<1>4. m.ok <=> SegmentsMatch(t, p) /\ Cardinality(ParamsOf(t)) <= MaxParams
  BY <1>3 DEF Delivers
<1>5. Matches(t, p) <=> SegmentsMatch(t, p) /\ Cardinality(ParamsOf(t)) <= MaxParams
  BY Zenon DEF Matches, SegmentsMatch, ParamsOf
<1>6. ParamsBefore(t, 1) = 0
  BY ParamCounts
<1>7. AnySeq(m.params) /\ Len(m.params) \in Nat
  BY <1>3, AnyLength DEF Delivers, Bounded
<1>8. ASSUME m.ok
      PROVE  /\ Len(m.params) = Cardinality(ParamsOf(t))
             /\ \A q \in ParamsOf(t) : m.params[Place(ParamsOf(t), q)] = ParamIn(t, p, q)
  <2>1. /\ Len(m.params) + ParamsBefore(t, 1) = Cardinality(ParamsOf(t))
        /\ \A q \in ParamsOf(t) :
             q >= 1 => m.params[ParamsBefore(t, q) + 1 - ParamsBefore(t, 1)] = ParamIn(t, p, q)
    BY <1>3, <1>8 DEF Delivers
  <2>2. Len(m.params) = Cardinality(ParamsOf(t))
    BY <1>6, <1>7, <2>1
  <2>3. ASSUME NEW q \in ParamsOf(t) PROVE m.params[Place(ParamsOf(t), q)] = ParamIn(t, p, q)
    <3>1. q \in 1 .. Len(t) /\ t[q] \in ParamNames /\ Len(t) \in Nat /\ q >= 1
      BY AnyLength DEF ParamsOf
    <3> DEFINE h == q + 1
               b == ParamsBefore(t, q)
    <3>2. h \in 1 .. Len(t) + 1 /\ h - 1 = q /\ q \in 1 .. Len(t) + 1
      BY <3>1
    <3>3. ParamsBefore(t, h) = b + 1
      BY <3>1, ParamCounts
    <3>4. b \in Nat
      <4>1. ParamsBefore(t, q) \in 0 .. Cardinality(ParamsOf(t))
        BY <3>2, ParamCounts
      <4>2. QED
        BY <4>1
    <3>5. m.params[b + 1 - ParamsBefore(t, 1)] = ParamIn(t, p, q)
      BY <2>1, <3>1
    <3> HIDE DEF h, b
    <3>6. ParamsBefore(t, h) = Place(ParamsOf(t), h - 1)
      BY <3>2, ParamCounts
    <3>7. b + 1 - ParamsBefore(t, 1) = Place(ParamsOf(t), q)
      BY <1>6, <3>2, <3>3, <3>4, <3>6
    <3>8. QED
      BY <3>5, <3>7
  <2>4. QED
    BY <2>2, <2>3
<1>9. QED
  BY <1>4, <1>5, <1>8 DEF m

-----------------------------------------------------------------------------
(***************************************************************************)
(* A well formed template has its parameters in segments of their own      *)
(***************************************************************************)

LEMMA SegmentOfParam ==
  ASSUME NEW t, AnySeq(t), WellFormed(t), NEW q \in ParamsOf(t), NEW a, NEW e, SegAt(t, SlashesUpTo(t, q), a, e)
  PROVE  /\ e = q + 1 /\ HasParam(Segment(t, SlashesUpTo(t, q)))
         /\ Segment(t, SlashesUpTo(t, q))[Len(Segment(t, SlashesUpTo(t, q)))] = t[q]
<1> DEFINE k == SlashesUpTo(t, q)
           seg == Segment(t, k)
<1>1. Len(t) \in Nat /\ q \in 1 .. Len(t) /\ t[q] \in ParamNames /\ t[q] # "/"
  BY AnyLength, RoutingAssumption DEF ParamsOf
<1>2. /\ a \in 1 .. Len(t) + 1 /\ e \in a .. Len(t) + 1
      /\ \A i \in 1 .. Len(t) + 1 : SlashesUpTo(t, i - 1) = k <=> i \in a .. e
      /\ AnySeq(seg) /\ Len(seg) = e - a
      /\ \A d \in 1 .. e - a : seg[d] = t[a + d - 1]
  BY DEF SegAt
<1>3. SlashesUpTo(t, q - 1) = k
  BY <1>1, SlashCounts
<1>4. q \in a .. e
  <2>1. q \in 1 .. Len(t) + 1
    BY <1>1
  <2>2. QED
    BY <1>2, <1>3, <2>1
<1>5. q + 1 \in a .. e
  <2> DEFINE h == q + 1
  <2>1. h \in 1 .. Len(t) + 1 /\ h - 1 = q
    BY <1>1
  <2> HIDE DEF h
  <2>2. SlashesUpTo(t, h - 1) = k
    BY <2>1
  <2>3. h \in a .. e
    BY <1>2, <2>1, <2>2
  <2>4. QED
    BY <2>3 DEF h
<1>6. q \in a .. e - 1
  BY <1>1, <1>2, <1>4, <1>5
<1>7. e = q + 1
  <2>1. SegAt(t, k, a, e)
    OBVIOUS
  <2> HIDE DEF k
  <2>2. QED
    BY <1>1, <1>6, <2>1, ParamEndsSegment
<1> HIDE DEF k, seg
<1>8. e - a \in 1 .. e - a /\ a + (e - a) - 1 = q /\ e - a # 0
  BY <1>1, <1>2, <1>6, <1>7
<1>9. seg[Len(seg)] = t[q]
  BY <1>2, <1>8
<1>10. seg # <<>>
  BY <1>2, <1>8
<1>11. QED
  BY <1>1, <1>7, <1>9, <1>10 DEF HasParam, seg, k

LEMMA ParamsHaveSegments ==
  ASSUME NEW t, AnySeq(t), WellFormed(t), NEW q \in ParamsOf(t)
  PROVE  /\ SlashesUpTo(t, q) \in ParamSegments(t)
         /\ Segment(t, SlashesUpTo(t, q))[Len(Segment(t, SlashesUpTo(t, q)))] = t[q]
<1> DEFINE k == SlashesUpTo(t, q)
<1>1. Len(t) \in Nat /\ q \in 0 .. Len(t)
  BY AnyLength DEF ParamsOf
<1>2. k \in 0 .. LastSegment(t)
  BY <1>1, SlashCounts
<1>3. PICK a, e : SegAt(t, k, a, e)
  BY <1>2, SegmentStands
<1>4. HasParam(Segment(t, k)) /\ Segment(t, k)[Len(Segment(t, k))] = t[q]
  BY <1>3, SegmentOfParam
<1>5. QED
  BY <1>2, <1>4 DEF ParamSegments

LEMMA SegmentsHaveParams ==
  ASSUME NEW t, AnySeq(t), WellFormed(t), NEW k \in ParamSegments(t)
  PROVE  \E q \in ParamsOf(t) : SlashesUpTo(t, q) = k
<1> DEFINE seg == Segment(t, k)
<1>1. k \in 0 .. LastSegment(t) /\ seg # <<>> /\ seg[Len(seg)] \in ParamNames
  BY DEF ParamSegments, HasParam
<1>2. PICK a, e : SegAt(t, k, a, e)
  BY <1>1, SegmentStands
<1>3. /\ a \in 1 .. Len(t) + 1 /\ e \in a .. Len(t) + 1 /\ Len(t) \in Nat
      /\ \A i \in 1 .. Len(t) + 1 : SlashesUpTo(t, i - 1) = k <=> i \in a .. e
      /\ AnySeq(seg) /\ Len(seg) = e - a
      /\ \A d \in 1 .. e - a : seg[d] = t[a + d - 1]
  BY <1>2, AnyLength DEF SegAt
<1> HIDE DEF seg
<1>4. e - a # 0
  BY <1>1, <1>3, EmptyByLength
<1>5. e - a \in 1 .. e - a /\ a + (e - a) - 1 = e - 1 /\ e - 1 \in 1 .. Len(t) /\ e \in 1 .. Len(t) + 1 /\ e \in a .. e
  BY <1>3, <1>4
<1>6. t[e - 1] \in ParamNames
  BY <1>1, <1>3, <1>5
<1>7. SlashesUpTo(t, e - 1) = k
  BY <1>3, <1>5
<1>8. e - 1 \in ParamsOf(t)
  BY <1>5, <1>6 DEF ParamsOf
<1>9. QED
  BY <1>7, <1>8

LEMMA SegmentsInOrder ==
  ASSUME NEW t, AnySeq(t), WellFormed(t), NEW q \in ParamsOf(t), NEW r \in ParamsOf(t)
  PROVE  q <= r <=> SlashesUpTo(t, q) <= SlashesUpTo(t, r)
<1>1. Len(t) \in Nat /\ q \in 0 .. Len(t) /\ r \in 0 .. Len(t)
  BY AnyLength DEF ParamsOf
<1>2. SlashesUpTo(t, q) \in 0 .. LastSegment(t) /\ SlashesUpTo(t, r) \in 0 .. LastSegment(t) /\ LastSegment(t) \in Nat
  BY <1>1, SlashCounts, SlashesArePlaces
<1>3. CASE q <= r
  BY <1>1, <1>3, SlashCounts
<1>4. CASE ~(q <= r)
  <2>1. SlashesUpTo(t, r) <= SlashesUpTo(t, q)
    BY <1>1, <1>4, SlashCounts
  <2>2. SlashesUpTo(t, r) # SlashesUpTo(t, q)
    <3>1. SUFFICES ASSUME SlashesUpTo(t, r) = SlashesUpTo(t, q) PROVE FALSE
      OBVIOUS
    <3>2. PICK a, e : SegAt(t, SlashesUpTo(t, q), a, e)
      BY <1>2, SegmentStands
    <3>3. e = q + 1
      BY <3>2, SegmentOfParam
    <3>4. e = r + 1
      BY <3>1, <3>2, SegmentOfParam
    <3>5. QED
      BY <1>1, <1>4, <3>3, <3>4
  <2>3. ~(SlashesUpTo(t, q) <= SlashesUpTo(t, r))
    BY <1>2, <2>1, <2>2
  <2>4. QED
    BY <1>4, <2>3
<1>5. QED
  BY <1>3, <1>4

\* Counting parameters is counting the segments that end with one.
LEMMA ParamsAndSegments ==
  ASSUME NEW t, AnySeq(t), WellFormed(t), NEW P \in SUBSET ParamsOf(t), NEW K \in SUBSET ParamSegments(t),
         \A q \in ParamsOf(t) : q \in P <=> SlashesUpTo(t, q) \in K
  PROVE  Cardinality(P) = Cardinality(K)
<1> DEFINE f == [q \in P |-> SlashesUpTo(t, q)]
<1>1. IsFiniteSet(P)
  BY ParamCounts, FS_Subset
<1>2. f \in [P -> K]
  OBVIOUS
<1>3. ASSUME NEW q \in P, NEW r \in P, f[q] = f[r] PROVE q = r
  <2>1. SlashesUpTo(t, q) = SlashesUpTo(t, r) /\ q \in ParamsOf(t) /\ r \in ParamsOf(t)
    BY <1>3
  <2>2. q \in Nat /\ r \in Nat
    BY <2>1 DEF ParamsOf
  <2>3. q <= r <=> SlashesUpTo(t, q) <= SlashesUpTo(t, r)
    BY <2>1, SegmentsInOrder
  <2>4. r <= q <=> SlashesUpTo(t, r) <= SlashesUpTo(t, q)
    BY <2>1, SegmentsInOrder
  <2>5. SlashesUpTo(t, q) \in Nat
    <3>1. q \in 0 .. Len(t)
      BY <2>1, AnyLength DEF ParamsOf
    <3>2. SlashesUpTo(t, q) \in 0 .. LastSegment(t)
      BY <3>1, SlashCounts
    <3>3. QED
      BY <3>2
  <2>6. QED
    BY <2>1, <2>2, <2>3, <2>4, <2>5
<1>4. ASSUME NEW k \in K PROVE \E q \in P : f[q] = k
  <2>1. PICK q \in ParamsOf(t) : SlashesUpTo(t, q) = k
    BY SegmentsHaveParams
  <2>2. q \in P
    BY <2>1
  <2>3. QED
    BY <2>1, <2>2
<1> HIDE DEF f
<1>5. DOMAIN f = P
  BY <1>2
<1>6. f \in Bijection(P, K)
  BY <1>2, <1>3, <1>4, <1>5 DEF Bijection, Injection, Surjection, IsInjective
<1>7. ExistsBijection(P, K)
  BY <1>6 DEF ExistsBijection
<1>8. QED
  BY <1>1, <1>7, FS_Bijection

\* The parameters of a match, as the property counts them.
LEMMA MatchParams ==
  ASSUME NEW t, AnySeq(t), WellFormed(t), NEW p, AnySeq(p), MatchRoute(t, p).ok
  PROVE  /\ Len(MatchRoute(t, p).params) = Cardinality(ParamSegments(t))
         /\ \A k \in ParamSegments(t) :
              /\ Cardinality({l \in ParamSegments(t) : l <= k}) \in 1 .. Len(MatchRoute(t, p).params)
              /\ MatchRoute(t, p).params[Cardinality({l \in ParamSegments(t) : l <= k})] =
                   [name  |-> Segment(t, k)[Len(Segment(t, k))],
                    value |-> ValueOf(Segment(t, k), Segment(p, k))]
<1> DEFINE m == MatchRoute(t, p)
           P == ParamsOf(t)
           K == ParamSegments(t)
<1>1. /\ Len(m.params) = Cardinality(P)
      /\ \A q \in P : m.params[Place(P, q)] = ParamIn(t, p, q)
  BY MatchRouteRight
<1>2. \A q \in P : SlashesUpTo(t, q) \in K
  BY ParamsHaveSegments
<1>3. Cardinality(P) = Cardinality(K)
  <2>1. P \in SUBSET P /\ K \in SUBSET K /\ \A q \in P : q \in P <=> SlashesUpTo(t, q) \in K
    BY <1>2
  <2>2. QED
    BY <2>1, ParamsAndSegments
<1>4. ASSUME NEW k \in K
      PROVE  /\ Cardinality({l \in K : l <= k}) \in 1 .. Len(m.params)
             /\ m.params[Cardinality({l \in K : l <= k})] =
                  [name  |-> Segment(t, k)[Len(Segment(t, k))],
                   value |-> ValueOf(Segment(t, k), Segment(p, k))]
  <2>1. PICK q \in P : SlashesUpTo(t, q) = k
    BY SegmentsHaveParams
  <2> DEFINE Pq == {x \in P : x <= q}
             Kk == {l \in K : l <= k}
  <2>2. ASSUME NEW x \in P PROVE x \in Pq <=> SlashesUpTo(t, x) \in Kk
    <3>1. x <= q <=> SlashesUpTo(t, x) <= k
      BY <2>1, SegmentsInOrder
    <3>2. SlashesUpTo(t, x) \in K
      BY <1>2
    <3>3. QED
      BY <3>1, <3>2
  <2>3. Pq \in SUBSET P /\ Kk \in SUBSET K
    OBVIOUS
  <2> HIDE DEF Pq, Kk
  <2>4. Cardinality(Pq) = Cardinality(Kk)
    BY <2>2, <2>3, ParamsAndSegments
  <2>5. Cardinality(Kk) = Place(P, q)
    BY <2>4 DEF Place, Pq
  <2>6. Place(P, q) \in 1 .. Cardinality(P)
    <3>1. P \in SUBSET (1 .. Len(t)) /\ Len(t) \in Nat
      BY AnyLength DEF ParamsOf
    <3>2. q \in P /\ q \in Nat
      BY <3>1
    <3> HIDE DEF P
    <3>3. Place(P, q) \in Nat /\ Place(P, q) <= Cardinality(P) /\ Place(P, q) >= 1
      BY <3>1, <3>2, Places
    <3>4. Cardinality(P) \in Nat
      BY <3>1, Places
    <3>5. QED
      BY <3>3, <3>4
  <2>7. ParamIn(t, p, q) = [name  |-> Segment(t, k)[Len(Segment(t, k))],
                            value |-> ValueOf(Segment(t, k), Segment(p, k))]
    <3>1. Segment(t, k)[Len(Segment(t, k))] = t[q]
      BY <2>1, ParamsHaveSegments
    <3>2. ParamIn(t, p, q) = [name |-> t[q], value |-> ValueOf(Segment(t, k), Segment(p, k))]
      BY <2>1, Zenon DEF ParamIn
    <3>3. QED
      BY <3>1, <3>2, Zenon
  <2>8. Cardinality(Kk) \in 1 .. Len(m.params) /\ m.params[Cardinality(Kk)] = ParamIn(t, p, q)
    BY <1>1, <2>5, <2>6
  <2>9. QED
    BY <2>7, <2>8 DEF Kk
<1>5. QED
  BY <1>1, <1>3, <1>4

-----------------------------------------------------------------------------
(***************************************************************************)
(* Registration                                                            *)
(***************************************************************************)

FitsIn(reg) == {i \in 1 .. Len(reg) : Len(reg[i].path) < MaxPath}

\* The table rts has the registered routes that fit, in the order of the calls.
Kept(reg, rts) ==
  /\ Len(rts) = Cardinality(FitsIn(reg))
  /\ \A i \in FitsIn(reg) : rts[Place(FitsIn(reg), i)] = reg[i]

\* What one call of cHTTPX_RegisterRoute does to the history.
LEMMA AppendLast ==
  ASSUME NEW s, AnySeq(s), NEW x
  PROVE  /\ AnySeq(Append(s, x)) /\ Len(s) \in Nat /\ Len(Append(s, x)) = Len(s) + 1
         /\ \A i \in 1 .. Len(s) : Append(s, x)[i] = s[i]
         /\ Append(s, x)[Len(s) + 1] = x
<1>1. PICK S : s \in Seq(S)
  BY DEF AnySeq
<1>2. s \in Seq(S \cup {x}) /\ x \in S \cup {x}
  BY <1>1, SeqMonotonic
<1> HIDE DEF AnySeq
<1>3. /\ Append(s, x) \in Seq(S \cup {x}) /\ Len(Append(s, x)) = Len(s) + 1
      /\ \A i \in 1 .. Len(s) : Append(s, x)[i] = s[i]
      /\ Append(s, x)[Len(s) + 1] = x
  BY <1>2, AppendProperties
<1>4. QED
  BY <1>1, <1>3 DEF AnySeq

\* A place does not move when a position behind it is added.
LEMMA PlaceStays ==
  ASSUME NEW n \in Nat, NEW S \in SUBSET (1 .. n)
  PROVE  /\ \A i \in S : Place(S \cup {n + 1}, i) = Place(S, i)
         /\ Place(S \cup {n + 1}, n + 1) = Cardinality(S) + 1
         /\ Cardinality(S \cup {n + 1}) = Cardinality(S) + 1
<1>1. IsFiniteSet(S) /\ n + 1 \notin S
  BY Places
<1>2. Cardinality(S \cup {n + 1}) = Cardinality(S) + 1
  BY <1>1, FS_AddElement
<1>3. ASSUME NEW i \in S PROVE Place(S \cup {n + 1}, i) = Place(S, i)
  <2>1. {j \in S \cup {n + 1} : j <= i} = {j \in S : j <= i}
    BY <1>3
  <2>2. QED
    BY <2>1, Zenon DEF Place
<1>4. Place(S \cup {n + 1}, n + 1) = Cardinality(S \cup {n + 1})
  <2>1. {j \in S \cup {n + 1} : j <= n + 1} = S \cup {n + 1}
    <3> DEFINE T == S \cup {n + 1}
    <3>1. \A j \in T : j <= n + 1
      OBVIOUS
    <3> HIDE DEF T
    <3>2. {j \in T : j <= n + 1} = T
      BY <3>1, Zenon
    <3>3. QED
      BY <3>2 DEF T
  <2>2. QED
    BY <2>1, Zenon DEF Place
<1>5. QED
  BY <1>2, <1>3, <1>4

LEMMA KeptDropped ==
  ASSUME NEW reg, AnySeq(reg), NEW rts, Kept(reg, rts), NEW r, ~(Len(r.path) < MaxPath)
  PROVE  Kept(Append(reg, r), rts)
<1> DEFINE all == Append(reg, r)
           n == Len(reg)
           h == n + 1
<1>1. Len(reg) \in Nat /\ Len(all) = h /\ (\A i \in 1 .. Len(reg) : all[i] = reg[i]) /\ all[h] = r
  BY AppendLast
<1> HIDE DEF all
<1>2. FitsIn(all) = FitsIn(reg)
  <2>1. ASSUME NEW i PROVE i \in FitsIn(all) <=> i \in FitsIn(reg)
    <3>1. CASE i \in 1 .. n
      <4>1. i \in 1 .. h /\ all[i] = reg[i]
        BY <1>1, <3>1
      <4>2. QED
        BY <1>1, <3>1, <4>1 DEF FitsIn
    <3>2. CASE i = h
      <4>1. i \notin 1 .. n
        BY <1>1, <3>2
      <4> HIDE DEF h
      <4>2. all[i] = r
        BY <1>1, <3>2
      <4>3. QED
        BY <4>1, <4>2 DEF FitsIn
    <3>3. CASE i \notin 1 .. h
      <4>1. i \notin 1 .. n
        BY <1>1, <3>3
      <4> HIDE DEF h
      <4>2. QED
        BY <1>1, <3>3, <4>1 DEF FitsIn
    <3>4. QED
      BY <1>1, <3>1, <3>2, <3>3
  <2>2. QED
    BY <2>1, Zenon
<1>3. \A i \in FitsIn(reg) : all[i] = reg[i]
  BY <1>1 DEF FitsIn
<1>4. Kept(all, rts)
  BY <1>2, <1>3 DEF Kept
<1>5. QED
  BY <1>4 DEF all

LEMMA KeptAppended ==
  ASSUME NEW reg, AnySeq(reg), NEW rts, AnySeq(rts), Kept(reg, rts), NEW r, Len(r.path) < MaxPath
  PROVE  Kept(Append(reg, r), Append(rts, r))
<1> DEFINE all == Append(reg, r)
           table == Append(rts, r)
           n == Len(reg)
           h == n + 1
           S == FitsIn(reg)
           T == S \cup {h}
<1>1. Len(reg) \in Nat /\ Len(all) = h /\ (\A i \in 1 .. Len(reg) : all[i] = reg[i]) /\ all[h] = r
  BY AppendLast
<1>2. /\ Len(rts) \in Nat /\ Len(table) = Len(rts) + 1
      /\ (\A i \in 1 .. Len(rts) : table[i] = rts[i]) /\ table[Len(rts) + 1] = r
  BY AppendLast
<1>3. S \in SUBSET (1 .. n)
  BY DEF FitsIn
<1>4. Len(rts) = Cardinality(S) /\ \A i \in S : rts[Place(S, i)] = reg[i]
  BY DEF Kept
<1> HIDE DEF all, table, S
<1>5. FitsIn(all) = T
  <2>1. ASSUME NEW i PROVE i \in FitsIn(all) <=> i \in T
    <3>1. CASE i \in 1 .. n
      <4>1. i \in 1 .. h /\ all[i] = reg[i] /\ i # h
        BY <1>1, <3>1
      <4>2. QED
        BY <1>1, <3>1, <4>1 DEF FitsIn, S
    <3>2. CASE i = h
      <4>1. i \in 1 .. h
        BY <1>1, <3>2
      <4> HIDE DEF h
      <4>2. all[i] = r
        BY <1>1, <3>2
      <4>3. QED
        BY <1>1, <3>2, <4>1, <4>2 DEF FitsIn
    <3>3. CASE i \notin 1 .. h
      <4>1. i \notin 1 .. n /\ i # h
        BY <1>1, <3>3
      <4> HIDE DEF h
      <4>2. QED
        BY <1>1, <3>3, <4>1 DEF FitsIn, S
    <3>4. QED
      BY <1>1, <3>1, <3>2, <3>3
  <2> HIDE DEF T
  <2>2. QED
    BY <2>1, Zenon
<1>6. /\ \A i \in S : Place(T, i) = Place(S, i)
      /\ Place(T, h) = Cardinality(S) + 1
      /\ Cardinality(T) = Cardinality(S) + 1
  BY <1>1, <1>3, PlaceStays
<1> HIDE DEF T
<1>7. Len(table) = Cardinality(T)
  BY <1>2, <1>4, <1>6
<1>8. ASSUME NEW i \in T PROVE table[Place(T, i)] = all[i]
  <2>1. CASE i \in S
    <3>1. Place(S, i) \in 1 .. Len(rts)
      <4>1. i \in Nat
        BY <1>3, <2>1
      <4>2. Place(S, i) \in Nat /\ Place(S, i) <= Cardinality(S) /\ Place(S, i) >= 1
        BY <1>1, <1>3, <2>1, <4>1, Places
      <4>3. QED
        BY <1>2, <1>4, <4>2
    <3>2. table[Place(S, i)] = reg[i]
      BY <1>2, <1>4, <2>1, <3>1
    <3>3. all[i] = reg[i]
      BY <1>1, <1>3, <2>1
    <3>4. QED
      BY <1>6, <2>1, <3>2, <3>3
  <2>2. CASE i = h
    <3> HIDE DEF h
    <3>1. Place(T, i) = Len(rts) + 1
      BY <1>4, <1>6, <2>2
    <3>2. QED
      BY <1>1, <1>2, <2>2, <3>1
  <2>3. QED
    BY <2>1, <2>2 DEF T
<1>9. Kept(all, table)
  BY <1>5, <1>7, <1>8 DEF Kept
<1>10. QED
  BY <1>9 DEF all, table

-----------------------------------------------------------------------------
(***************************************************************************)
(* The table and the search                                                *)
(***************************************************************************)

\* The routes have the paths they were registered with, and find_route only
\* looks at routes there are.
TableInv ==
  /\ AnySeq(registered) /\ AnySeq(routes) /\ capacity \in Nat
  /\ Kept(registered, routes)
  /\ \A i \in 1 .. Len(routes) : \E pre \in RoutePrefixes, t \in Templates : routes[i].path = pre \o t
  /\ RoutingTypeOK

LEMMA GivenPaths ==
  /\ \A pre \in RoutePrefixes, t \in Templates : AnySeq(pre \o t)
  /\ \A p \in RequestPaths \cup {<<>>} : AnySeq(p)
<1>1. \A s \in RoutePrefixes \cup Templates \cup RequestPaths : AnySeq(s)
  BY RoutingAssumption DEF AnySeq
<1>2. \A p \in RequestPaths \cup {<<>>} : AnySeq(p)
  BY <1>1, AnyLiteral
<1>3. ASSUME NEW pre \in RoutePrefixes, NEW t \in Templates PROVE AnySeq(pre \o t)
  BY <1>1, AnyConcat
<1>4. QED
  BY <1>2, <1>3

LEMMA TableInit == RoutingInit => TableInv
<1> SUFFICES ASSUME RoutingInit PROVE TableInv
  OBVIOUS
<1> USE DEF RoutingInit
<1>1. AnySeq(<<>>) /\ Len(<<>>) = 0
  BY AnyLiteral
<1>2. MaxCalls \in Nat /\ MaxParams \in Nat
  BY RoutingAssumption
<1>3. FitsIn(<<>>) = {}
  BY <1>1 DEF FitsIn
<1>4. Kept(<<>>, <<>>)
  <2>1. Cardinality({}) = 0
    BY FS_EmptySet
  <2>2. QED
    BY <1>1, <1>3, <2>1 DEF Kept
<1>5. RoutingTypeOK
  BY <1>1, <1>2 DEF RoutingTypeOK
<1>6. \A i \in 1 .. Len(routes) : FALSE
  BY <1>1
<1>7. QED
  BY <1>1, <1>4, <1>5, <1>6 DEF TableInv

LEMMA TableRegister ==
  ASSUME TableInv, NEW pre \in RoutePrefixes, NEW m \in Methods, NEW t \in Templates, RegisterRoute(pre, m, t)
  PROVE  TableInv'
<1> DEFINE full == pre \o t
           r == [method |-> m, path |-> full]
<1>1. /\ registered' = Append(registered, r) /\ Len(registered) < MaxCalls
      /\ UNCHANGED <<finding, method, path, next, params, count>>
  BY Zenon DEF RegisterRoute
<1>2. \/ Fits(full) /\ capacity' = Grown /\ routes' = Append(routes, r)
      \/ ~Fits(full) /\ UNCHANGED <<capacity, routes>>
  BY Zenon DEF RegisterRoute
<1>3. r.path = full
  OBVIOUS
<1> HIDE DEF r, full
<1>4. AnySeq(registered') /\ Len(registered) \in Nat /\ Len(registered') = Len(registered) + 1
  BY <1>1, AppendLast DEF TableInv
<1>5. /\ AnySeq(registered) /\ AnySeq(routes) /\ capacity \in Nat /\ Kept(registered, routes) /\ RoutingTypeOK
      /\ Len(routes) \in Nat
  BY AnyLength DEF TableInv
<1>6. /\ Len(routes) <= capacity /\ Len(routes) <= Len(registered)
      /\ next \in 1 .. Len(routes) + 1 /\ MaxCalls \in Nat
  BY <1>5, RoutingAssumption DEF RoutingTypeOK
<1>7. CASE ~Fits(full) /\ UNCHANGED <<capacity, routes>>
  <2>1. Kept(registered', routes')
    BY <1>1, <1>3, <1>5, <1>7, KeptDropped DEF Fits
  <2>2. Len(registered') <= MaxCalls /\ Len(routes) <= Len(registered')
    BY <1>1, <1>4, <1>5, <1>6
  <2>3. RoutingTypeOK'
    BY <1>1, <1>5, <1>7, <2>2 DEF RoutingTypeOK
  <2>4. QED
    BY <1>4, <1>7, <2>1, <2>3 DEF TableInv
<1>8. CASE Fits(full) /\ capacity' = Grown /\ routes' = Append(routes, r)
  <2>1. /\ AnySeq(routes') /\ Len(routes') = Len(routes) + 1
        /\ (\A i \in 1 .. Len(routes) : routes'[i] = routes[i]) /\ routes'[Len(routes) + 1] = r
    BY <1>5, <1>8, AppendLast
  <2>2. Kept(registered', routes')
    BY <1>1, <1>3, <1>5, <1>8, KeptAppended DEF Fits
  <2>3. capacity' \in Nat /\ Len(routes) + 1 <= capacity'
    <3>1. FirstCapacity \in Nat \ {0}
      BY RoutingAssumption
    <3>2. CASE Len(routes) # capacity
      BY <1>5, <1>6, <1>8, <3>2 DEF Grown
    <3>3. CASE Len(routes) = capacity /\ capacity = 0
      <4>1. capacity' = FirstCapacity
        BY <1>8, <3>3 DEF Grown
      <4>2. QED
        BY <1>5, <3>1, <3>3, <4>1
    <3>4. CASE Len(routes) = capacity /\ capacity # 0
      <4>1. capacity' = capacity * 2
        BY <1>8, <3>4 DEF Grown
      <4>2. QED
        BY <1>5, <3>4, <4>1
    <3>5. QED
      BY <3>2, <3>3, <3>4
  <2>4. /\ Len(routes') <= capacity' /\ Len(registered') <= MaxCalls /\ Len(routes') <= Len(registered')
        /\ next \in 1 .. Len(routes') + 1
    BY <1>1, <1>4, <1>5, <1>6, <2>1, <2>3
  <2>5. RoutingTypeOK'
    BY <1>1, <1>5, <2>4 DEF RoutingTypeOK
  <2>6. ASSUME NEW i \in 1 .. Len(routes') PROVE \E a \in RoutePrefixes, b \in Templates : routes'[i].path = a \o b
    <3>1. CASE i \in 1 .. Len(routes)
      <4>1. \E a \in RoutePrefixes, b \in Templates : routes[i].path = a \o b
        BY <3>1 DEF TableInv
      <4>2. QED
        BY <2>1, <3>1, <4>1
    <3>2. CASE i \notin 1 .. Len(routes)
      <4>1. i = Len(routes) + 1
        BY <1>5, <2>1, <3>2
      <4>2. routes'[i].path = full
        BY <1>3, <2>1, <4>1
      <4>3. QED
        BY <4>2 DEF full
    <3>3. QED
      BY <3>1, <3>2
  <2>7. QED
    BY <1>4, <2>1, <2>2, <2>3, <2>5, <2>6 DEF TableInv
<1>9. QED
  BY <1>2, <1>7, <1>8

\* The operands of match_route are paths.
LEMMA Operands ==
  ASSUME TableInv
  PROVE  AnySeq(path) /\ \A i \in 1 .. Len(routes) : AnySeq(routes[i].path)
<1>1. path \in RequestPaths \cup {<<>>}
  BY DEF TableInv, RoutingTypeOK
<1>2. AnySeq(path)
  BY <1>1, GivenPaths
<1>3. ASSUME NEW i \in 1 .. Len(routes) PROVE AnySeq(routes[i].path)
  <2>1. PICK pre \in RoutePrefixes, t \in Templates : routes[i].path = pre \o t
    BY DEF TableInv
  <2>2. QED
    BY <2>1, GivenPaths
<1>4. QED
  BY <1>2, <1>3

LEMMA TableStep == TableInv /\ [RoutingNext]_routingVars => TableInv'
<1> SUFFICES ASSUME TableInv, [RoutingNext]_routingVars PROVE TableInv'
  OBVIOUS
<1>1. /\ AnySeq(registered) /\ AnySeq(routes) /\ capacity \in Nat /\ Kept(registered, routes) /\ RoutingTypeOK
      /\ \A i \in 1 .. Len(routes) : \E pre \in RoutePrefixes, t \in Templates : routes[i].path = pre \o t
      /\ Len(routes) \in Nat
  BY AnyLength DEF TableInv
<1>2. ASSUME UNCHANGED <<registered, routes, capacity>>, RoutingTypeOK' PROVE TableInv'
  BY <1>1, <1>2 DEF TableInv
<1>3. CASE \E pre \in RoutePrefixes, m \in Methods, t \in Templates : RegisterRoute(pre, m, t)
  BY <1>3, TableRegister
<1>4. CASE \E m \in Methods, p \in RequestPaths : Request(m, p)
  <2>1. RoutingTypeOK'
    BY <1>1, <1>4 DEF RoutingTypeOK, Request
  <2>2. QED
    BY <1>2, <1>4, <2>1 DEF Request
<1>5. CASE SkipRoute
  <2>1. next' \in 1 .. Len(routes) + 1
    BY <1>1, <1>5 DEF RoutingTypeOK, SkipRoute
  <2>2. RoutingTypeOK'
    BY <1>1, <1>5, <2>1 DEF RoutingTypeOK, SkipRoute
  <2>3. QED
    BY <1>2, <1>5, <2>2 DEF SkipRoute
<1>6. CASE TryRoute
  <2> DEFINE m == MatchRoute(routes[next].path, path)
  <2>1. /\ next <= Len(routes) /\ params' = Written(m.params)
        /\ UNCHANGED <<registered, routes, capacity, method, path>>
        /\ \/ finding' = "found" /\ count' = Len(m.params) /\ next' = next
           \/ finding' = "search" /\ count' = count /\ next' = next + 1
    BY <1>6, Zenon DEF TryRoute
  <2>2. next \in 1 .. Len(routes)
    BY <1>1, <2>1 DEF RoutingTypeOK
  <2>3. Len(m.params) \in 0 .. MaxParams
    BY <2>2, Operands, MatchRouteBounded
  <2> HIDE DEF m
  <2>4. DOMAIN params' = 1 .. MaxParams
    BY <2>1 DEF Written
  <2>5. count' \in 0 .. MaxParams /\ next' \in 1 .. Len(routes) + 1 /\ finding' \in {"setup", "search", "found", "none"}
    BY <1>1, <2>1, <2>2, <2>3 DEF RoutingTypeOK
  <2>6. RoutingTypeOK'
    BY <1>1, <2>1, <2>4, <2>5 DEF RoutingTypeOK
  <2>7. QED
    BY <1>2, <2>1, <2>6
<1>7. CASE NoRoute
  <2>1. RoutingTypeOK'
    BY <1>1, <1>7 DEF RoutingTypeOK, NoRoute
  <2>2. QED
    BY <1>2, <1>7, <2>1 DEF NoRoute
<1>8. CASE UNCHANGED routingVars
  <2>1. RoutingTypeOK'
    BY <1>1, <1>8 DEF RoutingTypeOK, routingVars
  <2>2. QED
    BY <1>2, <1>8, <2>1 DEF routingVars
<1>9. QED
  BY <1>3, <1>4, <1>5, <1>6, <1>7, <1>8 DEF RoutingNext

LEMMA TableAlways == RoutingSpec => []TableInv
<1>1. QED
  BY TableInit, TableStep, PTL DEF RoutingSpec

\* RoutingTypeOK: the table is never longer than what was allocated for it, nor
\* the parameters of a request longer than their array.
THEOREM RoutingType == RoutingSpec => []RoutingTypeOK
<1>1. TableInv => RoutingTypeOK
  BY DEF TableInv
<1>2. QED
  BY <1>1, TableAlways, PTL

\* EveryRouteKept: the table has every registered route whose path fits, in the
\* order of the calls, however often it was enlarged.
THEOREM RoutesKept == RoutingSpec => []EveryRouteKept
<1>1. TableInv => EveryRouteKept
  <2> SUFFICES ASSUME TableInv PROVE EveryRouteKept
    OBVIOUS
  <2>1. DOMAIN registered = 1 .. Len(registered)
    BY AnyLength DEF TableInv
  <2>2. Kept(registered, routes)
    BY DEF TableInv
  <2>3. QED
    BY <2>1, <2>2, Zenon DEF EveryRouteKept, Kept, FitsIn, Place
<1>2. QED
  BY <1>1, TableAlways, PTL

-----------------------------------------------------------------------------
(***************************************************************************)
(* What find_route answers                                                 *)
(***************************************************************************)

\* The parameters of a request are those of the template t for the path p.
OwnParams(t, p, n, ps) ==
  /\ n = Cardinality(ParamSegments(t))
  /\ \A k \in ParamSegments(t) :
       ps[Cardinality({l \in ParamSegments(t) : l <= k})] =
         [name  |-> Segment(t, k)[Len(Segment(t, k))],
          value |-> ValueOf(Segment(t, k), Segment(p, k))]

\* What was passed over does not match; what was found does, and gave the
\* parameters.
SearchInv ==
  /\ finding = "setup" => next = 1
  /\ \A i \in 1 .. next - 1 : i \notin Candidates
  /\ finding = "found" => next \in Candidates /\ OwnParams(routes[next].path, path, count, params)
  /\ finding = "none" => next > Len(routes)

LEMMA RoutesWellFormed ==
  ASSUME TemplatesWellFormed, TableInv, NEW i \in 1 .. Len(routes)
  PROVE  AnySeq(routes[i].path) /\ WellFormed(routes[i].path)
<1>1. PICK pre \in RoutePrefixes, t \in Templates : routes[i].path = pre \o t
  BY DEF TableInv
<1>2. AnySeq(pre \o t) /\ WellFormed(pre \o t)
  BY GivenPaths DEF TemplatesWellFormed
<1>3. QED
  BY <1>1, <1>2

\* What a match leaves in req->params.
LEMMA MatchWritten ==
  ASSUME NEW t, AnySeq(t), WellFormed(t), NEW p, AnySeq(p), MatchRoute(t, p).ok,
         NEW ps, \A k \in 1 .. MaxParams : k <= Len(MatchRoute(t, p).params) => ps[k] = MatchRoute(t, p).params[k]
  PROVE  OwnParams(t, p, Len(MatchRoute(t, p).params), ps)
<1> DEFINE got == MatchRoute(t, p).params
<1>1. Len(got) \in 0 .. MaxParams
  BY MatchRouteBounded
<1>2. Len(got) = Cardinality(ParamSegments(t))
  BY MatchParams
<1>3. ASSUME NEW k \in ParamSegments(t)
      PROVE  /\ Cardinality({l \in ParamSegments(t) : l <= k}) \in 1 .. Len(got)
             /\ got[Cardinality({l \in ParamSegments(t) : l <= k})] =
                  [name  |-> Segment(t, k)[Len(Segment(t, k))],
                   value |-> ValueOf(Segment(t, k), Segment(p, k))]
  BY MatchParams
<1>4. \A k \in 1 .. MaxParams : k <= Len(got) => ps[k] = got[k]
  OBVIOUS
<1> HIDE DEF got
<1>5. ASSUME NEW k \in ParamSegments(t)
      PROVE  ps[Cardinality({l \in ParamSegments(t) : l <= k})] =
               [name  |-> Segment(t, k)[Len(Segment(t, k))],
                value |-> ValueOf(Segment(t, k), Segment(p, k))]
  <2> DEFINE c == Cardinality({l \in ParamSegments(t) : l <= k})
             v == [name  |-> Segment(t, k)[Len(Segment(t, k))],
                   value |-> ValueOf(Segment(t, k), Segment(p, k))]
  <2>1. c \in 1 .. Len(got) /\ got[c] = v
    BY <1>3
  <2> HIDE DEF c, v
  <2>2. c \in 1 .. MaxParams /\ c <= Len(got)
    <3>1. MaxParams \in Nat
      BY RoutingAssumption
    <3>2. QED
      BY <1>1, <2>1, <3>1
  <2>3. ps[c] = v
    BY <1>4, <2>1, <2>2
  <2>4. QED
    BY <2>3 DEF c, v
<1>6. OwnParams(t, p, Len(got), ps)
  BY <1>2, <1>5 DEF OwnParams
<1>7. QED
  BY <1>6 DEF got

LEMMA SearchTry ==
  ASSUME TemplatesWellFormed, TableInv, SearchInv, TryRoute
  PROVE  SearchInv'
<1> DEFINE m == MatchRoute(routes[next].path, path)
<1>1. /\ finding = "search" /\ next <= Len(routes) /\ routes[next].method = method /\ params' = Written(m.params)
      /\ UNCHANGED <<registered, routes, capacity, method, path>>
      /\ IF m.ok THEN finding' = "found" /\ count' = Len(m.params) /\ next' = next
         ELSE finding' = "search" /\ count' = count /\ next' = next + 1
  BY Zenon DEF TryRoute
<1>2. next \in 1 .. Len(routes) /\ Len(routes) \in Nat
  BY <1>1, AnyLength DEF TableInv, RoutingTypeOK
<1>3. PICK t : t = routes[next].path
  OBVIOUS
<1>4. PICK p : p = path
  OBVIOUS
<1>5. AnySeq(t) /\ WellFormed(t) /\ AnySeq(p)
  BY <1>2, <1>3, <1>4, RoutesWellFormed, Operands
<1>6. m = MatchRoute(t, p)
  BY <1>3, <1>4
<1>7. m.ok <=> Matches(t, p)
  BY <1>5, <1>6, MatchRouteRight
<1>8. Candidates' = Candidates
  BY <1>1 DEF Candidates
<1>9. next \in Candidates <=> Matches(t, p)
  BY <1>1, <1>2, <1>3, <1>4 DEF Candidates
<1> HIDE DEF m
<1>10. CASE m.ok
  <2>1. finding' = "found" /\ count' = Len(m.params) /\ next' = next
    BY <1>1, <1>10
  <2>2. next' \in Candidates' /\ \A i \in 1 .. next' - 1 : i \notin Candidates'
    BY <1>7, <1>8, <1>9, <1>10, <2>1 DEF SearchInv
  <2>3. \A k \in 1 .. MaxParams : k <= Len(m.params) => params'[k] = m.params[k]
    BY <1>1 DEF Written
  <2>4. OwnParams(t, p, Len(m.params), params')
    BY <1>5, <1>6, <1>10, <2>3, MatchWritten
  <2>5. routes'[next'].path = t /\ path' = p
    BY <1>1, <1>3, <1>4, <2>1
  <2>6. OwnParams(routes'[next'].path, path', count', params')
    BY <2>1, <2>4, <2>5
  <2>7. QED
    BY <2>1, <2>2, <2>6 DEF SearchInv
<1>11. CASE ~m.ok
  <2>1. finding' = "search" /\ next' = next + 1
    BY <1>1, <1>11
  <2>2. next \notin Candidates
    BY <1>7, <1>9, <1>11
  <2>3. \A i \in 1 .. next' - 1 : i = next \/ i \in 1 .. next - 1
    BY <1>2, <2>1
  <2>4. \A i \in 1 .. next' - 1 : i \notin Candidates'
    BY <1>8, <2>2, <2>3 DEF SearchInv
  <2>5. QED
    BY <2>1, <2>4 DEF SearchInv
<1>12. QED
  BY <1>10, <1>11

LEMMA SearchStep == TemplatesWellFormed /\ TableInv /\ SearchInv /\ [RoutingNext]_routingVars => SearchInv'
<1> SUFFICES ASSUME TemplatesWellFormed, TableInv, SearchInv, [RoutingNext]_routingVars PROVE SearchInv'
  OBVIOUS
<1>1. next \in Nat /\ Len(routes) \in Nat
  BY AnyLength DEF TableInv, RoutingTypeOK
<1>2. CASE \E pre \in RoutePrefixes, m \in Methods, t \in Templates : RegisterRoute(pre, m, t)
  <2>1. finding' = "setup" /\ next' = 1
    BY <1>2 DEF SearchInv, RegisterRoute
  <2>2. \A i \in 1 .. next' - 1 : FALSE
    BY <2>1
  <2>3. QED
    BY <2>1, <2>2 DEF SearchInv
<1>3. CASE \E m \in Methods, p \in RequestPaths : Request(m, p)
  <2>1. finding' = "search" /\ next' = 1
    BY <1>3 DEF SearchInv, Request
  <2>2. \A i \in 1 .. next' - 1 : FALSE
    BY <2>1
  <2>3. QED
    BY <2>1, <2>2 DEF SearchInv
<1>4. CASE SkipRoute
  <2>1. /\ finding' = "search" /\ next' = next + 1 /\ routes[next].method # method
        /\ UNCHANGED <<routes, method, path>>
    BY <1>4 DEF SkipRoute
  <2>2. next \notin Candidates /\ Candidates' = Candidates
    BY <2>1 DEF Candidates
  <2>3. \A i \in 1 .. next' - 1 : i = next \/ i \in 1 .. next - 1
    BY <1>1, <2>1
  <2>4. \A i \in 1 .. next' - 1 : i \notin Candidates'
    BY <2>2, <2>3 DEF SearchInv
  <2>5. QED
    BY <2>1, <2>4 DEF SearchInv
<1>5. CASE TryRoute
  BY <1>5, SearchTry
<1>6. CASE NoRoute
  <2>1. finding' = "none" /\ next > Len(routes) /\ UNCHANGED <<routes, method, path, next>>
    BY <1>6 DEF NoRoute
  <2>2. Candidates' = Candidates
    BY <2>1 DEF Candidates
  <2>3. QED
    BY <2>1, <2>2 DEF SearchInv
<1>7. CASE UNCHANGED routingVars
  <2>1. UNCHANGED <<finding, routes, method, path, next, count, params>>
    BY <1>7 DEF routingVars
  <2>2. Candidates' = Candidates
    BY <2>1 DEF Candidates
  <2>3. QED
    BY <2>1, <2>2 DEF SearchInv
<1>8. QED
  BY <1>2, <1>3, <1>4, <1>5, <1>6, <1>7 DEF RoutingNext

LEMMA SearchInit == RoutingInit => SearchInv
<1> SUFFICES ASSUME RoutingInit PROVE SearchInv
  OBVIOUS
<1>1. finding = "setup" /\ next = 1
  BY DEF RoutingInit
<1>2. \A i \in 1 .. next - 1 : FALSE
  BY <1>1
<1>3. QED
  BY <1>1, <1>2 DEF SearchInv

LEMMA SearchAlways ==
  ASSUME TemplatesWellFormed
  PROVE  RoutingSpec => [](TableInv /\ SearchInv)
<1>1. TableInv /\ SearchInv /\ [RoutingNext]_routingVars => SearchInv'
  BY SearchStep
<1>2. QED
  BY <1>1, SearchInit, TableAlways, PTL DEF RoutingSpec

\* FirstMatch: find_route answers with the route that was registered first of
\* those whose method is the request's and whose template matches its path segment
\* by segment, and with none only if there is none.  In a template a parameter
\* ends its segment.
THEOREM FirstMatchFound ==
  ASSUME TemplatesWellFormed
  PROVE  RoutingSpec => []FirstMatch
<1>1. TableInv /\ SearchInv => FirstMatch
  <2> SUFFICES ASSUME TableInv, SearchInv PROVE FirstMatch
    OBVIOUS
  <2>1. next \in Nat /\ Len(routes) \in Nat /\ \A i \in Candidates : i \in 1 .. Len(routes)
    BY AnyLength DEF TableInv, RoutingTypeOK, Candidates
  <2>2. \A i \in Candidates : i \notin 1 .. next - 1
    BY DEF SearchInv
  <2>3. \A i \in Candidates : next <= i
    BY <2>1, <2>2
  <2>4. finding = "found" => next \in Candidates
    BY DEF SearchInv
  <2>5. ASSUME finding = "none" PROVE Candidates = {}
    <3>1. next > Len(routes)
      BY <2>5 DEF SearchInv
    <3>2. \A i \in Candidates : FALSE
      BY <2>1, <2>3, <3>1
    <3>3. QED
      BY <3>2
  <2>6. QED
    BY <2>3, <2>4, <2>5 DEF FirstMatch
<1>2. QED
  BY <1>1, SearchAlways, PTL

\* ParamsAreOwn: the parameters of a request whose route was found are those of
\* the route's own template, in their order and with the whole segments of the
\* path, whatever the templates tried before it left in the array.
THEOREM OwnParamsFound ==
  ASSUME TemplatesWellFormed
  PROVE  RoutingSpec => []ParamsAreOwn
<1>1. SearchInv => ParamsAreOwn
  BY Zenon DEF SearchInv, ParamsAreOwn, OwnParams
<1>2. QED
  BY <1>1, SearchAlways, PTL

=============================================================================
