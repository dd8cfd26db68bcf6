-------------------------- MODULE BlockCodecProofs --------------------------
(***************************************************************************)
(* What the order node packs a peer decodes, and nothing else gets past    *)
(* the peer.  For any sizes of buffer, tree and block, as long as no       *)
(* submission falls into an exposed window.                                *)
(*                                                                         *)
(* The merkle tree comes first: two arrays of as many leaves have the      *)
(* same root exactly when the leaves are the same, whatever lies behind    *)
(* them. Then the bytes of a block, as places in its buffer; the encoder;  *)
(* the decoder; and the invariant.                                         *)
(***************************************************************************)
EXTENDS BlockCodec, WellFoundedInduction, TLAPS

Protected == Exposed = {}
-----------------------------------------------------------------------------
(* Numbers and arrays *)

\* What the assumption says of the constants.
LEMMA Sizes == /\ InitNodes \in Nat /\ InitNodes > 0 /\ NodeStep \in Nat /\ NodeStep > 0
               /\ Serials \in Nat /\ Serials > 0 /\ Channel \in Nat /\ Channel < Serials
               /\ MaxCount \in Nat /\ MaxCount > 0 /\ PackSize \in Nat /\ PackSize > 0
               /\ \A p \in Payloads : p \in Nat /\ p > 0
               /\ MaxID \in Nat
BY CodecAssumption

\* A property of numbers that passes from each to the next, as a set.
LEMMA Reaches ==
    ASSUME NEW n \in Nat, NEW S, 0 \in S, \A i \in 0..n - 1 : i \in S => i + 1 \in S
    PROVE  \A i \in 0..n : i \in S
<1> SUFFICES ASSUME NEW k \in 0..n, k \notin S PROVE FALSE
  OBVIOUS
<1> DEFINE U == {i \in 0..n : i \notin S}
           R == OpToRel(<, Nat)
<1>1. U \in SUBSET Nat /\ U # {}
  OBVIOUS
<1>2. IsWellFoundedOn(R, Nat)
  BY NatLessThanWellFounded
<1>3. \A x, y \in Nat : x < y => <<x, y>> \in R
  BY DEF OpToRel
<1> HIDE DEF U, R
<1>4. PICK m \in U : \A y \in U : <<y, m>> \notin R
  BY <1>1, <1>2, WFMin
<1>5. m \in 0..n /\ m \notin S /\ m # 0
  BY <1>4 DEF U
<1>6. m - 1 \in 0..n - 1 /\ m - 1 + 1 = m
  BY <1>5
<1>7. m - 1 \in S
  <2> SUFFICES ASSUME m - 1 \notin S PROVE FALSE
    OBVIOUS
  <2>1. m - 1 \in U /\ m - 1 \in Nat /\ m \in Nat /\ m - 1 < m
    BY <1>5, <1>6 DEF U
  <2> QED BY <1>3, <1>4, <2>1
<1> QED BY <1>5, <1>6, <1>7

\* The half of a level, rounded up.
Half(s) == (s + 1) \div 2

LEMMA HalfIs ==
    ASSUME NEW s \in Nat
    PROVE  /\ Half(s) \in Nat /\ 2 * Half(s) >= s /\ 2 * Half(s) <= s + 1
           /\ s >= 1 => Half(s) >= 1
           /\ s > 1 => Half(s) < s
BY DEF Half

\* An array of n entries.
Array(f, n) == n \in Nat /\ f = [i \in 1..n |-> f[i]]

LEMMA ArrayLen ==
    ASSUME NEW f, NEW n, Array(f, n)
    PROVE  Len(f) = n /\ DOMAIN f = 1..n
<1> DEFINE S == {f[i] : i \in 1..n}
<1>1. f \in [1..n -> S]
  BY DEF Array
<1> HIDE DEF S
<1>2. n \in Nat
  BY DEF Array
<1>3. f \in Seq(S) /\ DOMAIN f = 1..n
  BY <1>1, <1>2
<1> QED BY <1>2, <1>3

\* Arrays that agree everywhere are equal.
LEMMA ArrayIs ==
    ASSUME NEW n \in Nat, NEW f, Array(f, n), NEW g, Array(g, n), \A i \in 1..n : f[i] = g[i]
    PROVE  f = g
<1>1. f = [i \in 1..n |-> f[i]] /\ g = [i \in 1..n |-> g[i]]
  BY DEF Array
<1>2. [i \in 1..n |-> f[i]] = [i \in 1..n |-> g[i]]
  OBVIOUS
<1> QED BY <1>1, <1>2
-----------------------------------------------------------------------------
(* One level of the tree *)

\* The first k nodes of the level above the s first entries of a are made.
Raised(a, n, s, b, k) ==
  /\ Array(b, n)
  /\ \A i \in 1..n : b[i] = IF i > k THEN a[i]
                            ELSE CalculateHashValue(a[2 * i - 1], a[IF 2 * i - 1 < s THEN 2 * i ELSE 2 * i - 1])

\* The steps of the loop over one level.
Level0(a, s, g, k) ==
  g = [i \in 0..k |-> IF i = 0 THEN a ELSE Above(g[i - 1], s, i)]

LEMMA Level0Exists ==
    ASSUME NEW a, NEW s, NEW k \in Nat
    PROVE  \E g : Level0(a, s, g, k)
<1> DEFINE S == {m \in 0..k : \E g : Level0(a, s, g, m)}
<1>1. 0 \in S
  <2> DEFINE g == [n \in 0..0 |-> a]
  <2>1. [n \in 0..0 |-> IF n = 0 THEN a ELSE Above(g[n - 1], s, n)] = g
    OBVIOUS
  <2>2. Level0(a, s, g, 0)
    BY <2>1, Zenon DEF Level0
  <2> QED BY <2>2
<1>2. ASSUME NEW i \in 0..k - 1, i \in S PROVE i + 1 \in S
  <2>1. PICK g : Level0(a, s, g, i)
    BY <1>2
  <2>2. i \in Nat /\ i + 1 \in 0..k
    OBVIOUS
  <2> DEFINE h == [n \in 0..i + 1 |-> IF n = i + 1 THEN Above(g[i], s, i + 1) ELSE g[n]]
  <2>3. ASSUME NEW n \in 0..i + 1
        PROVE  h[n] = IF n = 0 THEN a ELSE Above(h[n - 1], s, n)
    <3>1. CASE n = i + 1
      <4>1. i \in 0..i + 1 /\ i # i + 1 /\ n - 1 = i /\ n # 0
        BY <2>2, <3>1
      <4>2. h[i] = g[i] /\ h[n] = Above(g[i], s, n)
        BY <3>1, <4>1
      <4> HIDE DEF h
      <4> QED BY <4>1, <4>2
    <3>2. CASE n # i + 1
      <4>1. n \in 0..i /\ (n # 0 => n - 1 \in 0..i + 1 /\ n - 1 # i + 1)
        BY <2>2, <3>2
      <4>2. h[n] = g[n] /\ (n # 0 => h[n - 1] = g[n - 1])
        BY <3>2, <4>1
      <4>3. g[n] = IF n = 0 THEN a ELSE Above(g[n - 1], s, n)
        BY <2>1, <4>1 DEF Level0
      <4> HIDE DEF h
      <4> QED BY <4>2, <4>3
    <3> QED BY <3>1, <3>2
  <2>4. h = [n \in 0..i + 1 |-> h[n]]
    OBVIOUS
  <2> HIDE DEF h
  <2>5. h = [n \in 0..i + 1 |-> IF n = 0 THEN a ELSE Above(h[n - 1], s, n)]
    BY <2>3, <2>4
  <2>6. Level0(a, s, h, i + 1)
    BY <2>5, Zenon DEF Level0
  <2> QED BY <2>2, <2>6
<1> HIDE DEF S
<1>3. \A i \in 0..k : i \in S
  BY <1>1, <1>2, Reaches
<1>4. k \in S
  BY <1>3
<1> QED BY <1>4 DEF S

\* Above makes one node more.
LEMMA AboveRaises ==
    ASSUME NEW a, NEW n \in Nat, NEW s \in 1..n, NEW b, NEW k \in Nat, k < Half(s), Raised(a, n, s, b, k)
    PROVE  Raised(a, n, s, Above(b, s, k + 1), k + 1)
<1> DEFINE l == 2 * (k + 1) - 1
           r == IF l < s THEN l + 1 ELSE l
           c == Above(b, s, k + 1)
<1>1. s \in Nat /\ 2 * Half(s) <= s + 1 /\ Half(s) \in Nat
  BY HalfIs
<1>2. l \in 1..n /\ r \in 1..n /\ l > k /\ r > k /\ k + 1 \in 1..n /\ l \in Nat /\ r \in Nat
  BY <1>1
<1>3. r = IF l < s THEN 2 * (k + 1) ELSE l
  BY <1>2
<1>4. c = [b EXCEPT ![k + 1] = CalculateHashValue(b[l], b[r])]
  BY DEF Above
<1>5. b = [i \in 1..n |-> b[i]]
  BY DEF Raised, Array
<1>6. b[l] = a[l] /\ b[r] = a[r]
  <2> HIDE DEF l, r
  <2> QED BY <1>2 DEF Raised
<1> HIDE DEF c, r, l
<1>7. c = [i \in 1..n |-> c[i]] /\ \A i \in 1..n : c[i] = IF i = k + 1 THEN CalculateHashValue(a[l], a[r]) ELSE b[i]
  BY <1>2, <1>4, <1>5, <1>6
<1>8. ASSUME NEW i \in 1..n
      PROVE  c[i] = IF i > k + 1 THEN a[i]
                    ELSE CalculateHashValue(a[2 * i - 1], a[IF 2 * i - 1 < s THEN 2 * i ELSE 2 * i - 1])
  <2>1. CASE i = k + 1
    <3>1. c[i] = CalculateHashValue(a[l], a[r])
      BY <1>7, <2>1
    <3>2. l = 2 * i - 1 /\ r = (IF 2 * i - 1 < s THEN 2 * i ELSE 2 * i - 1)
      BY <1>3, <2>1 DEF l
    <3>3. ~(i > k + 1)
      BY <2>1
    <3> QED BY <3>1, <3>2, <3>3
  <2>2. CASE i # k + 1
    <3>1. c[i] = b[i] /\ (i > k + 1 <=> i > k)
      BY <1>7, <2>2
    <3> QED BY <3>1 DEF Raised
  <2> QED BY <2>1, <2>2
<1> QED BY <1>7, <1>8 DEF Raised, Array, c

\* Level makes all nodes of the level above and touches nothing else.
LEMMA LevelIs ==
    ASSUME NEW a, NEW n \in Nat, Array(a, n), NEW s \in 1..n
    PROVE  Raised(a, n, s, Level(a, s), Half(s))
<1> DEFINE h == Half(s)
           g == CHOOSE f : f = [i \in 0..h |-> IF i = 0 THEN a ELSE Above(f[i - 1], s, i)]
           S == {i \in 0..h : Raised(a, n, s, g[i], i)}
<1>1. Level(a, s) = g[h]
  BY DEF Level, Half
<1>2. h \in Nat
  BY HalfIs
<1> HIDE DEF h
<1>3. g = [i \in 0..h |-> IF i = 0 THEN a ELSE Above(g[i - 1], s, i)]
  <2>1. \E f : f = [i \in 0..h |-> IF i = 0 THEN a ELSE Above(f[i - 1], s, i)]
    <3>1. PICK f : Level0(a, s, f, h)
      BY <1>2, Level0Exists
    <3> QED BY <3>1, Zenon DEF Level0
  <2> QED BY <2>1, Zenon
<1> HIDE DEF g
<1>4. g[0] = a /\ \A i \in 1..h : g[i] = Above(g[i - 1], s, i)
  <2>1. 0 \in 0..h /\ \A i \in 1..h : i \in 0..h /\ i # 0
    BY <1>2
  <2> QED BY <1>3, <2>1
<1>5. 0 \in S
  <2>1. Raised(a, n, s, g[0], 0)
    BY <1>4 DEF Raised
  <2> QED BY <1>2, <2>1
<1>6. ASSUME NEW i \in 0..h - 1, i \in S PROVE i + 1 \in S
  <2>1. i \in Nat /\ i < h /\ i + 1 \in 1..h /\ i + 1 \in 0..h /\ (i + 1) - 1 = i /\ Raised(a, n, s, g[i], i)
    BY <1>2, <1>6
  <2>2. PICK j \in 1..h : j = i + 1
    BY <2>1
  <2>3. g[j] = Above(g[i], s, j)
    BY <1>4, <2>1, <2>2
  <2>4. Raised(a, n, s, Above(g[i], s, i + 1), i + 1)
    BY <2>1, AboveRaises DEF h
  <2>5. Raised(a, n, s, g[i + 1], i + 1)
    BY <2>2, <2>3, <2>4
  <2> QED BY <2>1, <2>5
<1> HIDE DEF S
<1>7. \A i \in 0..h : i \in S
  BY <1>2, <1>5, <1>6, Reaches
<1>8. h \in S
  BY <1>2, <1>7
<1>9. Raised(a, n, s, g[h], h)
  BY <1>8 DEF S
<1> QED BY <1>1, <1>9 DEF h

\* Two arrays agree on their first s entries.
Agree(a, b, s) == \A i \in 1..s : a[i] = b[i]

\* Levels agree exactly when what they are computed from does.
LEMMA LevelsAgree ==
    ASSUME NEW a, NEW b, NEW m \in Nat, NEW n \in Nat, Array(a, m), Array(b, n),
           NEW s \in Nat, s >= 1, s <= m, s <= n
    PROVE  Agree(Level(a, s), Level(b, s), Half(s)) <=> Agree(a, b, s)
<1> DEFINE h == Half(s)
           c == Level(a, s)
           d == Level(b, s)
           R(i) == IF 2 * i - 1 < s THEN 2 * i ELSE 2 * i - 1
<1>1. h \in Nat /\ 2 * h >= s /\ 2 * h <= s + 1
  BY HalfIs
<1>2. Raised(a, m, s, c, h) /\ Raised(b, n, s, d, h)
  BY LevelIs
<1> HIDE DEF c, d, h
<1>3. ASSUME NEW i \in 1..h
      PROVE  /\ c[i] = <<"node", a[R(i)], a[2 * i - 1]>>
             /\ d[i] = <<"node", b[R(i)], b[2 * i - 1]>>
             /\ 2 * i - 1 \in 1..s /\ R(i) \in 1..s
  <2>1. i \in 1..m /\ i \in 1..n /\ ~(i > h) /\ 2 * i - 1 \in 1..s /\ R(i) \in 1..s
    BY <1>1
  <2> QED BY <1>2, <2>1 DEF Raised, CalculateHashValue
<1>4. ASSUME Agree(a, b, s) PROVE Agree(c, d, h)
  <2> SUFFICES ASSUME NEW i \in 1..h PROVE c[i] = d[i]
    BY DEF Agree
  <2>1. a[2 * i - 1] = b[2 * i - 1] /\ a[R(i)] = b[R(i)]
    BY <1>3, <1>4 DEF Agree
  <2> QED BY <1>3, <2>1
<1>5. ASSUME Agree(c, d, h) PROVE Agree(a, b, s)
  <2>1. ASSUME NEW i \in 1..h PROVE a[2 * i - 1] = b[2 * i - 1] /\ a[R(i)] = b[R(i)]
    <3>1. c[i] = d[i]
      BY <1>5 DEF Agree
    <3> HIDE DEF R
    <3> QED BY <1>3, <3>1
  <2> SUFFICES ASSUME NEW j \in 1..s PROVE a[j] = b[j]
    BY DEF Agree
  <2>2. \E i \in 1..h : j = 2 * i - 1 \/ j = R(i)
    <3>1. j \in Nat /\ j >= 1
      OBVIOUS
    <3>2. PICK i \in Nat : j = 2 * i - 1 \/ j = 2 * i
      <4>1. Half(j) \in Nat /\ 2 * Half(j) >= j /\ 2 * Half(j) <= j + 1
        BY <3>1, HalfIs
      <4> QED BY <3>1, <4>1
    <3>3. i \in 1..h /\ (j = 2 * i => 2 * i - 1 < s)
      BY <1>1, <3>1, <3>2
    <3> QED BY <3>2, <3>3
  <2> QED BY <2>1, <2>2
<1> QED BY <1>4, <1>5 DEF c, d, h
-----------------------------------------------------------------------------
(* The root of the tree *)

\* The rounds of the loop over the levels.
Rounds(a, s, g, k) ==
  g = [i \in 0..k |-> IF i = 0 THEN [nodes |-> a, size |-> s] ELSE NextLevel(g[i - 1])]

LEMMA RoundsExist ==
    ASSUME NEW a, NEW s, NEW k \in Nat
    PROVE  \E g : Rounds(a, s, g, k)
<1> DEFINE z == [nodes |-> a, size |-> s]
           S == {m \in 0..k : \E g : Rounds(a, s, g, m)}
<1>1. 0 \in S
  <2> DEFINE g == [n \in 0..0 |-> z]
  <2>1. [n \in 0..0 |-> IF n = 0 THEN z ELSE NextLevel(g[n - 1])] = g
    OBVIOUS
  <2>2. Rounds(a, s, g, 0)
    BY <2>1, Zenon DEF Rounds
  <2> QED BY <2>2
<1>2. ASSUME NEW i \in 0..k - 1, i \in S PROVE i + 1 \in S
  <2>1. PICK g : Rounds(a, s, g, i)
    BY <1>2
  <2>2. i \in Nat /\ i + 1 \in 0..k
    OBVIOUS
  <2> DEFINE h == [n \in 0..i + 1 |-> IF n = i + 1 THEN NextLevel(g[i]) ELSE g[n]]
  <2>3. ASSUME NEW n \in 0..i + 1
        PROVE  h[n] = IF n = 0 THEN z ELSE NextLevel(h[n - 1])
    <3>1. CASE n = i + 1
      <4>1. i \in 0..i + 1 /\ i # i + 1 /\ n - 1 = i /\ n # 0
        BY <2>2, <3>1
      <4>2. h[i] = g[i] /\ h[n] = NextLevel(g[i])
        BY <3>1, <4>1
      <4> HIDE DEF h
      <4> QED BY <4>1, <4>2
    <3>2. CASE n # i + 1
      <4>1. n \in 0..i /\ (n # 0 => n - 1 \in 0..i + 1 /\ n - 1 # i + 1)
        BY <2>2, <3>2
      <4>2. h[n] = g[n] /\ (n # 0 => h[n - 1] = g[n - 1])
        BY <3>2, <4>1
      <4>3. g[n] = IF n = 0 THEN z ELSE NextLevel(g[n - 1])
        BY <2>1, <4>1 DEF Rounds
      <4> HIDE DEF h
      <4> QED BY <4>2, <4>3
    <3> QED BY <3>1, <3>2
  <2>4. h = [n \in 0..i + 1 |-> h[n]]
    OBVIOUS
  <2> HIDE DEF h
  <2>5. h = [n \in 0..i + 1 |-> IF n = 0 THEN z ELSE NextLevel(h[n - 1])]
    BY <2>3, <2>4
  <2>6. Rounds(a, s, h, i + 1)
    BY <2>5, Zenon DEF Rounds
  <2> QED BY <2>2, <2>6
<1> HIDE DEF S
<1>3. \A i \in 0..k : i \in S
  BY <1>1, <1>2, Reaches
<1>4. k \in S
  BY <1>3
<1> QED BY <1>4 DEF S

\* A level of at most s entries of an array of n, i rounds after the leaves.
LevelOf(b, n, s, i) ==
  /\ b = [nodes |-> b.nodes, size |-> b.size]
  /\ Array(b.nodes, n) /\ b.size \in Nat /\ b.size <= s /\ b.size <= n
  /\ s >= 1 => b.size >= 1
  /\ b.size <= 1 \/ b.size + i <= s

\* A round leads from one level to the next.
LEMMA RoundLevels ==
    ASSUME NEW b, NEW n \in Nat, NEW s \in Nat, NEW i \in Nat, LevelOf(b, n, s, i)
    PROVE  LevelOf(NextLevel(b), n, s, i + 1)
<1>1. Array(b.nodes, n) /\ b.size \in Nat /\ b.size <= n /\ b.size <= s
  BY DEF LevelOf
<1>2. CASE b.size <= 1
  BY <1>2 DEF LevelOf, NextLevel
<1>3. CASE ~(b.size <= 1)
  <2>1. NextLevel(b) = [nodes |-> Level(b.nodes, b.size), size |-> Half(b.size)]
    BY <1>3 DEF NextLevel, Half
  <2>2. Array(Level(b.nodes, b.size), n)
    <3>1. b.size \in 1..n
      BY <1>1, <1>3
    <3>2. Raised(b.nodes, n, b.size, Level(b.nodes, b.size), Half(b.size))
      BY <1>1, <3>1, LevelIs
    <3> QED BY <3>2 DEF Raised
  <2>3. Half(b.size) \in Nat /\ Half(b.size) >= 1 /\ Half(b.size) < b.size
    <3>1. PICK l \in Nat : l = b.size
      BY <1>1
    <3>2. l > 1 /\ l >= 1
      BY <1>3, <3>1
    <3>3. Half(l) \in Nat /\ Half(l) >= 1 /\ Half(l) < l
      BY <3>2, HalfIs
    <3> QED BY <3>1, <3>3
  <2> DEFINE c == NextLevel(b)
  <2>4. c.nodes = Level(b.nodes, b.size) /\ c.size = Half(b.size) /\ c = [nodes |-> c.nodes, size |-> c.size]
    BY <2>1
  <2> HIDE DEF c
  <2>5. LevelOf(c, n, s, i + 1)
    BY <1>1, <1>3, <2>2, <2>3, <2>4 DEF LevelOf
  <2> QED BY <2>5 DEF c
<1> QED BY <1>2, <1>3

\* After s rounds over s leaves a level of one node is left.
LEMMA RoundsAre ==
    ASSUME NEW a, NEW n \in Nat, Array(a, n), NEW s \in 0..n, NEW g, Rounds(a, s, g, s)
    PROVE  /\ g[0] = [nodes |-> a, size |-> s]
           /\ \A i \in 1..s : g[i] = NextLevel(g[i - 1])
           /\ \A i \in 0..s : LevelOf(g[i], n, s, i)
           /\ g[s].size <= 1
<1> DEFINE S == {i \in 0..s : LevelOf(g[i], n, s, i)}
<1>1. s \in Nat
  OBVIOUS
<1>2. g[0] = [nodes |-> a, size |-> s] /\ \A i \in 1..s : g[i] = NextLevel(g[i - 1])
  <2>1. 0 \in 0..s /\ \A i \in 1..s : i \in 0..s /\ i # 0
    BY <1>1
  <2> QED BY <2>1 DEF Rounds
<1>3. 0 \in S
  BY <1>1, <1>2 DEF LevelOf
<1>4. ASSUME NEW i \in 0..s - 1, i \in S PROVE i + 1 \in S
  <2>1. i \in Nat /\ i + 1 \in 0..s /\ LevelOf(g[i], n, s, i)
    BY <1>4
  <2>2. PICK j \in 1..s : j = i + 1
    BY <2>1
  <2>3. g[j] = NextLevel(g[i])
    <3>1. j - 1 = i
      BY <2>1, <2>2
    <3> QED BY <1>2, <3>1
  <2>4. LevelOf(NextLevel(g[i]), n, s, i + 1)
    BY <1>1, <2>1, RoundLevels
  <2> QED BY <2>1, <2>2, <2>3, <2>4
<1> HIDE DEF S
<1>5. \A i \in 0..s : i \in S
  BY <1>1, <1>3, <1>4, Reaches
<1>6. \A i \in 0..s : LevelOf(g[i], n, s, i)
  BY <1>5 DEF S
<1>7. g[s].size <= 1
  <2>1. LevelOf(g[s], n, s, s)
    BY <1>1, <1>6
  <2> QED BY <1>1, <2>1 DEF LevelOf
<1> QED BY <1>2, <1>6, <1>7

\* BuildLevels by its rounds.
LEMMA BuildIs ==
    ASSUME NEW a, NEW s \in Nat
    PROVE  \E g : Rounds(a, s, g, s) /\ BuildLevels(a, s) = g[s].nodes
<1> DEFINE g == CHOOSE f : f = [i \in 0..s |-> IF i = 0 THEN [nodes |-> a, size |-> s] ELSE NextLevel(f[i - 1])]
<1>1. BuildLevels(a, s) = g[s].nodes
  BY DEF BuildLevels
<1>2. Rounds(a, s, g, s)
  <2>1. \E f : f = [i \in 0..s |-> IF i = 0 THEN [nodes |-> a, size |-> s] ELSE NextLevel(f[i - 1])]
    <3>1. PICK f : Rounds(a, s, f, s)
      BY RoundsExist
    <3> QED BY <3>1, Zenon DEF Rounds
  <2>2. g = [i \in 0..s |-> IF i = 0 THEN [nodes |-> a, size |-> s] ELSE NextLevel(g[i - 1])]
    BY <2>1, Zenon
  <2> HIDE DEF g
  <2> QED BY <2>2, Zenon DEF Rounds
<1> HIDE DEF g
<1> QED BY <1>1, <1>2

\* What is built is as long as the leaves were.
LEMMA BuildArray ==
    ASSUME NEW a, NEW n \in Nat, Array(a, n), NEW s \in 0..n
    PROVE  Array(BuildLevels(a, s), n)
<1>1. PICK g : Rounds(a, s, g, s) /\ BuildLevels(a, s) = g[s].nodes
  BY BuildIs
<1>2. LevelOf(g[s], n, s, s)
  <2>1. s \in 0..s
    OBVIOUS
  <2> QED BY <1>1, <2>1, RoundsAre
<1> QED BY <1>1, <1>2 DEF LevelOf

\* One round of two trees of the same size.
LEMMA RoundsAgree ==
    ASSUME NEW b, NEW c, NEW m \in Nat, NEW n \in Nat, NEW s \in Nat, s >= 1, NEW i \in Nat,
           LevelOf(b, m, s, i), LevelOf(c, n, s, i), b.size = c.size
    PROVE  /\ NextLevel(b).size = NextLevel(c).size
           /\ Agree(NextLevel(b).nodes, NextLevel(c).nodes, NextLevel(b).size) <=> Agree(b.nodes, c.nodes, b.size)
<1>1. CASE b.size <= 1
  BY <1>1 DEF NextLevel
<1>2. CASE ~(b.size <= 1)
  <2>1. /\ NextLevel(b).nodes = Level(b.nodes, b.size) /\ NextLevel(b).size = Half(b.size)
        /\ NextLevel(c).nodes = Level(c.nodes, b.size) /\ NextLevel(c).size = Half(b.size)
    BY <1>2 DEF NextLevel, Half
  <2>2. /\ Array(b.nodes, m) /\ Array(c.nodes, n) /\ b.size \in Nat /\ b.size >= 1
        /\ b.size <= m /\ b.size <= n
    BY DEF LevelOf
  <2>3. Agree(Level(b.nodes, b.size), Level(c.nodes, b.size), Half(b.size)) <=> Agree(b.nodes, c.nodes, b.size)
    BY <2>2, LevelsAgree
  <2> QED BY <2>1, <2>3
<1> QED BY <1>1, <1>2

\* Two trees of as many leaves have the same root exactly when they have the
\* same leaves.
LEMMA RootsAgree ==
    ASSUME NEW a, NEW b, NEW m \in Nat, NEW n \in Nat, Array(a, m), Array(b, n),
           NEW s \in Nat, s >= 1, s <= m, s <= n
    PROVE  BuildLevels(a, s)[1] = BuildLevels(b, s)[1] <=> Agree(a, b, s)
<1>1. PICK g : Rounds(a, s, g, s) /\ BuildLevels(a, s) = g[s].nodes
  BY BuildIs
<1>2. PICK h : Rounds(b, s, h, s) /\ BuildLevels(b, s) = h[s].nodes
  BY BuildIs
<1>3. s \in 0..m /\ s \in 0..n
  OBVIOUS
<1>4. /\ g[0] = [nodes |-> a, size |-> s] /\ \A i \in 1..s : g[i] = NextLevel(g[i - 1])
      /\ \A i \in 0..s : LevelOf(g[i], m, s, i)
      /\ g[s].size <= 1
  BY <1>1, <1>3, RoundsAre
<1>5. /\ h[0] = [nodes |-> b, size |-> s] /\ \A i \in 1..s : h[i] = NextLevel(h[i - 1])
      /\ \A i \in 0..s : LevelOf(h[i], n, s, i)
  BY <1>2, <1>3, RoundsAre
<1> DEFINE Same(i) == Agree(g[i].nodes, h[i].nodes, g[i].size) <=> Agree(a, b, s)
           S == {i \in 0..s : g[i].size = h[i].size /\ Same(i)}
<1>6. 0 \in S
  BY <1>4, <1>5
<1>7. ASSUME NEW i \in 0..s - 1, i \in S PROVE i + 1 \in S
  <2>1. i \in Nat /\ i \in 0..s /\ i + 1 \in 0..s /\ g[i].size = h[i].size /\ Same(i)
    BY <1>7
  <2> HIDE DEF Same
  <2>2. PICK j \in 1..s : j = i + 1
    BY <2>1
  <2>3. g[j] = NextLevel(g[i]) /\ h[j] = NextLevel(h[i])
    <3>1. j - 1 = i
      BY <2>1, <2>2
    <3> QED BY <1>4, <1>5, <3>1
  <2>4. LevelOf(g[i], m, s, i) /\ LevelOf(h[i], n, s, i)
    BY <1>4, <1>5, <2>1
  <2>5. /\ NextLevel(g[i]).size = NextLevel(h[i]).size
        /\ Agree(NextLevel(g[i]).nodes, NextLevel(h[i]).nodes, NextLevel(g[i]).size)
             <=> Agree(g[i].nodes, h[i].nodes, g[i].size)
    BY <2>1, <2>4, RoundsAgree
  <2>6. g[j].size = h[j].size /\ Same(j)
    BY <2>1, <2>3, <2>5 DEF Same
  <2> QED BY <2>1, <2>2, <2>6
<1> HIDE DEF S
<1>8. \A i \in 0..s : i \in S
  BY <1>6, <1>7, Reaches
<1>9. Same(s) /\ g[s].size = 1
  <2>1. s \in S /\ LevelOf(g[s], m, s, s)
    BY <1>4, <1>8
  <2> QED BY <1>4, <2>1 DEF S, LevelOf
<1>10. g[s].nodes[1] = h[s].nodes[1] <=> Agree(g[s].nodes, h[s].nodes, g[s].size)
  <2>1. 1..1 = {1}
    OBVIOUS
  <2> QED BY <1>9, <2>1 DEF Agree
<1> QED BY <1>1, <1>2, <1>9, <1>10
-----------------------------------------------------------------------------
(* Transactions and their bytes *)

Cell == [kind : {"junk", "number", "payload"}, of : Nat, part : Nat]

\* What the submissions make.
Trans == [number : {CombineSequenceNumber(type, n) : type \in {RegistUserType, ProposeType}, n \in 0..Serials - 1},
          payload : Payloads]

\* What a block could be decoded to.
Readable == [number : Nat, payload : Nat]

\* A number below d does not change the quotient.
LEMMA DivIs ==
    ASSUME NEW d \in Nat, d > 0, NEW k \in Nat, NEW r \in Nat, r < d
    PROVE  (k * d + r) \div d = k
<1> DEFINE x == k * d + r
           a == x \div d
           b == x % d
<1>1. k * d \in Nat /\ x \in Nat
  OBVIOUS
<1>2. a \in Nat /\ b \in Nat /\ b < d /\ x = d * a + b
  BY <1>1
<1> HIDE DEF a, b
<1>3. k * d + r = d * a + b
  BY <1>2
<1>4. k * d = d * k
  OBVIOUS
<1>5. ~(k < a)
  <2> SUFFICES ASSUME k < a PROVE FALSE
    OBVIOUS
  <2>1. PICK e \in Nat : a = k + 1 + e
    <3>1. a - k - 1 \in Nat /\ a = k + 1 + (a - k - 1)
      BY <1>2
    <3> QED BY <3>1
  <2>2. d * a = d * k + d + d * e /\ d * e \in Nat /\ d * k \in Nat
    BY <2>1
  <2> QED BY <1>2, <1>3, <1>4, <2>2
<1>6. ~(a < k)
  <2> SUFFICES ASSUME a < k PROVE FALSE
    OBVIOUS
  <2>1. PICK e \in Nat : k = a + 1 + e
    <3>1. k - a - 1 \in Nat /\ k = a + 1 + (k - a - 1)
      BY <1>2
    <3> QED BY <3>1
  <2>2. d * k = d * a + d + d * e /\ d * e \in Nat /\ d * a \in Nat
    BY <1>2, <2>1
  <2> QED BY <1>2, <1>3, <1>4, <2>2
<1>7. a = k
  BY <1>2, <1>5, <1>6
<1> QED BY <1>7 DEF a, x

\* A number below d is its own remainder.
LEMMA ModIs ==
    ASSUME NEW d \in Nat, d > 0, NEW r \in Nat, r < d
    PROVE  r % d = r
<1> DEFINE a == r \div d
           b == r % d
<1>1. (0 * d + r) \div d = 0 /\ 0 * d + r = r
  BY DivIs
<1>2. a \in Nat /\ b \in Nat /\ r = d * a + b
  OBVIOUS
<1>3. a = 0
  BY <1>1
<1> HIDE DEF a, b
<1>4. d * a = 0
  BY <1>3
<1>5. b = r
  BY <1>2, <1>4
<1> QED BY <1>5 DEF b

\* A sequence number tells its type.
LEMMA NumberIs ==
    ASSUME NEW type \in {RegistUserType, ProposeType}, NEW n \in 0..Serials - 1
    PROVE  /\ CombineSequenceNumber(type, n) \in Nat
           /\ GetTransType(CombineSequenceNumber(type, n)) = type
<1>1. type \in Nat /\ n \in Nat /\ n < Serials /\ Serials \in Nat /\ Serials > 0
  BY Sizes DEF RegistUserType, ProposeType
<1>2. type * Serials \in Nat
  BY <1>1
<1>3. (type * Serials + n) \div Serials = type
  BY <1>1, DivIs
<1> QED BY <1>1, <1>2, <1>3 DEF CombineSequenceNumber, GetTransType

LEMMA TransIs ==
    ASSUME NEW t \in Trans
    PROVE  /\ t \in Readable /\ t = [number |-> t.number, payload |-> t.payload]
           /\ t.number \in Nat /\ t.payload \in Nat /\ t.payload > 0
           /\ GetTransType(t.number) \in {RegistUserType, ProposeType}
           /\ Size(t) \in Nat /\ Size(t) >= 2
<1>1. PICK type \in {RegistUserType, ProposeType}, n \in 0..Serials - 1 : t.number = CombineSequenceNumber(type, n)
  BY DEF Trans
<1>2. t.number \in Nat /\ GetTransType(t.number) = type
  BY <1>1, NumberIs
<1>3. t.payload \in Nat /\ t.payload > 0 /\ t = [number |-> t.number, payload |-> t.payload]
  BY Sizes DEF Trans
<1>4. t \in Readable
  BY <1>2, <1>3 DEF Readable
<1> QED BY <1>2, <1>3, <1>4 DEF Size

\* Two sequences, one behind the other.
LEMMA ConcatIs ==
    ASSUME NEW S, NEW a \in Seq(S), NEW b \in Seq(S)
    PROVE  /\ a \o b \in Seq(S) /\ Len(a \o b) = Len(a) + Len(b)
           /\ \A i \in 1..Len(a) + Len(b) : (a \o b)[i] = IF i <= Len(a) THEN a[i] ELSE b[i - Len(a)]
OBVIOUS

\* The bytes of a transaction.
LEMMA EncodedIs ==
    ASSUME NEW t, t.number \in Nat, t.payload \in Nat
    PROVE  /\ Encoded(t) \in Seq(Cell) /\ Len(Encoded(t)) = Size(t) /\ Size(t) \in Nat /\ Size(t) >= 1
           /\ Encoded(t)[1] = Number(t.number)
           /\ \A j \in 1..t.payload : Encoded(t)[1 + j] = Part(t.payload, j)
<1> DEFINE p == t.payload
           a == <<Number(t.number)>>
           b == [i \in 1..p |-> Part(p, i)]
<1>1. a \in Seq(Cell) /\ Len(a) = 1 /\ a[1] = Number(t.number)
  BY DEF Number, Cell
<1>2. b \in [1..p -> Cell] /\ \A i \in 1..p : b[i] = Part(p, i)
  BY DEF Part, Cell
<1> HIDE DEF a, b
<1>3. b \in Seq(Cell) /\ Len(b) = p
  BY <1>2
<1>4. Encoded(t) = a \o b
  BY DEF Encoded, a, b
<1>5. a \o b \in Seq(Cell) /\ Len(a \o b) = 1 + p /\ \A i \in 1..Len(a \o b) :
        (a \o b)[i] = IF i <= 1 THEN a[i] ELSE b[i - 1]
  <2>1. /\ a \o b \in Seq(Cell) /\ Len(a \o b) = Len(a) + Len(b)
        /\ \A i \in 1..Len(a) + Len(b) : (a \o b)[i] = IF i <= Len(a) THEN a[i] ELSE b[i - Len(a)]
    BY <1>1, <1>3, ConcatIs
  <2> QED BY <1>1, <1>3, <2>1
<1>6. (a \o b)[1] = a[1] /\ \A j \in 1..p : (a \o b)[1 + j] = b[j]
  <2> DEFINE c == a \o b
  <2>1. Len(c) = 1 + p /\ \A i \in 1..Len(c) : c[i] = IF i <= 1 THEN a[i] ELSE b[i - 1]
    BY <1>5
  <2> HIDE DEF c
  <2>2. c[1] = a[1]
    BY <2>1
  <2>3. ASSUME NEW j \in 1..p PROVE c[1 + j] = b[j]
    <3>1. 1 + j \in 1..Len(c) /\ ~(1 + j <= 1) /\ (1 + j) - 1 = j
      BY <2>1
    <3> QED BY <2>1, <3>1
  <2> QED BY <2>2, <2>3 DEF c
<1> QED BY <1>1, <1>2, <1>4, <1>5, <1>6 DEF Size

\* Transactions by their index, and one more of them.
LEMMA SeqIs ==
    ASSUME NEW S, NEW s \in Seq(S)
    PROVE  /\ Len(s) \in Nat /\ DOMAIN s = 1..Len(s) /\ \A i \in 1..Len(s) : s[i] \in S
           /\ s = << >> <=> Len(s) = 0
           /\ \A t \in S : /\ Append(s, t) \in Seq(S) /\ Len(Append(s, t)) = Len(s) + 1
                           /\ Append(s, t)[Len(s) + 1] = t
                           /\ \A i \in 1..Len(s) : Append(s, t)[i] = s[i]
OBVIOUS

\* A part of a sequence.
LEMMA SubSeqIs ==
    ASSUME NEW S, NEW s \in Seq(S), NEW a \in Nat, NEW b \in Nat, a <= b, b <= Len(s)
    PROVE  /\ SubSeq(s, a + 1, b) \in Seq(S) /\ Len(SubSeq(s, a + 1, b)) = b - a
           /\ \A j \in 1..b - a : SubSeq(s, a + 1, b)[j] = s[a + j]
OBVIOUS

\* Sequences are equal that agree.
LEMMA SeqEqual ==
    ASSUME NEW S, NEW s \in Seq(S), NEW t \in Seq(S), Len(s) = Len(t), \A i \in 1..Len(s) : s[i] = t[i]
    PROVE  s = t
OBVIOUS
-----------------------------------------------------------------------------
(* Where the transactions end *)

\* The steps of the sum.
Sums(ts, g, k) == g = [n \in 0..k |-> IF n = 0 THEN 0 ELSE g[n - 1] + Size(ts[n])]

LEMMA SumsExist ==
    ASSUME NEW ts, NEW k \in Nat
    PROVE  \E g : Sums(ts, g, k)
<1> DEFINE S == {m \in 0..k : \E g : Sums(ts, g, m)}
<1>1. 0 \in S
  <2> DEFINE g == [n \in 0..0 |-> 0]
  <2>1. [n \in 0..0 |-> IF n = 0 THEN 0 ELSE g[n - 1] + Size(ts[n])] = g
    OBVIOUS
  <2>2. Sums(ts, g, 0)
    BY <2>1, Zenon DEF Sums
  <2> QED BY <2>2
<1>2. ASSUME NEW i \in 0..k - 1, i \in S PROVE i + 1 \in S
  <2>1. PICK g : Sums(ts, g, i)
    BY <1>2
  <2>2. i \in Nat /\ i + 1 \in 0..k
    OBVIOUS
  <2> DEFINE h == [n \in 0..i + 1 |-> IF n = i + 1 THEN g[i] + Size(ts[i + 1]) ELSE g[n]]
  <2>3. ASSUME NEW n \in 0..i + 1
        PROVE  h[n] = IF n = 0 THEN 0 ELSE h[n - 1] + Size(ts[n])
    <3>1. CASE n = i + 1
      <4>1. i \in 0..i + 1 /\ i # i + 1 /\ n - 1 = i /\ n # 0
        BY <2>2, <3>1
      <4>2. h[i] = g[i] /\ h[n] = g[i] + Size(ts[n])
        BY <3>1, <4>1
      <4> HIDE DEF h
      <4> QED BY <4>1, <4>2
    <3>2. CASE n # i + 1
      <4>1. n \in 0..i /\ (n # 0 => n - 1 \in 0..i + 1 /\ n - 1 # i + 1)
        BY <2>2, <3>2
      <4>2. h[n] = g[n] /\ (n # 0 => h[n - 1] = g[n - 1])
        BY <3>2, <4>1
      <4>3. g[n] = IF n = 0 THEN 0 ELSE g[n - 1] + Size(ts[n])
        BY <2>1, <4>1 DEF Sums
      <4> HIDE DEF h
      <4> QED BY <4>2, <4>3
    <3> QED BY <3>1, <3>2
  <2>4. h = [n \in 0..i + 1 |-> h[n]]
    OBVIOUS
  <2> HIDE DEF h
  <2>5. h = [n \in 0..i + 1 |-> IF n = 0 THEN 0 ELSE h[n - 1] + Size(ts[n])]
    BY <2>3, <2>4
  <2>6. Sums(ts, h, i + 1)
    BY <2>5, Zenon DEF Sums
  <2> QED BY <2>2, <2>6
<1> HIDE DEF S
<1>3. \A i \in 0..k : i \in S
  BY <1>1, <1>2, Reaches
<1>4. k \in S
  BY <1>3
<1> QED BY <1>4 DEF S

Total(ts) == Ends(ts)[Len(ts)]

LEMMA EndsIs ==
    ASSUME NEW ts \in Seq(Trans)
    PROVE  /\ Ends(ts)[0] = 0
           /\ \A n \in 1..Len(ts) : Ends(ts)[n] = Ends(ts)[n - 1] + Size(ts[n])
           /\ \A n \in 0..Len(ts) : Ends(ts)[n] \in Nat
           /\ Total(ts) \in Nat
<1> DEFINE k == Len(ts)
           g == Ends(ts)
           S == {n \in 0..k : g[n] \in Nat}
<1>1. k \in Nat
  OBVIOUS
<1>2. g = [n \in 0..k |-> IF n = 0 THEN 0 ELSE g[n - 1] + Size(ts[n])]
  <2>1. PICK f : Sums(ts, f, k)
    BY <1>1, SumsExist
  <2>2. f = [n \in 0..k |-> IF n = 0 THEN 0 ELSE f[n - 1] + Size(ts[n])]
    BY <2>1, Zenon DEF Sums
  <2>3. g = CHOOSE h : h = [n \in 0..k |-> IF n = 0 THEN 0 ELSE h[n - 1] + Size(ts[n])]
    BY DEF Ends
  <2> HIDE DEF g, k
  <2> QED BY <2>2, <2>3, Zenon
<1> HIDE DEF g
<1>3. g[0] = 0 /\ \A n \in 1..k : g[n] = g[n - 1] + Size(ts[n])
  <2>1. 0 \in 0..k /\ \A n \in 1..k : n \in 0..k /\ n # 0
    BY <1>1
  <2> HIDE DEF k
  <2> QED BY <1>2, <2>1
<1>4. 0 \in S
  BY <1>1, <1>3
<1>5. ASSUME NEW n \in 0..k - 1, n \in S PROVE n + 1 \in S
  <2>1. PICK j \in 1..k : j = n + 1
    BY <1>1
  <2>2. g[j] = g[n] + Size(ts[j])
    <3>1. j - 1 = n
      BY <1>1, <2>1
    <3> QED BY <1>3, <3>1
  <2>3. Size(ts[j]) \in Nat
    <3>1. ts[j] \in Trans
      BY <1>1
    <3> QED BY <3>1, TransIs
  <2>4. g[j] \in Nat /\ j \in 0..k
    BY <1>1, <1>5, <2>2, <2>3
  <2> QED BY <2>1, <2>4
<1> HIDE DEF S, k
<1>6. \A n \in 0..k : n \in S
  BY <1>1, <1>4, <1>5, Reaches
<1>7. \A n \in 0..k : g[n] \in Nat
  BY <1>6 DEF S
<1>8. g[k] \in Nat
  BY <1>1, <1>7
<1> QED BY <1>3, <1>7, <1>8 DEF g, k, Total

\* One more transaction does not move the others.
LEMMA EndsAppend ==
    ASSUME NEW ts \in Seq(Trans), NEW t \in Trans
    PROVE  /\ \A n \in 0..Len(ts) : Ends(Append(ts, t))[n] = Ends(ts)[n]
           /\ Total(Append(ts, t)) = Total(ts) + Size(t)
<1> DEFINE k == Len(ts)
           us == Append(ts, t)
           g == Ends(ts)
           h == Ends(us)
           S == {n \in 0..k : h[n] = g[n]}
<1>1. k \in Nat /\ us \in Seq(Trans) /\ Len(us) = k + 1 /\ us[k + 1] = t /\ \A i \in 1..k : us[i] = ts[i]
  BY SeqIs
<1>2. g[0] = 0 /\ \A n \in 1..k : g[n] = g[n - 1] + Size(ts[n])
  BY EndsIs
<1>3. h[0] = 0 /\ \A n \in 1..k + 1 : h[n] = h[n - 1] + Size(us[n])
  BY <1>1, EndsIs
<1> HIDE DEF g, h, us, k
<1>4. 0 \in S
  BY <1>1, <1>2, <1>3
<1>5. ASSUME NEW n \in 0..k - 1, n \in S PROVE n + 1 \in S
  <2>1. PICK j \in 1..k : j = n + 1
    BY <1>1
  <2>2. j \in 1..k + 1 /\ j \in 0..k /\ j - 1 = n
    BY <1>1, <2>1
  <2>3. h[j] = g[j]
    BY <1>1, <1>2, <1>3, <1>5, <2>2
  <2> QED BY <2>1, <2>2, <2>3
<1> HIDE DEF S
<1>6. \A n \in 0..k : n \in S
  BY <1>1, <1>4, <1>5, Reaches
<1>7. \A n \in 0..k : h[n] = g[n]
  BY <1>6 DEF S
<1>8. h[k + 1] = g[k] + Size(t)
  <2>1. PICK j \in 1..k + 1 : j = k + 1
    BY <1>1
  <2>2. h[j] = h[j - 1] + Size(us[j])
    BY <1>3
  <2>3. j - 1 = k /\ k \in 0..k /\ us[j] = t
    BY <1>1, <2>1
  <2>4. h[k] = g[k]
    BY <1>7, <2>3
  <2> QED BY <2>1, <2>2, <2>3, <2>4
<1> QED BY <1>1, <1>7, <1>8 DEF g, h, us, k, Total
-----------------------------------------------------------------------------
(* What is written and what the tree holds *)

\* The bytes begin with the transactions ts.
Written(bytes, ts) ==
  /\ bytes \in Seq(Cell) /\ Total(ts) <= Len(bytes)
  /\ \A n \in 1..Len(ts) : \A j \in 1..Size(ts[n]) : bytes[Ends(ts)[n - 1] + j] = Encoded(ts[n])[j]

\* Ends grow.
LEMMA EndsGrow ==
    ASSUME NEW ts \in Seq(Trans)
    PROVE  \A n \in 0..Len(ts) : Ends(ts)[n] <= Total(ts)
<1> DEFINE k == Len(ts)
           g == Ends(ts)
           S == {i \in 0..k : g[k - i] <= Total(ts)}
<1>1. k \in Nat /\ Total(ts) = g[k] /\ g[k] \in Nat
  BY EndsIs DEF Total
<1>2. \A n \in 1..k : g[n] = g[n - 1] + Size(ts[n])
  BY EndsIs
<1>3. \A n \in 0..k : g[n] \in Nat
  BY EndsIs
<1>4. \A n \in 1..k : Size(ts[n]) \in Nat
  BY TransIs
<1> HIDE DEF g, k
<1>5. 0 \in S
  BY <1>1
<1>6. ASSUME NEW i \in 0..k - 1, i \in S PROVE i + 1 \in S
  <2>1. PICK n \in 1..k : n = k - i
    BY <1>1
  <2>2. n - 1 = k - (i + 1) /\ n - 1 \in 0..k /\ n \in 0..k /\ i + 1 \in 0..k
    BY <1>1, <2>1
  <2>3. g[n] = g[n - 1] + Size(ts[n]) /\ g[n - 1] \in Nat /\ g[n] \in Nat /\ Size(ts[n]) \in Nat
    BY <1>2, <1>3, <1>4, <2>2
  <2>4. g[n] <= Total(ts)
    BY <1>6, <2>1
  <2>5. g[n - 1] <= Total(ts)
    BY <1>1, <2>3, <2>4
  <2> QED BY <2>2, <2>5
<1> HIDE DEF S
<1>7. \A i \in 0..k : i \in S
  BY <1>1, <1>5, <1>6, Reaches
<1>8. ASSUME NEW n \in 0..k PROVE g[n] <= Total(ts)
  <2>1. k - n \in S /\ k - (k - n) = n
    BY <1>1, <1>7
  <2> QED BY <2>1 DEF S
<1> QED BY <1>8 DEF g, k

\* The places of a transaction are within the total.
LEMMA PlaceIs ==
    ASSUME NEW ts \in Seq(Trans), NEW n \in 1..Len(ts), NEW j \in 1..Size(ts[n])
    PROVE  Ends(ts)[n - 1] + j \in 1..Total(ts)
<1>1. ts[n] \in Trans /\ n - 1 \in 0..Len(ts) /\ n \in 0..Len(ts)
  BY SeqIs
<1>2. Size(ts[n]) \in Nat
  BY <1>1, TransIs
<1>3. /\ Ends(ts)[n] = Ends(ts)[n - 1] + Size(ts[n]) /\ Ends(ts)[n - 1] \in Nat
      /\ Total(ts) \in Nat /\ Ends(ts)[n] <= Total(ts)
  BY <1>1, EndsIs, EndsGrow
<1> QED BY <1>2, <1>3

\* The written part of a buffer can move.
LEMMA WrittenMoves ==
    ASSUME NEW ts \in Seq(Trans), NEW a, Written(a, ts), NEW b \in Seq(Cell), Total(ts) <= Len(b),
           \A i \in 1..Total(ts) : b[i] = a[i]
    PROVE  Written(b, ts)
<1> SUFFICES ASSUME NEW n \in 1..Len(ts), NEW j \in 1..Size(ts[n])
             PROVE  b[Ends(ts)[n - 1] + j] = Encoded(ts[n])[j]
  BY DEF Written
<1>1. Ends(ts)[n - 1] + j \in 1..Total(ts)
  BY PlaceIs
<1>2. a[Ends(ts)[n - 1] + j] = Encoded(ts[n])[j]
  BY DEF Written
<1> QED BY <1>1, <1>2

\* One more transaction is written.
LEMMA WrittenAppend ==
    ASSUME NEW ts \in Seq(Trans), NEW t \in Trans, NEW a, Written(a, ts),
           Total(ts) + Size(t) <= Len(a),
           \A j \in 1..Size(t) : a[Total(ts) + j] = Encoded(t)[j]
    PROVE  Written(a, Append(ts, t))
<1> DEFINE us == Append(ts, t)
           k == Len(ts)
<1>1. k \in Nat /\ us \in Seq(Trans) /\ Len(us) = k + 1 /\ us[k + 1] = t /\ \A i \in 1..k : us[i] = ts[i]
  BY SeqIs
<1>2. (\A n \in 0..k : Ends(us)[n] = Ends(ts)[n]) /\ Total(us) = Total(ts) + Size(t)
  BY EndsAppend
<1>3. Total(ts) = Ends(ts)[k]
  BY DEF Total
<1> HIDE DEF us, k
<1>4. ASSUME NEW n \in 1..k + 1, NEW j \in 1..Size(us[n])
      PROVE  a[Ends(us)[n - 1] + j] = Encoded(us[n])[j]
  <2>1. CASE n = k + 1
    <3>1. n - 1 = k /\ us[n] = t /\ k \in 0..k
      BY <1>1, <2>1
    <3>2. Ends(us)[n - 1] = Total(ts)
      BY <1>2, <1>3, <3>1
    <3> QED BY <3>1, <3>2
  <2>2. CASE n # k + 1
    <3>1. n \in 1..k /\ n - 1 \in 0..k
      BY <1>1, <2>2
    <3>2. us[n] = ts[n] /\ Ends(us)[n - 1] = Ends(ts)[n - 1]
      BY <1>1, <1>2, <3>1
    <3>3. \A i \in 1..Size(ts[n]) : a[Ends(ts)[n - 1] + i] = Encoded(ts[n])[i]
      BY <3>1 DEF Written, k
    <3> QED BY <3>2, <3>3
  <2> QED BY <2>1, <2>2
<1>5. Written(a, us)
  BY <1>1, <1>2, <1>4 DEF Written
<1> QED BY <1>5 DEF us

\* Where the same transactions are written, the same bytes are.
LEMMA WrittenSame ==
    ASSUME NEW ts \in Seq(Trans), NEW a, NEW b, Written(a, ts), Written(b, ts)
    PROVE  \A i \in 1..Total(ts) : a[i] = b[i]
<1> DEFINE k == Len(ts)
           g == Ends(ts)
           S == {n \in 0..k : \A i \in 1..g[n] : a[i] = b[i]}
<1>1. k \in Nat /\ g[0] = 0 /\ Total(ts) = g[k]
  BY EndsIs DEF Total
<1>2. \A n \in 1..k : g[n] = g[n - 1] + Size(ts[n]) /\ Size(ts[n]) \in Nat
  <2>1. \A n \in 1..k : ts[n] \in Trans
    OBVIOUS
  <2>2. \A n \in 1..k : Size(ts[n]) \in Nat
    BY <2>1, TransIs
  <2>3. \A n \in 1..k : g[n] = g[n - 1] + Size(ts[n])
    BY EndsIs
  <2> QED BY <2>2, <2>3
<1>3. \A n \in 0..k : g[n] \in Nat
  BY EndsIs
<1>4. \A n \in 1..k : \A j \in 1..Size(ts[n]) : a[g[n - 1] + j] = b[g[n - 1] + j]
  BY DEF Written
<1> HIDE DEF g, k
<1>5. 0 \in S
  BY <1>1
<1>6. ASSUME NEW n \in 0..k - 1, n \in S PROVE n + 1 \in S
  <2>1. PICK m \in 1..k : m = n + 1
    BY <1>1
  <2>2. m - 1 = n /\ m \in 0..k /\ n \in 0..k
    BY <1>1, <2>1
  <2>3. g[m] = g[n] + Size(ts[m]) /\ g[n] \in Nat /\ g[m] \in Nat /\ Size(ts[m]) \in Nat
    BY <1>2, <1>3, <2>2
  <2>4. \A i \in 1..g[n] : a[i] = b[i]
    BY <1>6
  <2>5. ASSUME NEW i \in 1..g[m] PROVE a[i] = b[i]
    <3>1. CASE i <= g[n]
      BY <2>3, <2>4, <3>1
    <3>2. CASE ~(i <= g[n])
      <4>1. PICK j \in 1..Size(ts[m]) : i = g[n] + j
        <5>1. i - g[n] \in 1..Size(ts[m]) /\ i = g[n] + (i - g[n])
          BY <2>3, <3>2
        <5> QED BY <5>1
      <4>2. a[g[m - 1] + j] = b[g[m - 1] + j]
        BY <1>4
      <4> QED BY <2>2, <4>1, <4>2
    <3> QED BY <3>1, <3>2
  <2> QED BY <2>1, <2>2, <2>5
<1> HIDE DEF S
<1>7. \A n \in 0..k : n \in S
  BY <1>1, <1>5, <1>6, Reaches
<1>8. k \in S
  BY <1>1, <1>7
<1> QED BY <1>1, <1>8 DEF S

\* A tree whose first n nodes are the leaves of D.
Leaves(tr, D, n) ==
  /\ tr = [nodes |-> tr.nodes, num |-> tr.num]
  /\ Array(tr.nodes, Len(tr.nodes)) /\ Len(tr.nodes) >= 1
  /\ n \in Nat /\ tr.num = n /\ n <= Len(tr.nodes)
  /\ \A i \in 1..n : tr.nodes[i] = LeafDigest(D[i])

\* AddLeafNode adds a leaf and grows the array when it is full.
LEMMA AddLeafIs ==
    ASSUME NEW tr, NEW D, NEW n, Leaves(tr, D, n), NEW E, \A i \in 1..n : E[i] = D[i]
    PROVE  Leaves(AddLeafNode(tr, E[n + 1]), E, n + 1)
<1> DEFINE l == Len(tr.nodes)
           room == IF tr.num >= l THEN InceaseNode(tr) ELSE tr
           m == IF n >= l THEN l + NodeStep ELSE l
           u == AddLeafNode(tr, E[n + 1])
<1>1. /\ Array(tr.nodes, l) /\ l \in Nat /\ l >= 1 /\ n \in Nat /\ tr.num = n /\ n <= l
      /\ tr = [nodes |-> tr.nodes, num |-> tr.num] /\ tr.nodes = [i \in 1..l |-> tr.nodes[i]]
      /\ NodeStep \in Nat /\ NodeStep > 0
  BY Sizes DEF Leaves, Array
<1>2. u = [nodes |-> [room.nodes EXCEPT ![n + 1] = LeafDigest(E[n + 1])], num |-> n + 1]
  BY <1>1 DEF AddLeafNode
<1> HIDE DEF l
<1>3. Array(room.nodes, m) /\ \A i \in 1..n : room.nodes[i] = tr.nodes[i]
  <2>1. CASE n >= l
    <3> DEFINE f == [i \in 1..(l + NodeStep) |-> IF i <= tr.num THEN tr.nodes[i] ELSE Uninitialised]
    <3>1. InceaseNode(tr).nodes = f
      BY <1>1 DEF InceaseNode, l
    <3>2. f = [i \in 1..l + NodeStep |-> f[i]] /\ \A i \in 1..n : f[i] = tr.nodes[i]
      BY <1>1
    <3> HIDE DEF f
    <3>3. room.nodes = f /\ m = l + NodeStep
      BY <1>1, <2>1, <3>1
    <3>4. Array(f, l + NodeStep)
      BY <1>1, <3>2 DEF Array
    <3> HIDE DEF room, m
    <3> QED BY <3>2, <3>3, <3>4
  <2>2. CASE ~(n >= l)
    BY <1>1, <2>2
  <2> QED BY <2>1, <2>2
<1>4. m \in Nat /\ n + 1 \in 1..m /\ m >= 1
  BY <1>1
<1> HIDE DEF room, m, u
<1> DEFINE f == [room.nodes EXCEPT ![n + 1] = LeafDigest(E[n + 1])]
<1>5. /\ f = [i \in 1..m |-> f[i]] /\ f[n + 1] = LeafDigest(E[n + 1])
      /\ \A i \in 1..n : f[i] = room.nodes[i]
  <2> DEFINE e == LeafDigest(E[n + 1])
             r == room.nodes
  <2>1. r = [i \in 1..m |-> r[i]] /\ f = [r EXCEPT ![n + 1] = e]
    BY <1>3 DEF Array
  <2> HIDE DEF e, r, f
  <2>2. DOMAIN f = 1..m /\ f = [i \in 1..m |-> f[i]] /\ f[n + 1] = e
    BY <1>4, <2>1
  <2>3. ASSUME NEW i \in 1..n PROVE f[i] = r[i]
    <3>1. i \in 1..m /\ i # n + 1
      BY <1>1, <1>4
    <3> QED BY <2>1, <3>1
  <2> QED BY <2>2, <2>3 DEF e, r
<1>6. u.nodes = f /\ u.num = n + 1 /\ u = [nodes |-> u.nodes, num |-> u.num]
  BY <1>2
<1> HIDE DEF f
<1>7. Array(u.nodes, m) /\ Len(u.nodes) = m
  BY <1>4, <1>5, <1>6, ArrayLen DEF Array
<1>8. ASSUME NEW i \in 1..n + 1 PROVE u.nodes[i] = LeafDigest(E[i])
  <2>1. CASE i = n + 1
    BY <1>5, <1>6, <2>1
  <2>2. CASE i # n + 1
    <3>1. i \in 1..n
      BY <1>1, <2>2
    <3>2. tr.nodes[i] = LeafDigest(D[i]) /\ E[i] = D[i]
      BY <3>1 DEF Leaves
    <3> QED BY <1>3, <1>5, <1>6, <3>1, <3>2
  <2> QED BY <2>1, <2>2
<1>9. n + 1 \in Nat /\ n + 1 <= m
  BY <1>1, <1>4
<1>10. Leaves(u, E, n + 1)
  BY <1>4, <1>6, <1>7, <1>8, <1>9 DEF Leaves
<1> QED BY <1>10 DEF u

\* Only the leaves count.
LEMMA LeavesSame ==
    ASSUME NEW tr, NEW D, NEW n, Leaves(tr, D, n), NEW E, \A i \in 1..n : E[i] = D[i]
    PROVE  Leaves(tr, E, n)
BY DEF Leaves

\* An array of a tree without leaves.
LEMMA ClearLeaves ==
    ASSUME NEW tr, NEW D, NEW n, Leaves(tr, D, n), NEW E
    PROVE  Leaves(Clear(tr), E, 0)
BY DEF Leaves, Clear

\* The root of these leaves, in an array that just holds them.
Root(D, n) == BuildLevels([i \in 1..n |-> LeafDigest(D[i])], n)[1]

\* The root of a tree depends on its leaves only.
LEMMA RootIs ==
    ASSUME NEW tr, NEW D, NEW n, Leaves(tr, D, n)
    PROVE  /\ Leaves(Clear(BuildMerkleTree(tr)), D, 0)
           /\ n >= 1 => GetRoot(BuildMerkleTree(tr)) = Root(D, n)
<1> DEFINE l == Len(tr.nodes)
           a == BuildLevels(tr.nodes, n)
           b == [i \in 1..n |-> LeafDigest(D[i])]
           u == BuildMerkleTree(tr)
<1>1. /\ Array(tr.nodes, l) /\ l \in Nat /\ l >= 1 /\ n \in Nat /\ tr.num = n /\ n <= l
      /\ tr = [nodes |-> tr.nodes, num |-> tr.num]
  BY DEF Leaves, Array
<1>2. u = [nodes |-> a, num |-> n]
  BY <1>1 DEF BuildMerkleTree
<1>3. Array(a, l)
  <2>1. n \in 0..l
    BY <1>1
  <2> HIDE DEF l
  <2> QED BY <1>1, <2>1, BuildArray
<1>4. Len(a) = l
  BY <1>3, ArrayLen
<1> HIDE DEF a, u
<1>5. Leaves(Clear(u), D, 0)
  <2>1. Clear(u) = [nodes |-> a, num |-> 0]
    BY <1>2 DEF Clear
  <2> HIDE DEF l
  <2> QED BY <1>1, <1>3, <1>4, <2>1 DEF Leaves
<1>6. ASSUME n >= 1 PROVE a[1] = Root(D, n)
  <2>1. Array(b, n) /\ Agree(tr.nodes, b, n)
    BY <1>1 DEF Array, Agree, Leaves
  <2> HIDE DEF b, l
  <2>2. BuildLevels(tr.nodes, n)[1] = BuildLevels(b, n)[1] <=> Agree(tr.nodes, b, n)
    BY <1>1, <1>6, <2>1, RootsAgree
  <2> QED BY <2>1, <2>2 DEF Root, a, b
<1> QED BY <1>2, <1>5, <1>6 DEF u, GetRoot

\* Trees of as many leaves with the same root have the same leaves
\* (CMerkelTree::BuildMerkleTree).
THEOREM RootTells ==
    ASSUME NEW n \in Nat, n >= 1, NEW D, NEW E, Root(D, n) = Root(E, n)
    PROVE  \A i \in 1..n : D[i] = E[i]
<1> DEFINE a == [i \in 1..n |-> LeafDigest(D[i])]
           b == [i \in 1..n |-> LeafDigest(E[i])]
<1>1. Array(a, n) /\ Array(b, n)
  BY DEF Array
<1>2. \A i \in 1..n : a[i] = <<"leaf", D[i]>> /\ b[i] = <<"leaf", E[i]>>
  BY DEF LeafDigest
<1>3. BuildLevels(a, n)[1] = BuildLevels(b, n)[1]
  BY DEF Root
<1> HIDE DEF a, b
<1>4. Agree(a, b, n)
  BY <1>1, <1>3, RootsAgree
<1>5. ASSUME NEW i \in 1..n PROVE D[i] = E[i]
  <2>1. <<"leaf", D[i]>> = <<"leaf", E[i]>>
    BY <1>2, <1>4 DEF Agree
  <2> QED BY <2>1
<1> QED BY <1>5
-----------------------------------------------------------------------------
(* The encoder *)

\* The bytes of each transaction.
Coded(ts) == [n \in 1..Len(ts) |-> Encoded(ts[n])]

\* An encoder that has encoded the transactions ts.
Buffered(e, ts) ==
  /\ e = [buf |-> e.buf, offset |-> e.offset, tree |-> e.tree, count |-> e.count]
  /\ ts \in Seq(Trans) /\ Written(e.buf, ts) /\ e.offset = Total(ts)
  /\ Leaves(e.tree, Coded(ts), Len(ts)) /\ e.count = Len(ts)

\* No transactions, in a buffer as allocated.
LEMMA NewBufferIs ==
    ASSUME NEW size \in Nat
    PROVE  /\ << >> \in Seq(Trans) /\ Len(<< >>) = 0 /\ Total(<< >>) = 0
           /\ Written(NewBuffer(size), << >>)
<1>1. << >> \in Seq(Trans) /\ Len(<< >>) = 0
  OBVIOUS
<1>2. Total(<< >>) = 0
  BY <1>1, EndsIs DEF Total
<1> DEFINE b == NewBuffer(size)
<1>3. b \in [1..size -> Cell]
  BY DEF NewBuffer, Junk, Cell
<1> HIDE DEF b
<1>4. b \in Seq(Cell) /\ Len(b) = size
  BY <1>3
<1>5. Written(b, << >>)
  BY <1>1, <1>2, <1>4 DEF Written
<1> QED BY <1>1, <1>2, <1>5 DEF b

LEMMA NewTreeIs == Leaves(NewTree, Coded(<< >>), 0)
<1> DEFINE f == [i \in 1..InitNodes |-> Uninitialised]
<1>1. NewTree = [nodes |-> f, num |-> 0]
  BY DEF NewTree
<1>2. f = [i \in 1..InitNodes |-> f[i]]
  OBVIOUS
<1> HIDE DEF f
<1>3. Array(f, InitNodes) /\ Len(f) = InitNodes /\ InitNodes >= 1 /\ InitNodes \in Nat
  BY <1>2, Sizes, ArrayLen DEF Array
<1> QED BY <1>1, <1>3 DEF Leaves

\* Encode writes one transaction more and adds its leaf.
LEMMA EncodeIs ==
    ASSUME NEW e, NEW ts, Buffered(e, ts), Len(ts) < MaxCount, NEW t \in Trans,
           Total(ts) + Size(t) <= Len(e.buf)
    PROVE  Buffered(Encode(e, t), Append(ts, t)) /\ Len(Encode(e, t).buf) = Len(e.buf)
<1> DEFINE o == Total(ts)
           k == Len(ts)
           z == Size(t)
           l == Len(e.buf)
           code == Encoded(t)
           bytes == [i \in DOMAIN e.buf |-> IF i \in (e.offset + 1)..(e.offset + Size(t))
                                            THEN Encoded(t)[i - e.offset] ELSE e.buf[i]]
           us == Append(ts, t)
           f == Encode(e, t)
<1>1. /\ ts \in Seq(Trans) /\ e.buf \in Seq(Cell) /\ e.offset = o /\ e.count = k
      /\ Leaves(e.tree, Coded(ts), k) /\ Written(e.buf, ts)
  BY DEF Buffered, Written
<1>2. o \in Nat /\ k \in Nat /\ l \in Nat
  BY <1>1, EndsIs
<1>3. code \in Seq(Cell) /\ Len(code) = z /\ z \in Nat /\ z >= 1
  <2>1. t.number \in Nat /\ t.payload \in Nat
    BY TransIs
  <2> QED BY <2>1, EncodedIs
<1>4. k + 1 \in Nat /\ us \in Seq(Trans) /\ Len(us) = k + 1 /\ us[k + 1] = t /\ \A i \in 1..k : us[i] = ts[i]
  BY <1>1, SeqIs
<1>5. Total(us) = o + z
  BY <1>1, EndsAppend
<1>6. f = [buf |-> bytes, offset |-> e.offset + Size(t),
           tree |-> AddLeafNode(e.tree, SubSeq(bytes, e.offset + 1, e.offset + Size(t))),
           count |-> (e.count + 1) % (MaxCount + 1)]
  BY DEF Encode
<1>7. /\ bytes \in [1..l -> Cell]
      /\ \A i \in 1..o : bytes[i] = e.buf[i]
      /\ \A j \in 1..z : bytes[o + j] = code[j]
  <2> DEFINE b == e.buf
             g == [i \in DOMAIN b |-> IF i \in (o + 1)..(o + z) THEN code[i - o] ELSE b[i]]
  <2>1. bytes = g
    BY <1>1
  <2>2. DOMAIN b = 1..l /\ \A i \in 1..l : b[i] \in Cell
    BY <1>1
  <2>3. \A j \in 1..z : code[j] \in Cell
    BY <1>3
  <2> HIDE DEF b, o, code, z, l
  <2>4. ASSUME NEW i \in 1..l PROVE g[i] \in Cell
    <3>1. i \in (o + 1)..(o + z) => i - o \in 1..z
      BY <1>2, <1>3
    <3> QED BY <2>2, <2>3, <3>1
  <2>5. g \in [1..l -> Cell]
    BY <2>2, <2>4
  <2>6. o + z <= l
    BY DEF o, z, l
  <2>7. ASSUME NEW i \in 1..o PROVE g[i] = b[i]
    <3>1. i \in 1..l /\ i \notin (o + 1)..(o + z)
      BY <1>2, <1>3, <2>6
    <3> QED BY <2>2, <3>1
  <2>8. ASSUME NEW j \in 1..z PROVE g[o + j] = code[j]
    <3>1. o + j \in 1..l /\ o + j \in (o + 1)..(o + z) /\ (o + j) - o = j
      BY <1>2, <1>3, <2>6
    <3> QED BY <2>2, <3>1
  <2> HIDE DEF g, bytes
  <2> QED BY <2>1, <2>5, <2>7, <2>8 DEF b
<1> HIDE DEF bytes, f, us, code, o, k
<1>8. bytes \in Seq(Cell) /\ Len(bytes) = l
  BY <1>2, <1>7
<1>9. o + z <= Len(bytes)
  BY <1>8 DEF o
<1>10. SubSeq(bytes, o + 1, o + z) = code
  <2> HIDE DEF z, l
  <2>1. o + z \in Nat /\ o <= o + z /\ (o + z) - o = z
    BY <1>2, <1>3
  <2>2. /\ SubSeq(bytes, o + 1, o + z) \in Seq(Cell) /\ Len(SubSeq(bytes, o + 1, o + z)) = z
        /\ \A j \in 1..z : SubSeq(bytes, o + 1, o + z)[j] = bytes[o + j]
    BY <1>2, <1>8, <1>9, <2>1, SubSeqIs
  <2>3. \A j \in 1..z : SubSeq(bytes, o + 1, o + z)[j] = code[j]
    BY <1>7, <2>2
  <2> QED BY <1>3, <2>2, <2>3, SeqEqual
<1>11. Written(bytes, us)
  <2>1. Written(bytes, ts)
    BY <1>1, <1>2, <1>3, <1>7, <1>8, <1>9, WrittenMoves DEF o
  <2> QED BY <1>1, <1>7, <1>9, <2>1, WrittenAppend DEF o, us, code
<1>12. Leaves(AddLeafNode(e.tree, code), Coded(us), k + 1)
  <2> DEFINE D == Coded(ts)
             E == Coded(us)
  <2>1. \A i \in 1..k : E[i] = D[i]
    BY <1>1, <1>2, <1>4 DEF Coded, k
  <2>2. E[k + 1] = code
    BY <1>2, <1>4 DEF Coded, code
  <2> HIDE DEF D, E
  <2>3. Leaves(AddLeafNode(e.tree, E[k + 1]), E, k + 1)
    BY <1>1, <2>1, AddLeafIs DEF D
  <2> QED BY <2>2, <2>3 DEF E
<1>13. (e.count + 1) % (MaxCount + 1) = k + 1
  <2>1. k + 1 \in Nat /\ k + 1 < MaxCount + 1 /\ MaxCount + 1 \in Nat /\ MaxCount + 1 > 0
    BY <1>2, Sizes DEF k
  <2>2. (k + 1) % (MaxCount + 1) = k + 1
    BY <2>1, ModIs
  <2> QED BY <1>1, <2>2
<1>14. /\ f.buf = bytes /\ f.offset = o + z /\ f.tree = AddLeafNode(e.tree, code) /\ f.count = k + 1
       /\ f = [buf |-> f.buf, offset |-> f.offset, tree |-> f.tree, count |-> f.count]
  BY <1>1, <1>6, <1>10, <1>13
<1>15. Buffered(f, us)
  BY <1>4, <1>5, <1>11, <1>12, <1>14 DEF Buffered
<1> QED BY <1>8, <1>14, <1>15 DEF f, us

\* The loop over one transaction and over two.
Looped(e, t, u) ==
  /\ EncodeAll(e, <<t>>) = Encode(e, t)
  /\ EncodeAll(e, <<t, u>>) = Encode(Encode(e, t), u)

LEMMA EncodeAllIs ==
    ASSUME NEW e, NEW t, NEW u
    PROVE  Looped(e, t, u)
<1> DEFINE G(ts, g) == g = [n \in 0..Len(ts) |-> IF n = 0 THEN e ELSE Encode(g[n - 1], ts[n])]
           f == Encode(e, t)
           h == Encode(f, u)
<1>1. Len(<<t>>) = 1 /\ <<t>>[1] = t /\ Len(<<t, u>>) = 2 /\ <<t, u>>[1] = t /\ <<t, u>>[2] = u
  OBVIOUS
<1>2. 0..1 = {0, 1} /\ 0..2 = {0, 1, 2} /\ 1 - 1 = 0 /\ 2 - 1 = 1
  OBVIOUS
<1>3. \E g : G(<<t>>, g)
  <2> DEFINE g == [n \in 0..1 |-> IF n = 0 THEN e ELSE f]
  <2>1. ASSUME NEW n \in 0..1 PROVE g[n] = IF n = 0 THEN e ELSE Encode(g[n - 1], <<t>>[n])
    <3>1. g[0] = e /\ g[1] = f
      BY <1>2
    <3> HIDE DEF g
    <3> QED BY <1>1, <1>2, <3>1
  <2>2. g = [n \in 0..1 |-> g[n]]
    OBVIOUS
  <2> HIDE DEF g
  <2>3. g = [n \in 0..Len(<<t>>) |-> IF n = 0 THEN e ELSE Encode(g[n - 1], <<t>>[n])]
    BY <1>1, <2>1, <2>2
  <2> QED BY <2>3, Zenon
<1>4. \E g : G(<<t, u>>, g)
  <2> DEFINE g == [n \in 0..2 |-> IF n = 0 THEN e ELSE IF n = 1 THEN f ELSE h]
  <2>1. ASSUME NEW n \in 0..2 PROVE g[n] = IF n = 0 THEN e ELSE Encode(g[n - 1], <<t, u>>[n])
    <3>1. g[0] = e /\ g[1] = f /\ g[2] = h
      BY <1>2
    <3> HIDE DEF g
    <3> QED BY <1>1, <1>2, <3>1
  <2>2. g = [n \in 0..2 |-> g[n]]
    OBVIOUS
  <2> HIDE DEF g
  <2>3. g = [n \in 0..Len(<<t, u>>) |-> IF n = 0 THEN e ELSE Encode(g[n - 1], <<t, u>>[n])]
    BY <1>1, <2>1, <2>2
  <2> QED BY <2>3, Zenon
<1>5. ASSUME NEW ts, \E g : G(ts, g)
      PROVE  \E g : G(ts, g) /\ EncodeAll(e, ts) = g[Len(ts)]
  <2> DEFINE g == CHOOSE x : G(ts, x)
  <2>1. EncodeAll(e, ts) = g[Len(ts)]
    BY DEF EncodeAll
  <2>2. G(ts, g)
    BY <1>5, Zenon
  <2> QED BY <2>1, <2>2
<1>6. EncodeAll(e, <<t>>) = f
  <2>1. PICK g : G(<<t>>, g) /\ EncodeAll(e, <<t>>) = g[Len(<<t>>)]
    BY <1>3, <1>5, Zenon
  <2>2. g = [n \in 0..1 |-> IF n = 0 THEN e ELSE Encode(g[n - 1], <<t>>[n])]
    BY <1>1, <2>1
  <2>3. g[0] = e /\ g[1] = Encode(g[0], t)
    BY <1>1, <1>2, <2>2
  <2> QED BY <1>1, <2>1, <2>3
<1>7. EncodeAll(e, <<t, u>>) = h
  <2>1. PICK g : G(<<t, u>>, g) /\ EncodeAll(e, <<t, u>>) = g[Len(<<t, u>>)]
    BY <1>4, <1>5, Zenon
  <2>2. g = [n \in 0..2 |-> IF n = 0 THEN e ELSE Encode(g[n - 1], <<t, u>>[n])]
    BY <1>1, <2>1
  <2>3. g[0] = e /\ g[1] = Encode(g[0], t) /\ g[2] = Encode(g[1], u)
    BY <1>1, <1>2, <2>2
  <2> QED BY <1>1, <2>1, <2>3
<1> QED BY <1>6, <1>7 DEF Looped
-----------------------------------------------------------------------------
(* The decoder *)

\* The steps of the loop of vbhDecodeMemBcBloc.
Decodes(bytes, mt, g, k) ==
  g = [n \in 0..k |-> IF n = 0 THEN [pos |-> 0, trans |-> << >>, tree |-> Clear(mt)]
                                ELSE DecodeTransaction(bytes, g[n - 1])]

LEMMA DecodesExist ==
    ASSUME NEW bytes, NEW mt, NEW k \in Nat
    PROVE  \E g : Decodes(bytes, mt, g, k)
<1> DEFINE z == [pos |-> 0, trans |-> << >>, tree |-> Clear(mt)]
           S == {m \in 0..k : \E g : Decodes(bytes, mt, g, m)}
<1>1. 0 \in S
  <2> DEFINE g == [n \in 0..0 |-> z]
  <2>1. [n \in 0..0 |-> IF n = 0 THEN z ELSE DecodeTransaction(bytes, g[n - 1])] = g
    OBVIOUS
  <2>2. Decodes(bytes, mt, g, 0)
    BY <2>1, Zenon DEF Decodes
  <2> QED BY <2>2
<1>2. ASSUME NEW i \in 0..k - 1, i \in S PROVE i + 1 \in S
  <2>1. PICK g : Decodes(bytes, mt, g, i)
    BY <1>2
  <2>2. i \in Nat /\ i + 1 \in 0..k
    OBVIOUS
  <2> DEFINE h == [n \in 0..i + 1 |-> IF n = i + 1 THEN DecodeTransaction(bytes, g[i]) ELSE g[n]]
  <2>3. ASSUME NEW n \in 0..i + 1
        PROVE  h[n] = IF n = 0 THEN z ELSE DecodeTransaction(bytes, h[n - 1])
    <3>1. CASE n = i + 1
      <4>1. i \in 0..i + 1 /\ i # i + 1 /\ n - 1 = i /\ n # 0
        BY <2>2, <3>1
      <4>2. h[i] = g[i] /\ h[n] = DecodeTransaction(bytes, g[i])
        BY <3>1, <4>1
      <4> HIDE DEF h
      <4> QED BY <4>1, <4>2
    <3>2. CASE n # i + 1
      <4>1. n \in 0..i /\ (n # 0 => n - 1 \in 0..i + 1 /\ n - 1 # i + 1)
        BY <2>2, <3>2
      <4>2. h[n] = g[n] /\ (n # 0 => h[n - 1] = g[n - 1])
        BY <3>2, <4>1
      <4>3. g[n] = IF n = 0 THEN z ELSE DecodeTransaction(bytes, g[n - 1])
        BY <2>1, <4>1 DEF Decodes
      <4> HIDE DEF h, z
      <4> QED BY <4>2, <4>3
    <3> QED BY <3>1, <3>2
  <2>4. h = [n \in 0..i + 1 |-> h[n]]
    OBVIOUS
  <2> HIDE DEF h
  <2>5. h = [n \in 0..i + 1 |-> IF n = 0 THEN z ELSE DecodeTransaction(bytes, h[n - 1])]
    BY <2>3, <2>4
  <2>6. Decodes(bytes, mt, h, i + 1)
    BY <2>5, Zenon DEF Decodes
  <2> QED BY <2>2, <2>6
<1> HIDE DEF S
<1>3. \A i \in 0..k : i \in S
  BY <1>1, <1>2, Reaches
<1>4. k \in S
  BY <1>3
<1> QED BY <1>4 DEF S

\* Decode by its steps.
LEMMA DecodeIs ==
    ASSUME NEW b, NEW mt, b.count \in Nat
    PROVE  \E g : /\ Decodes(b.bytes, mt, g, b.count)
                  /\ Decode(b, mt).trans =
                       IF g[b.count].trans # NULL /\ GetRoot(BuildMerkleTree(g[b.count].tree)) = b.root
                       THEN g[b.count].trans ELSE NULL
<1> DEFINE k == b.count
           g == CHOOSE h : h = [n \in 0..k |-> IF n = 0 THEN [pos |-> 0, trans |-> << >>, tree |-> Clear(mt)]
                                               ELSE DecodeTransaction(b.bytes, h[n - 1])]
           d == g[k]
           built == BuildMerkleTree(d.tree)
<1>1. Decode(b, mt) = IF d.trans = NULL THEN [trans |-> NULL, tree |-> d.tree]
                      ELSE [trans |-> IF GetRoot(built) = b.root THEN d.trans ELSE NULL, tree |-> built]
  BY DEF Decode
<1>2. Decodes(b.bytes, mt, g, k)
  <2>1. PICK h : Decodes(b.bytes, mt, h, k)
    BY DecodesExist
  <2> QED BY <2>1, Zenon DEF Decodes
<1> HIDE DEF g
<1>3. Decode(b, mt).trans = IF d.trans # NULL /\ GetRoot(built) = b.root THEN d.trans ELSE NULL
  BY <1>1
<1> QED BY <1>2, <1>3

Steps(bytes, mt, g, k) ==
  /\ g[0] = [pos |-> 0, trans |-> << >>, tree |-> Clear(mt)]
  /\ \A n \in 1..k : g[n] = DecodeTransaction(bytes, g[n - 1])

LEMMA StepsAre ==
    ASSUME NEW bytes, NEW mt, NEW k \in Nat, NEW g, Decodes(bytes, mt, g, k)
    PROVE  Steps(bytes, mt, g, k)
<1>1. 0 \in 0..k /\ \A n \in 1..k : n \in 0..k /\ n # 0
  OBVIOUS
<1> QED BY <1>1 DEF Decodes, Steps

\* NULL is no sequence of transactions.
LEMMA NotNull ==
    ASSUME NEW s \in Seq(Trans)
    PROVE  s # NULL
<1>1. s \in Seq(Readable)
  <2>1. \A i \in 1..Len(s) : s[i] \in Readable
    BY SeqIs, TransIs
  <2> QED BY <2>1
<1>2. NULL \notin Seq(Readable)
  BY CodecAssumption DEF Readable
<1> QED BY <1>1, <1>2

\* The part of the bytes that one transaction wrote.
LEMMA PartIs ==
    ASSUME NEW ts \in Seq(Trans), NEW a, Written(a, ts), NEW n \in 1..Len(ts)
    PROVE  /\ Ends(ts)[n - 1] \in Nat /\ Ends(ts)[n] = Ends(ts)[n - 1] + Size(ts[n]) /\ Ends(ts)[n] <= Len(a)
           /\ SubSeq(a, Ends(ts)[n - 1] + 1, Ends(ts)[n]) = Encoded(ts[n])
<1> DEFINE o == Ends(ts)[n - 1]
           e == Ends(ts)[n]
           z == Size(ts[n])
           code == Encoded(ts[n])
<1>1. a \in Seq(Cell) /\ Total(ts) <= Len(a) /\ \A j \in 1..z : a[o + j] = code[j]
  BY DEF Written
<1>2. n - 1 \in 0..Len(ts) /\ n \in 0..Len(ts) /\ ts[n] \in Trans
  BY SeqIs
<1>3. o \in Nat /\ e \in Nat /\ e = o + z /\ e <= Total(ts) /\ Total(ts) \in Nat
  BY <1>2, EndsIs, EndsGrow
<1>4. code \in Seq(Cell) /\ Len(code) = z /\ z \in Nat
  BY <1>2, TransIs, EncodedIs
<1> HIDE DEF o, e, z, code
<1>5. o <= e /\ e <= Len(a) /\ e - o = z
  BY <1>1, <1>3, <1>4
<1>6. /\ SubSeq(a, o + 1, e) \in Seq(Cell) /\ Len(SubSeq(a, o + 1, e)) = z
      /\ \A j \in 1..z : SubSeq(a, o + 1, e)[j] = a[o + j]
  BY <1>1, <1>3, <1>5, SubSeqIs
<1>7. \A j \in 1..z : SubSeq(a, o + 1, e)[j] = code[j]
  BY <1>1, <1>6
<1>8. SubSeq(a, o + 1, e) = code
  BY <1>4, <1>6, <1>7, SeqEqual
<1> QED BY <1>3, <1>5, <1>8 DEF o, e, z, code

\* The first n of the transactions ts are decoded.
DecodedTo(d, ts, n) ==
  /\ d = [pos |-> d.pos, trans |-> d.trans, tree |-> d.tree]
  /\ d.pos = Ends(ts)[n]
  /\ d.trans \in Seq(Trans) /\ Len(d.trans) = n /\ \A i \in 1..n : d.trans[i] = ts[i]
  /\ Leaves(d.tree, Coded(ts), n)

\* The next transaction is decoded as it was written.
LEMMA DecodeStep ==
    ASSUME NEW ts \in Seq(Trans), NEW a, Written(a, ts), NEW n \in 1..Len(ts),
           NEW d, DecodedTo(d, ts, n - 1)
    PROVE  DecodedTo(DecodeTransaction(a, d), ts, n)
<1> DEFINE x == ts[n]
           o == Ends(ts)[n - 1]
           e == Ends(ts)[n]
           at == d.pos + 1
           t == [number |-> a[at].of, payload |-> a[at + 1].of]
           f == DecodeTransaction(a, d)
<1>1. /\ o \in Nat /\ e = o + Size(x) /\ e <= Len(a) /\ SubSeq(a, o + 1, e) = Encoded(x)
      /\ x \in Trans /\ n \in Nat /\ Len(a) \in Nat
  BY PartIs, SeqIs DEF Written
<1>2. /\ x = [number |-> x.number, payload |-> x.payload] /\ x.number \in Nat /\ x.payload \in Nat /\ x.payload > 0
      /\ GetTransType(x.number) \in {RegistUserType, ProposeType} /\ Size(x) \in Nat /\ Size(x) >= 2
  BY <1>1, TransIs
<1>3. Encoded(x)[1] = Number(x.number) /\ Encoded(x)[2] = Part(x.payload, 1)
  <2>1. 1 \in 1..x.payload /\ 1 + 1 = 2
    BY <1>2
  <2>2. Encoded(x)[1] = Number(x.number) /\ \A j \in 1..x.payload : Encoded(x)[1 + j] = Part(x.payload, j)
    BY <1>2, EncodedIs
  <2> QED BY <2>1, <2>2
<1>4. a[o + 1] = Encoded(x)[1] /\ a[o + 2] = Encoded(x)[2]
  <2>1. 1 \in 1..Size(x) /\ 2 \in 1..Size(x)
    BY <1>2
  <2>2. \A j \in 1..Size(x) : a[o + j] = Encoded(x)[j]
    BY DEF Written
  <2> QED BY <2>1, <2>2
<1>5. d.pos = o /\ at = o + 1 /\ at + 1 = o + 2
  BY <1>1 DEF DecodedTo
<1>6. /\ a[at].of = x.number /\ a[at].kind = "number"
      /\ a[at + 1].of = x.payload /\ a[at + 1].kind = "payload"
  BY <1>3, <1>4, <1>5 DEF Number, Part
<1>7. t = x /\ d.pos + Size(t) = e
  BY <1>1, <1>2, <1>5, <1>6
<1>8. d.trans \in Seq(Trans) /\ d.trans # NULL
  BY NotNull DEF DecodedTo
<1>9. at < Len(a)
  BY <1>1, <1>2, <1>5
<1>10. f = [pos |-> e, trans |-> Append(d.trans, x), tree |-> AddLeafNode(d.tree, Encoded(x))]
  <2> HIDE DEF x, o, e
  <2>1. /\ GetTransType(t.number) \in {RegistUserType, ProposeType}
        /\ d.pos + Size(t) <= Len(a) /\ SubSeq(a, at, d.pos + Size(t)) = Encoded(t)
    BY <1>1, <1>2, <1>5, <1>7
  <2>2. f = [pos |-> d.pos + Size(t), trans |-> Append(d.trans, t),
             tree |-> AddLeafNode(d.tree, SubSeq(a, at, d.pos + Size(t)))]
    BY <1>6, <1>8, <1>9, <2>1 DEF DecodeTransaction
  <2> QED BY <1>7, <2>1, <2>2
<1>11. /\ Append(d.trans, x) \in Seq(Trans) /\ Len(Append(d.trans, x)) = n
       /\ \A i \in 1..n : Append(d.trans, x)[i] = ts[i]
  <2> DEFINE s == d.trans
             r == Append(s, x)
  <2>1. Len(s) = n - 1 /\ \A i \in 1..n - 1 : s[i] = ts[i]
    BY DEF DecodedTo
  <2>2. r \in Seq(Trans) /\ Len(r) = Len(s) + 1 /\ r[Len(s) + 1] = x /\ \A i \in 1..Len(s) : r[i] = s[i]
    BY <1>1, <1>8, SeqIs
  <2> HIDE DEF s, r
  <2>3. ASSUME NEW i \in 1..n PROVE r[i] = ts[i]
    <3>1. CASE i = n
      BY <1>1, <2>1, <2>2, <3>1
    <3>2. CASE i # n
      <4>1. i \in 1..n - 1
        BY <1>1, <3>2
      <4> QED BY <2>1, <2>2, <4>1
    <3> QED BY <3>1, <3>2
  <2> QED BY <1>1, <2>1, <2>2, <2>3 DEF r, s
<1>12. Leaves(AddLeafNode(d.tree, Encoded(x)), Coded(ts), n)
  <2> DEFINE D == Coded(ts)
  <2>1. D[n] = Encoded(x) /\ (n - 1) + 1 = n
    BY <1>1 DEF Coded
  <2>2. Leaves(d.tree, D, n - 1)
    BY DEF DecodedTo
  <2> HIDE DEF D, x
  <2>3. Leaves(AddLeafNode(d.tree, D[(n - 1) + 1]), D, (n - 1) + 1)
    BY <2>2, AddLeafIs
  <2> QED BY <2>1, <2>3 DEF D
<1> HIDE DEF f, x, e, o
<1>13. f.pos = e /\ f.trans = Append(d.trans, x) /\ f.tree = AddLeafNode(d.tree, Encoded(x))
       /\ f = [pos |-> f.pos, trans |-> f.trans, tree |-> f.tree]
  BY <1>10
<1>14. DecodedTo(f, ts, n)
  BY <1>11, <1>12, <1>13 DEF DecodedTo, e
<1> QED BY <1>14 DEF f

\* A block as packed for the transactions of its submissions.
PackOf(b) ==
  /\ b = [count |-> b.count, root |-> b.root, bytes |-> b.bytes, told |-> b.told]
  /\ b.told \in Seq(Trans) /\ Len(b.told) >= 1 /\ b.count = Len(b.told)
  /\ Written(b.bytes, b.told) /\ Len(b.bytes) = Total(b.told)
  /\ b.root = Root(Coded(b.told), b.count)

\* A packed block decodes to its transactions, in whatever tree.
LEMMA PackDecodes ==
    ASSUME NEW b, PackOf(b), NEW mt, NEW D, NEW m, Leaves(mt, D, m)
    PROVE  Decode(b, mt).trans = b.told
<1> DEFINE ts == b.told
           k == b.count
           a == b.bytes
<1>1. /\ ts \in Seq(Trans) /\ k \in Nat /\ k >= 1 /\ Len(ts) = k /\ Written(a, ts)
      /\ b.root = Root(Coded(ts), k)
  BY SeqIs DEF PackOf
<1>2. PICK g : /\ Decodes(a, mt, g, k)
               /\ Decode(b, mt).trans =
                       IF g[k].trans # NULL /\ GetRoot(BuildMerkleTree(g[k].tree)) = b.root
                       THEN g[k].trans ELSE NULL
  <2>1. b.count \in Nat
    BY <1>1
  <2> HIDE DEF ts
  <2> QED BY <2>1, DecodeIs, Zenon
<1>3. /\ g[0] = [pos |-> 0, trans |-> << >>, tree |-> Clear(mt)]
      /\ \A n \in 1..k : g[n] = DecodeTransaction(a, g[n - 1])
  <2>1. k \in Nat /\ Decodes(a, mt, g, k)
    BY <1>1, <1>2
  <2> HIDE DEF k, a
  <2>2. Steps(a, mt, g, k)
    BY <2>1, StepsAre
  <2> QED BY <2>2 DEF Steps
<1> HIDE DEF ts, k, a
<1> DEFINE S == {n \in 0..k : DecodedTo(g[n], ts, n)}
<1>4. 0 \in S
  <2>1. Leaves(Clear(mt), Coded(ts), 0)
    BY ClearLeaves
  <2>2. Ends(ts)[0] = 0
    BY <1>1, EndsIs
  <2>3. << >> \in Seq(Trans) /\ Len(<< >>) = 0
    OBVIOUS
  <2>4. DecodedTo(g[0], ts, 0)
    BY <1>3, <2>1, <2>2, <2>3 DEF DecodedTo
  <2> QED BY <1>1, <2>4
<1>5. ASSUME NEW n \in 0..k - 1, n \in S PROVE n + 1 \in S
  <2>1. PICK j \in 1..k : j = n + 1
    BY <1>1
  <2>2. j - 1 = n /\ j \in 0..k /\ j \in 1..Len(ts)
    BY <1>1, <2>1
  <2>3. DecodedTo(g[j - 1], ts, j - 1)
    BY <1>5, <2>2
  <2>4. DecodedTo(DecodeTransaction(a, g[j - 1]), ts, j)
    BY <1>1, <2>2, <2>3, DecodeStep
  <2>5. DecodedTo(g[j], ts, j)
    BY <1>3, <2>4
  <2> QED BY <2>1, <2>2, <2>5
<1> HIDE DEF S
<1>6. \A n \in 0..k : n \in S
  BY <1>1, <1>4, <1>5, Reaches
<1>7. DecodedTo(g[k], ts, k)
  <2>1. k \in S
    BY <1>1, <1>6
  <2> QED BY <2>1 DEF S
<1>8. g[k].trans = ts
  <2>1. g[k].trans \in Seq(Trans) /\ Len(g[k].trans) = k /\ \A i \in 1..k : g[k].trans[i] = ts[i]
    BY <1>7 DEF DecodedTo
  <2> QED BY <1>1, <2>1, SeqEqual
<1>9. GetRoot(BuildMerkleTree(g[k].tree)) = b.root
  <2>1. Leaves(g[k].tree, Coded(ts), k)
    BY <1>7 DEF DecodedTo
  <2> QED BY <1>1, <2>1, RootIs
<1>10. ts # NULL
  BY <1>1, NotNull
<1> QED BY <1>2, <1>8, <1>9, <1>10 DEF ts
-----------------------------------------------------------------------------
(* Damaged blocks *)

\* A decoder that has come to d.pos in the bytes a, over n leaves, or failed.
Cut(d, a, D, n) ==
  /\ d = [pos |-> d.pos, trans |-> d.trans, tree |-> d.tree]
  /\ d.trans # NULL => d.pos \in Nat /\ d.pos <= Len(a) /\ Leaves(d.tree, D, n)

\* A step cuts a piece off, which becomes a leaf; a decoder that failed stays so.
LEMMA CutStep ==
    ASSUME NEW a \in Seq(Cell), NEW d, NEW D, NEW n \in Nat, Cut(d, a, D, n),
           D[n + 1] = SubSeq(a, d.pos + 1, DecodeTransaction(a, d).pos)
    PROVE  /\ Cut(DecodeTransaction(a, d), a, D, n + 1)
           /\ DecodeTransaction(a, d).trans # NULL => d.trans # NULL /\ d.pos <= DecodeTransaction(a, d).pos
<1> DEFINE at == d.pos + 1
           t == [number |-> a[at].of, payload |-> a[at + 1].of]
           end == d.pos + Size(t)
           readable == /\ at < Len(a)
                       /\ a[at].kind = "number" /\ a[at + 1].kind = "payload"
                       /\ GetTransType(t.number) \in {RegistUserType, ProposeType}
                       /\ end <= Len(a) /\ SubSeq(a, at, end) = Encoded(t)
           f == DecodeTransaction(a, d)
<1>1. f = IF d.trans # NULL /\ readable
          THEN [pos |-> end, trans |-> Append(d.trans, t), tree |-> AddLeafNode(d.tree, SubSeq(a, at, end))]
          ELSE [d EXCEPT !.trans = NULL]
  BY DEF DecodeTransaction
<1>2. CASE d.trans # NULL /\ readable
  <2>1. d.pos \in Nat /\ d.pos <= Len(a) /\ Leaves(d.tree, D, n) /\ Len(a) \in Nat /\ at < Len(a)
    BY <1>2 DEF Cut
  <2>2. end \in Nat /\ d.pos <= end /\ end <= Len(a)
    <3>1. a[at + 1] \in Cell
      BY <2>1
    <3>2. t.payload \in Nat
      BY <3>1 DEF Cell
    <3>3. Size(t) \in Nat
      BY <3>2 DEF Size
    <3>4. end <= Len(a)
      BY <1>2
    <3> HIDE DEF t
    <3> QED BY <2>1, <3>3, <3>4
  <2> HIDE DEF readable, end
  <2>3. f = [pos |-> end, trans |-> Append(d.trans, t), tree |-> AddLeafNode(d.tree, SubSeq(a, at, end))]
    BY <1>1, <1>2
  <2> HIDE DEF f, t
  <2>4. /\ f.pos = end /\ f.tree = AddLeafNode(d.tree, SubSeq(a, at, end))
        /\ f = [pos |-> f.pos, trans |-> f.trans, tree |-> f.tree]
    BY <2>3
  <2>5. D[n + 1] = SubSeq(a, at, end)
    BY <2>4 DEF f
  <2>6. Leaves(AddLeafNode(d.tree, D[n + 1]), D, n + 1)
    BY <2>1, AddLeafIs
  <2>7. Cut(f, a, D, n + 1)
    BY <2>2, <2>4, <2>5, <2>6 DEF Cut
  <2> QED BY <1>2, <2>2, <2>4, <2>7 DEF f
<1>3. CASE ~(d.trans # NULL /\ readable)
  <2> HIDE DEF readable
  <2>1. f = [d EXCEPT !.trans = NULL]
    BY <1>1, <1>3
  <2>2. d = [pos |-> d.pos, trans |-> d.trans, tree |-> d.tree]
    BY DEF Cut
  <2> HIDE DEF f
  <2>3. f = [pos |-> d.pos, trans |-> NULL, tree |-> d.tree]
    BY <2>1, <2>2
  <2>4. f.trans = NULL /\ f = [pos |-> f.pos, trans |-> f.trans, tree |-> f.tree]
    BY <2>3
  <2> QED BY <2>4 DEF Cut, f
<1> QED BY <1>2, <1>3

\* Bytes that decode to the root of a packed block are its bytes.
LEMMA DamageFound ==
    ASSUME NEW b, PackOf(b), NEW mt, NEW D0, NEW m, Leaves(mt, D0, m),
           NEW a \in Seq(Cell), Len(a) = Len(b.bytes), Decode([b EXCEPT !.bytes = a], mt).trans # NULL
    PROVE  a = b.bytes
<1> DEFINE ts == b.told
           k == b.count
           c == [b EXCEPT !.bytes = a]
<1>1. /\ ts \in Seq(Trans) /\ k \in Nat /\ k >= 1 /\ Len(ts) = k /\ Written(b.bytes, ts) /\ b.bytes \in Seq(Cell)
      /\ b.root = Root(Coded(ts), k) /\ Len(b.bytes) = Total(ts)
  BY SeqIs DEF PackOf, Written
<1>2. c.count = k /\ c.root = b.root /\ c.bytes = a
  <2>1. b = [count |-> b.count, root |-> b.root, bytes |-> b.bytes, told |-> b.told]
    BY DEF PackOf
  <2> QED BY <2>1
<1> HIDE DEF c
<1>3. PICK g : /\ Decodes(c.bytes, mt, g, c.count)
               /\ Decode(c, mt).trans =
                       IF g[c.count].trans # NULL /\ GetRoot(BuildMerkleTree(g[c.count].tree)) = c.root
                       THEN g[c.count].trans ELSE NULL
  <2>1. c.count \in Nat
    BY <1>1, <1>2
  <2> HIDE DEF ts, k
  <2> QED BY <2>1, DecodeIs, Zenon
<1>4. g[k].trans # NULL /\ GetRoot(BuildMerkleTree(g[k].tree)) = Root(Coded(ts), k)
  <2>1. Decode(c, mt).trans # NULL
    BY DEF c
  <2> HIDE DEF ts, k
  <2>2. g[c.count].trans # NULL /\ GetRoot(BuildMerkleTree(g[c.count].tree)) = c.root
    BY <1>3, <2>1, Zenon
  <2> QED BY <1>1, <1>2, <2>2
<1>5. /\ g[0] = [pos |-> 0, trans |-> << >>, tree |-> Clear(mt)]
      /\ \A n \in 1..k : g[n] = DecodeTransaction(a, g[n - 1])
  <2>1. k \in Nat /\ Decodes(a, mt, g, k)
    BY <1>1, <1>2, <1>3
  <2> HIDE DEF k
  <2>2. Steps(a, mt, g, k)
    BY <2>1, StepsAre
  <2> QED BY <2>2 DEF Steps
<1> HIDE DEF ts, k
<1> DEFINE D == [n \in 1..k |-> SubSeq(a, g[n - 1].pos + 1, g[n].pos)]
           S == {n \in 0..k : Cut(g[n], a, D, n)}
           T == {i \in 0..k : g[k - i].trans # NULL}
           U == {n \in 0..k : g[n].pos = Ends(ts)[n]}
<1>6. \A n \in 1..k : D[n] = SubSeq(a, g[n - 1].pos + 1, g[n].pos)
  OBVIOUS
<1> HIDE DEF D
\* The decoder cuts the bytes into leaves.
<1>7. 0 \in S
  <2>1. Leaves(Clear(mt), D, 0)
    BY ClearLeaves
  <2>2. Len(a) \in Nat
    OBVIOUS
  <2> QED BY <1>1, <1>5, <2>1, <2>2 DEF Cut
<1>8. ASSUME NEW n \in 1..k, Cut(g[n - 1], a, D, n - 1)
      PROVE  /\ Cut(g[n], a, D, n)
             /\ g[n].trans # NULL => g[n - 1].trans # NULL /\ g[n - 1].pos <= g[n].pos
  <2> DEFINE d == g[n - 1]
             l == n - 1
  <2>1. l \in Nat /\ l + 1 = n
    BY <1>1
  <2>2. g[n] = DecodeTransaction(a, d)
    BY <1>5
  <2>3. D[l + 1] = SubSeq(a, d.pos + 1, DecodeTransaction(a, d).pos)
    BY <1>6, <2>1, <2>2
  <2>4. Cut(d, a, D, l)
    BY <1>8
  <2> HIDE DEF d, l
  <2>5. /\ Cut(DecodeTransaction(a, d), a, D, l + 1)
        /\ DecodeTransaction(a, d).trans # NULL => d.trans # NULL /\ d.pos <= DecodeTransaction(a, d).pos
    BY <2>1, <2>3, <2>4, CutStep
  <2> QED BY <2>1, <2>2, <2>5 DEF d
<1>9. ASSUME NEW n \in 0..k - 1, n \in S PROVE n + 1 \in S
  <2>1. PICK j \in 1..k : j = n + 1
    BY <1>1
  <2>2. j - 1 = n /\ j \in 0..k
    BY <1>1, <2>1
  <2> QED BY <1>8, <1>9, <2>1, <2>2
<1> HIDE DEF S
<1>10. \A n \in 0..k : n \in S
  BY <1>1, <1>7, <1>9, Reaches
<1>11. \A n \in 0..k : Cut(g[n], a, D, n)
  BY <1>10 DEF S
<1>12. ASSUME NEW n \in 1..k PROVE g[n].trans # NULL => g[n - 1].trans # NULL /\ g[n - 1].pos <= g[n].pos
  <2>1. n - 1 \in 0..k
    BY <1>1
  <2> QED BY <1>8, <1>11, <2>1
\* It did not fail on the way.
<1>13. 0 \in T
  <2>1. k - 0 = k /\ 0 \in 0..k
    BY <1>1
  <2> QED BY <1>4, <2>1
<1>14. ASSUME NEW i \in 0..k - 1, i \in T PROVE i + 1 \in T
  <2>1. PICK n \in 1..k : n = k - i
    BY <1>1
  <2>2. n - 1 = k - (i + 1) /\ i + 1 \in 0..k
    BY <1>1, <2>1
  <2>3. g[n].trans # NULL
    BY <1>14, <2>1
  <2> QED BY <1>12, <2>2, <2>3
<1> HIDE DEF T
<1>15. \A i \in 0..k : i \in T
  BY <1>1, <1>13, <1>14, Reaches
<1>16. ASSUME NEW n \in 0..k PROVE g[n].trans # NULL
  <2>1. k - n \in 0..k /\ k - (k - n) = n
    BY <1>1
  <2>2. k - n \in T
    BY <1>15, <2>1
  <2> QED BY <2>1, <2>2 DEF T
<1>17. \A n \in 0..k : g[n].pos \in Nat /\ g[n].pos <= Len(a)
  BY <1>11, <1>16 DEF Cut
<1>18. \A n \in 1..k : g[n - 1].pos <= g[n].pos
  <2>1. \A n \in 1..k : n \in 0..k
    BY <1>1
  <2> QED BY <1>12, <1>16, <2>1
\* The roots are the same, and so are the leaves.
<1>19. \A n \in 1..k : D[n] = Coded(ts)[n]
  <2>1. k \in 0..k
    BY <1>1
  <2>2. Leaves(g[k].tree, D, k)
    BY <1>11, <1>16, <2>1 DEF Cut
  <2>3. Root(D, k) = Root(Coded(ts), k)
    BY <1>1, <1>4, <2>2, RootIs
  <2> DEFINE E == Coded(ts)
  <2> HIDE DEF E
  <2>4. Root(D, k) = Root(E, k)
    BY <2>3 DEF E
  <2>5. \A n \in 1..k : D[n] = E[n]
    BY <1>1, <2>4, RootTells
  <2> QED BY <2>5 DEF E
<1>20. ASSUME NEW n \in 1..k
       PROVE  /\ g[n].pos = g[n - 1].pos + Size(ts[n])
              /\ \A j \in 1..Size(ts[n]) : a[g[n - 1].pos + j] = Encoded(ts[n])[j]
  <2> DEFINE p == g[n - 1].pos
             e == g[n].pos
             code == Encoded(ts[n])
  <2>1. p \in Nat /\ e \in Nat /\ p <= e /\ e <= Len(a)
    <3>1. n - 1 \in 0..k /\ n \in 0..k
      BY <1>1
    <3> QED BY <1>17, <1>18, <3>1
  <2>2. SubSeq(a, p + 1, e) = code
    BY <1>1, <1>6, <1>19 DEF Coded
  <2>3. ts[n] \in Trans
    BY <1>1
  <2>4. Len(code) = Size(ts[n]) /\ Size(ts[n]) \in Nat
    BY <2>3, TransIs, EncodedIs
  <2> HIDE DEF p, e, code
  <2>5. Len(SubSeq(a, p + 1, e)) = e - p /\ \A j \in 1..e - p : SubSeq(a, p + 1, e)[j] = a[p + j]
    BY <2>1, SubSeqIs
  <2>6. e - p = Size(ts[n])
    BY <2>2, <2>4, <2>5
  <2>7. e = p + Size(ts[n])
    BY <2>1, <2>4, <2>6
  <2> QED BY <2>2, <2>5, <2>6, <2>7 DEF p, e, code
\* So the transactions are where they were.
<1>21. 0 \in U
  BY <1>1, <1>5, EndsIs
<1>22. ASSUME NEW n \in 0..k - 1, n \in U PROVE n + 1 \in U
  <2>1. PICK j \in 1..k : j = n + 1
    BY <1>1
  <2>2. j - 1 = n /\ j \in 0..k
    BY <1>1, <2>1
  <2>3. Ends(ts)[j] = Ends(ts)[j - 1] + Size(ts[j])
    BY <1>1, EndsIs
  <2>4. g[j].pos = g[j - 1].pos + Size(ts[j])
    BY <1>20
  <2> QED BY <1>22, <2>1, <2>2, <2>3, <2>4
<1> HIDE DEF U
<1>23. \A n \in 0..k : n \in U
  BY <1>1, <1>21, <1>22, Reaches
<1>24. Written(a, ts)
  <2>1. ASSUME NEW n \in 1..k, NEW j \in 1..Size(ts[n])
        PROVE  a[Ends(ts)[n - 1] + j] = Encoded(ts[n])[j]
    <3>1. n - 1 \in 0..k
      BY <1>1
    <3>2. g[n - 1].pos = Ends(ts)[n - 1]
      BY <1>23, <3>1 DEF U
    <3>3. a[g[n - 1].pos + j] = Encoded(ts[n])[j]
      BY <1>20
    <3> QED BY <3>2, <3>3
  <2>2. Total(ts) <= Len(a)
    <3>1. Total(ts) \in Nat
      BY <1>1, EndsIs
    <3> QED BY <1>1, <3>1
  <2> QED BY <1>1, <2>1, <2>2 DEF Written
<1>25. \A i \in 1..Len(a) : a[i] = b.bytes[i]
  <2>1. \A i \in 1..Total(ts) : a[i] = b.bytes[i]
    BY <1>1, <1>24, WrittenSame
  <2> QED BY <1>1, <2>1
<1> QED BY <1>1, <1>25, SeqEqual

\* What a block can become is still as many cells.
LEMMA DamagedIs ==
    ASSUME NEW bytes \in Seq(Cell), NEW a \in Damaged(bytes)
    PROVE  a \in Seq(Cell) /\ Len(a) = Len(bytes)
<1>1. \A c \in Cells : c \in Cell
  <2>1. ASSUME NEW n \in 0..(4 * Serials - 1) PROVE Number(n) \in Cell
    <3>1. n \in Nat
      BY Sizes
    <3> QED BY <3>1 DEF Number, Cell
  <2>2. ASSUME NEW p \in Payloads, NEW i \in Payloads PROVE Part(p, i) \in Cell
    BY Sizes DEF Part, Cell
  <2> QED BY <2>1, <2>2 DEF Cells
<1>2. \A i \in DOMAIN bytes : bytes[i] \in Cell
  OBVIOUS
<1>3. CASE \E i \in DOMAIN bytes, c \in Cells : a = [bytes EXCEPT ![i] = c]
  BY <1>1, <1>3
<1>4. CASE \E i, j \in DOMAIN bytes : a = [bytes EXCEPT ![i] = bytes[j], ![j] = bytes[i]]
  BY <1>2, <1>4
<1> QED BY <1>3, <1>4 DEF Damaged
-----------------------------------------------------------------------------
(* The inductive invariant *)

\* The encoder over the buffer of the current block.
Encoder == [buf |-> buf, offset |-> offset, tree |-> tree, count |-> count]

\* The current block holds what was answered since it was begun; it is packed
\* before its count can wrap.
CurrentHolds ==
  /\ Buffered(Encoder, told)
  /\ dataLen = offset /\ count < MaxCount /\ initial \in Nat

IdsTyped == last \in [cur : Nat, packed : Nat, stored : Nat]

PackedHolds == packed # NULL => PackOf(packed)

\* The serial number stays in its ring.
SerialTyped == serial \in 0..Serials - 1

IInv == CurrentHolds /\ IdsTyped /\ PackedHolds /\ SerialTyped

\* The parts of the current block.
LEMMA CurrentIs ==
    ASSUME CurrentHolds
    PROVE  /\ told \in Seq(Trans) /\ Written(buf, told) /\ offset = Total(told) /\ dataLen = Total(told)
           /\ Leaves(tree, Coded(told), Len(told)) /\ count = Len(told) /\ count < MaxCount
           /\ initial \in Nat /\ Total(told) \in Nat /\ Len(told) \in Nat
<1>1. Encoder.buf = buf /\ Encoder.offset = offset /\ Encoder.tree = tree /\ Encoder.count = count
  BY DEF Encoder
<1>2. /\ told \in Seq(Trans) /\ Written(buf, told) /\ offset = Total(told)
      /\ Leaves(tree, Coded(told), Len(told)) /\ count = Len(told)
      /\ dataLen = offset /\ count < MaxCount /\ initial \in Nat
  BY <1>1 DEF CurrentHolds, Buffered
<1>3. Total(told) \in Nat /\ Len(told) \in Nat
  BY <1>2, EndsIs
<1> QED BY <1>2, <1>3

\* A state that begins a block.
LEMMA NewBlockHolds ==
    ASSUME NEW size \in Nat, NewBlock(size), told' = << >>, initial' \in Nat, Leaves(tree', Coded(<< >>), 0)
    PROVE  CurrentHolds'
<1>1. /\ << >> \in Seq(Trans) /\ Len(<< >>) = 0 /\ Total(<< >>) = 0 /\ Written(NewBuffer(size), << >>)
  BY NewBufferIs
<1>2. buf' = NewBuffer(size) /\ dataLen' = 0 /\ offset' = 0 /\ count' = 0
  BY DEF NewBlock
<1> DEFINE e == [buf |-> buf', offset |-> offset', tree |-> tree', count |-> count']
<1>3. e.buf = NewBuffer(size) /\ e.offset = 0 /\ e.tree = tree' /\ e.count = 0
      /\ e = [buf |-> e.buf, offset |-> e.offset, tree |-> e.tree, count |-> e.count]
  BY <1>2
<1>4. Encoder' = e
  BY DEF Encoder
<1> HIDE DEF e
<1>5. Buffered(e, << >>)
  BY <1>1, <1>3 DEF Buffered
<1>6. Buffered(Encoder, told)'
  BY <1>4, <1>5
<1> QED BY <1>2, <1>6, Sizes DEF CurrentHolds

LEMMA ClearedTree ==
    ASSUME CurrentHolds
    PROVE  Leaves(Clear(tree), Coded(<< >>), 0)
BY CurrentIs, ClearLeaves

\* Room is made for what is to be encoded, and what was stays.
LEMMA RoomIs ==
    ASSUME CurrentHolds, NEW need \in Nat
    PROVE  /\ Written(Room(need).buf, told) /\ Room(need).offset = Total(told) /\ Room(need).initial \in Nat
           /\ Total(told) + need <= Len(Room(need).buf)
<1>1. /\ told \in Seq(Trans) /\ Written(buf, told) /\ offset = Total(told) /\ dataLen = Total(told)
      /\ initial \in Nat /\ Total(told) \in Nat
  BY CurrentIs
<1>2. buf \in Seq(Cell) /\ Total(told) <= Len(buf)
  BY <1>1 DEF Written
<1>3. CASE need + dataLen > Len(buf)
  <2> DEFINE size == need + dataLen
             b == Resized(size)
  <2>1. Room(need) = [buf |-> b, offset |-> dataLen, initial |-> size]
    BY <1>3 DEF Room
  <2>2. size \in Nat /\ size = Total(told) + need
    BY <1>1
  <2>3. b \in [1..size -> Cell] /\ \A i \in 1..dataLen : b[i] = buf[i]
    <3>1. Junk \in Cell
      BY DEF Junk, Cell
    <3>2. ASSUME NEW i \in 1..size PROVE (IF i <= dataLen THEN buf[i] ELSE Junk) \in Cell
      BY <1>1, <1>2, <2>2, <3>1
    <3>3. b = [i \in 1..size |-> IF i <= dataLen THEN buf[i] ELSE Junk]
      BY DEF Resized
    <3>4. dataLen <= size
      BY <1>1
    <3> HIDE DEF b, size
    <3> QED BY <1>1, <2>2, <3>2, <3>3, <3>4
  <2> HIDE DEF b, size
  <2>4. b \in Seq(Cell) /\ Len(b) = size
    BY <2>2, <2>3
  <2>5. Written(b, told)
    BY <1>1, <2>2, <2>3, <2>4, WrittenMoves
  <2> QED BY <1>1, <2>1, <2>2, <2>4, <2>5
<1>4. CASE ~(need + dataLen > Len(buf))
  <2>1. Room(need) = [buf |-> buf, offset |-> offset, initial |-> initial]
    BY <1>4 DEF Room
  <2> QED BY <1>1, <1>2, <1>4, <2>1
<1> QED BY <1>3, <1>4

\* One and two transactions, alone and behind those of the block.
LEMMA TwoAre ==
    ASSUME NEW t \in Trans, NEW u \in Trans, NEW ts \in Seq(Trans)
    PROVE  /\ Ends(<<t>>)[Len(<<t>>)] = Size(t) /\ Ends(<<t, u>>)[Len(<<t, u>>)] = Size(t) + Size(u)
           /\ ts \o <<t>> = Append(ts, t) /\ ts \o <<t, u>> = Append(Append(ts, t), u)
<1>1. << >> \in Seq(Trans) /\ <<t>> \in Seq(Trans) /\ <<t>> = Append(<< >>, t) /\ <<t, u>> = Append(<<t>>, u)
  OBVIOUS
<1>2. Total(<< >>) = 0
  BY Sizes, NewBufferIs
<1>3. Size(t) \in Nat
  BY TransIs
<1>4. Total(Append(<< >>, t)) = Total(<< >>) + Size(t)
  BY <1>1, EndsAppend
<1>5. Total(Append(<<t>>, u)) = Total(<<t>>) + Size(u)
  BY <1>1, EndsAppend
<1>6. Total(<<t>>) = Size(t)
  BY <1>1, <1>2, <1>3, <1>4
<1>7. Total(<<t, u>>) = Size(t) + Size(u)
  BY <1>1, <1>5, <1>6
<1>8. ts \o <<t>> = Append(ts, t) /\ ts \o <<t, u>> = Append(Append(ts, t), u)
  OBVIOUS
<1> QED BY <1>6, <1>7, <1>8 DEF Total

\* Packing seals what the encoder holds and begins the next block.
LEMMA PackHolds ==
    ASSUME IdsTyped, NEW e, NEW ts, Buffered(e, ts), Len(ts) >= 1, NEW cur \in Nat, initial' \in Nat,
           PackBlock(e, ts, cur)
    PROVE  CurrentHolds' /\ IdsTyped' /\ PackedHolds'
<1>1. /\ ts \in Seq(Trans) /\ Written(e.buf, ts) /\ e.offset = Total(ts) /\ e.count = Len(ts)
      /\ Leaves(e.tree, Coded(ts), Len(ts)) /\ Total(ts) \in Nat /\ Len(ts) \in Nat
  BY EndsIs DEF Buffered
<1>2. e.buf \in Seq(Cell) /\ Total(ts) <= Len(e.buf)
  BY <1>1 DEF Written
<1> DEFINE built == BuildMerkleTree(e.tree)
           a == SubSeq(e.buf, 1, e.offset)
<1>3. /\ packed' = [count |-> e.count, root |-> GetRoot(built), bytes |-> a, told |-> ts]
      /\ NewBlock(initial') /\ tree' = Clear(built) /\ told' = << >>
      /\ last' = [last EXCEPT !.cur = cur, !.packed = cur]
  BY DEF PackBlock
<1>4. Leaves(Clear(built), Coded(ts), 0) /\ GetRoot(built) = Root(Coded(ts), Len(ts))
  BY <1>1, RootIs
<1> HIDE DEF built
<1>5. CurrentHolds'
  <2>1. Leaves(tree', Coded(<< >>), 0)
    BY <1>3, <1>4 DEF Leaves
  <2> QED BY <1>3, <2>1, NewBlockHolds
<1>6. IdsTyped'
  BY <1>3 DEF IdsTyped
<1>7. PackOf(packed')
  <2> DEFINE k == Total(ts)
             b == e.buf
  <2>1. a = SubSeq(b, 0 + 1, k) /\ k - 0 = k /\ k \in Nat
    BY <1>1
  <2>2. b \in Seq(Cell) /\ k <= Len(b) /\ 0 \in Nat /\ 0 <= k
    BY <1>2, <2>1
  <2> HIDE DEF a, b, k
  <2>3. /\ SubSeq(b, 0 + 1, k) \in Seq(Cell) /\ Len(SubSeq(b, 0 + 1, k)) = k - 0
        /\ \A j \in 1..k - 0 : SubSeq(b, 0 + 1, k)[j] = b[0 + j]
    BY <2>1, <2>2, SubSeqIs
  <2>4. a \in Seq(Cell) /\ Len(a) = k
    BY <2>1, <2>3
  <2>5. \A i \in 1..k : a[i] = b[i]
    BY <2>1, <2>3
  <2>6. Written(a, ts)
    <3>1. Total(ts) <= Len(a)
      BY <2>1, <2>4 DEF k
    <3> QED BY <1>1, <2>4, <2>5, <3>1, WrittenMoves DEF b, k
  <2> DEFINE p == packed'
  <2>7. /\ p.count = Len(ts) /\ p.root = Root(Coded(ts), Len(ts)) /\ p.bytes = a /\ p.told = ts
        /\ p = [count |-> p.count, root |-> p.root, bytes |-> p.bytes, told |-> p.told]
    BY <1>1, <1>3, <1>4
  <2> HIDE DEF p
  <2>8. PackOf(p)
    BY <1>1, <2>4, <2>6, <2>7 DEF PackOf, k
  <2> QED BY <2>8 DEF p
<1> QED BY <1>5, <1>6, <1>7 DEF PackedHolds

\* What a submission encodes fits into the block, which is then packed or not.
LEMMA RecordHolds ==
    ASSUME CurrentHolds, IdsTyped, PackedHolds, NEW ts, NEW cur \in Nat, Record(ts, cur),
           NEW need \in Nat, need = Ends(ts)[Len(ts)], NEW all, told \o ts = all, Len(all) <= MaxCount, Len(all) >= 1,
           \A e : Buffered(e, told) /\ Total(told) + need <= Len(e.buf) => Buffered(EncodeAll(e, ts), all)
    PROVE  CurrentHolds' /\ IdsTyped' /\ PackedHolds'
<1> DEFINE room == Room(need)
           d == [buf |-> room.buf, offset |-> room.offset, tree |-> tree, count |-> count]
           e == EncodeAll(d, ts)
<1>1. /\ told \in Seq(Trans) /\ Leaves(tree, Coded(told), Len(told)) /\ count = Len(told)
  BY CurrentIs
<1>2. /\ Written(room.buf, told) /\ room.offset = Total(told) /\ room.initial \in Nat
      /\ Total(told) + need <= Len(room.buf)
  BY RoomIs
<1>3. /\ initial' = room.initial
      /\ IF e.count # 0 /\ (e.count = MaxCount \/ e.offset >= PackSize)
         THEN PackBlock(e, all, cur)
         ELSE /\ buf' = e.buf /\ offset' = e.offset /\ dataLen' = e.offset
              /\ tree' = e.tree /\ count' = e.count
              /\ told' = all
              /\ last' = [last EXCEPT !.cur = cur] /\ UNCHANGED packed
  BY DEF Record
<1> HIDE DEF room
<1>4. /\ d.buf = room.buf /\ d.offset = room.offset /\ d.tree = tree /\ d.count = count
      /\ d = [buf |-> d.buf, offset |-> d.offset, tree |-> d.tree, count |-> d.count]
  OBVIOUS
<1> HIDE DEF d
<1>5. Buffered(d, told)
  BY <1>1, <1>2, <1>4 DEF Buffered
<1>6. Buffered(e, all)
  BY <1>2, <1>4, <1>5
<1> HIDE DEF e
<1>7. e.count = Len(all) /\ e = [buf |-> e.buf, offset |-> e.offset, tree |-> e.tree, count |-> e.count]
      /\ all \in Seq(Trans) /\ Len(all) \in Nat
  BY <1>6 DEF Buffered
<1>8. CASE e.count # 0 /\ (e.count = MaxCount \/ e.offset >= PackSize)
  <2>1. PackBlock(e, all, cur) /\ initial' \in Nat
    BY <1>2, <1>3, <1>8
  <2> QED BY <1>6, <2>1, PackHolds
<1>9. CASE ~(e.count # 0 /\ (e.count = MaxCount \/ e.offset >= PackSize))
  <2>1. /\ buf' = e.buf /\ offset' = e.offset /\ dataLen' = e.offset
        /\ tree' = e.tree /\ count' = e.count
        /\ told' = all
        /\ last' = [last EXCEPT !.cur = cur] /\ packed' = packed
    BY <1>3, <1>9
  <2>2. Encoder' = e
    BY <1>7, <2>1 DEF Encoder
  <2>3. Buffered(Encoder, told)'
    BY <1>6, <2>1, <2>2
  <2>4. count' < MaxCount
    BY <1>7, <1>9, <2>1, Sizes
  <2>5. CurrentHolds'
    BY <1>2, <1>3, <2>1, <2>3, <2>4 DEF CurrentHolds
  <2>6. IdsTyped'
    BY <2>1 DEF IdsTyped
  <2>7. PackedHolds'
    BY <2>1 DEF PackedHolds
  <2> QED BY <2>5, <2>6, <2>7
<1> QED BY <1>8, <1>9
-----------------------------------------------------------------------------
(* The submissions *)

\* What a submission encodes are transactions.
LEMMA SubmittedAre ==
    ASSUME SerialTyped, NEW p \in Payloads
    PROVE  Regist(p) \in Trans /\ Propose(p) \in Trans
BY DEF SerialTyped, Regist, Propose, Trans

\* A number is used and counted on.
LEMMA SerialTaken ==
    ASSUME SerialTyped, serial' = SequenceNumberInc(serial)
    PROVE  SerialTyped'
BY Sizes DEF SerialTyped, SequenceNumberInc

\* Answer takes a number, for an id.
LEMMA AnswerTakes ==
    ASSUME SerialTyped, IdsTyped, Answer(last.cur + 1)
    PROVE  SerialTyped' /\ last.cur + 1 \in Nat
BY SerialTaken DEF Answer, IdsTyped

LEMMA RegistUserHolds ==
    ASSUME Protected, IInv, NEW p \in Payloads, SubmitRegistUser(p)
    PROVE  IInv'
<1>1. CurrentHolds /\ IdsTyped /\ PackedHolds /\ SerialTyped
  BY DEF IInv
<1>2. SerialTyped' /\ last.cur + 1 \in Nat
  BY <1>1, AnswerTakes DEF SubmitRegistUser
<1> DEFINE t == Regist(p)
           u == Propose(p)
           ts == <<t, u>>
           need == Size(t) + Size(u)
           one == Append(told, t)
           all == Append(one, u)
           cur == last.cur + 1
<1>3. t \in Trans /\ u \in Trans
  BY <1>1, SubmittedAre
<1>4. told \in Seq(Trans) /\ count = Len(told) /\ Len(told) \in Nat /\ Total(told) \in Nat
  BY <1>1, CurrentIs
<1>5. Record(ts, cur) /\ (count + 2 > MaxCount => "countOverflow" \in Exposed)
  BY DEF SubmitRegistUser
<1>6. count + 2 <= MaxCount
  BY <1>4, <1>5, Sizes DEF Protected
<1> HIDE DEF t, u, cur
<1>7. Ends(ts)[Len(ts)] = need /\ told \o ts = all
  BY <1>3, <1>4, TwoAre
<1>8. Size(t) \in Nat /\ Size(u) \in Nat /\ need \in Nat
  BY <1>3, TransIs
<1>9. /\ one \in Seq(Trans) /\ Len(one) = Len(told) + 1 /\ all \in Seq(Trans) /\ Len(all) = Len(told) + 2
      /\ Total(one) = Total(told) + Size(t)
  <2>1. one \in Seq(Trans) /\ Len(one) = Len(told) + 1
    BY <1>3, <1>4, SeqIs
  <2>2. Total(one) = Total(told) + Size(t)
    BY <1>3, <1>4, EndsAppend
  <2> HIDE DEF one
  <2>3. all \in Seq(Trans) /\ Len(all) = Len(one) + 1
    BY <1>3, <2>1, SeqIs
  <2> QED BY <1>4, <2>1, <2>2, <2>3
<1>10. ASSUME NEW e, Buffered(e, told), Total(told) + need <= Len(e.buf) PROVE Buffered(EncodeAll(e, ts), all)
  <2> DEFINE f == Encode(e, t)
  <2>1. Len(e.buf) \in Nat
    <3>1. e.buf \in Seq(Cell)
      BY <1>10 DEF Buffered, Written
    <3> QED BY <3>1
  <2>2. Len(told) < MaxCount /\ Total(told) + Size(t) <= Len(e.buf)
    BY <1>4, <1>6, <1>8, <1>10, <2>1, Sizes
  <2>3. Buffered(f, one) /\ Len(f.buf) = Len(e.buf)
    BY <1>3, <1>10, <2>2, EncodeIs
  <2>4. Len(one) < MaxCount /\ Total(one) + Size(u) <= Len(f.buf)
    BY <1>4, <1>6, <1>8, <1>9, <1>10, <2>1, <2>3, Sizes
  <2> HIDE DEF f, one
  <2>5. Buffered(Encode(f, u), all)
    <3>1. u \in Trans /\ Buffered(f, one)
      BY <1>3, <2>3
    <3> QED BY <3>1, <2>4, EncodeIs, Zenon
  <2>6. EncodeAll(e, ts) = Encode(f, u)
    <3>1. Looped(e, t, u)
      BY EncodeAllIs
    <3> QED BY <3>1 DEF Looped, f
  <2> QED BY <2>5, <2>6
<1>11. Len(all) <= MaxCount /\ Len(all) >= 1
  BY <1>4, <1>6, <1>9
<1> HIDE DEF ts, need, all
<1>12. CurrentHolds' /\ IdsTyped' /\ PackedHolds'
  BY <1>1, <1>2, <1>5, <1>7, <1>8, <1>10, <1>11, RecordHolds DEF cur
<1> QED BY <1>2, <1>12 DEF IInv

LEMMA CreateInformationHolds ==
    ASSUME IInv, NEW p \in Payloads, SubmitCreateInformation(p)
    PROVE  IInv'
<1>1. CurrentHolds /\ IdsTyped /\ PackedHolds /\ SerialTyped
  BY DEF IInv
<1>2. SerialTyped' /\ last.cur + 1 \in Nat
  BY <1>1, AnswerTakes DEF SubmitCreateInformation
<1> DEFINE t == Propose(p)
           ts == <<t>>
           need == Size(t)
           all == Append(told, t)
           cur == last.cur + 1
<1>3. t \in Trans
  BY <1>1, SubmittedAre
<1>4. told \in Seq(Trans) /\ count = Len(told) /\ Len(told) \in Nat /\ Total(told) \in Nat /\ Len(told) < MaxCount
  BY <1>1, CurrentIs
<1>5. Record(ts, cur)
  BY DEF SubmitCreateInformation
<1> HIDE DEF t, cur
<1>6. Ends(ts)[Len(ts)] = need /\ told \o ts = all
  BY <1>3, <1>4, TwoAre
<1>7. need \in Nat
  BY <1>3, TransIs
<1>8. Len(all) = Len(told) + 1
  BY <1>3, <1>4, SeqIs
<1>9. ASSUME NEW e, Buffered(e, told), Total(told) + need <= Len(e.buf) PROVE Buffered(EncodeAll(e, ts), all)
  <2>1. Buffered(Encode(e, t), all)
    BY <1>3, <1>4, <1>9, EncodeIs
  <2>2. EncodeAll(e, ts) = Encode(e, t)
    <3>1. Looped(e, t, t)
      BY EncodeAllIs
    <3> QED BY <3>1 DEF Looped
  <2> QED BY <2>1, <2>2
<1>10. Len(all) <= MaxCount /\ Len(all) >= 1
  BY <1>4, <1>8, Sizes
<1> HIDE DEF ts, need, all
<1>11. CurrentHolds' /\ IdsTyped' /\ PackedHolds'
  BY <1>1, <1>2, <1>5, <1>6, <1>7, <1>9, <1>10, RecordHolds DEF cur
<1> QED BY <1>2, <1>11 DEF IInv

LEMMA UnansweredHolds ==
    ASSUME IInv, NEW p \in Payloads, SubmitUnanswered(p)
    PROVE  IInv'
<1>1. CurrentHolds /\ IdsTyped /\ PackedHolds /\ SerialTyped
  BY DEF IInv
<1> DEFINE t == Propose(p)
           room == Room(Size(t))
<1>2. /\ buf' = room.buf /\ offset' = room.offset /\ initial' = room.initial
      /\ dataLen' = dataLen /\ last' = last /\ tree' = tree /\ count' = count /\ packed' = packed /\ told' = told
  BY DEF SubmitUnanswered
<1>3. SerialTyped'
  BY <1>1, SerialTaken DEF SubmitUnanswered
<1>4. Size(t) \in Nat
  <2>1. t \in Trans
    BY <1>1, SubmittedAre
  <2> QED BY <2>1, TransIs
<1>5. Written(room.buf, told) /\ room.offset = Total(told) /\ room.initial \in Nat
  BY <1>1, <1>4, RoomIs
<1>6. /\ told \in Seq(Trans) /\ dataLen = Total(told) /\ Leaves(tree, Coded(told), Len(told))
      /\ count = Len(told) /\ count < MaxCount
  BY <1>1, CurrentIs
<1> HIDE DEF room, t
<1>7. CurrentHolds'
  <2> DEFINE e == [buf |-> buf', offset |-> offset', tree |-> tree', count |-> count']
  <2>1. /\ e.buf = room.buf /\ e.offset = Total(told) /\ e.tree = tree /\ e.count = Len(told)
        /\ e = [buf |-> e.buf, offset |-> e.offset, tree |-> e.tree, count |-> e.count]
    BY <1>2, <1>5, <1>6
  <2>2. Encoder' = e
    BY DEF Encoder
  <2> HIDE DEF e
  <2>3. Buffered(e, told)
    BY <1>5, <1>6, <2>1 DEF Buffered
  <2>4. Buffered(Encoder, told)'
    BY <1>2, <2>2, <2>3
  <2> QED BY <1>2, <1>5, <1>6, <2>4 DEF CurrentHolds
<1>8. IdsTyped' /\ PackedHolds'
  BY <1>1, <1>2 DEF IdsTyped, PackedHolds
<1> QED BY <1>3, <1>7, <1>8 DEF IInv

LEMMA FailsHolds ==
    ASSUME IInv, NEW p \in Payloads, SubmitFails(p)
    PROVE  IInv'
<1>1. CurrentHolds /\ IdsTyped /\ PackedHolds /\ SerialTyped
  BY DEF IInv
<1>2. SerialTyped'
  BY <1>1, AnswerTakes DEF SubmitFails
<1>3. /\ NewBlock(PackSize) /\ tree' = Clear(tree) /\ told' = << >>
      /\ last' = [last EXCEPT !.cur = last.packed] /\ packed' = packed
      /\ initial' = Room(Size(Propose(p))).initial
  BY DEF SubmitFails, RollbackPartBlock
<1>4. initial' \in Nat
  <2>1. Propose(p) \in Trans
    BY <1>1, SubmittedAre
  <2>2. Size(Propose(p)) \in Nat
    BY <2>1, TransIs
  <2> QED BY <1>1, <1>3, <2>2, RoomIs
<1>5. CurrentHolds'
  <2>1. Leaves(tree', Coded(<< >>), 0)
    BY <1>1, <1>3, ClearedTree
  <2> QED BY <1>3, <1>4, <2>1, Sizes, NewBlockHolds
<1>6. IdsTyped' /\ PackedHolds'
  BY <1>1, <1>3 DEF IdsTyped, PackedHolds
<1> QED BY <1>2, <1>5, <1>6 DEF IInv

LEMMA TimePackHolds ==
    ASSUME IInv, OnTimePackBlock
    PROVE  IInv'
<1>1. CurrentHolds /\ IdsTyped /\ PackedHolds /\ SerialTyped
  BY DEF IInv
<1>2. count # 0 /\ initial' = initial /\ PackBlock(Encoder, told, last.cur) /\ serial' = serial
  BY DEF OnTimePackBlock, Encoder
<1>3. Buffered(Encoder, told) /\ initial' \in Nat /\ Len(told) >= 1 /\ last.cur \in Nat
  BY <1>1, <1>2, CurrentIs DEF CurrentHolds, IdsTyped
<1>4. CurrentHolds' /\ IdsTyped' /\ PackedHolds'
  BY <1>1, <1>2, <1>3, PackHolds
<1>5. SerialTyped'
  BY <1>1, <1>2 DEF SerialTyped
<1> QED BY <1>4, <1>5 DEF IInv

LEMMA PersistentHolds ==
    ASSUME IInv, PersistentBlockQueueHeader
    PROVE  IInv'
<1>1. CurrentHolds /\ IdsTyped /\ PackedHolds /\ SerialTyped
  BY DEF IInv
<1>2. /\ last' = [last EXCEPT !.stored = last.packed]
      /\ buf' = buf /\ dataLen' = dataLen /\ initial' = initial /\ offset' = offset /\ tree' = tree
      /\ count' = count /\ serial' = serial /\ packed' = packed /\ told' = told
  BY DEF PersistentBlockQueueHeader
<1>3. Encoder' = Encoder
  BY <1>2 DEF Encoder
<1>4. CurrentHolds'
  BY <1>1, <1>2, <1>3 DEF CurrentHolds
<1>5. IdsTyped' /\ PackedHolds' /\ SerialTyped'
  BY <1>1, <1>2 DEF IdsTyped, PackedHolds, SerialTyped
<1> QED BY <1>4, <1>5 DEF IInv

LEMMA OnInitHolds ==
    ASSUME IInv, OnInit
    PROVE  IInv'
<1>1. /\ NewBlock(PackSize) /\ tree' = NewTree /\ initial' = PackSize
      /\ last' = [last EXCEPT !.cur = last.stored, !.packed = last.stored]
      /\ serial' = Channel /\ packed' = NULL /\ told' = << >>
  BY DEF OnInit
<1>2. CurrentHolds'
  BY <1>1, Sizes, NewTreeIs, NewBlockHolds
<1>3. IdsTyped'
  BY <1>1 DEF IInv, IdsTyped
<1>4. PackedHolds' /\ SerialTyped'
  BY <1>1, Sizes DEF PackedHolds, SerialTyped
<1> QED BY <1>2, <1>3, <1>4 DEF IInv

LEMMA InitHolds ==
    ASSUME Init
    PROVE  IInv
<1>1. /\ buf = NewBuffer(PackSize) /\ dataLen = 0 /\ offset = 0 /\ initial = PackSize
      /\ tree = NewTree /\ count = 0 /\ serial = Channel /\ packed = NULL /\ told = << >>
  BY DEF Init
<1>2. CurrentHolds
  <2>1. /\ << >> \in Seq(Trans) /\ Len(<< >>) = 0 /\ Total(<< >>) = 0 /\ Written(NewBuffer(PackSize), << >>)
    BY Sizes, NewBufferIs
  <2>2. /\ Encoder.buf = NewBuffer(PackSize) /\ Encoder.offset = 0 /\ Encoder.tree = NewTree /\ Encoder.count = 0
        /\ Encoder = [buf |-> Encoder.buf, offset |-> Encoder.offset, tree |-> Encoder.tree, count |-> Encoder.count]
    BY <1>1 DEF Encoder
  <2>3. Buffered(Encoder, << >>)
    BY <2>1, <2>2, NewTreeIs DEF Buffered
  <2> QED BY <1>1, <2>3, Sizes DEF CurrentHolds
<1>3. IdsTyped /\ PackedHolds
  BY <1>1 DEF Init, IdsTyped, PackedHolds
<1>4. SerialTyped
  BY <1>1, Sizes DEF SerialTyped
<1> QED BY <1>2, <1>3, <1>4 DEF IInv

LEMMA NextHolds ==
    ASSUME Protected, IInv, [Next]_vars
    PROVE  IInv'
<1>1. CASE UNCHANGED vars
  <2>1. CurrentHolds' /\ IdsTyped' /\ PackedHolds' /\ SerialTyped'
    BY <1>1 DEF vars, IInv, CurrentHolds, Encoder, IdsTyped, PackedHolds, SerialTyped
  <2> QED BY <2>1 DEF IInv
<1>2. ASSUME NEW p \in Payloads, SubmitRegistUser(p) PROVE IInv'
  BY <1>2, RegistUserHolds
<1>3. ASSUME NEW p \in Payloads, SubmitCreateInformation(p) PROVE IInv'
  BY <1>3, CreateInformationHolds
<1>4. ASSUME NEW p \in Payloads, SubmitUnanswered(p) PROVE IInv'
  BY <1>4, UnansweredHolds
<1>5. ASSUME NEW p \in Payloads, SubmitFails(p) PROVE IInv'
  BY <1>5, FailsHolds
<1>6. CASE OnTimePackBlock
  BY <1>6, TimePackHolds
<1>7. CASE PersistentBlockQueueHeader
  BY <1>7, PersistentHolds
<1>8. CASE OnInit
  BY <1>8, OnInitHolds
<1> QED BY <1>1, <1>2, <1>3, <1>4, <1>5, <1>6, <1>7, <1>8 DEF Next

\* The current block holds what was answered since it was begun, and the newest
\* packed one what was answered for it; the serial number stays in its
\* ring (CBlockEncoder, OnTimePackBlock, RollbackPartBlock, SequenceNumberInc).
THEOREM Invariant == Protected /\ Spec => []IInv
<1> SUFFICES ASSUME Protected PROVE Spec => []IInv
  OBVIOUS
<1>1. Init => IInv
  BY InitHolds
<1>2. IInv /\ [Next]_vars => IInv'
  BY NextHolds
<1> QED BY <1>1, <1>2, PTL DEF Spec
-----------------------------------------------------------------------------
(* The properties *)

LEMMA BlocksDecodeIs ==
    ASSUME IInv
    PROVE  BlocksDecode
<1>1. Leaves(tree, Coded(told), Len(told)) /\ PackedHolds
  BY CurrentIs DEF IInv
<1>2. packed # NULL => Decode(packed, tree).trans = packed.told
  BY <1>1, PackDecodes DEF PackedHolds
<1> QED BY <1>2 DEF BlocksDecode

\* Every packed block decodes to the transactions whose submissions were
\* answered for it (vbhDecodeMemBcBloc after CBlockEncoder).
THEOREM PackedBlocksDecode == Protected /\ Spec => []BlocksDecode
<1>1. IInv => BlocksDecode
  BY BlocksDecodeIs
<1> QED BY <1>1, Invariant, PTL

\* A damaged block does not get past the peer: the step that packs a block
\* leaves one whose root only its own bytes decode to.
LEMMA StepRefuses ==
    ASSUME IInv', packed' # NULL, NEW bytes \in Damaged(packed'.bytes) \ {packed'.bytes}
    PROVE  Decode([packed' EXCEPT !.bytes = bytes], tree').trans = NULL
<1> DEFINE b == packed'
<1>1. PackOf(b)
  BY DEF IInv, PackedHolds
<1>2. \E D, m : Leaves(tree', D, m)
  <2>1. Buffered(Encoder, told)'
    BY DEF IInv, CurrentHolds
  <2>2. Encoder'.tree = tree'
    BY DEF Encoder
  <2>3. Leaves(Encoder'.tree, Coded(told'), Len(told'))
    BY <2>1 DEF Buffered
  <2> QED BY <2>2, <2>3
<1> HIDE DEF b
<1>3. b.bytes \in Seq(Cell)
  BY <1>1 DEF PackOf, Written
<1>4. bytes \in Seq(Cell) /\ Len(bytes) = Len(b.bytes) /\ bytes # b.bytes
  BY <1>3, DamagedIs DEF b
<1> SUFFICES ASSUME Decode([b EXCEPT !.bytes = bytes], tree').trans # NULL PROVE FALSE
  BY DEF b
<1>5. bytes = b.bytes
  BY <1>1, <1>2, <1>4, DamageFound
<1> QED BY <1>4, <1>5

\* No block with a changed or an exchanged part gets past the comparison of the
\* roots (vbhDecodeMemBcBloc, CMerkelTree::BuildMerkleTree).
THEOREM DamageStaysRefused == Protected /\ Spec => DamageIsRefused
<1> SUFFICES ASSUME Protected PROVE Spec => DamageIsRefused
  OBVIOUS
<1> DEFINE A == packed' # packed /\ packed' # NULL =>
                  \A bytes \in Damaged(packed'.bytes) \ {packed'.bytes} :
                    Decode([packed' EXCEPT !.bytes = bytes], tree').trans = NULL
<1>1. IInv /\ IInv' => A
  BY StepRefuses
<1>2. Spec => []IInv
  BY Invariant
<1> HIDE DEF A
<1>3. IInv /\ IInv' => [A]_vars
  BY <1>1
<1>4. Spec => [][A]_vars
  BY <1>2, <1>3, PTL
<1> QED BY <1>4 DEF DamageIsRefused, A
=============================================================================
