----------------------------- MODULE VbfsProofs -----------------------------
(***************************************************************************)
(* The properties of Vbfs for any number of devices of any size, any types *)
(* and any bounds, as long as no call or fault falls into an unprotected   *)
(* window.                                                                 *)
(***************************************************************************)
EXTENDS Vbfs, FiniteSetTheorems, WellFoundedInduction, TLAPS

Protected == Exposed = {} /\ \A u \in Uninitialised : u >= FileNum

\* File seg of type t has an entry on the disk, or its write failed.
RawSound(v) ==
  /\ v.start \in Nat
  /\ v.disk \in [Places -> [type : Types, id : Nat] \cup {FREE}]
  /\ v.logic \in [Types -> Seq(Places)]
  /\ \A t \in Types : \A i, j \in 1..Len(v.logic[t]) : i < j => v.logic[t][i] < v.logic[t][j]
  /\ \A t \in Types : \A i \in 1..Len(v.logic[t]) :
       LET p == v.logic[t][i]
       IN  i - 1 <= p /\ p < v.start /\ v.disk[p] \in {FREE, Entry(t, i - 1)}
  /\ \A t, u \in Types : \A i \in 1..Len(v.logic[t]), j \in 1..Len(v.logic[u]) :
       v.logic[t][i] = v.logic[u][j] => t = u
  /\ \A p \in Places : IF p < v.start THEN \E t \in Types : \E i \in 1..Len(v.logic[t]) : v.logic[t][i] = p
                                      ELSE v.disk[p] = FREE

\* The block of the index in memory has all entries, also those whose write
\* failed.
BufferSound(v) ==
  v.start < FileNum /\ RoundDown(v.start) < v.start =>
    /\ DOMAIN v.buf = InBlock
    /\ \A t \in Types : \A i \in 1..Len(v.logic[t]) :
         LET p == v.logic[t][i]
         IN  RoundDown(p) = RoundDown(v.start) => v.buf[p - RoundDown(p)] = Entry(t, i - 1)
    /\ \A k \in InBlock : RoundDown(v.start) + k >= v.start => v.buf[k] = FREE

FilesOf(v) == UNION {{t} \X (0..v.logic[t] - 1) : t \in Types}

FsSound(v) ==
  /\ v = [disk |-> v.disk, logic |-> v.logic, start |-> v.start, buf |-> v.buf]
  /\ v.disk \in [Types -> SUBSET Nat] /\ v.logic \in [Types -> Nat]
  /\ v.start = Cardinality(FilesOf(v))
  /\ \A t \in Types : v.disk[t] \in {0..v.logic[t] - 1, 0..v.logic[t]}

DeviceSound(v) == IF kind = "raw" THEN RawSound(v) /\ BufferSound(v) ELSE FsSound(v)

AllDevices(devs) == devs = [d \in 1..Devices |-> devs[d]]

\* The first n devices are open, and all but the last of them are full.
Sound(devs, n) ==
  /\ n \in 1..Devices /\ AllDevices(devs)
  /\ \A d \in 1..n : DeviceSound(devs[d]) /\ devs[d].start \in (0..FileNum) \cup Uninitialised
  /\ \A d \in 1..n - 1 : IsFull(devs[d])
  /\ \A d \in n + 1..Devices : devs[d] = Closed(FreeDisk)

\* A raw device counts a file from before its entry is written; the table
\* counts it when the call succeeded.
Ahead(t) == IF kind = "raw" THEN {files[t], files[t] + 1} ELSE {files[t]}

IInv ==
  /\ TypeOK
  /\ Sound(device, num)
  /\ \A t \in Types : CountBefore(device, num + 1, t) \in Ahead(t)
  /\ CallsSucceed

-----------------------------------------------------------------------------
(* Numbers *)

\* The least number of a set.
LEMMA MinIs ==
    ASSUME NEW S \in SUBSET Nat, S # {}
    PROVE  Min(S) \in S /\ \A y \in S : Min(S) <= y
<1> DEFINE R == OpToRel(<, Nat)
<1>1. IsWellFoundedOn(R, Nat)
  BY NatLessThanWellFounded
<1>2. \A x, y \in Nat : x < y => <<x, y>> \in R
  BY DEF OpToRel
<1> HIDE DEF R
<1>3. PICK x \in S : \A y \in S : <<y, x>> \notin R
  BY <1>1, WFMin
<1>4. ASSUME NEW y \in S PROVE x <= y
  <2>1. x \in Nat /\ y \in Nat /\ ~(y < x)
    BY <1>2, <1>3
  <2> QED BY <2>1
<1> QED BY <1>4 DEF Min

\* Where a place is in its block of the index.
LEMMA RoundIs ==
    ASSUME NEW i \in Nat
    PROVE  /\ RoundDown(i) \in Nat /\ RoundDown(i) <= i /\ i < RoundDown(i) + IndexBlock
           /\ i - RoundDown(i) \in InBlock
<1>1. IndexBlock \in Nat \ {0}
  BY VbfsAssumption
<1>2. /\ i \div IndexBlock \in Nat
      /\ (i \div IndexBlock) * IndexBlock <= i
      /\ i < (i \div IndexBlock) * IndexBlock + IndexBlock
  BY <1>1
<1>3. (i \div IndexBlock) * IndexBlock \in Nat
  BY <1>1, <1>2
<1> QED BY <1>1, <1>2, <1>3 DEF RoundDown, InBlock

LEMMA RoundNext ==
    ASSUME NEW i \in Nat, RoundDown(i + 1) < i + 1
    PROVE  RoundDown(i + 1) = RoundDown(i)
<1> DEFINE B == IndexBlock
           a == i \div B
           b == (i + 1) \div B
<1>1. B \in Nat \ {0}
  BY VbfsAssumption
<1>2. a \in Nat /\ a * B <= i /\ i < a * B + B
  BY <1>1
<1>3. b \in Nat /\ b * B <= i + 1 /\ i + 1 < b * B + B
  BY <1>1
<1>4. b * B <= i
  BY <1>1, <1>3 DEF RoundDown
<1> HIDE DEF a, b, B
<1>5. a = b
  <2>1. ~(a + 1 <= b)
    <3>1. a + 1 <= b => (a + 1) * B <= b * B
      BY <1>1, <1>2, <1>3
    <3>2. (a + 1) * B = a * B + B
      BY <1>1, <1>2
    <3>3. a * B \in Nat /\ b * B \in Nat
      BY <1>1, <1>2, <1>3
    <3> QED BY <1>1, <1>2, <1>4, <3>1, <3>2, <3>3
  <2>2. ~(b + 1 <= a)
    <3>1. b + 1 <= a => (b + 1) * B <= a * B
      BY <1>1, <1>2, <1>3
    <3>2. (b + 1) * B = b * B + B
      BY <1>1, <1>3
    <3>3. a * B \in Nat /\ b * B \in Nat
      BY <1>1, <1>2, <1>3
    <3> QED BY <1>1, <1>2, <1>3, <3>1, <3>2, <3>3
  <2> QED BY <1>2, <1>3, <2>1, <2>2
<1> QED BY <1>5 DEF RoundDown, a, b, B

\* The constants.
LEMMA Sizes == /\ Devices \in Nat \ {0} /\ FileNum \in Nat \ {0} /\ MaxFiles \in Nat /\ MaxFaults \in Nat
               /\ IndexBlock \in Nat \ {0} /\ Places \subseteq Nat
BY VbfsAssumption DEF Places
-----------------------------------------------------------------------------
(* Counting *)

\* The files on the devices before the n-th.
LEMMA CountIs ==
    ASSUME NEW devs, NEW n \in Nat \ {0}, NEW t, \A d \in 1..n - 1 : Count(devs[d], t) \in Nat
    PROVE  /\ CountBefore(devs, n, t) \in Nat
           /\ CountBefore(devs, 1, t) = 0
           /\ \A e \in 1..n : CountBefore(devs, e, t) \in Nat /\ CountBefore(devs, e, t) <= CountBefore(devs, n, t)
           /\ n > 1 => CountBefore(devs, n, t) = CountBefore(devs, n - 1, t) + Count(devs[n - 1], t)
<1> DEFINE F(d) == {d} \X (1..Count(devs[d], t))
           U(m) == UNION {F(d) : d \in 1..m - 1}
<1>1. ASSUME NEW d \in 1..n - 1 PROVE IsFiniteSet(F(d)) /\ Cardinality(F(d)) = Count(devs[d], t)
  <2>1. IsFiniteSet({d}) /\ Cardinality({d}) = 1
    BY FS_Singleton
  <2> DEFINE c == Count(devs[d], t)
  <2>2. IsFiniteSet(1..c) /\ Cardinality(1..c) = c /\ c \in Nat
    BY FS_Interval
  <2> HIDE DEF c
  <2> DEFINE A == {d}
             B == 1..c
  <2>3. IsFiniteSet(A \X B) /\ Cardinality(A \X B) = 1 * c
    <3> HIDE DEF A, B
    <3>1. IsFiniteSet(A) /\ Cardinality(A) = 1 /\ IsFiniteSet(B) /\ Cardinality(B) = c
      BY <2>1, <2>2 DEF A, B
    <3>2. IsFiniteSet(A \X B) /\ Cardinality(A \X B) = Cardinality(A) * Cardinality(B)
      BY <3>1, FS_Product
    <3> QED BY <3>1, <3>2
  <2>4. 1 * c = c
    BY <2>2
  <2> QED BY <2>2, <2>3, <2>4 DEF c
<1>2. ASSUME NEW e \in 1..n PROVE IsFiniteSet(U(e)) /\ U(e) \in SUBSET U(n)
  <2> DEFINE g == [d \in 1..e - 1 |-> F(d)]
             T == {F(d) : d \in 1..e - 1}
  <2>1. IsFiniteSet(1..e - 1)
    BY FS_Interval
  <2>2. g \in Surjection(1..e - 1, T)
    BY DEF Surjection
  <2>3. IsFiniteSet(T)
    <3> HIDE DEF g, T
    <3> QED BY <2>1, <2>2, FS_Surjection
  <2>4. \A S \in T : IsFiniteSet(S)
    BY <1>1
  <2>5. IsFiniteSet(UNION T)
    <3> HIDE DEF T
    <3> QED BY <2>3, <2>4, FS_UNION
  <2> QED BY <2>5
<1>3. \A e \in 1..n : CountBefore(devs, e, t) = Cardinality(U(e))
  BY DEF CountBefore
<1>4. U(1) = {}
  OBVIOUS
<1>5. n > 1 => U(n) = U(n - 1) \cup F(n - 1) /\ U(n - 1) \cap F(n - 1) = {} /\ n - 1 \in 1..n - 1 /\ n - 1 \in 1..n
  <2> SUFFICES ASSUME n > 1 PROVE U(n) = U(n - 1) \cup F(n - 1) /\ U(n - 1) \cap F(n - 1) = {}
    OBVIOUS
  <2>1. 1..n - 1 = (1..(n - 1) - 1) \cup {n - 1}
    OBVIOUS
  <2>2. U(n) = U(n - 1) \cup F(n - 1)
    BY <2>1
  <2>3. \A x \in U(n - 1) : x[1] # n - 1
    OBVIOUS
  <2>4. \A x \in F(n - 1) : x[1] = n - 1
    OBVIOUS
  <2> QED BY <2>2, <2>3, <2>4
<1>6. 1 \in 1..n /\ n \in 1..n
  OBVIOUS
<1> HIDE DEF F, U
<1>7. Cardinality(U(1)) = 0
  BY <1>4, FS_EmptySet
<1>8. \A e \in 1..n : Cardinality(U(e)) \in Nat /\ Cardinality(U(e)) <= Cardinality(U(n))
  BY <1>2, <1>6, FS_Subset, FS_CardinalityType
<1>9. n > 1 => Cardinality(U(n)) = Cardinality(U(n - 1)) + Count(devs[n - 1], t)
  <2> SUFFICES ASSUME n > 1 PROVE Cardinality(U(n)) = Cardinality(U(n - 1)) + Count(devs[n - 1], t)
    OBVIOUS
  <2>1. /\ IsFiniteSet(U(n - 1)) /\ IsFiniteSet(F(n - 1)) /\ Cardinality(F(n - 1)) = Count(devs[n - 1], t)
        /\ Cardinality(U(n - 1)) \in Nat /\ Count(devs[n - 1], t) \in Nat
    BY <1>1, <1>2, <1>5, <1>8
  <2>2. U(n) = U(n - 1) \cup F(n - 1) /\ U(n - 1) \cap F(n - 1) = {}
    BY <1>5
  <2>3. Cardinality(U(n - 1) \cup F(n - 1)) = Cardinality(U(n - 1)) + Cardinality(F(n - 1)) - Cardinality(U(n - 1) \cap F(n - 1))
    BY <2>1, FS_Union
  <2>4. Cardinality(U(n - 1) \cup F(n - 1)) = Cardinality(U(n - 1)) + Count(devs[n - 1], t) - 0
    BY <2>1, <2>2, <2>3, FS_EmptySet
  <2>5. Cardinality(U(n)) = Cardinality(U(n - 1) \cup F(n - 1))
    BY <2>2
  <2> QED BY <2>1, <2>4, <2>5
<1> QED BY <1>3, <1>5, <1>6, <1>7, <1>8, <1>9

\* It depends on those devices only.
LEMMA SameCount ==
    ASSUME NEW devs, NEW other, NEW n \in Nat \ {0}, NEW t,
           \A d \in 1..n - 1 : Count(devs[d], t) = Count(other[d], t)
    PROVE  CountBefore(devs, n, t) = CountBefore(other, n, t)
<1>1. UNION {{d} \X (1..Count(devs[d], t)) : d \in 1..n - 1} = UNION {{d} \X (1..Count(other[d], t)) : d \in 1..n - 1}
  OBVIOUS
<1> QED BY <1>1 DEF CountBefore
-----------------------------------------------------------------------------
(* Looking up a file *)

\* The counts of the open devices are numbers.
Counted(devs, n, t) == \A d \in 1..n : Count(devs[d], t) \in Nat

\* Device d has the file.
Holds(devs, t, id, d) ==
  CountBefore(devs, d, t) <= id /\ id < CountBefore(devs, d, t) + Count(devs[d], t)

\* The counts before the devices grow by the count of each device.
LEMMA BeforeIs ==
    ASSUME NEW devs, NEW n \in Nat \ {0}, NEW t, Counted(devs, n, t)
    PROVE  /\ CountBefore(devs, 1, t) = 0
           /\ \A d \in 1..n + 1 : CountBefore(devs, d, t) \in Nat
           /\ \A d \in 1..n : CountBefore(devs, d + 1, t) = CountBefore(devs, d, t) + Count(devs[d], t)
           /\ \A d, e \in 1..n + 1 : e <= d => CountBefore(devs, e, t) <= CountBefore(devs, d, t)
<1>1. \A d \in 1..n + 1 :
        /\ CountBefore(devs, d, t) \in Nat
        /\ CountBefore(devs, 1, t) = 0
        /\ \A e \in 1..d : CountBefore(devs, e, t) <= CountBefore(devs, d, t)
        /\ d > 1 => CountBefore(devs, d, t) = CountBefore(devs, d - 1, t) + Count(devs[d - 1], t)
  <2> TAKE d \in 1..n + 1
  <2>1. d \in Nat \ {0} /\ \A e \in 1..d - 1 : Count(devs[e], t) \in Nat
    BY DEF Counted
  <2> QED BY <2>1, CountIs
<1>2. ASSUME NEW d \in 1..n
      PROVE  CountBefore(devs, d + 1, t) = CountBefore(devs, d, t) + Count(devs[d], t)
  <2>1. d + 1 \in 1..n + 1 /\ d + 1 > 1 /\ (d + 1) - 1 = d
    OBVIOUS
  <2>2. CountBefore(devs, d + 1, t) = CountBefore(devs, (d + 1) - 1, t) + Count(devs[(d + 1) - 1], t)
    BY <1>1, <2>1
  <2> QED BY <2>1, <2>2
<1>3. 1 \in 1..n + 1
  OBVIOUS
<1>4. \A d, e \in 1..n + 1 : e <= d => e \in 1..d
  OBVIOUS
<1> QED BY <1>1, <1>2, <1>3, <1>4

\* A file is looked up on the device that has it.
LEMMA LocateIs ==
    ASSUME NEW devs, NEW n \in Nat \ {0}, NEW t, NEW id \in Nat, Counted(devs, n, t),
           NEW d \in 1..n, Holds(devs, t, id, d)
    PROVE  Locate(devs, n, t, id) = <<d, DevicePlace(devs[d], t, id - CountBefore(devs, d, t))>>
<1> DEFINE B(e) == CountBefore(devs, e, t)
           holders == {e \in 1..n : id - B(e) < Count(devs[e], t)}
<1>1. /\ \A e \in 1..n + 1 : B(e) \in Nat
      /\ \A e \in 1..n : B(e + 1) = B(e) + Count(devs[e], t)
      /\ \A c, e \in 1..n + 1 : e <= c => B(e) <= B(c)
  BY BeforeIs
<1>2. \A e \in 1..n : Count(devs[e], t) \in Nat
  BY DEF Counted
<1>3. B(d) <= id /\ id < B(d) + Count(devs[d], t)
  BY DEF Holds
<1> HIDE DEF B
<1>4. d \in holders
  <2>1. B(d) \in Nat /\ Count(devs[d], t) \in Nat
    BY <1>1, <1>2
  <2>2. id - B(d) < Count(devs[d], t)
    BY <1>3, <2>1
  <2> QED BY <2>2
<1>5. \A e \in holders : d <= e
  <2> SUFFICES ASSUME NEW e \in 1..n, e < d PROVE ~(id - B(e) < Count(devs[e], t))
    OBVIOUS
  <2>1. e + 1 <= d /\ e + 1 \in 1..n + 1 /\ d \in 1..n + 1 /\ e \in 1..n + 1
    OBVIOUS
  <2>2. B(e + 1) <= B(d) /\ B(e) \in Nat /\ B(d) \in Nat /\ Count(devs[e], t) \in Nat
    BY <1>1, <1>2, <2>1
  <2>3. B(e) + Count(devs[e], t) <= B(d)
    BY <1>1, <2>2
  <2> QED BY <1>3, <2>2, <2>3
<1>6. Min(holders) = d
  <2> HIDE DEF holders
  <2>1. holders \in SUBSET Nat /\ holders # {}
    BY <1>4 DEF holders
  <2>2. Min(holders) \in holders /\ Min(holders) <= d /\ Min(holders) \in Nat
    BY <1>4, <2>1, MinIs
  <2> QED BY <1>5, <2>2
<1>7. Locate(devs, n, t, id) = IF holders = {} THEN NOWHERE
                               ELSE <<Min(holders), DevicePlace(devs[Min(holders)], t, id - B(Min(holders)))>>
  BY DEF Locate, B
<1> QED BY <1>4, <1>6, <1>7 DEF B

\* A counted file is on one of the devices.
LEMMA HolderExists ==
    ASSUME NEW devs, NEW n \in Nat \ {0}, NEW t, NEW id \in Nat, Counted(devs, n, t),
           id < CountBefore(devs, n + 1, t)
    PROVE  \E d \in 1..n : Holds(devs, t, id, d)
<1> DEFINE B(e) == CountBefore(devs, e, t)
           S == {e \in 1..n : id < B(e + 1)}
<1>1. /\ B(1) = 0
      /\ \A e \in 1..n + 1 : B(e) \in Nat
      /\ \A e \in 1..n : B(e + 1) = B(e) + Count(devs[e], t)
  BY BeforeIs
<1>2. n \in S
  OBVIOUS
<1> DEFINE d == Min(S)
<1>3. d \in S /\ \A e \in S : d <= e
  <2>1. S \in SUBSET Nat /\ S # {}
    BY <1>2
  <2> HIDE DEF S
  <2> QED BY <2>1, MinIs
<1> HIDE DEF d, B
<1>4. d \in 1..n /\ id < B(d) + Count(devs[d], t)
  BY <1>1, <1>3
<1>5. B(d) <= id
  <2>1. CASE d = 1
    BY <1>1, <2>1
  <2>2. CASE d # 1
    <3>1. d - 1 \in 1..n /\ (d - 1) + 1 = d /\ ~(d <= d - 1) /\ d \in 1..n + 1
      BY <1>4, <2>2
    <3>2. ~(id < B((d - 1) + 1))
      BY <1>3, <3>1
    <3>3. B(d) \in Nat /\ ~(id < B(d))
      BY <1>1, <3>1, <3>2
    <3> QED BY <3>3
  <2> QED BY <2>1, <2>2
<1> QED BY <1>4, <1>5 DEF Holds, B

\* A file keeps its place while the counts before its device and its place on
\* that device stay.
LEMMA PlaceKept ==
    ASSUME NEW devs, NEW other, NEW n \in Nat \ {0}, NEW m \in Nat \ {0}, n <= m,
           NEW t, NEW id \in Nat, Counted(devs, n, t), Counted(other, m, t),
           id < CountBefore(devs, n + 1, t), id < CountBefore(other, n + 1, t),
           \A d \in 1..n - 1 : Count(devs[d], t) = Count(other[d], t),
           \A d \in 1..n : \A s \in Nat :
             s < Count(devs[d], t) /\ s < Count(other[d], t) =>
               DevicePlace(devs[d], t, s) = DevicePlace(other[d], t, s)
    PROVE  Locate(devs, n, t, id) = Locate(other, m, t, id)
<1>1. PICK d \in 1..n : Holds(devs, t, id, d)
  BY HolderExists
<1>2. \A e \in 1..n : CountBefore(devs, e, t) = CountBefore(other, e, t)
  <2> TAKE e \in 1..n
  <2>1. e \in Nat \ {0} /\ \A c \in 1..e - 1 : Count(devs[c], t) = Count(other[c], t)
    OBVIOUS
  <2> QED BY <2>1, SameCount
<1>3. /\ CountBefore(other, d, t) \in Nat
      /\ CountBefore(other, d + 1, t) = CountBefore(other, d, t) + Count(other[d], t)
      /\ CountBefore(devs, d + 1, t) = CountBefore(devs, d, t) + Count(devs[d], t)
  <2>1. d \in 1..m + 1 /\ d \in 1..m
    OBVIOUS
  <2> QED BY <2>1, BeforeIs
<1>4. Holds(other, t, id, d)
  <2>1. CASE d = n
    BY <1>1, <1>2, <1>3, <2>1 DEF Holds
  <2>2. CASE d # n
    <3>1. d \in 1..n - 1
      BY <2>2
    <3> QED BY <1>1, <1>2, <3>1 DEF Holds
  <2> QED BY <2>1, <2>2
<1> DEFINE s == id - CountBefore(other, d, t)
<1>5. Count(devs[d], t) \in Nat /\ Count(other[d], t) \in Nat
  BY DEF Counted
<1>6. s \in Nat /\ s < Count(devs[d], t) /\ s < Count(other[d], t)
  BY <1>1, <1>2, <1>3, <1>4, <1>5 DEF Holds
<1>7. Locate(devs, n, t, id) = <<d, DevicePlace(devs[d], t, s)>>
  BY <1>1, <1>2, LocateIs
<1>8. Locate(other, m, t, id) = <<d, DevicePlace(other[d], t, s)>>
  <2>1. d \in 1..m
    OBVIOUS
  <2> QED BY <1>4, <2>1, LocateIs
<1> HIDE DEF s
<1> QED BY <1>6, <1>7, <1>8
-----------------------------------------------------------------------------
(* Places in order *)

Increasing(s) == \A i, j \in DOMAIN s : i < j => s[i] < s[j]

Lists(s, m, S) == s \in [1..m -> S] /\ Range(s) = S /\ Increasing(s)

LEMMA NotBelow ==
    ASSUME NEW S \in SUBSET Nat, NEW m \in Nat, NEW n \in Nat, NEW s, NEW w, Lists(s, m, S), Lists(w, n, S),
           NEW i \in Nat \ {0}, i <= m, i <= n,
           \A j \in Nat \ {0} : j < i => s[j] = w[j]
    PROVE  ~(s[i] < w[i])
<1> SUFFICES ASSUME s[i] < w[i] PROVE FALSE
  OBVIOUS
<1>1. i \in 1..m /\ i \in 1..n /\ DOMAIN s = 1..m /\ DOMAIN w = 1..n
  BY DEF Lists
<1>2. s[i] \in Range(w) /\ s[i] \in Nat /\ w[i] \in Nat
  BY <1>1 DEF Lists, Range
<1>3. PICK j \in 1..n : w[j] = s[i]
  BY <1>1, <1>2 DEF Range
<1>4. CASE j < i
  <2>1. s[j] = s[i] /\ j \in 1..m
    BY <1>3, <1>4
  <2> QED BY <1>1, <1>2, <1>4, <2>1 DEF Lists, Increasing
<1>5. CASE i < j
  BY <1>1, <1>2, <1>3, <1>5 DEF Lists, Increasing
<1>6. CASE i = j
  BY <1>2, <1>3, <1>6
<1> QED BY <1>4, <1>5, <1>6

LEMMA NotShorter ==
    ASSUME NEW S \in SUBSET Nat, NEW m \in Nat, NEW n \in Nat, NEW s, NEW w, Lists(s, m, S), Lists(w, n, S),
           \A i \in Nat \ {0} : i <= m /\ i <= n => s[i] = w[i]
    PROVE  ~(m < n)
<1> SUFFICES ASSUME m < n PROVE FALSE
  OBVIOUS
<1>1. m + 1 \in 1..n /\ DOMAIN s = 1..m /\ DOMAIN w = 1..n
  BY DEF Lists
<1>2. w[m + 1] \in Range(s) /\ w[m + 1] \in Nat
  BY <1>1 DEF Lists, Range
<1>3. PICK j \in 1..m : s[j] = w[m + 1]
  BY <1>1, <1>2 DEF Range
<1>4. w[j] = w[m + 1] /\ j < m + 1 /\ j \in 1..n
  BY <1>3
<1> QED BY <1>1, <1>2, <1>4 DEF Lists, Increasing

\* A set has one list in order.
LEMMA OneList ==
    ASSUME NEW S \in SUBSET Nat, NEW m \in Nat, NEW n \in Nat, NEW s, NEW w, Lists(s, m, S), Lists(w, n, S)
    PROVE  s = w
<1> DEFINE D == {i \in Nat \ {0} : i <= m /\ i <= n /\ s[i] # w[i]}
<1>1. D = {}
  <2> SUFFICES ASSUME D # {} PROVE FALSE
    OBVIOUS
  <2> DEFINE i == Min(D)
  <2>1. i \in D /\ \A j \in D : i <= j
    <3>1. D \in SUBSET Nat
      OBVIOUS
    <3> HIDE DEF D
    <3> QED BY <3>1, MinIs
  <2> HIDE DEF i
  <2>2. i \in Nat \ {0} /\ i <= m /\ i <= n /\ s[i] # w[i]
    BY <2>1
  <2>3. \A j \in Nat \ {0} : j < i => s[j] = w[j]
    BY <2>1, <2>2
  <2>4. ~(s[i] < w[i]) /\ ~(w[i] < s[i])
    BY <2>2, <2>3, NotBelow
  <2> HIDE DEF D
  <2>5. s[i] \in Nat /\ w[i] \in Nat
    <3>1. i \in 1..m /\ i \in 1..n
      BY <2>2
    <3>2. s[i] \in S /\ w[i] \in S
      BY <3>1 DEF Lists
    <3> QED BY <3>2
  <2> QED BY <2>2, <2>4, <2>5
<1>2. \A i \in Nat \ {0} : i <= m /\ i <= n => s[i] = w[i]
  BY <1>1
<1>3. ~(m < n) /\ ~(n < m)
  BY <1>2, NotShorter
<1>4. m = n
  BY <1>3
<1> QED BY <1>2, <1>4 DEF Lists

LEMMA InOrderIs ==
    ASSUME NEW S \in SUBSET Nat, NEW m \in 0..FileNum, NEW s, Lists(s, m, S)
    PROVE  InOrder(S) = s
<1> DEFINE Ok(w) == w \in SeqOf(S, FileNum) /\ Range(w) = S /\ \A i, j \in DOMAIN w : i < j => w[i] < w[j]
<1>1. Ok(s)
  BY DEF Lists, Increasing, SeqOf
<1>2. Ok(InOrder(S))
  BY <1>1 DEF InOrder
<1>3. PICK n \in 0..FileNum : InOrder(S) \in [1..n -> S]
  BY <1>2 DEF SeqOf
<1>4. Lists(InOrder(S), n, S)
  BY <1>2, <1>3 DEF Lists, Increasing
<1>5. n \in Nat /\ m \in Nat
  BY Sizes
<1> QED BY <1>4, <1>5, OneList
-----------------------------------------------------------------------------
(* Raw devices *)

\* The list of the files of type t.
LEMMA ListIs ==
    ASSUME NEW v, RawSound(v), NEW t \in Types
    PROVE  /\ v.logic[t] \in Seq(Places) /\ DOMAIN v.logic[t] = 1..Len(v.logic[t])
           /\ Len(v.logic[t]) \in Nat /\ Len(v.logic[t]) <= FileNum /\ Len(v.logic[t]) <= v.start
           /\ \A i \in 1..Len(v.logic[t]) :
                /\ v.logic[t][i] \in Places /\ v.logic[t][i] \in Nat
                /\ i - 1 <= v.logic[t][i] /\ v.logic[t][i] < v.start
                /\ v.disk[v.logic[t][i]] \in {FREE, Entry(t, i - 1)}
           /\ Increasing(v.logic[t])
<1> DEFINE w == v.logic[t]
<1>1. w \in Seq(Places)
  BY DEF RawSound
<1>2. DOMAIN w = 1..Len(w) /\ Len(w) \in Nat
  BY <1>1
<1>3. \A i \in 1..Len(w) : w[i] \in Places /\ w[i] \in Nat
  <2> HIDE DEF w
  <2>1. \A i \in 1..Len(w) : w[i] \in Places
    BY <1>1
  <2>2. Places \subseteq Nat
    BY Sizes
  <2> QED BY <2>1, <2>2
<1>4. \A i \in 1..Len(w) : i - 1 <= w[i] /\ w[i] < v.start /\ v.disk[w[i]] \in {FREE, Entry(t, i - 1)}
  BY DEF RawSound
<1>5. Increasing(w)
  BY <1>2 DEF RawSound, Increasing
<1>6. Len(w) <= FileNum /\ Len(w) <= v.start
  <2>1. v.start \in Nat /\ FileNum \in Nat
    BY Sizes DEF RawSound
  <2>2. CASE Len(w) = 0
    BY <2>1, <2>2
  <2>3. CASE Len(w) # 0
    <3> DEFINE l == Len(w)
    <3>1. l \in 1..l /\ l \in Nat
      BY <1>2, <2>3
    <3>2. w[l] \in Places /\ w[l] \in Nat /\ l - 1 <= w[l] /\ w[l] < v.start
      BY <1>3, <1>4, <3>1
    <3>3. w[l] < FileNum
      BY <2>1, <3>2 DEF Places
    <3> HIDE DEF l, w
    <3>4. l <= FileNum /\ l <= v.start
      BY <2>1, <3>1, <3>2, <3>3
    <3> QED BY <3>4 DEF l
  <2> QED BY <2>2, <2>3
<1> QED BY <1>1, <1>2, <1>3, <1>4, <1>5, <1>6

\* The block of the index with a new entry.
LEMMA NextBlockIs ==
    ASSUME NEW v, RawSound(v), BufferSound(v), v.start < FileNum, NEW t \in Types, NEW seg,
           NEW B, B = NextBlock(v, t, seg)
    PROVE  /\ DOMAIN B = InBlock
           /\ B[v.start - RoundDown(v.start)] = Entry(t, seg)
           /\ \A u \in Types : \A j \in 1..Len(v.logic[u]) :
                RoundDown(v.logic[u][j]) = RoundDown(v.start) =>
                  B[v.logic[u][j] - RoundDown(v.start)] = Entry(u, j - 1)
           /\ \A k \in InBlock : RoundDown(v.start) + k > v.start => B[k] = FREE
<1> DEFINE r == RoundDown(v.start)
<1>1. v.start \in Nat /\ r \in Nat /\ r <= v.start /\ v.start - r \in InBlock
  BY RoundIs DEF RawSound
<1>2. InBlock \subseteq Nat /\ 0 \in InBlock
  BY Sizes DEF InBlock
<1>3. ASSUME NEW u \in Types, NEW j \in 1..Len(v.logic[u]), RoundDown(v.logic[u][j]) = r
      PROVE  v.logic[u][j] \in Nat /\ v.logic[u][j] < v.start /\ r <= v.logic[u][j] /\ v.logic[u][j] - r \in InBlock
  <2>1. v.logic[u][j] \in Nat /\ v.logic[u][j] < v.start
    BY ListIs
  <2> QED BY <1>3, <2>1, RoundIs
<1>4. CASE v.start = r
  <2>1. B = [k \in InBlock |-> IF k = 0 THEN Entry(t, seg) ELSE FREE]
    BY <1>4 DEF NextBlock
  <2>2. v.start - r = 0
    BY <1>1, <1>4
  <2>3. B[0] = Entry(t, seg)
    BY <1>2, <2>1
  <2>4. \A u \in Types : \A j \in 1..Len(v.logic[u]) : RoundDown(v.logic[u][j]) # r
    BY <1>1, <1>3, <1>4
  <2>5. \A k \in InBlock : r + k > v.start => k # 0
    BY <1>1, <1>2, <1>4
  <2> QED BY <2>1, <2>2, <2>3, <2>4, <2>5
<1>5. CASE v.start # r
  <2>1. B = [v.buf EXCEPT ![v.start - r] = Entry(t, seg)]
    BY <1>5 DEF NextBlock
  <2>2. r < v.start
    BY <1>1, <1>5
  <2>3. /\ DOMAIN v.buf = InBlock
        /\ \A u \in Types : \A j \in 1..Len(v.logic[u]) :
             RoundDown(v.logic[u][j]) = r =>
               v.buf[v.logic[u][j] - RoundDown(v.logic[u][j])] = Entry(u, j - 1)
        /\ \A k \in InBlock : r + k >= v.start => v.buf[k] = FREE
    BY <2>2 DEF BufferSound
  <2>4. DOMAIN B = InBlock /\ B[v.start - r] = Entry(t, seg) /\ \A k \in InBlock : k # v.start - r => B[k] = v.buf[k]
    BY <1>1, <2>1, <2>3
  <2>5. ASSUME NEW u \in Types, NEW j \in 1..Len(v.logic[u]), RoundDown(v.logic[u][j]) = r
        PROVE  B[v.logic[u][j] - r] = Entry(u, j - 1)
    <3>1. v.logic[u][j] - r \in InBlock /\ v.logic[u][j] - r # v.start - r
      BY <1>1, <1>3, <2>5
    <3>2. v.buf[v.logic[u][j] - r] = Entry(u, j - 1)
      BY <2>3, <2>5
    <3> QED BY <2>4, <3>1, <3>2
  <2>6. ASSUME NEW k \in InBlock, r + k > v.start PROVE B[k] = FREE
    <3>1. k # v.start - r /\ r + k >= v.start
      BY <1>1, <1>2, <2>6
    <3> QED BY <2>3, <2>4, <3>1
  <2> QED BY <2>4, <2>5, <2>6
<1> QED BY <1>4, <1>5

\* Device w has the files of device v, and may have more.
Extends(w, v) ==
  \A t \in Types : \A i \in 1..Len(v.logic[t]) : i \in 1..Len(w.logic[t]) /\ w.logic[t][i] = v.logic[t][i]

LEMMA EntryTyped ==
    ASSUME NEW t \in Types, NEW i \in Nat
    PROVE  Entry(t, i) \in [type : Types, id : Nat] /\ Entry(t, i).type = t /\ Entry(t, i) # FREE
<1>1. Entry(t, i) \in [type : Types, id : Nat] /\ Entry(t, i).type = t
  BY DEF Entry
<1> QED BY <1>1, VbfsAssumption

\* The index after its block was written with the new entry.
Written(v, t) ==
  [p \in Places |-> IF RoundDown(p) = RoundDown(v.start)
                    THEN NextBlock(v, t, Len(v.logic[t]))[p - RoundDown(p)] ELSE v.disk[p]]

LEMMA WrittenIs ==
    ASSUME NEW v, RawSound(v), BufferSound(v), v.start < FileNum, NEW t \in Types,
           NEW D, D = Written(v, t)
    PROVE  /\ D \in [Places -> [type : Types, id : Nat] \cup {FREE}]
           /\ D[v.start] = Entry(t, Len(v.logic[t]))
           /\ \A u \in Types : \A j \in 1..Len(v.logic[u]) : D[v.logic[u][j]] \in {FREE, Entry(u, j - 1)}
           /\ \A p \in Places : p > v.start => D[p] = FREE
<1> DEFINE B == NextBlock(v, t, Len(v.logic[t]))
           i == v.start
<1>1. i \in Nat /\ i \in Places /\ Places \subseteq Nat
  BY Sizes DEF RawSound, Places
<1>2. /\ \A p \in Places : D[p] = IF RoundDown(p) = RoundDown(i) THEN B[p - RoundDown(p)] ELSE v.disk[p]
      /\ DOMAIN D = Places /\ D = [p \in Places |-> D[p]]
  BY DEF Written
<1>3. /\ B[i - RoundDown(i)] = Entry(t, Len(v.logic[t]))
      /\ \A u \in Types : \A j \in 1..Len(v.logic[u]) :
           RoundDown(v.logic[u][j]) = RoundDown(i) => B[v.logic[u][j] - RoundDown(i)] = Entry(u, j - 1)
      /\ \A k \in InBlock : RoundDown(i) + k > i => B[k] = FREE
  <2>1. B = NextBlock(v, t, Len(v.logic[t]))
    OBVIOUS
  <2> HIDE DEF B
  <2> QED BY <2>1, NextBlockIs
<1> HIDE DEF B
<1>4. D[i] = Entry(t, Len(v.logic[t]))
  BY <1>1, <1>2, <1>3
<1>5. ASSUME NEW u \in Types, NEW j \in 1..Len(v.logic[u]) PROVE D[v.logic[u][j]] \in {FREE, Entry(u, j - 1)}
  <2>1. v.logic[u][j] \in Places /\ v.disk[v.logic[u][j]] \in {FREE, Entry(u, j - 1)}
    BY ListIs
  <2> QED BY <1>2, <1>3, <2>1
<1>6. ASSUME NEW p \in Places, p > i PROVE D[p] = FREE
  <2>1. CASE RoundDown(p) = RoundDown(i)
    <3>1. p \in Nat
      BY <1>1
    <3>2. p - RoundDown(p) \in InBlock /\ RoundDown(p) \in Nat
      BY <3>1, RoundIs
    <3>3. RoundDown(i) + (p - RoundDown(p)) > i
      BY <1>6, <2>1, <3>1, <3>2
    <3> QED BY <1>2, <1>3, <2>1, <3>2, <3>3
  <2>2. CASE RoundDown(p) # RoundDown(i)
    <3>1. v.disk[p] = FREE
      BY <1>1, <1>6 DEF RawSound
    <3> QED BY <1>2, <2>2, <3>1
  <2> QED BY <2>1, <2>2
<1>7. ASSUME NEW p \in Places PROVE D[p] \in [type : Types, id : Nat] \cup {FREE}
  <2>1. CASE p < i
    <3>0. PICK u \in Types : \E j \in 1..Len(v.logic[u]) : v.logic[u][j] = p
      BY <2>1 DEF RawSound
    <3>1. PICK j \in 1..Len(v.logic[u]) : v.logic[u][j] = p
      BY <3>0
    <3>2. j - 1 \in Nat
      BY ListIs
    <3>3. D[p] \in {FREE, Entry(u, j - 1)}
      BY <1>5, <3>1
    <3>4. Entry(u, j - 1) \in [type : Types, id : Nat]
      BY <3>2, EntryTyped
    <3> QED BY <3>3, <3>4
  <2>2. CASE p = i
    <3>1. Len(v.logic[t]) \in Nat
      BY ListIs
    <3>2. Entry(t, Len(v.logic[t])) \in [type : Types, id : Nat]
      BY <3>1, EntryTyped
    <3> QED BY <1>4, <2>2, <3>2
  <2>3. CASE p > i
    BY <1>6, <2>3
  <2>4. p \in Nat
    BY <1>1
  <2> QED BY <1>1, <2>1, <2>2, <2>3, <2>4
<1>8. D \in [Places -> [type : Types, id : Nat] \cup {FREE}]
  BY <1>2, <1>7
<1> QED BY <1>4, <1>5, <1>6, <1>8

\* The next file of a type is put at the first free place.
RawAfter(v, t, D) ==
  [disk |-> D, logic |-> [v.logic EXCEPT ![t] = Append(@, v.start)],
   start |-> v.start + 1, buf |-> NextBlock(v, t, Len(v.logic[t]))]

LEMMA RawAllocates ==
    ASSUME NEW v, RawSound(v), BufferSound(v), v.start < FileNum, NEW t \in Types, NEW D,
           D = v.disk \/ D = Written(v, t),
           NEW w, w = RawAfter(v, t, D)
    PROVE  /\ RawSound(w) /\ BufferSound(w) /\ Extends(w, v)
           /\ \A u \in Types : Len(w.logic[u]) = IF u = t THEN Len(v.logic[u]) + 1 ELSE Len(v.logic[u])
<1> DEFINE i == v.start
           n == Len(v.logic[t])
           B == NextBlock(v, t, n)
<1>1. i \in Nat /\ i \in Places /\ Places \subseteq Nat /\ n \in Nat /\ n <= i
  <2>1. i \in Nat
    BY DEF RawSound
  <2>2. n \in Nat /\ n <= i
    BY ListIs
  <2> QED BY <2>1, <2>2, Sizes DEF Places
<1>2. /\ D \in [Places -> [type : Types, id : Nat] \cup {FREE}]
      /\ D[i] \in {FREE, Entry(t, n)}
      /\ \A u \in Types : \A j \in 1..Len(v.logic[u]) : D[v.logic[u][j]] \in {FREE, Entry(u, j - 1)}
      /\ \A p \in Places : p > i => D[p] = FREE
  <2>1. CASE D = v.disk
    <3>1. \A p \in Places : ~(p < i) => v.disk[p] = FREE
      BY DEF RawSound
    <3>2. \A p \in Places : p > i => ~(p < i)
      BY <1>1
    <3>3. ~(i < i)
      BY <1>1
    <3>4. v.disk \in [Places -> [type : Types, id : Nat] \cup {FREE}]
      BY DEF RawSound
    <3>5. \A u \in Types : \A j \in 1..Len(v.logic[u]) : v.disk[v.logic[u][j]] \in {FREE, Entry(u, j - 1)}
      BY ListIs
    <3> QED BY <1>1, <2>1, <3>1, <3>2, <3>3, <3>4, <3>5
  <2>2. CASE D = Written(v, t)
    BY <2>2, WrittenIs
  <2> QED BY <2>1, <2>2
<1>3. /\ w.disk = D /\ w.start = i + 1 /\ w.buf = B /\ w.logic = [v.logic EXCEPT ![t] = Append(@, i)]
      /\ i + 1 \in Nat
  BY <1>1 DEF RawAfter
<1>4. v.logic \in [Types -> Seq(Places)]
  BY DEF RawSound
<1>5. /\ w.logic[t] = Append(v.logic[t], i) /\ \A u \in Types : u # t => w.logic[u] = v.logic[u]
      /\ w.logic \in [Types -> Seq(Places)]
  BY <1>1, <1>3, <1>4
<1>6. /\ Len(w.logic[t]) = n + 1 /\ w.logic[t][n + 1] = i
      /\ \A j \in 1..n : w.logic[t][j] = v.logic[t][j]
  <2>1. v.logic[t] \in Seq(Places)
    BY <1>4
  <2> QED BY <1>1, <1>5, <2>1
<1>7. \A u \in Types : Len(w.logic[u]) = IF u = t THEN Len(v.logic[u]) + 1 ELSE Len(v.logic[u])
  BY <1>5, <1>6
<1>8. Extends(w, v)
  <2> SUFFICES ASSUME NEW u \in Types, NEW j \in 1..Len(v.logic[u])
               PROVE  j \in 1..Len(w.logic[u]) /\ w.logic[u][j] = v.logic[u][j]
    BY DEF Extends
  <2>1. CASE u = t
    BY <1>1, <1>6, <2>1
  <2>2. CASE u # t
    BY <1>5, <2>2
  <2> QED BY <2>1, <2>2
\* an entry of w is one of v, or the new one
<1>9. ASSUME NEW u \in Types, NEW j \in 1..Len(w.logic[u])
      PROVE  \/ j \in 1..Len(v.logic[u]) /\ w.logic[u][j] = v.logic[u][j]
             \/ u = t /\ j = n + 1 /\ w.logic[u][j] = i
  <2>1. CASE u # t
    BY <1>5, <2>1
  <2>2. CASE u = t
    <3>1. j \in 1..n + 1
      BY <1>6, <2>2
    <3>2. j \in 1..n \/ j = n + 1
      BY <1>1, <3>1
    <3> QED BY <1>6, <2>2, <3>2
  <2> QED BY <2>1, <2>2
<1>10. \A u \in Types : \A j \in 1..Len(v.logic[u]) :
         v.logic[u][j] \in Nat /\ v.logic[u][j] < i /\ v.logic[u][j] \in Places /\ j - 1 <= v.logic[u][j]
  BY ListIs
<1> HIDE DEF B
<1>11. RawSound(w)
  <2>1. w.start \in Nat /\ w.disk \in [Places -> [type : Types, id : Nat] \cup {FREE}]
    BY <1>2, <1>3
  <2>2. ASSUME NEW u \in Types, NEW j \in 1..Len(w.logic[u]), NEW k \in 1..Len(w.logic[u]), j < k
        PROVE  w.logic[u][j] < w.logic[u][k]
    <3>1. CASE u # t
      BY <1>5, <2>2, <3>1 DEF RawSound
    <3>2. CASE u = t
      <4>1. j \in 1..n
        BY <1>1, <1>6, <2>2, <3>2
      <4>2. CASE k \in 1..n
        BY <1>6, <2>2, <3>2, <4>1, <4>2 DEF RawSound
      <4>3. CASE k = n + 1
        BY <1>6, <1>10, <3>2, <4>1, <4>3
      <4> QED BY <1>1, <1>6, <3>2, <4>2, <4>3
    <3> QED BY <3>1, <3>2
  <2>3. ASSUME NEW u \in Types, NEW j \in 1..Len(w.logic[u])
        PROVE  /\ j - 1 <= w.logic[u][j] /\ w.logic[u][j] < w.start
               /\ w.disk[w.logic[u][j]] \in {FREE, Entry(u, j - 1)}
    <3>1. CASE j \in 1..Len(v.logic[u]) /\ w.logic[u][j] = v.logic[u][j]
      <4>1. v.logic[u][j] \in Nat /\ v.logic[u][j] < i /\ j - 1 <= v.logic[u][j]
        BY <1>10, <3>1
      <4>2. v.logic[u][j] < i + 1
        BY <1>1, <4>1
      <4> QED BY <1>2, <1>3, <3>1, <4>1, <4>2
    <3>2. CASE u = t /\ j = n + 1 /\ w.logic[u][j] = i
      <4>1. j - 1 = n /\ n <= i /\ i < i + 1
        BY <1>1, <3>2
      <4> QED BY <1>2, <1>3, <3>2, <4>1
    <3> QED BY <1>9, <3>1, <3>2
  <2>4. ASSUME NEW u \in Types, NEW x \in Types, NEW j \in 1..Len(w.logic[u]), NEW k \in 1..Len(w.logic[x]),
               w.logic[u][j] = w.logic[x][k]
        PROVE  u = x
    <3>1. CASE j \in 1..Len(v.logic[u]) /\ w.logic[u][j] = v.logic[u][j] /\ k \in 1..Len(v.logic[x]) /\ w.logic[x][k] = v.logic[x][k]
      <4>1. v.logic[u][j] = v.logic[x][k]
        BY <2>4, <3>1
      <4> QED BY <3>1, <4>1 DEF RawSound
    <3>2. CASE j \in 1..Len(v.logic[u]) /\ w.logic[u][j] = v.logic[u][j] /\ w.logic[x][k] = i
      <4>1. v.logic[u][j] = i /\ v.logic[u][j] < i
        BY <1>10, <2>4, <3>2
      <4> QED BY <1>1, <4>1
    <3>3. CASE w.logic[u][j] = i /\ k \in 1..Len(v.logic[x]) /\ w.logic[x][k] = v.logic[x][k]
      <4>1. v.logic[x][k] = i /\ v.logic[x][k] < i
        BY <1>10, <2>4, <3>3
      <4> QED BY <1>1, <4>1
    <3>4. CASE u = t /\ x = t
      BY <3>4
    <3> QED BY <1>9, <3>1, <3>2, <3>3, <3>4
  <2>5. ASSUME NEW p \in Places
        PROVE  IF p < w.start THEN \E u \in Types : \E j \in 1..Len(w.logic[u]) : w.logic[u][j] = p
                              ELSE w.disk[p] = FREE
    <3>1. p \in Nat
      BY <1>1
    <3>2. CASE p < i
      <4>0. PICK u \in Types : \E j \in 1..Len(v.logic[u]) : v.logic[u][j] = p
        BY <3>2 DEF RawSound
      <4>1. PICK j \in 1..Len(v.logic[u]) : v.logic[u][j] = p
        BY <4>0
      <4>2. j \in 1..Len(w.logic[u]) /\ w.logic[u][j] = p
        BY <1>8, <4>1 DEF Extends
      <4>3. p < w.start
        BY <1>1, <1>3, <3>1, <3>2
      <4> QED BY <4>2, <4>3
    <3>3. CASE p = i
      <4>1. p < w.start /\ n + 1 \in 1..Len(w.logic[t]) /\ w.logic[t][n + 1] = p
        BY <1>1, <1>3, <1>6, <3>3
      <4> QED BY <4>1
    <3>4. CASE p > i
      <4>1. ~(p < w.start) /\ w.disk[p] = FREE
        BY <1>1, <1>2, <1>3, <3>1, <3>4
      <4> QED BY <4>1
    <3> QED BY <1>1, <3>1, <3>2, <3>3, <3>4
  <2> QED BY <1>5, <2>1, <2>2, <2>3, <2>4, <2>5 DEF RawSound
<1>12. BufferSound(w)
  <2> SUFFICES ASSUME RoundDown(i + 1) < i + 1
               PROVE  /\ DOMAIN B = InBlock
                      /\ \A u \in Types : \A j \in 1..Len(w.logic[u]) :
                           RoundDown(w.logic[u][j]) = RoundDown(i + 1) =>
                             B[w.logic[u][j] - RoundDown(w.logic[u][j])] = Entry(u, j - 1)
                      /\ \A k \in InBlock : RoundDown(i + 1) + k >= i + 1 => B[k] = FREE
    BY SMTT(30), <1>3 DEF BufferSound
  <2>1. RoundDown(i + 1) = RoundDown(i) /\ RoundDown(i) \in Nat
    BY <1>1, RoundNext, RoundIs
  <2>2. /\ DOMAIN B = InBlock
        /\ B[i - RoundDown(i)] = Entry(t, n)
        /\ \A u \in Types : \A j \in 1..Len(v.logic[u]) :
             RoundDown(v.logic[u][j]) = RoundDown(i) => B[v.logic[u][j] - RoundDown(i)] = Entry(u, j - 1)
        /\ \A k \in InBlock : RoundDown(i) + k > i => B[k] = FREE
    <3>1. B = NextBlock(v, t, n)
      BY DEF B
    <3> QED BY <3>1, NextBlockIs
  <2>3. ASSUME NEW u \in Types, NEW j \in 1..Len(w.logic[u]), RoundDown(w.logic[u][j]) = RoundDown(i)
        PROVE  B[w.logic[u][j] - RoundDown(w.logic[u][j])] = Entry(u, j - 1)
    <3>1. CASE j \in 1..Len(v.logic[u]) /\ w.logic[u][j] = v.logic[u][j]
      BY <2>2, <2>3, <3>1
    <3>2. CASE u = t /\ j = n + 1 /\ w.logic[u][j] = i
      <4>1. j - 1 = n
        BY <1>1, <3>2
      <4> QED BY <2>2, <3>2, <4>1
    <3> QED BY <1>9, <3>1, <3>2
  <2>4. ASSUME NEW k \in InBlock, RoundDown(i) + k >= i + 1 PROVE B[k] = FREE
    <3>1. k \in Nat
      BY Sizes DEF InBlock
    <3>2. RoundDown(i) + k > i
      BY <1>1, <2>1, <2>4, <3>1
    <3> QED BY <2>2, <3>2
  <2> QED BY <2>1, <2>2, <2>3, <2>4
<1> QED BY <1>7, <1>8, <1>11, <1>12

\* The elements of a list in order that are below b come first.
LEMMA PrefixExists ==
    ASSUME NEW n \in Nat, NEW s \in [1..n -> Nat], Increasing(s), NEW b \in Nat
    PROVE  \E k \in 0..n : \A i \in 1..n : i <= k <=> s[i] < b
<1> DEFINE P(k) == k = n \/ ~(s[k + 1] < b)
           S == {k \in 0..n : P(k)}
           k == Min(S)
<1>1. k \in S /\ \A j \in S : k <= j
  <2>1. S \in SUBSET Nat /\ n \in S
    OBVIOUS
  <2> HIDE DEF S
  <2> QED BY <2>1, MinIs
<1> HIDE DEF k
<1>2. k \in 0..n
  BY <1>1
<1>3. ASSUME NEW i \in 1..n, i <= k PROVE s[i] < b
  <2>1. i - 1 \in 0..n /\ ~(k <= i - 1) /\ i - 1 # n /\ (i - 1) + 1 = i
    BY <1>2, <1>3
  <2>2. ~P(i - 1)
    BY <1>1, <2>1
  <2> QED BY <2>1, <2>2
<1>4. ASSUME NEW i \in 1..n, k < i PROVE ~(s[i] < b)
  <2>1. k # n /\ k + 1 \in 1..n
    BY <1>2, <1>4
  <2>2. ~(s[k + 1] < b)
    BY <1>1, <2>1
  <2>3. s[k + 1] \in Nat /\ s[i] \in Nat
    BY <2>1
  <2>4. CASE i = k + 1
    BY <2>2, <2>4
  <2>5. CASE i # k + 1
    <3>1. k + 1 < i
      BY <1>2, <1>4, <2>5
    <3>2. s[k + 1] < s[i]
      BY <2>1, <3>1 DEF Increasing
    <3> QED BY <2>2, <2>3, <3>2
  <2> QED BY <2>4, <2>5
<1>5. \A i \in 1..n : i <= k <=> s[i] < b
  BY <1>2, <1>3, <1>4
<1> QED BY <1>2, <1>5

\* Opening a raw device whose index has no hole.
LEMMA RawReopens ==
    ASSUME NEW v, RawSound(v), \A p, q \in Places : p < q /\ v.disk[q] # FREE => v.disk[p] # FREE,
           NEW leftover \in Nat, leftover >= FileNum, NEW w, w = RawOpen(v, leftover)
    PROVE  /\ RawSound(w) /\ BufferSound(w) /\ w.disk = v.disk
           /\ \A t \in Types : \A i \in 1..Len(w.logic[t]) : i \in 1..Len(v.logic[t]) /\ w.logic[t][i] = v.logic[t][i]
           /\ \A t \in Types : \A i \in 1..Len(v.logic[t]) :
                v.disk[v.logic[t][i]] # FREE => i \in 1..Len(w.logic[t])
           /\ w.start \in (0..FileNum) \cup {leftover}
           /\ w.start >= FileNum <=> \A p \in Places : v.disk[p] # FREE
<1> DEFINE free == {i \in Places : v.disk[i] = FREE}
           b == IF free = {} THEN FileNum ELSE Min(free)
           start == IF free = {} THEN leftover ELSE Min(free)
           used == IF free = {} THEN Places ELSE 0..start - 1
           L(t) == InOrder({i \in used : v.disk[i].type = t})
<1>1. FileNum \in Nat \ {0} /\ Places \subseteq Nat /\ \A p \in Places : p < FileNum
  BY Sizes DEF Places
<1>2. free # {} => Min(free) \in free /\ \A p \in free : Min(free) <= p
  <2>1. free \in SUBSET Nat
    BY <1>1
  <2> HIDE DEF free
  <2> QED BY <2>1, MinIs
<1>3. b \in Nat /\ b <= FileNum /\ \A p \in Places : p < b <=> v.disk[p] # FREE
  <2>1. CASE free = {}
    <3>1. b = FileNum /\ \A p \in Places : v.disk[p] # FREE
      BY <2>1
    <3> HIDE DEF b, free, start, used, L
    <3>2. b \in Nat /\ b <= FileNum
      BY <1>1, <3>1
    <3>3. ASSUME NEW p \in Places PROVE p < b /\ v.disk[p] # FREE
      BY <1>1, <3>1
    <3> QED BY <3>2, <3>3
  <2>2. CASE free # {}
    <3> DEFINE m == Min(free)
    <3>1. m \in Places /\ v.disk[m] = FREE /\ m \in Nat /\ m < FileNum
      BY <1>1, <1>2, <2>2
    <3>2. \A p \in Places : v.disk[p] = FREE => m <= p
      BY <1>2, <2>2
    <3> HIDE DEF m
    <3>3. ASSUME NEW p \in Places PROVE p < m <=> v.disk[p] # FREE
      <4>1. p \in Nat
        BY <1>1
      <4>2. v.disk[p] # FREE => ~(m < p) /\ p # m
        BY <3>1
      <4> QED BY <3>1, <3>2, <4>1, <4>2
    <3>4. b = m
      BY <2>2 DEF m
    <3>5. m <= FileNum
      BY <1>1, <3>1
    <3> HIDE DEF b
    <3> QED BY <3>1, <3>3, <3>4, <3>5
  <2> QED BY <2>1, <2>2
<1>4. /\ start \in (0..FileNum) \cup {leftover} /\ start \in Nat
      /\ \A p \in Places : p < start <=> p < b
      /\ start >= FileNum <=> \A p \in Places : v.disk[p] # FREE
      /\ used = {p \in Places : p < b}
  <2>1. CASE free = {}
    <3>1. start = leftover /\ b = FileNum /\ used = Places /\ \A p \in Places : v.disk[p] # FREE
      BY <2>1
    <3> HIDE DEF free, start, b, used
    <3>2. start >= FileNum /\ start \in Nat
      BY <3>1
    <3>3. \A p \in Places : p < start /\ p < b
      <4> TAKE p \in Places
      <4>1. p \in Nat /\ p < FileNum
        BY <1>1
      <4> QED BY <1>1, <3>1, <3>2, <4>1
    <3>4. used = {p \in Places : p < b}
      BY <3>1, <3>3
    <3> QED BY <3>1, <3>2, <3>3, <3>4
  <2>2. CASE free # {}
    <3>1. start = b /\ start \in Places /\ v.disk[start] = FREE /\ used = 0..start - 1
      BY <1>2, <2>2
    <3> HIDE DEF free, start, b, used
    <3>2. start \in Nat /\ start < FileNum
      BY <1>1, <3>1
    <3>3. 0..start - 1 = {p \in Places : p < start}
      BY <1>1, <3>2 DEF Places
    <3> QED BY <1>1, <3>1, <3>2, <3>3
  <2> QED BY <2>1, <2>2
<1>5. w = [disk |-> v.disk, start |-> start, buf |-> BlockAt(v.disk, start), logic |-> [t \in Types |-> L(t)]]
  BY DEF RawOpen
<1> HIDE DEF free, b, start, used
<1>6. ASSUME NEW p \in Places, p < b
      PROVE  \E t \in Types : \E j \in 1..Len(v.logic[t]) : v.logic[t][j] = p /\ v.disk[p] = Entry(t, j - 1) /\ v.disk[p].type = t
  <2>1. v.disk[p] # FREE
    BY <1>3, <1>6
  <2>2. p < v.start
    BY <2>1 DEF RawSound
  <2>3. PICK t \in Types : \E j \in 1..Len(v.logic[t]) : v.logic[t][j] = p
    BY <2>2 DEF RawSound
  <2>4. PICK j \in 1..Len(v.logic[t]) : v.logic[t][j] = p
    BY <2>3
  <2>5. v.disk[p] \in {FREE, Entry(t, j - 1)}
    BY <2>4, ListIs
  <2>6. v.disk[p] = Entry(t, j - 1) /\ v.disk[p].type = t
    BY <2>1, <2>5 DEF Entry
  <2> QED BY <2>4, <2>6
<1>7. ASSUME NEW t \in Types
      PROVE  \E k \in 0..Len(v.logic[t]) :
               /\ L(t) = [i \in 1..k |-> v.logic[t][i]]
               /\ \A i \in 1..Len(v.logic[t]) : i <= k <=> v.logic[t][i] < b
  <2> DEFINE l == v.logic[t]
             n == Len(l)
  <2>1. n \in Nat /\ n <= FileNum /\ Increasing(l) /\ l \in [1..n -> Nat] /\ \A i \in 1..n : l[i] \in Places
    <3>1. l \in Seq(Places) /\ DOMAIN l = 1..n /\ n \in Nat /\ n <= FileNum /\ Increasing(l)
      BY ListIs
    <3>2. \A i \in 1..n : l[i] \in Places
      BY ListIs
    <3> HIDE DEF l, n
    <3>3. l \in [1..n -> Places]
      BY <3>1, <3>2
    <3> QED BY <1>1, <3>1, <3>2, <3>3
  <2>2. PICK k \in 0..n : \A i \in 1..n : i <= k <=> l[i] < b
    <3> HIDE DEF l, n
    <3> QED BY <1>3, <2>1, PrefixExists
  <2> DEFINE u == [i \in 1..k |-> l[i]]
             S == {i \in used : v.disk[i].type = t}
  <2>3. ASSUME NEW p \in S PROVE \E i \in 1..k : l[i] = p
    <3>1. p \in Places /\ p < b
      BY <1>4
    <3>2. PICK x \in Types : \E j \in 1..Len(v.logic[x]) : v.logic[x][j] = p /\ v.disk[p].type = x
      BY <1>6, <3>1
    <3>3. PICK j \in 1..n : l[j] = p
      BY <3>2
    <3>4. j <= k
      BY <2>2, <3>1, <3>3
    <3>5. j \in 1..k
      BY <3>4
    <3> QED BY <3>3, <3>5
  <2>4. ASSUME NEW i \in 1..k PROVE l[i] \in S
    <3>1. i \in 1..n /\ i <= k
      BY <2>1
    <3>2. l[i] < b /\ l[i] \in Places
      BY <2>1, <2>2, <3>1
    <3>3. v.disk[l[i]] = Entry(t, i - 1)
      <4>1. v.disk[l[i]] \in {FREE, Entry(t, i - 1)}
        BY <3>1, ListIs
      <4> QED BY <1>3, <3>2, <4>1
    <3> QED BY <1>4, <3>2, <3>3 DEF Entry
  <2>5. Lists(u, k, S)
    <3>1. Increasing(u)
      <4> SUFFICES ASSUME NEW i \in 1..k, NEW j \in 1..k, i < j PROVE u[i] < u[j]
        BY DEF Increasing
      <4>1. i \in 1..n /\ j \in 1..n
        BY <2>1
      <4>2. l[i] < l[j]
        <5> HIDE DEF l
        <5> QED BY <2>1, <4>1 DEF Increasing
      <4> QED BY <4>2
    <3> HIDE DEF l, S
    <3>2. u \in [1..k -> S]
      BY <2>4
    <3>3. Range(u) = S
      BY <2>3, <3>2 DEF Range
    <3> QED BY <3>1, <3>2, <3>3 DEF Lists
  <2>6. S \in SUBSET Nat
    BY <1>1, <1>4
  <2>7. k \in 0..FileNum
    BY <1>1, <2>1
  <2>8. InOrder(S) = u
    <3> HIDE DEF S, u
    <3> QED BY <2>5, <2>6, <2>7, InOrderIs
  <2> QED BY <2>2, <2>8
<1> HIDE DEF L
<1>8. ASSUME NEW t \in Types
      PROVE  /\ w.logic[t] \in Seq(Places)
             /\ \A i \in 1..Len(w.logic[t]) :
                  i \in 1..Len(v.logic[t]) /\ w.logic[t][i] = v.logic[t][i] /\ v.logic[t][i] < b
             /\ \A i \in 1..Len(v.logic[t]) : v.logic[t][i] < b => i \in 1..Len(w.logic[t])
  <2> DEFINE l == v.logic[t]
             n == Len(l)
  <2>1. n \in Nat /\ \A i \in 1..n : l[i] \in Places
    BY ListIs
  <2>2. PICK k \in 0..n : L(t) = [i \in 1..k |-> l[i]] /\ \A i \in 1..n : i <= k <=> l[i] < b
    BY <1>7
  <2>3. w.logic[t] = [i \in 1..k |-> l[i]]
    BY <1>5, <2>2
  <2> HIDE DEF l, n
  <2>4. w.logic[t] \in Seq(Places) /\ Len(w.logic[t]) = k
    BY <2>1, <2>3
  <2>5. \A i \in 1..k : i \in 1..n /\ w.logic[t][i] = l[i] /\ l[i] < b
    BY <2>1, <2>2, <2>3
  <2>6. \A i \in 1..n : l[i] < b => i \in 1..k
    BY <2>1, <2>2
  <2> QED BY <2>4, <2>5, <2>6 DEF l, n
<1>9. w.disk = v.disk /\ w.start = start /\ w.buf = BlockAt(v.disk, start) /\ DOMAIN w.logic = Types
  BY <1>5
<1>10. ASSUME NEW t \in Types, NEW i \in 1..Len(w.logic[t])
       PROVE  /\ w.logic[t][i] \in Places /\ w.logic[t][i] \in Nat /\ i - 1 <= w.logic[t][i]
              /\ w.logic[t][i] < start /\ w.disk[w.logic[t][i]] = Entry(t, i - 1)
  <2>1. i \in 1..Len(v.logic[t]) /\ w.logic[t][i] = v.logic[t][i] /\ v.logic[t][i] < b
    BY <1>8
  <2>2. /\ v.logic[t][i] \in Places /\ v.logic[t][i] \in Nat /\ i - 1 <= v.logic[t][i]
        /\ v.disk[v.logic[t][i]] \in {FREE, Entry(t, i - 1)}
    BY <2>1, ListIs
  <2> QED BY <1>3, <1>4, <1>9, <2>1, <2>2
<1>11. RawSound(w)
  <2>1. w.start \in Nat /\ w.disk \in [Places -> [type : Types, id : Nat] \cup {FREE}]
    BY <1>4, <1>9 DEF RawSound
  <2>2. w.logic \in [Types -> Seq(Places)]
    <3>1. w.logic = [t \in Types |-> L(t)]
      BY <1>5
    <3> QED BY <1>8, <3>1
  <2>3. ASSUME NEW t \in Types, NEW i \in 1..Len(w.logic[t]), NEW j \in 1..Len(w.logic[t]), i < j
        PROVE  w.logic[t][i] < w.logic[t][j]
    BY SMTT(30), <1>8, <2>3 DEF RawSound
  <2>4. ASSUME NEW t \in Types, NEW u \in Types, NEW i \in 1..Len(w.logic[t]), NEW j \in 1..Len(w.logic[u]),
               w.logic[t][i] = w.logic[u][j]
        PROVE  t = u
    BY SMTT(30), <1>8, <2>4 DEF RawSound
  <2>5. ASSUME NEW p \in Places
        PROVE  IF p < w.start THEN \E t \in Types : \E i \in 1..Len(w.logic[t]) : w.logic[t][i] = p
                              ELSE w.disk[p] = FREE
    <3>1. CASE p < b
      <4>1. p < w.start
        BY <1>4, <1>9, <3>1
      <4>2. PICK t \in Types : \E j \in 1..Len(v.logic[t]) : v.logic[t][j] = p
        BY <1>6, <3>1
      <4>3. PICK j \in 1..Len(v.logic[t]) : v.logic[t][j] = p
        BY <4>2
      <4>4. j \in 1..Len(w.logic[t]) /\ w.logic[t][j] = p
        BY <1>8, <3>1, <4>3
      <4> QED BY <4>1, <4>4
    <3>2. CASE ~(p < b)
      BY <1>3, <1>4, <1>9, <3>2
    <3> QED BY <3>1, <3>2
  <2>6. \A t \in Types : \A i \in 1..Len(w.logic[t]) :
          i - 1 <= w.logic[t][i] /\ w.logic[t][i] < w.start /\ w.disk[w.logic[t][i]] \in {FREE, Entry(t, i - 1)}
    BY <1>9, <1>10
  <2> QED BY <2>1, <2>2, <2>3, <2>4, <2>5, <2>6 DEF RawSound
<1>12. BufferSound(w)
  <2> DEFINE r == RoundDown(start)
  <2> SUFFICES ASSUME start < FileNum, r < start
               PROVE  /\ DOMAIN w.buf = InBlock
                      /\ \A t \in Types : \A i \in 1..Len(w.logic[t]) :
                           RoundDown(w.logic[t][i]) = r => w.buf[w.logic[t][i] - RoundDown(w.logic[t][i])] = Entry(t, i - 1)
                      /\ \A k \in InBlock : r + k >= start => w.buf[k] = FREE
    BY <1>9 DEF BufferSound
  <2>1. w.buf = [k \in InBlock |-> IF r + k \in Places THEN v.disk[r + k] ELSE FREE]
    BY <1>9 DEF BlockAt
  <2>2. r \in Nat
    BY <1>4, RoundIs
  <2> HIDE DEF r
  <2>3. ASSUME NEW t \in Types, NEW i \in 1..Len(w.logic[t]), RoundDown(w.logic[t][i]) = r
        PROVE  w.buf[w.logic[t][i] - RoundDown(w.logic[t][i])] = Entry(t, i - 1)
    <3> DEFINE p == w.logic[t][i]
    <3>1. p \in Places /\ p \in Nat /\ v.disk[p] = Entry(t, i - 1)
      BY <1>9, <1>10
    <3> HIDE DEF p
    <3>2. RoundDown(p) = r
      BY <2>3 DEF p
    <3>3. p - RoundDown(p) \in InBlock
      BY <3>1, RoundIs
    <3>4. r + (p - RoundDown(p)) = p
      BY <2>2, <3>1, <3>2
    <3>5. w.buf[p - RoundDown(p)] = Entry(t, i - 1)
      BY <2>1, <3>1, <3>3, <3>4
    <3> QED BY <3>5 DEF p
  <2>4. ASSUME NEW k \in InBlock, r + k >= start PROVE w.buf[k] = FREE
    <3>1. CASE r + k \in Places
      <4>1. r + k \in Nat
        BY <1>1, <3>1
      <4>2. ~(r + k < start)
        BY <1>4, <2>4, <4>1
      <4>3. v.disk[r + k] = FREE
        BY <1>3, <1>4, <3>1, <4>2
      <4> QED BY <2>1, <3>1, <4>3
    <3>2. CASE r + k \notin Places
      BY <2>1, <3>2
    <3> QED BY <3>1, <3>2
  <2> QED BY <2>1, <2>3, <2>4
<1>13. \A t \in Types : \A i \in 1..Len(v.logic[t]) : v.disk[v.logic[t][i]] # FREE => i \in 1..Len(w.logic[t])
  <2> TAKE t \in Types
  <2> TAKE i \in 1..Len(v.logic[t])
  <2>1. v.logic[t][i] \in Places
    BY ListIs
  <2> QED BY <1>3, <1>8, <2>1
<1> QED BY <1>4, <1>8, <1>9, <1>11, <1>12, <1>13

\* A new raw device.
LEMMA RawIsNew ==
    ASSUME NEW leftover, NEW w,
           w = RawOpen(Closed([p \in Places |-> FREE]), leftover)
    PROVE  /\ RawSound(w) /\ BufferSound(w) /\ w.start \in 0..FileNum - 1
           /\ \A t \in Types : Len(w.logic[t]) = 0
<1> DEFINE D == [p \in Places |-> FREE]
           v == [disk |-> D, logic |-> [t \in Types |-> << >>], start |-> 0, buf |-> << >>]
<1>0. {i \in Places : D[i] = FREE} # {}
  <2>1. 0 \in Places
    BY Sizes DEF Places
  <2> QED BY <2>1
<1>1. w = RawOpen(v, FileNum)
  BY <1>0 DEF RawOpen, Closed
<1>2. v.disk = D /\ v.start = 0 /\ v.logic = [t \in Types |-> << >>] /\ \A t \in Types : v.logic[t] = << >> /\ Len(v.logic[t]) = 0
  OBVIOUS
<1>3. \A p \in Places : ~(p < 0)
  BY DEF Places
<1>4. FileNum \in Nat /\ FileNum >= FileNum /\ FileNum # 0 /\ 0 \in Places
  BY Sizes DEF Places
<1> HIDE DEF v
<1>5. RawSound(v)
  <2>1. << >> \in Seq(Places)
    OBVIOUS
  <2> QED BY <1>2, <1>3, <2>1 DEF RawSound
<1>6. \A p, q \in Places : p < q /\ v.disk[q] # FREE => v.disk[p] # FREE
  BY <1>2
<1>7. /\ RawSound(w) /\ BufferSound(w) /\ w.start \in (0..FileNum) \cup {FileNum}
      /\ w.start >= FileNum <=> \A p \in Places : v.disk[p] # FREE
      /\ \A t \in Types : \A i \in 1..Len(w.logic[t]) : i \in 1..Len(v.logic[t])
  <2> HIDE DEF D
  <2>1. \A t \in Types : \A i \in 1..Len(w.logic[t]) : i \in 1..Len(v.logic[t]) /\ w.logic[t][i] = v.logic[t][i]
    BY <1>1, <1>4, <1>5, <1>6, RawReopens
  <2>2. RawSound(w) /\ BufferSound(w)
    BY <1>1, <1>4, <1>5, <1>6, RawReopens
  <2>3. /\ w.start \in (0..FileNum) \cup {FileNum}
        /\ w.start >= FileNum <=> \A p \in Places : v.disk[p] # FREE
    BY <1>1, <1>4, <1>5, <1>6, RawReopens
  <2> QED BY <2>1, <2>2, <2>3
<1>8. w.start \in 0..FileNum - 1
  BY <1>2, <1>4, <1>7
<1>9. ASSUME NEW t \in Types PROVE Len(w.logic[t]) = 0
  <2>1. Len(w.logic[t]) \in Nat
    BY <1>7, ListIs
  <2>2. \A i \in 1..Len(w.logic[t]) : i \in 1..0
    BY <1>2, <1>7
  <2> DEFINE m == Len(w.logic[t])
  <2> HIDE DEF m
  <2>3. m \in Nat /\ \A i \in 1..m : i \in 1..0
    BY <2>1, <2>2 DEF m
  <2>4. m = 0
    BY <2>3
  <2> QED BY <2>4 DEF m
<1> QED BY <1>7, <1>8, <1>9
-----------------------------------------------------------------------------
(* Directory devices *)

\* A union of finitely many finite sets.
LEMMA FiniteUnion ==
    ASSUME NEW I, IsFiniteSet(I), NEW f, DOMAIN f = I, \A i \in I : IsFiniteSet(f[i])
    PROVE  IsFiniteSet(UNION {f[i] : i \in I})
<1> DEFINE T == {f[i] : i \in I}
           g == [i \in I |-> f[i]]
<1>1. g \in Surjection(I, T)
  BY DEF Surjection
<1>2. IsFiniteSet(T)
  <2> HIDE DEF g, T
  <2> QED BY <1>1, FS_Surjection
<1>3. \A S \in T : IsFiniteSet(S)
  OBVIOUS
<1> HIDE DEF T
<1>4. IsFiniteSet(UNION T)
  BY <1>2, <1>3, FS_UNION
<1> QED BY <1>4 DEF T

LEMMA FilesOfType ==
    ASSUME NEW n \in Nat
    PROVE  IsFiniteSet(0..n - 1) /\ Cardinality(0..n - 1) = n
<1>1. 0 \in Int /\ n - 1 \in Int
  OBVIOUS
<1>2. /\ IsFiniteSet(0..n - 1)
      /\ Cardinality(0..n - 1) = IF 0 > n - 1 THEN 0 ELSE (n - 1) - 0 + 1
  BY <1>1, FS_Interval
<1> QED BY <1>2

LEMMA FilesFinite ==
    ASSUME NEW v, v.logic \in [Types -> Nat]
    PROVE  IsFiniteSet(FilesOf(v))
<1> DEFINE f == [t \in Types |-> {t} \X (0..v.logic[t] - 1)]
<1>1. ASSUME NEW t \in Types PROVE IsFiniteSet(f[t])
  <2>1. v.logic[t] \in Nat
    OBVIOUS
  <2>2. IsFiniteSet({t}) /\ IsFiniteSet(0..v.logic[t] - 1)
    BY <2>1, FS_Singleton, FilesOfType
  <2>3. IsFiniteSet({t} \X (0..v.logic[t] - 1))
    BY <2>2, FS_Product
  <2> QED BY <2>3
<1>2. IsFiniteSet(Types)
  BY VbfsAssumption
<1>3. DOMAIN f = Types
  OBVIOUS
<1>4. UNION {f[t] : t \in Types} = FilesOf(v)
  BY DEF FilesOf
<1> HIDE DEF f
<1>5. IsFiniteSet(UNION {f[t] : t \in Types})
  BY <1>1, <1>2, <1>3, FiniteUnion
<1> QED BY <1>4, <1>5

\* The next file of a type gets its name in the directory, and is counted when
\* it has its size.
FsAfter(v, t, fails) ==
  IF fails THEN [v EXCEPT !.disk[t] = @ \cup {v.logic[t]}]
  ELSE [v EXCEPT !.disk[t] = @ \cup {v.logic[t]}, !.logic[t] = @ + 1, !.start = @ + 1]

LEMMA FsAllocates ==
    ASSUME NEW v, FsSound(v), NEW t \in Types, NEW fails \in BOOLEAN, NEW w, w = FsAfter(v, t, fails)
    PROVE  /\ FsSound(w) /\ w.start = (IF fails THEN v.start ELSE v.start + 1)
           /\ \A u \in Types : w.logic[u] = IF u = t /\ ~fails THEN v.logic[u] + 1 ELSE v.logic[u]
<1> DEFINE n == v.logic[t]
           D == [v.disk EXCEPT ![t] = @ \cup {n}]
           L == IF fails THEN v.logic ELSE [v.logic EXCEPT ![t] = @ + 1]
           s == IF fails THEN v.start ELSE v.start + 1
<1>1. /\ v = [disk |-> v.disk, logic |-> v.logic, start |-> v.start, buf |-> v.buf]
      /\ v.disk \in [Types -> SUBSET Nat] /\ v.logic \in [Types -> Nat] /\ n \in Nat
      /\ \A u \in Types : v.disk[u] \in {0..v.logic[u] - 1, 0..v.logic[u]}
      /\ v.start = Cardinality(FilesOf(v))
  BY DEF FsSound
<1>2. w = [disk |-> D, logic |-> L, start |-> s, buf |-> v.buf]
  BY <1>1 DEF FsAfter
<1>3. w.disk = D /\ w.logic = L /\ w.start = s /\ w = [disk |-> w.disk, logic |-> w.logic, start |-> w.start, buf |-> w.buf]
  BY <1>2
<1>4. D \in [Types -> SUBSET Nat] /\ L \in [Types -> Nat]
  BY <1>1
<1>5. \A u \in Types : L[u] = IF u = t /\ ~fails THEN v.logic[u] + 1 ELSE v.logic[u]
  BY <1>1
<1>6. D[t] = 0..n
  <2>1. D[t] = v.disk[t] \cup {n}
    BY <1>1
  <2>2. (0..n - 1) \cup {n} = 0..n /\ (0..n) \cup {n} = 0..n
    BY <1>1
  <2>3. v.disk[t] = 0..n - 1 \/ v.disk[t] = 0..n
    BY <1>1
  <2> QED BY <2>1, <2>2, <2>3
<1>7. ASSUME NEW u \in Types PROVE D[u] \in {0..L[u] - 1, 0..L[u]}
  <2>1. CASE u = t
    <3>1. L[t] = IF fails THEN n ELSE n + 1
      BY <1>5
    <3>2. D[t] = 0..n /\ (n + 1) - 1 = n
      BY <1>1, <1>6
    <3> HIDE DEF L, D, n
    <3>3. D[t] \in {0..L[t] - 1, 0..L[t]}
      BY <3>1, <3>2
    <3> QED BY <2>1, <3>3
  <2>2. CASE u # t
    <3>1. D[u] = v.disk[u] /\ L[u] = v.logic[u]
      BY <1>1, <2>2
    <3> QED BY <1>1, <3>1
  <2> QED BY <2>1, <2>2
<1>8. s = Cardinality(FilesOf(w))
  <2>1. CASE fails
    <3>1. FilesOf(w) = FilesOf(v)
      BY <1>3, <2>1 DEF FilesOf
    <3> QED BY <1>1, <2>1, <3>1
  <2>2. CASE ~fails
    <3>1. \A u \in Types : u # t => w.logic[u] = v.logic[u]
      BY <1>3, <1>5
    <3>2. w.logic[t] = n + 1
      BY <1>3, <1>5, <2>2
    <3>3. {t} \X (0..(n + 1) - 1) = ({t} \X (0..n - 1)) \cup {<<t, n>>}
      <4>1. 0..(n + 1) - 1 = (0..n - 1) \cup {n}
        BY <1>1
      <4> QED BY <4>1
    <3>4. FilesOf(w) = FilesOf(v) \cup {<<t, n>>}
      <4> DEFINE G(u) == {u} \X (0..w.logic[u] - 1)
                 H(u) == {u} \X (0..v.logic[u] - 1)
      <4>1. \A u \in Types : G(u) = IF u = t THEN H(u) \cup {<<t, n>>} ELSE H(u)
        BY <3>1, <3>2, <3>3
      <4>2. FilesOf(w) = UNION {G(u) : u \in Types} /\ FilesOf(v) = UNION {H(u) : u \in Types}
        BY DEF FilesOf
      <4> HIDE DEF G, H
      <4>3. \A x : x \in FilesOf(w) <=> \E u \in Types : x \in G(u)
        BY <4>2
      <4>4. \A x : x \in FilesOf(v) <=> \E u \in Types : x \in H(u)
        BY <4>2
      <4> HIDE DEF D, L, s, n
      <4>5. \A u \in Types : \A x : x \in G(u) <=> x \in H(u) \/ (u = t /\ x = <<t, n>>)
        BY <4>1
      <4>6. ASSUME NEW x PROVE x \in FilesOf(w) <=> x \in FilesOf(v) \/ x = <<t, n>>
        <5>1. ASSUME x \in FilesOf(w) PROVE x \in FilesOf(v) \/ x = <<t, n>>
          <6>1. PICK u \in Types : x \in G(u)
            BY <4>3, <5>1
          <6>2. x \in H(u) \/ x = <<t, n>>
            BY <4>5, <6>1
          <6> QED BY <4>4, <6>2
        <5>2. ASSUME x \in FilesOf(v) PROVE x \in FilesOf(w)
          <6>1. PICK u \in Types : x \in H(u)
            BY <4>4, <5>2
          <6>2. x \in G(u)
            BY <4>5, <6>1
          <6> QED BY <4>3, <6>2
        <5>3. ASSUME x = <<t, n>> PROVE x \in FilesOf(w)
          <6>1. x \in G(t)
            BY <4>5, <5>3
          <6> QED BY <4>3, <6>1
        <5> QED BY <5>1, <5>2, <5>3
      <4> QED BY <4>6
    <3>5. <<t, n>> \notin FilesOf(v)
      BY <1>1 DEF FilesOf
    <3>6. IsFiniteSet(FilesOf(v))
      BY <1>1, FilesFinite
    <3>7. Cardinality(FilesOf(w)) = Cardinality(FilesOf(v)) + 1
      BY <3>4, <3>5, <3>6, FS_AddElement
    <3> QED BY <1>1, <2>2, <3>7
  <2> QED BY <2>1, <2>2
<1> HIDE DEF D, L, s
<1>9. FsSound(w)
  BY <1>3, <1>4, <1>7, <1>8 DEF FsSound
<1> QED BY <1>3, <1>5, <1>9 DEF s

\* A directory without a file that is not counted is read as it was.
LEMMA FsReopens ==
    ASSUME NEW v, FsSound(v), \A t \in Types : Cardinality(v.disk[t]) = v.logic[t], NEW w, w = FsOpen(v)
    PROVE  FsSound(w) /\ w.disk = v.disk /\ w.logic = v.logic /\ w.start = v.start
<1>1. /\ v.disk \in [Types -> SUBSET Nat] /\ v.logic \in [Types -> Nat]
      /\ \A u \in Types : v.disk[u] \in {0..v.logic[u] - 1, 0..v.logic[u]}
      /\ v.start = Cardinality(FilesOf(v))
  BY DEF FsSound
<1>2. \A t \in Types : v.disk[t] = 0..v.logic[t] - 1
  <2> TAKE t \in Types
  <2>1. v.logic[t] \in Nat
    BY <1>1
  <2> DEFINE n == v.logic[t]
  <2>2. Cardinality(0..n) = n + 1
    <3> HIDE DEF n
    <3>1. n + 1 \in Nat /\ (n + 1) - 1 = n
      BY <2>1 DEF n
    <3>2. Cardinality(0..(n + 1) - 1) = n + 1
      BY <3>1, FilesOfType
    <3> QED BY <3>1, <3>2
  <2> QED BY <1>1, <2>1, <2>2
<1>3. {{t} \X v.disk[t] : t \in Types} = {{t} \X (0..v.logic[t] - 1) : t \in Types}
  BY <1>2
<1>4. Cardinality(UNION {{t} \X v.disk[t] : t \in Types}) = v.start
  BY <1>1, <1>3 DEF FilesOf
<1>5. [t \in Types |-> Cardinality(v.disk[t])] = v.logic
  BY <1>1
<1>6. w = [disk |-> v.disk, buf |-> << >>, start |-> v.start, logic |-> v.logic]
  BY <1>4, <1>5 DEF FsOpen
<1>7. /\ w.disk = v.disk /\ w.logic = v.logic /\ w.start = v.start
      /\ w = [disk |-> w.disk, logic |-> w.logic, start |-> w.start, buf |-> w.buf]
  BY <1>6
<1>8. FilesOf(w) = FilesOf(v)
  BY <1>7 DEF FilesOf
<1> QED BY <1>1, <1>7, <1>8 DEF FsSound

\* A new directory.
LEMMA FsIsNew ==
    ASSUME NEW w, w = FsOpen(Closed([t \in Types |-> {}]))
    PROVE  FsSound(w) /\ w.start = 0 /\ \A t \in Types : w.logic[t] = 0
<1> DEFINE D == [t \in Types |-> {}]
           L == [t \in Types |-> 0]
           v == [disk |-> D, logic |-> L, start |-> 0, buf |-> << >>]
<1>1. /\ v.disk = D /\ v.logic = L /\ v.start = 0
      /\ v = [disk |-> v.disk, logic |-> v.logic, start |-> v.start, buf |-> v.buf]
  OBVIOUS
<1>2. w = FsOpen(v)
  BY DEF FsOpen, Closed
<1>3. \A t \in Types : D[t] = {} /\ L[t] = 0
  OBVIOUS
<1>4. D \in [Types -> SUBSET Nat] /\ L \in [Types -> Nat]
  OBVIOUS
<1> HIDE DEF v, D, L
<1>5. 0..0 - 1 = {}
  OBVIOUS
<1>6. FilesOf(v) = {}
  BY <1>1, <1>3, <1>5 DEF FilesOf
<1>7. FsSound(v)
  BY <1>1, <1>3, <1>4, <1>5, <1>6, FS_EmptySet DEF FsSound
<1>8. \A t \in Types : Cardinality(v.disk[t]) = v.logic[t]
  BY <1>1, <1>3, FS_EmptySet
<1>9. FsSound(w) /\ w.logic = v.logic /\ w.start = v.start
  BY <1>2, <1>7, <1>8, FsReopens
<1> QED BY <1>1, <1>3, <1>9
-----------------------------------------------------------------------------
(* Devices of either kind *)

\* A file that both devices have is at one place.
SamePlaces(v, w) ==
  \A t \in Types : \A s \in Nat :
    s < Count(v, t) /\ s < Count(w, t) => DevicePlace(v, t, s) = DevicePlace(w, t, s)

\* Reading the disk finds every file of the memory: what DiskIsTidy asks of a
\* device.
Whole(v) ==
  IF kind = "raw" THEN \A p, q \in Places : p < q /\ v.disk[q] # FREE => v.disk[p] # FREE
  ELSE \A t \in Types : Cardinality(v.disk[t]) = v.logic[t]

LEMMA DeviceTyped ==
    ASSUME NEW v, DeviceSound(v)
    PROVE  /\ \A t \in Types : Count(v, t) \in Nat
           /\ v.start \in Nat /\ DOMAIN v.logic = Types
<1>1. CASE kind = "raw"
  <2>1. RawSound(v)
    BY <1>1 DEF DeviceSound
  <2>2. \A t \in Types : Len(v.logic[t]) \in Nat
    BY <2>1, ListIs
  <2>3. v.start \in Nat /\ DOMAIN v.logic = Types
    BY <2>1 DEF RawSound
  <2> QED BY <1>1, <2>2, <2>3 DEF Count
<1>2. CASE kind # "raw"
  <2>1. v.logic \in [Types -> Nat] /\ v.start = Cardinality(FilesOf(v))
    BY <1>2 DEF DeviceSound, FsSound
  <2>2. v.start \in Nat
    BY <2>1, FilesFinite, FS_CardinalityType
  <2> QED BY <1>2, <2>1, <2>2 DEF Count
<1> QED BY <1>1, <1>2

\* All the files of a directory device have their names.
LEMMA NamesThere ==
    ASSUME NEW v, FsSound(v), NEW t \in Types, NEW s \in Nat, s < v.logic[t]
    PROVE  s \in v.disk[t]
<1>1. v.logic[t] \in Nat /\ v.disk[t] \in {0..v.logic[t] - 1, 0..v.logic[t]}
  BY DEF FsSound
<1> QED BY <1>1

LEMMA SameNames ==
    ASSUME NEW v, NEW w, kind # "raw", FsSound(v), FsSound(w)
    PROVE  SamePlaces(v, w)
<1> SUFFICES ASSUME NEW t \in Types, NEW s \in Nat, s < Count(v, t), s < Count(w, t)
             PROVE  DevicePlace(v, t, s) = DevicePlace(w, t, s)
  BY DEF SamePlaces
<1>1. s \in v.disk[t] /\ s \in w.disk[t]
  BY NamesThere DEF Count
<1> QED BY <1>1 DEF DevicePlace, NamedPlace

LEMMA SameEntries ==
    ASSUME NEW v, NEW w, kind = "raw", RawSound(v), RawSound(w),
           \A t \in Types : \A i \in 1..Len(v.logic[t]) : i \in 1..Len(w.logic[t]) => w.logic[t][i] = v.logic[t][i]
    PROVE  SamePlaces(v, w)
<1> SUFFICES ASSUME NEW t \in Types, NEW s \in Nat, s < Len(v.logic[t]), s < Len(w.logic[t])
             PROVE  v.logic[t][s + 1] = w.logic[t][s + 1]
  BY DEF SamePlaces, DevicePlace, RawPlace, Count
<1>1. Len(v.logic[t]) \in Nat /\ Len(w.logic[t]) \in Nat
  BY ListIs
<1>2. s + 1 \in 1..Len(v.logic[t]) /\ s + 1 \in 1..Len(w.logic[t])
  BY <1>1
<1> QED BY <1>2

\* The next file of a type on a device with room.
LEMMA DeviceAllocates ==
    ASSUME NEW v, DeviceSound(v), ~IsFull(v), NEW t \in Types, NEW fails \in BOOLEAN,
           NEW seg, seg = Count(v, t), NEW r, r = DeviceAllocatFile(v, t, seg, fails)
    PROVE  /\ r.res = IF fails THEN "error" ELSE "ok"
           /\ DeviceSound(r.dev) /\ SamePlaces(v, r.dev)
           /\ r.dev.start \in 0..FileNum
           /\ \A u \in Types : Count(r.dev, u) =
                IF u = t /\ (kind = "raw" \/ ~fails) THEN Count(v, u) + 1 ELSE Count(v, u)
<1>1. v.start \in Nat /\ v.start < FileNum /\ FileNum \in Nat
  BY DeviceTyped, Sizes DEF IsFull
<1>2. CASE kind = "raw"
  <2> DEFINE D == IF fails THEN v.disk ELSE Written(v, t)
             w == RawAfter(v, t, D)
  <2>1. RawSound(v) /\ BufferSound(v) /\ seg = Len(v.logic[t])
    BY <1>2 DEF DeviceSound, Count
  <2>2. r = [dev |-> w, res |-> IF fails THEN "error" ELSE "ok"]
    BY <1>2, <2>1 DEF DeviceAllocatFile, RawAllocatFile, Count, RawAfter, Written
  <2>3. r.dev = w /\ r.res = (IF fails THEN "error" ELSE "ok") /\ r.dev.start = v.start + 1
    BY <2>2 DEF RawAfter
  <2>4. D = v.disk \/ D = Written(v, t)
    OBVIOUS
  <2> HIDE DEF D
  <2>5. /\ RawSound(w) /\ BufferSound(w) /\ Extends(w, v)
        /\ \A u \in Types : Len(w.logic[u]) = IF u = t THEN Len(v.logic[u]) + 1 ELSE Len(v.logic[u])
    <3>1. w = RawAfter(v, t, D)
      OBVIOUS
    <3> HIDE DEF w
    <3> QED BY <1>1, <2>1, <2>4, <3>1, RawAllocates
  <2> HIDE DEF w
  <2>6. SamePlaces(v, w)
    BY <1>2, <2>1, <2>5, SameEntries DEF Extends
  <2>7. DeviceSound(w) /\ \A u \in Types : Count(w, u) = IF u = t THEN Count(v, u) + 1 ELSE Count(v, u)
    BY <1>2, <2>5 DEF DeviceSound, Count
  <2>8. v.start + 1 \in 0..FileNum
    BY <1>1
  <2> QED BY <1>2, <2>3, <2>6, <2>7, <2>8
<1>3. CASE kind # "raw"
  <2> DEFINE w == FsAfter(v, t, fails)
  <2>1. FsSound(v) /\ seg = v.logic[t]
    BY <1>3 DEF DeviceSound, Count
  <2>2. r.dev = w /\ r.res = IF fails THEN "error" ELSE "ok"
    BY <1>3, <2>1 DEF DeviceAllocatFile, FsAllocatFile, FsAfter
  <2>3. /\ FsSound(w) /\ w.start = (IF fails THEN v.start ELSE v.start + 1)
        /\ \A u \in Types : w.logic[u] = IF u = t /\ ~fails THEN v.logic[u] + 1 ELSE v.logic[u]
    <3>1. w = FsAfter(v, t, fails)
      OBVIOUS
    <3> HIDE DEF w
    <3> QED BY <2>1, <3>1, FsAllocates
  <2> HIDE DEF w
  <2>4. SamePlaces(v, w)
    BY <1>3, <2>1, <2>3, SameNames
  <2>5. w.start \in 0..FileNum
    BY <1>1, <2>3
  <2>6. DeviceSound(w) /\ \A u \in Types : Count(w, u) = IF u = t /\ ~fails THEN Count(v, u) + 1 ELSE Count(v, u)
    BY <1>3, <2>3 DEF DeviceSound, Count
  <2> QED BY <1>3, <2>2, <2>4, <2>5, <2>6
<1> QED BY <1>2, <1>3

\* Opening a device again.
LEMMA DeviceReopens ==
    ASSUME NEW v, DeviceSound(v), Whole(v), NEW leftover \in Nat, leftover >= FileNum,
           NEW w, w = OpenDevice(v, leftover)
    PROVE  /\ DeviceSound(w) /\ SamePlaces(v, w)
           /\ w.start \in (0..FileNum) \cup {leftover, v.start}
           /\ \A t \in Types : Count(w, t) <= Count(v, t)
           /\ IsFull(w) => IsFull(v)
           /\ kind = "raw" => /\ \A t \in Types : \A s \in Nat :
                                   s < Count(v, t) /\ v.disk[DevicePlace(v, t, s)] # FREE => s < Count(w, t)
                              /\ (\A p \in Places : v.disk[p] # FREE) => IsFull(w)
           /\ kind # "raw" => w.start = v.start /\ \A t \in Types : Count(w, t) = Count(v, t)
<1>1. CASE kind = "raw"
  <2>1. RawSound(v) /\ w = RawOpen(v, leftover) /\ \A p, q \in Places : p < q /\ v.disk[q] # FREE => v.disk[p] # FREE
    BY <1>1 DEF DeviceSound, OpenDevice, Whole
  <2>2. RawSound(w) /\ BufferSound(w)
    BY <2>1, RawReopens
  <2>3. \A t \in Types : \A i \in 1..Len(w.logic[t]) : i \in 1..Len(v.logic[t]) /\ w.logic[t][i] = v.logic[t][i]
    BY <2>1, RawReopens
  <2>4. \A t \in Types : \A i \in 1..Len(v.logic[t]) : v.disk[v.logic[t][i]] # FREE => i \in 1..Len(w.logic[t])
    BY <2>1, RawReopens
  <2>5. /\ w.start \in (0..FileNum) \cup {leftover}
        /\ w.start >= FileNum <=> \A p \in Places : v.disk[p] # FREE
    BY <2>1, RawReopens
  <2>6. DeviceSound(w)
    BY <1>1, <2>2 DEF DeviceSound
  <2>7. SamePlaces(v, w)
    BY <1>1, <2>1, <2>2, <2>3, SameEntries
  <2>8. \A t \in Types : Len(v.logic[t]) \in Nat /\ Len(w.logic[t]) \in Nat
    BY <2>1, <2>2, ListIs
  <2>9. ASSUME NEW t \in Types PROVE Count(w, t) <= Count(v, t)
    <3> DEFINE m == Len(w.logic[t])
               n == Len(v.logic[t])
    <3>1. m \in Nat /\ n \in Nat /\ \A i \in 1..m : i \in 1..n
      BY <2>3, <2>8
    <3>2. Count(w, t) = m /\ Count(v, t) = n
      BY <1>1 DEF Count
    <3> HIDE DEF m, n
    <3>3. m <= n
      <4>1. CASE m = 0
        BY <3>1, <4>1
      <4>2. CASE m # 0
        <5>1. m \in 1..m
          BY <3>1, <4>2
        <5>2. m \in 1..n
          BY <3>1, <5>1
        <5> QED BY <3>1, <5>2
      <4> QED BY <4>1, <4>2
    <3> QED BY <3>2, <3>3
  <2>10. ASSUME NEW t \in Types, NEW s \in Nat, s < Count(v, t), v.disk[DevicePlace(v, t, s)] # FREE
         PROVE  s < Count(w, t)
    <3>1. s < Len(v.logic[t]) /\ v.disk[v.logic[t][s + 1]] # FREE
      BY <1>1, <2>10 DEF Count, DevicePlace, RawPlace
    <3>2. s + 1 \in 1..Len(v.logic[t])
      BY <2>8, <3>1
    <3>3. s + 1 \in 1..Len(w.logic[t])
      BY <2>4, <3>1, <3>2
    <3>4. s < Len(w.logic[t])
      BY <2>8, <3>3
    <3> QED BY <1>1, <3>4 DEF Count
  <2>11. IsFull(w) => IsFull(v)
    <3> SUFFICES ASSUME IsFull(w), ~IsFull(v) PROVE FALSE
      OBVIOUS
    <3>1. v.start \in Places /\ ~(v.start < v.start)
      BY <2>1, Sizes DEF IsFull, Places, RawSound
    <3>2. v.disk[v.start] = FREE
      BY <2>1, <3>1 DEF RawSound
    <3> QED BY <2>5, <3>1, <3>2 DEF IsFull
  <2>12. (\A p \in Places : v.disk[p] # FREE) => IsFull(w)
    BY <2>5 DEF IsFull
  <2> QED BY <1>1, <2>5, <2>6, <2>7, <2>9, <2>10, <2>11, <2>12
<1>2. CASE kind # "raw"
  <2>1. FsSound(v) /\ w = FsOpen(v) /\ \A t \in Types : Cardinality(v.disk[t]) = v.logic[t]
    BY <1>2 DEF DeviceSound, OpenDevice, Whole
  <2>2. FsSound(w) /\ w.logic = v.logic /\ w.start = v.start
    BY <2>1, FsReopens
  <2>3. DeviceSound(w) /\ SamePlaces(v, w)
    BY <1>2, <2>1, <2>2, SameNames DEF DeviceSound
  <2>4. \A t \in Types : Count(w, t) = Count(v, t) /\ Count(v, t) \in Nat
    BY <1>2, <2>2, DeviceTyped DEF Count
  <2>5. \A t \in Types : Count(w, t) <= Count(v, t)
    BY <2>4
  <2> QED BY <1>2, <2>2, <2>3, <2>4, <2>5 DEF IsFull
<1> QED BY <1>1, <1>2

\* Opening a new device.
LEMMA DeviceIsNew ==
    ASSUME NEW leftover, NEW w, w = OpenDevice(Closed(FreeDisk), leftover)
    PROVE  /\ DeviceSound(w) /\ ~IsFull(w) /\ w.start \in 0..FileNum
           /\ \A t \in Types : Count(w, t) = 0
<1>1. FileNum \in Nat \ {0}
  BY Sizes
<1>2. CASE kind = "raw"
  <2>1. w = RawOpen(Closed([p \in Places |-> FREE]), leftover)
    BY <1>2 DEF OpenDevice, FreeDisk
  <2>2. RawSound(w) /\ BufferSound(w) /\ w.start \in 0..FileNum - 1 /\ \A t \in Types : Len(w.logic[t]) = 0
    BY <2>1, RawIsNew
  <2>3. w.start \in 0..FileNum /\ ~(w.start >= FileNum)
    BY <1>1, <2>2
  <2> QED BY <1>2, <2>2, <2>3 DEF DeviceSound, IsFull, Count
<1>3. CASE kind # "raw"
  <2>1. w = FsOpen(Closed([t \in Types |-> {}]))
    BY <1>3 DEF OpenDevice, FreeDisk
  <2>2. FsSound(w) /\ w.start = 0 /\ \A t \in Types : w.logic[t] = 0
    BY <2>1, FsIsNew
  <2>3. w.start \in 0..FileNum /\ ~(w.start >= FileNum)
    BY <1>1, <2>2
  <2> QED BY <1>3, <2>2, <2>3 DEF DeviceSound, IsFull, Count
<1> QED BY <1>2, <1>3
-----------------------------------------------------------------------------
(* All devices *)

LEMMA SoundCounts ==
    ASSUME NEW devs, NEW n, Sound(devs, n), NEW t \in Types
    PROVE  Counted(devs, n, t)
BY DeviceTyped DEF Sound, Counted

\* Where the devices before, at and behind the n-th are.
LEMMA Around ==
    ASSUME NEW n \in 1..Devices
    PROVE  /\ n \in Nat \ {0} /\ n <= Devices /\ n \in 1..n /\ n \in 1..n + 1
           /\ \A d \in 1..n - 1 : d \in 1..Devices /\ d # n /\ d \in 1..n
           /\ \A d \in 1..n : d \in 1..Devices /\ d # n + 1 /\ (d = n \/ d \in 1..n - 1)
           /\ \A d \in n + 1..Devices : d \in 1..Devices /\ d # n /\ (d = n + 1 \/ d \in n + 2..Devices)
           /\ \A d \in n + 2..Devices : d \in 1..Devices /\ d # n + 1 /\ d \in n + 1..Devices
           /\ \A d \in 1..n + 1 : d = n + 1 \/ d \in 1..n
BY Sizes

Put(devs, n, w) == [devs EXCEPT ![n] = w]

\* The last device is replaced by one that has its files.
LEMMA Replaced ==
    ASSUME NEW devs, NEW n, Sound(devs, n), NEW w, DeviceSound(w), SamePlaces(devs[n], w),
           w.start \in (0..FileNum) \cup Uninitialised,
           \A t \in Types : Count(devs[n], t) <= Count(w, t),
           NEW o, o = Put(devs, n, w)
    PROVE  /\ Sound(o, n)
           /\ \A t \in Types :
                /\ CountBefore(o, n + 1, t) = CountBefore(devs, n, t) + Count(w, t)
                /\ CountBefore(devs, n + 1, t) = CountBefore(devs, n, t) + Count(devs[n], t)
                /\ \A id \in Nat : id < CountBefore(devs, n + 1, t) => Locate(devs, n, t, id) = Locate(o, n, t, id)
<1>1. n \in 1..Devices /\ n \in Nat \ {0}
  BY Around DEF Sound
<1>2. AllDevices(o) /\ o[n] = w /\ \A d \in 1..Devices : d # n => o[d] = devs[d]
  BY <1>1 DEF Sound, Put, AllDevices
<1>3. Sound(o, n)
  <2>1. \A d \in n + 1..Devices : o[d] = devs[d]
    BY <1>1, <1>2, Around
  <2>2. \A d \in 1..n - 1 : o[d] = devs[d]
    BY <1>1, <1>2, Around
  <2>3. \A d \in 1..n : o[d] = w \/ o[d] = devs[d]
    BY <1>1, <1>2, Around
  <2>4. ASSUME NEW d \in 1..n
        PROVE  DeviceSound(o[d]) /\ o[d].start \in (0..FileNum) \cup Uninitialised
    <3>1. CASE o[d] = w
      BY <3>1
    <3>2. CASE o[d] = devs[d]
      BY <3>2 DEF Sound
    <3> QED BY <2>3, <3>1, <3>2
  <2>5. ASSUME NEW d \in 1..n - 1 PROVE IsFull(o[d])
    <3>1. IsFull(devs[d])
      BY DEF Sound
    <3>2. o[d] = devs[d]
      BY <2>2
    <3> QED BY <3>1, <3>2
  <2>6. \A d \in n + 1..Devices : o[d] = Closed(FreeDisk)
    BY <2>1 DEF Sound
  <2> QED BY <1>1, <1>2, <2>4, <2>5, <2>6 DEF Sound
<1>4. ASSUME NEW t \in Types
      PROVE  /\ CountBefore(o, n + 1, t) = CountBefore(devs, n, t) + Count(w, t)
             /\ CountBefore(devs, n + 1, t) = CountBefore(devs, n, t) + Count(devs[n], t)
             /\ \A id \in Nat : id < CountBefore(devs, n + 1, t) => Locate(devs, n, t, id) = Locate(o, n, t, id)
  <2>1. Counted(devs, n, t) /\ Counted(o, n, t)
    BY <1>3, SoundCounts
  <2>2. \A d \in 1..n - 1 : Count(devs[d], t) = Count(o[d], t)
    <3>1. \A d \in 1..n - 1 : d \in 1..Devices /\ d # n
      BY <1>1, Around
    <3> QED BY <1>2, <3>1
  <2>3. CountBefore(devs, n, t) = CountBefore(o, n, t)
    <3>1. n \in Nat \ {0}
      BY <1>1
    <3>2. \A d \in 1..n - 1 : Count(devs[d], t) = Count(o[d], t)
      BY <2>2
    <3> QED BY SMTT(30), <3>1, <3>2, SameCount
  <2>4. /\ CountBefore(o, n + 1, t) = CountBefore(o, n, t) + Count(o[n], t)
        /\ CountBefore(devs, n + 1, t) = CountBefore(devs, n, t) + Count(devs[n], t)
        /\ CountBefore(devs, n, t) \in Nat
    <3>1. n \in 1..n /\ n \in 1..n + 1
      BY <1>1
    <3> QED BY <1>1, <2>1, <3>1, BeforeIs
  <2>5. Count(devs[n], t) \in Nat /\ Count(w, t) \in Nat /\ Count(devs[n], t) <= Count(w, t)
    <3>1. DeviceSound(devs[n])
      BY <1>1, Around DEF Sound
    <3> QED BY <3>1, DeviceTyped
  <2>6. ASSUME NEW id \in Nat, id < CountBefore(devs, n + 1, t)
        PROVE  Locate(devs, n, t, id) = Locate(o, n, t, id)
    <3>1. id < CountBefore(o, n + 1, t)
      <4> DEFINE b == CountBefore(devs, n, t)
                 x == Count(devs[n], t)
                 y == Count(w, t)
      <4>1. b \in Nat /\ x \in Nat /\ y \in Nat /\ x <= y /\ id < b + x
        BY <2>4, <2>5, <2>6
      <4>2. CountBefore(o, n + 1, t) = b + y
        BY <1>2, <2>3, <2>4
      <4> HIDE DEF b, x, y
      <4> QED BY <4>1, <4>2
    <3>2. ASSUME NEW d \in 1..n, NEW s \in Nat, s < Count(devs[d], t), s < Count(o[d], t)
          PROVE  DevicePlace(devs[d], t, s) = DevicePlace(o[d], t, s)
      <4>1. CASE d = n
        BY <1>2, <3>2, <4>1 DEF SamePlaces
      <4>2. CASE d # n
        <5>1. d \in 1..Devices
          BY <1>1, Around
        <5> QED BY <1>2, <4>2, <5>1
      <4> QED BY <4>1, <4>2
    <3>3. n <= n
      BY <1>1
    <3> QED BY <1>1, <2>1, <2>2, <2>6, <3>1, <3>2, <3>3, PlaceKept
  <2> QED BY <1>2, <2>3, <2>4, <2>6
<1> QED BY <1>3, <1>4

\* The next device is opened.
LEMMA Added ==
    ASSUME NEW devs, NEW n, Sound(devs, n), IsFull(devs[n]), n < Devices, NEW w, DeviceSound(w),
           w.start \in (0..FileNum) \cup Uninitialised,
           NEW o, o = Put(devs, n + 1, w)
    PROVE  /\ Sound(o, n + 1)
           /\ \A t \in Types :
                /\ CountBefore(o, n + 2, t) = CountBefore(devs, n + 1, t) + Count(w, t)
                /\ \A id \in Nat : id < CountBefore(devs, n + 1, t) => Locate(devs, n, t, id) = Locate(o, n + 1, t, id)
<1>1. n \in 1..Devices /\ n \in Nat \ {0} /\ n + 1 \in 1..Devices /\ n + 1 \in Nat \ {0}
  <2>1. n \in 1..Devices
    BY DEF Sound
  <2> QED BY <2>1, Sizes
<1>2. AllDevices(o) /\ o[n + 1] = w /\ \A d \in 1..Devices : d # n + 1 => o[d] = devs[d]
  BY <1>1 DEF Sound, Put, AllDevices
<1>3. Sound(o, n + 1)
  <2>0. n + 1 + 1 = n + 2 /\ n + 1 - 1 = n
    BY <1>1
  <2>1. \A d \in n + 2..Devices : o[d] = devs[d] /\ d \in n + 1..Devices
    BY <1>1, <1>2, Around
  <2>2. \A d \in 1..n : o[d] = devs[d] /\ (d = n \/ d \in 1..n - 1)
    BY <1>1, <1>2, Around
  <2>3. \A d \in 1..n + 1 : o[d] = w \/ (o[d] = devs[d] /\ d \in 1..n)
    BY <1>1, <1>2, <2>2, Around
  <2>4. \A d \in 1..n + 1 : DeviceSound(o[d]) /\ o[d].start \in (0..FileNum) \cup Uninitialised
    BY <2>3 DEF Sound
  <2>5. \A d \in 1..n : IsFull(o[d])
    BY <2>2 DEF Sound
  <2>6. \A d \in n + 2..Devices : o[d] = Closed(FreeDisk)
    BY <2>1 DEF Sound
  <2>7. n + 1 \in 1..Devices /\ AllDevices(o)
    BY <1>1, <1>2
  <2>8. \A d \in 1..n + 1 - 1 : IsFull(o[d])
    BY <2>0, <2>5
  <2>9. \A d \in n + 1 + 1..Devices : o[d] = Closed(FreeDisk)
    BY <2>0, <2>6
  <2> QED BY <2>4, <2>7, <2>8, <2>9 DEF Sound
<1>4. ASSUME NEW t \in Types
      PROVE  /\ CountBefore(o, n + 2, t) = CountBefore(devs, n + 1, t) + Count(w, t)
             /\ \A id \in Nat : id < CountBefore(devs, n + 1, t) => Locate(devs, n, t, id) = Locate(o, n + 1, t, id)
  <2>1. Counted(devs, n, t) /\ Counted(o, n + 1, t)
    BY <1>3, SoundCounts
  <2>2. \A d \in 1..n : o[d] = devs[d]
    <3>1. \A d \in 1..n : d \in 1..Devices /\ d # n + 1
      BY <1>1, Around
    <3> QED BY <1>2, <3>1
  <2>3. CountBefore(devs, n + 1, t) = CountBefore(o, n + 1, t)
    <3>1. \A d \in 1..n + 1 - 1 : Count(devs[d], t) = Count(o[d], t)
      <4>1. n + 1 - 1 = n
        BY <1>1
      <4> QED BY <2>2, <4>1
    <3> QED BY <1>1, <3>1, SameCount
  <2>4. CountBefore(o, n + 2, t) = CountBefore(o, n + 1, t) + Count(o[n + 1], t)
    <3>1. n + 1 \in 1..n + 1 /\ n + 2 = n + 1 + 1
      BY <1>1
    <3>2. CountBefore(o, n + 1 + 1, t) = CountBefore(o, n + 1, t) + Count(o[n + 1], t)
      BY <1>1, <2>1, <3>1, BeforeIs
    <3> QED BY <3>1, <3>2
  <2>5. ASSUME NEW id \in Nat, id < CountBefore(devs, n + 1, t)
        PROVE  Locate(devs, n, t, id) = Locate(o, n + 1, t, id)
    <3>1. id < CountBefore(o, n + 1, t)
      BY <2>3, <2>5
    <3>2. \A d \in 1..n : \A s \in Nat : s < Count(devs[d], t) /\ s < Count(o[d], t) =>
            DevicePlace(devs[d], t, s) = DevicePlace(o[d], t, s)
      BY <2>2
    <3>3. n <= n + 1 /\ \A d \in 1..n - 1 : d \in 1..n
      BY <1>1
    <3>4. \A d \in 1..n - 1 : Count(devs[d], t) = Count(o[d], t)
      BY <2>2, <3>3
    <3> QED BY <1>1, <2>1, <2>5, <3>1, <3>2, <3>3, <3>4, PlaceKept
  <2> QED BY <1>2, <2>3, <2>4, <2>5
<1> QED BY <1>3, <1>4
-----------------------------------------------------------------------------
(* Asking for a file *)

AskAt(devs, n, m, t, id, fails) == AskLast(OpenNext(devs, n, m), m, t, id, fails)

\* The first device that is not full answers, or the last one.
LEMMA AskFromIs ==
    ASSUME NEW devs, NEW n \in 1..Devices, NEW m \in n..Devices, NEW t, NEW id, NEW fails,
           AskAt(devs, n, m, t, id, fails).res # "full" \/ m = Devices,
           \A k \in n..m - 1 : AskAt(devs, n, k, t, id, fails).res = "full"
    PROVE  AskFrom(devs, n, t, id, fails) =
             [AskAt(devs, n, m, t, id, fails) EXCEPT !.res = IF @ = "full" THEN "noDevice" ELSE @]
<1> DEFINE S == {k \in n..Devices : k = Devices \/ AskAt(devs, n, k, t, id, fails).res # "full"}
<1>0. Devices \in Nat /\ n \in Nat /\ m \in Nat
  BY Sizes
<1>1. m \in S
  OBVIOUS
<1>2. \A k \in S : m <= k
  <2> SUFFICES ASSUME NEW k \in S, ~(m <= k) PROVE FALSE
    OBVIOUS
  <2>1. k \in n..m - 1 /\ k # Devices
    BY <1>0
  <2> QED BY <2>1
<1>3. Min(S) = m
  <2>1. S \in SUBSET Nat
    BY <1>0
  <2> HIDE DEF S
  <2>2. Min(S) \in S /\ Min(S) <= m /\ Min(S) \in Nat
    BY <1>1, <2>1, MinIs
  <2> QED BY <1>0, <1>2, <2>2
<1>4. AskFrom(devs, n, t, id, fails) =
        [AskAt(devs, n, Min(S), t, id, fails) EXCEPT !.res = IF @ = "full" THEN "noDevice" ELSE @]
  BY DEF AskFrom, AskAt
<1> HIDE DEF S
<1> QED BY <1>3, <1>4

\* Nothing is opened, or the next device is.
LEMMA OpenNextIs ==
    ASSUME NEW devs, NEW n, Sound(devs, n)
    PROVE  /\ OpenNext(devs, n, n) = devs
           /\ n < Devices => \E u \in Uninitialised :
                               OpenNext(devs, n, n + 1) = Put(devs, n + 1, OpenDevice(Closed(FreeDisk), u))
<1>1. n \in Nat /\ Devices \in Nat /\ n \in 1..Devices /\ devs = [d \in 1..Devices |-> devs[d]]
  BY Sizes DEF Sound, AllDevices
<1>2. OpenNext(devs, n, n) = devs
  <2>1. \A d \in 1..Devices : d \notin n + 1..n
    BY <1>1
  <2> QED BY <1>1, <2>1 DEF OpenNext
<1>3. ASSUME n < Devices
      PROVE  \E u \in Uninitialised : OpenNext(devs, n, n + 1) = Put(devs, n + 1, OpenDevice(Closed(FreeDisk), u))
  <2> DEFINE u == CHOOSE u \in Uninitialised : TRUE
  <2>1. u \in Uninitialised
    BY VbfsAssumption
  <2> HIDE DEF u
  <2>2. \A d \in 1..Devices : d \in n + 1..n + 1 <=> d = n + 1
    BY <1>1
  <2>3. OpenNext(devs, n, n + 1) = [d \in 1..Devices |-> IF d = n + 1 THEN OpenDevice(devs[d], u) ELSE devs[d]]
    BY <2>2 DEF OpenNext, u
  <2>4. devs[n + 1] = Closed(FreeDisk) /\ n + 1 \in 1..Devices
    <3>1. n + 1 \in n + 1..Devices /\ n + 1 \in 1..Devices
      BY <1>1, <1>3
    <3> QED BY <3>1 DEF Sound
  <2>5. Put(devs, n + 1, OpenDevice(Closed(FreeDisk), u)) =
          [d \in 1..Devices |-> IF d = n + 1 THEN OpenDevice(devs[d], u) ELSE devs[d]]
    BY <1>1, <2>4 DEF Put
  <2> QED BY <2>1, <2>3, <2>5
<1> QED BY <1>2, <1>3

LEMMA SameBefore ==
    ASSUME NEW devs, NEW n, Sound(devs, n), n < Devices, NEW v, NEW e, e = Put(devs, n + 1, v), NEW t
    PROVE  CountBefore(devs, n + 1, t) = CountBefore(e, n + 1, t)
<1>1. n \in 1..Devices /\ n + 1 \in Nat \ {0} /\ n + 1 - 1 = n
  <2>1. n \in 1..Devices
    BY DEF Sound
  <2> QED BY <2>1, Sizes
<1>2. \A d \in 1..n : d \in 1..Devices /\ d # n + 1
  BY <1>1, Around
<1>3. \A d \in 1..n : e[d] = devs[d]
  BY <1>2 DEF Put, AllDevices, Sound
<1>4. \A d \in 1..n + 1 - 1 : Count(devs[d], t) = Count(e[d], t)
  BY <1>1, <1>3
<1> QED BY <1>1, <1>4, SameCount

\* The answer of the last open device.
LEMMA LastAnswers ==
    ASSUME NEW devs, NEW n, Sound(devs, n), NEW t \in Types, NEW id, NEW fails,
           NEW x, x = DeviceAllocatFile(devs[n], t, id - CountBefore(devs, n, t), fails),
           x.res # "full"
    PROVE  AskFrom(devs, n, t, id, fails) = [devs |-> Put(devs, n, x.dev), n |-> n, res |-> x.res]
<1>1. n \in 1..Devices /\ n \in n..Devices /\ n..n - 1 = {}
  <2>1. n \in 1..Devices
    BY DEF Sound
  <2> QED BY <2>1, Sizes
<1>2. AskAt(devs, n, n, t, id, fails) = [devs |-> Put(devs, n, x.dev), n |-> n, res |-> x.res]
  BY OpenNextIs DEF AskAt, AskLast, Put
<1>3. AskAt(devs, n, n, t, id, fails).res = x.res
  BY <1>2
<1>4. AskFrom(devs, n, t, id, fails) =
        [AskAt(devs, n, n, t, id, fails) EXCEPT !.res = IF @ = "full" THEN "noDevice" ELSE @]
  BY <1>1, <1>3, AskFromIs
<1> QED BY <1>2, <1>4

\* A repeated call for a file of the last device, which has room.
LEMMA AsksAgain ==
    ASSUME NEW devs, NEW n, Sound(devs, n), NEW t \in Types, NEW fails, kind = "raw", ~IsFull(devs[n]),
           NEW id \in Nat, CountBefore(devs, n, t) <= id, id < CountBefore(devs, n + 1, t),
           NEW r, r = AskFrom(devs, n, t, id, fails)
    PROVE  r.devs = devs /\ r.n = n /\ r.res = "ok"
<1>1. n \in 1..Devices /\ n \in Nat \ {0} /\ n \in 1..n /\ n \in 1..n + 1
  BY Around DEF Sound
<1>2. Counted(devs, n, t) /\ Count(devs[n], t) \in Nat
  BY <1>1, SoundCounts DEF Counted
<1>3. CountBefore(devs, n, t) \in Nat /\ CountBefore(devs, n + 1, t) = CountBefore(devs, n, t) + Count(devs[n], t)
  BY <1>1, <1>2, BeforeIs
<1> DEFINE seg == id - CountBefore(devs, n, t)
<1>4. seg \in 0..Count(devs[n], t) - 1 /\ seg # Count(devs[n], t)
  BY <1>2, <1>3
<1>5. DeviceAllocatFile(devs[n], t, seg, fails) = [dev |-> devs[n], res |-> "ok"]
  <2> HIDE DEF seg
  <2> QED BY <1>4 DEF DeviceAllocatFile, RawAllocatFile
<1>6. r = [devs |-> Put(devs, n, devs[n]), n |-> n, res |-> "ok"]
  BY <1>5, LastAnswers
<1>7. Put(devs, n, devs[n]) = devs
  BY <1>1 DEF Put, Sound, AllDevices
<1> QED BY <1>6, <1>7

\* A call for the next file.
LEMMA AllocatesNext ==
    ASSUME NEW devs, NEW n, Sound(devs, n), NEW t \in Types, NEW fails \in BOOLEAN,
           kind = "raw" \/ ~IsFull(devs[n]),
           NEW r, r = AskFrom(devs, n, t, CountBefore(devs, n + 1, t), fails)
    PROVE  /\ Sound(r.devs, r.n)
           /\ \A u \in Types : CountBefore(r.devs, r.n + 1, u) =
                CountBefore(devs, n + 1, u) +
                  (IF u = t /\ (r.res = "ok" \/ (r.res = "error" /\ kind = "raw")) THEN 1 ELSE 0)
           /\ \A u \in Types : \A id \in Nat :
                id < CountBefore(devs, n + 1, u) => Locate(devs, n, u, id) = Locate(r.devs, r.n, u, id)
           /\ r.res \in {"ok", "error", "noDevice"}
           /\ r.res = "error" => fails
           /\ r.res = "noDevice" => \A d \in 1..Devices : d <= r.n /\ IsFull(r.devs[d])
<1> DEFINE id == CountBefore(devs, n + 1, t)
<1>1. n \in 1..Devices /\ n \in Nat \ {0} /\ n \in 1..n /\ n \in 1..n + 1 /\ Devices \in Nat
  BY Around, Sizes DEF Sound
<1>2. ASSUME NEW u \in Types
      PROVE  /\ Counted(devs, n, u) /\ Count(devs[n], u) \in Nat /\ CountBefore(devs, n, u) \in Nat
             /\ CountBefore(devs, n + 1, u) = CountBefore(devs, n, u) + Count(devs[n], u)
             /\ CountBefore(devs, n + 1, u) \in Nat
  <2>1. Counted(devs, n, u) /\ Count(devs[n], u) \in Nat
    BY <1>1, SoundCounts DEF Counted
  <2>2. CountBefore(devs, n, u) \in Nat /\ CountBefore(devs, n + 1, u) = CountBefore(devs, n, u) + Count(devs[n], u)
    BY <1>1, <2>1, BeforeIs
  <2> QED BY <2>1, <2>2
<1>3. id - CountBefore(devs, n, t) = Count(devs[n], t)
  BY <1>2
<1>4. DeviceSound(devs[n])
  BY <1>1 DEF Sound
<1>5. CASE ~IsFull(devs[n])
  <2> DEFINE x == DeviceAllocatFile(devs[n], t, Count(devs[n], t), fails)
             o == Put(devs, n, x.dev)
  <2>1. /\ x.res = IF fails THEN "error" ELSE "ok"
        /\ DeviceSound(x.dev) /\ SamePlaces(devs[n], x.dev) /\ x.dev.start \in 0..FileNum
        /\ \A u \in Types : Count(x.dev, u) =
             IF u = t /\ (kind = "raw" \/ ~fails) THEN Count(devs[n], u) + 1 ELSE Count(devs[n], u)
    BY <1>4, <1>5, DeviceAllocates
  <2>2. x.res # "full"
    BY <2>1
  <2>3. r = [devs |-> o, n |-> n, res |-> x.res]
    BY <1>3, <2>2, LastAnswers
  <2>4. r.devs = o /\ r.n = n /\ r.res = (IF fails THEN "error" ELSE "ok")
    BY <2>1, <2>3
  <2> DEFINE w == x.dev
  <2> HIDE DEF x
  <2>5. \A u \in Types : Count(devs[n], u) <= Count(w, u)
    BY <1>2, <2>1
  <2> HIDE DEF w
  <2>6. o = Put(devs, n, w)
    BY DEF w
  <2> HIDE DEF o
  <2>7. /\ Sound(o, n)
        /\ \A u \in Types :
             /\ CountBefore(o, n + 1, u) = CountBefore(devs, n, u) + Count(w, u)
             /\ \A i \in Nat : i < CountBefore(devs, n + 1, u) => Locate(devs, n, u, i) = Locate(o, n, u, i)
    <3>1. DeviceSound(w) /\ SamePlaces(devs[n], w) /\ w.start \in (0..FileNum) \cup Uninitialised
      BY <2>1 DEF w
    <3> QED BY <2>5, <2>6, <3>1, Replaced
  <2>8. ASSUME NEW u \in Types
        PROVE  CountBefore(o, n + 1, u) =
                 CountBefore(devs, n + 1, u) +
                   (IF u = t /\ (r.res = "ok" \/ (r.res = "error" /\ kind = "raw")) THEN 1 ELSE 0)
    <3>1. Count(w, u) = IF u = t /\ (kind = "raw" \/ ~fails) THEN Count(devs[n], u) + 1 ELSE Count(devs[n], u)
      BY <2>1 DEF w
    <3>2. u = t /\ (kind = "raw" \/ ~fails) <=> u = t /\ (r.res = "ok" \/ (r.res = "error" /\ kind = "raw"))
      BY <2>4
    <3> QED BY <1>2, <2>7, <3>1, <3>2
  <2> QED BY <2>4, <2>7, <2>8
<1>6. CASE IsFull(devs[n])
  <2>1. AskAt(devs, n, n, t, id, fails) = [devs |-> Put(devs, n, devs[n]), n |-> n, res |-> "full"]
    <3>1. DeviceAllocatFile(devs[n], t, Count(devs[n], t), fails) = [dev |-> devs[n], res |-> "full"]
      BY <1>6 DEF DeviceAllocatFile, RawAllocatFile
    <3> QED BY <1>3, <3>1, OpenNextIs DEF AskAt, AskLast, Put
  <2>2. Put(devs, n, devs[n]) = devs
    BY <1>1 DEF Put, Sound, AllDevices
  <2>3. CASE n = Devices
    <3>1. n \in n..Devices /\ n..n - 1 = {}
      BY <1>1
    <3>2. AskFrom(devs, n, t, id, fails) =
            [AskAt(devs, n, n, t, id, fails) EXCEPT !.res = IF @ = "full" THEN "noDevice" ELSE @]
      BY <1>1, <2>3, <3>1, AskFromIs
    <3>3. r.devs = devs /\ r.n = n /\ r.res = "noDevice"
      BY <2>1, <2>2, <3>2
    <3>4. \A d \in 1..Devices : d <= n /\ (d = n \/ d \in 1..n - 1)
      BY <1>1, <2>3
    <3>5. \A d \in 1..Devices : d <= r.n /\ IsFull(r.devs[d])
      BY <1>6, <3>3, <3>4 DEF Sound
    <3>6. \A u \in Types : CountBefore(devs, n + 1, u) = CountBefore(devs, n + 1, u) + 0
      BY <1>2
    <3> QED BY <3>3, <3>5, <3>6
  <2>4. CASE n < Devices
    <3>1. PICK lo \in Uninitialised : OpenNext(devs, n, n + 1) = Put(devs, n + 1, OpenDevice(Closed(FreeDisk), lo))
      BY <2>4, OpenNextIs
    <3> DEFINE v == OpenDevice(Closed(FreeDisk), lo)
               x == DeviceAllocatFile(v, t, 0, fails)
               w == x.dev
               o == Put(devs, n + 1, w)
               e == Put(devs, n + 1, v)
    <3>2. DeviceSound(v) /\ ~IsFull(v) /\ \A u \in Types : Count(v, u) = 0
      BY DeviceIsNew
    <3>3. /\ x.res = (IF fails THEN "error" ELSE "ok") /\ DeviceSound(w) /\ w.start \in 0..FileNum
          /\ \A u \in Types : Count(w, u) = IF u = t /\ (kind = "raw" \/ ~fails) THEN 0 + 1 ELSE 0
      <4>1. 0 = Count(v, t)
        BY <3>2
      <4> HIDE DEF v
      <4>2. /\ x.res = (IF fails THEN "error" ELSE "ok") /\ DeviceSound(w) /\ w.start \in 0..FileNum
            /\ \A u \in Types : Count(w, u) = IF u = t /\ (kind = "raw" \/ ~fails) THEN Count(v, u) + 1 ELSE Count(v, u)
        BY <3>2, <4>1, DeviceAllocates
      <4> HIDE DEF x
      <4> QED BY <3>2, <4>2
    <3>4. n + 1 \in 1..Devices /\ n + 1 \in n..Devices /\ n + 1 - 1 = n /\ n..n = {n} /\ n + 1 + 1 = n + 2
      BY <1>1, <2>4
    <3>5. AskAt(devs, n, n + 1, t, id, fails) = [devs |-> o, n |-> n + 1, res |-> x.res]
      <4>1. e[n + 1] = v /\ [e EXCEPT ![n + 1] = w] = o
        <5>1. AllDevices(devs)
          BY DEF Sound
        <5> HIDE DEF v, w
        <5> QED BY <3>4, <5>1 DEF Put, AllDevices
      <4>2. CountBefore(e, n + 1, t) = id
        <5>1. CountBefore(devs, n + 1, t) = CountBefore(e, n + 1, t)
          <6> HIDE DEF v, x, w, o
          <6>1. e = Put(devs, n + 1, v)
            OBVIOUS
          <6> HIDE DEF e
          <6> QED BY <2>4, <6>1, SameBefore
        <5> QED BY <5>1
      <4>3. id - id = 0
        BY <1>2
      <4>4. OpenNext(devs, n, n + 1) = e
        BY <3>1
      <4> HIDE DEF e, v, w, o
      <4>5. AskLast(e, n + 1, t, id, fails) = [devs |-> o, n |-> n + 1, res |-> x.res]
        BY <4>1, <4>2, <4>3 DEF AskLast, w
      <4> QED BY <4>4, <4>5 DEF AskAt
    <3> HIDE DEF v, x, w, o, e
    <3>6. r = [devs |-> o, n |-> n + 1, res |-> x.res]
      <4>1. AskAt(devs, n, n + 1, t, id, fails).res # "full"
        BY <3>3, <3>5
      <4>2. \A k \in n..n + 1 - 1 : AskAt(devs, n, k, t, id, fails).res = "full"
        <5>1. AskAt(devs, n, n, t, id, fails).res = "full"
          BY <2>1
        <5>2. \A k \in n..n + 1 - 1 : k = n
          BY <1>1
        <5> QED BY <5>1, <5>2
      <4>3. AskFrom(devs, n, t, id, fails) =
              [AskAt(devs, n, n + 1, t, id, fails) EXCEPT !.res = IF @ = "full" THEN "noDevice" ELSE @]
        BY <1>1, <3>4, <4>1, <4>2, AskFromIs
      <4> QED BY <3>3, <3>5, <4>3
    <3>7. r.devs = o /\ r.n = n + 1 /\ r.res = (IF fails THEN "error" ELSE "ok")
      BY <3>3, <3>6
    <3>8. /\ Sound(o, n + 1)
          /\ \A u \in Types :
               /\ CountBefore(o, n + 2, u) = CountBefore(devs, n + 1, u) + Count(w, u)
               /\ \A i \in Nat : i < CountBefore(devs, n + 1, u) => Locate(devs, n, u, i) = Locate(o, n + 1, u, i)
      <4>1. w.start \in (0..FileNum) \cup Uninitialised /\ o = Put(devs, n + 1, w)
        BY <3>3 DEF o
      <4> QED BY <1>6, <2>4, <3>3, <4>1, Added
    <3>9. ASSUME NEW u \in Types
          PROVE  CountBefore(r.devs, r.n + 1, u) =
                   CountBefore(devs, n + 1, u) +
                     (IF u = t /\ (r.res = "ok" \/ (r.res = "error" /\ kind = "raw")) THEN 1 ELSE 0)
      <4>1. Count(w, u) = IF u = t /\ (kind = "raw" \/ ~fails) THEN 1 ELSE 0
        BY <3>3
      <4>2. u = t /\ (kind = "raw" \/ ~fails) <=> u = t /\ (r.res = "ok" \/ (r.res = "error" /\ kind = "raw"))
        BY <3>7
      <4> QED BY <3>4, <3>7, <3>8, <4>1, <4>2
    <3> QED BY <3>7, <3>8, <3>9
  <2> QED BY <1>1, <2>3, <2>4
<1> QED BY <1>5, <1>6
-----------------------------------------------------------------------------
(* Restarts *)

Room(leftover) == {d \in 1..Devices : ~IsFull(OpenUpTo(Devices, leftover)[d])}

LastOpened(leftover) == IF Room(leftover) = {} THEN Devices ELSE Min(Room(leftover))

\* A full device in front of others is found full, with the same files.
LEMMA FullReopens ==
    ASSUME NEW v, DeviceSound(v), Whole(v), IsFull(v),
           kind = "raw" => \A p \in Places : v.disk[p] # FREE,
           NEW leftover \in Nat, leftover >= FileNum, NEW w, w = OpenDevice(v, leftover)
    PROVE  IsFull(w) /\ \A t \in Types : Count(w, t) = Count(v, t)
<1>1. CASE kind = "raw"
  <2>1. /\ \A t \in Types : \A s \in Nat :
             s < Count(v, t) /\ v.disk[DevicePlace(v, t, s)] # FREE => s < Count(w, t)
        /\ (\A p \in Places : v.disk[p] # FREE) => IsFull(w)
    BY <1>1, DeviceReopens
  <2>2. DeviceSound(w) /\ \A t \in Types : Count(w, t) <= Count(v, t)
    BY DeviceReopens
  <2>3. ASSUME NEW t \in Types PROVE Count(w, t) = Count(v, t)
    <3> DEFINE m == Count(w, t)
               n == Count(v, t)
    <3>1. m \in Nat /\ n \in Nat /\ m <= n
      BY <2>2, DeviceTyped
    <3>2. \A s \in Nat : s < n => s < m
      <4> SUFFICES ASSUME NEW s \in Nat, s < n PROVE s < m
        OBVIOUS
      <4>1. RawSound(v) /\ n = Len(v.logic[t])
        BY <1>1 DEF DeviceSound, Count
      <4>2. s + 1 \in 1..Len(v.logic[t])
        BY <3>1, <4>1
      <4>3. v.logic[t][s + 1] \in Places
        BY <4>1, <4>2, ListIs
      <4>4. v.disk[DevicePlace(v, t, s)] # FREE
        BY <1>1, <4>3 DEF DevicePlace, RawPlace
      <4> QED BY <2>1, <4>4
    <3> HIDE DEF m, n
    <3>3. m = n
      <4>1. ~(m < n)
        BY <3>1, <3>2
      <4> QED BY <3>1, <4>1
    <3> QED BY <3>3 DEF m, n
  <2> QED BY <1>1, <2>1, <2>3
<1>2. CASE kind # "raw"
  <2>1. w.start = v.start /\ \A t \in Types : Count(w, t) = Count(v, t)
    BY <1>2, DeviceReopens
  <2> QED BY <2>1 DEF IsFull
<1> QED BY <1>1, <1>2

\* The devices after a restart.
LEMMA RestartOpens ==
    ASSUME Sound(device, num), DiskIsTidy, files \in [Types -> 0..MaxFiles],
           \A t \in Types : CountBefore(device, num + 1, t) \in Ahead(t),
           NEW leftover \in Uninitialised, leftover >= FileNum,
           NEW n, n = LastOpened(leftover), NEW o, o = OpenUpTo(n, leftover)
    PROVE  /\ Sound(o, n)
           /\ \A t \in Types : CountBefore(o, n + 1, t) \in Ahead(t)
           /\ \A t \in Types : \A id \in Nat : id < files[t] => Locate(device, num, t, id) = Locate(o, n, t, id)
<1> DEFINE W(d) == OpenDevice(device[d], leftover)
<1>1. /\ num \in 1..Devices /\ num \in Nat \ {0} /\ Devices \in Nat /\ leftover \in Nat
      /\ num \in 1..num /\ num \in 1..num + 1
  <2>1. num \in 1..Devices
    BY DEF Sound
  <2> QED BY <2>1, Sizes, VbfsAssumption
<1>2. ASSUME NEW d \in 1..num
      PROVE  /\ d \in 1..Devices /\ DeviceSound(device[d]) /\ Whole(device[d])
             /\ device[d].start \in (0..FileNum) \cup Uninitialised
             /\ d < num => IsFull(device[d]) /\ (kind = "raw" => \A p \in Places : device[d].disk[p] # FREE)
  <2>1. d \in 1..Devices /\ DeviceSound(device[d]) /\ device[d].start \in (0..FileNum) \cup Uninitialised
    BY <1>1 DEF Sound
  <2>2. d < num => IsFull(device[d])
    <3>1. d < num => d \in 1..num - 1
      BY <1>1
    <3> QED BY <3>1 DEF Sound
  <2>3. CASE kind = "raw"
    <3>1. \A p, q \in Places : (p < q /\ device[d].disk[q] # FREE) \/ d < num => device[d].disk[p] # FREE
      BY <2>3 DEF DiskIsTidy
    <3>2. Whole(device[d])
      BY <2>3, <3>1 DEF Whole
    <3>3. d < num => \A p \in Places : device[d].disk[p] # FREE
      BY <3>1
    <3> QED BY <2>1, <2>2, <3>2, <3>3
  <2>4. CASE kind # "raw"
    <3>1. \A t \in Types : Cardinality(device[d].disk[t]) = Count(device[d], t)
      BY <2>4 DEF DiskIsTidy
    <3>2. Whole(device[d])
      BY <2>4, <3>1 DEF Whole, Count
    <3> QED BY <2>1, <2>2, <2>4, <3>2
  <2> QED BY <2>3, <2>4
<1>3. ASSUME NEW d \in 1..num
      PROVE  /\ DeviceSound(W(d)) /\ SamePlaces(device[d], W(d))
             /\ W(d).start \in (0..FileNum) \cup Uninitialised
             /\ \A t \in Types : Count(W(d), t) <= Count(device[d], t)
             /\ kind = "raw" => \A t \in Types : \A s \in Nat :
                  s < Count(device[d], t) /\ device[d].disk[DevicePlace(device[d], t, s)] # FREE => s < Count(W(d), t)
             /\ kind # "raw" => \A t \in Types : Count(W(d), t) = Count(device[d], t)
             /\ IsFull(W(d)) => IsFull(device[d])
  <2>1. DeviceSound(device[d]) /\ Whole(device[d]) /\ device[d].start \in (0..FileNum) \cup Uninitialised
    BY <1>2
  <2>2. W(d).start \in (0..FileNum) \cup {leftover, device[d].start}
    BY <1>1, <2>1, DeviceReopens
  <2>3. W(d).start \in (0..FileNum) \cup Uninitialised
    BY <2>1, <2>2
  <2> QED BY <1>1, <2>1, <2>3, DeviceReopens
<1>4. ASSUME NEW d \in 1..num - 1
      PROVE  IsFull(W(d)) /\ \A t \in Types : Count(W(d), t) = Count(device[d], t)
  <2>1. d \in 1..num /\ d < num
    BY <1>1
  <2>2. /\ DeviceSound(device[d]) /\ Whole(device[d]) /\ IsFull(device[d])
        /\ kind = "raw" => \A p \in Places : device[d].disk[p] # FREE
    BY <1>2, <2>1
  <2> QED BY <1>1, <2>2, FullReopens
<1>5. ASSUME NEW d \in num + 1..Devices
      PROVE  /\ DeviceSound(W(d)) /\ ~IsFull(W(d)) /\ W(d).start \in 0..FileNum
             /\ \A t \in Types : Count(W(d), t) = 0
             /\ Closed(device[d].disk) = Closed(FreeDisk)
  <2>1. device[d] = Closed(FreeDisk)
    BY DEF Sound
  <2>2. Closed(FreeDisk).disk = FreeDisk
    BY DEF Closed
  <2> QED BY <2>1, <2>2, DeviceIsNew
<1>6. \A d \in 1..Devices : OpenUpTo(Devices, leftover)[d] = W(d)
  BY <1>1 DEF OpenUpTo
<1>7. Room(leftover) = {d \in 1..Devices : ~IsFull(W(d))}
  BY <1>6 DEF Room
<1>8. AllDevices(o) /\ \A d \in 1..Devices : o[d] = IF d <= n THEN W(d) ELSE Closed(device[d].disk)
  BY DEF OpenUpTo, AllDevices
<1> HIDE DEF W
<1>9. n = num \/ (n = num + 1 /\ n \in num + 1..Devices /\ IsFull(W(num)))
  <2> DEFINE R == Room(leftover)
  <2>1. R \in SUBSET Nat /\ R \subseteq 1..Devices /\ \A d \in R : ~(d \in 1..num - 1)
    BY <1>1, <1>4, <1>7
  <2>2. \A d \in R : num <= d
    BY <1>1, <2>1
  <2>3. n = IF R = {} THEN Devices ELSE Min(R)
    BY DEF LastOpened
  <2>4. CASE ~IsFull(W(num))
    <3>1. num \in R
      BY <1>1, <1>7, <2>4
    <3> HIDE DEF R
    <3>2. Min(R) \in R /\ Min(R) <= num /\ Min(R) \in Nat
      BY <2>1, <3>1, MinIs
    <3>3. Min(R) = num
      BY <1>1, <2>2, <3>2
    <3> QED BY <2>3, <3>1, <3>3
  <2>5. CASE IsFull(W(num)) /\ num < Devices
    <3>1. num + 1 \in R /\ num \notin R
      <4>1. num + 1 \in num + 1..Devices /\ num + 1 \in 1..Devices
        BY <1>1, <2>5
      <4> QED BY <1>5, <1>7, <2>5, <4>1
    <3> HIDE DEF R
    <3>2. Min(R) \in R /\ Min(R) <= num + 1 /\ Min(R) \in Nat
      BY <2>1, <3>1, MinIs
    <3>3. Min(R) = num + 1
      BY <1>1, <2>2, <3>1, <3>2
    <3>4. n = num + 1
      BY <2>3, <3>1, <3>3
    <3> QED BY <1>1, <2>5, <3>4
  <2>6. CASE IsFull(W(num)) /\ num = Devices
    <3>1. R = {}
      <4>1. \A d \in R : d = num
        BY <1>1, <2>1, <2>2, <2>6
      <4>2. num \notin R
        BY <1>7, <2>6
      <4> QED BY <4>1, <4>2
    <3> HIDE DEF R
    <3> QED BY <2>3, <2>6, <3>1
  <2> QED BY <1>1, <2>4, <2>5, <2>6
<1>10. n \in 1..Devices /\ n \in Nat \ {0} /\ num <= n /\ \A d \in 1..num : d <= n
  BY <1>1, <1>9
<1>11. \A d \in 1..num : o[d] = W(d)
  BY <1>2, <1>8, <1>10
<1>12. ASSUME n = num + 1 PROVE o[n] = W(n) /\ n \in num + 1..Devices
  BY <1>1, <1>8, <1>9, <1>10, <1>12
<1>13. Sound(o, n)
  <2>1. ASSUME NEW d \in 1..n PROVE DeviceSound(o[d]) /\ o[d].start \in (0..FileNum) \cup Uninitialised
    <3>1. CASE d \in 1..num
      BY <1>3, <1>11, <3>1
    <3>2. CASE d \notin 1..num
      <4>1. n = num + 1 /\ d = n
        BY <1>1, <1>9, <3>2
      <4> QED BY <1>5, <1>12, <4>1
    <3> QED BY <3>1, <3>2
  <2>2. ASSUME NEW d \in 1..n - 1 PROVE IsFull(o[d])
    <3>1. d \in 1..num /\ (d \in 1..num - 1 \/ (d = num /\ n = num + 1))
      BY <1>1, <1>9
    <3>2. CASE d \in 1..num - 1
      BY <1>4, <1>11, <3>1, <3>2
    <3>3. CASE d = num /\ n = num + 1
      <4>1. n # num
        BY <1>1, <3>3
      <4> QED BY <1>9, <1>11, <3>1, <3>3, <4>1
    <3> QED BY <3>1, <3>2, <3>3
  <2>3. ASSUME NEW d \in n + 1..Devices PROVE o[d] = Closed(FreeDisk)
    <3>1. d \in 1..Devices /\ ~(d <= n) /\ d \in num + 1..Devices
      BY <1>1, <1>10
    <3> QED BY <1>5, <1>8, <3>1
  <2> QED BY <1>8, <1>10, <2>1, <2>2, <2>3 DEF Sound
<1>14. ASSUME NEW t \in Types
       PROVE  /\ CountBefore(o, n + 1, t) \in Ahead(t)
              /\ files[t] <= CountBefore(o, num + 1, t) /\ files[t] <= CountBefore(device, num + 1, t)
  <2> DEFINE B == CountBefore(device, num, t)
             x == Count(device[num], t)
             y == Count(W(num), t)
             T == CountBefore(device, num + 1, t)
  <2>1. Counted(device, num, t) /\ Counted(o, n, t)
    BY <1>13, SoundCounts
  <2>2. T = B + x /\ B \in Nat
    BY <1>1, <2>1, BeforeIs
  <2>3. x \in Nat /\ y \in Nat /\ y <= x
    <3>1. DeviceSound(device[num]) /\ DeviceSound(W(num)) /\ y <= x
      BY <1>1, <1>2, <1>3
    <3> QED BY <3>1, DeviceTyped
  <2>4. CountBefore(o, num, t) = B
    <3>1. \A d \in 1..num - 1 : d \in 1..num
      BY <1>1
    <3>2. \A d \in 1..num - 1 : Count(device[d], t) = Count(o[d], t)
      BY <1>4, <1>11, <3>1
    <3> QED BY <1>1, <3>2, SameCount
  <2>5. CountBefore(o, num + 1, t) = B + y
    <3>1. num \in 1..n
      BY <1>1, <1>10
    <3>2. CountBefore(o, num + 1, t) = CountBefore(o, num, t) + Count(o[num], t)
      BY <1>10, <2>1, <3>1, BeforeIs
    <3> QED BY <1>1, <1>11, <2>4, <3>2
  <2>6. CountBefore(o, n + 1, t) = B + y
    <3>1. CASE n = num
      BY <2>5, <3>1
    <3>2. CASE n = num + 1
      <4>1. Count(o[n], t) = 0
        BY <1>5, <1>12, <3>2
      <4>2. n \in 1..n
        BY <1>10
      <4>3. CountBefore(o, n + 1, t) = CountBefore(o, n, t) + Count(o[n], t)
        BY <1>10, <2>1, <4>2, BeforeIs
      <4> QED BY <2>2, <2>3, <2>5, <3>2, <4>1, <4>3
    <3> QED BY <1>9, <3>1, <3>2
  <2>7. files[t] \in Nat /\ files[t] <= MaxFiles /\ MaxFiles \in Nat
    BY Sizes
  <2>8. CASE kind # "raw"
    <3>1. y = x /\ T = files[t]
      BY <1>1, <1>3, <2>8 DEF Ahead
    <3> QED BY <2>2, <2>3, <2>5, <2>6, <2>7, <2>8, <3>1 DEF Ahead
  <2>9. CASE kind = "raw"
    <3>1. T = files[t] \/ T = files[t] + 1
      BY <2>9 DEF Ahead
    <3>2. files[t] <= B + y
      <4>1. CASE files[t] <= B
        BY <2>2, <2>3, <2>7, <4>1
      <4>2. CASE ~(files[t] <= B)
        <5> DEFINE id == files[t] - 1
                   s == id - B
        <5>1. id \in Nat /\ B <= id /\ id < B + x /\ s \in Nat /\ s < x /\ id \in 0..MaxFiles - 1 /\ id < files[t]
          BY <2>2, <2>3, <2>7, <3>1, <4>2
        <5> HIDE DEF id
        <5>2. Locate(device, num, t, id) = <<num, DevicePlace(device[num], t, s)>>
          <6>1. Holds(device, t, id, num)
            BY <5>1 DEF Holds
          <6> QED BY <1>1, <2>1, <5>1, <6>1, LocateIs
        <5>3. <<t, id>> \in OnDisk
          BY <5>1 DEF OnDisk
        <5>4. LET p == Locate(device, num, t, id) IN p # NOWHERE /\ device[p[1]].disk[p[2]] # FREE
          <6>1. \A f \in OnDisk : LET p == Locate(device, num, f[1], f[2]) IN p # NOWHERE /\ device[p[1]].disk[p[2]] # FREE
            BY <1>1, <2>9 DEF DiskIsTidy
          <6>2. <<t, id>>[1] = t /\ <<t, id>>[2] = id
            OBVIOUS
          <6> QED BY <5>3, <6>1, <6>2
        <5>5. device[num].disk[DevicePlace(device[num], t, s)] # FREE
          BY <5>2, <5>4
        <5>6. s < y
          BY <1>1, <1>3, <2>9, <5>1, <5>5
        <5> QED BY <2>2, <2>3, <5>1, <5>6 DEF id
      <4> QED BY <4>1, <4>2
    <3> HIDE DEF B, x, y, T
    <3>3. B + y \in {files[t], files[t] + 1} /\ files[t] <= T
      BY <2>2, <2>3, <2>7, <3>1, <3>2
    <3> QED BY <2>5, <2>6, <2>9, <3>2, <3>3 DEF Ahead, T
  <2> QED BY <2>8, <2>9
<1>15. ASSUME NEW t \in Types, NEW id \in Nat, id < files[t]
       PROVE  Locate(device, num, t, id) = Locate(o, n, t, id)
  <2>1. Counted(device, num, t) /\ Counted(o, n, t)
    BY <1>13, SoundCounts
  <2>2. /\ CountBefore(device, num + 1, t) \in Nat /\ CountBefore(o, num + 1, t) \in Nat
    <3>1. num + 1 \in 1..num + 1 /\ num + 1 \in 1..n + 1
      BY <1>1, <1>10
    <3> QED BY <1>1, <1>10, <2>1, <3>1, BeforeIs
  <2>3. files[t] \in Nat
    BY Sizes
  <2>4. id < CountBefore(device, num + 1, t) /\ id < CountBefore(o, num + 1, t)
    BY <1>14, <1>15, <2>2, <2>3
  <2>5. \A d \in 1..num - 1 : Count(device[d], t) = Count(o[d], t)
    <3>1. \A d \in 1..num - 1 : d \in 1..num
      BY <1>1
    <3> QED BY <1>4, <1>11, <3>1
  <2>6. \A d \in 1..num : \A s \in Nat :
          s < Count(device[d], t) /\ s < Count(o[d], t) => DevicePlace(device[d], t, s) = DevicePlace(o[d], t, s)
    BY <1>3, <1>11 DEF SamePlaces
  <2> QED BY <1>1, <1>10, <2>1, <2>4, <2>5, <2>6, PlaceKept
<1> QED BY <1>13, <1>14, <1>15
-----------------------------------------------------------------------------
(* The kind of the devices does not change *)

LEMMA SameKindCount ==
    ASSUME kind' = kind, NEW t, NEW d
    PROVE  Count(device[d], t)' = Count(device'[d], t)
BY DEF Count

LEMMA SameKindBefore ==
    ASSUME kind' = kind, NEW t, NEW n
    PROVE  CountBefore(device, n, t)' = CountBefore(device', n, t)
<1>1. \A d : Count(device[d], t)' = Count(device'[d], t)
  BY SameKindCount
<1> QED
  BY <1>1 DEF CountBefore

LEMMA SameKindTotal ==
    ASSUME kind' = kind, NEW t
    PROVE  CountBefore(device, num + 1, t)' = CountBefore(device', num' + 1, t)
<1>1. \A d : Count(device[d], t)' = Count(device'[d], t)
  BY SameKindCount
<1> QED
  BY <1>1 DEF CountBefore

LEMMA SameKindSound ==
    ASSUME kind' = kind, Sound(device', num')
    PROVE  Sound(device, num)'
<1>1. FreeDisk' = FreeDisk
  BY DEF FreeDisk
<1>2. \A d : DeviceSound(device'[d]) => DeviceSound(device[d])'
  BY DEF DeviceSound
<1>3. \A d : IsFull(device'[d]) <=> IsFull(device[d])'
  BY DEF IsFull
<1>4. Closed(FreeDisk)' = Closed(FreeDisk)
  BY <1>1 DEF Closed
<1> QED
  BY <1>1, <1>2, <1>3, <1>4 DEF Sound, AllDevices

LEMMA SameKindLocate ==
    ASSUME kind' = kind, NEW t, NEW id
    PROVE  Locate(device, num, t, id)' = Locate(device', num', t, id)
<1>1. \A d : Count(device[d], t)' = Count(device'[d], t)
  BY SameKindCount
<1>2. \A d : CountBefore(device, d, t)' = CountBefore(device', d, t)
  BY SameKindBefore
<1>3. \A d, s : DevicePlace(device[d], t, s)' = DevicePlace(device'[d], t, s)
  BY DEF DevicePlace, RawPlace, NamedPlace, NOWHERE
<1> QED
  BY <1>1, <1>2, <1>3 DEF Locate, NOWHERE
-----------------------------------------------------------------------------
(* The invariant holds at the start *)

\* The types of the devices follow from Sound.
LEMMA SoundTyped ==
    ASSUME NEW devs, NEW n, Sound(devs, n)
    PROVE  /\ n \in 1..Devices /\ DOMAIN devs = 1..Devices
           /\ \A d \in 1..n : devs[d].start \in (0..FileNum) \cup Uninitialised /\ DOMAIN devs[d].logic = Types
<1>1. n \in 1..Devices /\ AllDevices(devs)
  BY DEF Sound
<1>2. DOMAIN devs = 1..Devices
  BY <1>1 DEF AllDevices
<1>3. \A d \in 1..n : DeviceSound(devs[d]) /\ devs[d].start \in (0..FileNum) \cup Uninitialised
  BY DEF Sound
<1> QED
  BY <1>1, <1>2, <1>3, DeviceTyped

LEMMA InitIInv == Init => IInv
<1> SUFFICES ASSUME Init PROVE IInv
  OBVIOUS
<1> DEFINE w == OpenDevice(Closed(FreeDisk), 0)
<1>1. /\ num = 1 /\ 1 \in 1..Devices /\ Devices \in Nat /\ FileNum \in Nat
      /\ device = [d \in 1..Devices |-> IF d = 1 THEN w ELSE Closed(FreeDisk)]
  BY Sizes DEF Init
<1>2. /\ DeviceSound(w) /\ ~IsFull(w) /\ w.start \in 0..FileNum
      /\ \A t \in Types : Count(w, t) = 0
  BY DeviceIsNew
<1> HIDE DEF w
<1>3. Sound(device, num)
  <2>1. device[1] = w /\ \A d \in 2..Devices : device[d] = Closed(FreeDisk)
    BY <1>1
  <2>2. \A d \in 1..1 : d = 1
    OBVIOUS
  <2>3. 1..1 - 1 = {} /\ 1 + 1 = 2
    OBVIOUS
  <2>4. AllDevices(device)
    BY <1>1 DEF AllDevices
  <2> QED
    BY <1>1, <1>2, <2>1, <2>2, <2>3, <2>4 DEF Sound
<1>4. ASSUME NEW t \in Types PROVE CountBefore(device, num + 1, t) = 0
  <2>1. Counted(device, num, t)
    BY <1>3, SoundCounts
  <2>2. CountBefore(device, 1 + 1, t) = CountBefore(device, 1, t) + Count(device[1], t) /\ CountBefore(device, 1, t) = 0
    BY <1>1, <2>1, BeforeIs
  <2>3. Count(device[1], t) = 0
    BY <1>1, <1>2
  <2> QED
    BY <1>1, <2>2, <2>3
<1>5. \A t \in Types : CountBefore(device, num + 1, t) \in Ahead(t)
  BY <1>4 DEF Ahead, Init
<1>6. TypeOK
  <2>1. files \in [Types -> 0..MaxFiles] /\ faults \in 0..MaxFaults
    BY Sizes DEF Init
  <2> QED
    BY <1>3, <2>1, SoundTyped DEF TypeOK, Init, NoAnswer
<1>7. CallsSucceed
  BY DEF CallsSucceed, Init, NoAnswer
<1> QED
  BY <1>3, <1>5, <1>6, <1>7 DEF IInv
-----------------------------------------------------------------------------
(* Each action keeps it *)

LEMMA AllocNextKeeps ==
    ASSUME Protected, IInv, NEW t \in Types, AllocNext(t)
    PROVE  /\ IInv'
           /\ \A u \in Types : \A id \in Nat :
                id < files[u] => Locate(device, num, u, id)' = Locate(device, num, u, id)
<1> DEFINE T == CountBefore(device, num + 1, t)
<1>1. PICK fails \in BOOLEAN :
        /\ faults' = IF fails THEN faults + 1 ELSE faults
        /\ fails => faults < MaxFaults
        /\ device' = AskFrom(device, num, t, files[t], fails).devs
        /\ num' = AskFrom(device, num, t, files[t], fails).n
        /\ answer' = [call |-> "alloc", res |-> AskFrom(device, num, t, files[t], fails).res, fault |-> fails]
  BY DEF AllocNext, Call
<1> DEFINE r == AskFrom(device, num, t, files[t], fails)
<1>2. /\ kind' = kind /\ running' = running /\ running /\ files[t] < MaxFiles
      /\ files' = [files EXCEPT ![t] = IF r.res = "ok" THEN @ + 1 ELSE @]
  BY <1>1 DEF AllocNext, Call
<1>3. /\ TypeOK /\ Sound(device, num) /\ T \in Ahead(t)
      /\ \A u \in Types : CountBefore(device, num + 1, u) \in Ahead(u)
  BY DEF IInv
<1>4. /\ files \in [Types -> 0..MaxFiles] /\ files[t] \in Nat /\ faults \in 0..MaxFaults
      /\ running \in BOOLEAN /\ kind \in {"raw", "fs"} /\ MaxFiles \in Nat /\ MaxFaults \in Nat
  BY <1>3, Sizes DEF TypeOK
<1>5. ~(kind = "fs" /\ IsFull(device[num])) /\ ~Late(t, files[t])
  BY DEF AllocNext, Protected
<1>6. num \in 1..Devices /\ num \in Nat \ {0} /\ num \in 1..num
  <2>1. num \in 1..Devices
    BY <1>3 DEF Sound
  <2> QED
    BY <2>1, Around
<1>7. /\ Counted(device, num, t)
      /\ T = CountBefore(device, num, t) + Count(device[num], t)
      /\ CountBefore(device, num, t) \in Nat /\ Count(device[num], t) \in Nat
  <2>1. Counted(device, num, t)
    BY <1>3, SoundCounts
  <2>2. num \in 1..num + 1
    BY <1>6
  <2> QED
    BY <1>6, <2>1, <2>2, BeforeIs DEF Counted
<1> HIDE DEF T, r
\* The counts, the answer and the places.
<1>8. /\ Sound(r.devs, r.n)
      /\ \A u \in Types : CountBefore(r.devs, r.n + 1, u) \in
           IF kind = "raw" THEN {files'[u], files'[u] + 1} ELSE {files'[u]}
      /\ \A u \in Types : \A id \in Nat :
           id < files[u] => Locate(device, num, u, id) = Locate(r.devs, r.n, u, id)
      /\ r.res \in {"ok", "error", "noDevice"}
      /\ r.res = "error" => fails
      /\ r.res = "noDevice" => \A d \in 1..Devices : d <= r.n /\ IsFull(r.devs[d])
  <2>1. CASE files[t] = T
    <3>1. r = AskFrom(device, num, t, CountBefore(device, num + 1, t), fails)
      BY <2>1 DEF r, T
    <3>2. kind = "raw" \/ ~IsFull(device[num])
      BY <1>4, <1>5
    <3>3. /\ Sound(r.devs, r.n)
          /\ \A u \in Types : CountBefore(r.devs, r.n + 1, u) =
               CountBefore(device, num + 1, u) +
                 (IF u = t /\ (r.res = "ok" \/ (r.res = "error" /\ kind = "raw")) THEN 1 ELSE 0)
          /\ \A u \in Types : \A id \in Nat :
               id < CountBefore(device, num + 1, u) => Locate(device, num, u, id) = Locate(r.devs, r.n, u, id)
          /\ r.res \in {"ok", "error", "noDevice"}
          /\ r.res = "error" => fails
          /\ r.res = "noDevice" => \A d \in 1..Devices : d <= r.n /\ IsFull(r.devs[d])
      BY <1>3, <3>1, <3>2, AllocatesNext
    <3>4. ASSUME NEW u \in Types
          PROVE  /\ CountBefore(r.devs, r.n + 1, u) \in IF kind = "raw" THEN {files'[u], files'[u] + 1} ELSE {files'[u]}
                 /\ \A id \in Nat : id < files[u] => Locate(device, num, u, id) = Locate(r.devs, r.n, u, id)
      <4>1. files[u] \in Nat
        BY <1>4
      <4>2. CountBefore(device, num + 1, u) \in IF kind = "raw" THEN {files[u], files[u] + 1} ELSE {files[u]}
        BY <1>3 DEF Ahead
      <4>3. CountBefore(device, num + 1, u) \in Nat /\ files[u] <= CountBefore(device, num + 1, u)
        BY <4>1, <4>2
      <4>4. \A id \in Nat : id < files[u] => Locate(device, num, u, id) = Locate(r.devs, r.n, u, id)
        BY <3>3, <4>1, <4>3
      <4>5. CASE u = t
        <5>1. CountBefore(device, num + 1, u) = files[t]
          BY <2>1, <4>5 DEF T
        <5>2. files'[u] = IF r.res = "ok" THEN files[t] + 1 ELSE files[t]
          BY <1>2, <1>4, <4>5
        <5>3. CountBefore(r.devs, r.n + 1, u) =
                files[t] + (IF r.res = "ok" \/ (r.res = "error" /\ kind = "raw") THEN 1 ELSE 0)
          BY <3>3, <4>5, <5>1
        <5> QED
          BY <1>4, <4>4, <5>2, <5>3
      <4>6. CASE u # t
        <5>1. files'[u] = files[u]
          BY <1>2, <1>4, <4>6
        <5>2. CountBefore(r.devs, r.n + 1, u) = CountBefore(device, num + 1, u)
          BY <3>3, <4>3, <4>6
        <5> QED
          BY <4>2, <4>4, <5>1, <5>2
      <4> QED
        BY <4>5, <4>6
    <3> QED
      BY <3>3, <3>4
  <2>2. CASE files[t] # T
    <3>1. kind = "raw" /\ T = files[t] + 1
      BY <1>3, <1>4, <2>2 DEF Ahead
    <3>2. ~IsFull(device[num]) /\ CountBefore(device, num, t) <= files[t] /\ files[t] < T
      BY <1>4, <1>5, <1>7, <3>1 DEF Late
    <3>3. r.devs = device /\ r.n = num /\ r.res = "ok"
      BY <1>3, <1>4, <3>1, <3>2, AsksAgain DEF r, T
    <3>4. ASSUME NEW u \in Types
          PROVE  CountBefore(device, num + 1, u) \in {files'[u], files'[u] + 1}
      <4>1. CASE u = t
        <5>1. files'[u] = files[t] + 1
          BY <1>2, <1>4, <3>3, <4>1
        <5> QED
          BY <3>1, <4>1, <5>1 DEF T
      <4>2. CASE u # t
        <5>1. files'[u] = files[u]
          BY <1>2, <1>4, <4>2
        <5> QED
          BY <1>3, <3>1, <5>1 DEF Ahead
      <4> QED
        BY <4>1, <4>2
    <3> QED
      BY <1>3, <3>1, <3>3, <3>4
  <2> QED
    BY <2>1, <2>2
<1>9. device' = r.devs /\ num' = r.n
  BY <1>1 DEF r
<1>10. Sound(device, num)'
  BY <1>2, <1>8, <1>9, SameKindSound
<1>11. \A u \in Types : CountBefore(device, num + 1, u)' \in Ahead(u)'
  <2>1. \A u \in Types : CountBefore(device, num + 1, u)' = CountBefore(r.devs, r.n + 1, u)
    BY <1>2, <1>9, SameKindTotal
  <2>2. \A u : Ahead(u)' = IF kind = "raw" THEN {files'[u], files'[u] + 1} ELSE {files'[u]}
    BY <1>2 DEF Ahead
  <2> QED
    BY <1>8, <2>1, <2>2
<1>12. \A u \in Types : \A id \in Nat :
         id < files[u] => Locate(device, num, u, id)' = Locate(device, num, u, id)
  BY <1>2, <1>8, <1>9, SameKindLocate
<1>13. answer' = [call |-> "alloc", res |-> r.res, fault |-> fails]
  BY <1>1 DEF r
<1>14. TypeOK'
  <2>1. /\ num' \in 1..Devices /\ DOMAIN device' = 1..Devices
        /\ \A d \in 1..num' : device'[d].start \in (0..FileNum) \cup Uninitialised /\ DOMAIN device'[d].logic = Types
    BY <1>8, <1>9, SoundTyped
  <2>2. files' \in [Types -> 0..MaxFiles]
    BY <1>2, <1>4
  <2>3. faults' \in 0..MaxFaults
    BY <1>1, <1>4
  <2>4. answer'.res \in {"ok", "error", "full", "noDevice", "assert"}
    BY <1>8, <1>13
  <2> QED
    BY <1>2, <1>4, <2>1, <2>2, <2>3, <2>4 DEF TypeOK
<1>15. CallsSucceed'
  <2>1. answer'.call = "alloc" /\ answer'.res = r.res /\ answer'.fault = fails
    BY <1>13
  <2>2. \A d : IsFull(device'[d]) <=> IsFull(device[d])'
    BY DEF IsFull
  <2>3. r.res = "noDevice" => \A d \in 1..Devices : d <= num' /\ IsFull(device[d])'
    BY <1>8, <1>9, <2>2
  <2> QED
    BY <1>8, <2>1, <2>3 DEF CallsSucceed
<1> QED
  BY <1>10, <1>11, <1>12, <1>14, <1>15 DEF IInv

LEMMA RepeatKeeps ==
    ASSUME Protected, IInv, NEW t \in Types, Repeat(t)
    PROVE  IInv' /\ device' = device /\ num' = num /\ kind' = kind /\ files' = files
<1> DEFINE id == files[t] - 1
           r(fails) == AskFrom(device, num, t, files[t] - 1, fails)
<1>1. PICK fails \in BOOLEAN :
        /\ faults' = IF fails THEN faults + 1 ELSE faults
        /\ fails => faults < MaxFaults
        /\ device' = r(fails).devs
        /\ num' = r(fails).n
        /\ answer' = [call |-> "repeat", res |-> r(fails).res, fault |-> fails]
  BY DEF Repeat, Call
<1>2. kind' = kind /\ running' = running /\ files' = files /\ files[t] > 0
  BY DEF Repeat, Call
<1>3. /\ TypeOK /\ Sound(device, num) /\ CountBefore(device, num + 1, t) \in Ahead(t)
      /\ \A u \in Types : CountBefore(device, num + 1, u) \in Ahead(u)
  BY DEF IInv
<1>4. /\ files \in [Types -> 0..MaxFiles] /\ files[t] \in Nat /\ faults \in 0..MaxFaults
      /\ kind \in {"raw", "fs"} /\ MaxFiles \in Nat /\ MaxFaults \in Nat
  BY <1>3, Sizes DEF TypeOK
<1>5. kind = "raw" /\ ~Late(t, id)
  BY <1>4 DEF Repeat, Protected
<1>6. num \in 1..Devices /\ num \in Nat \ {0} /\ num \in 1..num
  <2>1. num \in 1..Devices
    BY <1>3 DEF Sound
  <2> QED
    BY <2>1, Around
<1>7. /\ CountBefore(device, num + 1, t) = CountBefore(device, num, t) + Count(device[num], t)
      /\ CountBefore(device, num, t) \in Nat /\ Count(device[num], t) \in Nat
  <2>1. Counted(device, num, t)
    BY <1>3, SoundCounts
  <2>2. num \in 1..num + 1
    BY <1>6
  <2> QED
    BY <1>6, <2>1, <2>2, BeforeIs DEF Counted
<1>8. id \in Nat /\ id < CountBefore(device, num + 1, t)
  <2>1. CountBefore(device, num + 1, t) \in {files[t], files[t] + 1}
    BY <1>3, <1>5 DEF Ahead
  <2> QED
    BY <1>2, <1>4, <2>1
<1> HIDE DEF id
<1>9. ~IsFull(device[num]) /\ CountBefore(device, num, t) <= id
  BY <1>5, <1>7, <1>8 DEF Late
<1>10. r(fails).devs = device /\ r(fails).n = num /\ r(fails).res = "ok"
  BY <1>3, <1>5, <1>8, <1>9, AsksAgain DEF id
<1>11. device' = device /\ num' = num
  BY <1>1, <1>10
<1>12. Sound(device, num)'
  BY <1>2, <1>3, <1>11, SameKindSound
<1>13. \A u \in Types : CountBefore(device, num + 1, u)' \in Ahead(u)'
  <2>1. \A u \in Types : CountBefore(device, num + 1, u)' = CountBefore(device, num + 1, u)
    BY <1>2, <1>11, SameKindTotal
  <2>2. \A u : Ahead(u)' = Ahead(u)
    BY <1>2 DEF Ahead
  <2> QED
    BY <1>3, <2>1, <2>2
<1>14. answer'.res = "ok" /\ answer'.call = "repeat"
  BY <1>1, <1>10
<1>15. TypeOK'
  <2>1. faults' \in 0..MaxFaults
    BY <1>1, <1>4
  <2> QED
    BY <1>2, <1>3, <1>11, <1>14, <2>1 DEF TypeOK
<1>16. CallsSucceed'
  BY <1>14 DEF CallsSucceed
<1> QED
  BY <1>2, <1>11, <1>12, <1>13, <1>15, <1>16 DEF IInv

LEMMA RestartKeeps ==
    ASSUME Protected, IInv, Restart
    PROVE  /\ IInv'
           /\ kind' = kind /\ files' = files
           /\ \A u \in Types : \A id \in Nat :
                id < files[u] => Locate(device, num, u, id)' = Locate(device, num, u, id)
<1>1. PICK leftover \in Uninitialised :
        /\ device' = OpenUpTo(LastOpened(leftover), leftover) /\ num' = LastOpened(leftover)
        /\ running' = (Room(leftover) # {})
  BY DEF Restart, LastOpened, Room
<1>2. /\ kind' = kind /\ files' = files /\ answer' = NoAnswer /\ faults < MaxFaults /\ faults' = faults + 1
      /\ DiskIsTidy
  BY DEF Restart, Protected
<1>3. /\ TypeOK /\ Sound(device, num)
      /\ \A u \in Types : CountBefore(device, num + 1, u) \in Ahead(u)
  BY DEF IInv
<1>4. files \in [Types -> 0..MaxFiles] /\ faults \in 0..MaxFaults /\ MaxFaults \in Nat
  BY <1>3, Sizes DEF TypeOK
<1>5. leftover >= FileNum
  BY DEF Protected
<1>6. /\ Sound(device', num')
      /\ \A t \in Types : CountBefore(device', num' + 1, t) \in Ahead(t)
      /\ \A t \in Types : \A id \in Nat : id < files[t] => Locate(device, num, t, id) = Locate(device', num', t, id)
  BY <1>1, <1>2, <1>3, <1>4, <1>5, RestartOpens
<1>7. Sound(device, num)'
  BY <1>2, <1>6, SameKindSound
<1>8. \A u \in Types : CountBefore(device, num + 1, u)' \in Ahead(u)'
  <2>1. \A u \in Types : CountBefore(device, num + 1, u)' = CountBefore(device', num' + 1, u)
    BY <1>2, SameKindTotal
  <2>2. \A u : Ahead(u)' = Ahead(u)
    BY <1>2 DEF Ahead
  <2> QED
    BY <1>6, <2>1, <2>2
<1>9. \A u \in Types : \A id \in Nat :
        id < files[u] => Locate(device, num, u, id)' = Locate(device, num, u, id)
  BY <1>2, <1>6, SameKindLocate
<1>10. TypeOK'
  <2>1. /\ num' \in 1..Devices /\ DOMAIN device' = 1..Devices
        /\ \A d \in 1..num' : device'[d].start \in (0..FileNum) \cup Uninitialised /\ DOMAIN device'[d].logic = Types
    BY <1>6, SoundTyped
  <2>2. faults' \in 0..MaxFaults
    BY <1>2, <1>4
  <2>3. running' \in BOOLEAN
    BY <1>1
  <2> QED
    BY <1>2, <1>3, <2>1, <2>2, <2>3 DEF TypeOK, NoAnswer
<1>11. CallsSucceed'
  BY <1>2 DEF CallsSucceed, NoAnswer
<1> QED
  BY <1>2, <1>7, <1>8, <1>9, <1>10, <1>11 DEF IInv

\* A device that does not open leaves the files and the open devices alone.
LEMMA NextDeviceFailsKeeps ==
    ASSUME IInv, NEW t \in Types, NextDeviceFails(t)
    PROVE  /\ IInv'
           /\ kind' = kind /\ device' = device /\ num' = num /\ files' = files
<1>1. /\ kind' = kind /\ device' = device /\ num' = num /\ files' = files
      /\ answer' = [call |-> "alloc", res |-> "error", fault |-> TRUE]
      /\ running' \in BOOLEAN /\ faults < MaxFaults /\ faults' = faults + 1
  BY DEF NextDeviceFails
<1>2. TypeOK /\ Sound(device, num) /\ \A u \in Types : CountBefore(device, num + 1, u) \in Ahead(u)
  BY DEF IInv
<1>3. Sound(device, num)'
  BY <1>1, <1>2, SameKindSound
<1>4. \A u \in Types : CountBefore(device, num + 1, u)' \in Ahead(u)'
  <2>1. \A u \in Types : CountBefore(device, num + 1, u)' = CountBefore(device, num + 1, u)
    BY <1>1, SameKindTotal
  <2>2. \A u : Ahead(u)' = Ahead(u)
    BY <1>1 DEF Ahead
  <2> QED
    BY <1>2, <2>1, <2>2
<1>5. faults' \in 0..MaxFaults
  <2>1. faults \in 0..MaxFaults /\ MaxFaults \in Nat
    BY <1>2, Sizes DEF TypeOK
  <2> QED
    BY <1>1, <2>1
<1>6. answer'.res = "error" /\ answer'.fault = TRUE
  BY <1>1
<1>7. TypeOK'
  BY <1>1, <1>2, <1>5, <1>6 DEF TypeOK
<1>8. CallsSucceed'
  BY <1>6 DEF CallsSucceed
<1> QED
  BY <1>1, <1>3, <1>4, <1>7, <1>8 DEF IInv

LEMMA StepIInv ==
    ASSUME Protected, IInv, [Next]_vars
    PROVE  IInv'
<1>1. CASE UNCHANGED vars
  <2>1. /\ kind' = kind /\ device' = device /\ num' = num /\ files' = files /\ answer' = answer
        /\ running' = running /\ faults' = faults
    BY <1>1 DEF vars
  <2>2. TypeOK /\ Sound(device, num) /\ CallsSucceed /\ \A u \in Types : CountBefore(device, num + 1, u) \in Ahead(u)
    BY DEF IInv
  <2>3. Sound(device, num)'
    BY <2>1, <2>2, SameKindSound
  <2>4. \A u \in Types : CountBefore(device, num + 1, u)' \in Ahead(u)'
    <3>1. \A u \in Types : CountBefore(device, num + 1, u)' = CountBefore(device, num + 1, u)
      BY <2>1, SameKindTotal
    <3>2. \A u : Ahead(u)' = Ahead(u)
      BY <2>1 DEF Ahead
    <3> QED
      BY <2>2, <3>1, <3>2
  <2>5. TypeOK' /\ CallsSucceed'
    BY <2>1, <2>2 DEF TypeOK, CallsSucceed, IsFull
  <2> QED
    BY <2>3, <2>4, <2>5 DEF IInv
<1>2. CASE \E t \in Types : AllocNext(t)
  BY <1>2, AllocNextKeeps
<1>3. CASE \E t \in Types : Repeat(t)
  BY <1>3, RepeatKeeps
<1>4. CASE \E t \in Types : NextDeviceFails(t)
  BY <1>4, NextDeviceFailsKeeps
<1>5. CASE Restart
  BY <1>5, RestartKeeps
<1> QED
  BY <1>1, <1>2, <1>3, <1>4, <1>5 DEF Next
-----------------------------------------------------------------------------
(* The theorems *)

\* IInv holds of every reachable state of CVbfs when no call or fault falls
\* into an unprotected window.
THEOREM FilesInvariant == Protected /\ Spec => []IInv
<1> SUFFICES ASSUME Protected PROVE Spec => []IInv
  OBVIOUS
<1> QED
  BY InitIInv, StepIInv, PTL DEF Spec

\* Every variable keeps its type.
THEOREM TypeCorrect == Protected /\ Spec => []TypeOK
<1> SUFFICES ASSUME Protected PROVE Spec => []TypeOK
  OBVIOUS
<1>1. IInv => TypeOK
  BY DEF IInv
<1> QED
  BY <1>1, FilesInvariant, PTL

\* What the memory counts of a device is what a restart would read of it, but
\* for entries whose write failed (CRawVbfs, CFileVbfs: AllocatFile, Open).
THEOREM CountsSafe == Protected /\ Spec => []CountsMatchDisk
<1> SUFFICES ASSUME Protected PROVE Spec => []CountsMatchDisk
  OBVIOUS
<1>1. IInv => CountsMatchDisk
  <2> SUFFICES ASSUME IInv, NEW d \in 1..num, NEW t \in Types
               PROVE  IF kind = "raw"
                      THEN \A i \in 1..Len(device[d].logic[t]) :
                             LET e == device[d].disk[device[d].logic[t][i]]
                             IN  e # FREE => e = Entry(t, i - 1)
                      ELSE 0..Count(device[d], t) - 1 \subseteq device[d].disk[t]
    BY DEF CountsMatchDisk
  <2>1. DeviceSound(device[d])
    BY DEF IInv, Sound
  <2>2. CASE kind = "raw"
    <3>1. RawSound(device[d])
      BY <2>1, <2>2 DEF DeviceSound
    <3> QED
      BY <2>2, <3>1 DEF RawSound
  <2>3. CASE kind # "raw"
    <3>1. FsSound(device[d])
      BY <2>1, <2>3 DEF DeviceSound
    <3>2. \A s \in 0..device[d].logic[t] - 1 : s \in device[d].disk[t]
      BY <3>1, NamesThere DEF FsSound
    <3> QED
      BY <2>3, <3>2 DEF Count
  <2> QED
    BY <2>2, <2>3
<1> QED
  BY <1>1, FilesInvariant, PTL

\* A call that meets no failing write is refused only when every device is
\* full, and none reaches an assertion (CVbfs::AllocatFile).
THEOREM CallsSafe == Protected /\ Spec => []CallsSucceed
<1> SUFFICES ASSUME Protected PROVE Spec => []CallsSucceed
  OBVIOUS
<1>1. IInv => CallsSucceed
  BY DEF IInv
<1> QED
  BY <1>1, FilesInvariant, PTL
-----------------------------------------------------------------------------
(* The refinement *)

\* Two files of a device are at different places of it.
LEMMA PlacesDiffer ==
    ASSUME NEW v, DeviceSound(v), NEW t \in Types, NEW u \in Types, NEW i \in Nat, NEW j \in Nat,
           i < Count(v, t), j < Count(v, u), DevicePlace(v, t, i) = DevicePlace(v, u, j)
    PROVE  t = u /\ i = j
<1>1. CASE kind = "raw"
  <2>1. RawSound(v) /\ Count(v, t) = Len(v.logic[t]) /\ Count(v, u) = Len(v.logic[u])
    BY <1>1 DEF DeviceSound, Count
  <2>2. Len(v.logic[t]) \in Nat /\ Len(v.logic[u]) \in Nat
    BY <2>1, DeviceTyped
  <2>3. i + 1 \in 1..Len(v.logic[t]) /\ j + 1 \in 1..Len(v.logic[u])
    BY <2>1, <2>2
  <2>4. v.logic[t][i + 1] = v.logic[u][j + 1]
    BY <1>1 DEF DevicePlace, RawPlace
  <2>5. t = u
    BY <2>1, <2>3, <2>4 DEF RawSound
  <2>6. \A a, b \in 1..Len(v.logic[t]) : a < b => v.logic[t][a] < v.logic[t][b]
    BY <2>1 DEF RawSound
  <2>7. v.logic[t][i + 1] \in Nat
    <3>1. v.logic[t][i + 1] \in Places
      BY <2>1, <2>3, ListIs
    <3> QED
      BY <3>1, Sizes
  <2>8. ~(i + 1 < j + 1) /\ ~(j + 1 < i + 1)
    BY <2>3, <2>4, <2>5, <2>6, <2>7
  <2> QED
    BY <2>5, <2>8
<1>2. CASE kind # "raw"
  <2>1. FsSound(v) /\ Count(v, t) = v.logic[t] /\ Count(v, u) = v.logic[u]
    BY <1>2 DEF DeviceSound, Count
  <2>2. i \in v.disk[t] /\ j \in v.disk[u]
    BY <2>1, NamesThere
  <2> QED
    BY <1>2, <2>2 DEF DevicePlace, NamedPlace
<1> QED
  BY <1>1, <1>2

\* Two counted files are at different places.
OwnPlaces ==
  \A f, g \in OnDisk :
    Locate(device, num, f[1], f[2]) = Locate(device, num, g[1], g[2]) => f = g

LEMMA FilesApart == IInv => OwnPlaces
<1> SUFFICES ASSUME IInv, NEW f \in OnDisk, NEW g \in OnDisk,
                    Locate(device, num, f[1], f[2]) = Locate(device, num, g[1], g[2])
             PROVE  f = g
  BY DEF OwnPlaces
<1>1. Sound(device, num) /\ num \in Nat \ {0}
  <2>1. num \in 1..Devices
    BY DEF IInv, Sound
  <2> QED
    BY <2>1, Around DEF IInv
<1>2. ASSUME NEW h \in OnDisk
      PROVE  \E d \in 1..num :
               /\ h[1] \in Types /\ h[2] \in Nat
               /\ h[2] - CountBefore(device, d, h[1]) \in Nat
               /\ h[2] - CountBefore(device, d, h[1]) < Count(device[d], h[1])
               /\ CountBefore(device, d, h[1]) \in Nat
               /\ Locate(device, num, h[1], h[2]) =
                    <<d, DevicePlace(device[d], h[1], h[2] - CountBefore(device, d, h[1]))>>
  <2> DEFINE t == h[1]
             id == h[2]
  <2>1. t \in Types /\ id \in Nat /\ id < files[t]
    BY <1>2, Sizes DEF OnDisk
  <2> HIDE DEF t, id
  <2>2. Counted(device, num, t)
    BY <1>1, <2>1, SoundCounts
  <2>3. files[t] \in Nat /\ CountBefore(device, num + 1, t) \in {files[t], files[t] + 1}
    <3>1. files[t] \in 0..MaxFiles
      BY <2>1 DEF IInv, TypeOK
    <3>2. CountBefore(device, num + 1, t) \in Ahead(t)
      BY <2>1 DEF IInv
    <3> QED
      BY <3>1, <3>2 DEF Ahead
  <2>4. id < CountBefore(device, num + 1, t)
    BY <2>1, <2>3
  <2>5. PICK d \in 1..num : Holds(device, t, id, d)
    BY <1>1, <2>1, <2>2, <2>4, HolderExists
  <2>6. Locate(device, num, t, id) = <<d, DevicePlace(device[d], t, id - CountBefore(device, d, t))>>
    BY <1>1, <2>1, <2>2, <2>5, LocateIs
  <2>7. CountBefore(device, d, t) \in Nat /\ Count(device[d], t) \in Nat
    <3>1. d \in 1..num + 1
      BY <1>1, <2>5
    <3> QED
      BY <1>1, <2>2, <2>5, <3>1, BeforeIs DEF Counted
  <2>8. id - CountBefore(device, d, t) \in Nat /\ id - CountBefore(device, d, t) < Count(device[d], t)
    BY <2>1, <2>5, <2>7 DEF Holds
  <2> QED
    BY <2>1, <2>5, <2>6, <2>7, <2>8 DEF t, id
<1> DEFINE B(d, h) == CountBefore(device, d, h[1])
<1>3. PICK d \in 1..num :
        /\ f[1] \in Types /\ f[2] \in Nat
        /\ f[2] - B(d, f) \in Nat /\ f[2] - B(d, f) < Count(device[d], f[1]) /\ B(d, f) \in Nat
        /\ Locate(device, num, f[1], f[2]) = <<d, DevicePlace(device[d], f[1], f[2] - B(d, f))>>
  BY <1>2
<1> DEFINE p == DevicePlace(device[d], f[1], f[2] - B(d, f))
<1>4. PICK e \in 1..num :
        /\ g[1] \in Types /\ g[2] \in Nat
        /\ g[2] - B(e, g) \in Nat /\ g[2] - B(e, g) < Count(device[e], g[1]) /\ B(e, g) \in Nat
        /\ Locate(device, num, g[1], g[2]) = <<e, DevicePlace(device[e], g[1], g[2] - B(e, g))>>
  BY <1>2
<1> DEFINE q == DevicePlace(device[e], g[1], g[2] - B(e, g))
<1>5. d = e /\ DevicePlace(device[d], f[1], f[2] - B(d, f)) = DevicePlace(device[d], g[1], g[2] - B(d, g))
  <2>1. <<d, p>> = <<e, q>>
    BY <1>3, <1>4
  <2> HIDE DEF p, q
  <2>2. d = e /\ p = q
    BY <2>1
  <2> QED
    BY <2>2 DEF p, q
<1>6. DeviceSound(device[d])
  BY <1>1 DEF Sound
<1>7. f[1] = g[1] /\ f[2] - B(d, f) = g[2] - B(d, g)
  BY <1>3, <1>4, <1>5, <1>6, PlacesDiffer
<1>8. f[2] = g[2]
  BY <1>3, <1>4, <1>5, <1>7
<1>9. f = <<f[1], f[2]>> /\ g = <<g[1], g[2]>>
  BY DEF OnDisk
<1> QED
  BY <1>7, <1>8, <1>9

StorePlace == [f \in OnDisk |-> Locate(device, num, f[1], f[2])]

\* At most one file is counted by a step, and the counted ones stay where
\* they are.
LEMMA StepKeepsPlaces ==
    ASSUME Protected, IInv, [Next]_vars
    PROVE  /\ \A f \in OnDisk : Locate(device, num, f[1], f[2])' = Locate(device, num, f[1], f[2])
           /\ \/ files' = files
              \/ \E t \in Types : files[t] < MaxFiles /\ files' = [files EXCEPT ![t] = @ + 1]
<1>1. \A f \in OnDisk : f[1] \in Types /\ f[2] \in Nat /\ f[2] < files[f[1]]
  BY Sizes DEF OnDisk
<1>2. files \in [Types -> 0..MaxFiles]
  BY DEF IInv, TypeOK
<1>3. CASE UNCHANGED vars
  <2>1. kind' = kind /\ device' = device /\ num' = num /\ files' = files
    BY <1>3 DEF vars
  <2> QED
    BY <2>1, SameKindLocate
<1>4. ASSUME NEW t \in Types, AllocNext(t)
      PROVE  /\ \A f \in OnDisk : Locate(device, num, f[1], f[2])' = Locate(device, num, f[1], f[2])
             /\ \/ files' = files
                \/ \E u \in Types : files[u] < MaxFiles /\ files' = [files EXCEPT ![u] = @ + 1]
  <2>1. \A u \in Types : \A id \in Nat :
          id < files[u] => Locate(device, num, u, id)' = Locate(device, num, u, id)
    BY <1>4, AllocNextKeeps
  <2>2. files[t] < MaxFiles /\ files' = [files EXCEPT ![t] = IF answer'.res = "ok" THEN @ + 1 ELSE @]
    BY <1>4 DEF AllocNext
  <2>3. answer'.res # "ok" => files' = files
    BY <1>2, <2>2
  <2> QED
    BY <1>1, <2>1, <2>2, <2>3
<1>5. ASSUME NEW t \in Types, Repeat(t)
      PROVE  /\ \A f \in OnDisk : Locate(device, num, f[1], f[2])' = Locate(device, num, f[1], f[2])
             /\ files' = files
  <2>1. device' = device /\ num' = num /\ kind' = kind /\ files' = files
    BY <1>5, RepeatKeeps
  <2> QED
    BY <2>1, SameKindLocate
<1>6. ASSUME NEW t \in Types, NextDeviceFails(t)
      PROVE  /\ \A f \in OnDisk : Locate(device, num, f[1], f[2])' = Locate(device, num, f[1], f[2])
             /\ files' = files
  <2>1. device' = device /\ num' = num /\ kind' = kind /\ files' = files
    BY <1>6, NextDeviceFailsKeeps
  <2> QED
    BY <2>1, SameKindLocate
<1>7. CASE Restart
  BY <1>1, <1>7, RestartKeeps
<1> QED
  BY <1>3, <1>4, <1>5, <1>6, <1>7 DEF Next

\* One more file is one more place.
LEMMA OnDiskGrows ==
    ASSUME files \in [Types -> 0..MaxFiles], NEW t \in Types, files[t] < MaxFiles,
           files' = [files EXCEPT ![t] = @ + 1]
    PROVE  /\ <<t, files[t]>> \in OnDisk' /\ <<t, files[t]>> \notin OnDisk
           /\ OnDisk' = OnDisk \cup {<<t, files[t]>>}
<1>1. MaxFiles \in Nat /\ files[t] \in 0..MaxFiles - 1
  BY Sizes
<1>2. ASSUME NEW u \in Types, NEW i \in 0..MaxFiles - 1
      PROVE  i < files'[u] <=> (i < files[u] \/ (u = t /\ i = files[t]))
  <2>1. CASE u = t
    BY <1>1, <2>1
  <2>2. CASE u # t
    BY <2>2
  <2> QED
    BY <2>1, <2>2
<1>3. \A f : f \in OnDisk' <=> f \in Types \X (0..MaxFiles - 1) /\ f[2] < files'[f[1]]
  BY DEF OnDisk
<1>4. \A f : f \in OnDisk <=> f \in Types \X (0..MaxFiles - 1) /\ f[2] < files[f[1]]
  BY DEF OnDisk
<1>5. ASSUME NEW f PROVE f \in OnDisk' <=> f \in OnDisk \/ f = <<t, files[t]>>
  <2>1. CASE f \in Types \X (0..MaxFiles - 1)
    <3>1. f[1] \in Types /\ f[2] \in 0..MaxFiles - 1 /\ f = <<f[1], f[2]>>
      BY <2>1
    <3>2. f = <<t, files[t]>> <=> f[1] = t /\ f[2] = files[t]
      BY <3>1
    <3> QED
      BY <1>2, <1>3, <1>4, <2>1, <3>1, <3>2
  <2>2. CASE f \notin Types \X (0..MaxFiles - 1)
    BY <1>1, <1>3, <1>4, <2>2
  <2> QED
    BY <2>1, <2>2
<1>6. <<t, files[t]>> \notin OnDisk
  BY <1>1, <1>4
<1> QED
  BY <1>5, <1>6

LEMMA StepImplementsAlloc ==
    ASSUME Protected, IInv, OwnPlaces', [Next]_vars
    PROVE  [Store!Alloc]_StorePlace
<1>1. /\ \A f \in OnDisk : Locate(device, num, f[1], f[2])' = Locate(device, num, f[1], f[2])
      /\ \/ files' = files
         \/ \E t \in Types : files[t] < MaxFiles /\ files' = [files EXCEPT ![t] = @ + 1]
  BY StepKeepsPlaces
<1>2. files \in [Types -> 0..MaxFiles]
  BY DEF IInv, TypeOK
<1>3. CASE files' = files
  <2>1. OnDisk' = OnDisk
    BY <1>3 DEF OnDisk
  <2>2. StorePlace' = StorePlace
    BY <1>1, <2>1 DEF StorePlace
  <2> QED
    BY <2>2
<1>4. ASSUME NEW t \in Types, files[t] < MaxFiles, files' = [files EXCEPT ![t] = @ + 1]
      PROVE  Store!Alloc
  <2>1. /\ <<t, files[t]>> \in OnDisk' /\ <<t, files[t]>> \notin OnDisk
        /\ OnDisk' = OnDisk \cup {<<t, files[t]>>}
    BY <1>2, <1>4, OnDiskGrows
  <2>2. DOMAIN StorePlace = OnDisk /\ DOMAIN StorePlace' = OnDisk'
    BY DEF StorePlace
  <2>3. \E f \in OnDisk' : OnDisk = OnDisk' \ {f}
    BY <2>1
  <2>4. \A f, g \in OnDisk' : StorePlace'[f] = StorePlace'[g] => f = g
    BY DEF OwnPlaces, StorePlace
  <2>5. [f \in OnDisk |-> StorePlace'[f]] = StorePlace
    <3>1. \A f \in OnDisk : StorePlace'[f] = StorePlace[f]
      BY <1>1, <2>1 DEF StorePlace
    <3> QED
      BY <3>1 DEF StorePlace
  <2> QED
    BY <2>2, <2>3, <2>4, <2>5 DEF Store!Alloc, Store!Files, Store!IsInjective, Store!Restrict, StorePlace
<1> QED
  BY <1>1, <1>3, <1>4

\* The devices implement the file store: a logical file keeps a place of its
\* own through calls, failing writes and restarts (CVbfs::AllocatFile, Open,
\* Read, Write).
THEOREM Refinement == Protected /\ Spec => KeepsPlaces
<1> SUFFICES ASSUME Protected PROVE Spec => KeepsPlaces
  OBVIOUS
<1>1. Init => Store!Init
  <2> SUFFICES ASSUME Init PROVE OnDisk = {}
    BY DEF Store!Init, Store!Files
  <2>1. ASSUME NEW f \in OnDisk PROVE FALSE
    BY Sizes DEF OnDisk, Init
  <2> QED
    BY <2>1
<1>2. IInv /\ OwnPlaces' /\ [Next]_vars => [Store!Alloc]_StorePlace
  BY StepImplementsAlloc
<1>3. IInv /\ OwnPlaces' /\ [Next]_vars => [Store!Alloc]_([f \in OnDisk |-> Locate(device, num, f[1], f[2])])
  BY <1>2 DEF StorePlace
<1> QED
  BY <1>1, <1>3, FilesApart, FilesInvariant, PTL DEF Spec, KeepsPlaces, Store!Spec
=============================================================================
