-------------------------- MODULE OrderTableProofs --------------------------
(***************************************************************************)
(* The properties of OrderTable for any number of records, pages and page  *)
(* objects, any limits and any number of faults, as long as none falls     *)
(* into an unprotected window.  The parts from below: the queue of the     *)
(* cache by its links and as one sequence, the cache, the table as one     *)
(* function of pages, and the node that works on it.                       *)
(***************************************************************************)
EXTENDS OrderTable, FiniteSetTheorems, WellFoundedInduction, TLAPS

Protected == Exposed = {}
-----------------------------------------------------------------------------
(* Numbers *)

\* What the assumptions say of the constants.
LEMMA Sizes == /\ MaxVersion \in Nat /\ MaxQueue \in Nat \ {0} /\ MaxBehind \in Nat /\ MaxFaults \in Nat
               /\ PageRecords \in Nat \ {0} /\ CachePages \in Nat /\ StepEnlarge \in Nat \ {0} /\ MaxID \in Nat
               /\ IsFiniteSet(Frames) /\ Frames \subseteq Nat /\ NULL \notin Nat /\ NULL \notin Frames
BY RecordTableAssumption, OrderTableAssumption

\* The least number of a set.
LEMMA MinIs ==
    ASSUME NEW S \in SUBSET Nat, S # {}
    PROVE  Min(S) \in S /\ \A y \in S : Min(S) <= y
<1> DEFINE R == OpToRel(<, Nat)
<1>1. IsWellFoundedOn(R, Nat)
  BY NatLessThanWellFounded
<1>2. \A x, y \in Nat : x < y => <<x, y>> \in R
  BY DEF OpToRel
<1> HIDE DEF R
<1>3. PICK x \in S : \A y \in S : <<y, x>> \notin R
  BY <1>1, WFMin
<1>4. ASSUME NEW y \in S PROVE x <= y
  <2>1. x \in Nat /\ y \in Nat /\ ~(y < x)
    BY <1>2, <1>3
  <2> QED BY <2>1
<1> QED BY <1>4 DEF Min

\* The greatest number of a bounded set.
LEMMA MaxIs ==
    ASSUME NEW S \in SUBSET Nat, S # {}, NEW b \in Nat, \A x \in S : x <= b
    PROVE  Max(S) \in S /\ \A y \in S : y <= Max(S)
<1> DEFINE U == {n \in Nat : \A x \in S : x <= n}
           m == Min(U)
<1>1. b \in U /\ U \in SUBSET Nat
  OBVIOUS
<1> HIDE DEF U
<1>2. m \in U /\ \A n \in U : m <= n
  BY <1>1, MinIs
<1> HIDE DEF m
<1>3. m \in Nat /\ \A x \in S : x <= m
  BY <1>2 DEF U
<1>4. m \in S
  <2> SUFFICES ASSUME m \notin S PROVE FALSE
    OBVIOUS
  <2>1. \A x \in S : x \in Nat /\ x < m
    BY <1>3
  <2>2. m # 0
    <3>1. PICK x \in S : TRUE
      OBVIOUS
    <3> QED BY <2>1, <3>1
  <2>3. m - 1 \in U
    BY <1>3, <2>1, <2>2 DEF U
  <2>4. m <= m - 1
    BY <1>2, <2>3
  <2> QED BY <1>3, <2>4
<1> QED BY <1>3, <1>4 DEF Max

\* A property of numbers that passes from each to the next, as a set.
LEMMA Reaches ==
    ASSUME NEW n \in Nat, NEW S, 0 \in S, \A i \in 0..n - 1 : i \in S => i + 1 \in S
    PROVE  \A i \in 0..n : i \in S
<1> SUFFICES ASSUME NEW k \in 0..n, k \notin S PROVE FALSE
  OBVIOUS
<1> DEFINE U == {i \in 0..n : i \notin S}
           m == Min(U)
<1>1. U \in SUBSET Nat /\ k \in U
  OBVIOUS
<1> HIDE DEF U
<1>2. m \in U /\ \A i \in U : m <= i
  BY <1>1, MinIs
<1> HIDE DEF m
<1>3. m \in 0..n /\ m \notin S /\ m # 0
  BY <1>2 DEF U
<1>4. m - 1 \in 0..n - 1 /\ m - 1 + 1 = m
  BY <1>3
<1>5. m - 1 \in S
  <2> SUFFICES ASSUME m - 1 \notin S PROVE FALSE
    OBVIOUS
  <2>1. m - 1 \in U
    BY <1>4 DEF U
  <2> QED BY <1>2, <1>3, <2>1
<1> QED BY <1>3, <1>4, <1>5
-----------------------------------------------------------------------------
(* The operations of CVbhUniteDqueue, by the links of single frames         *)
(* The preconditions are those the class leaves to its callers: a node that *)
(* is pushed or inserted is in no queue, and one is inserted before a node  *)
(* of this queue. Erase has none: a node that is not in the queue leaves it *)
(* as it is. Each proof first says what the queue r after the operation     *)
(* holds, node by node, and then forgets how r was built.                   *)

\* The links agree in both directions and begin and end at the two ends.
Linked(q) ==
  /\ q \in Dqueue!DqueueType
  /\ q.front = NULL <=> q.back = NULL
  /\ \A m, n \in Frames : q.next[m] = n <=> q.prev[n] = m
  /\ q.front # NULL => q.prev[q.front] = NULL /\ q.next[q.back] = NULL
  /\ q.front # q.back => q.next[q.front] # NULL /\ q.prev[q.back] # NULL
  /\ \A n \in Frames : q.prev[n] = NULL /\ q.next[n] # NULL => q.front = n
  /\ \A n \in Frames : q.next[n] = NULL /\ q.prev[n] # NULL => q.back = n

\* The nodes of the queue, as IsNodeInQueue tells them.
Members(q) == {n \in Frames : Dqueue!IsNodeInQueue(q, n)}

\* The fields of a linked queue have their types.
LEMMA LinkedFields ==
  ASSUME NEW q, Linked(q)
  PROVE  /\ NULL \notin Frames
         /\ q \in Dqueue!DqueueType /\ q.front \in Dqueue!Links /\ q.back \in Dqueue!Links
         /\ q.prev \in [Frames -> Dqueue!Links] /\ q.next \in [Frames -> Dqueue!Links]
BY Sizes DEF Dqueue!DqueueType, Linked

\* A queue as constructed is linked and empty.
THEOREM EmptyIsLinked ==
  Linked(Dqueue!EmptyDqueue) /\ Members(Dqueue!EmptyDqueue) = {} /\ Dqueue!IsEmpty(Dqueue!EmptyDqueue)
BY Sizes DEF Linked, Dqueue!EmptyDqueue, Dqueue!DqueueType, Dqueue!Links, Members, Dqueue!IsNodeInQueue, Dqueue!IsEmpty

\* PushBack puts a node that is in no queue behind the last one.
THEOREM PushBackKeepsLinks ==
  ASSUME NEW q, Linked(q), NEW n \in Frames, n \notin Members(q)
  PROVE  /\ Linked(Dqueue!PushBack(q, n))
         /\ Members(Dqueue!PushBack(q, n)) = Members(q) \cup {n}
         /\ Dqueue!PushBack(q, n).back = n
<1> DEFINE r == Dqueue!PushBack(q, n)
<1>0. /\ NULL \notin Frames
      /\ q \in Dqueue!DqueueType /\ q.front \in Dqueue!Links /\ q.back \in Dqueue!Links
      /\ q.prev \in [Frames -> Dqueue!Links] /\ q.next \in [Frames -> Dqueue!Links]
  BY LinkedFields
<1>1. CASE q.back = NULL
  <2>1. /\ r \in Dqueue!DqueueType /\ r.front = n /\ r.back = n
        /\ \A m \in Frames : r.prev[m] = IF m = n THEN NULL ELSE q.prev[m]
        /\ \A m \in Frames : r.next[m] = IF m = n THEN NULL ELSE q.next[m]
    BY <1>0, <1>1 DEF Dqueue!PushBack, Dqueue!Alone, Dqueue!Unlink, Dqueue!DqueueType, Dqueue!Links
  <2> HIDE DEF r
  <2>2. Linked(r)
    BY <1>0, <1>1, <2>1 DEF Linked, Dqueue!Links, Members, Dqueue!IsNodeInQueue
  <2>3. Members(r) = Members(q) \cup {n}
    BY <1>0, <1>1, <2>1 DEF Linked, Dqueue!Links, Members, Dqueue!IsNodeInQueue
  <2>4. QED BY <2>1, <2>2, <2>3 DEF r
<1>2. CASE q.back # NULL
  <2>1. /\ r \in Dqueue!DqueueType /\ r.front = q.front /\ r.back = n
        /\ \A m \in Frames : r.prev[m] = IF m = n THEN q.back ELSE q.prev[m]
        /\ \A m \in Frames : r.next[m] = IF m = q.back THEN n
                                        ELSE IF m = n THEN NULL ELSE q.next[m]
    BY <1>0, <1>2 DEF Dqueue!PushBack, Dqueue!DqueueType, Dqueue!Links
  <2> HIDE DEF r
  <2>2. Linked(r)
    BY <1>0, <1>2, <2>1 DEF Linked, Dqueue!Links, Members, Dqueue!IsNodeInQueue
  <2>3. Members(r) = Members(q) \cup {n}
    BY <1>0, <1>2, <2>1 DEF Linked, Dqueue!Links, Members, Dqueue!IsNodeInQueue
  <2>4. QED BY <2>1, <2>2, <2>3 DEF r
<1>3. QED BY <1>1, <1>2

\* PushFront puts a node that is in no queue before the first one.
THEOREM PushFrontKeepsLinks ==
  ASSUME NEW q, Linked(q), NEW n \in Frames, n \notin Members(q)
  PROVE  /\ Linked(Dqueue!PushFront(q, n))
         /\ Members(Dqueue!PushFront(q, n)) = Members(q) \cup {n}
         /\ Dqueue!PushFront(q, n).front = n
<1> DEFINE r == Dqueue!PushFront(q, n)
<1>0. /\ NULL \notin Frames
      /\ q \in Dqueue!DqueueType /\ q.front \in Dqueue!Links /\ q.back \in Dqueue!Links
      /\ q.prev \in [Frames -> Dqueue!Links] /\ q.next \in [Frames -> Dqueue!Links]
  BY LinkedFields
<1>1. CASE q.front = NULL
  <2>1. /\ r \in Dqueue!DqueueType /\ r.front = n /\ r.back = n
        /\ \A m \in Frames : r.prev[m] = IF m = n THEN NULL ELSE q.prev[m]
        /\ \A m \in Frames : r.next[m] = IF m = n THEN NULL ELSE q.next[m]
    BY <1>0, <1>1 DEF Dqueue!PushFront, Dqueue!Alone, Dqueue!Unlink, Dqueue!DqueueType, Dqueue!Links
  <2> HIDE DEF r
  <2>2. Linked(r)
    BY <1>0, <1>1, <2>1 DEF Linked, Dqueue!Links, Members, Dqueue!IsNodeInQueue
  <2>3. Members(r) = Members(q) \cup {n}
    BY <1>0, <1>1, <2>1 DEF Linked, Dqueue!Links, Members, Dqueue!IsNodeInQueue
  <2>4. QED BY <2>1, <2>2, <2>3 DEF r
<1>2. CASE q.front # NULL
  <2>1. /\ r \in Dqueue!DqueueType /\ r.front = n /\ r.back = q.back
        /\ \A m \in Frames : r.prev[m] = IF m = q.front THEN n
                                        ELSE IF m = n THEN NULL ELSE q.prev[m]
        /\ \A m \in Frames : r.next[m] = IF m = n THEN q.front ELSE q.next[m]
    BY <1>0, <1>2 DEF Dqueue!PushFront, Dqueue!DqueueType, Dqueue!Links
  <2> HIDE DEF r
  <2>2. Linked(r)
    BY <1>0, <1>2, <2>1 DEF Linked, Dqueue!Links, Members, Dqueue!IsNodeInQueue
  <2>3. Members(r) = Members(q) \cup {n}
    BY <1>0, <1>2, <2>1 DEF Linked, Dqueue!Links, Members, Dqueue!IsNodeInQueue
  <2>4. QED BY <2>1, <2>2, <2>3 DEF r
<1>3. QED BY <1>1, <1>2

\* PopFront takes the first node out, and no other.
THEOREM PopFrontKeepsLinks ==
  ASSUME NEW q, Linked(q)
  PROVE  Linked(Dqueue!PopFront(q)) /\ Members(Dqueue!PopFront(q)) = Members(q) \ {q.front}
<1> DEFINE r == Dqueue!PopFront(q)
<1>0. /\ NULL \notin Frames
      /\ q \in Dqueue!DqueueType /\ q.front \in Dqueue!Links /\ q.back \in Dqueue!Links
      /\ q.prev \in [Frames -> Dqueue!Links] /\ q.next \in [Frames -> Dqueue!Links]
  BY LinkedFields
<1>1. CASE q.front = NULL
  <2>1. /\ r \in Dqueue!DqueueType /\ r.front = NULL /\ r.back = NULL
        /\ \A m \in Frames : r.prev[m] = q.prev[m]
        /\ \A m \in Frames : r.next[m] = q.next[m]
    BY <1>0, <1>1 DEF Dqueue!PopFront, Linked, Dqueue!DqueueType, Dqueue!Links
  <2> HIDE DEF r
  <2>2. Linked(r)
    BY <1>0, <1>1, <2>1 DEF Linked, Dqueue!Links, Members, Dqueue!IsNodeInQueue
  <2>3. Members(r) = Members(q) \ {q.front}
    BY <1>0, <1>1, <2>1 DEF Linked, Dqueue!Links, Members, Dqueue!IsNodeInQueue
  <2>4. QED BY <2>1, <2>2, <2>3 DEF r
<1>2. CASE q.front # NULL /\ q.next[q.front] = NULL
  <2>1. /\ r \in Dqueue!DqueueType /\ r.front = NULL /\ r.back = NULL
        /\ \A m \in Frames : r.prev[m] = IF m = q.front THEN NULL ELSE q.prev[m]
        /\ \A m \in Frames : r.next[m] = IF m = q.front THEN NULL ELSE q.next[m]
    BY <1>0, <1>2 DEF Dqueue!PopFront, Dqueue!Unlink, Linked, Dqueue!DqueueType, Dqueue!Links
  <2> HIDE DEF r
  <2>2. Linked(r)
    BY <1>0, <1>2, <2>1 DEF Linked, Dqueue!Links, Members, Dqueue!IsNodeInQueue
  <2>3. Members(r) = Members(q) \ {q.front}
    BY <1>0, <1>2, <2>1 DEF Linked, Dqueue!Links, Members, Dqueue!IsNodeInQueue
  <2>4. QED BY <2>1, <2>2, <2>3 DEF r
<1>3. CASE q.front # NULL /\ q.next[q.front] # NULL
  <2>1. /\ r \in Dqueue!DqueueType /\ r.front = q.next[q.front] /\ r.back = q.back
        /\ \A m \in Frames : r.prev[m] = IF m \in {q.front, q.next[q.front]} THEN NULL
                                        ELSE q.prev[m]
        /\ \A m \in Frames : r.next[m] = IF m = q.front THEN NULL ELSE q.next[m]
    BY <1>0, <1>3 DEF Dqueue!PopFront, Dqueue!Unlink, Dqueue!DqueueType, Dqueue!Links
  <2> HIDE DEF r
  <2>2. Linked(r)
    BY <1>0, <1>3, <2>1 DEF Linked, Dqueue!Links, Members, Dqueue!IsNodeInQueue
  <2>3. Members(r) = Members(q) \ {q.front}
    BY <1>0, <1>3, <2>1 DEF Linked, Dqueue!Links, Members, Dqueue!IsNodeInQueue
  <2>4. QED BY <2>1, <2>2, <2>3 DEF r
<1>4. QED BY <1>1, <1>2, <1>3

\* PopBack takes the last node out, and no other.
THEOREM PopBackKeepsLinks ==
  ASSUME NEW q, Linked(q)
  PROVE  Linked(Dqueue!PopBack(q)) /\ Members(Dqueue!PopBack(q)) = Members(q) \ {q.back}
<1> DEFINE r == Dqueue!PopBack(q)
<1>0. /\ NULL \notin Frames
      /\ q \in Dqueue!DqueueType /\ q.front \in Dqueue!Links /\ q.back \in Dqueue!Links
      /\ q.prev \in [Frames -> Dqueue!Links] /\ q.next \in [Frames -> Dqueue!Links]
  BY LinkedFields
<1>1. CASE q.back = NULL
  <2>1. /\ r \in Dqueue!DqueueType /\ r.front = NULL /\ r.back = NULL
        /\ \A m \in Frames : r.prev[m] = q.prev[m]
        /\ \A m \in Frames : r.next[m] = q.next[m]
    BY <1>0, <1>1 DEF Dqueue!PopBack, Linked, Dqueue!DqueueType, Dqueue!Links
  <2> HIDE DEF r
  <2>2. Linked(r)
    BY <1>0, <1>1, <2>1 DEF Linked, Dqueue!Links, Members, Dqueue!IsNodeInQueue
  <2>3. Members(r) = Members(q) \ {q.back}
    BY <1>0, <1>1, <2>1 DEF Linked, Dqueue!Links, Members, Dqueue!IsNodeInQueue
  <2>4. QED BY <2>1, <2>2, <2>3 DEF r
<1>2. CASE q.back # NULL /\ q.prev[q.back] = NULL
  <2>1. /\ r \in Dqueue!DqueueType /\ r.front = NULL /\ r.back = NULL
        /\ \A m \in Frames : r.prev[m] = IF m = q.back THEN NULL ELSE q.prev[m]
        /\ \A m \in Frames : r.next[m] = IF m = q.back THEN NULL ELSE q.next[m]
    BY <1>0, <1>2 DEF Dqueue!PopBack, Dqueue!Unlink, Linked, Dqueue!DqueueType, Dqueue!Links
  <2> HIDE DEF r
  <2>2. Linked(r)
    BY <1>0, <1>2, <2>1 DEF Linked, Dqueue!Links, Members, Dqueue!IsNodeInQueue
  <2>3. Members(r) = Members(q) \ {q.back}
    BY <1>0, <1>2, <2>1 DEF Linked, Dqueue!Links, Members, Dqueue!IsNodeInQueue
  <2>4. QED BY <2>1, <2>2, <2>3 DEF r
<1>3. CASE q.back # NULL /\ q.prev[q.back] # NULL
  <2>1. /\ r \in Dqueue!DqueueType /\ r.front = q.front /\ r.back = q.prev[q.back]
        /\ \A m \in Frames : r.prev[m] = IF m = q.back THEN NULL ELSE q.prev[m]
        /\ \A m \in Frames : r.next[m] = IF m \in {q.back, q.prev[q.back]} THEN NULL
                                        ELSE q.next[m]
    BY <1>0, <1>3 DEF Dqueue!PopBack, Dqueue!Unlink, Dqueue!DqueueType, Dqueue!Links
  <2> HIDE DEF r
  <2>2. Linked(r)
    BY <1>0, <1>3, <2>1 DEF Linked, Dqueue!Links, Members, Dqueue!IsNodeInQueue
  <2>3. Members(r) = Members(q) \ {q.back}
    BY <1>0, <1>3, <2>1 DEF Linked, Dqueue!Links, Members, Dqueue!IsNodeInQueue
  <2>4. QED BY <2>1, <2>2, <2>3 DEF r
<1>4. QED BY <1>1, <1>2, <1>3

\* Insert puts a node that is in no queue before one that is in this one.
THEOREM InsertKeepsLinks ==
  ASSUME NEW q, Linked(q),
         NEW n \in Frames, n \notin Members(q), NEW o \in Members(q)
  PROVE  Linked(Dqueue!Insert(q, n, o)) /\ Members(Dqueue!Insert(q, n, o)) = Members(q) \cup {n}
<1> DEFINE r == Dqueue!Insert(q, n, o)
<1>0. /\ NULL \notin Frames
      /\ q \in Dqueue!DqueueType /\ q.front \in Dqueue!Links /\ q.back \in Dqueue!Links
      /\ q.prev \in [Frames -> Dqueue!Links] /\ q.next \in [Frames -> Dqueue!Links]
  BY LinkedFields
<1>1. CASE q.front = o
  BY <1>1, PushFrontKeepsLinks DEF Dqueue!Insert
<1>2. q.front # o => o \in Frames /\ q.prev[o] \in Frames
  BY <1>0 DEF Members, Dqueue!IsNodeInQueue, Linked, Dqueue!Links
<1>3. CASE q.front # o
  <2>1. /\ r \in Dqueue!DqueueType /\ r.front = q.front /\ r.back = q.back
        /\ \A m \in Frames : r.prev[m] = IF m = o THEN n
                                        ELSE IF m = n THEN q.prev[o] ELSE q.prev[m]
        /\ \A m \in Frames : r.next[m] = IF m = q.prev[o] THEN n
                                        ELSE IF m = n THEN o ELSE q.next[m]
    BY <1>0, <1>3, <1>2 DEF Dqueue!Insert, Dqueue!DqueueType, Dqueue!Links
  <2> HIDE DEF r
  <2>2. Linked(r)
    BY <1>0, <1>2, <1>3, <2>1 DEF Linked, Dqueue!Links, Members, Dqueue!IsNodeInQueue
  <2>3. Members(r) = Members(q) \cup {n}
    BY <1>0, <1>2, <1>3, <2>1 DEF Linked, Dqueue!Links, Members, Dqueue!IsNodeInQueue
  <2>4. QED BY <2>1, <2>2, <2>3 DEF r
<1>4. QED BY <1>1, <1>3

\* Erase takes its node out wherever it is, and no other.
THEOREM EraseKeepsLinks ==
  ASSUME NEW q, Linked(q), NEW n \in Frames
  PROVE  Linked(Dqueue!Erase(q, n)) /\ Members(Dqueue!Erase(q, n)) = Members(q) \ {n}
<1> DEFINE r == Dqueue!Erase(q, n)
<1>0. /\ NULL \notin Frames
      /\ q \in Dqueue!DqueueType /\ q.front \in Dqueue!Links /\ q.back \in Dqueue!Links
      /\ q.prev \in [Frames -> Dqueue!Links] /\ q.next \in [Frames -> Dqueue!Links]
  BY LinkedFields
<1>1. CASE q.prev[n] # NULL /\ q.next[n] # NULL
  <2>1. /\ r \in Dqueue!DqueueType /\ r.front = q.front /\ r.back = q.back
        /\ \A m \in Frames : r.prev[m] = IF m = n THEN NULL ELSE IF m = q.next[n]
                                        THEN q.prev[n] ELSE q.prev[m]
        /\ \A m \in Frames : r.next[m] = IF m = n THEN NULL ELSE IF m = q.prev[n]
                                        THEN q.next[n] ELSE q.next[m]
    BY <1>0, <1>1 DEF Dqueue!Erase, Dqueue!Unlink, Dqueue!DqueueType, Dqueue!Links
  <2> HIDE DEF r
  <2>2. Linked(r)
    BY <1>0, <1>1, <2>1 DEF Linked, Dqueue!Links, Members, Dqueue!IsNodeInQueue
  <2>3. Members(r) = Members(q) \ {n}
    BY <1>0, <1>1, <2>1 DEF Linked, Dqueue!Links, Members, Dqueue!IsNodeInQueue
  <2>4. QED BY <2>1, <2>2, <2>3 DEF r
<1>2. CASE q.prev[n] # NULL /\ q.next[n] = NULL
  <2>1. /\ r \in Dqueue!DqueueType /\ r.front = q.front /\ r.back = q.prev[n]
        /\ \A m \in Frames : r.prev[m] = IF m = n THEN NULL ELSE q.prev[m]
        /\ \A m \in Frames : r.next[m] = IF m \in {n, q.prev[n]} THEN NULL ELSE q.next[m]
    BY <1>0, <1>2 DEF Dqueue!Erase, Dqueue!Unlink, Dqueue!DqueueType, Dqueue!Links
  <2> HIDE DEF r
  <2>2. Linked(r)
    BY <1>0, <1>2, <2>1 DEF Linked, Dqueue!Links, Members, Dqueue!IsNodeInQueue
  <2>3. Members(r) = Members(q) \ {n}
    BY <1>0, <1>2, <2>1 DEF Linked, Dqueue!Links, Members, Dqueue!IsNodeInQueue
  <2>4. QED BY <2>1, <2>2, <2>3 DEF r
<1>3. CASE q.prev[n] = NULL /\ q.next[n] # NULL
  <2>1. /\ r \in Dqueue!DqueueType /\ r.front = q.next[n] /\ r.back = q.back
        /\ \A m \in Frames : r.prev[m] = IF m \in {n, q.next[n]} THEN NULL ELSE q.prev[m]
        /\ \A m \in Frames : r.next[m] = IF m = n THEN NULL ELSE q.next[m]
    BY <1>0, <1>3 DEF Dqueue!Erase, Dqueue!Unlink, Dqueue!DqueueType, Dqueue!Links
  <2> HIDE DEF r
  <2>2. Linked(r)
    BY <1>0, <1>3, <2>1 DEF Linked, Dqueue!Links, Members, Dqueue!IsNodeInQueue
  <2>3. Members(r) = Members(q) \ {n}
    BY <1>0, <1>3, <2>1 DEF Linked, Dqueue!Links, Members, Dqueue!IsNodeInQueue
  <2>4. QED BY <2>1, <2>2, <2>3 DEF r
<1>4. CASE q.prev[n] = NULL /\ q.next[n] = NULL /\ q.front = n
  <2>1. /\ r \in Dqueue!DqueueType /\ r.front = NULL /\ r.back = NULL /\ q.back = n
        /\ r.prev = q.prev /\ r.next = q.next
    BY <1>0, <1>4 DEF Dqueue!Erase, Dqueue!DqueueType, Dqueue!Links, Linked
  <2> HIDE DEF r
  <2>2. Linked(r)
    BY <1>0, <1>4, <2>1 DEF Linked, Dqueue!Links
  <2>3. Members(r) = Members(q) \ {n}
    BY <1>0, <1>4, <2>1 DEF Linked, Dqueue!Links, Members, Dqueue!IsNodeInQueue
  <2>4. QED BY <2>1, <2>2, <2>3 DEF r
\* The node is not in the queue.
<1>5. CASE q.prev[n] = NULL /\ q.next[n] = NULL /\ q.front # n
  <2>1. r = q
    BY <1>0, <1>5 DEF Dqueue!Erase
  <2>2. n \notin Members(q)
    BY <1>5 DEF Members, Dqueue!IsNodeInQueue
  <2>3. QED BY <2>1, <2>2
<1>6. QED BY <1>1, <1>2, <1>3, <1>4, <1>5
-----------------------------------------------------------------------------
(* The queue of the cache, as one sequence *)

Elements(s) == {s[i] : i \in 1..Len(s)}

OneToOne(s) == \A i, j \in 1..Len(s) : s[i] = s[j] => i = j

\* The links of q run through the frames of s in their order.
Strung(q, s) ==
  /\ q \in Dqueue!DqueueType /\ s \in Seq(Frames) /\ OneToOne(s)
  /\ q.front = IF Len(s) = 0 THEN NULL ELSE s[1]
  /\ q.back = IF Len(s) = 0 THEN NULL ELSE s[Len(s)]
  /\ \A i \in 1..Len(s) : /\ q.next[s[i]] = IF i = Len(s) THEN NULL ELSE s[i + 1]
                          /\ q.prev[s[i]] = IF i = 1 THEN NULL ELSE s[i - 1]

Without(s, k) == [i \in 1..Len(s) - 1 |-> IF i < k THEN s[i] ELSE s[i + 1]]

\* The fields of a queue.
LEMMA QueueFields ==
    ASSUME NEW q, q \in Dqueue!DqueueType
    PROVE  /\ q = [front |-> q.front, back |-> q.back, prev |-> q.prev, next |-> q.next]
           /\ q.front \in Dqueue!Links /\ q.back \in Dqueue!Links
           /\ q.prev \in [Frames -> Dqueue!Links] /\ q.next \in [Frames -> Dqueue!Links]
BY DEF Dqueue!DqueueType

\* The entries of a sequence of frames.
LEMMA SeqIs ==
    ASSUME NEW s \in Seq(Frames)
    PROVE  Len(s) \in Nat /\ \A i \in 1..Len(s) : s[i] \in Frames /\ s[i] # NULL
BY Sizes

\* An empty queue strings nothing.
LEMMA EmptyStrung == Strung(Dqueue!EmptyDqueue, << >>) /\ Elements(<< >>) = {}
BY Sizes DEF Strung, Elements, OneToOne, Dqueue!EmptyDqueue, Dqueue!DqueueType, Dqueue!Links

\* A frame behind the others.
LEMMA PushBackStrung ==
    ASSUME NEW q, NEW s, Strung(q, s), NEW f \in Frames, f \notin Elements(s)
    PROVE  /\ Strung(Dqueue!PushBack(q, f), Append(s, f))
           /\ Elements(Append(s, f)) = Elements(s) \cup {f}
<1> DEFINE r == Dqueue!PushBack(q, f)
           n == Len(s)
           t == Append(s, f)
<1>1. /\ n \in Nat /\ s \in Seq(Frames) /\ \A i \in 1..n : s[i] \in Frames /\ s[i] # NULL /\ s[i] # f
      /\ f # NULL
  BY SeqIs, Sizes DEF Strung, Elements
<1>2. /\ t \in Seq(Frames) /\ Len(t) = n + 1 /\ t[n + 1] = f /\ \A i \in 1..n : t[i] = s[i]
  BY <1>1
<1> HIDE DEF t
<1>3. OneToOne(t)
  <2> SUFFICES ASSUME NEW i \in 1..n + 1, NEW j \in 1..n + 1, t[i] = t[j] PROVE i = j
    BY <1>2 DEF OneToOne
  <2>1. CASE i \in 1..n /\ j \in 1..n
    BY <1>2, <2>1 DEF OneToOne, Strung
  <2>2. CASE i = n + 1 /\ j \in 1..n
    BY <1>1, <1>2, <2>2
  <2>3. CASE i \in 1..n /\ j = n + 1
    BY <1>1, <1>2, <2>3
  <2> QED BY <1>1, <2>1, <2>2, <2>3
<1>4. Elements(t) = Elements(s) \cup {f}
  <2>1. \A i \in 1..n + 1 : i \in 1..n \/ i = n + 1
    BY <1>1
  <2>2. 1..n \subseteq 1..n + 1 /\ n + 1 \in 1..n + 1
    BY <1>1
  <2> QED BY <1>2, <2>1, <2>2 DEF Elements
<1>5. /\ q = [front |-> q.front, back |-> q.back, prev |-> q.prev, next |-> q.next]
      /\ q.front \in Dqueue!Links /\ q.back \in Dqueue!Links
      /\ q.prev \in [Frames -> Dqueue!Links] /\ q.next \in [Frames -> Dqueue!Links]
  BY QueueFields DEF Strung
<1>6. CASE n = 0
  <2>1. q.back = NULL
    BY <1>6 DEF Strung
  <2>2. /\ r.front = f /\ r.back = f
        /\ r.prev = [q.prev EXCEPT ![f] = NULL] /\ r.next = [q.next EXCEPT ![f] = NULL]
        /\ r = [front |-> r.front, back |-> r.back, prev |-> r.prev, next |-> r.next]
    BY <1>5, <2>1 DEF Dqueue!PushBack, Dqueue!Alone, Dqueue!Unlink
  <2> HIDE DEF r
  <2>3. r \in Dqueue!DqueueType
    BY <1>5, <2>2 DEF Dqueue!DqueueType, Dqueue!Links
  <2>4. \A i \in 1..n + 1 : i = 1 /\ i = n + 1
    BY <1>6
  <2>5. r.next[f] = NULL /\ r.prev[f] = NULL
    BY <1>5, <2>2
  <2> QED BY <1>2, <1>3, <1>4, <1>6, <2>2, <2>3, <2>4, <2>5 DEF Strung, r, t
<1>7. CASE n # 0
  <2>1. q.back = s[n] /\ s[n] \in Frames /\ s[n] # NULL /\ s[n] # f /\ n \in 1..n
    BY <1>1, <1>7 DEF Strung
  <2>2. /\ r.front = q.front /\ r.back = f
        /\ r.prev = [q.prev EXCEPT ![f] = s[n]] /\ r.next = [q.next EXCEPT ![f] = NULL, ![s[n]] = f]
        /\ r = [front |-> r.front, back |-> r.back, prev |-> r.prev, next |-> r.next]
    BY <1>5, <2>1 DEF Dqueue!PushBack
  <2> HIDE DEF r
  <2>3. r \in Dqueue!DqueueType
    BY <1>5, <2>1, <2>2 DEF Dqueue!DqueueType, Dqueue!Links
  <2>4. ASSUME NEW i \in 1..n + 1
        PROVE  /\ r.next[t[i]] = IF i = n + 1 THEN NULL ELSE t[i + 1]
               /\ r.prev[t[i]] = IF i = 1 THEN NULL ELSE t[i - 1]
    <3>1. CASE i = n + 1
      BY <1>1, <1>2, <1>5, <1>7, <2>1, <2>2, <3>1
    <3>2. CASE i = n
      <4>1. t[i] = s[n] /\ t[i + 1] = f /\ i # n + 1
        BY <1>1, <1>2, <2>1, <3>2
      <4>2. r.next[t[i]] = f
        BY <1>5, <2>1, <2>2, <4>1
      <4>3. r.prev[t[i]] = q.prev[s[n]]
        BY <1>5, <2>1, <2>2, <4>1
      <4>4. q.prev[s[n]] = IF n = 1 THEN NULL ELSE s[n - 1]
        BY <2>1 DEF Strung
      <4>5. n # 1 => t[i - 1] = s[n - 1]
        BY <1>1, <1>2, <2>1, <3>2
      <4> QED BY <3>2, <4>1, <4>2, <4>3, <4>4, <4>5
    <3>3. CASE i \in 1..n /\ i # n
      <4>1. t[i] = s[i] /\ t[i + 1] = s[i + 1] /\ i # n + 1 /\ s[i] \in Frames /\ s[i] # f
        BY <1>1, <1>2, <3>3
      <4>2. s[i] # s[n]
        BY <2>1, <3>3 DEF Strung, OneToOne
      <4>3. r.next[s[i]] = q.next[s[i]] /\ r.prev[s[i]] = q.prev[s[i]]
        BY <1>5, <2>1, <2>2, <4>1, <4>2
      <4>4. q.next[s[i]] = s[i + 1] /\ q.prev[s[i]] = IF i = 1 THEN NULL ELSE s[i - 1]
        BY <3>3 DEF Strung
      <4>5. i # 1 => t[i - 1] = s[i - 1]
        BY <1>1, <1>2, <3>3
      <4> QED BY <4>1, <4>3, <4>4, <4>5
    <3> QED BY <1>1, <3>1, <3>2, <3>3
  <2>5. r.front = t[1]
    BY <1>1, <1>2, <1>7, <2>2 DEF Strung
  <2>6. Strung(r, t)
    <3>1. n + 1 # 0 /\ Len(t) = n + 1
      BY <1>1, <1>2
    <3> QED BY <1>2, <1>3, <2>2, <2>3, <2>4, <2>5, <3>1 DEF Strung
  <2> QED BY <1>4, <2>6 DEF r, t
<1> QED BY <1>6, <1>7

\* A sequence without one of its entries.
LEMMA WithoutIs ==
    ASSUME NEW s \in Seq(Frames), OneToOne(s), NEW k \in 1..Len(s)
    PROVE  /\ Without(s, k) \in Seq(Frames) /\ Len(Without(s, k)) = Len(s) - 1
           /\ OneToOne(Without(s, k)) /\ Elements(Without(s, k)) = Elements(s) \ {s[k]}
           /\ \A i \in 1..Len(s) - 1 : Without(s, k)[i] = IF i < k THEN s[i] ELSE s[i + 1]
<1> DEFINE n == Len(s)
           t == Without(s, k)
<1>1. n \in Nat /\ \A i \in 1..n : s[i] \in Frames
  BY SeqIs
<1>2. /\ \A i \in 1..n - 1 : t[i] = IF i < k THEN s[i] ELSE s[i + 1]
      /\ t = [i \in 1..n - 1 |-> IF i < k THEN s[i] ELSE s[i + 1]]
  BY <1>1 DEF Without
<1>3. \A i \in 1..n - 1 : i \in 1..n /\ i + 1 \in 1..n
  BY <1>1
<1>4. t \in Seq(Frames) /\ Len(t) = n - 1
  <2>1. n - 1 \in Nat
    BY <1>1
  <2>2. t \in [1..n - 1 -> Frames]
    BY <1>1, <1>2, <1>3
  <2> QED BY <2>1, <2>2
<1>5. \A i, j \in 1..n : s[i] = s[j] => i = j
  BY DEF OneToOne
<1> HIDE DEF t
<1>6. OneToOne(t)
  <2> SUFFICES ASSUME NEW i \in 1..n - 1, NEW j \in 1..n - 1, t[i] = t[j] PROVE i = j
    BY <1>4 DEF OneToOne
  <2>1. /\ t[i] = IF i < k THEN s[i] ELSE s[i + 1]
        /\ t[j] = IF j < k THEN s[j] ELSE s[j + 1]
    BY <1>2
  <2>2. CASE i < k /\ j < k
    BY <1>3, <1>5, <2>1, <2>2
  <2>3. CASE i < k /\ ~(j < k)
    <3>1. s[i] = s[j + 1]
      BY <2>1, <2>3
    <3>2. i = j + 1
      BY <1>3, <1>5, <3>1
    <3> QED BY <1>1, <2>3, <3>2
  <2>4. CASE ~(i < k) /\ j < k
    <3>1. s[i + 1] = s[j]
      BY <2>1, <2>4
    <3>2. i + 1 = j
      BY <1>3, <1>5, <3>1
    <3> QED BY <1>1, <2>4, <3>2
  <2>5. CASE ~(i < k) /\ ~(j < k)
    <3>1. s[i + 1] = s[j + 1]
      BY <2>1, <2>5
    <3>2. i + 1 = j + 1
      BY <1>3, <1>5, <3>1
    <3> QED BY <1>1, <3>2
  <2> QED BY <2>2, <2>3, <2>4, <2>5
<1>7. Elements(t) = Elements(s) \ {s[k]}
  <2>1. ASSUME NEW x \in Elements(t) PROVE x \in Elements(s) \ {s[k]}
    <3>1. PICK i \in 1..n - 1 : x = t[i]
      BY <1>4, <2>1 DEF Elements
    <3>2. CASE i < k
      <4>1. x = s[i] /\ i \in 1..n /\ i # k
        BY <1>1, <1>2, <1>3, <3>1, <3>2
      <4> QED BY <1>5, <4>1 DEF Elements
    <3>3. CASE ~(i < k)
      <4>1. x = s[i + 1] /\ i + 1 \in 1..n /\ i + 1 # k
        BY <1>1, <1>2, <1>3, <3>1, <3>3
      <4> QED BY <1>5, <4>1 DEF Elements
    <3> QED BY <3>2, <3>3
  <2>2. ASSUME NEW x \in Elements(s), x # s[k] PROVE x \in Elements(t)
    <3>1. PICK i \in 1..n : x = s[i]
      BY <2>2 DEF Elements
    <3>2. i # k
      BY <2>2, <3>1
    <3>3. CASE i < k
      <4>1. i \in 1..n - 1 /\ t[i] = x
        BY <1>1, <1>2, <3>1, <3>3
      <4> QED BY <1>4, <4>1 DEF Elements
    <3>4. CASE i > k
      <4>1. i - 1 \in 1..n - 1 /\ ~(i - 1 < k) /\ (i - 1) + 1 = i
        BY <1>1, <3>4
      <4>2. t[i - 1] = x
        BY <1>2, <3>1, <4>1
      <4> QED BY <1>4, <4>1, <4>2 DEF Elements
    <3> QED BY <1>1, <3>2, <3>3, <3>4
  <2> QED BY <2>1, <2>2
<1> QED BY <1>2, <1>4, <1>6, <1>7 DEF t

\* A frame is taken out wherever it is.
LEMMA EraseStrung ==
    ASSUME NEW q, NEW s, Strung(q, s), NEW k \in 1..Len(s)
    PROVE  Strung(Dqueue!Erase(q, s[k]), Without(s, k))
<1> DEFINE r == Dqueue!Erase(q, s[k])
           n == Len(s)
           t == Without(s, k)
           f == s[k]
<1>1. /\ s \in Seq(Frames) /\ n \in Nat /\ \A i \in 1..n : s[i] \in Frames /\ s[i] # NULL
      /\ f \in Frames /\ f # NULL
  BY SeqIs DEF Strung
<1>2. \A i, j \in 1..n : s[i] = s[j] => i = j
  BY DEF Strung, OneToOne
<1>3. /\ t \in Seq(Frames) /\ Len(t) = n - 1 /\ OneToOne(t)
      /\ \A i \in 1..n - 1 : t[i] = IF i < k THEN s[i] ELSE s[i + 1]
  BY <1>1, WithoutIs DEF Strung
<1> HIDE DEF t
<1>4. /\ q = [front |-> q.front, back |-> q.back, prev |-> q.prev, next |-> q.next]
      /\ q.front \in Dqueue!Links /\ q.back \in Dqueue!Links
      /\ q.prev \in [Frames -> Dqueue!Links] /\ q.next \in [Frames -> Dqueue!Links]
  BY QueueFields DEF Strung
<1>5. \A i \in 1..n : /\ q.next[s[i]] = IF i = n THEN NULL ELSE s[i + 1]
                      /\ q.prev[s[i]] = IF i = 1 THEN NULL ELSE s[i - 1]
  BY DEF Strung
<1>6. q.front = s[1] /\ q.back = s[n] /\ 1 \in 1..n /\ n \in 1..n
  BY <1>1 DEF Strung
<1>7. q.next[f] = (IF k = n THEN NULL ELSE s[k + 1]) /\ q.prev[f] = (IF k = 1 THEN NULL ELSE s[k - 1])
  BY <1>5
<1>8. /\ k # n => k + 1 \in 1..n /\ s[k + 1] \in Frames /\ s[k + 1] # NULL /\ s[k + 1] # f
      /\ k # 1 => k - 1 \in 1..n /\ s[k - 1] \in Frames /\ s[k - 1] # NULL /\ s[k - 1] # f
  BY <1>1, <1>2
<1>9. /\ r \in Dqueue!DqueueType
      /\ r.front = IF k = 1 THEN (IF n = 1 THEN NULL ELSE s[2]) ELSE s[1]
      /\ r.back = IF k = n THEN (IF n = 1 THEN NULL ELSE s[n - 1]) ELSE s[n]
      /\ \A g \in Frames : g # f =>
           /\ r.next[g] = IF k # 1 /\ g = s[k - 1] THEN (IF k = n THEN NULL ELSE s[k + 1]) ELSE q.next[g]
           /\ r.prev[g] = IF k # n /\ g = s[k + 1] THEN (IF k = 1 THEN NULL ELSE s[k - 1]) ELSE q.prev[g]
  <2>1. CASE k # 1 /\ k # n
    BY <1>1, <1>4, <1>6, <1>7, <1>8, <2>1 DEF Dqueue!Erase, Dqueue!Unlink, Dqueue!DqueueType, Dqueue!Links
  <2>2. CASE k # 1 /\ k = n
    BY <1>1, <1>4, <1>6, <1>7, <1>8, <2>2 DEF Dqueue!Erase, Dqueue!Unlink, Dqueue!DqueueType, Dqueue!Links
  <2>3. CASE k = 1 /\ k # n
    <3>1. /\ n # 1 /\ q.prev[f] = NULL /\ q.next[f] = s[2] /\ s[2] \in Frames /\ s[2] # NULL /\ s[2] # f
          /\ q.back = s[n] /\ k + 1 = 2
      BY <1>6, <1>7, <1>8, <2>3
    <3>2. /\ r.front = s[2] /\ r.back = q.back
          /\ r.prev = [q.prev EXCEPT ![s[2]] = NULL, ![f] = NULL] /\ r.next = [q.next EXCEPT ![f] = NULL]
          /\ r = [front |-> r.front, back |-> r.back, prev |-> r.prev, next |-> r.next]
      BY <1>4, <3>1 DEF Dqueue!Erase, Dqueue!Unlink
    <3> HIDE DEF r
    <3>3. r \in Dqueue!DqueueType
      BY <1>1, <1>4, <3>1, <3>2 DEF Dqueue!DqueueType, Dqueue!Links
    <3> QED BY <1>1, <1>4, <2>3, <3>1, <3>2, <3>3
  <2>4. CASE k = 1 /\ k = n
    <3>1. n = 1 /\ q.front = f /\ q.prev[f] = NULL /\ q.next[f] = NULL
      BY <1>6, <1>7, <2>4
    <3>2. r = [q EXCEPT !.front = NULL, !.back = NULL]
      <4> DEFINE g == [q EXCEPT !.front = NULL, !.back = NULL]
      <4>1. g = [q EXCEPT !.front = NULL, !.back = NULL]
        OBVIOUS
      <4> HIDE DEF g
      <4>2. r = g
        BY <3>1, <4>1, Zenon DEF Dqueue!Erase
      <4> QED BY <4>1, <4>2
    <3>3. r.front = NULL /\ r.back = NULL /\ r.prev = q.prev /\ r.next = q.next
      BY <1>4, <3>2
    <3>4. r = [front |-> NULL, back |-> NULL, prev |-> q.prev, next |-> q.next]
      BY <1>4, <3>2
    <3>5. r \in Dqueue!DqueueType
      BY <1>4, <3>4 DEF Dqueue!DqueueType, Dqueue!Links
    <3> HIDE DEF r
    <3> QED BY <2>4, <3>1, <3>3, <3>5
  <2> QED BY <2>1, <2>2, <2>3, <2>4
<1> HIDE DEF r
<1>10. r.front = IF n - 1 = 0 THEN NULL ELSE t[1]
  BY <1>1, <1>3, <1>9
<1>11. r.back = IF n - 1 = 0 THEN NULL ELSE t[n - 1]
  <2>1. CASE n = 1
    BY <1>9, <2>1
  <2>2. CASE n # 1 /\ k = n
    <3>1. n - 1 \in 1..n - 1 /\ n - 1 < k /\ n - 1 # 0
      BY <1>1, <2>2
    <3> QED BY <1>3, <1>9, <2>2, <3>1
  <2>3. CASE n # 1 /\ k # n
    <3>1. n - 1 \in 1..n - 1 /\ ~(n - 1 < k) /\ n - 1 # 0 /\ (n - 1) + 1 = n
      BY <1>1, <2>3
    <3> QED BY <1>3, <1>9, <2>3, <3>1
  <2> QED BY <2>1, <2>2, <2>3
<1>12. ASSUME NEW i \in 1..n - 1
       PROVE  /\ r.next[t[i]] = IF i = n - 1 THEN NULL ELSE t[i + 1]
              /\ r.prev[t[i]] = IF i = 1 THEN NULL ELSE t[i - 1]
  <2>1. CASE i < k
    <3>1. t[i] = s[i] /\ i \in 1..n /\ s[i] \in Frames /\ s[i] # f /\ (i = k - 1 <=> i + 1 = k)
      BY <1>1, <1>2, <1>3, <2>1
    <3>2. r.prev[s[i]] = q.prev[s[i]]
      <4>1. k # n => s[i] # s[k + 1]
        BY <1>2, <1>8, <2>1, <3>1
      <4> QED BY <1>9, <3>1, <4>1
    <3>3. r.prev[t[i]] = IF i = 1 THEN NULL ELSE t[i - 1]
      <4>1. i # 1 => i - 1 \in 1..n - 1 /\ i - 1 < k
        BY <1>1, <2>1
      <4> QED BY <1>3, <1>5, <3>1, <3>2, <4>1
    <3>4. CASE i = k - 1
      <4>1. r.next[s[i]] = IF k = n THEN NULL ELSE s[k + 1]
        BY <1>1, <1>9, <3>1, <3>4
      <4>2. i = n - 1 <=> k = n
        BY <1>1, <3>4
      <4>3. k # n => i + 1 \in 1..n - 1 /\ ~(i + 1 < k) /\ (i + 1) + 1 = k + 1
        BY <1>1, <3>4
      <4>4. k # n => t[i + 1] = s[k + 1]
        BY <1>3, <4>3
      <4> QED BY <3>1, <3>3, <4>1, <4>2, <4>4
    <3>5. CASE i # k - 1
      <4>1. i + 1 \in 1..n - 1 /\ i + 1 < k /\ i # n - 1 /\ i # n
        BY <1>1, <2>1, <3>5
      <4>2. s[i] # s[k - 1] \/ k = 1
        BY <1>2, <1>8, <3>1, <3>5
      <4>3. r.next[s[i]] = q.next[s[i]]
        BY <1>9, <3>1, <4>2
      <4> QED BY <1>3, <1>5, <3>1, <3>3, <4>1, <4>3
    <3> QED BY <3>4, <3>5
  <2>2. CASE ~(i < k)
    <3>1. t[i] = s[i + 1] /\ i + 1 \in 1..n /\ s[i + 1] \in Frames /\ s[i + 1] # f
      BY <1>1, <1>2, <1>3, <2>2
    <3>2. r.next[s[i + 1]] = q.next[s[i + 1]]
      <4>1. k # 1 => s[i + 1] # s[k - 1]
        BY <1>1, <1>2, <1>8, <2>2, <3>1
      <4> QED BY <1>9, <3>1, <4>1
    <3>3. r.next[t[i]] = IF i = n - 1 THEN NULL ELSE t[i + 1]
      <4>1. i # n - 1 => i + 1 \in 1..n - 1 /\ ~(i + 1 < k) /\ i + 1 # n
        BY <1>1, <2>2
      <4>2. i = n - 1 => i + 1 = n
        BY <1>1
      <4> QED BY <1>3, <1>5, <3>1, <3>2, <4>1, <4>2
    <3>4. CASE i = k
      <4>1. k # n /\ r.prev[s[i + 1]] = IF k = 1 THEN NULL ELSE s[k - 1]
        BY <1>1, <1>9, <3>1, <3>4
      <4>2. i # 1 => i - 1 \in 1..n - 1 /\ i - 1 < k
        BY <1>1, <3>4
      <4> QED BY <1>3, <3>1, <3>3, <3>4, <4>1, <4>2
    <3>5. CASE i # k
      <4>1. i - 1 \in 1..n - 1 /\ ~(i - 1 < k) /\ (i - 1) + 1 = i /\ (i + 1) - 1 = i /\ i # 1 /\ i + 1 # 1
        BY <1>1, <2>2, <3>5
      <4>2. k # n => s[i + 1] # s[k + 1]
        <5> SUFFICES ASSUME k # n, s[i + 1] = s[k + 1] PROVE FALSE
          OBVIOUS
        <5>1. i + 1 = k + 1
          BY <1>2, <1>8, <3>1
        <5> QED BY <3>5, <5>1
      <4>3. r.prev[s[i + 1]] = q.prev[s[i + 1]]
        BY <1>9, <3>1, <4>2
      <4> QED BY SMTT(30), <1>3, <1>5, <3>1, <3>3, <4>1, <4>3
    <3> QED BY <3>4, <3>5
  <2> QED BY <2>1, <2>2
<1> QED BY <1>3, <1>9, <1>10, <1>11, <1>12 DEF Strung, r, t

\* The instance of the queue counts like FiniteSets.
LEMMA SameCardinality == \A S : Dqueue!Cardinality(S) = Cardinality(S)
BY Zenon DEF Dqueue!Cardinality, Cardinality, Dqueue!IsFiniteSet, IsFiniteSet

\* A sequence without repetitions has as many entries as elements.
LEMMA CountElements ==
    ASSUME NEW s \in Seq(Frames), OneToOne(s)
    PROVE  /\ Cardinality(Elements(s)) = Len(s) /\ Elements(s) \subseteq Frames
           /\ Len(s) <= Cardinality(Frames) /\ Cardinality(Frames) \in Nat
<1> DEFINE n == Len(s)
<1>1. n \in Nat /\ s \in [1..n -> Frames] /\ \A i \in 1..n : s[i] \in Frames
  BY SeqIs
<1>2. Elements(s) \subseteq Frames /\ s \in [1..n -> Elements(s)]
  BY <1>1 DEF Elements
<1>3. IsFiniteSet(1..n) /\ Cardinality(1..n) = n
  <2>1. 1 \in Int /\ n \in Int /\ (1 > n <=> n = 0) /\ n - 1 + 1 = n
    BY <1>1
  <2> QED BY <2>1, FS_Interval
<1>4. \A i, j \in 1..n : s[i] = s[j] => i = j
  BY DEF OneToOne
<1> HIDE DEF n
<1>5. s \in Bijection(1..n, Elements(s))
  <2>1. s \in Injection(1..n, Elements(s))
    BY <1>2, <1>4 DEF Injection, IsInjective
  <2>2. s \in Surjection(1..n, Elements(s))
    BY <1>2 DEF Surjection, Elements, n
  <2> QED BY <2>1, <2>2 DEF Bijection
<1>6. IsFiniteSet(Elements(s)) /\ Cardinality(Elements(s)) = n
  <2>1. ExistsBijection(1..n, Elements(s))
    BY <1>5 DEF ExistsBijection
  <2> QED BY <1>3, <2>1, FS_Bijection
<1>7. Cardinality(Elements(s)) <= Cardinality(Frames) /\ Cardinality(Frames) \in Nat
  <2>1. IsFiniteSet(Frames) /\ Elements(s) \in SUBSET Frames
    BY <1>2, Sizes
  <2> QED BY <2>1, FS_Subset, FS_CardinalityType
<1> QED BY <1>2, <1>6, <1>7 DEF n

\* The loop over the links visits the frames of s in their order.
LEMMA ContentsIs ==
    ASSUME NEW q, NEW s, Strung(q, s)
    PROVE  Dqueue!Contents(q) = s
<1> DEFINE n == Len(s)
           N == Cardinality(Frames)
           W == [i \in 0..N |-> IF i < n THEN s[i + 1] ELSE NULL]
           g == Dqueue!Walk(q)
<1>1. /\ s \in Seq(Frames) /\ n \in Nat /\ \A i \in 1..n : s[i] \in Frames /\ s[i] # NULL
  BY SeqIs DEF Strung
<1>2. n <= N /\ N \in Nat
  BY CountElements DEF Strung
<1>3. /\ q.front = IF n = 0 THEN NULL ELSE s[1]
      /\ \A i \in 1..n : q.next[s[i]] = IF i = n THEN NULL ELSE s[i + 1]
  BY DEF Strung
<1> HIDE DEF n, N
<1>4. W = [i \in 0..N |-> IF i = 0 THEN q.front
                          ELSE IF W[i - 1] = NULL THEN NULL ELSE q.next[W[i - 1]]]
  <2> SUFFICES ASSUME NEW i \in 0..N
               PROVE  W[i] = IF i = 0 THEN q.front
                             ELSE IF W[i - 1] = NULL THEN NULL ELSE q.next[W[i - 1]]
    OBVIOUS
  <2>1. CASE i = 0
    BY <1>1, <1>2, <1>3, <2>1
  <2>2. CASE i # 0
    <3>1. i - 1 \in 0..N /\ (i - 1) + 1 = i
      BY <1>2, <2>2
    <3>2. W[i - 1] = IF i - 1 < n THEN s[i] ELSE NULL
      BY <3>1
    <3>3. CASE i - 1 < n
      <4>1. i \in 1..n
        BY <1>1, <2>2, <3>3
      <4>2. W[i - 1] = s[i] /\ s[i] # NULL
        BY <1>1, <3>2, <3>3, <4>1
      <4>3. q.next[s[i]] = IF i = n THEN NULL ELSE s[i + 1]
        BY <1>3, <4>1
      <4>4. W[i] = q.next[s[i]]
        BY <1>1, <4>1, <4>3
      <4> HIDE DEF W
      <4> QED BY <2>2, <4>2, <4>4
    <3>4. CASE ~(i - 1 < n)
      <4>1. ~(i < n)
        BY <1>1, <3>4
      <4>2. W[i] = NULL /\ W[i - 1] = NULL
        BY <3>2, <3>4, <4>1
      <4> HIDE DEF W
      <4> QED BY <2>2, <4>2
    <3> QED BY <3>3, <3>4
  <2> QED BY <2>1, <2>2
<1>5. g = [i \in 0..N |-> IF i = 0 THEN q.front
                          ELSE IF g[i - 1] = NULL THEN NULL ELSE q.next[g[i - 1]]]
  <2> HIDE DEF W
  <2>1. Dqueue!Cardinality(Frames) = N
    BY SameCardinality DEF N
  <2> QED BY <1>4, <2>1, Zenon DEF Dqueue!Walk
<1> HIDE DEF g
<1>6. \A i \in 0..N : g[i] = W[i]
  <2> DEFINE S == {i \in 0..N : g[i] = W[i]}
  <2>1. 0 \in S
    <3>1. 0 \in 0..N
      BY <1>2
    <3>2. g[0] = q.front
      BY <1>5, <3>1
    <3> HIDE DEF W
    <3>3. W[0] = q.front
      BY <1>4, <3>1
    <3> QED BY <3>1, <3>2, <3>3
  <2>2. ASSUME NEW i \in 0..N - 1, i \in S PROVE i + 1 \in S
    <3>1. i + 1 \in 0..N /\ i + 1 # 0 /\ (i + 1) - 1 = i
      BY <1>2
    <3>2. g[i + 1] = IF g[i] = NULL THEN NULL ELSE q.next[g[i]]
      BY <1>5, <3>1
    <3> HIDE DEF W
    <3>3. W[i + 1] = IF W[i] = NULL THEN NULL ELSE q.next[W[i]]
      BY <1>4, <3>1
    <3> QED BY <2>2, <3>1, <3>2, <3>3
  <2> HIDE DEF S
  <2>3. \A i \in 0..N : i \in S
    BY <1>2, <2>1, <2>2, Reaches
  <2> QED BY <2>3 DEF S
<1>7. {i \in 0..N : g[i] # NULL} = 0..n - 1
  <2>1. \A i \in 0..N : g[i] # NULL <=> i < n
    <3> SUFFICES ASSUME NEW i \in 0..N PROVE g[i] # NULL <=> i < n
      OBVIOUS
    <3>1. g[i] = IF i < n THEN s[i + 1] ELSE NULL
      BY <1>6
    <3>2. i < n => i + 1 \in 1..n
      BY <1>1
    <3> QED BY <1>1, <3>1, <3>2
  <2>2. \A i : i \in 0..n - 1 <=> i \in 0..N /\ i < n
    BY <1>1, <1>2
  <2> QED BY <2>1, <2>2
<1>8. Dqueue!Size(q) = n
  <2>1. Dqueue!Size(q) = Cardinality({i \in 0..N : g[i] # NULL})
    BY SameCardinality, Zenon DEF Dqueue!Size, g, N
  <2>2. Cardinality(0..n - 1) = n
    <3>1. 0 \in Int /\ n - 1 \in Int /\ (0 > n - 1 <=> n = 0) /\ (n - 1) - 0 + 1 = n
      BY <1>1
    <3> QED BY <3>1, FS_Interval
  <2> QED BY <1>7, <2>1, <2>2
<1>9. Dqueue!Contents(q) = [i \in 1..n |-> g[i - 1]]
  BY <1>8 DEF Dqueue!Contents, g
<1>10. \A i \in 1..n : g[i - 1] = s[i]
  <2> TAKE i \in 1..n
  <2>1. i - 1 \in 0..N /\ i - 1 < n /\ (i - 1) + 1 = i
    BY <1>1, <1>2
  <2> QED BY <1>6, <2>1
<1>11. s = [i \in 1..n |-> s[i]]
  BY <1>1 DEF n
<1> QED BY <1>9, <1>10, <1>11

\* The one frame of a sequence taken out.
LEMMA RemoveOnly ==
    ASSUME NEW f \in Frames
    PROVE  RemoveAt(<<f>>, CHOOSE i \in DOMAIN <<f>> : <<f>>[i] = f) = << >>
<1> DEFINE k == CHOOSE i \in DOMAIN <<f>> : <<f>>[i] = f
<1>1. k = 1
  <2>1. \E i \in DOMAIN <<f>> : <<f>>[i] = f
    BY Sizes
  <2>2. k \in DOMAIN <<f>>
    BY <2>1
  <2> QED BY <2>2
<1> HIDE DEF k
<1>2. SubSeq(<<f>>, 1, 0) = << >> /\ SubSeq(<<f>>, 2, 1) = << >>
  OBVIOUS
<1>3. Len(<<f>>) = 1 /\ k - 1 = 0 /\ k + 1 = 2
  BY <1>1
<1>4. RemoveAt(<<f>>, k) = << >> \o << >>
  BY <1>2, <1>3 DEF RemoveAt
<1> QED BY <1>4 DEF k
-----------------------------------------------------------------------------
(* Pages and records *)

Content == [Slots -> Versions \cup {NULL}]

\* The page of an id and the place in it.
LEMMA PageIs ==
    ASSUME NEW id \in Nat
    PROVE  /\ GetPageID(id) \in Nat /\ GetPageRecord(id) \in Slots
           /\ id = PageRecords * GetPageID(id) + GetPageRecord(id)
           /\ PageRecords * GetPageID(id) <= id
<1> DEFINE R == PageRecords
           a == id \div R
           b == id % R
<1>1. R \in Nat /\ R > 0
  BY Sizes
<1>2. a \in Nat /\ b \in Nat /\ b < R /\ id = R * a + b
  BY <1>1
<1>3. R * a \in Nat
  BY <1>1, <1>2
<1> HIDE DEF a, b
<1>4. b \in 0..R - 1 /\ R * a <= id
  BY <1>1, <1>2, <1>3
<1> QED BY <1>2, <1>4 DEF GetPageID, GetPageRecord, Slots, a, b

\* A record is where its page and its place in the page say.
LEMMA PlaceIs ==
    ASSUME NEW p \in Nat, NEW s \in Slots
    PROVE  GetPageID(PageRecords * p + s) = p /\ GetPageRecord(PageRecords * p + s) = s
<1> DEFINE R == PageRecords
           i == R * p + s
           a == GetPageID(i)
           b == GetPageRecord(i)
<1>1. R \in Nat /\ R > 0 /\ s \in Nat /\ s < R
  BY Sizes DEF Slots
<1>2. R * p \in Nat /\ i \in Nat
  BY <1>1
<1>3. a \in Nat /\ b \in Slots /\ i = R * a + b
  BY <1>2, PageIs
<1>4. b \in Nat /\ b < R
  BY <1>1, <1>3 DEF Slots
<1> HIDE DEF R, a, b
<1>5. R * p + s = R * a + b
  BY <1>3
<1> HIDE DEF i
<1>6. ~(p < a)
  <2> SUFFICES ASSUME p < a PROVE FALSE
    OBVIOUS
  <2>1. PICK k \in Nat : a = p + 1 + k
    <3>1. a - p - 1 \in Nat /\ a = p + 1 + (a - p - 1)
      BY <1>3
    <3> QED BY <3>1
  <2>2. R * a = R * p + R + R * k /\ R * k \in Nat /\ R * a \in Nat
    BY <1>1, <2>1
  <2> QED BY <1>1, <1>2, <1>4, <1>5, <2>2
<1>7. ~(a < p)
  <2> SUFFICES ASSUME a < p PROVE FALSE
    OBVIOUS
  <2>1. PICK k \in Nat : p = a + 1 + k
    <3>1. p - a - 1 \in Nat /\ p = a + 1 + (p - a - 1)
      BY <1>3
    <3> QED BY <3>1
  <2>2. R * p = R * a + R + R * k /\ R * k \in Nat /\ R * a \in Nat
    BY <1>1, <1>3, <2>1
  <2> QED BY <1>1, <1>2, <1>4, <1>5, <2>2
<1>8. a = p
  BY <1>3, <1>6, <1>7
<1>9. b = s
  BY <1>1, <1>2, <1>4, <1>5, <1>8
<1> QED BY <1>8, <1>9 DEF R, a, b, i

\* A smaller id is not on a later page.
LEMMA LowerPage ==
    ASSUME NEW i \in Nat, NEW j \in Nat, i <= j
    PROVE  GetPageID(i) <= GetPageID(j)
<1> DEFINE R == PageRecords
           a == GetPageID(i)
           b == GetPageID(j)
<1>1. R \in Nat /\ R > 0
  BY Sizes
<1>2. a \in Nat /\ b \in Nat /\ R * a <= i
  BY PageIs
<1>3. j < R * b + R
  <2>1. GetPageRecord(j) \in Nat /\ GetPageRecord(j) < R /\ j = R * b + GetPageRecord(j)
    BY <1>1, PageIs DEF Slots
  <2>2. R * b \in Nat
    BY <1>1, <1>2
  <2> QED BY <1>1, <2>1, <2>2
<1> HIDE DEF R, a, b
<1>4. ~(b < a)
  <2> SUFFICES ASSUME b < a PROVE FALSE
    OBVIOUS
  <2>1. PICK k \in Nat : a = b + 1 + k
    <3>1. a - b - 1 \in Nat /\ a = b + 1 + (a - b - 1)
      BY <1>2
    <3> QED BY <3>1
  <2>2. R * a = R * b + R + R * k /\ R * k \in Nat /\ R * b \in Nat /\ R * a \in Nat
    BY <1>1, <1>2, <2>1
  <2> QED BY <1>1, <1>2, <1>3, <2>2
<1>5. a <= b
  BY <1>2, <1>4
<1> QED BY <1>5 DEF a, b

\* The first record of a page that is not the first page.
LEMMA FirstOfPage ==
    ASSUME NEW id \in IDs, GetPageID(id) # 0
    PROVE  /\ PageRecords * GetPageID(id) \in IDs /\ PageRecords * GetPageID(id) <= id
           /\ GetPageID(PageRecords * GetPageID(id)) = GetPageID(id)
           /\ GetPageRecord(PageRecords * GetPageID(id)) = 0
           /\ GetPageRecord(id) = 0 <=> PageRecords * GetPageID(id) = id
<1> DEFINE R == PageRecords
           p == GetPageID(id)
           i == R * p
<1>1. R \in Nat /\ R > 0 /\ MaxID \in Nat /\ id \in Nat /\ id <= MaxID
  BY Sizes DEF IDs
<1>2. p \in Nat /\ p # 0 /\ i <= id /\ id = i + GetPageRecord(id) /\ GetPageRecord(id) \in Slots
  BY <1>1, PageIs
<1>3. i \in Nat /\ i > 0
  <2>1. PICK k \in Nat : p = k + 1
    <3>1. p - 1 \in Nat /\ p = (p - 1) + 1
      BY <1>2
    <3> QED BY <3>1
  <2>2. R * p = R * k + R /\ R * k \in Nat
    BY <1>1, <2>1
  <2> QED BY <1>1, <2>2
<1>4. 0 \in Slots /\ R * p + 0 = i
  BY <1>1, <1>3 DEF Slots
<1>5. GetPageID(i) = p /\ GetPageRecord(i) = 0
  BY <1>2, <1>4, PlaceIs
<1>6. i \in IDs
  BY <1>1, <1>2, <1>3 DEF IDs
<1>7. GetPageRecord(id) = 0 <=> i = id
  <2>1. GetPageRecord(id) \in Nat
    BY <1>2, Sizes DEF Slots
  <2> HIDE DEF i
  <2> QED BY <1>2, <1>3, <2>1
<1> QED BY <1>2, <1>5, <1>6, <1>7

\* Page ids and slots, and that two records never share a place.
LEMMA PagesAre ==
  /\ GetPageID(MaxID) \in Nat /\ PageIDs = 0..GetPageID(MaxID) /\ 0 \in PageIDs
  /\ PageIDs \subseteq Nat /\ NULL \notin PageIDs /\ NULL \notin Content /\ BlankPage \in Content
  /\ \A id \in IDs : id \in Nat /\ GetPageID(id) \in PageIDs /\ GetPageRecord(id) \in Slots
  /\ \A i, j \in IDs : GetPageID(i) = GetPageID(j) /\ GetPageRecord(i) = GetPageRecord(j) => i = j
  /\ 0 \in Slots
<1>1. GetPageID(MaxID) \in Nat
  BY Sizes, PageIs
<1>2. PageIDs = 0..GetPageID(MaxID) /\ 0 \in PageIDs /\ PageIDs \subseteq Nat /\ NULL \notin PageIDs
  BY <1>1, Sizes DEF PageIDs
<1>3. NULL \notin Content
  BY OrderTableAssumption DEF Content, Versions
<1>4. BlankPage \in Content
  BY DEF BlankPage, Content
<1>5. ASSUME NEW id \in IDs
      PROVE id \in Nat /\ GetPageID(id) \in PageIDs /\ GetPageRecord(id) \in Slots
  <2>1. id \in Nat /\ id <= MaxID /\ MaxID \in Nat
    BY Sizes DEF IDs
  <2>2. GetPageID(id) \in Nat /\ GetPageRecord(id) \in Slots
    BY <2>1, PageIs
  <2>3. GetPageID(id) <= GetPageID(MaxID)
    BY <2>1, LowerPage
  <2> QED BY <1>1, <1>2, <2>1, <2>2, <2>3
<1>6. ASSUME NEW i \in IDs, NEW j \in IDs, GetPageID(i) = GetPageID(j), GetPageRecord(i) = GetPageRecord(j)
      PROVE i = j
  <2>1. i \in Nat /\ j \in Nat
    BY <1>5
  <2> QED BY <1>6, <2>1, PageIs
<1>7. 0 \in Slots
  BY Sizes DEF Slots
<1> QED BY <1>1, <1>2, <1>3, <1>4, <1>5, <1>6, <1>7
-----------------------------------------------------------------------------
(* The cache *)

FrameState == [id : PageIDs \cup {NULL}, dirty : BOOLEAN, isnew : BOOLEAN, content : Content]

CacheType == [queue : Dqueue!DqueueType, map : [PageIDs -> Seq(Frames)],
              frame : [Frames -> FrameState], num : Nat, limit : Nat]

\* The frames of E are the cached ones, those of H are held outside of the
\* containers, all others are free.
Cache(c, E, H) ==
  /\ c \in CacheType /\ E \subseteq Frames
  /\ \E s : Strung(c.queue, s) /\ Elements(s) = E /\ Len(s) = c.num
  /\ \A p \in PageIDs : c.map[p] = << >> \/ \E f \in E : c.map[p] = <<f>> /\ c.frame[f].id = p
  /\ \A f \in E : c.frame[f].id \in PageIDs /\ c.map[c.frame[f].id] = <<f>>
  /\ \A f \in Frames : f \notin E /\ f \notin H => c.frame[f].id = NULL /\ ~c.frame[f].dirty

\* A list of one frame is not empty.
LEMMA OneIsNotNone == \A f : <<f>> # << >>
<1> SUFFICES ASSUME NEW f, <<f>> = << >> PROVE FALSE
  OBVIOUS
<1>1. Len(<<f>>) = Len(<< >>)
  BY Zenon
<1> QED BY <1>1

\* A record with typed fields is a typed cache.
LEMMA CacheTyped ==
    ASSUME NEW c, c = [queue |-> c.queue, map |-> c.map, frame |-> c.frame, num |-> c.num, limit |-> c.limit],
           c.queue \in Dqueue!DqueueType, c.map \in [PageIDs -> Seq(Frames)],
           c.frame \in [Frames -> FrameState], c.num \in Nat, c.limit \in Nat
    PROVE  c \in CacheType
BY DEF CacheType

\* The fields of a typed cache.
LEMMA CacheFields ==
    ASSUME NEW c \in CacheType
    PROVE  /\ c = [queue |-> c.queue, map |-> c.map, frame |-> c.frame, num |-> c.num, limit |-> c.limit]
           /\ c.queue \in Dqueue!DqueueType /\ c.map \in [PageIDs -> Seq(Frames)]
           /\ c.frame \in [Frames -> FrameState] /\ c.num \in Nat /\ c.limit \in Nat
BY DEF CacheType

\* The fields of a typed frame.
LEMMA FrameFields ==
    ASSUME NEW x \in FrameState
    PROVE  /\ x = [id |-> x.id, dirty |-> x.dirty, isnew |-> x.isnew, content |-> x.content]
           /\ x.id \in PageIDs \cup {NULL} /\ x.dirty \in BOOLEAN /\ x.isnew \in BOOLEAN
           /\ x.content \in Content
BY DEF FrameState

\* A free frame has no page and is clean.
LEMMA FreeFrameIs ==
  FreeFrame \in FrameState /\ FreeFrame.id = NULL /\ ~FreeFrame.dirty
BY PagesAre DEF FreeFrame, FrameState

\* FindPage returns the one frame that holds the page.
LEMMA FindIs ==
    ASSUME NEW c, NEW E, NEW H, Cache(c, E, H), NEW p \in PageIDs
    PROVE  /\ FindPage(c, p) = NULL <=> c.map[p] = << >>
           /\ FindPage(c, p) # NULL =>
                /\ FindPage(c, p) \in E /\ FindPage(c, p) \in Frames /\ c.frame[FindPage(c, p)].id = p
                /\ c.map[p] = <<FindPage(c, p)>>
           /\ \A f \in E : c.frame[f].id = p <=> FindPage(c, p) = f
<1>1. c.map[p] = << >> \/ \E f \in E : c.map[p] = <<f>> /\ c.frame[f].id = p
  BY DEF Cache
<1>2. E \subseteq Frames /\ NULL \notin Frames /\ \A f \in E : c.map[c.frame[f].id] = <<f>>
  BY Sizes DEF Cache
<1>3. CASE c.map[p] = << >>
  <2>1. \A f \in E : c.frame[f].id # p
    <3> SUFFICES ASSUME NEW f \in E, c.frame[f].id = p PROVE FALSE
      OBVIOUS
    <3>1. c.map[p] = <<f>>
      BY <1>2
    <3> QED BY <1>3, <3>1, OneIsNotNone
  <2>2. FindPage(c, p) = NULL
    BY <1>3 DEF FindPage
  <2> QED BY <1>2, <1>3, <2>1, <2>2
<1>4. ASSUME NEW f \in E, c.map[p] = <<f>>, c.frame[f].id = p
      PROVE  /\ FindPage(c, p) = f /\ f # NULL /\ f \in Frames /\ c.map[p] # << >>
             /\ \A g \in E : c.frame[g].id = p <=> g = f
  <2>1. FindPage(c, p) = f /\ c.map[p] # << >>
    BY <1>4 DEF FindPage
  <2>2. \A g \in E : c.frame[g].id = p => g = f
    <3> SUFFICES ASSUME NEW g \in E, c.frame[g].id = p PROVE g = f
      OBVIOUS
    <3>1. <<g>> = <<f>>
      BY <1>2, <1>4
    <3> QED BY <3>1
  <2> QED BY <1>2, <1>4, <2>1, <2>2
<1> QED BY <1>1, <1>3, <1>4

\* Several fields of a cache changed at once.
LEMMA ChangedFields ==
    ASSUME NEW c, c = [queue |-> c.queue, map |-> c.map, frame |-> c.frame, num |-> c.num, limit |-> c.limit],
           NEW q, NEW m, NEW g, NEW n
    PROVE  /\ [c EXCEPT !.queue = q, !.map = m, !.frame = g, !.num = n]
                = [queue |-> q, map |-> m, frame |-> g, num |-> n, limit |-> c.limit]
           /\ [c EXCEPT !.queue = q, !.map = m, !.num = n]
                = [queue |-> q, map |-> m, frame |-> c.frame, num |-> n, limit |-> c.limit]
<1> DEFINE D == {"queue", "map", "frame", "num", "limit"}
           d == [c EXCEPT !.queue = q, !.map = m, !.frame = g, !.num = n]
           e == [c EXCEPT !.queue = q, !.map = m, !.num = n]
<1>1. DOMAIN c = D
  OBVIOUS
<1>2. d = [queue |-> q, map |-> m, frame |-> g, num |-> n, limit |-> c.limit]
  <2>1. d.queue = q /\ d.map = m /\ d.frame = g /\ d.num = n /\ d.limit = c.limit
    BY <1>1
  <2>2. d = [i \in D |-> d[i]]
    BY <1>1
  <2> HIDE DEF d
  <2> QED BY <2>1, <2>2
<1>3. e = [queue |-> q, map |-> m, frame |-> c.frame, num |-> n, limit |-> c.limit]
  <2>1. e.queue = q /\ e.map = m /\ e.frame = c.frame /\ e.num = n /\ e.limit = c.limit
    BY <1>1
  <2>2. e = [i \in D |-> e[i]]
    BY <1>1
  <2> HIDE DEF e
  <2> QED BY <2>1, <2>2
<1> QED BY <1>2, <1>3

\* What Detach of f changes: only the page of f is found no more.
Detached(c, d, f) ==
  /\ d.frame = c.frame /\ d.limit = c.limit
  /\ \A r \in PageIDs : d.map[r] = IF r = c.frame[f].id THEN << >> ELSE c.map[r]

\* Detach: the frame is held.
LEMMA DetachCache ==
    ASSUME NEW c, NEW E, NEW H, Cache(c, E, H), NEW f \in E
    PROVE  Cache(Detach(c, f), E \ {f}, H \cup {f}) /\ Detached(c, Detach(c, f), f)
<1> DEFINE d == Detach(c, f)
           p == c.frame[f].id
<1>1. /\ c = [queue |-> c.queue, map |-> c.map, frame |-> c.frame, num |-> c.num, limit |-> c.limit]
      /\ c.queue \in Dqueue!DqueueType /\ c.map \in [PageIDs -> Seq(Frames)]
      /\ c.frame \in [Frames -> FrameState] /\ c.num \in Nat /\ c.limit \in Nat
  BY CacheFields DEF Cache
<1>2. f \in Frames /\ p \in PageIDs /\ c.map[p] = <<f>> /\ E \subseteq Frames
  BY DEF Cache
<1>3. PICK s : Strung(c.queue, s) /\ Elements(s) = E /\ Len(s) = c.num
  BY DEF Cache
<1>4. PICK k \in 1..Len(s) : s[k] = f
  BY <1>3 DEF Elements
<1>5. /\ d.queue = Dqueue!Erase(c.queue, f)
      /\ d.map = [c.map EXCEPT ![p] = RemoveAt(c.map[p], CHOOSE i \in DOMAIN c.map[p] : c.map[p][i] = f)]
      /\ d.frame = c.frame /\ d.num = c.num - 1 /\ d.limit = c.limit
      /\ d = [queue |-> d.queue, map |-> d.map, frame |-> d.frame, num |-> d.num, limit |-> d.limit]
  <2> DEFINE m == [c.map EXCEPT ![p] = RemoveAt(c.map[p], CHOOSE i \in DOMAIN c.map[p] : c.map[p][i] = f)]
             q == Dqueue!Erase(c.queue, f)
  <2>1. d = [c EXCEPT !.queue = q, !.map = m, !.num = c.num - 1]
    BY Zenon DEF Detach
  <2> HIDE DEF m, q, d
  <2>2. c = [queue |-> c.queue, map |-> c.map, frame |-> c.frame, num |-> c.num, limit |-> c.limit]
    BY <1>1
  <2>3. d = [queue |-> q, map |-> m, frame |-> c.frame, num |-> c.num - 1, limit |-> c.limit]
    BY <2>1, <2>2, ChangedFields
  <2>4. d.queue = q /\ d.map = m /\ d.frame = c.frame /\ d.num = c.num - 1 /\ d.limit = c.limit
    BY <2>3
  <2> QED BY <2>3, <2>4 DEF m, q
<1>6. RemoveAt(c.map[p], CHOOSE i \in DOMAIN c.map[p] : c.map[p][i] = f) = << >>
  BY <1>2, RemoveOnly
<1> HIDE DEF d
<1>7. d.map = [c.map EXCEPT ![p] = << >>]
  BY <1>5, <1>6
<1>8. Strung(d.queue, Without(s, k))
  BY SMTT(30), <1>3, <1>4, <1>5, EraseStrung
<1>9. Elements(Without(s, k)) = E \ {f} /\ Len(Without(s, k)) = c.num - 1 /\ c.num - 1 \in Nat
  <2>1. s \in Seq(Frames) /\ OneToOne(s)
    BY <1>3 DEF Strung
  <2>2. Elements(Without(s, k)) = Elements(s) \ {s[k]} /\ Len(Without(s, k)) = Len(s) - 1
    BY <2>1, WithoutIs
  <2> QED BY <1>1, <1>3, <1>4, <2>2
<1>10. d \in CacheType
  <2>1. d.queue \in Dqueue!DqueueType
    BY <1>8 DEF Strung
  <2>2. d.map \in [PageIDs -> Seq(Frames)]
    <3>1. << >> \in Seq(Frames)
      OBVIOUS
    <3> QED BY <1>1, <1>7, <3>1
  <2> QED BY <1>1, <1>5, <1>9, <2>1, <2>2, CacheTyped
<1>11. \A r \in PageIDs : d.map[r] = IF r = p THEN << >> ELSE c.map[r]
  BY <1>1, <1>7
<1>12. ASSUME NEW r \in PageIDs
       PROVE d.map[r] = << >> \/ \E g \in E \ {f} : d.map[r] = <<g>> /\ d.frame[g].id = r
  <2>1. CASE r = p
    BY <1>11, <2>1
  <2>2. CASE r # p
    <3>1. c.map[r] = << >> \/ \E g \in E : c.map[r] = <<g>> /\ c.frame[g].id = r
      BY DEF Cache
    <3>2. d.map[r] = c.map[r]
      BY <1>11, <2>2
    <3> QED BY <1>5, <2>2, <3>1, <3>2
  <2> QED BY <2>1, <2>2
<1>13. ASSUME NEW g \in E \ {f}
       PROVE d.frame[g].id \in PageIDs /\ d.map[d.frame[g].id] = <<g>>
  <2>1. c.frame[g].id \in PageIDs /\ c.map[c.frame[g].id] = <<g>>
    BY DEF Cache
  <2>2. c.frame[g].id # p
    BY <1>2, <2>1
  <2> QED BY <1>5, <1>11, <2>1, <2>2
<1>14. \A g \in Frames : g \notin E \ {f} /\ g \notin H \cup {f} => d.frame[g].id = NULL /\ ~d.frame[g].dirty
  BY <1>5 DEF Cache
<1>15. Cache(d, E \ {f}, H \cup {f})
  <2>1. \E z : Strung(d.queue, z) /\ Elements(z) = E \ {f} /\ Len(z) = d.num
    BY <1>5, <1>8, <1>9
  <2> QED BY <1>2, <1>10, <1>12, <1>13, <1>14, <2>1 DEF Cache
<1>16. Detached(c, d, f)
  BY <1>5, <1>11 DEF Detached
<1> QED BY <1>15, <1>16 DEF d

\* A frame outside of the containers is changed, or freed.
Hold(c, f, x) == [c EXCEPT !.frame[f] = x]

Holds(d, c, f, x) ==
  /\ d.frame = [c.frame EXCEPT ![f] = x]
  /\ d.map = c.map /\ d.num = c.num /\ d.limit = c.limit /\ d.queue = c.queue
  /\ d = [queue |-> d.queue, map |-> d.map, frame |-> d.frame, num |-> d.num, limit |-> d.limit]
  /\ \A g \in Frames : d.frame[g] = IF g = f THEN x ELSE c.frame[g]

\* The fields of a cache in which one frame was overwritten.
LEMMA HoldFields ==
    ASSUME NEW c \in CacheType, NEW f \in Frames, NEW x \in FrameState, NEW d, d = Hold(c, f, x)
    PROVE  Holds(d, c, f, x)
<1>1. /\ c = [queue |-> c.queue, map |-> c.map, frame |-> c.frame, num |-> c.num, limit |-> c.limit]
      /\ c.queue \in Dqueue!DqueueType /\ c.map \in [PageIDs -> Seq(Frames)]
      /\ c.frame \in [Frames -> FrameState] /\ c.num \in Nat /\ c.limit \in Nat
  BY CacheFields
<1>2. /\ d.frame = [c.frame EXCEPT ![f] = x] /\ d.map = c.map /\ d.num = c.num /\ d.queue = c.queue
      /\ d.limit = c.limit
      /\ d = [queue |-> d.queue, map |-> d.map, frame |-> d.frame, num |-> d.num, limit |-> d.limit]
  <2>1. c = [queue |-> c.queue, map |-> c.map, frame |-> c.frame, num |-> c.num, limit |-> c.limit]
    BY <1>1
  <2>2. d = [queue |-> c.queue, map |-> c.map, frame |-> [c.frame EXCEPT ![f] = x], num |-> c.num, limit |-> c.limit]
    BY <2>1 DEF Hold
  <2> QED BY ONLY <2>2
<1> QED BY <1>1, <1>2 DEF Holds

\* Overwriting a frame outside of the containers keeps the cache.
LEMMA HoldCache ==
    ASSUME NEW c, NEW E, NEW H, Cache(c, E, H), NEW f \in Frames \ E, NEW x \in FrameState,
           NEW d, d = Hold(c, f, x)
    PROVE  /\ Cache(d, E, H \cup {f})
           /\ x = FreeFrame => Cache(d, E, H \ {f})
<1>1. /\ c = [queue |-> c.queue, map |-> c.map, frame |-> c.frame, num |-> c.num, limit |-> c.limit]
      /\ c.queue \in Dqueue!DqueueType /\ c.map \in [PageIDs -> Seq(Frames)]
      /\ c.frame \in [Frames -> FrameState] /\ c.num \in Nat /\ c.limit \in Nat
  BY CacheFields DEF Cache
<1>2. /\ d.frame = [c.frame EXCEPT ![f] = x] /\ d.map = c.map /\ d.num = c.num /\ d.queue = c.queue
      /\ d.limit = c.limit
      /\ d = [queue |-> d.queue, map |-> d.map, frame |-> d.frame, num |-> d.num, limit |-> d.limit]
  <2>1. c \in CacheType /\ f \in Frames
    BY DEF Cache
  <2>2. Holds(d, c, f, x)
    BY <2>1, HoldFields
  <2> QED BY <2>2 DEF Holds
<1>3. d \in CacheType
  BY <1>1, <1>2 DEF CacheType
<1>4. /\ \A g \in E : g \in Frames /\ d.frame[g] = c.frame[g]
      /\ \A g \in Frames : g # f => d.frame[g] = c.frame[g]
      /\ d.frame[f] = x
  BY <1>1, <1>2 DEF Cache
<1>5. /\ E \subseteq Frames
      /\ \E s : Strung(d.queue, s) /\ Elements(s) = E /\ Len(s) = d.num
      /\ \A p \in PageIDs : d.map[p] = << >> \/ \E g \in E : d.map[p] = <<g>> /\ d.frame[g].id = p
      /\ \A g \in E : d.frame[g].id \in PageIDs /\ d.map[d.frame[g].id] = <<g>>
  <2>1. \E s : Strung(d.queue, s) /\ Elements(s) = E /\ Len(s) = d.num
    BY <1>2 DEF Cache
  <2>2. \A p \in PageIDs : c.map[p] = << >> \/ \E g \in E : c.map[p] = <<g>> /\ c.frame[g].id = p
    BY DEF Cache
  <2>3. \A p \in PageIDs : d.map[p] = << >> \/ \E g \in E : d.map[p] = <<g>> /\ d.frame[g].id = p
    <3> TAKE p \in PageIDs
    <3>1. d.map[p] = c.map[p]
      BY <1>2
    <3>2. c.map[p] = << >> \/ \E g \in E : c.map[p] = <<g>> /\ c.frame[g].id = p
      BY <2>2
    <3> QED BY <1>4, <3>1, <3>2
  <2>4. \A g \in E : c.frame[g].id \in PageIDs /\ c.map[c.frame[g].id] = <<g>>
    BY DEF Cache
  <2>5. \A g \in E : d.frame[g].id \in PageIDs /\ d.map[d.frame[g].id] = <<g>>
    BY <1>2, <1>4, <2>4
  <2>6. E \subseteq Frames
    BY DEF Cache
  <2> QED BY <2>1, <2>3, <2>5, <2>6
<1>6. \A g \in Frames : g \notin E /\ g \notin H => c.frame[g].id = NULL /\ ~c.frame[g].dirty
  BY DEF Cache
<1>7. \A g \in Frames : g \notin E /\ g \notin H \cup {f} => d.frame[g].id = NULL /\ ~d.frame[g].dirty
  BY <1>4, <1>6
<1>8. ASSUME x = FreeFrame
      PROVE \A g \in Frames : g \notin E /\ g \notin H \ {f} => d.frame[g].id = NULL /\ ~d.frame[g].dirty
  <2> SUFFICES ASSUME NEW g \in Frames, g \notin E, g \notin H \ {f}
               PROVE d.frame[g].id = NULL /\ ~d.frame[g].dirty
    OBVIOUS
  <2>1. CASE g = f
    BY <1>4, <1>8, <2>1, FreeFrameIs
  <2>2. CASE g # f
    BY <1>4, <1>6, <2>2
  <2> QED BY <2>1, <2>2
<1>9. Cache(d, E, H \cup {f})
  BY <1>3, <1>5, <1>7 DEF Cache
<1>10. x = FreeFrame => Cache(d, E, H \ {f})
  BY <1>3, <1>5, <1>8 DEF Cache
<1> QED BY <1>9, <1>10

\* The limit says nothing about what is cached.
LEMMA EnlargeCache ==
    ASSUME NEW c, NEW E, NEW H, Cache(c, E, H)
    PROVE  /\ Cache(Enlarge(c), E, H) /\ Enlarge(c).frame = c.frame /\ Enlarge(c).map = c.map
<1> DEFINE d == Enlarge(c)
<1>1. /\ c = [queue |-> c.queue, map |-> c.map, frame |-> c.frame, num |-> c.num, limit |-> c.limit]
      /\ c.queue \in Dqueue!DqueueType /\ c.map \in [PageIDs -> Seq(Frames)]
      /\ c.frame \in [Frames -> FrameState] /\ c.num \in Nat /\ c.limit \in Nat
  BY CacheFields DEF Cache
<1>2. /\ d.frame = c.frame /\ d.map = c.map /\ d.num = c.num /\ d.queue = c.queue
      /\ d.limit = c.limit + StepEnlarge
      /\ d = [queue |-> d.queue, map |-> d.map, frame |-> d.frame, num |-> d.num, limit |-> d.limit]
  BY <1>1 DEF Enlarge
<1> HIDE DEF d
<1>3. d \in CacheType
  BY <1>1, <1>2, Sizes DEF CacheType
<1>4. Cache(d, E, H)
  BY <1>2, <1>3 DEF Cache
<1> QED BY <1>2, <1>4 DEF d

\* Attach: a frame outside of the containers goes behind the queue.
Attached(d, c, f, p) ==
  /\ d.queue = Dqueue!PushBack(c.queue, f) /\ d.map = [c.map EXCEPT ![p] = <<f>>]
  /\ d.num = c.num + 1 /\ d.limit = c.limit
  /\ d = [queue |-> d.queue, map |-> d.map, frame |-> d.frame, num |-> d.num, limit |-> d.limit]
  /\ \A g \in Frames : g # f => d.frame[g] = c.frame[g]
  /\ d.frame[f].id = p /\ d.frame[f] \in FrameState /\ d.frame[f].dirty = c.frame[f].dirty
  /\ d.frame[f].isnew = c.frame[f].isnew /\ d.frame[f].content = c.frame[f].content
  /\ d.frame \in [Frames -> FrameState]
  /\ \A r \in PageIDs : d.map[r] = IF r = p THEN <<f>> ELSE c.map[r]

\* The fields of a cache after Attach.
LEMMA AttachFields ==
    ASSUME NEW c \in CacheType, NEW f \in Frames, NEW p \in PageIDs, c.map[p] = << >>,
           NEW d, d = Attach(c, f, p)
    PROVE  Attached(d, c, f, p)
<1>1. /\ c = [queue |-> c.queue, map |-> c.map, frame |-> c.frame, num |-> c.num, limit |-> c.limit]
      /\ c.queue \in Dqueue!DqueueType /\ c.map \in [PageIDs -> Seq(Frames)]
      /\ c.frame \in [Frames -> FrameState] /\ c.num \in Nat /\ c.limit \in Nat
  BY CacheFields
<1>3. /\ d.queue = Dqueue!PushBack(c.queue, f) /\ d.map = [c.map EXCEPT ![p] = <<f>> \o c.map[p]]
      /\ d.frame = [c.frame EXCEPT ![f].id = p] /\ d.num = c.num + 1 /\ d.limit = c.limit
      /\ d = [queue |-> d.queue, map |-> d.map, frame |-> d.frame, num |-> d.num, limit |-> d.limit]
  <2> DEFINE m == [c.map EXCEPT ![p] = <<f>> \o c.map[p]]
             q == Dqueue!PushBack(c.queue, f)
             g == [c.frame EXCEPT ![f].id = p]
  <2>1. d = [c EXCEPT !.queue = q, !.map = m, !.frame = g, !.num = c.num + 1]
    BY DEF Attach
  <2> HIDE DEF m, q, g
  <2>2. c = [queue |-> c.queue, map |-> c.map, frame |-> c.frame, num |-> c.num, limit |-> c.limit]
    BY <1>1
  <2>3. d = [queue |-> q, map |-> m, frame |-> g, num |-> c.num + 1, limit |-> c.limit]
    BY <2>1, <2>2, ChangedFields
  <2>4. d.queue = q /\ d.map = m /\ d.frame = g /\ d.num = c.num + 1 /\ d.limit = c.limit
    BY <2>3
  <2> QED BY <2>3, <2>4 DEF m, q, g
<1>4. d.map = [c.map EXCEPT ![p] = <<f>>]
  <2>1. <<f>> \o << >> = <<f>>
    OBVIOUS
  <2> QED BY <1>3, <2>1
<1>5. /\ \A g \in Frames : g # f => d.frame[g] = c.frame[g]
      /\ d.frame[f].id = p /\ d.frame[f] \in FrameState /\ d.frame[f].dirty = c.frame[f].dirty
      /\ d.frame[f].isnew = c.frame[f].isnew /\ d.frame[f].content = c.frame[f].content
  <2>1. c.frame[f] \in FrameState
    BY <1>1
  <2>2. d.frame[f] = [c.frame[f] EXCEPT !.id = p] /\ \A g \in Frames : g # f => d.frame[g] = c.frame[g]
    BY <1>1, <1>3
  <2>3. d.frame[f].id = p /\ d.frame[f] \in FrameState
    BY <2>1, <2>2, FrameFields DEF FrameState
  <2>4. d.frame[f].dirty = c.frame[f].dirty
    BY <2>1, <2>2, FrameFields, Zenon DEF FrameState
  <2>5. d.frame[f].isnew = c.frame[f].isnew
    BY <2>1, <2>2, FrameFields, Zenon DEF FrameState
  <2>6. d.frame[f].content = c.frame[f].content
    BY <2>1, <2>2, FrameFields DEF FrameState
  <2> QED BY <2>2, <2>3, <2>4, <2>5, <2>6
<1>8. d.frame \in [Frames -> FrameState]
  BY <1>1, <1>3, <1>5
<1>9. \A r \in PageIDs : d.map[r] = IF r = p THEN <<f>> ELSE c.map[r]
  BY <1>1, <1>4
<1> QED BY <1>3, <1>4, <1>5, <1>8, <1>9 DEF Attached

\* Attach takes a held frame into the containers.
LEMMA AttachCache ==
    ASSUME NEW c, NEW E, NEW H, Cache(c, E, H), NEW f \in Frames \ E, NEW p \in PageIDs, c.map[p] = << >>,
           NEW d, d = Attach(c, f, p)
    PROVE  Cache(d, E \cup {f}, H \ {f})
<1>1. /\ c = [queue |-> c.queue, map |-> c.map, frame |-> c.frame, num |-> c.num, limit |-> c.limit]
      /\ c.queue \in Dqueue!DqueueType /\ c.map \in [PageIDs -> Seq(Frames)]
      /\ c.frame \in [Frames -> FrameState] /\ c.num \in Nat /\ c.limit \in Nat
  BY CacheFields DEF Cache
<1>2. PICK s : Strung(c.queue, s) /\ Elements(s) = E /\ Len(s) = c.num
  BY DEF Cache
<1>3. /\ d.queue = Dqueue!PushBack(c.queue, f) /\ d.map = [c.map EXCEPT ![p] = <<f>>]
      /\ d.num = c.num + 1 /\ d.limit = c.limit
      /\ d = [queue |-> d.queue, map |-> d.map, frame |-> d.frame, num |-> d.num, limit |-> d.limit]
      /\ \A g \in Frames : g # f => d.frame[g] = c.frame[g]
      /\ d.frame[f].id = p /\ d.frame[f] \in FrameState /\ d.frame[f].dirty = c.frame[f].dirty
      /\ d.frame[f].isnew = c.frame[f].isnew /\ d.frame[f].content = c.frame[f].content
      /\ d.frame \in [Frames -> FrameState]
      /\ \A r \in PageIDs : d.map[r] = IF r = p THEN <<f>> ELSE c.map[r]
  <2>1. c \in CacheType /\ f \in Frames
    BY DEF Cache
  <2>2. Attached(d, c, f, p)
    BY <2>1, AttachFields
  <2> QED BY <2>2 DEF Attached
<1>4. d.map = [c.map EXCEPT ![p] = <<f>>]
  BY <1>3
<1>5. /\ \A g \in Frames : g # f => d.frame[g] = c.frame[g]
      /\ d.frame[f].id = p /\ d.frame[f] \in FrameState /\ d.frame[f].dirty = c.frame[f].dirty
      /\ d.frame[f].isnew = c.frame[f].isnew /\ d.frame[f].content = c.frame[f].content
  BY <1>3
<1>6. Strung(d.queue, Append(s, f)) /\ Elements(Append(s, f)) = E \cup {f}
  BY <1>2, <1>3, PushBackStrung
<1>7. Len(Append(s, f)) = c.num + 1
  BY <1>2 DEF Strung
<1>8. d \in CacheType
  <2>1. d.queue \in Dqueue!DqueueType
    BY <1>6 DEF Strung
  <2>2. d.map \in [PageIDs -> Seq(Frames)]
    BY <1>1, <1>4
  <2>3. d.frame \in [Frames -> FrameState]
    BY <1>1, <1>3, <1>5
  <2>4. d.num \in Nat /\ d.limit \in Nat
    BY <1>1, <1>3
  <2> QED BY <1>3, <2>1, <2>2, <2>3, <2>4, CacheTyped
<1>9. \A r \in PageIDs : d.map[r] = IF r = p THEN <<f>> ELSE c.map[r]
  BY <1>1, <1>4
<1>10. ASSUME NEW r \in PageIDs
       PROVE d.map[r] = << >> \/ \E g \in E \cup {f} : d.map[r] = <<g>> /\ d.frame[g].id = r
  <2>1. CASE r = p
    BY <1>5, <1>9, <2>1
  <2>2. CASE r # p
    <3>1. c.map[r] = << >> \/ \E g \in E : c.map[r] = <<g>> /\ c.frame[g].id = r
      BY DEF Cache
    <3>2. d.map[r] = c.map[r] /\ \A g \in E : d.frame[g] = c.frame[g]
      BY <1>5, <1>9, <2>2 DEF Cache
    <3> QED BY <3>1, <3>2
  <2> QED BY <2>1, <2>2
<1>11. ASSUME NEW g \in E \cup {f}
       PROVE d.frame[g].id \in PageIDs /\ d.map[d.frame[g].id] = <<g>>
  <2>1. CASE g = f
    BY <1>5, <1>9, <2>1
  <2>2. CASE g # f
    <3>1. g \in E /\ g \in Frames /\ c.frame[g].id \in PageIDs /\ c.map[c.frame[g].id] = <<g>>
      BY <2>2 DEF Cache
    <3>2. c.frame[g].id # p
      BY <3>1, OneIsNotNone
    <3> QED BY <1>5, <1>9, <2>2, <3>1, <3>2
  <2> QED BY <2>1, <2>2
<1>12. \A g \in Frames : g \notin E \cup {f} /\ g \notin H \ {f} => d.frame[g].id = NULL /\ ~d.frame[g].dirty
  BY <1>5 DEF Cache
<1>13. Cache(d, E \cup {f}, H \ {f})
  <2>1. \E z : Strung(d.queue, z) /\ Elements(z) = E \cup {f} /\ Len(z) = d.num
    BY <1>3, <1>6, <1>7
  <2>2. E \cup {f} \subseteq Frames
    BY DEF Cache
  <2> QED BY <1>8, <1>10, <1>11, <1>12, <2>1, <2>2 DEF Cache
<1> QED BY <1>13

\* A page that is found goes to the end of the queue.
LEMMA TouchCache ==
    ASSUME NEW c, NEW E, NEW H, Cache(c, E, H), NEW f \in E, NEW d,
           d = [c EXCEPT !.queue = Dqueue!PushBack(Dqueue!Erase(@, f), f)]
    PROVE  Cache(d, E, H) /\ d.frame = c.frame /\ d.map = c.map
<1>1. /\ c = [queue |-> c.queue, map |-> c.map, frame |-> c.frame, num |-> c.num, limit |-> c.limit]
      /\ c.queue \in Dqueue!DqueueType /\ c.map \in [PageIDs -> Seq(Frames)]
      /\ c.frame \in [Frames -> FrameState] /\ c.num \in Nat /\ c.limit \in Nat
  BY CacheFields DEF Cache
<1>2. PICK s : Strung(c.queue, s) /\ Elements(s) = E /\ Len(s) = c.num
  BY DEF Cache
<1>3. PICK k \in 1..Len(s) : s[k] = f
  BY <1>2 DEF Elements
<1>4. /\ d.queue = Dqueue!PushBack(Dqueue!Erase(c.queue, f), f)
      /\ d.frame = c.frame /\ d.map = c.map /\ d.num = c.num /\ d.limit = c.limit
      /\ d = [queue |-> d.queue, map |-> d.map, frame |-> d.frame, num |-> d.num, limit |-> d.limit]
  BY <1>1
<1> DEFINE w == Without(s, k)
           z == Append(w, f)
<1>5. f \in Frames /\ E \subseteq Frames
  BY DEF Cache
<1>6. /\ Strung(Dqueue!Erase(c.queue, f), w) /\ Elements(w) = E \ {f} /\ Len(w) = Len(s) - 1
      /\ w \in Seq(Frames)
  <2>1. s \in Seq(Frames) /\ OneToOne(s)
    BY <1>2 DEF Strung
  <2>2. Elements(w) = Elements(s) \ {s[k]} /\ Len(w) = Len(s) - 1 /\ w \in Seq(Frames)
    BY <2>1, WithoutIs
  <2> QED BY <1>2, <1>3, <2>2, EraseStrung
<1> HIDE DEF w
<1>7. Strung(d.queue, z) /\ Elements(z) = (E \ {f}) \cup {f}
  BY <1>4, <1>5, <1>6, PushBackStrung
<1>8. Len(z) = c.num
  BY <1>1, <1>2, <1>6
<1> HIDE DEF z
<1>9. \E y : Strung(d.queue, y) /\ Elements(y) = E /\ Len(y) = d.num
  <2>1. (E \ {f}) \cup {f} = E
    OBVIOUS
  <2> QED BY <1>4, <1>7, <1>8, <2>1
<1>10. d \in CacheType
  BY <1>1, <1>4, <1>7 DEF CacheType, Strung
<1>11. Cache(d, E, H)
  BY <1>4, <1>9, <1>10 DEF Cache
<1> QED BY <1>4, <1>11

\* The frame to give up is a cached one that is not dirty.
LEMMA VictimIs ==
    ASSUME NEW c, NEW E, NEW H, Cache(c, E, H), Victim(c) # NULL
    PROVE  Victim(c) \in E /\ ~c.frame[Victim(c)].dirty
<1> DEFINE order == Dqueue!Contents(c.queue)
           clean == {i \in DOMAIN order : ~c.frame[order[i]].dirty}
<1>1. PICK s : Strung(c.queue, s) /\ Elements(s) = E /\ Len(s) = c.num
  BY DEF Cache
<1>2. order = s /\ DOMAIN s = 1..Len(s) /\ Len(s) \in Nat
  BY <1>1, ContentsIs, SeqIs DEF Strung
<1>3. clean # {} /\ Victim(c) = order[Min(clean)]
  BY DEF Victim
<1>4. clean \in SUBSET Nat
  BY <1>2
<1> HIDE DEF clean, order
<1>5. Min(clean) \in clean
  BY <1>3, <1>4, MinIs
<1>6. Min(clean) \in 1..Len(s) /\ ~c.frame[s[Min(clean)]].dirty
  BY <1>2, <1>5 DEF clean
<1>7. s[Min(clean)] \in E
  BY <1>1, <1>6 DEF Elements
<1> QED BY <1>2, <1>3, <1>6, <1>7

\* There is a frame for a page that is not cached.
LEMMA FrameIsFree ==
    ASSUME NEW c, NEW E, Cache(c, E, {}), NEW p \in PageIDs, c.map[p] = << >>
    PROVE  \E f \in Frames : c.frame[f].id = NULL
<1> SUFFICES ASSUME \A f \in Frames : c.frame[f].id # NULL PROVE FALSE
  OBVIOUS
<1> DEFINE k == GetPageID(MaxID)
           T == PageIDs \ {p}
           g == [f \in Frames |-> c.frame[f].id]
<1>1. \A f \in Frames : f \in E /\ c.frame[f].id \in PageIDs /\ c.map[c.frame[f].id] = <<f>>
  BY DEF Cache
<1>2. ASSUME NEW f \in Frames PROVE c.frame[f].id \in T
  <2>1. c.frame[f].id # p
    BY <1>1, OneIsNotNone
  <2> QED BY <1>1, <2>1
<1>3. g \in [Frames -> T]
  BY <1>2
<1>4. IsFiniteSet(Frames) /\ IsFiniteSet(T) /\ Cardinality(T) = k /\ k \in Nat /\ Cardinality(Frames) > k
  <2>1. k \in Nat /\ PageIDs = 0..k
    BY PagesAre
  <2>2. IsFiniteSet(0..k) /\ Cardinality(0..k) = k + 1
    <3>1. 0 \in Int /\ k \in Int /\ ~(0 > k) /\ k - 0 + 1 = k + 1
      BY <2>1
    <3> HIDE DEF k
    <3> QED BY <3>1, FS_Interval
  <2> HIDE DEF k
  <2>3. IsFiniteSet(T) /\ Cardinality(T) = (k + 1) - 1
    BY <2>1, <2>2, FS_RemoveElement
  <2>4. Cardinality(Frames) > k
    BY RecordTableAssumption DEF k, GetPageID
  <2> QED BY <2>1, <2>3, <2>4, Sizes
<1>5. Cardinality(T) < Cardinality(Frames)
  <2>1. Cardinality(Frames) \in Nat
    BY <1>4, FS_CardinalityType
  <2> HIDE DEF T, k
  <2> QED BY <1>4, <2>1
<1> HIDE DEF T, g, k
<1>6. PICK x, y \in Frames : x # y /\ g[x] = g[y]
  <2>1. IsFiniteSet(Frames) /\ IsFiniteSet(T)
    BY <1>4
  <2> QED BY <1>3, <1>5, <2>1, FS_PigeonHole
<1>7. <<x>> = <<y>>
  BY <1>1, <1>6 DEF g
<1> QED BY <1>6, <1>7

\* AllocPage takes a frame that is free.
LEMMA AllocIs ==
    ASSUME NEW c, NEW E, Cache(c, E, {}), NEW p \in PageIDs, c.map[p] = << >>
    PROVE  /\ AllocFrame(c) \in Frames /\ AllocFrame(c) \notin E
           /\ c.frame[AllocFrame(c)].id = NULL /\ ~c.frame[AllocFrame(c)].dirty
<1> DEFINE F == FreeFrames(c)
<1>1. F \in SUBSET Nat /\ F # {}
  BY FrameIsFree, Sizes DEF FreeFrames
<1>2. \A f \in F : f \in Frames /\ f \notin E /\ c.frame[f].id = NULL /\ ~c.frame[f].dirty
  <2> SUFFICES ASSUME NEW f \in F PROVE f \in Frames /\ f \notin E /\ c.frame[f].id = NULL /\ ~c.frame[f].dirty
    OBVIOUS
  <2>1. f \in Frames /\ c.frame[f].id = NULL
    BY DEF FreeFrames
  <2>2. f \notin E
    BY <2>1, PagesAre DEF Cache
  <2>3. ~c.frame[f].dirty
    BY <2>1, <2>2 DEF Cache
  <2> QED BY <2>1, <2>2, <2>3
<1> HIDE DEF F
<1>3. Min(F) \in F /\ \A g \in F : Min(F) <= g
  BY <1>1, MinIs
<1>4. \E f \in F : \A g \in F : f <= g
  BY <1>3
<1>5. AllocFrame(c) \in F
  BY <1>4, Zenon DEF AllocFrame, F
<1> QED BY <1>2, <1>5

\* The cache as the tables see it.
Whole(c) == \E E : Cache(c, E, {})

\* A whole cache finds each page in the frame that carries its id.
LEMMA WholeIs ==
    ASSUME NEW c, Whole(c)
    PROVE  /\ c \in CacheType
           /\ \A p \in PageIDs : FindPage(c, p) # NULL =>
                /\ FindPage(c, p) \in Frames /\ c.frame[FindPage(c, p)] \in FrameState
                /\ c.frame[FindPage(c, p)].id = p
           /\ \A f \in Frames : c.frame[f].dirty =>
                c.frame[f].id \in PageIDs /\ FindPage(c, c.frame[f].id) = f
           /\ \A f \in Frames : c.frame[f].id # NULL =>
                c.frame[f].id \in PageIDs /\ FindPage(c, c.frame[f].id) = f
<1>1. PICK E : Cache(c, E, {})
  BY DEF Whole
<1>2. c \in CacheType /\ c.frame \in [Frames -> FrameState]
  BY <1>1, CacheFields DEF Cache
<1>3. ASSUME NEW p \in PageIDs, FindPage(c, p) # NULL
      PROVE  /\ FindPage(c, p) \in Frames /\ c.frame[FindPage(c, p)] \in FrameState
             /\ c.frame[FindPage(c, p)].id = p
  BY <1>1, <1>2, <1>3, FindIs
<1>4. ASSUME NEW f \in Frames, f \in E
      PROVE  c.frame[f].id \in PageIDs /\ FindPage(c, c.frame[f].id) = f
  <2>1. c.frame[f].id \in PageIDs
    BY <1>1, <1>4 DEF Cache
  <2> QED BY <1>1, <1>4, <2>1, FindIs
<1>5. \A f \in Frames : f \notin E => c.frame[f].id = NULL /\ ~c.frame[f].dirty
  BY <1>1 DEF Cache
<1> QED BY <1>2, <1>3, <1>4, <1>5

\* From c to d no page but p has changed, or left the cache while it was dirty.
Kept(c, d, p) ==
  \A r \in PageIDs : r # p =>
    \/ FindPage(c, r) # NULL /\ FindPage(d, r) = NULL /\ ~c.frame[FindPage(c, r)].dirty
    \/ /\ FindPage(d, r) = FindPage(c, r)
       /\ FindPage(c, r) # NULL => d.frame[FindPage(c, r)] = c.frame[FindPage(c, r)]

\* What makes room for a page: at most the clean frame f leaves the containers.
Room(c, room, E, f, p) ==
  /\ Cache(room, E, {f}) /\ f \in Frames /\ f \notin E
  /\ room.frame = c.frame /\ ~c.frame[f].dirty /\ room.map[p] = << >>
  /\ \A r \in PageIDs : \/ FindPage(room, r) = FindPage(c, r)
                        \/ FindPage(room, r) = NULL /\ FindPage(c, r) = f

\* Holding more frames asks less of a cache.
LEMMA MoreHeld ==
    ASSUME NEW c, NEW E, NEW f, Cache(c, E, {})
    PROVE  Cache(c, E, {f})
BY DEF Cache

\* The frame f has left the containers, the page p is not cached.
Parted(c, d, f, p) ==
  /\ d.frame = c.frame /\ d.map[p] = << >>
  /\ \A r \in PageIDs : \/ FindPage(d, r) = FindPage(c, r) /\ FindPage(c, r) # f
                        \/ FindPage(d, r) = NULL /\ FindPage(c, r) = f

\* Detach leaves the frame held and the rest of the cache whole.
LEMMA DetachMakesRoom ==
    ASSUME NEW c, NEW E, NEW H, Cache(c, E, H), NEW f \in E, ~c.frame[f].dirty, NEW p \in PageIDs, c.map[p] = << >>
    PROVE  Cache(Detach(c, f), E \ {f}, H \cup {f}) /\ Parted(c, Detach(c, f), f, p)
<1>0. Cache(Detach(c, f), E \ {f}, H \cup {f}) /\ Detached(c, Detach(c, f), f)
  BY DetachCache
<1> PICK d : d = Detach(c, f)
  OBVIOUS
<1>1. Cache(d, E \ {f}, H \cup {f}) /\ Detached(c, d, f)
  BY <1>0
<1>3. d.frame = c.frame /\ \A r \in PageIDs : d.map[r] = IF r = c.frame[f].id THEN << >> ELSE c.map[r]
  BY <1>1 DEF Detached
<1>4. ASSUME NEW r \in PageIDs
      PROVE \/ FindPage(d, r) = FindPage(c, r) /\ FindPage(c, r) # f
            \/ FindPage(d, r) = NULL /\ FindPage(c, r) = f
  <2>1. c.frame[f].id = r <=> FindPage(c, r) = f
    BY FindIs
  <2>2. CASE r = c.frame[f].id
    BY <1>3, <2>1, <2>2 DEF FindPage
  <2>3. CASE r # c.frame[f].id
    BY <1>3, <2>1, <2>3 DEF FindPage
  <2> QED BY <2>2, <2>3
<1> QED BY <1>1, <1>3, <1>4 DEF Parted

\* Attach in the room that was made gives a whole cache again.
LEMMA PutInRoom ==
    ASSUME NEW c, Whole(c), NEW room, NEW E, NEW f, NEW p \in PageIDs, Room(c, room, E, f, p),
           FindPage(c, p) = NULL
    PROVE  /\ Whole(FreePage(room, f)) /\ Kept(c, FreePage(room, f), p)
           /\ FindPage(FreePage(room, f), p) = NULL
           /\ \A x \in FrameState :
                LET d == Attach(Hold(room, f, x), f, p)
                IN  /\ Whole(d) /\ Kept(c, d, p) /\ FindPage(d, p) = f
                    /\ d.frame[f].dirty = x.dirty /\ d.frame[f].isnew = x.isnew
                    /\ d.frame[f].content = x.content
<1> DEFINE e == FreePage(room, f)
<1>1. /\ Cache(room, E, {f}) /\ f \in Frames /\ f \notin E /\ room.frame = c.frame /\ ~c.frame[f].dirty
      /\ room.map[p] = << >> /\ f # NULL /\ f \in Frames \ E
      /\ \A r \in PageIDs : \/ FindPage(room, r) = FindPage(c, r)
                            \/ FindPage(room, r) = NULL /\ FindPage(c, r) = f
  BY Sizes DEF Room
\* What a change of the frame f, and of the page p in the map, keeps.
<1>3. ASSUME NEW d, \A g \in Frames : g # f => d.frame[g] = room.frame[g],
             \A r \in PageIDs : r # p => d.map[r] = room.map[r]
      PROVE  Kept(c, d, p)
  <2> SUFFICES ASSUME NEW r \in PageIDs, r # p
               PROVE  \/ FindPage(c, r) # NULL /\ FindPage(d, r) = NULL /\ ~c.frame[FindPage(c, r)].dirty
                      \/ /\ FindPage(d, r) = FindPage(c, r)
                         /\ FindPage(c, r) # NULL => d.frame[FindPage(c, r)] = c.frame[FindPage(c, r)]
    BY DEF Kept
  <2>1. FindPage(d, r) = FindPage(room, r)
    BY <1>3 DEF FindPage
  <2>2. CASE FindPage(room, r) = NULL /\ FindPage(c, r) = f
    BY <1>1, <2>1, <2>2
  <2>3. CASE FindPage(room, r) = FindPage(c, r) /\ FindPage(c, r) # NULL
    <3>1. FindPage(room, r) \in E /\ FindPage(room, r) \in Frames
      BY <1>1, <2>3, FindIs
    <3> QED BY <1>1, <1>3, <2>1, <2>3, <3>1
  <2>4. CASE FindPage(room, r) = FindPage(c, r) /\ FindPage(c, r) = NULL
    BY <2>1, <2>4
  <2> QED BY <1>1, <2>2, <2>3, <2>4
<1>4. Whole(e) /\ Kept(c, e, p) /\ FindPage(e, p) = NULL
  <2>1. e = Hold(room, f, FreeFrame) /\ FreeFrame \in FrameState
    BY FreeFrameIs DEF FreePage, Hold
  <2> HIDE DEF e
  <2>2. /\ Cache(e, E, {f} \ {f}) /\ \A g \in Frames : g # f => e.frame[g] = room.frame[g]
        /\ e.map = room.map
    <3>1. Cache(e, E, {f} \ {f})
      BY <1>1, <2>1, HoldCache
    <3>2. room \in CacheType
      BY <1>1 DEF Cache
    <3>3. Holds(e, room, f, FreeFrame)
      BY <1>1, <2>1, <3>2, HoldFields
    <3> QED BY <3>1, <3>3 DEF Holds
  <2>3. {f} \ {f} = {}
    OBVIOUS
  <2>4. Whole(e)
    BY <2>2, <2>3 DEF Whole
  <2>5. Kept(c, e, p)
    BY <1>3, <2>2
  <2>6. FindPage(e, p) = NULL
    BY <1>1, <2>2 DEF FindPage
  <2> QED BY <2>4, <2>5, <2>6
<1>5. ASSUME NEW x \in FrameState
      PROVE  LET d == Attach(Hold(room, f, x), f, p)
             IN  /\ Whole(d) /\ Kept(c, d, p) /\ FindPage(d, p) = f
                 /\ d.frame[f].dirty = x.dirty /\ d.frame[f].isnew = x.isnew
                 /\ d.frame[f].content = x.content
  <2> DEFINE h == Hold(room, f, x)
             d == Attach(h, f, p)
  <2>1. /\ Cache(h, E, {f} \cup {f}) /\ h.map = room.map /\ h.frame[f] = x
        /\ \A g \in Frames : g # f => h.frame[g] = room.frame[g]
    <3> HIDE DEF h
    <3>1. h = Hold(room, f, x)
      BY DEF h
    <3>2. Cache(h, E, {f} \cup {f})
      BY <1>1, <3>1, HoldCache
    <3>3. room \in CacheType
      BY <1>1 DEF Cache
    <3>4. Holds(h, room, f, x)
      BY <1>1, <3>1, <3>3, HoldFields
    <3> QED BY <1>1, <3>2, <3>4 DEF Holds
  <2> HIDE DEF h
  <2>2. {f} \cup {f} = {f} /\ {f} \ {f} = {}
    OBVIOUS
  <2>3. Cache(h, E, {f}) /\ h.map[p] = << >>
    BY <1>1, <2>1, <2>2
  <2>4. /\ Cache(d, E \cup {f}, {f} \ {f}) /\ \A g \in Frames : g # f => d.frame[g] = h.frame[g]
        /\ \A r \in PageIDs : d.map[r] = IF r = p THEN <<f>> ELSE h.map[r]
        /\ d.frame[f].dirty = h.frame[f].dirty /\ d.frame[f].isnew = h.frame[f].isnew
        /\ d.frame[f].content = h.frame[f].content
    <3> HIDE DEF d
    <3>1. d = Attach(h, f, p)
      BY DEF d
    <3>2. Cache(d, E \cup {f}, {f} \ {f})
      BY <1>1, <2>3, <3>1, AttachCache
    <3>3. h \in CacheType
      BY <2>3 DEF Cache
    <3>4. Attached(d, h, f, p)
      BY <1>1, <2>3, <3>1, <3>3, AttachFields
    <3> QED BY <3>2, <3>4 DEF Attached
  <2> HIDE DEF d
  <2>6. Whole(d)
    BY <2>2, <2>4 DEF Whole
  <2>7. \A g \in Frames : g # f => d.frame[g] = room.frame[g]
    BY <2>1, <2>4
  <2>8. d.map[p] = <<f>> /\ \A r \in PageIDs : r # p => d.map[r] = room.map[r]
    BY <2>1, <2>4
  <2>9. Kept(c, d, p)
    BY <1>3, <2>7, <2>8
  <2>10. FindPage(d, p) = f
    BY <2>8, OneIsNotNone DEF FindPage
  <2>11. d.frame[f].dirty = x.dirty /\ d.frame[f].isnew = x.isnew /\ d.frame[f].content = x.content
    BY <2>1, <2>4
  <2> QED BY <2>6, <2>9, <2>10, <2>11 DEF d, h
<1> QED BY <1>4, <1>5
-----------------------------------------------------------------------------
(* GetPage and InsertPage *)

\* What GetPage(p) makes of the cache.
Loaded(c, d, p, stored) ==
  /\ Whole(d) /\ Kept(c, d, p)
  /\ FindPage(c, p) # NULL =>
       FindPage(d, p) = FindPage(c, p) /\ d.frame[FindPage(c, p)] = c.frame[FindPage(c, p)]
  /\ FindPage(c, p) = NULL /\ stored = NULL => FindPage(d, p) = NULL
  /\ FindPage(c, p) = NULL /\ stored # NULL =>
       /\ FindPage(d, p) # NULL /\ ~d.frame[FindPage(d, p)].dirty
       /\ d.frame[FindPage(d, p)].content = stored

\* With the frame that there is room for, the page gets in or the frame is freed.
LEMMA FillRoom ==
    ASSUME NEW c, Whole(c), NEW room, NEW E, NEW f, NEW p \in PageIDs, Room(c, room, E, f, p),
           FindPage(c, p) = NULL, NEW stored \in Content \cup {NULL}, NEW d,
           d = IF stored = NULL THEN FreePage(room, f)
                                ELSE Attach([room EXCEPT !.frame[f].content = stored], f, p)
    PROVE  Loaded(c, d, p, stored)
<1>1. /\ Cache(room, E, {f}) /\ f \in Frames /\ room.frame = c.frame /\ ~c.frame[f].dirty /\ f # NULL
  BY Sizes DEF Room
<1>2. CASE stored = NULL
  <2>1. d = FreePage(room, f)
    BY <1>2
  <2>2. Whole(d) /\ Kept(c, d, p) /\ FindPage(d, p) = NULL
    BY <2>1, PutInRoom
  <2> QED BY <1>2, <2>2 DEF Loaded
<1>3. CASE stored # NULL
  <2> DEFINE x == [room.frame[f] EXCEPT !.content = stored]
             e == Attach(Hold(room, f, x), f, p)
  <2>1. room.frame[f] \in FrameState /\ stored \in Content
    BY <1>1, <1>3, CacheFields DEF Cache
  <2>2. x \in FrameState /\ x.dirty = room.frame[f].dirty /\ x.content = stored
    BY <2>1 DEF FrameState
  <2>3. d = e
    BY <1>3 DEF Hold
  <2> HIDE DEF x
  <2>4. /\ Whole(e) /\ Kept(c, e, p) /\ FindPage(e, p) = f
        /\ e.frame[f].dirty = x.dirty /\ e.frame[f].content = x.content
    BY <2>2, PutInRoom
  <2> HIDE DEF e
  <2>5. FindPage(d, p) = f /\ ~d.frame[f].dirty /\ d.frame[f].content = stored
    BY <1>1, <2>2, <2>3, <2>4
  <2> QED BY <1>1, <1>3, <2>3, <2>4, <2>5 DEF Loaded
<1> QED BY <1>2, <1>3

\* GetPage leaves a whole cache with the page in it, or without a change the table shows.
LEMMA GetPageIs ==
    ASSUME NEW c, Whole(c), NEW p \in PageIDs, NEW stored \in Content \cup {NULL}, NEW d,
           d = GetPage(c, p, stored)
    PROVE  Loaded(c, d, p, stored)
<1>1. PICK E : Cache(c, E, {})
  BY DEF Whole
<1>2. CASE FindPage(c, p) # NULL
  <2> DEFINE f == FindPage(c, p)
  <2>1. f \in E
    BY <1>1, <1>2, FindIs
  <2>2. d = [c EXCEPT !.queue = Dqueue!PushBack(Dqueue!Erase(@, f), f)]
    BY <1>2 DEF GetPage
  <2> HIDE DEF f
  <2>3. Cache(d, E, {}) /\ d.frame = c.frame /\ d.map = c.map
    BY <1>1, <2>1, <2>2, TouchCache
  <2>4. \A r \in PageIDs : FindPage(d, r) = FindPage(c, r)
    BY <2>3 DEF FindPage
  <2>5. Whole(d)
    BY <2>3 DEF Whole
  <2>6. Kept(c, d, p)
    BY <2>3, <2>4 DEF Kept
  <2> QED BY <1>2, <2>3, <2>4, <2>5, <2>6 DEF Loaded
<1>3. CASE FindPage(c, p) = NULL
  <2> DEFINE reused == IF IsFull(c) THEN Victim(c) ELSE NULL
             room == CASE reused # NULL -> Detach(c, reused)
                       [] IsFull(c) /\ reused = NULL -> Enlarge(c)
                       [] OTHER -> c
             f == IF reused # NULL THEN reused ELSE AllocFrame(c)
  <2>1. d = IF stored = NULL THEN FreePage(room, f)
                             ELSE Attach([room EXCEPT !.frame[f].content = stored], f, p)
    BY <1>3, Zenon DEF GetPage
  <2>2. c.map[p] = << >>
    BY <1>1, <1>3, FindIs
  <2>3. \E S : Room(c, room, S, f, p)
    <3>1. CASE reused # NULL
      <4>1. reused = Victim(c) /\ Victim(c) # NULL
        BY <3>1
      <4>2. f = reused /\ room = Detach(c, reused)
        BY <3>1
      <4>3. f \in E /\ ~c.frame[f].dirty /\ f \in Frames
        BY <1>1, <4>1, <4>2, VictimIs DEF Cache
      <4> HIDE DEF f, room, reused
      <4>4. Cache(Detach(c, f), E \ {f}, {} \cup {f}) /\ Parted(c, Detach(c, f), f, p)
        BY <1>1, <2>2, <4>3, DetachMakesRoom
      <4>5. {} \cup {f} = {f} /\ f \notin E \ {f} /\ room = Detach(c, f)
        BY <4>2
      <4>6. Room(c, room, E \ {f}, f, p)
        BY <4>3, <4>4, <4>5 DEF Room, Parted
      <4> QED BY <4>6
    <3>2. CASE reused = NULL
      <4>1. f = AllocFrame(c)
        BY <3>2
      <4>2. f \in Frames /\ f \notin E /\ ~c.frame[f].dirty
        BY <1>1, <2>2, <4>1, AllocIs
      <4> HIDE DEF f
      <4>3. Cache(c, E, {f})
        BY <1>1, MoreHeld
      <4>4. CASE IsFull(c)
        <5>1. room = Enlarge(c)
          BY <3>2, <4>4
        <5> HIDE DEF room, reused
        <5>2. Cache(room, E, {f}) /\ room.frame = c.frame /\ room.map = c.map
          BY <4>3, <5>1, EnlargeCache
        <5>3. \A r \in PageIDs : FindPage(room, r) = FindPage(c, r)
          BY <5>2 DEF FindPage
        <5>4. Room(c, room, E, f, p)
          BY <2>2, <4>2, <5>2, <5>3 DEF Room
        <5> QED BY <5>4
      <4>5. CASE ~IsFull(c)
        <5>1. room = c
          BY <3>2, <4>5
        <5> HIDE DEF room, reused
        <5>2. Room(c, room, E, f, p)
          BY <2>2, <4>2, <4>3, <5>1 DEF Room
        <5> QED BY <5>2
      <4> QED BY <4>4, <4>5
    <3> QED BY <3>1, <3>2
  <2> HIDE DEF room, f, reused
  <2>4. PICK S : Room(c, room, S, f, p)
    BY <2>3
  <2> QED BY <1>3, <2>1, <2>4, FillRoom
<1> QED BY <1>2, <1>3

\* What InsertPage of a new page makes of the cache.
Inserted(c, d, p) ==
  /\ Whole(d) /\ Kept(c, d, p) /\ FindPage(d, p) = AllocFrame(c) /\ AllocFrame(c) \in Frames
  /\ c.frame[AllocFrame(c)].id = NULL /\ ~c.frame[AllocFrame(c)].dirty
  /\ d.frame[AllocFrame(c)].dirty /\ d.frame[AllocFrame(c)].content = BlankPage

\* InsertPage of a new page leaves a whole cache with the page in it.
LEMMA InsertNewPageIs ==
    ASSUME NEW c, Whole(c), NEW p \in PageIDs, FindPage(c, p) = NULL, NEW d,
           d = InsertNewPage(c, p)
    PROVE  Inserted(c, d, p)
<1> DEFINE f == AllocFrame(c)
           v == Victim(c)
           x == [id |-> p, dirty |-> TRUE, isnew |-> TRUE, content |-> BlankPage]
           held == Hold(c, f, x)
           room == CASE IsFull(c) /\ v # NULL -> ReleasePage(held, v)
                     [] IsFull(c) /\ v = NULL -> Enlarge(held)
                     [] OTHER -> held
<1>1. PICK E : Cache(c, E, {})
  BY DEF Whole
<1>2. c.map[p] = << >> /\ x \in FrameState
  BY <1>1, FindIs, PagesAre DEF FrameState
<1>3. f \in Frames /\ f \notin E /\ c.frame[f].id = NULL /\ ~c.frame[f].dirty /\ f # NULL
  BY <1>1, <1>2, AllocIs, Sizes
<1>4. d = Attach(room, f, p)
  BY Zenon DEF InsertNewPage, Hold
<1>5. x.dirty /\ x.content = BlankPage
  OBVIOUS
<1>6. c \in CacheType
  BY <1>1 DEF Cache
<1> HIDE DEF f, v, x
<1>7. Cache(held, E, {f})
  <2>1. Cache(held, E, {} \cup {f})
    BY <1>1, <1>2, <1>3, HoldCache
  <2>2. {} \cup {f} = {f}
    OBVIOUS
  <2> QED BY <2>1, <2>2
<1>8. held.map = c.map /\ \A g \in Frames : held.frame[g] = IF g = f THEN x ELSE c.frame[g]
  <2>1. Holds(held, c, f, x)
    BY <1>2, <1>3, <1>6, HoldFields
  <2> QED BY <2>1 DEF Holds
<1> HIDE DEF held
<1>9. \A r \in PageIDs : FindPage(held, r) = FindPage(c, r)
  BY <1>8 DEF FindPage
\* The room: the victim, if there is one, is gone and freed.
<1>10. \E S : /\ Cache(room, S, {f}) /\ f \notin S /\ room.map[p] = << >> /\ room.frame[f] = x
              /\ \A r \in PageIDs :
                   \/ /\ FindPage(room, r) = FindPage(c, r)
                      /\ FindPage(c, r) # NULL => room.frame[FindPage(c, r)] = c.frame[FindPage(c, r)]
                   \/ /\ FindPage(room, r) = NULL /\ FindPage(c, r) # NULL
                      /\ ~c.frame[FindPage(c, r)].dirty
  <2>1. \A r \in PageIDs : FindPage(c, r) # NULL => FindPage(c, r) # f /\ FindPage(c, r) \in Frames /\ FindPage(c, r) \in E
    BY <1>1, <1>3, FindIs
  <2>2. CASE IsFull(c) /\ v # NULL
    <3>1. room = ReleasePage(held, v)
      BY <2>2
    <3>2. v \in E /\ ~c.frame[v].dirty /\ v # NULL /\ v \in Frames /\ v # f
      BY SMTT(30), <1>1, <1>3, <2>2, VictimIs DEF v, Cache
    <3>3. ~held.frame[v].dirty /\ held.map[p] = << >>
      BY <1>2, <1>8, <3>2
    <3> DEFINE e == Detach(held, v)
    <3>4. /\ Cache(e, E \ {v}, {f} \cup {v}) /\ e.frame = held.frame /\ e.map[p] = << >>
          /\ \A r \in PageIDs : \/ FindPage(e, r) = FindPage(held, r) /\ FindPage(held, r) # v
                                \/ FindPage(e, r) = NULL /\ FindPage(held, r) = v
      <4>1. Cache(e, E \ {v}, {f} \cup {v}) /\ Parted(held, e, v, p)
        BY <1>7, <3>2, <3>3, DetachMakesRoom
      <4> QED BY <4>1 DEF Parted
    <3>5. room = Hold(e, v, FreeFrame) /\ FreeFrame \in FrameState
      BY <3>1, FreeFrameIs, Zenon DEF ReleasePage, FreePage, Hold
    <3> HIDE DEF e, room
    <3>6. Cache(room, E \ {v}, ({f} \cup {v}) \ {v})
      <4>1. v \in Frames \ (E \ {v})
        BY <3>2
      <4> QED BY <3>4, <3>5, <4>1, HoldCache
    <3>7. ({f} \cup {v}) \ {v} = {f}
      BY <3>2
    <3>8. /\ room.map = e.map
          /\ \A g \in Frames : room.frame[g] = IF g = v THEN FreeFrame ELSE e.frame[g]
      <4>1. e \in CacheType
        BY <3>4 DEF Cache
      <4>2. Holds(room, e, v, FreeFrame)
        BY <3>2, <3>5, <4>1, HoldFields
      <4> QED BY <4>2 DEF Holds
    <3>9. \A r \in PageIDs : FindPage(room, r) = FindPage(e, r)
      BY <3>8 DEF FindPage
    <3>10. room.map[p] = << >> /\ room.frame[f] = x
      BY <1>3, <1>8, <3>2, <3>4, <3>8
    <3>11. ASSUME NEW r \in PageIDs
           PROVE  \/ /\ FindPage(room, r) = FindPage(c, r)
                     /\ FindPage(c, r) # NULL => room.frame[FindPage(c, r)] = c.frame[FindPage(c, r)]
                  \/ /\ FindPage(room, r) = NULL /\ FindPage(c, r) # NULL
                     /\ ~c.frame[FindPage(c, r)].dirty
      <4>1. CASE FindPage(e, r) = FindPage(held, r) /\ FindPage(held, r) # v
        <5>1. FindPage(room, r) = FindPage(c, r) /\ FindPage(c, r) # v
          BY <1>9, <3>9, <4>1
        <5>2. FindPage(c, r) # NULL => room.frame[FindPage(c, r)] = c.frame[FindPage(c, r)]
          BY <1>8, <2>1, <3>4, <3>8, <5>1
        <5> QED BY <5>1, <5>2
      <4>2. CASE FindPage(e, r) = NULL /\ FindPage(held, r) = v
        BY <1>9, <3>2, <3>9, <4>2
      <4> QED BY <3>4, <4>1, <4>2
    <3> QED BY <1>3, <3>6, <3>7, <3>10, <3>11
  <2>3. CASE IsFull(c) /\ v = NULL
    <3>1. room = Enlarge(held)
      BY <2>3
    <3> HIDE DEF room
    <3>2. Cache(room, E, {f}) /\ room.frame = held.frame /\ room.map = held.map
      BY <1>7, <3>1, EnlargeCache
    <3>3. \A r \in PageIDs : FindPage(room, r) = FindPage(c, r)
      BY <1>9, <3>2 DEF FindPage
    <3>4. room.map[p] = << >> /\ room.frame[f] = x
      BY <1>2, <1>3, <1>8, <3>2
    <3>5. \A r \in PageIDs : FindPage(c, r) # NULL => room.frame[FindPage(c, r)] = c.frame[FindPage(c, r)]
      BY <1>8, <2>1, <3>2
    <3> QED BY <1>3, <3>2, <3>3, <3>4, <3>5
  <2>4. CASE ~IsFull(c)
    <3>1. room = held
      BY <2>4
    <3> HIDE DEF room
    <3>4. room.map[p] = << >> /\ room.frame[f] = x
      BY <1>2, <1>3, <1>8, <3>1
    <3>5. \A r \in PageIDs : FindPage(c, r) # NULL => room.frame[FindPage(c, r)] = c.frame[FindPage(c, r)]
      BY <1>8, <2>1, <3>1
    <3> QED BY <1>3, <1>7, <1>9, <3>1, <3>4, <3>5
  <2> QED BY <2>2, <2>3, <2>4
<1> HIDE DEF room
<1>11. PICK S : /\ Cache(room, S, {f}) /\ f \notin S /\ room.map[p] = << >> /\ room.frame[f] = x
                /\ \A r \in PageIDs :
                     \/ /\ FindPage(room, r) = FindPage(c, r)
                        /\ FindPage(c, r) # NULL => room.frame[FindPage(c, r)] = c.frame[FindPage(c, r)]
                     \/ /\ FindPage(room, r) = NULL /\ FindPage(c, r) # NULL
                        /\ ~c.frame[FindPage(c, r)].dirty
  BY <1>10
<1>12. Whole(d)
  <2>1. Cache(d, S \cup {f}, {f} \ {f})
    BY <1>3, <1>4, <1>11, AttachCache
  <2>2. {f} \ {f} = {}
    OBVIOUS
  <2> QED BY <2>1, <2>2 DEF Whole
<1>13. /\ \A g \in Frames : g # f => d.frame[g] = room.frame[g]
       /\ d.frame[f].dirty = room.frame[f].dirty /\ d.frame[f].content = room.frame[f].content
       /\ \A r \in PageIDs : d.map[r] = IF r = p THEN <<f>> ELSE room.map[r]
  <2>1. room \in CacheType
    BY <1>11 DEF Cache
  <2>2. Attached(d, room, f, p)
    BY <1>3, <1>4, <1>11, <2>1, AttachFields
  <2> QED BY <2>2 DEF Attached
<1>14. FindPage(d, p) = f
  BY <1>13, OneIsNotNone DEF FindPage
<1>15. Kept(c, d, p)
  <2> SUFFICES ASSUME NEW r \in PageIDs, r # p
               PROVE  \/ FindPage(c, r) # NULL /\ FindPage(d, r) = NULL /\ ~c.frame[FindPage(c, r)].dirty
                      \/ /\ FindPage(d, r) = FindPage(c, r)
                         /\ FindPage(c, r) # NULL => d.frame[FindPage(c, r)] = c.frame[FindPage(c, r)]
    BY DEF Kept
  <2>1. FindPage(d, r) = FindPage(room, r)
    BY <1>13 DEF FindPage
  <2>2. FindPage(c, r) # NULL => FindPage(c, r) # f /\ FindPage(c, r) \in Frames
    BY <1>1, <1>3, FindIs
  <2> QED BY <1>11, <1>13, <2>1, <2>2
<1> QED BY <1>3, <1>5, <1>11, <1>12, <1>13, <1>14, <1>15 DEF Inserted, f

-----------------------------------------------------------------------------
(* Frames that change in place, pages that are released *)

\* The queue, the map and the ids of the frames stay as they are.
Reframed(c, d) ==
  /\ d.queue = c.queue /\ d.map = c.map /\ d.num = c.num /\ d.limit = c.limit
  /\ d = [queue |-> d.queue, map |-> d.map, frame |-> d.frame, num |-> d.num, limit |-> d.limit]
  /\ d.frame \in [Frames -> FrameState]
  /\ \A f \in Frames : d.frame[f].id = c.frame[f].id /\ (c.frame[f].id = NULL => ~d.frame[f].dirty)

\* Changes inside of the frames keep the containers.
LEMMA ReframedIs ==
    ASSUME NEW c, Whole(c), NEW d, Reframed(c, d)
    PROVE  Whole(d) /\ \A p \in PageIDs : FindPage(d, p) = FindPage(c, p)
<1>1. PICK E : Cache(c, E, {})
  BY DEF Whole
<1>2. c.queue \in Dqueue!DqueueType /\ c.map \in [PageIDs -> Seq(Frames)] /\ c.num \in Nat /\ c.limit \in Nat
  BY <1>1, CacheFields DEF Cache
<1>3. d \in CacheType
  BY <1>2, CacheTyped DEF Reframed
<1>4. d.queue = c.queue /\ d.map = c.map /\ d.num = c.num /\ \A f \in Frames : d.frame[f].id = c.frame[f].id
  BY DEF Reframed
<1>5. E \subseteq Frames /\ \E s : Strung(d.queue, s) /\ Elements(s) = E /\ Len(s) = d.num
  BY <1>1, <1>4 DEF Cache
<1>6. \A p \in PageIDs : d.map[p] = << >> \/ \E f \in E : d.map[p] = <<f>> /\ d.frame[f].id = p
  <2>1. \A p \in PageIDs : c.map[p] = << >> \/ \E f \in E : c.map[p] = <<f>> /\ c.frame[f].id = p
    BY <1>1 DEF Cache
  <2> QED BY <1>4, <1>5, <2>1
<1>7. \A f \in E : d.frame[f].id \in PageIDs /\ d.map[d.frame[f].id] = <<f>>
  <2>1. \A f \in E : c.frame[f].id \in PageIDs /\ c.map[c.frame[f].id] = <<f>>
    BY <1>1 DEF Cache
  <2> QED BY <1>4, <1>5, <2>1
<1>8. \A f \in Frames : f \notin E /\ f \notin {} => d.frame[f].id = NULL /\ ~d.frame[f].dirty
  <2>1. \A f \in Frames : f \notin E => c.frame[f].id = NULL
    BY <1>1 DEF Cache
  <2> QED BY <1>4, <2>1 DEF Reframed
<1>9. Cache(d, E, {})
  BY <1>3, <1>5, <1>6, <1>7, <1>8 DEF Cache
<1> QED BY <1>4, <1>9 DEF Whole, FindPage

\* One cached frame changes and keeps its page.
Changed(c, d, f, x) ==
  /\ Whole(d) /\ \A p \in PageIDs : FindPage(d, p) = FindPage(c, p)
  /\ \A g \in Frames : d.frame[g] = IF g = f THEN x ELSE c.frame[g]

\* A change of one cached frame.
LEMMA ChangeIs ==
    ASSUME NEW c, Whole(c), NEW f \in Frames, c.frame[f].id # NULL, NEW x \in FrameState,
           x.id = c.frame[f].id
    PROVE  Changed(c, Hold(c, f, x), f, x)
<1> DEFINE d == Hold(c, f, x)
<1>1. c \in CacheType /\ c.frame \in [Frames -> FrameState]
  BY CacheFields DEF Whole, Cache
<1>2. Holds(d, c, f, x)
  BY <1>1, HoldFields
<1> HIDE DEF d
<1>3. \A g \in Frames : d.frame[g] = IF g = f THEN x ELSE c.frame[g]
  BY <1>2 DEF Holds
<1>4. \A g \in Frames : c.frame[g].id = NULL => ~c.frame[g].dirty
  BY PagesAre DEF Whole, Cache
<1>5. d.frame \in [Frames -> FrameState]
  <2>1. d.frame = [c.frame EXCEPT ![f] = x]
    BY <1>2 DEF Holds
  <2> QED BY <1>1, <2>1
<1>6. Reframed(c, d)
  <2>1. \A g \in Frames : d.frame[g].id = c.frame[g].id /\ (c.frame[g].id = NULL => ~d.frame[g].dirty)
    BY <1>3, <1>4
  <2> QED BY <1>2, <1>5, <2>1 DEF Holds, Reframed
<1>7. Whole(d) /\ \A p \in PageIDs : FindPage(d, p) = FindPage(c, p)
  BY <1>6, ReframedIs
<1> QED BY <1>3, <1>7 DEF d, Changed

\* ReleasePage of a cached page.
Released(c, d, f) ==
  /\ Whole(d)
  /\ \A p \in PageIDs : FindPage(d, p) = IF FindPage(c, p) = f THEN NULL ELSE FindPage(c, p)
  /\ \A g \in Frames : d.frame[g] = IF g = f THEN FreeFrame ELSE c.frame[g]

\* ReleasePage frees the frame and takes its page out of the cache.
LEMMA ReleasePageIs ==
    ASSUME NEW c, Whole(c), NEW f \in Frames, c.frame[f].id # NULL
    PROVE  Released(c, ReleasePage(c, f), f)
<1> DEFINE e == Detach(c, f)
           d == ReleasePage(c, f)
<1>1. PICK E, H : Cache(c, E, H) /\ H = {}
  BY DEF Whole
<1>2. f \in E /\ FreeFrame \in FrameState
  BY <1>1, FreeFrameIs DEF Cache
<1>4. Cache(e, E \ {f}, H \cup {f}) /\ Detached(c, e, f)
  BY <1>1, <1>2, DetachCache
<1>3. /\ Cache(e, E \ {f}, H \cup {f}) /\ e.frame = c.frame
      /\ \A r \in PageIDs : e.map[r] = IF r = c.frame[f].id THEN << >> ELSE c.map[r]
  <2> HIDE DEF e
  <2> QED BY <1>4 DEF Detached
<1>5. d = Hold(e, f, FreeFrame)
  BY Zenon DEF ReleasePage, FreePage, Hold
<1> HIDE DEF e, d
<1>6. Cache(d, E \ {f}, (H \cup {f}) \ {f})
  <2>1. f \in Frames \ (E \ {f})
    OBVIOUS
  <2> QED BY <1>2, <1>3, <1>5, <2>1, HoldCache
<1>7. d.map = e.map /\ \A g \in Frames : d.frame[g] = IF g = f THEN FreeFrame ELSE e.frame[g]
  <2>1. e \in CacheType
    BY <1>3 DEF Cache
  <2>2. Holds(d, e, f, FreeFrame)
    BY <1>2, <1>5, <2>1, HoldFields
  <2> QED BY <2>2 DEF Holds
<1>8. (H \cup {f}) \ {f} = {}
  BY <1>1
<1>9. Whole(d)
  BY <1>6, <1>8 DEF Whole
<1>10. ASSUME NEW p \in PageIDs
       PROVE  FindPage(d, p) = IF FindPage(c, p) = f THEN NULL ELSE FindPage(c, p)
  <2>1. c.frame[f].id = p <=> FindPage(c, p) = f
    BY <1>1, <1>2, FindIs
  <2>2. d.map[p] = IF p = c.frame[f].id THEN << >> ELSE c.map[p]
    BY <1>3, <1>7
  <2>3. CASE p = c.frame[f].id
    BY <2>1, <2>2, <2>3 DEF FindPage
  <2>4. CASE p # c.frame[f].id
    BY <2>1, <2>2, <2>4 DEF FindPage
  <2> QED BY <2>3, <2>4
<1>11. \A g \in Frames : d.frame[g] = IF g = f THEN FreeFrame ELSE c.frame[g]
  BY <1>3, <1>7
<1> QED BY <1>9, <1>10, <1>11 DEF d, Released

\* An opened table caches nothing.
LEMMA OpenIs ==
  /\ Whole(OpenCache) /\ \A p \in PageIDs : FindPage(OpenCache, p) = NULL
  /\ \A f \in Frames : ~OpenCache.frame[f].dirty
<1> DEFINE c == OpenCache
<1>1. /\ c.queue = Dqueue!EmptyDqueue /\ c.map = [p \in PageIDs |-> << >>]
      /\ c.frame = [f \in Frames |-> FreeFrame] /\ c.num = 0 /\ c.limit = CachePages
      /\ c = [queue |-> c.queue, map |-> c.map, frame |-> c.frame, num |-> c.num, limit |-> c.limit]
  BY DEF OpenCache
<1> HIDE DEF c
<1>2. Strung(c.queue, << >>) /\ Elements(<< >>) = {} /\ Len(<< >>) = 0
  BY <1>1, EmptyStrung
<1>3. c \in CacheType
  <2>1. c.queue \in Dqueue!DqueueType
    BY <1>2 DEF Strung
  <2>2. c.map \in [PageIDs -> Seq(Frames)]
    <3>1. << >> \in Seq(Frames)
      OBVIOUS
    <3> QED BY <1>1, <3>1
  <2>3. c.frame \in [Frames -> FrameState]
    BY <1>1, FreeFrameIs
  <2>4. c.num \in Nat /\ c.limit \in Nat
    BY <1>1, Sizes
  <2> QED BY <1>1, <2>1, <2>2, <2>3, <2>4, CacheTyped
<1>4. \A f \in Frames : c.frame[f].id = NULL /\ ~c.frame[f].dirty
  BY <1>1, FreeFrameIs
<1>5. \A p \in PageIDs : c.map[p] = << >>
  BY <1>1
<1>6. Cache(c, {}, {})
  <2>1. \E s : Strung(c.queue, s) /\ Elements(s) = {} /\ Len(s) = c.num
    BY <1>1, <1>2
  <2> QED BY <1>3, <1>4, <1>5, <2>1 DEF Cache
<1> QED BY <1>4, <1>5, <1>6 DEF c, Whole, FindPage

\* What CacheSound asks of the containers.
LEMMA SoundCache ==
    ASSUME NEW c, Whole(c)
    PROVE  CacheSound(c) /\ \A f \in Frames : c.frame[f].id # NULL <=> f \in CachedFrames(c)
<1>1. PICK E : Cache(c, E, {})
  BY DEF Whole
<1>2. PICK s : Strung(c.queue, s) /\ Elements(s) = E /\ Len(s) = c.num
  BY <1>1 DEF Cache
<1> DEFINE order == Dqueue!Contents(c.queue)
<1>3. order = s
  BY <1>2, ContentsIs
<1>4. s \in Seq(Frames) /\ OneToOne(s) /\ Len(s) \in Nat /\ DOMAIN s = 1..Len(s)
  BY <1>2, SeqIs DEF Strung
<1>5. \A p \in PageIDs : c.map[p] = << >> \/ (Len(c.map[p]) = 1 /\ c.frame[c.map[p][1]].id = p)
  <2> SUFFICES ASSUME NEW p \in PageIDs, c.map[p] # << >>
               PROVE  Len(c.map[p]) = 1 /\ c.frame[c.map[p][1]].id = p
    OBVIOUS
  <2>1. PICK f \in E : c.map[p] = <<f>> /\ c.frame[f].id = p
    BY <1>1 DEF Cache
  <2> QED BY <2>1
<1>6. CachedFrames(c) = E
  <2>1. ASSUME NEW f \in E PROVE f \in CachedFrames(c)
    <3>1. f \in Frames /\ c.frame[f].id \in PageIDs /\ c.map[c.frame[f].id] = <<f>>
      BY <1>1 DEF Cache
    <3> DEFINE p == c.frame[f].id
    <3>2. 1 \in DOMAIN c.map[p] /\ c.map[p][1] = f
      BY <3>1
    <3> QED BY <3>1, <3>2 DEF CachedFrames
  <2>2. ASSUME NEW f \in CachedFrames(c) PROVE f \in E
    <3>1. PICK p \in PageIDs : \E i \in DOMAIN c.map[p] : c.map[p][i] = f
      BY DEF CachedFrames
    <3>2. PICK i \in DOMAIN c.map[p] : c.map[p][i] = f
      BY <3>1
    <3>3. c.map[p] # << >>
      BY <3>2
    <3>4. PICK g \in E : c.map[p] = <<g>>
      BY <1>1, <3>3 DEF Cache
    <3>5. f = g
      <4>1. DOMAIN <<g>> = {1} /\ <<g>>[1] = g
        OBVIOUS
      <4> QED BY <3>2, <3>4, <4>1
    <3> QED BY <3>5
  <2> QED BY <2>1, <2>2
<1>7. {order[i] : i \in DOMAIN order} = CachedFrames(c)
  BY <1>2, <1>3, <1>4, <1>6 DEF Elements
<1>8. Len(order) = c.num /\ Cardinality(CachedFrames(c)) = c.num
  BY <1>2, <1>3, <1>4, <1>6, CountElements
<1>9. \A i \in 1..Len(order) - 1 : c.queue.prev[order[i + 1]] = order[i]
  <2> SUFFICES ASSUME NEW i \in 1..Len(s) - 1 PROVE c.queue.prev[s[i + 1]] = s[i]
    BY <1>3
  <2>1. i + 1 \in 1..Len(s) /\ i + 1 # 1 /\ (i + 1) - 1 = i
    BY <1>4
  <2> QED BY <1>2, <2>1 DEF Strung
<1>10. c.num > 0 => c.queue.back = order[Len(order)]
  BY <1>2, <1>3, <1>4 DEF Strung
<1>11. CacheSound(c)
  <2> HIDE DEF order
  <2> QED BY <1>5, <1>7, <1>8, <1>9, <1>10 DEF CacheSound, order
<1>12. \A f \in Frames : c.frame[f].id # NULL <=> f \in E
  BY <1>1, PagesAre DEF Cache
<1> QED BY <1>6, <1>11, <1>12

-----------------------------------------------------------------------------
(* The table *)

Copies == [isnew : BOOLEAN, content : Content]

Package == UNION {[P -> Copies] : P \in SUBSET PageIDs}

\* The copies of a package.
LEMMA PackageIs ==
    ASSUME NEW k \in Package
    PROVE  DOMAIN k \subseteq PageIDs /\ \A p \in DOMAIN k : k[p] \in Copies /\ k[p].content \in Content
BY DEF Package, Copies

\* The log of a formatted table is a package.
LEMMA EmptyPackage == EmptyLog \in Package
<1>1. EmptyLog \in [{} -> Copies]
  BY DEF EmptyLog
<1> QED BY <1>1 DEF Package

\* The stored part of a table.
Filed(t) ==
  /\ t.device \in [PageIDs -> Content] /\ t.packages \in Seq(Package) /\ t.log \in Package

\* One more package writes its pages.
LEMMA AfterNone ==
    ASSUME NEW t, NEW p
    PROVE  PageAfter(t, 0, p) = t.device[p]
<1>1. Holders(t, 0, p) = {}
  BY DEF Holders
<1> QED BY <1>1 DEF PageAfter

\* One more package writes its pages over the ones before.
LEMMA AfterOneMore ==
    ASSUME NEW t, NEW p, NEW n \in Nat
    PROVE  PageAfter(t, n + 1, p) =
             IF p \in DOMAIN t.packages[n + 1] THEN t.packages[n + 1][p].content ELSE PageAfter(t, n, p)
<1> DEFINE H == Holders(t, n, p)
           J == Holders(t, n + 1, p)
<1>1. 1..n + 1 = 1..n \cup {n + 1}
  OBVIOUS
<1>2. J = IF p \in DOMAIN t.packages[n + 1] THEN H \cup {n + 1} ELSE H
  BY <1>1 DEF Holders
<1>3. J \in SUBSET Nat /\ \A x \in J : x <= n + 1
  BY DEF Holders
<1> HIDE DEF H, J
<1>4. CASE p \in DOMAIN t.packages[n + 1]
  <2>1. n + 1 \in J /\ J # {}
    BY <1>2, <1>4
  <2>2. Max(J) \in J /\ \A y \in J : y <= Max(J)
    <3>1. n + 1 \in Nat
      OBVIOUS
    <3> QED BY <1>3, <2>1, <3>1, MaxIs
  <2>3. Max(J) = n + 1
    <3>1. Max(J) \in Nat /\ Max(J) <= n + 1 /\ n + 1 <= Max(J)
      BY <1>3, <2>1, <2>2
    <3> QED BY <3>1
  <2> QED BY <1>4, <2>1, <2>3 DEF PageAfter, J
<1>5. CASE p \notin DOMAIN t.packages[n + 1]
  <2>1. J = H
    BY <1>2, <1>5
  <2> QED BY <1>5, <2>1 DEF PageAfter, J, H
<1> QED BY <1>4, <1>5

\* The pages after n packages depend on these and on the device only.
LEMMA AfterSame ==
    ASSUME NEW t, NEW u, NEW n \in Nat, NEW p, u.device[p] = t.device[p],
           \A i \in 1..n : u.packages[i] = t.packages[i]
    PROVE  PageAfter(u, n, p) = PageAfter(t, n, p)
<1> DEFINE H == Holders(t, n, p)
           J == Holders(u, n, p)
<1>1. J = H
  BY DEF Holders
<1>2. CASE H = {}
  BY <1>1, <1>2 DEF PageAfter
<1>3. CASE H # {}
  <2>1. H \in SUBSET Nat /\ H \subseteq 1..n /\ \A x \in H : x <= n
    BY DEF Holders
  <2> HIDE DEF H, J
  <2>2. Max(H) \in H
    BY <1>3, <2>1, MaxIs
  <2>3. u.packages[Max(H)] = t.packages[Max(H)]
    BY <2>1, <2>2
  <2> QED BY <1>1, <1>3, <2>3 DEF PageAfter, H, J
<1> QED BY <1>2, <1>3

\* Append, Head and Tail of the queue of packages.
LEMMA SeqHas ==
    ASSUME NEW s \in Seq(Package)
    PROVE  /\ Len(s) \in Nat /\ \A i \in 1..Len(s) : s[i] \in Package
           /\ \A k \in Package : /\ Append(s, k) \in Seq(Package) /\ Len(Append(s, k)) = Len(s) + 1
                                 /\ Append(s, k)[Len(s) + 1] = k
                                 /\ \A i \in 1..Len(s) : Append(s, k)[i] = s[i]
           /\ s = << >> <=> Len(s) = 0
           /\ s # << >> => /\ Head(s) = s[1] /\ Head(s) \in Package /\ Tail(s) \in Seq(Package)
                           /\ Len(Tail(s)) = Len(s) - 1 /\ Len(s) >= 1
                           /\ \A i \in 1..Len(s) - 1 : Tail(s)[i] = s[i + 1]
OBVIOUS

\* The pages after some packages are pages.
LEMMA AfterTyped ==
    ASSUME NEW t, Filed(t), NEW n \in 0..Len(t.packages), NEW p \in PageIDs
    PROVE  PageAfter(t, n, p) \in Content
<1> DEFINE N == Len(t.packages)
           S == {i \in 0..N : PageAfter(t, i, p) \in Content}
<1>1. N \in Nat /\ \A i \in 1..N : t.packages[i] \in Package
  BY SeqHas DEF Filed
<1>2. 0 \in S
  BY <1>1, AfterNone DEF Filed
<1>3. ASSUME NEW i \in 0..N - 1, i \in S PROVE i + 1 \in S
  <2>1. i \in Nat /\ i + 1 \in 1..N /\ i + 1 \in 0..N /\ PageAfter(t, i, p) \in Content
    BY <1>1, <1>3
  <2>2. t.packages[i + 1] \in Package
    BY <1>1, <2>1
  <2>3. PageAfter(t, i + 1, p) =
          IF p \in DOMAIN t.packages[i + 1] THEN t.packages[i + 1][p].content ELSE PageAfter(t, i, p)
    BY <2>1, AfterOneMore
  <2> HIDE DEF N
  <2>4. PageAfter(t, i + 1, p) \in Content
    BY <2>1, <2>2, <2>3, PackageIs
  <2> QED BY <2>1, <2>4
<1> HIDE DEF S, N
<1>4. \A i \in 0..N : i \in S
  BY <1>1, <1>2, <1>3, Reaches
<1> QED BY <1>4 DEF S, N

\* The oldest package is written, and dropped.
LEMMA AfterShift ==
    ASSUME NEW t, Filed(t), t.packages # << >>, NEW u, u.packages = Tail(t.packages),
           u.device = WritePages(t.device, Head(t.packages), DOMAIN Head(t.packages)),
           NEW p \in PageIDs
    PROVE  \A n \in 0..Len(t.packages) - 1 : PageAfter(u, n, p) = PageAfter(t, n + 1, p)
<1> DEFINE N == Len(t.packages) - 1
           S == {i \in 0..N : PageAfter(u, i, p) = PageAfter(t, i + 1, p)}
<1>1. /\ N \in Nat /\ Len(t.packages) = N + 1 /\ Head(t.packages) = t.packages[1]
      /\ \A i \in 1..N : u.packages[i] = t.packages[i + 1]
  BY SeqHas DEF Filed
<1> HIDE DEF N
<1>2. PageAfter(u, 0, p) = PageAfter(t, 1, p)
  <2>1. PageAfter(u, 0, p) = u.device[p]
    BY AfterNone
  <2>2. PageAfter(t, 0 + 1, p) =
          IF p \in DOMAIN t.packages[0 + 1] THEN t.packages[0 + 1][p].content ELSE PageAfter(t, 0, p)
    BY AfterOneMore
  <2>3. PageAfter(t, 0, p) = t.device[p]
    BY AfterNone
  <2>4. 0 + 1 = 1
    OBVIOUS
  <2> QED BY <1>1, <2>1, <2>2, <2>3, <2>4 DEF WritePages
<1>3. ASSUME NEW i \in 0..N - 1, i \in S PROVE i + 1 \in S
  <2>1. i \in Nat /\ PageAfter(u, i, p) = PageAfter(t, i + 1, p)
    BY <1>1, <1>3
  <2>2. PICK j \in 1..N : j = i + 1 /\ j \in Nat /\ j \in 0..N
    BY <1>1
  <2>3. PageAfter(u, j, p) =
          IF p \in DOMAIN u.packages[j] THEN u.packages[j][p].content ELSE PageAfter(u, i, p)
    BY <2>1, <2>2, AfterOneMore
  <2>4. PageAfter(t, j + 1, p) =
          IF p \in DOMAIN t.packages[j + 1] THEN t.packages[j + 1][p].content ELSE PageAfter(t, j, p)
    BY <2>2, AfterOneMore
  <2>5. u.packages[j] = t.packages[j + 1]
    BY <1>1, <2>2
  <2>6. PageAfter(u, i, p) = PageAfter(t, j, p)
    BY <2>1, <2>2
  <2>7. PageAfter(u, j, p) = PageAfter(t, j + 1, p)
    <3> DEFINE k == t.packages[j + 1]
               l == u.packages[j]
    <3>1. k = l
      BY <2>5
    <3>2. PageAfter(u, j, p) = IF p \in DOMAIN l THEN l[p].content ELSE PageAfter(u, i, p)
      BY <2>3
    <3>3. PageAfter(t, j + 1, p) = IF p \in DOMAIN k THEN k[p].content ELSE PageAfter(t, j, p)
      BY <2>4
    <3> HIDE DEF k, l
    <3> QED BY <2>6, <3>1, <3>2, <3>3
  <2> QED BY <2>2, <2>7
<1>4. 0 \in S
  BY <1>1, <1>2
<1> HIDE DEF S
<1>5. \A i \in 0..N : i \in S
  BY <1>1, <1>3, <1>4, Reaches
<1> QED BY <1>5 DEF S, N

\* A part of the oldest package is written: with it nothing changes.
LEMMA AfterPart ==
    ASSUME NEW t, Filed(t), t.packages # << >>, NEW u, u.packages = t.packages,
           NEW written \in SUBSET DOMAIN Head(t.packages),
           u.device = WritePages(t.device, Head(t.packages), written),
           NEW p \in PageIDs
    PROVE  \A n \in 1..Len(t.packages) : PageAfter(u, n, p) = PageAfter(t, n, p)
<1> DEFINE N == Len(t.packages) - 1
           S == {i \in 0..N : PageAfter(u, i + 1, p) = PageAfter(t, i + 1, p)}
<1>1. N \in Nat /\ Len(t.packages) = N + 1 /\ Head(t.packages) = t.packages[1]
  BY SeqHas DEF Filed
<1> HIDE DEF N
<1>2. PageAfter(u, 0 + 1, p) = PageAfter(t, 0 + 1, p)
  <2>1. PageAfter(u, 0, p) = u.device[p]
    BY AfterNone
  <2>2. PageAfter(t, 0 + 1, p) =
          IF p \in DOMAIN t.packages[0 + 1] THEN t.packages[0 + 1][p].content ELSE PageAfter(t, 0, p)
    BY AfterOneMore
  <2>3. PageAfter(t, 0, p) = t.device[p]
    BY AfterNone
  <2>4. PageAfter(u, 0 + 1, p) =
          IF p \in DOMAIN u.packages[0 + 1] THEN u.packages[0 + 1][p].content ELSE PageAfter(u, 0, p)
    BY AfterOneMore
  <2>5. 0 + 1 = 1
    OBVIOUS
  <2>6. CASE p \in DOMAIN t.packages[1]
    BY <2>2, <2>4, <2>5, <2>6
  <2>7. CASE p \notin DOMAIN t.packages[1]
    <3>1. u.device[p] = t.device[p]
      BY <1>1, <2>7 DEF WritePages
    <3> QED BY <2>1, <2>2, <2>3, <2>4, <2>5, <2>7, <3>1
  <2> QED BY <2>6, <2>7
<1>3. ASSUME NEW i \in 0..N - 1, i \in S PROVE i + 1 \in S
  <2>1. i \in Nat /\ i + 1 \in Nat /\ i + 1 \in 0..N /\ PageAfter(u, i + 1, p) = PageAfter(t, i + 1, p)
    <3>1. PageAfter(u, i + 1, p) = PageAfter(t, i + 1, p)
      BY <1>3
    <3> QED BY SMTT(30), <1>1, <3>1
  <2>2. PageAfter(u, (i + 1) + 1, p) =
          IF p \in DOMAIN u.packages[(i + 1) + 1] THEN u.packages[(i + 1) + 1][p].content ELSE PageAfter(u, i + 1, p)
    BY <2>1, AfterOneMore
  <2>3. PageAfter(t, (i + 1) + 1, p) =
          IF p \in DOMAIN t.packages[(i + 1) + 1] THEN t.packages[(i + 1) + 1][p].content ELSE PageAfter(t, i + 1, p)
    BY <2>1, AfterOneMore
  <2> QED BY <2>1, <2>2, <2>3
<1>4. 0 \in S
  BY <1>1, <1>2
<1> HIDE DEF S
<1>5. \A i \in 0..N : i \in S
  BY <1>1, <1>3, <1>4, Reaches
<1>6. ASSUME NEW n \in 1..N + 1 PROVE PageAfter(u, n, p) = PageAfter(t, n, p)
  <2>1. n - 1 \in 0..N /\ (n - 1) + 1 = n
    BY <1>1
  <2>2. n - 1 \in S
    BY <1>5, <2>1
  <2> QED BY <2>1, <2>2 DEF S
<1> QED BY <1>1, <1>6
-----------------------------------------------------------------------------
(* What the table shows, and what holds of it between any two calls *)

Newest(t, p) == PageAfter(t, Len(t.packages), p)

Page(t, p) ==
  IF FindPage(t.cache, p) # NULL THEN t.cache.frame[FindPage(t.cache, p)].content ELSE Newest(t, p)

Sound(t) ==
  /\ t = [cache |-> t.cache, dirty |-> t.dirty, packages |-> t.packages, log |-> t.log, device |-> t.device]
  /\ Whole(t.cache) /\ Filed(t)
  /\ t.dirty \in Seq(Frames) /\ OneToOne(t.dirty)
  /\ \A f \in Frames : f \in Elements(t.dirty) <=> t.cache.frame[f].dirty
  /\ \A p \in PageIDs : FindPage(t.cache, p) # NULL /\ ~t.cache.frame[FindPage(t.cache, p)].dirty =>
                          t.cache.frame[FindPage(t.cache, p)].content = Newest(t, p)
  /\ \A p \in PageIDs : FindPage(t.cache, p) # NULL /\ p # 0 =>
                          t.cache.frame[FindPage(t.cache, p)].content[0] # NULL

\* The newest stored page is a page.
LEMMA NewestTyped ==
    ASSUME NEW t, Filed(t), NEW p \in PageIDs
    PROVE  Newest(t, p) \in Content /\ Newest(t, p) # NULL
<1>1. Len(t.packages) \in 0..Len(t.packages)
  BY SeqHas DEF Filed
<1>2. Newest(t, p) \in Content
  BY <1>1, AfterTyped DEF Newest
<1> QED BY <1>2, PagesAre

\* What the table shows of a page is a page.
LEMMA PageTyped ==
    ASSUME NEW t, Sound(t), NEW p \in PageIDs
    PROVE  Page(t, p) \in Content
<1>1. Newest(t, p) \in Content
  BY NewestTyped DEF Sound
<1>2. CASE FindPage(t.cache, p) # NULL
  <2>1. t.cache.frame[FindPage(t.cache, p)] \in FrameState
    BY <1>2, WholeIs DEF Sound
  <2> QED BY <1>2, <2>1, FrameFields DEF Page
<1> QED BY <1>1, <1>2 DEF Page

\* ReadPage delivers the newest stored page, or nothing.
LEMMA ReadIs ==
    ASSUME NEW t, Filed(t), NEW p \in PageIDs, NEW fails \in BOOLEAN
    PROVE  /\ ReadPage(t, p, fails) \in Content \cup {NULL}
           /\ ReadPage(t, p, fails) # NULL => ReadPage(t, p, fails) = Newest(t, p)
           /\ ~fails => ReadPage(t, p, fails) = Newest(t, p)
<1> DEFINE H == Holders(t, Len(t.packages), p)
<1>1. Newest(t, p) \in Content
  BY NewestTyped
<1>2. H = {} => t.device[p] = Newest(t, p)
  BY DEF Newest, PageAfter
<1>3. H # {} => ReadPage(t, p, fails) = Newest(t, p)
  BY DEF ReadPage, Newest
<1>4. H = {} /\ ~fails => ReadPage(t, p, fails) = t.device[p]
  BY DEF ReadPage
<1>5. H = {} /\ fails => ReadPage(t, p, fails) = NULL
  BY DEF ReadPage
<1> HIDE DEF H
<1> QED BY <1>1, <1>2, <1>3, <1>4, <1>5

\* Read answers with the record of the page the table shows.
LEMMA AnswerIs ==
    ASSUME NEW t, Sound(t), NEW id \in IDs
    PROVE  Answer(t, id) = Page(t, GetPageID(id))[GetPageRecord(id)]
<1> DEFINE p == GetPageID(id)
<1>1. p \in PageIDs
  BY PagesAre
<1>2. ReadPage(t, p, FALSE) = Newest(t, p)
  BY <1>1, ReadIs DEF Sound
<1>3. CASE FindPage(t.cache, p) # NULL
  BY <1>3 DEF Answer, Page, GetRecord
<1>4. CASE FindPage(t.cache, p) = NULL
  BY <1>2, <1>4 DEF Answer, Page
<1> QED BY <1>3, <1>4

-----------------------------------------------------------------------------
(* Read, Update and Append *)

Stays(t, u) == u.packages = t.packages /\ u.log = t.log /\ u.device = t.device

\* What leaves packages and device alone changes no stored page.
LEMMA AfterStays ==
    ASSUME NEW t, NEW u, Stays(t, u)
    PROVE  \A n, p : PageAfter(u, n, p) = PageAfter(t, n, p)
<1> TAKE n, p
<1>1. Holders(u, n, p) = Holders(t, n, p)
  BY DEF Holders, Stays
<1> QED BY <1>1 DEF PageAfter, Stays

\* What leaves packages and device alone changes no newest page.
LEMMA NewestStays ==
    ASSUME NEW t, NEW u, Stays(t, u)
    PROVE  \A p : Newest(u, p) = Newest(t, p)
BY AfterStays DEF Newest, Stays

\* Nothing but clean pages moves when a page is loaded.
LEMMA LoadedDirty ==
    ASSUME NEW c, Whole(c), NEW d, NEW p \in PageIDs, NEW stored, Loaded(c, d, p, stored)
    PROVE  \A f \in Frames : d.frame[f].dirty <=> c.frame[f].dirty
<1>1. Whole(d) /\ Kept(c, d, p)
  BY DEF Loaded
<1>2. ASSUME NEW f \in Frames, c.frame[f].dirty PROVE d.frame[f].dirty
  <2> DEFINE r == c.frame[f].id
  <2>1. r \in PageIDs /\ FindPage(c, r) = f /\ f # NULL
    BY <1>2, WholeIs, Sizes
  <2> HIDE DEF r
  <2>2. CASE r = p
    BY <1>2, <2>1, <2>2 DEF Loaded
  <2>3. CASE r # p
    BY <1>1, <1>2, <2>1, <2>3 DEF Kept
  <2> QED BY <2>2, <2>3
<1>3. ASSUME NEW f \in Frames, d.frame[f].dirty PROVE c.frame[f].dirty
  <2> DEFINE r == d.frame[f].id
  <2>1. r \in PageIDs /\ FindPage(d, r) = f /\ f # NULL
    BY <1>1, <1>3, WholeIs, Sizes
  <2> HIDE DEF r
  <2>2. CASE r = p
    BY <1>3, <2>1, <2>2 DEF Loaded
  <2>3. CASE r # p
    BY <1>1, <1>3, <2>1, <2>3 DEF Kept
  <2> QED BY <2>2, <2>3
<1>4. ASSUME NEW f \in Frames PROVE c.frame[f].dirty \in BOOLEAN /\ d.frame[f].dirty \in BOOLEAN
  <2>1. c.frame \in [Frames -> FrameState] /\ d.frame \in [Frames -> FrameState]
    BY <1>1, CacheFields, WholeIs
  <2> QED BY <2>1, FrameFields
<1> QED BY <1>2, <1>3, <1>4

\* What a GetPage leaves of the table.
Loads(t, u, p, fails) ==
  /\ Sound(u) /\ Stays(t, u) /\ u.dirty = t.dirty
  /\ \A q \in PageIDs : Page(u, q) = Page(t, q)
  /\ GetsTablePage(t, p, fails) <=> FindPage(u.cache, p) # NULL

\* GetPage changes nothing the table shows, whichever page it evicts.
LEMMA LoadIs ==
    ASSUME NEW t, Sound(t), NEW p \in PageIDs, NEW fails \in BOOLEAN,
           GetsTablePage(t, p, fails) /\ p # 0 => Page(t, p)[0] # NULL
    PROVE  Loads(t, GetTablePage(t, p, fails), p, fails)
<1> DEFINE u == GetTablePage(t, p, fails)
           c == t.cache
           d == u.cache
           stored == ReadPage(t, p, fails)
<1>1. t = [cache |-> t.cache, dirty |-> t.dirty, packages |-> t.packages, log |-> t.log, device |-> t.device]
  BY DEF Sound
<1>2. /\ d = GetPage(c, p, stored) /\ Stays(t, u) /\ u.dirty = t.dirty
      /\ u = [cache |-> u.cache, dirty |-> u.dirty, packages |-> u.packages, log |-> u.log, device |-> u.device]
  BY ONLY <1>1 DEF GetTablePage, Stays
<1>3. stored \in Content \cup {NULL} /\ (stored # NULL => stored = Newest(t, p))
  BY ReadIs DEF Sound
<1>4. GetsTablePage(t, p, fails) <=> FindPage(c, p) # NULL \/ stored # NULL
  BY DEF GetsTablePage, Gets
<1> HIDE DEF u, stored
<1>5. Whole(c)
  BY DEF Sound
<1>6. Loaded(c, d, p, stored)
  BY <1>2, <1>3, <1>5, GetPageIs
<1>7. \A f \in Frames : d.frame[f].dirty <=> c.frame[f].dirty
  BY <1>5, <1>6, LoadedDirty
<1>8. \A q : Newest(u, q) = Newest(t, q)
  BY <1>2, NewestStays
<1>9. Filed(u)
  BY <1>2 DEF Sound, Filed, Stays
<1>10. Kept(c, d, p) /\ Whole(d)
  BY <1>6 DEF Loaded
\* Page by page.
<1>11. ASSUME NEW q \in PageIDs
       PROVE  /\ Page(u, q) = Page(t, q)
              /\ FindPage(d, q) # NULL /\ ~d.frame[FindPage(d, q)].dirty =>
                   d.frame[FindPage(d, q)].content = Newest(u, q)
              /\ FindPage(d, q) # NULL /\ q # 0 => d.frame[FindPage(d, q)].content[0] # NULL
  <2>1. /\ FindPage(c, q) # NULL /\ ~c.frame[FindPage(c, q)].dirty =>
             c.frame[FindPage(c, q)].content = Newest(t, q)
        /\ FindPage(c, q) # NULL /\ q # 0 => c.frame[FindPage(c, q)].content[0] # NULL
    BY DEF Sound
  <2>2. Newest(u, q) = Newest(t, q)
    BY <1>8
  <2>3. CASE FindPage(d, q) = FindPage(c, q) /\ (FindPage(c, q) # NULL => d.frame[FindPage(c, q)] = c.frame[FindPage(c, q)])
    <3>1. CASE FindPage(c, q) = NULL
      BY <2>2, <2>3, <3>1 DEF Page
    <3>2. CASE FindPage(c, q) # NULL
      BY <2>1, <2>2, <2>3, <3>2 DEF Page
    <3> QED BY <3>1, <3>2
  <2>4. CASE FindPage(c, q) # NULL /\ FindPage(d, q) = NULL /\ ~c.frame[FindPage(c, q)].dirty
    BY <2>1, <2>2, <2>4 DEF Page
  <2>5. CASE q = p /\ FindPage(c, p) = NULL /\ stored # NULL
    <3>1. FindPage(d, p) # NULL /\ ~d.frame[FindPage(d, p)].dirty /\ d.frame[FindPage(d, p)].content = stored
      BY <1>6, <2>5 DEF Loaded
    <3>2. stored = Newest(t, p) /\ Page(t, p) = Newest(t, p)
      BY <1>3, <2>5 DEF Page
    <3>3. q # 0 => Page(t, p)[0] # NULL
      BY <1>4, <2>5
    <3>4. Page(u, p) = stored
      BY <3>1 DEF Page
    <3> QED BY <2>2, <2>5, <3>1, <3>2, <3>3, <3>4
  <2>6. CASE q # p
    BY <1>10, <2>3, <2>4, <2>6 DEF Kept
  <2>7. CASE q = p /\ (FindPage(c, p) # NULL \/ stored = NULL)
    BY <1>6, <2>3, <2>7 DEF Loaded
  <2> QED BY <2>5, <2>6, <2>7
<1>12. Sound(u)
  <2>1. \A f \in Frames : f \in Elements(u.dirty) <=> d.frame[f].dirty
    BY <1>2, <1>7 DEF Sound
  <2>2. u.dirty \in Seq(Frames) /\ OneToOne(u.dirty)
    BY <1>2 DEF Sound
  <2> QED BY <1>2, <1>9, <1>10, <1>11, <2>1, <2>2 DEF Sound
<1>13. GetsTablePage(t, p, fails) <=> FindPage(d, p) # NULL
  BY <1>4, <1>6 DEF Loaded
<1> QED BY <1>2, <1>11, <1>12, <1>13 DEF Loads, u

\* Without a failing device the page is there.
LEMMA AlwaysGets ==
    ASSUME NEW t, Sound(t), NEW p \in PageIDs
    PROVE  GetsTablePage(t, p, FALSE)
<1>1. ReadPage(t, p, FALSE) # NULL
  BY ReadIs, NewestTyped DEF Sound
<1> QED BY <1>1 DEF GetsTablePage, Gets

\* One more dirty frame.
LEMMA AppendElements ==
    ASSUME NEW s \in Seq(Frames), OneToOne(s), NEW f \in Frames, f \notin Elements(s)
    PROVE  /\ Append(s, f) \in Seq(Frames) /\ OneToOne(Append(s, f))
           /\ Elements(Append(s, f)) = Elements(s) \cup {f}
<1> DEFINE n == Len(s)
           t == Append(s, f)
<1>1. n \in Nat /\ t \in Seq(Frames) /\ Len(t) = n + 1 /\ t[n + 1] = f /\ \A i \in 1..n : t[i] = s[i]
  OBVIOUS
<1>2. 1..n + 1 = 1..n \cup {n + 1} /\ \A i \in 1..n : i # n + 1 /\ s[i] # f
  BY <1>1 DEF Elements
<1> HIDE DEF t
<1>3. OneToOne(t)
  <2> SUFFICES ASSUME NEW i \in 1..n + 1, NEW j \in 1..n + 1, t[i] = t[j] PROVE i = j
    BY <1>1 DEF OneToOne
  <2>1. CASE i \in 1..n /\ j \in 1..n
    BY <1>1, <2>1 DEF OneToOne
  <2>2. CASE i \notin 1..n \/ j \notin 1..n
    BY <1>1, <1>2, <2>2
  <2> QED BY <2>1, <2>2
<1>4. Elements(t) = Elements(s) \cup {f}
  BY <1>1, <1>2 DEF Elements
<1> QED BY <1>1, <1>3, <1>4 DEF t

\* One page of the table changes, in the cache.
Put(t, u, p, x) ==
  /\ Sound(u) /\ Stays(t, u)
  /\ \A q \in PageIDs : Page(u, q) = IF q = p THEN x ELSE Page(t, q)

With(x, s, record) == [x EXCEPT ![s] = record]

\* Encoding a record changes this record of this page only.
LEMMA PutDirtyIs ==
    ASSUME NEW t, Sound(t), NEW id \in IDs, FindPage(t.cache, GetPageID(id)) # NULL, NEW record \in Versions
    PROVE  Put(t, PutDirty(t, id, record), GetPageID(id), With(Page(t, GetPageID(id)), GetPageRecord(id), record))
<1> DEFINE p == GetPageID(id)
           s == GetPageRecord(id)
           c == t.cache
           f == FindPage(c, p)
           y == [c.frame[f] EXCEPT !.content[s] = record]
           b == PutRecord(c, id, record)
           z == [b.frame[f] EXCEPT !.dirty = TRUE]
           d == [b EXCEPT !.frame[f].dirty = TRUE]
           l == IF c.frame[f].dirty THEN t.dirty ELSE Append(t.dirty, f)
           u == PutDirty(t, id, record)
           x == With(Page(t, p), s, record)
<1>1. p \in PageIDs /\ s \in Slots /\ record # NULL
  BY PagesAre, Sizes DEF Versions
<1>2. Whole(c) /\ f \in Frames /\ c.frame[f] \in FrameState /\ c.frame[f].id = p /\ p # NULL /\ f # NULL
  BY <1>1, WholeIs, PagesAre, Sizes DEF Sound
<1>3. Page(t, p) = c.frame[f].content
  BY DEF Page
<1>4. b = Hold(c, f, y)
  BY DEF PutRecord, Hold
<1>5. d = Hold(b, f, z)
  BY DEF Hold
<1>6. u = [t EXCEPT !.cache = d, !.dirty = l]
  BY DEF PutDirty
<1> HIDE DEF f, b, d, u, l
<1>7. y \in FrameState /\ y.id = p /\ y.content = x
  <2>1. c.frame[f].content \in Content
    BY <1>2, FrameFields
  <2>2. x \in Content /\ x = [c.frame[f].content EXCEPT ![s] = record]
    BY <1>1, <1>3, <2>1 DEF Content, With
  <2>3. y.id = c.frame[f].id /\ y.content = [c.frame[f].content EXCEPT ![s] = record]
    BY <1>2 DEF FrameState
  <2>4. y = [c.frame[f] EXCEPT !.content = x]
    BY <1>2, <2>2 DEF FrameState
  <2> HIDE DEF x, y
  <2> QED BY <1>2, <2>2, <2>3, <2>4 DEF FrameState
<1> HIDE DEF y, x
<1>8. Changed(c, b, f, y)
  BY <1>2, <1>4, <1>7, ChangeIs
<1>9. b.frame[f] = y
  BY <1>2, <1>8 DEF Changed
<1>10. z \in FrameState /\ z.id = p /\ z.content = x /\ z.dirty
  BY <1>7, <1>9 DEF FrameState
<1> HIDE DEF z
<1>11. Changed(b, d, f, z)
  <2>1. Whole(b) /\ b.frame[f].id # NULL /\ z.id = b.frame[f].id
    BY <1>2, <1>7, <1>8, <1>9, <1>10 DEF Changed
  <2> QED BY <1>2, <1>5, <1>10, <2>1, ChangeIs
<1>12. /\ Whole(d) /\ \A q \in PageIDs : FindPage(d, q) = FindPage(c, q)
       /\ \A g \in Frames : d.frame[g] = IF g = f THEN z ELSE c.frame[g]
  BY <1>8, <1>11 DEF Changed
<1>13. /\ u.cache = d /\ u.dirty = l /\ Stays(t, u)
       /\ u = [cache |-> u.cache, dirty |-> u.dirty, packages |-> u.packages, log |-> u.log, device |-> u.device]
  <2>1. t = [cache |-> t.cache, dirty |-> t.dirty, packages |-> t.packages, log |-> t.log, device |-> t.device]
    BY DEF Sound
  <2> QED BY ONLY <1>6, <2>1 DEF Stays
<1>14. \A q : Newest(u, q) = Newest(t, q)
  BY <1>13, NewestStays
<1>15. ASSUME NEW q \in PageIDs
       PROVE  /\ Page(u, q) = IF q = p THEN x ELSE Page(t, q)
              /\ FindPage(d, q) # NULL /\ ~d.frame[FindPage(d, q)].dirty =>
                   d.frame[FindPage(d, q)].content = Newest(u, q)
              /\ FindPage(d, q) # NULL /\ q # 0 => d.frame[FindPage(d, q)].content[0] # NULL
  <2>1. FindPage(d, q) = FindPage(c, q) /\ Newest(u, q) = Newest(t, q)
    BY <1>12, <1>14
  <2>2. /\ FindPage(c, q) # NULL /\ ~c.frame[FindPage(c, q)].dirty =>
             c.frame[FindPage(c, q)].content = Newest(t, q)
        /\ FindPage(c, q) # NULL /\ q # 0 => c.frame[FindPage(c, q)].content[0] # NULL
    BY DEF Sound
  <2>3. CASE q = p
    <3>1. FindPage(d, p) = f /\ d.frame[f] = z
      BY <1>2, <1>12, <2>1, <2>3 DEF f
    <3>2. Page(u, p) = x
      BY <1>2, <1>10, <1>13, <3>1 DEF Page
    <3>3. p # 0 => x[0] # NULL
      <4>1. Page(t, p) \in Content /\ (p # 0 => Page(t, p)[0] # NULL)
        BY <1>1, <1>2, <1>3, <2>2, <2>3, PageTyped DEF f
      <4> QED BY <1>1, <4>1, PagesAre DEF x, With, Content
    <3> QED BY <1>10, <2>3, <3>1, <3>2, <3>3
  <2>4. CASE q # p
    <3>1. FindPage(c, q) # NULL => d.frame[FindPage(c, q)] = c.frame[FindPage(c, q)]
      <4>1. FindPage(c, q) # NULL => FindPage(c, q) \in Frames /\ c.frame[FindPage(c, q)].id = q
        BY <1>2, WholeIs
      <4> QED BY <1>2, <1>12, <2>4, <4>1
    <3>2. Page(u, q) = Page(t, q)
      BY <1>13, <2>1, <3>1 DEF Page
    <3> QED BY <2>1, <2>2, <2>4, <3>1, <3>2
  <2> QED BY <2>3, <2>4
<1>16. /\ l \in Seq(Frames) /\ OneToOne(l)
       /\ \A g \in Frames : g \in Elements(l) <=> d.frame[g].dirty
  <2>1. /\ t.dirty \in Seq(Frames) /\ OneToOne(t.dirty)
        /\ \A g \in Frames : g \in Elements(t.dirty) <=> c.frame[g].dirty
    BY DEF Sound
  <2>2. CASE c.frame[f].dirty
    BY <1>2, <1>10, <1>12, <2>1, <2>2 DEF l
  <2>3. CASE ~c.frame[f].dirty
    <3>1. l = Append(t.dirty, f) /\ f \notin Elements(t.dirty)
      BY <1>2, <2>1, <2>3 DEF l
    <3>2. l \in Seq(Frames) /\ OneToOne(l) /\ Elements(l) = Elements(t.dirty) \cup {f}
      BY <1>2, <2>1, <3>1, AppendElements
    <3> QED BY <1>2, <1>10, <1>12, <2>1, <3>2
  <2> QED BY <2>2, <2>3
<1>17. Sound(u)
  <2>1. Filed(u)
    BY <1>13 DEF Sound, Filed, Stays
  <2> QED BY <1>12, <1>13, <1>15, <1>16, <2>1 DEF Sound
<1> QED BY <1>13, <1>15, <1>17 DEF Put, u, x

\* Update of a record whose page can be had.
LEMMA UpdateIs ==
    ASSUME NEW t, Sound(t), NEW id \in IDs, NEW fails \in BOOLEAN, UpdateSucceeds(t, id, fails),
           GetPageID(id) # 0 => Page(t, GetPageID(id))[0] # NULL, NEW record \in Versions
    PROVE  Put(t, UpdateRecord(t, id, record, fails), GetPageID(id),
               With(Page(t, GetPageID(id)), GetPageRecord(id), record))
<1> DEFINE p == GetPageID(id)
           e == GetTablePage(t, p, fails)
           u == UpdateRecord(t, id, record, fails)
           x == With(Page(t, p), GetPageRecord(id), record)
<1>1. p \in PageIDs
  BY PagesAre
<1>2. GetsTablePage(t, p, fails)
  BY DEF UpdateSucceeds
<1>3. u = PutDirty(e, id, record)
  BY DEF UpdateRecord
<1>4. Loads(t, e, p, fails)
  BY <1>1, LoadIs
<1> HIDE DEF e, u
<1>5. Sound(e) /\ FindPage(e.cache, p) # NULL /\ Page(e, p) = Page(t, p)
  BY <1>1, <1>2, <1>4 DEF Loads
<1>6. Put(e, u, p, With(Page(e, p), GetPageRecord(id), record))
  BY <1>3, <1>5, PutDirtyIs
<1>7. Put(e, u, p, x)
  BY <1>5, <1>6
<1> HIDE DEF x, p
<1>8. Put(t, u, p, x)
  BY <1>1, <1>4, <1>7 DEF Put, Loads, Stays
<1> QED BY <1>8 DEF x, p, u

\* Append of the first record of a page.
LEMMA AppendFirstIs ==
    ASSUME NEW t, Sound(t), NEW id \in IDs, NEW fails \in BOOLEAN, GetPageRecord(id) = 0,
           FindPage(t.cache, GetPageID(id)) = NULL
    PROVE  Put(t, AppendRecord(t, id, 0, fails), GetPageID(id), With(BlankPage, 0, 0))
<1> DEFINE p == GetPageID(id)
           c == t.cache
           b == InsertNewPage(c, p)
           f == AllocFrame(c)
           y == [b.frame[f] EXCEPT !.content[0] = 0]
           d == PutRecord(b, id, 0)
           l == Append(t.dirty, FindPage(b, p))
           u == AppendRecord(t, id, 0, fails)
           x == With(BlankPage, 0, 0)
<1>1. p \in PageIDs /\ 0 \in Slots /\ 0 \in Versions /\ 0 # NULL /\ p # NULL
  BY PagesAre, Sizes DEF Versions
<1>2. Whole(c)
  BY DEF Sound
<1>3. Inserted(c, b, p)
  BY <1>1, <1>2, InsertNewPageIs
<1>4. u = [t EXCEPT !.cache = d, !.dirty = l]
  BY DEF AppendRecord
<1>5. d = [b EXCEPT !.frame[FindPage(b, p)].content[0] = 0]
  BY DEF PutRecord
<1> HIDE DEF b, f, d, l, u
<1>6. /\ Whole(b) /\ Kept(c, b, p) /\ FindPage(b, p) = f /\ f \in Frames /\ f # NULL
      /\ c.frame[f].id = NULL /\ ~c.frame[f].dirty /\ b.frame[f].dirty /\ b.frame[f].content = BlankPage
  BY <1>3, Sizes DEF Inserted, f
<1>7. d = Hold(b, f, y)
  BY <1>5, <1>6 DEF Hold
<1>8. b.frame[f] \in FrameState /\ b.frame[f].id = p
  BY <1>1, <1>6, WholeIs
<1>9. y \in FrameState /\ y.id = p /\ y.content = x /\ y.dirty
  <2>1. x \in Content /\ x = [b.frame[f].content EXCEPT ![0] = 0]
    BY <1>1, <1>6, PagesAre DEF Content, With
  <2>2. y.id = b.frame[f].id /\ y.content = [b.frame[f].content EXCEPT ![0] = 0] /\ y.dirty = b.frame[f].dirty
    BY <1>8 DEF FrameState
  <2>3. y = [b.frame[f] EXCEPT !.content = x]
    BY <1>8, <2>1 DEF FrameState
  <2> HIDE DEF x, y
  <2>4. y \in FrameState
    BY <1>8, <2>1, <2>3 DEF FrameState
  <2> QED BY <1>6, <1>8, <2>1, <2>2, <2>4
<1> HIDE DEF y
<1>10. Changed(b, d, f, y)
  BY <1>1, <1>6, <1>7, <1>8, <1>9, ChangeIs
<1>11. /\ Whole(d) /\ \A q \in PageIDs : FindPage(d, q) = FindPage(b, q)
       /\ \A g \in Frames : d.frame[g] = IF g = f THEN y ELSE b.frame[g]
  BY <1>10 DEF Changed
<1>12. /\ u.cache = d /\ u.dirty = l /\ Stays(t, u)
       /\ u = [cache |-> u.cache, dirty |-> u.dirty, packages |-> u.packages, log |-> u.log, device |-> u.device]
  <2>1. t = [cache |-> t.cache, dirty |-> t.dirty, packages |-> t.packages, log |-> t.log, device |-> t.device]
    BY DEF Sound
  <2> QED BY ONLY <1>4, <2>1 DEF Stays
<1>13. \A q : Newest(u, q) = Newest(t, q)
  BY <1>12, NewestStays
<1>14. ASSUME NEW q \in PageIDs
       PROVE  /\ Page(u, q) = IF q = p THEN x ELSE Page(t, q)
              /\ FindPage(d, q) # NULL /\ ~d.frame[FindPage(d, q)].dirty =>
                   d.frame[FindPage(d, q)].content = Newest(u, q)
              /\ FindPage(d, q) # NULL /\ q # 0 => d.frame[FindPage(d, q)].content[0] # NULL
  <2>1. FindPage(d, q) = FindPage(b, q) /\ Newest(u, q) = Newest(t, q)
    BY <1>11, <1>13
  <2>2. /\ FindPage(c, q) # NULL /\ ~c.frame[FindPage(c, q)].dirty =>
             c.frame[FindPage(c, q)].content = Newest(t, q)
        /\ FindPage(c, q) # NULL /\ q # 0 => c.frame[FindPage(c, q)].content[0] # NULL
    BY DEF Sound
  <2>3. CASE q = p
    <3>1. FindPage(d, p) = f /\ d.frame[f] = y
      BY <1>6, <1>11, <2>1, <2>3
    <3>2. Page(u, p) = x
      BY <1>6, <1>9, <1>12, <3>1 DEF Page
    <3>3. x[0] # NULL
      BY <1>1 DEF x, With, BlankPage
    <3> QED BY <1>9, <2>3, <3>1, <3>2, <3>3
  <2>4. CASE q # p
    <3>1. FindPage(b, q) # NULL => d.frame[FindPage(b, q)] = b.frame[FindPage(b, q)]
      <4>1. FindPage(b, q) # NULL => FindPage(b, q) \in Frames /\ b.frame[FindPage(b, q)].id = q
        BY <1>6, WholeIs
      <4> QED BY <1>8, <1>11, <2>4, <4>1
    <3>2. CASE FindPage(c, q) # NULL /\ FindPage(b, q) = NULL /\ ~c.frame[FindPage(c, q)].dirty
      BY <1>12, <2>1, <2>2, <2>4, <3>2 DEF Page
    <3>3. CASE FindPage(b, q) = FindPage(c, q) /\ (FindPage(c, q) # NULL => b.frame[FindPage(c, q)] = c.frame[FindPage(c, q)])
      <4>1. CASE FindPage(c, q) = NULL
        BY <1>12, <2>1, <2>4, <3>3, <4>1 DEF Page
      <4>2. CASE FindPage(c, q) # NULL
        <5>1. d.frame[FindPage(d, q)] = c.frame[FindPage(c, q)] /\ FindPage(d, q) # NULL
          BY <2>1, <3>1, <3>3, <4>2
        <5>2. Page(u, q) = Page(t, q)
          BY <1>12, <4>2, <5>1 DEF Page
        <5> QED BY <2>1, <2>2, <2>4, <4>2, <5>1, <5>2
      <4> QED BY <4>1, <4>2
    <3> QED BY <1>6, <2>4, <3>2, <3>3 DEF Kept
  <2> QED BY <2>3, <2>4
\* The new page is one more dirty page.
<1>15. ASSUME NEW g \in Frames, g # f
       PROVE  b.frame[g].dirty <=> c.frame[g].dirty
  <2>1. ASSUME c.frame[g].dirty PROVE b.frame[g].dirty
    <3> DEFINE r == c.frame[g].id
    <3>1. r \in PageIDs /\ FindPage(c, r) = g /\ g # NULL
      BY <1>2, <2>1, WholeIs, Sizes
    <3> HIDE DEF r
    <3>2. r # p
      BY <3>1
    <3> QED BY <1>6, <2>1, <3>1, <3>2 DEF Kept
  <2>2. ASSUME b.frame[g].dirty PROVE c.frame[g].dirty
    <3> DEFINE r == b.frame[g].id
    <3>1. r \in PageIDs /\ FindPage(b, r) = g /\ g # NULL
      BY <1>6, <2>2, WholeIs, Sizes
    <3> HIDE DEF r
    <3>2. r # p
      BY <1>6, <1>15, <3>1
    <3> QED BY <1>6, <2>2, <3>1, <3>2 DEF Kept
  <2>3. c.frame[g].dirty \in BOOLEAN /\ b.frame[g].dirty \in BOOLEAN
    <3>1. c.frame \in [Frames -> FrameState] /\ b.frame \in [Frames -> FrameState]
      BY <1>2, <1>6, CacheFields, WholeIs
    <3> QED BY <3>1, FrameFields
  <2> QED BY <2>1, <2>2, <2>3
<1>16. /\ l \in Seq(Frames) /\ OneToOne(l)
       /\ \A g \in Frames : g \in Elements(l) <=> d.frame[g].dirty
  <2>1. /\ t.dirty \in Seq(Frames) /\ OneToOne(t.dirty)
        /\ \A g \in Frames : g \in Elements(t.dirty) <=> c.frame[g].dirty
    BY DEF Sound
  <2>2. l = Append(t.dirty, f) /\ f \notin Elements(t.dirty)
    BY <1>6, <2>1 DEF l
  <2>3. l \in Seq(Frames) /\ OneToOne(l) /\ Elements(l) = Elements(t.dirty) \cup {f}
    BY <1>6, <2>1, <2>2, AppendElements
  <2> QED BY <1>6, <1>9, <1>11, <1>15, <2>1, <2>3
<1>17. Sound(u)
  <2>1. Filed(u)
    BY <1>12 DEF Sound, Filed, Stays
  <2> QED BY <1>11, <1>12, <1>14, <1>16, <2>1 DEF Sound
<1> QED BY <1>12, <1>14, <1>17 DEF Put, u, x

-----------------------------------------------------------------------------
(* Rollback and pack *)

\* The cached pages of the frames of D are gone.
Emptied(c, d, D) ==
  /\ Whole(d)
  /\ \A g \in Frames : d.frame[g] = IF g \in D THEN FreeFrame ELSE c.frame[g]
  /\ \A p \in PageIDs : FindPage(d, p) = IF FindPage(c, p) \in D THEN NULL ELSE FindPage(c, p)

\* The loop over the dirty pages is the function the recursion names.
Releases(c, s, g, m) == g = [n \in 0..m |-> IF n = 0 THEN c ELSE ReleasePage(g[n - 1], s[n])]

\* The loop of RollbackUnpackCache ends.
LEMMA ReleasesExist ==
    ASSUME NEW c, NEW s, NEW k \in Nat
    PROVE  \E g : Releases(c, s, g, k)
<1> DEFINE S == {m \in 0..k : \E g : Releases(c, s, g, m)}
<1>1. 0 \in S
  <2> DEFINE g == [n \in 0..0 |-> c]
  <2>1. Releases(c, s, g, 0)
    <3>1. [n \in 0..0 |-> IF n = 0 THEN c ELSE ReleasePage(g[n - 1], s[n])] = g
      OBVIOUS
    <3> QED BY <3>1, Zenon DEF Releases
  <2> QED BY <2>1
<1>2. ASSUME NEW i \in 0..k - 1, i \in S PROVE i + 1 \in S
  <2>1. PICK g : Releases(c, s, g, i)
    BY <1>2
  <2>2. i \in Nat /\ i + 1 \in 0..k
    OBVIOUS
  <2> DEFINE h == [n \in 0..i + 1 |-> IF n = i + 1 THEN ReleasePage(g[i], s[i + 1]) ELSE g[n]]
  <2>3. ASSUME NEW n \in 0..i + 1
        PROVE  h[n] = IF n = 0 THEN c ELSE ReleasePage(h[n - 1], s[n])
    <3>1. CASE n = i + 1
      <4>1. i \in 0..i + 1 /\ i # i + 1 /\ n - 1 = i /\ n # 0
        BY <2>2, <3>1
      <4>2. h[i] = g[i] /\ h[n] = ReleasePage(g[i], s[n])
        BY <3>1, <4>1
      <4> HIDE DEF h
      <4> QED BY <4>1, <4>2
    <3>2. CASE n # i + 1
      <4>1. n \in 0..i /\ (n # 0 => n - 1 \in 0..i + 1 /\ n - 1 # i + 1)
        BY <2>2, <3>2
      <4>2. h[n] = g[n] /\ (n # 0 => h[n - 1] = g[n - 1])
        BY <3>2, <4>1
      <4>3. g[n] = IF n = 0 THEN c ELSE ReleasePage(g[n - 1], s[n])
        BY <2>1, <4>1 DEF Releases
      <4> HIDE DEF h
      <4> QED BY <4>2, <4>3
    <3> QED BY <3>1, <3>2
  <2>4. h = [n \in 0..i + 1 |-> h[n]]
    OBVIOUS
  <2> HIDE DEF h
  <2>5. h = [n \in 0..i + 1 |-> IF n = 0 THEN c ELSE ReleasePage(h[n - 1], s[n])]
    BY <2>3, <2>4
  <2>6. Releases(c, s, h, i + 1)
    BY <2>5, Zenon DEF Releases
  <2> QED BY <2>2, <2>6
<1> HIDE DEF S
<1>3. \A i \in 0..k : i \in S
  BY <1>1, <1>2, Reaches
<1>4. k \in S
  BY <1>3
<1> QED BY <1>4 DEF S

\* The loop of RollbackUnpackCache releases the dirty pages and no other.
LEMMA ReleasesAll ==
    ASSUME NEW c, Whole(c), NEW s \in Seq(Frames), OneToOne(s), \A f \in Elements(s) : c.frame[f].id # NULL,
           NEW g, Releases(c, s, g, Len(s))
    PROVE  Emptied(c, g[Len(s)], Elements(s))
<1> DEFINE k == Len(s)
           D(n) == {s[i] : i \in 1..n}
           S == {n \in 0..k : Emptied(c, g[n], D(n))}
<1>1. k \in Nat /\ \A i \in 1..k : s[i] \in Frames /\ s[i] # NULL
  BY SeqIs
<1>2. g[0] = c /\ \A n \in 1..k : g[n] = ReleasePage(g[n - 1], s[n])
  BY <1>1 DEF Releases
<1>3. 0 \in S
  <2>1. D(0) = {} /\ 0 \in 0..k
    BY <1>1
  <2> HIDE DEF D
  <2>2. Emptied(c, g[0], D(0))
    BY <1>2, <2>1 DEF Emptied
  <2> QED BY <2>1, <2>2
<1>4. ASSUME NEW n \in 0..k - 1, n \in S PROVE n + 1 \in S
  <2>1. n \in Nat /\ n + 1 \in 1..k /\ n + 1 \in 0..k /\ (n + 1) - 1 = n /\ Emptied(c, g[n], D(n))
    BY <1>1, <1>4
  <2> DEFINE f == s[n + 1]
  <2>2. f \in Frames /\ f # NULL /\ f \notin D(n) /\ D(n + 1) = D(n) \cup {f}
    <3>1. 1..n + 1 = 1..n \cup {n + 1}
      BY <2>1
    <3>2. \A i \in 1..n : i \in 1..k /\ i # n + 1
      BY <1>1, <2>1
    <3>3. \A i \in 1..n : s[i] # s[n + 1]
      BY <2>1, <3>2 DEF OneToOne
    <3> QED BY <1>1, <2>1, <3>1, <3>3
  <2>3. g[n + 1] = ReleasePage(g[n], f)
    <3>1. PICK j \in 1..k : j = n + 1
      BY <2>1
    <3>2. g[j] = ReleasePage(g[j - 1], s[j]) /\ j - 1 = n
      BY <1>2, <2>1, <3>1
    <3> QED BY <3>1, <3>2
  <2>4. f \in Elements(s)
    BY <2>1 DEF Elements
  <2> HIDE DEF f, D
  <2>5. Whole(g[n]) /\ g[n].frame[f] = c.frame[f]
    BY <2>1, <2>2 DEF Emptied
  <2>6. Released(g[n], g[n + 1], f)
    BY <2>2, <2>3, <2>4, <2>5, ReleasePageIs
  <2>7. Emptied(c, g[n + 1], D(n + 1))
    <3>1. Whole(g[n + 1])
      BY <2>6 DEF Released
    <3>2. ASSUME NEW h \in Frames
          PROVE  g[n + 1].frame[h] = IF h \in D(n + 1) THEN FreeFrame ELSE c.frame[h]
      <4>1. g[n + 1].frame[h] = IF h = f THEN FreeFrame ELSE g[n].frame[h]
        BY <2>6 DEF Released
      <4>2. g[n].frame[h] = IF h \in D(n) THEN FreeFrame ELSE c.frame[h]
        BY <2>1 DEF Emptied
      <4> QED BY <2>2, <4>1, <4>2
    <3>3. ASSUME NEW p \in PageIDs
          PROVE  FindPage(g[n + 1], p) = IF FindPage(c, p) \in D(n + 1) THEN NULL ELSE FindPage(c, p)
      <4>1. FindPage(g[n + 1], p) = IF FindPage(g[n], p) = f THEN NULL ELSE FindPage(g[n], p)
        BY <2>6 DEF Released
      <4>2. FindPage(g[n], p) = IF FindPage(c, p) \in D(n) THEN NULL ELSE FindPage(c, p)
        BY <2>1 DEF Emptied
      <4> QED BY <2>2, <4>1, <4>2
    <3> QED BY <3>1, <3>2, <3>3 DEF Emptied
  <2> QED BY <2>1, <2>7
<1> HIDE DEF S
<1>5. \A n \in 0..k : n \in S
  BY <1>1, <1>3, <1>4, Reaches
<1>6. k \in S
  BY <1>1, <1>5
<1>7. D(k) = Elements(s)
  BY DEF Elements
<1> HIDE DEF D
<1> QED BY <1>6, <1>7 DEF S

\* Of a rolled back table the packages and the device are left.
RolledBack(t, u) ==
  /\ Sound(u) /\ Stays(t, u) /\ u.dirty = << >>
  /\ \A p \in PageIDs : Page(u, p) = Newest(t, p)

\* RollbackUnpackCache goes back to the newest package.
LEMMA RollbackIs ==
    ASSUME NEW t, Sound(t)
    PROVE  RolledBack(t, RollbackUnpackCache(t))
<1> DEFINE u == RollbackUnpackCache(t)
           c == t.cache
           k == Len(t.dirty)
           g == CHOOSE h : h = [n \in 0..k |-> IF n = 0 THEN t.cache ELSE ReleasePage(h[n - 1], t.dirty[n])]
           d == g[k]
           D == Elements(t.dirty)
<1>1. /\ t = [cache |-> t.cache, dirty |-> t.dirty, packages |-> t.packages, log |-> t.log, device |-> t.device]
      /\ Whole(c) /\ t.dirty \in Seq(Frames) /\ OneToOne(t.dirty) /\ k \in Nat
      /\ \A f \in Frames : f \in D <=> c.frame[f].dirty
  BY SeqIs DEF Sound
<1>2. u = [t EXCEPT !.cache = d, !.dirty = << >>]
  BY DEF RollbackUnpackCache
<1>3. Releases(c, t.dirty, g, k)
  <2>1. \E h : h = [n \in 0..k |-> IF n = 0 THEN t.cache ELSE ReleasePage(h[n - 1], t.dirty[n])]
    <3>1. PICK h : Releases(c, t.dirty, h, k)
      BY <1>1, ReleasesExist
    <3> QED BY <3>1, Zenon DEF Releases
  <2>2. g = [n \in 0..k |-> IF n = 0 THEN t.cache ELSE ReleasePage(g[n - 1], t.dirty[n])]
    BY <2>1, Zenon
  <2> HIDE DEF g
  <2> QED BY <2>2, Zenon DEF Releases
<1> HIDE DEF g, u, k
<1>4. \A f \in D : f \in Frames /\ c.frame[f].id # NULL
  <2> SUFFICES ASSUME NEW f \in D PROVE f \in Frames /\ c.frame[f].id # NULL
    OBVIOUS
  <2>1. f \in Frames
    BY <1>1, SeqIs DEF Elements
  <2>2. c.frame[f].dirty
    BY <1>1, <2>1
  <2> QED BY <1>1, <2>1, <2>2, WholeIs, PagesAre
<1>5. Emptied(c, d, D)
  <2> HIDE DEF D, d
  <2>1. d = g[Len(t.dirty)] /\ Releases(c, t.dirty, g, Len(t.dirty))
    BY <1>3 DEF d, k
  <2>2. Emptied(c, g[Len(t.dirty)], Elements(t.dirty))
    BY <1>1, <1>4, <2>1, ReleasesAll DEF D
  <2> QED BY <2>1, <2>2 DEF D
<1> HIDE DEF d, D
<1>6. /\ u.cache = d /\ u.dirty = << >> /\ Stays(t, u)
      /\ u = [cache |-> u.cache, dirty |-> u.dirty, packages |-> u.packages, log |-> u.log, device |-> u.device]
  BY ONLY <1>1, <1>2 DEF Stays
<1>7. \A q : Newest(u, q) = Newest(t, q)
  BY <1>6, NewestStays
<1>8. \A f \in Frames : ~d.frame[f].dirty
  BY <1>1, <1>5, FreeFrameIs DEF Emptied
<1>9. ASSUME NEW p \in PageIDs
      PROVE  /\ Page(u, p) = Newest(t, p)
             /\ FindPage(d, p) # NULL => d.frame[FindPage(d, p)].content = Newest(u, p)
             /\ FindPage(d, p) # NULL /\ p # 0 => d.frame[FindPage(d, p)].content[0] # NULL
  <2> DEFINE f == FindPage(c, p)
  <2>1. CASE FindPage(d, p) = NULL
    BY <1>6, <1>7, <2>1 DEF Page
  <2>2. CASE FindPage(d, p) # NULL
    <3>1. f = FindPage(d, p) /\ f \notin D /\ f # NULL
      BY <1>5, <2>2 DEF Emptied
    <3>2. f \in Frames
      BY <1>1, <3>1, WholeIs
    <3>3. d.frame[f] = c.frame[f] /\ ~c.frame[f].dirty
      BY <1>1, <1>5, <3>1, <3>2 DEF Emptied
    <3>4. c.frame[f].content = Newest(t, p) /\ (p # 0 => c.frame[f].content[0] # NULL)
      BY <3>1, <3>3 DEF Sound
    <3> HIDE DEF f
    <3> QED BY <1>6, <1>7, <2>2, <3>1, <3>3, <3>4 DEF Page
  <2> QED BY <2>1, <2>2
<1>10. Sound(u)
  <2>1. Filed(u)
    BY <1>6 DEF Sound, Filed, Stays
  <2>2. Whole(d)
    BY <1>5 DEF Emptied
  <2>3. << >> \in Seq(Frames) /\ OneToOne(<< >>) /\ Elements(<< >>) = {}
    BY DEF OneToOne, Elements
  <2> QED BY <1>6, <1>8, <1>9, <2>1, <2>2, <2>3 DEF Sound
<1> QED BY <1>6, <1>9, <1>10 DEF RolledBack, u

\* The packed pages are a package more, and nothing else is seen of it.
Packs(t, u) ==
  /\ Sound(u) /\ u.dirty = << >> /\ u.log = t.log /\ u.device = t.device
  /\ \E k \in Package : u.packages = Append(t.packages, k)
  /\ \A p \in PageIDs :
       /\ Page(u, p) = Page(t, p) /\ PageAfter(u, Len(t.packages) + 1, p) = Page(t, p)
       /\ \A n \in 0..Len(t.packages) : PageAfter(u, n, p) = PageAfter(t, n, p)

\* PackModify makes a package of exactly what the table shows.
LEMMA PackIs ==
    ASSUME NEW t, Sound(t)
    PROVE  Packs(t, PackModify(t))
<1> DEFINE c == t.cache
           Of(p) == {i \in DOMAIN t.dirty : t.cache.frame[t.dirty[i]].id = p}
           pages == {p \in PageIDs : Of(p) # {}}
           Copy(f) == [isnew |-> t.cache.frame[f].isnew, content |-> t.cache.frame[f].content]
           k == [p \in pages |-> Copy(t.dirty[Min(Of(p))])]
           clean == [f \in Frames |->
                      IF \E i \in DOMAIN t.dirty : t.dirty[i] = f
                      THEN [t.cache.frame[f] EXCEPT !.dirty = FALSE, !.isnew = FALSE]
                      ELSE t.cache.frame[f]]
           u == PackModify(t)
           d == [t.cache EXCEPT !.frame = clean]
           L == Len(t.packages)
<1>1. /\ t = [cache |-> t.cache, dirty |-> t.dirty, packages |-> t.packages, log |-> t.log, device |-> t.device]
      /\ Whole(c) /\ t.dirty \in Seq(Frames) /\ OneToOne(t.dirty) /\ Filed(t)
      /\ \A f \in Frames : f \in Elements(t.dirty) <=> c.frame[f].dirty
  BY DEF Sound
<1>2. DOMAIN t.dirty = 1..Len(t.dirty) /\ Len(t.dirty) \in Nat /\ \A i \in 1..Len(t.dirty) : t.dirty[i] \in Frames
  BY <1>1, SeqIs
<1>3. u = [t EXCEPT !.packages = Append(t.packages, k), !.dirty = << >>, !.cache = d]
  BY <1>1 DEF PackModify
<1>4. c = [queue |-> c.queue, map |-> c.map, frame |-> c.frame, num |-> c.num, limit |-> c.limit]
      /\ c.frame \in [Frames -> FrameState]
  BY <1>1, WholeIs, CacheFields
<1> HIDE DEF u
\* A page is copied when it is dirty, from its only frame.
<1>5. ASSUME NEW p \in PageIDs, NEW i \in Of(p)
      PROVE  t.dirty[i] = FindPage(c, p) /\ FindPage(c, p) # NULL /\ c.frame[FindPage(c, p)].dirty
  <2>1. i \in 1..Len(t.dirty) /\ t.dirty[i] \in Frames /\ c.frame[t.dirty[i]].id = p
    BY <1>2
  <2>2. t.dirty[i] \in Elements(t.dirty)
    BY <2>1 DEF Elements
  <2>3. c.frame[t.dirty[i]].dirty
    BY <1>1, <2>1, <2>2
  <2>4. FindPage(c, p) = t.dirty[i]
    BY <1>1, <2>1, <2>3, WholeIs
  <2> QED BY <2>1, <2>3, <2>4, Sizes
<1>6. ASSUME NEW p \in PageIDs, FindPage(c, p) # NULL, c.frame[FindPage(c, p)].dirty
      PROVE  p \in pages
  <2> DEFINE f == FindPage(c, p)
  <2>1. f \in Frames /\ c.frame[f].id = p
    BY <1>1, <1>6, WholeIs
  <2>2. f \in Elements(t.dirty)
    BY <1>1, <1>6, <2>1
  <2>3. PICK i \in 1..Len(t.dirty) : t.dirty[i] = f
    BY <2>2 DEF Elements
  <2>4. i \in Of(p)
    BY <1>2, <2>1, <2>3
  <2> QED BY <2>4
<1>7. ASSUME NEW p \in pages
      PROVE  /\ FindPage(c, p) # NULL /\ k[p] \in Copies
             /\ k[p].content = c.frame[FindPage(c, p)].content
  <2> DEFINE O == Of(p)
  <2>1. O # {} /\ O \in SUBSET Nat /\ p \in PageIDs
    BY <1>2
  <2>2. Min(O) \in O
    <3> HIDE DEF O
    <3> QED BY <2>1, MinIs
  <2>3. t.dirty[Min(O)] = FindPage(c, p) /\ FindPage(c, p) # NULL
    BY <1>5, <2>1, <2>2
  <2>4. k[p] = Copy(FindPage(c, p))
    BY <2>3
  <2>5. c.frame[FindPage(c, p)] \in FrameState
    BY <1>1, <2>1, <2>3, WholeIs
  <2> QED BY <2>3, <2>4, <2>5, FrameFields DEF Copies
<1>8. k \in Package /\ DOMAIN k = pages
  <2>1. pages \in SUBSET PageIDs
    OBVIOUS
  <2> HIDE DEF pages, Of
  <2>2. DOMAIN k = pages
    OBVIOUS
  <2>3. k = [p \in pages |-> k[p]]
    OBVIOUS
  <2> HIDE DEF k
  <2>4. k \in [pages -> Copies]
    BY <1>7, <2>3
  <2> QED BY <2>1, <2>2, <2>4 DEF Package
<1>9. ASSUME NEW f \in Frames
      PROVE  /\ clean[f] \in FrameState /\ clean[f].id = c.frame[f].id /\ ~clean[f].dirty
             /\ clean[f].content = c.frame[f].content
  <2>1. c.frame[f] \in FrameState
    BY <1>4
  <2>2. CASE \E i \in DOMAIN t.dirty : t.dirty[i] = f
    <3>1. clean[f] = [c.frame[f] EXCEPT !.dirty = FALSE, !.isnew = FALSE]
      BY <2>2
    <3> HIDE DEF clean
    <3> QED BY <2>1, <3>1 DEF FrameState
  <2>3. CASE ~ \E i \in DOMAIN t.dirty : t.dirty[i] = f
    <3>1. clean[f] = c.frame[f]
      BY <2>3
    <3>2. f \notin Elements(t.dirty)
      BY <1>2, <2>3 DEF Elements
    <3>3. ~c.frame[f].dirty
      BY <1>1, <3>2
    <3> HIDE DEF clean
    <3> QED BY <2>1, <3>1, <3>3
  <2> QED BY <2>2, <2>3
<1>10. clean = [f \in Frames |-> clean[f]]
  OBVIOUS
<1> HIDE DEF clean, k, pages, Of
<1>11. /\ d.queue = c.queue /\ d.map = c.map /\ d.num = c.num /\ d.limit = c.limit /\ d.frame = clean
       /\ d = [queue |-> d.queue, map |-> d.map, frame |-> d.frame, num |-> d.num, limit |-> d.limit]
  <2>1. c = [queue |-> c.queue, map |-> c.map, frame |-> c.frame, num |-> c.num, limit |-> c.limit]
    BY <1>4
  <2> QED BY ONLY <2>1
<1> HIDE DEF d
<1>12. Reframed(c, d)
  <2>1. d.frame \in [Frames -> FrameState]
    BY <1>9, <1>10, <1>11
  <2>2. \A f \in Frames : d.frame[f].id = c.frame[f].id /\ ~d.frame[f].dirty
    BY <1>9, <1>11
  <2> QED BY <1>11, <2>1, <2>2 DEF Reframed
<1>13. Whole(d) /\ \A p \in PageIDs : FindPage(d, p) = FindPage(c, p)
  BY <1>1, <1>12, ReframedIs
<1>14. /\ u.cache = d /\ u.dirty = << >> /\ u.packages = Append(t.packages, k)
       /\ u.log = t.log /\ u.device = t.device
       /\ u = [cache |-> u.cache, dirty |-> u.dirty, packages |-> u.packages, log |-> u.log, device |-> u.device]
  <2> DEFINE w == Append(t.packages, k)
  <2>1. t = [cache |-> t.cache, dirty |-> t.dirty, packages |-> t.packages, log |-> t.log, device |-> t.device]
    BY <1>1
  <2>2. u = [t EXCEPT !.packages = w, !.dirty = << >>, !.cache = d]
    BY <1>3
  <2> HIDE DEF w
  <2>3. u.cache = d /\ u.dirty = << >> /\ u.packages = w
    BY ONLY <2>1, <2>2
  <2>4. u.log = t.log /\ u.device = t.device
    BY ONLY <2>1, <2>2
  <2>5. DOMAIN u = {"cache", "dirty", "packages", "log", "device"} /\ u = [i \in DOMAIN u |-> u[i]]
    BY ONLY <2>1, <2>2
  <2>6. u = [cache |-> u.cache, dirty |-> u.dirty, packages |-> u.packages, log |-> u.log, device |-> u.device]
    BY ONLY <2>5
  <2> QED BY <2>3, <2>4, <2>6 DEF w
<1>15. /\ L \in Nat /\ u.packages \in Seq(Package) /\ Len(u.packages) = L + 1
       /\ u.packages[L + 1] = k /\ \A i \in 1..L : u.packages[i] = t.packages[i]
  <2>1. t.packages \in Seq(Package)
    BY <1>1 DEF Filed
  <2> QED BY <1>8, <1>14, <2>1, SeqHas
<1>16. Filed(u)
  BY <1>1, <1>14, <1>15 DEF Filed
<1> HIDE DEF L
<1>17. ASSUME NEW p \in PageIDs, NEW n \in 0..L
       PROVE  PageAfter(u, n, p) = PageAfter(t, n, p)
  <2>1. n \in Nat /\ \A i \in 1..n : u.packages[i] = t.packages[i]
    BY <1>15
  <2>2. u.device[p] = t.device[p]
    BY <1>14
  <2> HIDE DEF u
  <2> QED BY <2>1, <2>2, AfterSame
<1>18. ASSUME NEW p \in PageIDs
       PROVE  PageAfter(u, L + 1, p) = Page(t, p)
  <2>1. PageAfter(u, L + 1, p) =
          IF p \in DOMAIN u.packages[L + 1] THEN u.packages[L + 1][p].content ELSE PageAfter(u, L, p)
    BY <1>15, AfterOneMore
  <2>2. PageAfter(u, L, p) = Newest(t, p)
    <3>1. L \in 0..L
      BY <1>15
    <3>2. PageAfter(u, L, p) = PageAfter(t, L, p)
      BY <1>17, <3>1
    <3> QED BY <3>2 DEF Newest, L
  <2>3. CASE p \in pages
    <3>1. PageAfter(u, L + 1, p) = k[p].content
      BY <1>8, <1>15, <2>1, <2>3
    <3> QED BY <1>7, <2>3, <3>1 DEF Page
  <2>4. CASE p \notin pages
    <3>1. PageAfter(u, L + 1, p) = Newest(t, p)
      BY <1>8, <1>15, <2>1, <2>2, <2>4
    <3>2. CASE FindPage(c, p) = NULL
      BY <3>1, <3>2 DEF Page
    <3>3. CASE FindPage(c, p) # NULL
      <4>1. ~c.frame[FindPage(c, p)].dirty
        BY <1>6, <2>4, <3>3
      <4>2. c.frame[FindPage(c, p)].content = Newest(t, p)
        BY <3>3, <4>1 DEF Sound
      <4> QED BY <3>1, <3>3, <4>2 DEF Page
    <3> QED BY <3>2, <3>3
  <2> QED BY <2>3, <2>4
<1>19. ASSUME NEW p \in PageIDs
       PROVE  /\ Newest(u, p) = Page(t, p) /\ Page(u, p) = Page(t, p)
              /\ FindPage(d, p) # NULL => d.frame[FindPage(d, p)].content = Page(t, p)
  <2>1. Newest(u, p) = Page(t, p)
    BY <1>15, <1>18 DEF Newest
  <2>2. CASE FindPage(c, p) = NULL
    BY <1>13, <1>14, <2>1, <2>2 DEF Page
  <2>3. CASE FindPage(c, p) # NULL
    <3>1. FindPage(c, p) \in Frames /\ FindPage(d, p) = FindPage(c, p)
      BY <1>1, <1>13, <2>3, WholeIs
    <3>2. d.frame[FindPage(d, p)].content = c.frame[FindPage(c, p)].content
      BY <1>9, <1>11, <3>1
    <3> QED BY <1>14, <2>1, <2>3, <3>1, <3>2 DEF Page
  <2> QED BY <2>2, <2>3
<1>20. Sound(u)
  <2>1. \A f \in Frames : ~d.frame[f].dirty
    BY <1>9, <1>11
  <2>2. << >> \in Seq(Frames) /\ OneToOne(<< >>) /\ Elements(<< >>) = {}
    BY DEF OneToOne, Elements
  <2>3. \A p \in PageIDs : FindPage(d, p) # NULL /\ p # 0 => d.frame[FindPage(d, p)].content[0] # NULL
    <3> SUFFICES ASSUME NEW p \in PageIDs, FindPage(d, p) # NULL, p # 0
                 PROVE  Page(t, p)[0] # NULL
      BY <1>19
    <3>1. FindPage(c, p) # NULL
      BY <1>13
    <3> QED BY <3>1 DEF Page, Sound
  <2> QED BY <1>13, <1>14, <1>16, <1>19, <2>1, <2>2, <2>3 DEF Sound
<1> QED BY <1>8, <1>14, <1>17, <1>18, <1>19, <1>20 DEF Packs, u, L

-----------------------------------------------------------------------------
(* Persistence, restart and replay *)

\* A package that is written gives a device.
LEMMA WritePagesTyped ==
    ASSUME NEW device \in [PageIDs -> Content], NEW k \in Package, NEW written \in SUBSET DOMAIN k
    PROVE  /\ WritePages(device, k, written) \in [PageIDs -> Content]
           /\ \A p \in PageIDs : WritePages(device, k, written)[p] =
                                   IF p \in written THEN k[p].content ELSE device[p]
<1>1. \A p \in written : k[p].content \in Content
  BY PackageIs
<1> QED BY <1>1 DEF WritePages

\* The oldest package is on the device, the others moved up.
Persists(t, u) ==
  /\ Sound(u) /\ u.dirty = t.dirty /\ u.packages = Tail(t.packages) /\ u.log = Head(t.packages)
  /\ \A p \in PageIDs :
       /\ Page(u, p) = Page(t, p)
       /\ \A n \in 0..Len(t.packages) - 1 : PageAfter(u, n, p) = PageAfter(t, n + 1, p)

\* What keeps the cache and the newest stored pages keeps the table sound.
LEMMA Restored ==
    ASSUME NEW t, Sound(t), NEW u, u.cache = t.cache, u.dirty = t.dirty, Filed(u),
           u = [cache |-> u.cache, dirty |-> u.dirty, packages |-> u.packages, log |-> u.log, device |-> u.device],
           \A p \in PageIDs : Newest(u, p) = Newest(t, p)
    PROVE  Sound(u) /\ \A p \in PageIDs : Page(u, p) = Page(t, p)
<1>1. \A p \in PageIDs : Page(u, p) = Page(t, p)
  BY DEF Page
<1>2. Sound(u)
  BY DEF Sound
<1> QED BY <1>1, <1>2

\* Persistence of the whole oldest package moves the others up.
LEMMA PersistIs ==
    ASSUME NEW t, Sound(t), t.packages # << >>
    PROVE  Persists(t, CommitteTransaction(Persistence(SaveToLog(t), DOMAIN Head(t.packages))))
<1> DEFINE k == Head(t.packages)
           N == Len(t.packages) - 1
           a == SaveToLog(t)
           b == Persistence(a, DOMAIN k)
           u == CommitteTransaction(b)
           v == WritePages(t.device, k, DOMAIN k)
<1>1. t = [cache |-> t.cache, dirty |-> t.dirty, packages |-> t.packages, log |-> t.log, device |-> t.device]
      /\ Filed(t)
  BY DEF Sound
<1>2. /\ k \in Package /\ Tail(t.packages) \in Seq(Package) /\ Len(Tail(t.packages)) = N
      /\ N \in Nat /\ Len(t.packages) = N + 1
  BY <1>1, SeqHas DEF Filed
<1>3. a = [cache |-> t.cache, dirty |-> t.dirty, packages |-> t.packages, log |-> k, device |-> t.device]
  BY ONLY <1>1 DEF SaveToLog
<1>4. b = [cache |-> t.cache, dirty |-> t.dirty, packages |-> t.packages, log |-> k, device |-> v]
  <2> HIDE DEF a
  <2>1. b = [a EXCEPT !.device = WritePages(a.device, Head(a.packages), DOMAIN k)]
    BY Zenon DEF Persistence
  <2>2. a.device = t.device /\ a.packages = t.packages
    BY ONLY <1>3
  <2>3. b = [a EXCEPT !.device = v]
    BY <2>1, <2>2
  <2> HIDE DEF v, k, b
  <2> QED BY ONLY <1>3, <2>3
<1>5. u = [cache |-> t.cache, dirty |-> t.dirty, packages |-> Tail(t.packages), log |-> k, device |-> v]
  <2> HIDE DEF b
  <2>1. u = [b EXCEPT !.packages = Tail(t.packages)]
    BY ONLY <1>4 DEF CommitteTransaction
  <2> HIDE DEF v, k, u
  <2> QED BY ONLY <1>4, <2>1
<1> HIDE DEF u, v, k, N
<1>6. /\ u.cache = t.cache /\ u.dirty = t.dirty /\ u.packages = Tail(t.packages) /\ u.log = k /\ u.device = v
      /\ u = [cache |-> u.cache, dirty |-> u.dirty, packages |-> u.packages, log |-> u.log, device |-> u.device]
  BY ONLY <1>5
<1>7. Filed(u)
  <2>1. v \in [PageIDs -> Content]
    BY <1>1, <1>2, WritePagesTyped DEF Filed, v
  <2> QED BY <1>2, <1>6, <2>1 DEF Filed
<1>8. ASSUME NEW p \in PageIDs
      PROVE  \A n \in 0..N : PageAfter(u, n, p) = PageAfter(t, n + 1, p)
  <2>1. u.device = WritePages(t.device, Head(t.packages), DOMAIN Head(t.packages))
    BY <1>6 DEF v, k
  <2>2. \A n \in 0..Len(t.packages) - 1 : PageAfter(u, n, p) = PageAfter(t, n + 1, p)
    BY <1>1, <1>6, <2>1, AfterShift
  <2> QED BY <2>2 DEF N
<1>9. \A p \in PageIDs : Newest(u, p) = Newest(t, p)
  <2> TAKE p \in PageIDs
  <2>1. N \in 0..N
    BY <1>2
  <2>2. PageAfter(u, N, p) = PageAfter(t, N + 1, p)
    BY <1>8, <2>1
  <2> QED BY <1>2, <1>6, <2>2 DEF Newest
<1>10. Sound(u) /\ \A p \in PageIDs : Page(u, p) = Page(t, p)
  BY <1>6, <1>7, <1>9, Restored
<1> QED BY <1>6, <1>8, <1>10 DEF Persists, u, b, a, k, N

\* A part of the oldest package is on the device, the log holds all of it.
Begins(t, u) ==
  /\ Sound(u) /\ u.dirty = t.dirty /\ u.packages = t.packages /\ u.log = Head(t.packages)
  /\ \A p \in PageIDs :
       /\ Page(u, p) = Page(t, p) /\ RedoByLog(u).device[p] = PageAfter(t, 1, p)
       /\ \A n \in 1..Len(t.packages) : PageAfter(u, n, p) = PageAfter(t, n, p)

\* Persistence of a part of the oldest package is not seen above it.
LEMMA BeginIs ==
    ASSUME NEW t, Sound(t), t.packages # << >>, NEW written \in SUBSET DOMAIN Head(t.packages)
    PROVE  /\ Begins(t, Persistence(SaveToLog(t), written))
           /\ written = {} => Persistence(SaveToLog(t), written).device = t.device
<1> DEFINE k == Head(t.packages)
           N == Len(t.packages)
           a == SaveToLog(t)
           u == Persistence(a, written)
           v == WritePages(t.device, k, written)
           w == RedoByLog(u)
<1>1. t = [cache |-> t.cache, dirty |-> t.dirty, packages |-> t.packages, log |-> t.log, device |-> t.device]
      /\ Filed(t)
  BY DEF Sound
<1>2. k \in Package /\ k = t.packages[1] /\ N \in Nat /\ N >= 1
  BY <1>1, SeqHas DEF Filed
<1>3. a = [cache |-> t.cache, dirty |-> t.dirty, packages |-> t.packages, log |-> k, device |-> t.device]
  BY ONLY <1>1 DEF SaveToLog
<1>4. u = [cache |-> t.cache, dirty |-> t.dirty, packages |-> t.packages, log |-> k, device |-> v]
  <2> HIDE DEF a
  <2>1. u = [a EXCEPT !.device = WritePages(a.device, Head(a.packages), written)]
    BY Zenon DEF Persistence
  <2>2. a.device = t.device /\ a.packages = t.packages
    BY ONLY <1>3
  <2>3. u = [a EXCEPT !.device = v]
    BY <2>1, <2>2
  <2> HIDE DEF v, k, u
  <2> QED BY ONLY <1>3, <2>3
<1> HIDE DEF u, v, N
<1>5. /\ u.cache = t.cache /\ u.dirty = t.dirty /\ u.packages = t.packages /\ u.log = k /\ u.device = v
      /\ u = [cache |-> u.cache, dirty |-> u.dirty, packages |-> u.packages, log |-> u.log, device |-> u.device]
  <2> HIDE DEF k
  <2> QED BY ONLY <1>4
<1>6. /\ v \in [PageIDs -> Content]
      /\ \A p \in PageIDs : v[p] = IF p \in written THEN k[p].content ELSE t.device[p]
  BY <1>1, <1>2, WritePagesTyped DEF Filed, v
<1>7. Filed(u)
  BY <1>1, <1>2, <1>5, <1>6 DEF Filed
<1>8. ASSUME NEW p \in PageIDs
      PROVE  \A n \in 1..N : PageAfter(u, n, p) = PageAfter(t, n, p)
  <2>1. u.device = WritePages(t.device, Head(t.packages), written)
    BY <1>5 DEF v
  <2>2. \A n \in 1..Len(t.packages) : PageAfter(u, n, p) = PageAfter(t, n, p)
    BY <1>1, <1>5, <2>1, AfterPart
  <2> QED BY <2>2 DEF N
<1>9. \A p \in PageIDs : Newest(u, p) = Newest(t, p)
  <2> TAKE p \in PageIDs
  <2>1. N \in 1..N
    BY <1>2
  <2>2. PageAfter(u, N, p) = PageAfter(t, N, p)
    BY <1>8, <2>1
  <2> QED BY <1>5, <2>2 DEF Newest, N
<1>10. Sound(u) /\ \A p \in PageIDs : Page(u, p) = Page(t, p)
  BY <1>5, <1>7, <1>9, Restored
<1>11. ASSUME NEW p \in PageIDs PROVE w.device[p] = PageAfter(t, 1, p)
  <2>1. w.device = WritePages(v, k, DOMAIN k)
    <3> HIDE DEF k
    <3> QED BY ONLY <1>5 DEF RedoByLog
  <2>2. w.device[p] = IF p \in DOMAIN k THEN k[p].content ELSE v[p]
    BY <2>1 DEF WritePages
  <2>3. PageAfter(t, 0 + 1, p) =
          IF p \in DOMAIN t.packages[0 + 1] THEN t.packages[0 + 1][p].content ELSE PageAfter(t, 0, p)
    BY AfterOneMore
  <2>4. PageAfter(t, 0, p) = t.device[p] /\ 0 + 1 = 1
    BY AfterNone
  <2> HIDE DEF k, w
  <2> QED BY <1>2, <1>6, <2>2, <2>3, <2>4
<1>12. written = {} => u.device = t.device
  <2> SUFFICES ASSUME written = {} PROVE v = t.device
    BY <1>5
  <2>1. \A p \in PageIDs : v[p] = t.device[p]
    BY <1>6
  <2> QED BY <1>1, <1>6, <2>1 DEF Filed
<1> HIDE DEF w
<1> QED BY <1>5, <1>8, <1>10, <1>11, <1>12 DEF Begins, u, a, k, N, w

\* A table that is opened shows what the device has.
Opens(u, log, device) ==
  /\ Sound(u) /\ u.packages = << >> /\ u.dirty = << >> /\ u.log = log /\ u.device = device
  /\ \A p \in PageIDs : Page(u, p) = device[p] /\ PageAfter(u, 0, p) = device[p]

\* Open shows what the device has.
LEMMA OpenTableIs ==
    ASSUME NEW log \in Package, NEW device \in [PageIDs -> Content]
    PROVE  Opens(OpenTable(log, device), log, device)
<1> DEFINE u == OpenTable(log, device)
<1>1. /\ u.cache = OpenCache /\ u.dirty = << >> /\ u.packages = << >> /\ u.log = log /\ u.device = device
      /\ u = [cache |-> u.cache, dirty |-> u.dirty, packages |-> u.packages, log |-> u.log, device |-> u.device]
  <2> DEFINE c == OpenCache
  <2>1. u = [cache |-> c, dirty |-> << >>, packages |-> << >>, log |-> log, device |-> device]
    BY DEF OpenTable
  <2> HIDE DEF c, u
  <2> QED BY ONLY <2>1 DEF c
<1> HIDE DEF u
<1>2. \A p \in PageIDs : PageAfter(u, 0, p) = device[p] /\ Newest(u, p) = device[p]
  <2> TAKE p \in PageIDs
  <2>1. PageAfter(u, 0, p) = device[p]
    BY <1>1, AfterNone
  <2> QED BY <1>1, <2>1 DEF Newest
<1>3. << >> \in Seq(Frames) /\ OneToOne(<< >>) /\ Elements(<< >>) = {} /\ << >> \in Seq(Package)
  BY DEF OneToOne, Elements
<1>4. Filed(u)
  BY <1>1, <1>3 DEF Filed
<1>5. Sound(u)
  BY <1>1, <1>3, <1>4, OpenIs DEF Sound
<1>6. \A p \in PageIDs : Page(u, p) = device[p]
  BY <1>1, <1>2, OpenIs DEF Page
<1> QED BY <1>1, <1>2, <1>5, <1>6 DEF Opens, u

\* A replay on a table that was just opened is the opening of what it writes.
LEMMA RedoIs ==
    ASSUME NEW log \in Package, NEW device \in [PageIDs -> Content], NEW t, t = OpenTable(log, device)
    PROVE  /\ RedoByLog(t).device \in [PageIDs -> Content]
           /\ RedoByLog(t) = OpenTable(log, RedoByLog(t).device)
<1> DEFINE v == WritePages(device, log, DOMAIN log)
           c == OpenCache
           u == RedoByLog(t)
<1>1. t = [cache |-> c, dirty |-> << >>, packages |-> << >>, log |-> log, device |-> device]
  BY DEF OpenTable
<1>2. v \in [PageIDs -> Content]
  BY WritePagesTyped
<1>3. u = [t EXCEPT !.device = v]
  <2> HIDE DEF c
  <2>1. t.device = device /\ t.log = log
    BY ONLY <1>1
  <2> QED BY <2>1, Zenon DEF RedoByLog
<1>4. u = [cache |-> c, dirty |-> << >>, packages |-> << >>, log |-> log, device |-> v]
  <2> HIDE DEF c, v, u
  <2> QED BY ONLY <1>1, <1>3
<1>5. u.device = v
  <2> HIDE DEF c, v, u
  <2> QED BY ONLY <1>4
<1>6. OpenTable(log, v) = [cache |-> c, dirty |-> << >>, packages |-> << >>, log |-> log, device |-> v]
  BY DEF OpenTable
<1> HIDE DEF u, v, c
<1> QED BY <1>2, <1>4, <1>5, <1>6 DEF u

-----------------------------------------------------------------------------
(* The records a table shows *)

\* The records of the pages after some packages.
LEMMA AfterRecords ==
    ASSUME NEW t, NEW n
    PROVE  \A id \in IDs : AfterPackages(t, n)[id] = PageAfter(t, n, GetPageID(id))[GetPageRecord(id)]
BY PagesAre DEF AfterPackages, RecordsOn

\* No record is missing below one there is.
Closed(t) == \A i, j \in IDs : i <= j /\ Answer(t, j) # NULL => Answer(t, i) # NULL

SameRecords(t, u) == \A id \in IDs : Answer(u, id) = Answer(t, id)

\* Tables that show the same pages answer alike.
LEMMA SamePages ==
    ASSUME NEW t, Sound(t), NEW u, Sound(u), \A p \in PageIDs : Page(u, p) = Page(t, p)
    PROVE  SameRecords(t, u)
BY AnswerIs, PagesAre DEF SameRecords

\* Tables that answer alike miss the same records.
LEMMA SameClosed ==
    ASSUME NEW t, Closed(t), NEW u, SameRecords(t, u)
    PROVE  Closed(u)
BY DEF Closed, SameRecords

\* An answer is a version or none.
LEMMA AnswerTyped ==
    ASSUME NEW t, Sound(t), NEW id \in IDs
    PROVE  Answer(t, id) \in Versions \cup {NULL}
<1>1. GetPageID(id) \in PageIDs /\ GetPageRecord(id) \in Slots
  BY PagesAre
<1>2. Page(t, GetPageID(id)) \in Content
  BY <1>1, PageTyped
<1> QED BY <1>1, <1>2, AnswerIs DEF Content

\* The first record of a page is there when one of the page is, or when the
\* one before a later one of the page is.
LEMMA FirstIsThere ==
    ASSUME NEW t, Sound(t), Closed(t), NEW id \in IDs, GetPageID(id) # 0,
           \/ Answer(t, id) # NULL
           \/ GetPageRecord(id) # 0 /\ (id > 1 => Answer(t, id - 1) # NULL)
    PROVE  Page(t, GetPageID(id))[0] # NULL
<1> DEFINE i == PageRecords * GetPageID(id)
<1>1. /\ i \in IDs /\ i <= id /\ GetPageID(i) = GetPageID(id) /\ GetPageRecord(i) = 0
      /\ GetPageRecord(id) = 0 <=> i = id
  BY FirstOfPage
<1> HIDE DEF i
<1>2. id \in Nat /\ i \in Nat /\ i >= 1 /\ id <= MaxID /\ MaxID \in Nat
  BY <1>1, Sizes DEF IDs
<1>3. Answer(t, i) # NULL
  <2>1. CASE Answer(t, id) # NULL
    BY <1>1, <2>1 DEF Closed
  <2>2. CASE GetPageRecord(id) # 0 /\ (id > 1 => Answer(t, id - 1) # NULL)
    <3>1. i <= id - 1 /\ id > 1 /\ id - 1 \in IDs
      BY <1>1, <1>2, <2>2 DEF IDs
    <3> QED BY <1>1, <2>2, <3>1 DEF Closed
  <2> QED BY <2>1, <2>2
<1> QED BY <1>1, <1>3, AnswerIs

\* One record has changed.
Sets(t, u, id, record) ==
  /\ Sound(u) /\ Stays(t, u)
  /\ \A j \in IDs : Answer(u, j) = IF j = id THEN record ELSE Answer(t, j)

\* A changed page with one other record is a changed record.
LEMMA PutSets ==
    ASSUME NEW t, Sound(t), NEW u, NEW id \in IDs, NEW record \in Versions,
           Put(t, u, GetPageID(id), With(Page(t, GetPageID(id)), GetPageRecord(id), record))
    PROVE  Sets(t, u, id, record)
<1> DEFINE p == GetPageID(id)
           x == With(Page(t, p), GetPageRecord(id), record)
<1>1. p \in PageIDs /\ Sound(u) /\ Stays(t, u) /\ Page(t, p) \in Content
  BY PagesAre, PageTyped DEF Put
<1>2. ASSUME NEW j \in IDs
      PROVE  Answer(u, j) = IF j = id THEN record ELSE Answer(t, j)
  <2> DEFINE q == GetPageID(j)
             s == GetPageRecord(j)
  <2>1. q \in PageIDs /\ s \in Slots
    BY PagesAre
  <2>2. Answer(u, j) = Page(u, q)[s] /\ Answer(t, j) = Page(t, q)[s]
    BY <1>1, AnswerIs
  <2>3. Page(u, q) = IF q = p THEN x ELSE Page(t, q)
    BY <2>1 DEF Put
  <2>4. q = p => x[s] = IF s = GetPageRecord(id) THEN record ELSE Page(t, p)[s]
    BY <1>1, <2>1 DEF With, Content
  <2>5. q = p /\ s = GetPageRecord(id) <=> j = id
    BY PagesAre
  <2> HIDE DEF x, p, q, s
  <2> QED BY <2>2, <2>3, <2>4, <2>5
<1> QED BY <1>1, <1>2 DEF Sets

\* What a read leaves, also when it fails.
Reads(t, u) == Sound(u) /\ Stays(t, u) /\ u.dirty = t.dirty /\ SameRecords(t, u)

\* Read changes no answer.
LEMMA ReadRecordIs ==
    ASSUME NEW t, Sound(t), Closed(t), NEW id \in IDs, NEW fails \in BOOLEAN,
           Answer(t, id) # NULL \/ ~GetsTablePage(t, GetPageID(id), fails)
    PROVE  Reads(t, ReadRecord(t, id, fails))
<1> DEFINE p == GetPageID(id)
           u == ReadRecord(t, id, fails)
<1>1. p \in PageIDs
  BY PagesAre
<1>2. GetsTablePage(t, p, fails) /\ p # 0 => Page(t, p)[0] # NULL
  BY FirstIsThere
<1>3. Loads(t, GetTablePage(t, p, fails), p, fails)
  BY <1>1, <1>2, LoadIs
<1>4. Loads(t, u, p, fails)
  BY <1>3 DEF ReadRecord
<1> HIDE DEF u, p
<1>5. SameRecords(t, u)
  BY <1>4, SamePages DEF Loads
<1> QED BY <1>4, <1>5 DEF Loads, Reads, u

\* Update changes the answer for its record only.
LEMMA UpdateRecordIs ==
    ASSUME NEW t, Sound(t), Closed(t), NEW id \in IDs, NEW fails \in BOOLEAN, UpdateSucceeds(t, id, fails),
           NEW record \in Versions, Answer(t, id) # NULL
    PROVE  Sets(t, UpdateRecord(t, id, record, fails), id, record)
<1>1. GetPageID(id) # 0 => Page(t, GetPageID(id))[0] # NULL
  BY FirstIsThere
<1> DEFINE x == With(Page(t, GetPageID(id)), GetPageRecord(id), record)
           u == UpdateRecord(t, id, record, fails)
<1>2. Put(t, u, GetPageID(id), x)
  BY <1>1, UpdateIs
<1> HIDE DEF u
<1>3. Sets(t, u, id, record)
  BY <1>2, PutSets
<1> QED BY <1>3 DEF u

\* Append adds the next record only.
LEMMA AppendRecordIs ==
    ASSUME NEW t, Sound(t), Closed(t), NEW id \in IDs, NEW fails \in BOOLEAN, AppendSucceeds(t, id, fails),
           Answer(t, id) = NULL, id > 1 => Answer(t, id - 1) # NULL
    PROVE  Sets(t, AppendRecord(t, id, 0, fails), id, 0)
<1> DEFINE p == GetPageID(id)
           u == AppendRecord(t, id, 0, fails)
<1>1. p \in PageIDs /\ 0 \in Versions /\ id \in Nat
  BY PagesAre, Sizes DEF Versions
<1>2. CASE GetPageRecord(id) # 0
  <2>1. u = UpdateRecord(t, id, 0, fails) /\ UpdateSucceeds(t, id, fails)
    BY <1>2 DEF AppendRecord, AppendSucceeds, UpdateSucceeds
  <2>2. p # 0 => Page(t, p)[0] # NULL
    BY <1>2, FirstIsThere
  <2> DEFINE x == With(Page(t, p), GetPageRecord(id), 0)
  <2>3. Put(t, UpdateRecord(t, id, 0, fails), p, x)
    BY <1>1, <2>1, <2>2, UpdateIs
  <2> HIDE DEF u
  <2>4. Sets(t, u, id, 0)
    BY <1>1, <2>1, <2>3, PutSets
  <2> QED BY <2>4 DEF u
<1>3. CASE GetPageRecord(id) = 0
  <2>1. p # 0 /\ PageRecords * p = id
    <3>1. id = PageRecords * p + GetPageRecord(id)
      BY <1>1, PageIs
    <3>2. p # 0
      <4> SUFFICES ASSUME p = 0 PROVE FALSE
        OBVIOUS
      <4> HIDE DEF p
      <4>1. id = 0
        BY <1>3, <3>1, Sizes
      <4> QED BY <4>1 DEF IDs
    <3> QED BY <1>3, <3>2, FirstOfPage
  <2>2. FindPage(t.cache, p) = NULL
    <3> SUFFICES ASSUME FindPage(t.cache, p) # NULL PROVE FALSE
      OBVIOUS
    <3>1. Page(t, p)[0] # NULL
      BY <1>1, <2>1 DEF Page, Sound
    <3>2. Answer(t, id) = Page(t, p)[0]
      BY <1>3, AnswerIs
    <3> QED BY <3>1, <3>2
  <2> DEFINE x == With(BlankPage, 0, 0)
  <2>3. Put(t, u, p, x)
    BY <1>3, <2>2, AppendFirstIs
  <2> HIDE DEF u
  <2>4. ASSUME NEW j \in IDs
        PROVE  Answer(u, j) = IF j = id THEN 0 ELSE Answer(t, j)
    <3> DEFINE q == GetPageID(j)
               s == GetPageRecord(j)
    <3>1. q \in PageIDs /\ s \in Slots /\ Answer(u, j) = Page(u, q)[s] /\ Answer(t, j) = Page(t, q)[s]
      BY <2>3, AnswerIs, PagesAre DEF Put
    <3>2. Page(u, q) = IF q = p THEN x ELSE Page(t, q)
      BY <2>3, <3>1 DEF Put
    <3>3. CASE q # p
      BY <3>1, <3>2, <3>3
    <3>4. CASE q = p
      <4>1. x[s] = IF s = 0 THEN 0 ELSE NULL
        BY <3>1 DEF With, BlankPage
      <4>2. s = 0 <=> j = id
        BY <1>3, <3>4, PagesAre
      <4>3. id <= j
        BY <2>1, <3>4, FirstOfPage
      <4>4. Answer(t, j) = NULL
        BY <4>3 DEF Closed
      <4> HIDE DEF x, q, s, p
      <4> QED BY <3>1, <3>2, <3>4, <4>1, <4>2, <4>4
    <3> QED BY <3>3, <3>4
  <2>5. Sets(t, u, id, 0)
    BY <2>3, <2>4 DEF Put, Sets
  <2> QED BY <2>5 DEF u
<1> QED BY <1>2, <1>3

\* No record goes missing by a record that is raised or added.
LEMMA SetsClosed ==
    ASSUME NEW t, Closed(t), NEW id \in IDs, NEW record \in Versions, NEW u, Sets(t, u, id, record),
           Answer(t, id) # NULL \/ (id > 1 => Answer(t, id - 1) # NULL)
    PROVE  Closed(u)
<1> SUFFICES ASSUME NEW i \in IDs, NEW j \in IDs, i <= j, Answer(u, j) # NULL
             PROVE  Answer(u, i) # NULL
  BY DEF Closed
<1>1. /\ record # NULL /\ id \in Nat /\ i \in Nat /\ j \in Nat /\ MaxID \in Nat
      /\ 1 <= i /\ i <= MaxID /\ 1 <= j /\ j <= MaxID /\ 1 <= id /\ id <= MaxID
  BY Sizes DEF Versions, IDs
<1>2. /\ Answer(u, i) = IF i = id THEN record ELSE Answer(t, i)
      /\ Answer(u, j) = IF j = id THEN record ELSE Answer(t, j)
  BY DEF Sets
<1>3. CASE i = id
  BY <1>1, <1>2, <1>3
<1>4. CASE i # id /\ j # id
  BY <1>2, <1>4 DEF Closed
<1>5. CASE i # id /\ j = id
  <2>1. CASE Answer(t, id) # NULL
    BY <1>2, <1>5, <2>1 DEF Closed
  <2>2. CASE id > 1 => Answer(t, id - 1) # NULL
    <3>1. id > 1 /\ i <= id - 1 /\ id - 1 \in IDs
      BY <1>1, <1>5 DEF IDs
    <3> QED BY <1>2, <1>5, <2>2, <3>1 DEF Closed
  <2> QED BY <2>1, <2>2
<1> QED BY <1>3, <1>4, <1>5

-----------------------------------------------------------------------------
(* The items of a fetched block *)

\* The two loops over the items of a block: the check of the versions, and the
\* changes; a chain of n of their steps.
Item(kind, t, b, id) == IF kind = "check" THEN CheckItem(t, b, id) ELSE ApplyItem(t, b, id)

Chain(kind, t, b, g, m) == g = [id \in 0..m |-> IF id = 0 THEN t ELSE Item(kind, g[id - 1], b, id)]

\* The loops over the items of a block end.
LEMMA ChainExists ==
    ASSUME NEW kind, NEW t, NEW b, NEW k \in Nat
    PROVE  \E g : Chain(kind, t, b, g, k)
<1> DEFINE S == {m \in 0..k : \E g : Chain(kind, t, b, g, m)}
<1>1. 0 \in S
  <2> DEFINE g == [n \in 0..0 |-> t]
  <2>1. Chain(kind, t, b, g, 0)
    <3>1. [n \in 0..0 |-> IF n = 0 THEN t ELSE Item(kind, g[n - 1], b, n)] = g
      OBVIOUS
    <3> QED BY <3>1, Zenon DEF Chain
  <2> QED BY <2>1
<1>2. ASSUME NEW i \in 0..k - 1, i \in S PROVE i + 1 \in S
  <2>1. PICK g : Chain(kind, t, b, g, i)
    BY <1>2
  <2>2. i \in Nat /\ i + 1 \in 0..k
    OBVIOUS
  <2> DEFINE h == [n \in 0..i + 1 |-> IF n = i + 1 THEN Item(kind, g[i], b, i + 1) ELSE g[n]]
  <2>3. ASSUME NEW n \in 0..i + 1
        PROVE  h[n] = IF n = 0 THEN t ELSE Item(kind, h[n - 1], b, n)
    <3>1. CASE n = i + 1
      <4>1. i \in 0..i + 1 /\ i # i + 1 /\ n - 1 = i /\ n # 0
        BY <2>2, <3>1
      <4>2. h[i] = g[i] /\ h[n] = Item(kind, g[i], b, n)
        BY <3>1, <4>1
      <4> HIDE DEF h
      <4> QED BY <4>1, <4>2
    <3>2. CASE n # i + 1
      <4>1. n \in 0..i /\ (n # 0 => n - 1 \in 0..i + 1 /\ n - 1 # i + 1)
        BY <2>2, <3>2
      <4>2. h[n] = g[n] /\ (n # 0 => h[n - 1] = g[n - 1])
        BY <3>2, <4>1
      <4>3. g[n] = IF n = 0 THEN t ELSE Item(kind, g[n - 1], b, n)
        BY <2>1, <4>1 DEF Chain
      <4> HIDE DEF h
      <4> QED BY <4>2, <4>3
    <3> QED BY <3>1, <3>2
  <2>4. h = [n \in 0..i + 1 |-> h[n]]
    OBVIOUS
  <2> HIDE DEF h
  <2>5. h = [n \in 0..i + 1 |-> IF n = 0 THEN t ELSE Item(kind, h[n - 1], b, n)]
    BY <2>3, <2>4
  <2>6. Chain(kind, t, b, h, i + 1)
    BY <2>5, Zenon DEF Chain
  <2> QED BY <2>2, <2>6
<1> HIDE DEF S
<1>3. \A i \in 0..k : i \in S
  BY <1>1, <1>2, Reaches
<1>4. k \in S
  BY <1>3
<1> QED BY <1>4 DEF S

\* The steps of such a loop.
LEMMA ChainSteps ==
    ASSUME NEW kind, NEW t, NEW b, NEW k \in Nat, NEW g, Chain(kind, t, b, g, k)
    PROVE  g[0] = t /\ \A n \in 0..k - 1 : g[n + 1] = Item(kind, g[n], b, n + 1)
<1>1. g[0] = t
  BY DEF Chain
<1>2. ASSUME NEW n \in 0..k - 1 PROVE g[n + 1] = Item(kind, g[n], b, n + 1)
  <2>1. PICK j \in 0..k : j = n + 1 /\ j # 0 /\ j - 1 = n
    OBVIOUS
  <2>2. g[j] = Item(kind, g[j - 1], b, j)
    BY <2>1 DEF Chain
  <2> QED BY <2>1, <2>2
<1> QED BY <1>1, <1>2

\* The table after the check, and after the changes, is the end of a chain.
LEMMA CheckReadsChain ==
    ASSUME NEW b, NEW n \in Nat
    PROVE  \E g : Chain("check", table, b, g, n) /\ CheckReads(b, n) = g[n]
<1> DEFINE g == CHOOSE h : h = [id \in 0..n |-> IF id = 0 THEN table ELSE CheckItem(h[id - 1], b, id)]
<1>1. CheckReads(b, n) = g[n]
  BY DEF CheckReads
<1>2. \A h : [id \in 0..n |-> IF id = 0 THEN table ELSE Item("check", h[id - 1], b, id)]
           = [id \in 0..n |-> IF id = 0 THEN table ELSE CheckItem(h[id - 1], b, id)]
  BY DEF Item
<1>3. \E h : h = [id \in 0..n |-> IF id = 0 THEN table ELSE CheckItem(h[id - 1], b, id)]
  <2>1. PICK h : Chain("check", table, b, h, n)
    BY ChainExists
  <2>2. h = [id \in 0..n |-> IF id = 0 THEN table ELSE Item("check", h[id - 1], b, id)]
    BY <2>1, Zenon DEF Chain
  <2>3. h = [id \in 0..n |-> IF id = 0 THEN table ELSE CheckItem(h[id - 1], b, id)]
    BY <1>2, <2>2, Zenon
  <2> QED BY <2>3, Zenon
<1>4. g = [id \in 0..n |-> IF id = 0 THEN table ELSE CheckItem(g[id - 1], b, id)]
  BY <1>3, Zenon
<1> HIDE DEF g
<1>5. Chain("check", table, b, g, n)
  BY <1>2, <1>4, Zenon DEF Chain
<1> QED BY <1>1, <1>5

\* The table after the changes is the end of a chain.
LEMMA AppliedChain ==
    ASSUME NEW b, NEW n \in Nat
    PROVE  \E g : Chain("apply", CheckReads(b, MaxID), b, g, n) /\ Applied(b, n) = g[n]
<1> DEFINE t == CheckReads(b, MaxID)
           g == CHOOSE h : h = [id \in 0..n |-> IF id = 0 THEN t ELSE ApplyItem(h[id - 1], b, id)]
<1>1. Applied(b, n) = g[n]
  BY DEF Applied
<1> HIDE DEF t
<1>2. \A h : [id \in 0..n |-> IF id = 0 THEN t ELSE Item("apply", h[id - 1], b, id)]
           = [id \in 0..n |-> IF id = 0 THEN t ELSE ApplyItem(h[id - 1], b, id)]
  BY DEF Item
<1>3. \E h : h = [id \in 0..n |-> IF id = 0 THEN t ELSE ApplyItem(h[id - 1], b, id)]
  <2>1. PICK h : Chain("apply", t, b, h, n)
    BY ChainExists
  <2>2. h = [id \in 0..n |-> IF id = 0 THEN t ELSE Item("apply", h[id - 1], b, id)]
    BY <2>1, Zenon DEF Chain
  <2>3. h = [id \in 0..n |-> IF id = 0 THEN t ELSE ApplyItem(h[id - 1], b, id)]
    BY <1>2, <2>2, Zenon
  <2> QED BY <2>3, Zenon
<1>4. g = [id \in 0..n |-> IF id = 0 THEN t ELSE ApplyItem(g[id - 1], b, id)]
  BY <1>3, Zenon
<1> HIDE DEF g
<1>5. Chain("apply", t, b, g, n)
  BY <1>2, <1>4, Zenon DEF Chain
<1> QED BY <1>1, <1>5 DEF t

\* Two steps that leave packages and device alone.
LEMMA StaysOn ==
    ASSUME NEW t, NEW u, NEW v, Stays(t, u), Stays(u, v)
    PROVE  Stays(t, v)
BY DEF Stays

\* Two reads are a read.
LEMMA ReadsOn ==
    ASSUME NEW t, NEW u, NEW v, Reads(t, u), Reads(u, v)
    PROVE  Reads(t, v)
BY DEF Reads, Stays, SameRecords

\* Nothing done is a read.
LEMMA ReadsSelf ==
    ASSUME NEW t, Sound(t)
    PROVE  Reads(t, t)
BY DEF Reads, Stays, SameRecords

\* The check of the versions shows nothing but its reads.
LEMMA CheckReadsIs ==
    ASSUME Sound(table), Closed(table), NEW b, \A id \in Raised(b) \cap IDs : Answer(table, id) # NULL,
           NEW n \in 0..MaxID
    PROVE  Reads(table, CheckReads(b, n))
<1>1. n \in Nat /\ n <= MaxID /\ MaxID \in Nat
  BY Sizes
<1>2. PICK g : Chain("check", table, b, g, n) /\ CheckReads(b, n) = g[n]
  BY <1>1, CheckReadsChain
<1>3. g[0] = table /\ \A i \in 0..n - 1 : g[i + 1] = Item("check", g[i], b, i + 1)
  BY <1>1, <1>2, ChainSteps
<1> DEFINE S == {i \in 0..n : Reads(table, g[i])}
<1>4. 0 \in S
  BY <1>1, <1>3, ReadsSelf
<1>5. ASSUME NEW i \in 0..n - 1, i \in S PROVE i + 1 \in S
  <2>1. PICK id \in IDs : id = i + 1 /\ id \in 0..n
    BY <1>1 DEF IDs
  <2>2. Reads(table, g[i]) /\ g[id] = CheckItem(g[i], b, id)
    BY <1>3, <1>5, <2>1 DEF Item
  <2>3. Reads(table, g[id])
    <3>1. CASE id \notin Raised(b)
      BY <2>2, <3>1 DEF CheckItem
    <3>2. CASE id \in Raised(b)
      <4>1. g[id] = ReadRecord(g[i], id, FALSE)
        BY <2>2, <3>2 DEF CheckItem
      <4>2. Sound(g[i]) /\ SameRecords(table, g[i])
        BY <2>2 DEF Reads
      <4>3. Closed(g[i]) /\ Answer(g[i], id) # NULL
        BY <3>2, <4>2, SameClosed DEF SameRecords
      <4>4. Reads(g[i], g[id])
        BY <4>1, <4>2, <4>3, ReadRecordIs
      <4> QED BY <2>2, <4>4, ReadsOn
    <3> QED BY <3>1, <3>2
  <2> QED BY <2>1, <2>3
<1> HIDE DEF S
<1>6. n \in S
  BY <1>1, <1>4, <1>5, Reaches
<1> QED BY <1>2, <1>6 DEF S

\* A block whose items raise records there are, or add the next ones.
Fits(t, b) ==
  /\ DOMAIN b \subseteq IDs
  /\ \A id \in DOMAIN b :
       /\ b[id] \in Versions
       /\ b[id] # 0 => Answer(t, id) # NULL
       /\ b[id] = 0 => Answer(t, id) = NULL /\ (id > 1 => Answer(t, id - 1) # NULL \/ id - 1 \in DOMAIN b)

\* The items up to the id n are in the table.
Takes(t, u, b, n) ==
  /\ Sound(u) /\ Stays(t, u) /\ Closed(u)
  /\ \A j \in IDs : Answer(u, j) = IF j \in DOMAIN b /\ j <= n THEN b[j] ELSE Answer(t, j)

\* One item of a block is stored on top of the ones before.
LEMMA TakesOne ==
    ASSUME NEW t, NEW b, Fits(t, b), NEW i \in Nat, NEW id \in IDs, id = i + 1, NEW u, Takes(t, u, b, i)
    PROVE  Takes(t, ApplyItem(u, b, id), b, id)
<1> DEFINE v == ApplyItem(u, b, id)
<1>1. \A j \in IDs : j \in Nat /\ (j <= id <=> j <= i \/ j = id) /\ ~(id <= i)
  BY DEF IDs
<1>2. CASE id \notin DOMAIN b
  <2>1. v = u
    BY <1>2 DEF ApplyItem
  <2>2. \A j \in IDs : j \in DOMAIN b => (j <= id <=> j <= i)
    BY <1>1, <1>2
  <2> HIDE DEF v
  <2>3. Takes(t, v, b, id)
    BY <2>1, <2>2 DEF Takes
  <2> QED BY <2>3 DEF v
<1>3. CASE id \in DOMAIN b
  <2>1. v = StoreItem(u, b, id, FALSE)
    BY <1>3 DEF ApplyItem
  <2>2. Sound(u) /\ Closed(u) /\ b[id] \in Versions /\ Answer(u, id) = Answer(t, id)
    BY <1>1, <1>3 DEF Takes, Fits
  <2>3. GetsTablePage(u, GetPageID(id), FALSE)
    BY <2>2, AlwaysGets, PagesAre
  <2>4. Sets(u, v, id, b[id]) /\ (Answer(u, id) # NULL \/ (id > 1 => Answer(u, id - 1) # NULL))
    <3>1. CASE b[id] # 0
      <4>1. v = UpdateRecord(u, id, b[id], FALSE) /\ UpdateSucceeds(u, id, FALSE)
        BY <2>1, <2>3, <3>1 DEF StoreItem, UpdateSucceeds
      <4>2. Answer(u, id) # NULL
        BY <1>3, <2>2, <3>1 DEF Fits
      <4> HIDE DEF v
      <4> QED BY <2>2, <4>1, <4>2, UpdateRecordIs
    <3>2. CASE b[id] = 0
      <4>1. v = AppendRecord(u, id, 0, FALSE) /\ AppendSucceeds(u, id, FALSE)
        BY <2>1, <2>3, <3>2 DEF StoreItem, AppendSucceeds
      <4>2. Answer(u, id) = NULL
        BY <1>3, <2>2, <3>2 DEF Fits
      <4>3. id > 1 => Answer(u, id - 1) # NULL
        <5> SUFFICES ASSUME id > 1 PROVE Answer(u, id - 1) # NULL
          OBVIOUS
        <5>1. PICK j \in IDs : j = id - 1 /\ j = i
          BY Sizes DEF IDs
        <5>2. Answer(u, j) = IF j \in DOMAIN b /\ j <= i THEN b[j] ELSE Answer(t, j)
          BY DEF Takes
        <5>3. Answer(t, j) # NULL \/ j \in DOMAIN b
          BY <1>3, <3>2, <5>1 DEF Fits
        <5>4. j \in DOMAIN b => b[j] # NULL
          BY Sizes DEF Fits, Versions
        <5> QED BY <5>1, <5>2, <5>3, <5>4
      <4> HIDE DEF v
      <4> QED BY <2>2, <3>2, <4>1, <4>2, <4>3, AppendRecordIs
    <3> QED BY <3>1, <3>2
  <2> HIDE DEF v
  <2>5. Closed(v)
    BY <2>2, <2>4, SetsClosed
  <2>6. Sound(v) /\ Stays(t, v)
    BY <2>4, StaysOn DEF Sets, Takes
  <2>7. ASSUME NEW j \in IDs
        PROVE  Answer(v, j) = IF j \in DOMAIN b /\ j <= id THEN b[j] ELSE Answer(t, j)
    <3>1. Answer(v, j) = IF j = id THEN b[id] ELSE Answer(u, j)
      BY <2>4 DEF Sets
    <3>2. Answer(u, j) = IF j \in DOMAIN b /\ j <= i THEN b[j] ELSE Answer(t, j)
      BY DEF Takes
    <3> QED BY <1>1, <1>3, <3>1, <3>2
  <2>8. Takes(t, v, b, id)
    BY <2>5, <2>6, <2>7 DEF Takes
  <2> QED BY <2>8 DEF v
<1> QED BY <1>2, <1>3

\* The block is in the table.
LEMMA AppliedIs ==
    ASSUME Sound(table), Closed(table), NEW b, Fits(table, b)
    PROVE  Takes(table, Applied(b, MaxID), b, MaxID)
<1>1. MaxID \in Nat /\ MaxID \in 0..MaxID
  BY Sizes
<1> DEFINE t == CheckReads(b, MaxID)
<1>2. Reads(table, t)
  <2>1. \A id \in Raised(b) \cap IDs : Answer(table, id) # NULL
    BY DEF Fits, Raised
  <2> QED BY <1>1, <2>1, CheckReadsIs
<1>3. PICK g : Chain("apply", t, b, g, MaxID) /\ Applied(b, MaxID) = g[MaxID]
  BY <1>1, AppliedChain
<1> HIDE DEF t
<1>4. g[0] = t /\ \A i \in 0..MaxID - 1 : g[i + 1] = Item("apply", g[i], b, i + 1)
  BY <1>1, <1>3, ChainSteps
<1> DEFINE S == {i \in 0..MaxID : Takes(table, g[i], b, i)}
<1>5. 0 \in S
  <2>1. Sound(t) /\ Stays(table, t) /\ Closed(t) /\ SameRecords(table, t)
    BY <1>2, SameClosed DEF Reads
  <2>2. \A j \in IDs : ~(j <= 0)
    BY DEF IDs
  <2>3. Takes(table, t, b, 0)
    BY <2>1, <2>2 DEF Takes, SameRecords
  <2> QED BY <1>1, <1>4, <2>3
<1>6. ASSUME NEW i \in 0..MaxID - 1, i \in S PROVE i + 1 \in S
  <2>1. PICK id \in IDs : id = i + 1 /\ id \in 0..MaxID
    BY <1>1 DEF IDs
  <2>2. Takes(table, g[i], b, i) /\ g[id] = ApplyItem(g[i], b, id) /\ i \in Nat
    BY <1>4, <1>6, <2>1 DEF Item
  <2>3. Takes(table, g[id], b, id)
    BY <2>1, <2>2, TakesOne
  <2> QED BY <2>1, <2>3
<1> HIDE DEF S
<1>7. MaxID \in S
  BY <1>1, <1>5, <1>6, Reaches
<1> QED BY <1>3, <1>7 DEF S

-----------------------------------------------------------------------------
(* The records as one function *)

Records == [IDs -> Versions \cup {NULL}]

\* The records there are have the ids up to n.
UpTo(records, n) == \A id \in IDs : records[id] # NULL <=> id <= n

\* The device a replay leaves.
Redone(log, device) == WritePages(device, log, DOMAIN log)

\* RedoByLog writes the log over the device.
LEMMA RedoneIs ==
    ASSUME NEW t, Sound(t)
    PROVE  RedoByLog(t).device = Redone(t.log, t.device)
<1>1. t = [cache |-> t.cache, dirty |-> t.dirty, packages |-> t.packages, log |-> t.log, device |-> t.device]
  BY DEF Sound
<1> QED BY ONLY <1>1 DEF RedoByLog, Redone

\* A replay is done once, however often it is repeated.
LEMMA RedoneTwice ==
    ASSUME NEW log \in Package, NEW device \in [PageIDs -> Content]
    PROVE  /\ Redone(log, device) \in [PageIDs -> Content]
           /\ Redone(log, Redone(log, device)) = Redone(log, device)
<1> DEFINE x == Redone(log, device)
           y == Redone(log, x)
<1>1. x \in [PageIDs -> Content] /\ \A p \in PageIDs : x[p] = IF p \in DOMAIN log THEN log[p].content ELSE device[p]
  BY WritePagesTyped DEF Redone
<1>2. x = [p \in PageIDs |-> x[p]]
  BY <1>1
<1> HIDE DEF x
<1>3. y \in [PageIDs -> Content] /\ \A p \in PageIDs : y[p] = IF p \in DOMAIN log THEN log[p].content ELSE x[p]
  BY <1>1, WritePagesTyped DEF Redone
<1> HIDE DEF y
<1>4. \A p \in PageIDs : y[p] = x[p]
  BY <1>1, <1>3
<1>5. y = x
  BY <1>1, <1>3, <1>4
<1> QED BY <1>1, <1>5 DEF x, y

\* Equal pages hold equal records.
LEMMA SameAfter ==
    ASSUME NEW t, NEW m, NEW u, NEW n, \A p \in PageIDs : PageAfter(u, n, p) = PageAfter(t, m, p)
    PROVE  AfterPackages(u, n) = AfterPackages(t, m)
<1>1. [p \in PageIDs |-> PageAfter(u, n, p)] = [p \in PageIDs |-> PageAfter(t, m, p)]
  OBVIOUS
<1> QED BY <1>1, Zenon DEF AfterPackages

\* Without packages the device has the stored records.
LEMMA AfterZero ==
    ASSUME NEW t, Filed(t)
    PROVE  AfterPackages(t, 0) = RecordsOn(t.device)
<1>1. [p \in PageIDs |-> PageAfter(t, 0, p)] = t.device
  BY AfterNone DEF Filed
<1> QED BY <1>1, Zenon DEF AfterPackages

\* The answers are the records of the pages the table shows.
LEMMA AnswersAre ==
    ASSUME NEW t, Sound(t)
    PROVE  Answers(t) = RecordsOn([p \in PageIDs |-> Page(t, p)])
<1> DEFINE x == [p \in PageIDs |-> Page(t, p)]
<1>1. \A id \in IDs : Answer(t, id) = x[GetPageID(id)][GetPageRecord(id)]
  BY AnswerIs, PagesAre
<1> HIDE DEF x
<1>2. Answers(t) = RecordsOn(x)
  BY <1>1 DEF Answers, RecordsOn
<1> QED BY <1>2 DEF x

\* A table that shows the pages after some packages answers with their records.
LEMMA SameAnswers ==
    ASSUME NEW t, Sound(t), NEW u, NEW n, \A p \in PageIDs : Page(t, p) = PageAfter(u, n, p)
    PROVE  Answers(t) = AfterPackages(u, n)
<1>1. [p \in PageIDs |-> Page(t, p)] = [p \in PageIDs |-> PageAfter(u, n, p)]
  OBVIOUS
<1> QED BY <1>1, AnswersAre, Zenon DEF AfterPackages

\* Equal answers, one by one or as a function.
LEMMA AnswersKeep ==
    ASSUME NEW t, NEW u, \A id \in IDs : Answer(u, id) = Answer(t, id)
    PROVE  Answers(u) = Answers(t)
BY DEF Answers

\* The records on a device are versions.
LEMMA RecordsTyped ==
    ASSUME NEW device \in [PageIDs -> Content]
    PROVE  RecordsOn(device) \in Records
<1> SUFFICES ASSUME NEW id \in IDs PROVE device[GetPageID(id)][GetPageRecord(id)] \in Versions \cup {NULL}
  BY DEF RecordsOn, Records
<1>1. GetPageID(id) \in PageIDs /\ GetPageRecord(id) \in Slots
  BY PagesAre
<1>2. device[GetPageID(id)] \in Content
  BY <1>1
<1> QED BY <1>1, <1>2 DEF Content

\* The records after some packages are versions.
LEMMA AfterInRecords ==
    ASSUME NEW t, Filed(t), NEW n \in 0..Len(t.packages)
    PROVE  AfterPackages(t, n) \in Records
<1>1. [p \in PageIDs |-> PageAfter(t, n, p)] \in [PageIDs -> Content]
  BY AfterTyped
<1> QED BY <1>1, RecordsTyped DEF AfterPackages

\* The answers are versions.
LEMMA AnswersTyped ==
    ASSUME NEW t, Sound(t)
    PROVE  Answers(t) \in Records /\ \A id \in IDs : Answers(t)[id] = Answer(t, id)
BY AnswerTyped DEF Answers, Records

\* Nothing is queued and nothing is dirty: the device is what the table shows.
Clear(t) == t.packages = << >> /\ t.dirty = << >>

\* With nothing queued and nothing dirty the table shows the device.
LEMMA ClearIs ==
    ASSUME NEW t, Sound(t), Clear(t)
    PROVE  Answers(t) = RecordsOn(t.device)
<1>1. Len(t.packages) = 0 /\ Elements(t.dirty) = {}
  BY DEF Clear, Elements
<1>2. Filed(t) /\ Whole(t.cache)
  BY DEF Sound
<1>3. ASSUME NEW p \in PageIDs PROVE Page(t, p) = PageAfter(t, 0, p)
  <2>1. Newest(t, p) = PageAfter(t, 0, p)
    BY <1>1 DEF Newest
  <2>2. FindPage(t.cache, p) # NULL => FindPage(t.cache, p) \in Frames
    BY <1>2, WholeIs
  <2>3. FindPage(t.cache, p) # NULL => ~t.cache.frame[FindPage(t.cache, p)].dirty
    BY <1>1, <2>2 DEF Sound
  <2>4. FindPage(t.cache, p) # NULL => t.cache.frame[FindPage(t.cache, p)].content = Newest(t, p)
    BY <2>3 DEF Sound
  <2> QED BY <2>1, <2>4 DEF Page
<1>4. Answers(t) = AfterPackages(t, 0)
  BY <1>3, SameAnswers
<1> QED BY <1>2, <1>4, AfterZero

\* Ids up to a number leave no gap.
LEMMA UpToClosed ==
    ASSUME NEW t, Sound(t), NEW n \in Nat, UpTo(Answers(t), n)
    PROVE  Closed(t)
<1>1. \A id \in IDs : id \in Nat /\ (Answer(t, id) # NULL <=> id <= n)
  BY AnswersTyped, PagesAre DEF UpTo
<1> QED BY <1>1 DEF Closed

\* What a read leaves as it was.
Same(t, u) ==
  /\ Sound(u) /\ Stays(t, u) /\ u.dirty = t.dirty /\ Answers(u) = Answers(t)
  /\ \A n : AfterPackages(u, n) = AfterPackages(t, n)

\* A read leaves what counts of the table.
LEMMA ReadsSame ==
    ASSUME NEW t, NEW u, Reads(t, u)
    PROVE  Same(t, u)
<1>1. \A n : AfterPackages(u, n) = AfterPackages(t, n)
  BY AfterStays, SameAfter DEF Reads
<1>2. Answers(u) = Answers(t)
  BY AnswersKeep DEF Reads, SameRecords
<1> QED BY <1>1, <1>2 DEF Reads, Same

\* Nothing done leaves all of it.
LEMMA SameSelf ==
    ASSUME NEW t, Sound(t)
    PROVE  Same(t, t)
BY DEF Same, Stays

-----------------------------------------------------------------------------
(* The invariant of the node *)

NodeTyped ==
  /\ config \in [last : 0..MaxID, flag : BOOLEAN]
  /\ cfgLog \in 0..MaxID /\ cur \in 0..MaxID \cup {NULL} /\ torn \in BOOLEAN
  /\ queue \in Seq(0..MaxID) /\ Len(queue) <= MaxQueue
  /\ state \in {"down", "follower", "sync", "normal"}
  /\ behind \in 0..MaxBehind /\ faults \in 0..MaxFaults

\* Only a master that serves has blocks and changes of its own.
Resting == ~Serving => queue = << >> /\ Clear(table)

\* Every queued block has the package that holds the records up to its last id.
Queued ==
  /\ Len(table.packages) = Len(queue)
  /\ \A i \in 1..Len(queue) : UpTo(AfterPackages(table, i), queue[i])

\* The device has the records the config counts, unless a write was broken off.
OnDevice ==
  ~torn /\ (state = "down" => ~config.flag) => UpTo(RecordsOn(table.device), config.last)

\* What a master shows are the records its current block counts; before it
\* serves, that block is not ahead of what is stored.
Shown ==
  /\ Serving => UpTo(Answers(table), cur)
  /\ state \in {"follower", "sync"} /\ cur # NULL => cur <= config.last

\* Under the flag the log holds what the last write wrote, or was to write.
Logged ==
  config.flag =>
    /\ state = "down" => UpTo(RecordsOn(Redone(table.log, table.device)), cfgLog)
    /\ state # "down" \/ fetched # NULL =>
         Redone(table.log, table.device) = table.device /\ cfgLog = config.last

Broken == torn => state = "normal" /\ queue # << >> /\ ~config.flag

\* A block that is asked for again is the next one of the peers.
Asked ==
  /\ state = "normal" /\ cur # NULL => behind = 0
  /\ fetched # NULL => behind > 0 /\ fetched \in Blocks

Reopened == state = "down" => table = OpenTable(table.log, table.device)

IInv ==
  /\ NodeTyped /\ Sound(table) /\ Resting /\ Queued /\ OnDevice /\ Shown /\ Logged
  /\ Broken /\ Asked /\ Reopened

-----------------------------------------------------------------------------
(* The records while the node does not serve *)

\* The fields of the config.
LEMMA ConfigIs ==
    ASSUME NodeTyped
    PROVE  /\ config = [last |-> config.last, flag |-> config.flag]
           /\ config.last \in 0..MaxID /\ config.flag \in BOOLEAN
BY DEF NodeTyped

\* The numbers the ids are.
LEMMA MaxIDIs == MaxID \in Nat /\ \A n \in 0..MaxID : n \in Nat /\ \A id \in IDs : id \in 1..MaxID
BY Sizes DEF IDs

\* A master serves from a block that is not behind what was stored last.
LEMMA ServesIs ==
    ASSUME Protected
    PROVE  Serving <=> state = "normal" /\ cur # NULL /\ ~(cur < LastPacked)
BY DEF Serving, Protected

\* What a node knows that synchronises.
Synced ==
  /\ Sound(table) /\ Clear(table) /\ Closed(table)
  /\ Answers(table) = RecordsOn(table.device)
  /\ UpTo(Answers(table), config.last)
  /\ Known = {id \in IDs : id <= config.last}
  /\ \A id \in IDs : RecordsOn(table.device)[id] = Answer(table, id)

\* A node that follows or synchronises shows its device, up to the config's id.
LEMMA SyncedIs ==
    ASSUME IInv, state \in {"follower", "sync"}
    PROVE  Synced
<1>1. Sound(table) /\ Clear(table)
  BY DEF IInv, Resting, Serving
<1>2. ~torn /\ UpTo(RecordsOn(table.device), config.last)
  BY DEF IInv, Broken, OnDevice
<1>3. Answers(table) = RecordsOn(table.device)
  BY <1>1, ClearIs
<1>4. config.last \in Nat
  BY ConfigIs, MaxIDIs DEF IInv
<1>5. Closed(table)
  BY <1>1, <1>2, <1>3, <1>4, UpToClosed
<1>6. Known = {id \in IDs : id <= config.last}
  BY <1>2 DEF Known, UpTo
<1>7. \A id \in IDs : RecordsOn(table.device)[id] = Answer(table, id)
  BY <1>1, <1>3, AnswersTyped
<1> QED BY <1>1, <1>2, <1>3, <1>5, <1>6, <1>7 DEF Synced

\* The items of a block of the peers.
LEMMA BlockIs ==
    ASSUME NEW b \in Blocks
    PROVE  /\ DOMAIN b \subseteq IDs /\ DOMAIN b # {} /\ \A id \in DOMAIN b : b[id] \in Versions
           /\ \A id \in DOMAIN b :
                b[id] = IF id \in Known THEN RecordsOn(table.device)[id] + 1 ELSE 0
           /\ \A id \in DOMAIN b \ Known : id > 1 => id - 1 \in Known \cup DOMAIN b
<1>1. b \in Lists
  BY DEF Blocks
<1>2. PICK ids \in (SUBSET IDs) \ {{}} : b \in [ids -> Versions]
  BY <1>1 DEF Lists
<1>3. DOMAIN b \subseteq IDs /\ DOMAIN b # {} /\ \A id \in DOMAIN b : b[id] \in Versions
  <2>1. DOMAIN b = ids /\ \A id \in ids : b[id] \in Versions
    BY <1>2
  <2>2. ids \subseteq IDs
    BY <1>2
  <2>3. ids # {}
    BY <1>2
  <2> QED BY ONLY <2>1, <2>2, <2>3
<1> QED BY <1>3 DEF Blocks

\* A block of the peers raises records there are and adds the next ones.
LEMMA BlockFits ==
    ASSUME Synced, NEW b \in Blocks
    PROVE  Fits(table, b)
<1> SUFFICES ASSUME NEW id \in DOMAIN b
             PROVE  /\ b[id] \in Versions
                    /\ b[id] # 0 => Answer(table, id) # NULL
                    /\ b[id] = 0 => /\ Answer(table, id) = NULL
                                    /\ (id > 1 => Answer(table, id - 1) # NULL \/ id - 1 \in DOMAIN b)
  BY BlockIs DEF Fits
<1>1. id \in IDs /\ b[id] \in Versions
  BY BlockIs
<1>2. \A j \in IDs : j \in Known <=> Answer(table, j) # NULL
  BY DEF Synced, Known
<1>3. CASE id \in Known
  <2>1. b[id] = Answer(table, id) + 1 /\ Answer(table, id) # NULL
    BY <1>1, <1>2, <1>3, BlockIs DEF Synced
  <2>2. Answer(table, id) \in Nat
    BY <1>1, <2>1, AnswerTyped DEF Synced, Versions
  <2> QED BY <1>1, <2>1, <2>2
<1>4. CASE id \notin Known
  <2>1. b[id] = 0 /\ Answer(table, id) = NULL
    BY <1>1, <1>2, <1>4, BlockIs
  <2>2. id > 1 => id - 1 \in Known \cup DOMAIN b
    BY <1>4, BlockIs
  <2>3. Known \subseteq IDs
    BY DEF Known
  <2> QED BY <1>1, <1>2, <2>1, <2>2, <2>3
<1> QED BY <1>3, <1>4

\* The next ids are the ones the block adds.
LEMMA BlockReaches ==
    ASSUME NodeTyped, Synced, NEW b \in Blocks, config.last <= MaxAlocWsID(b), NEW u, Takes(table, u, b, MaxID)
    PROVE  MaxAlocWsID(b) \in 0..MaxID /\ UpTo(Answers(u), MaxAlocWsID(b))
<1> DEFINE m == Max(DOMAIN b)
<1>1. DOMAIN b \subseteq IDs /\ DOMAIN b # {} /\ MaxID \in Nat /\ DOMAIN b \in SUBSET Nat
      /\ \A id \in DOMAIN b : b[id] \in Versions /\ id <= MaxID
  BY BlockIs, MaxIDIs DEF IDs
<1>2. m \in DOMAIN b /\ \A id \in DOMAIN b : id <= m
  BY <1>1, MaxIs
<1> HIDE DEF m
<1>3. m \in IDs /\ m \in 0..MaxID /\ MaxAlocWsID(b) = m
  BY <1>1, <1>2 DEF IDs, MaxAlocWsID, m
<1>4. \A id \in IDs : id \in Nat /\ id <= MaxID /\ Answers(u)[id] = Answer(u, id)
                      /\ Answer(u, id) = IF id \in DOMAIN b THEN b[id] ELSE Answer(table, id)
  <2>1. Sound(u)
    BY DEF Takes
  <2>2. \A id \in IDs : id <= MaxID /\ id \in Nat
    BY <1>1 DEF IDs
  <2> QED BY <2>1, <2>2, AnswersTyped DEF Takes
<1>5. Answer(u, m) # NULL
  BY <1>1, <1>2, <1>3, <1>4, Sizes DEF Versions
<1>6. ASSUME NEW id \in IDs PROVE Answers(u)[id] # NULL <=> id <= m
  <2>1. CASE id <= m
    <3>1. Answer(u, id) # NULL
      BY <1>3, <1>5, <2>1 DEF Takes, Closed
    <3> QED BY <1>4, <2>1, <3>1
  <2>2. CASE ~(id <= m)
    <3>1. id \notin DOMAIN b
      BY <1>2, <2>2
    <3>2. ~(id <= config.last)
      BY <1>3, <1>4, <2>2, ConfigIs, MaxIDIs
    <3>3. Answer(table, id) = NULL
      BY <3>2, AnswersTyped DEF Synced, UpTo
    <3> QED BY <1>4, <2>2, <3>1, <3>3
  <2> QED BY <2>1, <2>2
<1> QED BY <1>3, <1>6 DEF UpTo

\* The check reads records there are, whatever block the peer sent.
LEMMA BlockChecked ==
    ASSUME Synced, NEW b \in Blocks \cup WrongBlocks
    PROVE  \A id \in Raised(b) : id \in IDs /\ Answer(table, id) # NULL
<1> SUFFICES ASSUME NEW id \in Raised(b) PROVE id \in IDs /\ Answer(table, id) # NULL
  OBVIOUS
<1>1. id \in DOMAIN b /\ b[id] # 0
  BY DEF Raised
<1>2. CASE b \in Blocks
  BY <1>1, <1>2, BlockFits DEF Fits
<1>3. CASE b \in WrongBlocks
  <2>1. id \in Known
    BY <1>1, <1>3 DEF WrongBlocks
  <2> QED BY <2>1 DEF Known, Synced
<1> QED BY <1>2, <1>3

-----------------------------------------------------------------------------
(* The start, and the steps that only read *)

\* The device of the first start has the records up to its last id.
LEMMA FormattedIs ==
    ASSUME NEW n \in 0..MaxID
    PROVE  Formatted(n) \in [PageIDs -> Content] /\ UpTo(RecordsOn(Formatted(n)), n)
<1>1. n \in Nat /\ 0 \in Versions
  BY MaxIDIs, Sizes DEF Versions
<1>2. Formatted(n) \in [PageIDs -> Content]
  <2>1. \A p \in PageIDs : [s \in Slots |-> IF p * PageRecords + s \in 1..n THEN 0 ELSE NULL] \in Content
    BY <1>1 DEF Content
  <2> QED BY <2>1 DEF Formatted
<1>3. ASSUME NEW id \in IDs PROVE RecordsOn(Formatted(n))[id] # NULL <=> id <= n
  <2> DEFINE p == GetPageID(id)
             s == GetPageRecord(id)
  <2>1. id \in Nat /\ 1 <= id /\ p \in PageIDs /\ p \in Nat /\ s \in Slots
    BY PagesAre, MaxIDIs DEF IDs
  <2>2. id = PageRecords * p + s
    BY <2>1, PageIs
  <2>3. RecordsOn(Formatted(n))[id] = Formatted(n)[p][s]
    BY DEF RecordsOn
  <2> HIDE DEF p, s
  <2>4. Formatted(n)[p][s] = IF p * PageRecords + s \in 1..n THEN 0 ELSE NULL
    BY <2>1 DEF Formatted
  <2>5. p * PageRecords + s = id
    BY <2>1, <2>2, Sizes DEF Slots
  <2>6. id \in 1..n <=> id <= n
    BY <1>1, <2>1
  <2> QED BY <2>3, <2>4, <2>5, <2>6, Sizes
<1> QED BY <1>2, <1>3 DEF UpTo

\* The invariant holds at the start.
LEMMA InitInv == Init => IInv
<1> SUFFICES ASSUME Init PROVE IInv
  OBVIOUS
<1>1. PICK n \in 0..MaxID :
        /\ table = OpenTable(EmptyLog, Formatted(n))
        /\ config = [last |-> n, flag |-> FALSE] /\ cfgLog = n
        /\ cur = n
  BY DEF Init
<1>2. /\ queue = << >> /\ state = "follower" /\ behind \in 0..MaxBehind
      /\ fetched = NULL /\ torn = FALSE /\ faults = 0
  BY DEF Init
<1>3. Opens(table, EmptyLog, Formatted(n))
  BY <1>1, FormattedIs, EmptyPackage, OpenTableIs
<1>4. /\ Sound(table) /\ table.packages = << >> /\ table.dirty = << >>
      /\ table.device = Formatted(n)
  BY <1>3 DEF Opens
<1>5. NodeTyped
  <2>1. /\ config \in [last : 0..MaxID, flag : BOOLEAN] /\ cfgLog \in 0..MaxID /\ cur \in 0..MaxID
        /\ torn \in BOOLEAN /\ state \in {"down", "follower", "sync", "normal"}
        /\ behind \in 0..MaxBehind
    BY <1>1, <1>2
  <2>2. queue \in Seq(0..MaxID) /\ Len(queue) <= MaxQueue /\ faults \in 0..MaxFaults
    BY <1>2, Sizes
  <2> QED BY <2>1, <2>2 DEF NodeTyped
<1>6. Resting /\ Broken /\ Reopened /\ Asked /\ Logged
  BY <1>1, <1>2, <1>4 DEF Resting, Clear, Broken, Reopened, Asked, Logged
<1>8. Shown
  BY <1>1, <1>2, MaxIDIs DEF Shown, Serving
<1>7. Queued /\ OnDevice
  BY <1>1, <1>2, <1>4, FormattedIs DEF Queued, OnDevice
<1> QED BY <1>4, <1>5, <1>6, <1>7, <1>8 DEF IInv

\* The next blocks of the peers depend on the device only.
LEMMA BlocksStay ==
    ASSUME table'.device = table.device
    PROVE  Blocks' = Blocks /\ Known' = Known
BY DEF Blocks, Known

\* A step that only reads keeps the invariant.
LEMMA Quiet ==
    ASSUME Protected, IInv, Same(table, table'), UNCHANGED <<config, cfgLog, cur, queue, torn>>,
           state' = state \/ (state # "down" /\ (state = "normal" => cur = NULL) /\ state' \in {"sync", "normal"}),
           state = "down" => table' = table /\ fetched' = fetched, NodeTyped', Asked'
    PROVE  IInv'
<1>1. /\ table'.packages = table.packages /\ table'.device = table.device /\ table'.log = table.log
      /\ table'.dirty = table.dirty /\ Sound(table') /\ Answers(table') = Answers(table)
      /\ \A n : AfterPackages(table', n) = AfterPackages(table, n)
  BY DEF Same, Stays
<1>2. LastPacked' = LastPacked
  BY DEF LastPacked
<1>10. Serving => Serving'
  <2>1. ASSUME Serving PROVE state' = "normal"
    BY <2>1 DEF Serving
  <2> QED BY <1>2, <2>1, ServesIs DEF Serving
<1>11. Resting'
  BY <1>1, <1>10 DEF IInv, Resting, Clear
<1>3. Queued'
  BY <1>1 DEF IInv, Queued
<1>4. OnDevice'
  BY <1>1 DEF IInv, OnDevice
<1>5. Shown'
  <2>1. ASSUME state' \in {"follower", "sync"}, cur' # NULL PROVE cur' <= config'.last
    <3>1. cur # NULL /\ state \in {"follower", "sync"}
      BY <2>1 DEF IInv, NodeTyped
    <3> QED BY <3>1 DEF IInv, Shown
  <2>2. ASSUME Serving' PROVE UpTo(Answers(table'), cur')
    <3>1. state' = "normal" /\ cur # NULL /\ ~(cur < LastPacked)
      BY <1>2, <2>2 DEF Serving, Protected
    <3>2. CASE state = "normal"
      BY <1>1, <3>1, <3>2, ServesIs DEF IInv, Shown
    <3>3. CASE state # "normal"
      <4>1. state \in {"follower", "sync"}
        BY <3>1, <3>3 DEF IInv, NodeTyped
      <4>2. UpTo(Answers(table), config.last) /\ cur <= config.last /\ LastPacked = config.last
        BY <3>1, <3>3, <4>1, SyncedIs DEF Synced, IInv, Shown, Resting, Serving, LastPacked
      <4>3. cur = config.last
        BY <3>1, <4>2, ConfigIs, MaxIDIs DEF IInv, NodeTyped
      <4> QED BY <1>1, <4>2, <4>3
    <3> QED BY <3>2, <3>3
  <2> QED BY <2>1, <2>2 DEF Shown
<1>6. Logged'
  BY <1>1 DEF IInv, Logged
<1>7. Broken'
  <2> SUFFICES ASSUME torn PROVE state' = "normal" /\ queue # << >> /\ ~config.flag
    BY DEF Broken
  <2>1. state = "normal" /\ queue # << >> /\ ~config.flag
    BY DEF IInv, Broken
  <2>2. cur # NULL
    BY <2>1 DEF IInv, Resting, Serving
  <2> QED BY <2>1, <2>2
<1>8. Reopened'
  BY DEF IInv, Reopened
<1>9. Sound(table)'
  BY <1>1
<1> QED BY <1>3, <1>4, <1>5, <1>6, <1>7, <1>8, <1>9, <1>11 DEF IInv

\* A failing read in the check of a block keeps the invariant.
LEMMA SyncFailsInv ==
    ASSUME Protected, IInv, Requested, NEW b \in NextBlocks, SyncFails(b)
    PROVE  IInv' /\ Same(table, table') /\ torn' = torn
<1>1. state = "sync" /\ behind > 0
  BY DEF Requested
<1>2. b \in Blocks /\ Synced
  BY <1>1, SyncedIs DEF IInv, Asked, NextBlocks
<1>3. PICK step \in {"check", "update", "store"} :
        /\ step = "check" \/ step \in Exposed
        /\ table' \in LeftBy(b, step)
        /\ IF step = "store" /\ table' # Stored(b)
           THEN cfgLog' = MaxAlocWsID(b) /\ config' = [config EXCEPT !.flag = FALSE]
           ELSE UNCHANGED <<cfgLog, config>>
  BY DEF SyncFails
<1>4. step = "check"
  BY <1>3 DEF Protected
<1>5. table' \in LeftByCheck(b) /\ UNCHANGED <<cfgLog, config>>
  BY <1>3, <1>4 DEF LeftBy
<1>6. PICK id \in Raised(b) :
        /\ ~GetsTablePage(CheckReads(b, id - 1), GetPageID(id), TRUE)
        /\ table' = ReadRecord(CheckReads(b, id - 1), id, TRUE)
  BY <1>5 DEF LeftByCheck
<1>7. \A i \in Raised(b) : i \in IDs /\ Answer(table, i) # NULL
  BY <1>2, BlockChecked
<1>8. PICK k \in 0..MaxID : k = id - 1
  BY <1>7, Sizes DEF IDs
<1>9. Reads(table, CheckReads(b, k))
  BY <1>2, <1>7, CheckReadsIs DEF Synced
<1>10. Reads(table, table')
  <2> DEFINE t == CheckReads(b, k)
  <2>1. Sound(t) /\ Closed(t)
    BY <1>2, <1>9, SameClosed DEF Reads, Synced
  <2>2. ~GetsTablePage(t, GetPageID(id), TRUE) /\ table' = ReadRecord(t, id, TRUE) /\ id \in IDs
    BY <1>6, <1>7, <1>8
  <2> HIDE DEF t
  <2>3. Reads(t, ReadRecord(t, id, TRUE))
    BY <2>1, <2>2, ReadRecordIs
  <2> QED BY <1>9, <2>2, <2>3, ReadsOn DEF t
<1>11. Same(table, table')
  BY <1>10, ReadsSame
<1>12. torn' = torn /\ UNCHANGED <<cur, queue, state, behind>> /\ fetched' = b /\ faults' \in 0..MaxFaults
  <2>1. torn' = torn
    BY <1>11 DEF SyncFails, Same, Stays, IInv, NodeTyped
  <2> QED BY <2>1, Sizes DEF SyncFails, Fault, IInv, NodeTyped
<1>13. NodeTyped'
  BY <1>5, <1>12 DEF IInv, NodeTyped
<1>14. Asked'
  <2>1. Blocks' = Blocks
    BY <1>11, BlocksStay DEF Same, Stays
  <2> QED BY <1>1, <1>2, <1>12, <2>1 DEF Asked
<1>15. IInv'
  <2>1. state # "down" /\ UNCHANGED <<config, cfgLog, cur, queue, torn>> /\ state' = state
    BY <1>1, <1>5, <1>12
  <2> QED BY <2>1, <1>11, <1>13, <1>14, Quiet
<1> QED BY <1>11, <1>12, <1>15

\* A block that does not fit keeps the invariant.
LEMMA SyncConflictInv ==
    ASSUME Protected, IInv, Requested, NEW b \in NextBlocks \cup WrongBlocks, SyncConflict(b)
    PROVE  IInv' /\ Same(table, table')
<1>1. state = "sync"
  BY DEF Requested
<1>2. b \in Blocks \cup WrongBlocks /\ Synced
  BY <1>1, SyncedIs DEF IInv, Asked, NextBlocks
<1>3. \A i \in Raised(b) : i \in IDs /\ Answer(table, i) # NULL
  BY <1>2, BlockChecked
<1> DEFINE n == Min(Conflicts(b))
<1>4. Conflicts(b) # {} /\ table' = CheckReads(b, n)
  BY DEF SyncConflict
<1>5. Conflicts(b) \in SUBSET Nat /\ Conflicts(b) \subseteq IDs
  BY <1>3 DEF Conflicts, IDs
<1>6. n \in 0..MaxID
  <2>1. n \in Conflicts(b)
    BY <1>4, <1>5, MinIs
  <2> QED BY <1>5, <2>1 DEF IDs
<1> HIDE DEF n
<1>7. Same(table, table')
  BY <1>2, <1>3, <1>4, <1>6, CheckReadsIs, ReadsSame DEF Synced
<1>8. UNCHANGED <<node, peer, torn>> /\ faults' \in 0..MaxFaults
  BY Sizes DEF SyncConflict, Fault, NoFault, IInv, NodeTyped
<1>9. NodeTyped'
  BY <1>8 DEF IInv, NodeTyped, node, peer
<1>10. Asked'
  <2>1. Blocks' = Blocks
    BY <1>7, BlocksStay DEF Same, Stays
  <2> QED BY <1>8, <2>1 DEF Asked, IInv, node, peer
<1>11. IInv'
  <2>1. state # "down" /\ UNCHANGED <<config, cfgLog, cur, queue, torn>> /\ state' = state
    BY <1>1, <1>8 DEF node, peer
  <2> QED BY <2>1, <1>7, <1>9, <1>10, Quiet
<1> QED BY <1>7, <1>11

\* So do the peers' blocks and the election.
LEMMA FollowInv ==
    ASSUME Protected, IInv, PeersAdvance \/ BecomeMaster \/ UNCHANGED vars
    PROVE  IInv' /\ Same(table, table')
<1>1. table' = table /\ UNCHANGED <<config, cfgLog, cur, queue, fetched, torn, faults>>
  BY DEF PeersAdvance, BecomeMaster, NoFault, vars, node, peer
<1>2. Same(table, table')
  BY <1>1, SameSelf DEF IInv
<1>3. behind' \in 0..MaxBehind /\ (behind > 0 => behind' > 0)
  BY Sizes DEF PeersAdvance, BecomeMaster, vars, peer, IInv, NodeTyped
<1>4. /\ state' = state \/ (state # "down" /\ (state = "normal" => cur = NULL) /\ state' \in {"sync", "normal"})
      /\ state' \in {"down", "follower", "sync", "normal"}
      /\ state' = "normal" /\ cur # NULL => behind' = 0
  <2>1. /\ behind \in 0..MaxBehind /\ state \in {"down", "follower", "sync", "normal"}
        /\ state = "normal" /\ cur # NULL => behind = 0
    BY DEF IInv, NodeTyped, Asked
  <2>2. CASE PeersAdvance
    <3>1. state # "down" /\ ~Leads /\ state' = state
      BY <2>2 DEF PeersAdvance, node
    <3> QED BY <2>1, <3>1 DEF Leads
  <2>3. CASE BecomeMaster
    <3>1. state # "down" /\ ~Leads /\ state' = (IF behind > 0 THEN "sync" ELSE "normal") /\ behind' = behind
      BY <2>3 DEF BecomeMaster, peer
    <3>2. state = "normal" => cur = NULL
      BY <3>1 DEF Leads
    <3>3. state' = "normal" => behind = 0
      BY <2>1, <3>1, Sizes
    <3>4. state' \in {"sync", "normal"}
      BY <3>1
    <3> QED BY <3>1, <3>2, <3>3, <3>4
  <2>4. CASE UNCHANGED vars
    <3>1. state' = state /\ behind' = behind
      BY <2>4 DEF vars, node, peer
    <3> QED BY <2>1, <3>1
  <2> QED BY <2>2, <2>3, <2>4
<1>5. NodeTyped'
  BY <1>1, <1>3, <1>4 DEF IInv, NodeTyped
<1>6. Asked'
  <2>1. Blocks' = Blocks
    BY <1>1, BlocksStay
  <2> QED BY <1>1, <1>3, <1>4, <2>1 DEF IInv, Asked
<1>7. IInv'
  BY <1>1, <1>2, <1>4, <1>5, <1>6, Quiet
<1> QED BY <1>2, <1>7

\* CheckWsItemVersion keeps the invariant.
LEMMA CheckVersionInv ==
    ASSUME Protected, IInv, NEW id \in IDs, CheckVersion(id)
    PROVE  IInv' /\ Same(table, table')
<1>1. state = "normal" /\ cur # NULL /\ UpTo(Answers(table), cur) /\ id <= cur /\ Sound(table) /\ cur \in Nat
  BY MaxIDIs DEF CheckVersion, Serving, Protected, IInv, Shown, NodeTyped
<1>2. Closed(table) /\ Answer(table, id) # NULL
  BY <1>1, UpToClosed, AnswersTyped DEF UpTo
<1>3. table' = ReadRecord(table, id, FALSE) /\ UNCHANGED <<node, peer, torn, faults>>
  BY DEF CheckVersion, NoFault
<1>4. Same(table, table')
  BY <1>1, <1>2, <1>3, ReadRecordIs, ReadsSame
<1>5. NodeTyped'
  BY <1>3 DEF IInv, NodeTyped, node, peer
<1>6. Asked'
  <2>1. Blocks' = Blocks
    BY <1>4, BlocksStay DEF Same, Stays
  <2> QED BY <1>3, <2>1 DEF Asked, IInv, node, peer
<1>7. IInv'
  BY <1>1, <1>3, <1>4, <1>5, <1>6, Quiet DEF node, peer
<1> QED BY <1>4, <1>7

-----------------------------------------------------------------------------
(* The fetched block *)

\* What a fetched block that fits makes of the table before it is written.
LEMMA StoredIs ==
    ASSUME Protected, NodeTyped, Synced, NEW b \in Blocks, SetsLastID(b)
    PROVE  /\ Fits(table, b) /\ Takes(table, Applied(b, MaxID), b, MaxID)
           /\ Packs(Applied(b, MaxID), Stored(b)) /\ Applied(b, MaxID).packages = << >>
           /\ MaxAlocWsID(b) \in 0..MaxID /\ config.last <= MaxAlocWsID(b)
           /\ UpTo(Answers(Applied(b, MaxID)), MaxAlocWsID(b))
           /\ Stored(b).packages # << >> /\ Tail(Stored(b).packages) = << >> /\ Len(Stored(b).packages) = 1
           /\ Sound(Stored(b)) /\ Stored(b).dirty = << >>
<1> DEFINE a == Applied(b, MaxID)
           s == Stored(b)
           m == MaxAlocWsID(b)
<1>4. Fits(table, b)
  BY BlockFits
<1>5. Takes(table, a, b, MaxID)
  BY <1>4, AppliedIs DEF Synced
<1>6. Packs(a, s)
  <2>1. s = PackModify(a)
    BY DEF Stored
  <2> HIDE DEF a, s
  <2>2. Sound(a)
    BY <1>5 DEF Takes
  <2> QED BY <2>1, <2>2, PackIs
<1>7. m \in 0..MaxID /\ config.last <= m /\ UpTo(Answers(a), m)
  <2>1. DOMAIN b \subseteq IDs /\ DOMAIN b # {}
    BY BlockIs
  <2>2. m \in Nat
    <3>1. \A id \in DOMAIN b : id \in Nat /\ id <= MaxID
      BY <2>1, MaxIDIs DEF IDs
    <3>2. MaxID \in Nat /\ DOMAIN b \in SUBSET Nat
      BY <3>1, MaxIDIs
    <3>3. m \in DOMAIN b
      BY <2>1, <3>1, <3>2, MaxIs DEF MaxAlocWsID
    <3> QED BY <3>1, <3>3
  <2>3. config.last <= m
    <3>1. ~(m < config.last) /\ config.last \in Nat
      BY ConfigIs, MaxIDIs DEF SetsLastID, Protected
    <3> HIDE DEF m
    <3> QED BY <2>2, <3>1
  <2> HIDE DEF a
  <2> QED BY <1>5, <2>3, BlockReaches
<1> HIDE DEF a, s, m
<1>8. a.packages = << >>
  BY <1>5 DEF Takes, Stays, Synced, Clear
<1>9. PICK k \in Package : s.packages = Append(a.packages, k)
  BY <1>6 DEF Packs
<1>10. s.packages # << >> /\ Tail(s.packages) = << >> /\ Len(s.packages) = 1 /\ Sound(s) /\ s.dirty = << >>
  <2>1. s.packages = <<k>>
    BY <1>8, <1>9
  <2>2. Sound(s) /\ s.dirty = << >>
    BY <1>6 DEF Packs
  <2> QED BY <2>1, <2>2
<1> QED BY <1>4, <1>5, <1>6, <1>7, <1>8, <1>10 DEF a, s, m

\* A fetched block is stored, and the invariant holds again.
LEMMA SyncRspInv ==
    ASSUME Protected, IInv, Requested, NEW b \in NextBlocks, SyncRsp(b)
    PROVE  IInv' /\ Clear(table') /\ Answers(table') = Answers(Applied(b, MaxID))
<1> DEFINE a == Applied(b, MaxID)
           s == Stored(b)
           m == MaxAlocWsID(b)
<1>1. state = "sync" /\ behind > 0
  BY DEF Requested
<1>2. b \in Blocks /\ Synced /\ NodeTyped
  BY <1>1, SyncedIs DEF IInv, Asked, NextBlocks
<1>3. /\ table' = CommitteTransaction(Persistence(SaveToLog(s), DOMAIN Head(s.packages)))
      /\ cfgLog' = m /\ config' = [last |-> m, flag |-> FALSE]
      /\ behind' = behind - 1 /\ fetched' = NULL
      /\ state' = AfterFetch(behind') /\ torn' = FALSE
      /\ faults' = faults /\ cur' = cur /\ queue' = queue
      /\ SetsLastID(b)
  BY DEF SyncRsp, NoFault
<1>4. /\ Takes(table, a, b, MaxID) /\ Packs(a, s) /\ a.packages = << >>
      /\ m \in 0..MaxID /\ config.last <= m /\ UpTo(Answers(a), m)
      /\ s.packages # << >> /\ Tail(s.packages) = << >> /\ Sound(s) /\ s.dirty = << >>
  BY <1>2, <1>3, StoredIs
<1> HIDE DEF a, s, m
<1>11. Persists(s, table')
  BY <1>3, <1>4, PersistIs
<1>12. Sound(table') /\ Clear(table')
  BY <1>4, <1>11 DEF Persists, Clear
<1>13. Answers(table') = Answers(a)
  <2>1. \A p \in PageIDs : Page(table', p) = Page(a, p)
    BY <1>4, <1>11 DEF Packs, Persists
  <2>2. SameRecords(a, table')
    BY <1>4, <1>12, <2>1, SamePages DEF Takes
  <2> QED BY <2>2, AnswersKeep DEF SameRecords
<1>14. UpTo(Answers(table'), m) /\ UpTo(RecordsOn(table'.device), m)
  BY <1>4, <1>12, <1>13, ClearIs
<1>15. queue = << >> /\ Len(queue) = 0 /\ Len(table'.packages) = 0
  BY <1>1, <1>12 DEF IInv, Resting, Serving, Clear
<1>16. behind' \in 0..MaxBehind
  BY <1>1, <1>3, Sizes DEF IInv, NodeTyped
<1>17. state' \in {"sync", "normal"} /\ (state' = "normal" => behind' = 0)
  <2>1. CASE behind' = 0
    BY <1>3, <2>1 DEF AfterFetch
  <2>2. CASE behind' # 0
    BY <1>1, <1>3, <2>2 DEF AfterFetch
  <2> QED BY <2>1, <2>2
<1>18. NodeTyped'
  <2>1. config' \in [last : 0..MaxID, flag : BOOLEAN] /\ cfgLog' \in 0..MaxID
    BY <1>3, <1>4
  <2> QED BY <1>3, <1>16, <1>17, <2>1 DEF IInv, NodeTyped
<1>19. Resting' /\ Queued' /\ Broken' /\ Asked' /\ Reopened'
  BY <1>3, <1>12, <1>15, <1>17 DEF Resting, Queued, Broken, Asked, Reopened
<1>20. Shown'
  <2>1. config'.last = m
    BY <1>3
  <2>2. ASSUME cur # NULL PROVE cur <= m /\ cur \in 0..MaxID
    <3>1. cur <= config.last /\ cur \in 0..MaxID
      BY <1>1, <2>2 DEF IInv, Shown, NodeTyped
    <3> QED BY <1>4, <3>1, ConfigIs, MaxIDIs DEF IInv
  <2>3. ASSUME Serving' PROVE UpTo(Answers(table'), cur')
    <3>1. cur # NULL /\ ~(cur < m)
      BY <1>3, <1>15, <2>1, <2>3 DEF Serving, Protected, LastPacked
    <3>2. cur = m
      BY <1>4, <2>2, <3>1, MaxIDIs
    <3> QED BY <1>3, <1>14, <3>2
  <2> QED BY <1>3, <2>1, <2>2, <2>3 DEF Shown
<1>21. OnDevice' /\ Logged'
  <2>1. config'.last = m /\ ~config'.flag
    BY <1>3
  <2> QED BY <1>14, <2>1 DEF OnDevice, Logged
<1>22. Sound(table)'
  BY <1>12
<1>23. IInv'
  BY <1>18, <1>19, <1>20, <1>21, <1>22 DEF IInv
<1> QED BY <1>12, <1>13, <1>23 DEF a

-----------------------------------------------------------------------------
(* The master that serves *)

\* Append, Head, Tail and Last of the queue of blocks.
LEMMA QueueIs ==
    ASSUME NEW q \in Seq(0..MaxID)
    PROVE  /\ Len(q) \in Nat /\ \A i \in 1..Len(q) : q[i] \in 0..MaxID
           /\ \A n \in 0..MaxID : /\ Append(q, n) \in Seq(0..MaxID) /\ Len(Append(q, n)) = Len(q) + 1
                                  /\ Append(q, n)[Len(q) + 1] = n
                                  /\ \A i \in 1..Len(q) : Append(q, n)[i] = q[i]
           /\ q = << >> <=> Len(q) = 0
           /\ q # << >> => /\ Head(q) = q[1] /\ Head(q) \in 0..MaxID /\ Tail(q) \in Seq(0..MaxID)
                           /\ Len(Tail(q)) = Len(q) - 1 /\ Len(q) >= 1 /\ Last(q) = q[Len(q)]
                           /\ \A i \in 1..Len(q) - 1 : Tail(q)[i] = q[i + 1]
<1> DEFINE S == 0..MaxID
<1>1. q \in Seq(S)
  OBVIOUS
<1> HIDE DEF S
<1>2. Len(q) \in Nat /\ (\A i \in 1..Len(q) : q[i] \in S) /\ (q = << >> <=> Len(q) = 0)
  BY <1>1
<1>3. \A n \in S : /\ Append(q, n) \in Seq(S) /\ Len(Append(q, n)) = Len(q) + 1
                   /\ Append(q, n)[Len(q) + 1] = n
                   /\ \A i \in 1..Len(q) : Append(q, n)[i] = q[i]
  BY <1>1
<1>4. ASSUME q # << >>
      PROVE  /\ Head(q) = q[1] /\ Head(q) \in S /\ Tail(q) \in Seq(S)
             /\ Len(Tail(q)) = Len(q) - 1 /\ Len(q) >= 1
             /\ \A i \in 1..Len(q) - 1 : Tail(q)[i] = q[i + 1]
  BY <1>1, <1>4
<1>5. Last(q) = q[Len(q)]
  BY DEF Last
<1> QED BY <1>2, <1>3, <1>4, <1>5 DEF S

\* The newest packed state is the one a rollback shows.
LEMMA LastPackedIs ==
    ASSUME IInv, state = "normal"
    PROVE  LastPacked \in 0..MaxID /\ UpTo(AfterPackages(table, Len(table.packages)), LastPacked)
<1>1. queue \in Seq(0..MaxID) /\ Len(table.packages) = Len(queue) /\ config.last \in 0..MaxID
  BY ConfigIs DEF IInv, NodeTyped, Queued
<1>2. CASE queue = << >>
  <2>1. ~torn /\ Len(table.packages) = 0 /\ LastPacked = config.last
    BY <1>1, <1>2 DEF IInv, Broken, LastPacked
  <2>2. AfterPackages(table, 0) = RecordsOn(table.device)
    BY AfterZero DEF IInv, Sound
  <2>3. UpTo(RecordsOn(table.device), config.last)
    BY <2>1 DEF IInv, OnDevice
  <2> QED BY <1>1, <2>1, <2>2, <2>3
<1>3. CASE queue # << >>
  <2>1. LastPacked = queue[Len(queue)] /\ Len(queue) \in 1..Len(queue)
    BY <1>1, <1>3, QueueIs DEF LastPacked
  <2>2. queue[Len(queue)] \in 0..MaxID
    BY <1>1, <2>1, QueueIs
  <2> QED BY <1>1, <2>1, <2>2 DEF IInv, Queued
<1> QED BY <1>2, <1>3

\* A master that serves has the records up to its counter.
LEMMA ServingIs ==
    ASSUME Protected, IInv, Serving
    PROVE  /\ state = "normal" /\ cur # NULL /\ ~(cur < LastPacked)
           /\ UpTo(Answers(table), cur) /\ Sound(table) /\ Closed(table)
           /\ cur \in Nat /\ cur <= MaxID
           /\ \A id \in IDs : id \in Nat /\ 1 <= id /\ id <= MaxID /\ (Answer(table, id) # NULL <=> id <= cur)
<1>1. state = "normal" /\ cur # NULL /\ ~(cur < LastPacked)
  BY DEF Serving, Protected
<1>2. Sound(table) /\ UpTo(Answers(table), cur) /\ cur \in 0..MaxID
  BY <1>1 DEF IInv, Shown, NodeTyped
<1>3. cur \in Nat /\ cur <= MaxID /\ \A id \in IDs : id \in Nat /\ 1 <= id /\ id <= MaxID
  BY <1>2, MaxIDIs DEF IDs
<1>4. Closed(table)
  BY <1>2, <1>3, UpToClosed
<1>5. \A id \in IDs : Answer(table, id) # NULL <=> id <= cur
  BY <1>2, AnswersTyped DEF UpTo
<1> QED BY <1>1, <1>2, <1>3, <1>4, <1>5

\* Work in the cache.
LEMMA WorksInv ==
    ASSUME Protected, IInv, Serving, Sound(table'), Stays(table, table'),
           config' = config, cfgLog' = cfgLog, queue' = queue, state' = state,
           behind' = behind, fetched' = fetched, torn' = torn,
           cur' \in 0..MaxID, ~(cur' < LastPacked), faults' \in 0..MaxFaults, UpTo(Answers(table'), cur')
    PROVE  IInv' /\ Serving'
<1>1. state = "normal" /\ cur # NULL
  BY ServingIs
<1>10. Serving'
  <2>1. cur' # NULL
    BY Sizes, MaxIDIs
  <2> QED BY <1>1, <2>1 DEF Serving, LastPacked
<1>2. \A n : AfterPackages(table', n) = AfterPackages(table, n)
  BY AfterStays, SameAfter
<1>3. table'.packages = table.packages /\ table'.log = table.log /\ table'.device = table.device
  BY DEF Stays
<1>4. NodeTyped'
  BY DEF IInv, NodeTyped
<1>5. Resting' /\ Shown' /\ Broken' /\ Reopened'
  BY <1>1, <1>10 DEF Resting, Shown, IInv, Broken, Reopened
<1>6. Queued'
  BY <1>2, <1>3 DEF IInv, Queued
<1>7. OnDevice' /\ Logged'
  BY <1>3 DEF IInv, OnDevice, Logged
<1>8. Asked'
  BY <1>1, <1>3, BlocksStay DEF IInv, Asked
<1>9. Sound(table)'
  OBVIOUS
<1> QED BY <1>4, <1>5, <1>6, <1>7, <1>8, <1>9, <1>10 DEF IInv

\* What a record that is set does to the ids there are.
LEMMA SetsUpTo ==
    ASSUME NEW t, NEW u, NEW n, NEW m, UpTo(Answers(t), n), Sound(t), NEW id \in IDs, NEW record \in Versions,
           Sets(t, u, id, record), \A i \in IDs : i <= m <=> i = id \/ i <= n
    PROVE  UpTo(Answers(u), m)
<1>1. record # NULL /\ Sound(u)
  BY Sizes DEF Versions, Sets
<1> SUFFICES ASSUME NEW i \in IDs PROVE Answers(u)[i] # NULL <=> i <= m
  BY DEF UpTo
<1>2. Answers(u)[i] = IF i = id THEN record ELSE Answers(t)[i]
  BY <1>1, AnswersTyped DEF Sets
<1> QED BY <1>1, <1>2 DEF UpTo

\* Append of a transaction keeps the invariant.
LEMMA SubmitAppendInv ==
    ASSUME Protected, IInv, SubmitAppend
    PROVE  /\ IInv' /\ cur + 1 \in IDs /\ Serving /\ Serving'
           /\ Sets(table, table', cur + 1, 0)
<1>1. Serving /\ cur < MaxID
  BY DEF SubmitAppend
<1>2. /\ table' = AppendRecord(table, cur + 1, 0, FALSE) /\ cur' = cur + 1
      /\ UNCHANGED <<config, cfgLog, queue, state, behind, fetched, torn, faults>>
  BY DEF SubmitAppend, NoFault, peer
<1>3. PICK id \in IDs : id = cur + 1
  BY <1>1, ServingIs, MaxIDIs DEF IDs
<1>4. Answer(table, id) = NULL /\ (id > 1 => Answer(table, id - 1) # NULL)
  <2>1. Answer(table, id) = NULL
    BY <1>1, <1>3, ServingIs
  <2>2. ASSUME id > 1 PROVE Answer(table, id - 1) # NULL
    <3>1. PICK j \in IDs : j = id - 1 /\ j <= cur
      BY <1>1, <1>3, <2>2, ServingIs, MaxIDIs DEF IDs
    <3> QED BY <1>1, <3>1, ServingIs
  <2> QED BY <2>1, <2>2
<1>5. AppendSucceeds(table, id, FALSE)
  BY AlwaysGets, PagesAre DEF AppendSucceeds, IInv
<1>6. Sets(table, table', id, 0)
  <2>1. Sets(table, AppendRecord(table, id, 0, FALSE), id, 0)
    BY <1>1, <1>4, <1>5, ServingIs, AppendRecordIs
  <2> QED BY <1>2, <1>3, <2>1
<1>7. UpTo(Answers(table'), cur')
  <2>1. \A i \in IDs : i <= cur' <=> i = id \/ i <= cur
    BY <1>1, <1>2, <1>3, ServingIs
  <2>2. 0 \in Versions /\ UpTo(Answers(table), cur) /\ Sound(table)
    BY <1>1, ServingIs, Sizes DEF Versions
  <2> QED BY <1>6, <2>1, <2>2, SetsUpTo
<1>8. cur' \in 0..MaxID /\ faults' \in 0..MaxFaults
  BY <1>1, <1>2, ServingIs, MaxIDIs DEF IInv, NodeTyped
<1>9. Sound(table') /\ Stays(table, table')
  BY <1>6 DEF Sets
<1>10. IInv' /\ Serving'
  <2>1. ~(cur' < LastPacked)
    BY <1>1, <1>2, ServingIs, LastPackedIs, MaxIDIs
  <2> QED BY <1>1, <1>2, <1>7, <1>8, <1>9, <2>1, WorksInv
<1> QED BY <1>1, <1>3, <1>6, <1>10

\* Update of a transaction keeps the invariant.
LEMMA SubmitUpdateInv ==
    ASSUME Protected, IInv, NEW id \in IDs, SubmitUpdate(id)
    PROVE  /\ IInv' /\ Serving /\ Serving' /\ id <= cur /\ Answer(table, id) \in Versions /\ Answer(table, id) + 1 \in Versions
           /\ Sets(table, table', id, Answer(table, id) + 1)
<1>1. Serving /\ id <= cur /\ Answer(table, id) \in 0..MaxVersion - 1
  BY DEF SubmitUpdate
<1>2. /\ table' = UpdateRecord(table, id, Answer(table, id) + 1, FALSE)
      /\ UNCHANGED <<config, cfgLog, cur, queue, state, behind, fetched, torn, faults>>
  BY DEF SubmitUpdate, NoFault, node, peer
<1>3. Answer(table, id) \in Versions /\ Answer(table, id) + 1 \in Versions
  BY <1>1, Sizes DEF Versions
<1>4. Answer(table, id) # NULL
  BY <1>1, ServingIs
<1>5. UpdateSucceeds(table, id, FALSE)
  BY AlwaysGets, PagesAre DEF UpdateSucceeds, GetsTablePage, IInv
<1> DEFINE v == Answer(table, id) + 1
<1>6. Sets(table, table', id, v)
  <2>1. v \in Versions /\ table' = UpdateRecord(table, id, v, FALSE)
    BY <1>2, <1>3
  <2> HIDE DEF v
  <2> QED BY <1>1, <1>4, <1>5, <2>1, ServingIs, UpdateRecordIs
<1>7. UpTo(Answers(table'), cur')
  <2>1. \A i \in IDs : i <= cur <=> i = id \/ i <= cur
    BY <1>1
  <2>2. v \in Versions /\ UpTo(Answers(table), cur) /\ Sound(table) /\ cur' = cur
    BY <1>1, <1>2, <1>3, ServingIs
  <2> HIDE DEF v
  <2> QED BY <1>6, <2>1, <2>2, SetsUpTo
<1>8. cur' \in 0..MaxID /\ faults' \in 0..MaxFaults
  BY <1>1, <1>2, ServingIs, MaxIDIs DEF IInv, NodeTyped
<1>9. Sound(table') /\ Stays(table, table')
  BY <1>6 DEF Sets
<1>10. IInv' /\ Serving'
  <2>1. ~(cur' < LastPacked)
    BY <1>1, <1>2, ServingIs
  <2> QED BY <1>1, <1>2, <1>7, <1>8, <1>9, <2>1, WorksInv
<1> QED BY <1>1, <1>3, <1>6, <1>10

-----------------------------------------------------------------------------
(* Rollback and pack *)

\* RollbackPartBlock keeps the invariant.
LEMMA SubmitFailsInv ==
    ASSUME Protected, IInv, NEW id \in IDs, SubmitFails(id)
    PROVE  /\ IInv' /\ Stays(table, table') /\ Serving /\ Serving'
           /\ Answers(table') = AfterPackages(table, Len(table.packages))
<1> DEFINE p == GetPageID(id)
           t == GetTablePage(table, p, TRUE)
<1>1. /\ Serving /\ cur' = LastPacked /\ faults < MaxFaults /\ faults' = faults + 1
      /\ table' = RollbackUnpackCache(UpdateRecord(table, id, 0, TRUE))
      /\ UNCHANGED <<config, cfgLog, queue, state, behind, fetched, torn>>
      /\ IF id <= cur THEN ~UpdateSucceeds(table, id, TRUE) ELSE ~AppendSucceeds(table, id, TRUE)
  BY DEF SubmitFails, Fault, peer
<1>2. ~GetsTablePage(table, p, TRUE)
  BY <1>1 DEF UpdateSucceeds, AppendSucceeds
<1>3. table' = RollbackUnpackCache(t)
  BY <1>1, <1>2 DEF UpdateRecord, UpdateSucceeds
<1>4. p \in PageIDs /\ Sound(table)
  BY PagesAre DEF IInv
<1>5. Loads(table, t, p, TRUE)
  BY <1>2, <1>4, LoadIs
<1> HIDE DEF t, p
<1>6. RolledBack(t, table')
  BY <1>3, <1>5, RollbackIs DEF Loads
<1>7. Sound(table') /\ Stays(table, table')
  BY <1>5, <1>6, StaysOn DEF RolledBack, Loads
<1>8. Answers(table') = AfterPackages(table, Len(table.packages))
  <2>1. \A q \in PageIDs : Page(table', q) = PageAfter(table, Len(table.packages), q)
    BY <1>5, <1>6, NewestStays DEF RolledBack, Loads, Newest
  <2> QED BY <1>7, <2>1, SameAnswers
<1>9. cur' \in 0..MaxID /\ UpTo(Answers(table'), cur')
  BY <1>1, <1>8, LastPackedIs, ServingIs
<1>10. faults' \in 0..MaxFaults
  BY <1>1, Sizes DEF IInv, NodeTyped
<1>11. IInv' /\ Serving'
  <2>1. ~(cur' < LastPacked)
    BY <1>1, LastPackedIs, ServingIs, MaxIDIs
  <2> QED BY <1>1, <1>7, <1>9, <1>10, <2>1, WorksInv
<1> QED BY <1>1, <1>7, <1>8, <1>11

\* PackBlock keeps the invariant.
LEMMA PackBlockInv ==
    ASSUME Protected, IInv, PackBlock
    PROVE  IInv' /\ Packs(table, table') /\ Serving /\ Serving'
<1>1. /\ Serving /\ Len(queue) < MaxQueue /\ table' = PackModify(table) /\ queue' = Append(queue, cur)
      /\ UNCHANGED <<config, cfgLog, cur, state, behind, fetched, torn, faults>>
  BY DEF PackBlock, NoFault, peer
<1>2. state = "normal" /\ cur # NULL /\ cur \in 0..MaxID /\ UpTo(Answers(table), cur) /\ Sound(table)
  BY <1>1, ServingIs, MaxIDIs
<1>3. Packs(table, table')
  BY <1>1, <1>2, PackIs
<1> DEFINE n == Len(queue)
<1>4. queue \in Seq(0..MaxID) /\ cur \in 0..MaxID /\ Len(table.packages) = n
  BY <1>2 DEF IInv, NodeTyped, Queued
<1>5. n \in Nat /\ queue' \in Seq(0..MaxID) /\ Len(queue') = n + 1 /\ queue'[n + 1] = cur /\ queue' # << >>
      /\ \A i \in 1..n : queue'[i] = queue[i]
  BY <1>1, <1>4, QueueIs
<1>6. Len(table'.packages) = n + 1
  <2>1. PICK k \in Package : table'.packages = Append(table.packages, k)
    BY <1>3 DEF Packs
  <2>2. table.packages \in Seq(Package)
    BY <1>2 DEF Sound, Filed
  <2> QED BY <1>4, <2>1, <2>2, SeqHas
<1>7. Sound(table') /\ table'.device = table.device /\ table'.log = table.log
  BY <1>3 DEF Packs
<1>8. \A i \in 0..n : AfterPackages(table', i) = AfterPackages(table, i)
  BY <1>3, <1>4, SameAfter DEF Packs
<1>9. Answers(table') = Answers(table) /\ AfterPackages(table', n + 1) = Answers(table)
  <2>1. \A p \in PageIDs : Page(table, p) = PageAfter(table', n + 1, p) /\ Page(table', p) = PageAfter(table', n + 1, p)
    BY <1>3, <1>4 DEF Packs
  <2> HIDE DEF n
  <2> QED BY <1>2, <1>7, <2>1, SameAnswers
<1>10. NodeTyped'
  <2>1. Len(queue') <= MaxQueue
    BY <1>1, <1>5, Sizes
  <2> QED BY <1>1, <1>5, <2>1 DEF IInv, NodeTyped
<1>11. Queued'
  <2> SUFFICES ASSUME NEW i \in 1..n + 1 PROVE UpTo(AfterPackages(table', i), queue'[i])
    BY <1>5, <1>6 DEF Queued
  <2>1. CASE i = n + 1
    BY <1>2, <1>5, <1>9, <2>1
  <2>2. CASE i # n + 1
    <3>1. i \in 1..n /\ i \in 0..n
      BY <1>5, <2>2
    <3> QED BY <1>5, <1>8, <3>1 DEF IInv, Queued
  <2> QED BY <2>1, <2>2
<1>18. Serving'
  <2>1. LastPacked' = cur'
    BY <1>1, <1>5, QueueIs DEF LastPacked
  <2> QED BY <1>1, <1>2, <2>1, MaxIDIs DEF Serving
<1>12. Resting' /\ Reopened' /\ Broken'
  BY <1>1, <1>2, <1>5, <1>18 DEF Resting, Reopened, Broken, IInv
<1>13. OnDevice' /\ Logged'
  BY <1>1, <1>7 DEF OnDevice, Logged, IInv
<1>14. Shown'
  BY <1>1, <1>2, <1>9 DEF Shown
<1>15. Asked'
  BY <1>1, <1>7, BlocksStay DEF Asked, IInv
<1>16. Sound(table)'
  BY <1>7
<1>17. IInv'
  BY <1>10, <1>11, <1>12, <1>13, <1>14, <1>15, <1>16 DEF IInv
<1> QED BY <1>1, <1>3, <1>17, <1>18

\* ChangeCpsToFollowerState keeps the invariant.
LEMMA StepDownInv ==
    ASSUME Protected, IInv, StepDown
    PROVE  IInv' /\ Same(table, table') /\ torn' = torn
<1>1. /\ state # "down" /\ table.packages = << >> /\ table.dirty = << >>
      /\ queue' = << >> /\ cur' = NULL
      /\ UNCHANGED <<table, config, cfgLog, state, behind, fetched, torn, faults>>
  BY DEF StepDown, Protected, NoFault, peer
<1>2. queue = << >> /\ Len(table.packages) = 0
  <2>1. queue \in Seq(0..MaxID) /\ Len(table.packages) = Len(queue)
    BY DEF IInv, NodeTyped, Queued
  <2> QED BY <1>1, <2>1
<1>3. ~torn
  BY <1>2 DEF IInv, Broken
<1>4. NodeTyped'
  BY <1>1, <1>2 DEF IInv, NodeTyped
<1>5. Resting' /\ Queued' /\ Shown' /\ Broken' /\ Reopened'
  BY <1>1, <1>2, <1>3 DEF Resting, Clear, Queued, Shown, Serving, Broken, Reopened
<1>6. OnDevice' /\ Logged'
  BY <1>1 DEF IInv, OnDevice, Logged
<1>7. Asked'
  <2>1. Blocks' = Blocks
    BY <1>1, BlocksStay
  <2> QED BY <1>1, <2>1 DEF IInv, Asked
<1>8. Sound(table)' /\ Same(table, table')
  BY <1>1, SameSelf DEF IInv
<1>9. IInv'
  BY <1>4, <1>5, <1>6, <1>7, <1>8 DEF IInv
<1> QED BY <1>1, <1>8, <1>9

-----------------------------------------------------------------------------
(* Persistence *)

\* PersistentBlockQueueHeader keeps the invariant.
LEMMA PersistInv ==
    ASSUME Protected, IInv, Persist
    PROVE  IInv' /\ Persists(table, table') /\ table.packages # << >> /\ state = "normal" /\ torn' = FALSE
<1>1. /\ state = "normal" /\ queue # << >>
      /\ table' = CommitteTransaction(Persistence(SaveToLog(table), DOMAIN Head(table.packages)))
      /\ cfgLog' = Head(queue) /\ config' = [last |-> Head(queue), flag |-> FALSE]
      /\ queue' = Tail(queue) /\ torn' = FALSE
      /\ UNCHANGED <<cur, state, behind, fetched, faults>>
  BY DEF Persist, NoFault, peer
<1>2. queue \in Seq(0..MaxID) /\ Len(table.packages) = Len(queue) /\ Sound(table) /\ table.packages \in Seq(Package)
  BY DEF IInv, NodeTyped, Queued, Sound, Filed
<1>3. table.packages # << >>
  BY <1>1, <1>2, QueueIs, SeqHas
<1>4. Persists(table, table')
  BY <1>1, <1>2, <1>3, PersistIs
<1> DEFINE n == Len(queue)
<1>5. /\ n \in Nat /\ n >= 1 /\ Head(queue) = queue[1] /\ Head(queue) \in 0..MaxID
      /\ queue' \in Seq(0..MaxID) /\ Len(queue') = n - 1 /\ \A i \in 1..n - 1 : queue'[i] = queue[i + 1]
  BY <1>1, <1>2, QueueIs
<1>6. Len(table'.packages) = n - 1 /\ Sound(table')
  <2>1. table'.packages = Tail(table.packages) /\ Sound(table')
    BY <1>4 DEF Persists
  <2> QED BY <1>2, <1>3, <2>1, SeqHas
<1>7. \A i \in 0..n - 1 : AfterPackages(table', i) = AfterPackages(table, i + 1)
  BY <1>2, <1>4, SameAfter DEF Persists
<1>8. Answers(table') = Answers(table)
  <2>1. \A p \in PageIDs : Page(table', p) = Page(table, p)
    BY <1>4 DEF Persists
  <2>2. SameRecords(table, table')
    BY <1>2, <1>6, <2>1, SamePages
  <2> QED BY <2>2, AnswersKeep DEF SameRecords
<1>9. NodeTyped'
  <2>1. config' \in [last : 0..MaxID, flag : BOOLEAN] /\ cfgLog' \in 0..MaxID
    BY <1>1, <1>5
  <2>2. Len(queue') <= MaxQueue
    BY <1>5, Sizes DEF IInv, NodeTyped
  <2> QED BY <1>1, <1>5, <2>1, <2>2 DEF IInv, NodeTyped
<1>10. Serving /\ Serving'
  <2>1. Serving
    BY <1>1 DEF IInv, Resting
  <2>2. LastPacked' = LastPacked
    <3>1. CASE n = 1
      <4>1. queue' = << >> /\ LastPacked' = queue[1] /\ LastPacked = queue[1]
        BY <1>1, <1>2, <1>5, <3>1, QueueIs DEF LastPacked
      <4> QED BY <4>1
    <3>2. CASE n # 1
      <4>1. n - 1 \in 1..n - 1 /\ (n - 1) + 1 = n /\ n - 1 # 0
        BY <1>5, <3>2
      <4>2. queue' # << >> /\ Last(queue') = queue'[n - 1] /\ Last(queue) = queue[n]
        BY <1>1, <1>2, <1>5, <4>1, QueueIs
      <4>3. queue'[n - 1] = queue[n]
        BY <1>5, <4>1
      <4> QED BY <1>1, <4>2, <4>3 DEF LastPacked
    <3> QED BY <3>1, <3>2
  <2> QED BY <1>1, <2>1, <2>2, ServesIs DEF Serving
<1>11. Resting' /\ Broken' /\ Reopened' /\ Logged'
  BY <1>1, <1>10 DEF Resting, Broken, Reopened, Logged
<1>12. Queued'
  <2> SUFFICES ASSUME NEW i \in 1..n - 1 PROVE UpTo(AfterPackages(table', i), queue'[i])
    BY <1>5, <1>6 DEF Queued
  <2>1. PICK j \in 1..n : j = i + 1
    BY <1>5
  <2>2. i \in 0..n - 1
    BY <1>5
  <2>3. AfterPackages(table', i) = AfterPackages(table, j) /\ queue'[i] = queue[j]
    BY <1>5, <1>7, <2>1, <2>2
  <2> QED BY <2>1, <2>3 DEF IInv, Queued
<1>13. OnDevice'
  <2>1. AfterPackages(table', 0) = RecordsOn(table'.device)
    BY <1>6, AfterZero DEF Sound
  <2>2. AfterPackages(table', 0) = AfterPackages(table, 1)
    <3>1. 0 \in 0..n - 1 /\ 0 + 1 = 1
      BY <1>5
    <3> QED BY <1>7, <3>1
  <2>3. UpTo(AfterPackages(table, 1), queue[1])
    BY <1>5 DEF IInv, Queued
  <2>4. config'.last = queue[1]
    BY <1>1, <1>5
  <2> QED BY <2>1, <2>2, <2>3, <2>4 DEF OnDevice
<1>14. Shown'
  BY <1>1, <1>8, <1>10 DEF Shown, IInv
<1>15. Asked'
  <2>1. behind = 0 /\ fetched = NULL
    <3>1. Serving
      BY <1>1 DEF IInv, Resting
    <3>2. behind = 0
      BY <1>1, <3>1 DEF IInv, Asked, Serving
    <3> QED BY <3>2 DEF IInv, Asked
  <2> QED BY <1>1, <2>1 DEF Asked
<1>16. Sound(table)'
  BY <1>6
<1>17. IInv'
  BY <1>9, <1>11, <1>12, <1>13, <1>14, <1>15, <1>16 DEF IInv
<1> QED BY <1>1, <1>3, <1>4, <1>17

\* A page write that fails keeps the invariant.
LEMMA PersistFailsInv ==
    ASSUME Protected, IInv, PersistFails
    PROVE  /\ IInv' /\ Begins(table, table') /\ table.packages # << >> /\ state = "normal" /\ state' = state
           /\ torn' = torn \/ torn' = TRUE
           /\ ~torn' => table'.device = table.device
<1>1. /\ state = "normal" /\ queue # << >> /\ faults < MaxFaults /\ faults' = faults + 1
      /\ cfgLog' = Head(queue) /\ config' = [config EXCEPT !.flag = FALSE]
      /\ UNCHANGED <<cur, queue, state, behind, fetched>>
  BY DEF PersistFails, Fault, peer
<1>2. PICK written \in SUBSET DOMAIN Head(table.packages) :
        /\ table' = Persistence(SaveToLog(table), written)
        /\ torn' = (torn \/ written # {})
  BY DEF PersistFails
<1>3. /\ queue \in Seq(0..MaxID) /\ Len(table.packages) = Len(queue) /\ Sound(table)
      /\ table.packages \in Seq(Package) /\ torn \in BOOLEAN
  BY DEF IInv, NodeTyped, Queued, Sound, Filed
<1>4. table.packages # << >>
  BY <1>1, <1>3, QueueIs, SeqHas
<1>5. Begins(table, table') /\ (written = {} => table'.device = table.device)
  BY <1>2, <1>3, <1>4, BeginIs
<1>6. Sound(table') /\ table'.packages = table.packages
  BY <1>5 DEF Begins
<1>7. \A i \in 1..Len(queue) : AfterPackages(table', i) = AfterPackages(table, i)
  BY <1>3, <1>5, SameAfter DEF Begins
<1>8. Answers(table') = Answers(table)
  <2>1. SameRecords(table, table')
    BY <1>3, <1>5, SamePages DEF Begins
  <2> QED BY <2>1, AnswersKeep DEF SameRecords
<1>9. torn' \in BOOLEAN /\ (~torn' => ~torn /\ table'.device = table.device) /\ (torn' = torn \/ torn' = TRUE)
  BY <1>2, <1>3, <1>5
<1>10. config' = [last |-> config.last, flag |-> FALSE] /\ config.last \in 0..MaxID
  BY <1>1, ConfigIs DEF IInv
<1>11. NodeTyped'
  <2>1. config' \in [last : 0..MaxID, flag : BOOLEAN] /\ cfgLog' \in 0..MaxID
    <3>1. Head(queue) \in 0..MaxID
      BY <1>1, <1>3, QueueIs
    <3> QED BY <1>1, <1>10, <3>1
  <2>2. faults' \in 0..MaxFaults
    <3>1. faults \in 0..MaxFaults
      BY DEF IInv, NodeTyped
    <3> QED BY <1>1, <3>1, Sizes
  <2> QED BY <1>1, <1>9, <2>1, <2>2 DEF IInv, NodeTyped
<1>12. Serving /\ Serving' /\ ~config'.flag /\ config'.last = config.last
  <2>1. Serving /\ config'.last = config.last
    BY <1>1, <1>10 DEF IInv, Resting
  <2>2. LastPacked' = LastPacked
    BY <1>1, <2>1 DEF LastPacked
  <2> QED BY <1>1, <1>10, <2>1, <2>2, ServesIs DEF Serving
<1>13. Resting' /\ Broken' /\ Reopened' /\ Logged'
  BY <1>1, <1>12 DEF Resting, Broken, Reopened, Logged
<1>14. Queued'
  BY <1>1, <1>6, <1>7 DEF IInv, Queued
<1>15. OnDevice'
  BY <1>1, <1>9, <1>12 DEF IInv, OnDevice
<1>16. Shown'
  BY <1>1, <1>8, <1>12 DEF Shown, IInv
<1>17. Asked'
  <2>1. behind = 0 /\ fetched = NULL
    <3>1. Serving
      BY <1>1 DEF IInv, Resting
    <3>2. behind = 0
      BY <1>1, <3>1 DEF IInv, Asked, Serving
    <3> QED BY <3>2 DEF IInv, Asked
  <2> QED BY <1>1, <2>1 DEF Asked
<1>18. Sound(table)'
  BY <1>6
<1>19. IInv'
  BY <1>11, <1>13, <1>14, <1>15, <1>16, <1>17, <1>18 DEF IInv
<1> QED BY <1>1, <1>4, <1>5, <1>9, <1>19

-----------------------------------------------------------------------------
(* Crash and restart *)

\* A crash between two calls keeps the invariant.
LEMMA CrashInv ==
    ASSUME Protected, IInv, Crash
    PROVE  /\ IInv' /\ ~torn /\ state # "down" /\ state' = "down" /\ config' = config /\ table'.packages = << >>
           /\ table'.device = table.device /\ table'.log = table.log /\ torn' = FALSE
<1>1. /\ state # "down" /\ ~torn /\ faults < MaxFaults /\ faults' = faults + 1
      /\ table' = OpenTable(table.log, table.device)
      /\ queue' = << >> /\ state' = "down" /\ torn' = FALSE
      /\ UNCHANGED <<cur, behind, fetched, config, cfgLog>>
  BY DEF Crash, Protected, Down, Lost, Fault, peer
<1>2. table.log \in Package /\ table.device \in [PageIDs -> Content]
  BY DEF IInv, Sound, Filed
<1>3. Opens(table', table.log, table.device)
  BY <1>1, <1>2, OpenTableIs
<1>4. /\ Sound(table') /\ table'.packages = << >> /\ table'.dirty = << >>
      /\ table'.log = table.log /\ table'.device = table.device
  BY <1>3 DEF Opens
<1>5. faults' \in 0..MaxFaults
  <2>1. faults \in 0..MaxFaults
    BY DEF IInv, NodeTyped
  <2> QED BY <1>1, <2>1, Sizes
<1>6. NodeTyped'
  <2>1. queue' \in Seq(0..MaxID) /\ Len(queue') <= MaxQueue
    BY <1>1, Sizes
  <2> QED BY <1>1, <1>5, <2>1 DEF IInv, NodeTyped
<1>7. Resting' /\ Shown' /\ Broken' /\ Reopened'
  BY <1>1, <1>4 DEF Resting, Clear, Shown, Serving, Broken, Reopened
<1>8. Queued'
  BY <1>1, <1>4 DEF Queued
<1>9. UpTo(RecordsOn(table.device), config.last)
  BY <1>1 DEF IInv, OnDevice
<1>10. OnDevice'
  BY <1>1, <1>4, <1>9 DEF OnDevice
<1>11. Logged'
  BY <1>1, <1>4, <1>9 DEF IInv, Logged
<1>12. Asked'
  BY <1>1, <1>4, BlocksStay DEF IInv, Asked
<1>13. Sound(table)'
  BY <1>4
<1>14. IInv'
  BY <1>6, <1>7, <1>8, <1>10, <1>11, <1>12, <1>13 DEF IInv
<1> QED BY <1>1, <1>4, <1>14

\* A crash while pages are written keeps the invariant.
LEMMA CrashInPersistInv ==
    ASSUME Protected, IInv, CrashInPersist
    PROVE  /\ IInv' /\ state = "normal" /\ state' = "down" /\ config'.flag /\ table.packages # << >>
           /\ table'.packages = << >> /\ torn' = FALSE
           /\ RecordsOn(Redone(table'.log, table'.device)) = AfterPackages(table, 1)
<1>1. PICK written \in SUBSET DOMAIN Head(table.packages) : Down(Persistence(SaveToLog(table), written))
  BY DEF CrashInPersist
<1> DEFINE t == Persistence(SaveToLog(table), written)
<1>2. /\ state = "normal" /\ queue # << >> /\ faults < MaxFaults /\ faults' = faults + 1
      /\ cfgLog' = Head(queue) /\ config' = [config EXCEPT !.flag = TRUE]
  BY DEF CrashInPersist, Fault
<1>3. /\ table' = OpenTable(t.log, t.device)
      /\ queue' = << >> /\ state' = "down" /\ torn' = FALSE
      /\ UNCHANGED <<cur, behind, fetched>>
  BY <1>1 DEF CrashInPersist, Down, Lost, peer
<1>4. /\ queue \in Seq(0..MaxID) /\ Len(table.packages) = Len(queue) /\ Sound(table)
      /\ table.packages \in Seq(Package)
  BY DEF IInv, NodeTyped, Queued, Sound, Filed
<1>5. table.packages # << >>
  BY <1>2, <1>4, QueueIs, SeqHas
<1>6. Begins(table, t)
  BY <1>4, <1>5, BeginIs
<1> HIDE DEF t
<1>7. Sound(t) /\ t.log \in Package /\ t.device \in [PageIDs -> Content]
  BY <1>6 DEF Begins, Sound, Filed
<1>8. Opens(table', t.log, t.device)
  BY <1>3, <1>7, OpenTableIs
<1>9. /\ Sound(table') /\ table'.packages = << >> /\ table'.dirty = << >>
      /\ table'.log = t.log /\ table'.device = t.device
  BY <1>8 DEF Opens
<1>10. RecordsOn(Redone(t.log, t.device)) = AfterPackages(table, 1)
  <2> DEFINE d == Redone(t.log, t.device)
  <2>1. d \in [PageIDs -> Content] /\ d = RedoByLog(t).device
    BY <1>7, RedoneTwice, RedoneIs
  <2> HIDE DEF d
  <2>2. \A p \in PageIDs : d[p] = PageAfter(table, 1, p)
    BY <1>6, <2>1 DEF Begins
  <2>3. d = [p \in PageIDs |-> PageAfter(table, 1, p)]
    BY <2>1, <2>2
  <2>4. RecordsOn(d) = AfterPackages(table, 1)
    BY <2>3, Zenon DEF AfterPackages
  <2> QED BY <2>4 DEF d
<1>11. Head(queue) \in 0..MaxID /\ UpTo(AfterPackages(table, 1), Head(queue))
  <2>1. Head(queue) = queue[1] /\ Head(queue) \in 0..MaxID /\ 1 \in 1..Len(queue)
    BY <1>2, <1>4, QueueIs
  <2> QED BY <2>1 DEF IInv, Queued
<1>12. config' = [last |-> config.last, flag |-> TRUE] /\ config.last \in 0..MaxID
  BY <1>2, ConfigIs DEF IInv
<1>13. NodeTyped'
  <2>1. queue' \in Seq(0..MaxID) /\ Len(queue') <= MaxQueue
    BY <1>3, Sizes
  <2>2. faults' \in 0..MaxFaults
    <3>1. faults \in 0..MaxFaults
      BY DEF IInv, NodeTyped
    <3> QED BY <1>2, <3>1, Sizes
  <2>3. config' \in [last : 0..MaxID, flag : BOOLEAN] /\ cfgLog' \in 0..MaxID
    BY <1>2, <1>11, <1>12
  <2> QED BY <1>3, <2>1, <2>2, <2>3 DEF IInv, NodeTyped
<1>14. Resting' /\ Shown' /\ Broken'
  BY <1>3, <1>9 DEF Resting, Clear, Shown, Serving, Broken
<1>15. Reopened'
  BY <1>3, <1>9 DEF Reopened
<1>16. Queued'
  BY <1>3, <1>9 DEF Queued
<1>17. config'.flag
  BY <1>12
<1>18. OnDevice'
  BY <1>3, <1>17 DEF OnDevice
<1>19. fetched' = NULL
  <2>1. behind = 0 /\ behind \in 0..MaxBehind
    <3>1. Serving
      BY <1>2 DEF IInv, Resting
    <3> QED BY <1>2, <3>1 DEF IInv, Asked, NodeTyped, Serving
  <2> QED BY <1>3, <2>1 DEF IInv, Asked
<1>20. Logged'
  <2>1. RecordsOn(Redone(table'.log, table'.device)) = AfterPackages(table, 1) /\ cfgLog' = Head(queue)
    BY <1>2, <1>9, <1>10
  <2> QED BY <1>3, <1>11, <1>19, <2>1 DEF Logged
<1>21. Asked'
  BY <1>3, <1>19 DEF Asked
<1>22. Sound(table)'
  BY <1>9
<1>23. IInv'
  BY <1>13, <1>14, <1>15, <1>16, <1>18, <1>20, <1>21, <1>22 DEF IInv
<1> QED BY <1>2, <1>3, <1>5, <1>9, <1>10, <1>17, <1>23

\* A crash while the pages of a fetched block are written keeps the invariant.
LEMMA CrashInSyncInv ==
    ASSUME Protected, IInv, Requested, NEW b \in NextBlocks, CrashInSync(b)
    PROVE  /\ IInv' /\ state' = "down" /\ config'.flag /\ table'.packages = << >> /\ torn' = FALSE
           /\ RecordsOn(Redone(table'.log, table'.device)) = Answers(Applied(b, MaxID))
<1> DEFINE a == Applied(b, MaxID)
           s == Stored(b)
           m == MaxAlocWsID(b)
<1>1. state = "sync" /\ behind > 0
  BY DEF Requested
<1>2. b \in Blocks /\ Synced /\ NodeTyped
  BY <1>1, SyncedIs DEF IInv, Asked, NextBlocks
<1>3. PICK written \in SUBSET DOMAIN Head(s.packages) : Down(Persistence(SaveToLog(s), written))
  BY DEF CrashInSync
<1> DEFINE t == Persistence(SaveToLog(s), written)
<1>4. /\ cfgLog' = m /\ config' = [config EXCEPT !.flag = TRUE] /\ SetsLastID(b)
      /\ behind' = behind - 1 /\ fetched' = NULL /\ faults < MaxFaults /\ faults' = faults + 1
  BY DEF CrashInSync, Fault
<1>5. /\ table' = OpenTable(t.log, t.device)
      /\ queue' = << >> /\ state' = "down" /\ torn' = FALSE /\ cur' = cur
  BY <1>3 DEF Down, Lost
<1>6. /\ Takes(table, a, b, MaxID) /\ Packs(a, s) /\ a.packages = << >>
      /\ m \in 0..MaxID /\ UpTo(Answers(a), m)
      /\ s.packages # << >> /\ Sound(s)
  BY <1>2, <1>4, StoredIs
<1> HIDE DEF a, s, m
<1>7. Begins(s, t)
  BY <1>6, BeginIs
<1> HIDE DEF t
<1>8. Sound(t) /\ t.log \in Package /\ t.device \in [PageIDs -> Content]
  BY <1>7 DEF Begins, Sound, Filed
<1>9. /\ Sound(table') /\ table'.packages = << >> /\ table'.dirty = << >>
      /\ table'.log = t.log /\ table'.device = t.device
  BY <1>5, <1>8, OpenTableIs DEF Opens
<1>10. RecordsOn(Redone(t.log, t.device)) = Answers(a)
  <2> DEFINE d == Redone(t.log, t.device)
  <2>1. d \in [PageIDs -> Content] /\ d = RedoByLog(t).device
    BY <1>8, RedoneTwice, RedoneIs
  <2> HIDE DEF d
  <2>2. \A p \in PageIDs : d[p] = PageAfter(s, 1, p)
    BY <1>7, <2>1 DEF Begins
  <2>3. \A p \in PageIDs : PageAfter(s, 1, p) = Page(a, p)
    <3>1. Len(a.packages) + 1 = 1
      BY <1>6
    <3> QED BY <1>6, <3>1 DEF Packs
  <2>4. d = [p \in PageIDs |-> Page(a, p)]
    BY <2>1, <2>2, <2>3
  <2>5. RecordsOn(d) = Answers(a)
    BY <1>6, <2>4, AnswersAre DEF Takes
  <2> QED BY <2>5 DEF d
<1>11. config' = [last |-> config.last, flag |-> TRUE] /\ config.last \in 0..MaxID
  BY <1>2, <1>4, ConfigIs
<1>12. NodeTyped'
  <2>1. queue' \in Seq(0..MaxID) /\ Len(queue') <= MaxQueue
    BY <1>5, Sizes
  <2>2. faults' \in 0..MaxFaults /\ behind' \in 0..MaxBehind
    <3>1. behind \in 0..MaxBehind /\ faults \in 0..MaxFaults /\ behind > 0
      BY <1>1, <1>2 DEF NodeTyped
    <3>2. behind' = behind - 1 /\ faults' = faults + 1 /\ faults < MaxFaults
      BY <1>4
    <3> QED BY <3>1, <3>2, Sizes
  <2>3. config' \in [last : 0..MaxID, flag : BOOLEAN] /\ cfgLog' \in 0..MaxID
    BY <1>4, <1>6, <1>11
  <2> QED BY <1>2, <1>5, <2>1, <2>2, <2>3 DEF NodeTyped
<1>13. Resting' /\ Shown' /\ Broken' /\ Reopened' /\ Queued'
  BY <1>5, <1>9 DEF Resting, Clear, Shown, Serving, Broken, Reopened, Queued
<1>14. OnDevice' /\ Logged' /\ Asked'
  BY <1>4, <1>5, <1>6, <1>9, <1>10, <1>11 DEF OnDevice, Logged, Asked
<1>15. Sound(table)'
  BY <1>9
<1>16. IInv'
  BY <1>12, <1>13, <1>14, <1>15 DEF IInv
<1> QED BY <1>5, <1>9, <1>10, <1>11, <1>16 DEF a

\* OnInit, with the replay or without it, keeps the invariant.
LEMMA OnInitInv ==
    ASSUME Protected, IInv, OnInit
    PROVE  /\ IInv' /\ state = "down" /\ state' = "follower" /\ Clear(table) /\ Clear(table') /\ torn' = torn
           /\ table'.device = IF config.flag THEN Redone(table.log, table.device) ELSE table.device
<1> DEFINE d == IF config.flag THEN Redone(table.log, table.device) ELSE table.device
<1>1. /\ state = "down" /\ cur' = config'.last /\ state' = "follower"
      /\ UNCHANGED <<cfgLog, queue, behind, fetched, torn, faults>>
  BY DEF OnInit, NoFault, peer
<1>2. table.log \in Package /\ table.device \in [PageIDs -> Content] /\ Sound(table)
  BY DEF IInv, Sound, Filed
<1>3. table = OpenTable(table.log, table.device) /\ queue = << >> /\ Clear(table) /\ ~torn
  BY <1>1 DEF IInv, Reopened, Resting, Serving, Broken
<1>4. table' = OpenTable(table.log, d) /\ d \in [PageIDs -> Content]
  <2>1. CASE config.flag
    <3>1. table' = RedoByLog(table) /\ RedoByLog(table) = OpenTable(table.log, RedoByLog(table).device)
      BY <1>2, <1>3, <2>1, RedoIs DEF OnInit
    <3>2. RedoByLog(table).device = Redone(table.log, table.device)
      BY <1>2, RedoneIs
    <3>3. Redone(table.log, table.device) \in [PageIDs -> Content]
      BY <1>2, RedoneTwice
    <3> QED BY <2>1, <3>1, <3>2, <3>3
  <2>2. CASE ~config.flag
    BY <1>2, <1>3, <2>2 DEF OnInit
  <2> QED BY <2>1, <2>2
<1>5. Opens(table', table.log, d)
  <2> HIDE DEF d
  <2> QED BY <1>2, <1>4, OpenTableIs
<1>6. config' = [last |-> IF config.flag THEN cfgLog ELSE config.last, flag |-> config.flag]
  <2>1. config = [last |-> config.last, flag |-> config.flag]
    BY ConfigIs DEF IInv
  <2>2. config' = IF config.flag THEN [config EXCEPT !.last = cfgLog] ELSE config
    BY DEF OnInit
  <2> QED BY <2>1, <2>2
<1>7. UpTo(RecordsOn(d), config'.last) /\ (config.flag => Redone(table.log, d) = d)
  <2>1. CASE config.flag
    BY <1>1, <1>2, <1>6, <2>1, RedoneTwice DEF IInv, Logged
  <2>2. CASE ~config.flag
    BY <1>3, <1>6, <2>2 DEF IInv, OnDevice
  <2> QED BY <2>1, <2>2
<1>8. fetched # NULL => d = table.device
  BY DEF IInv, Logged
<1> HIDE DEF d
<1>9. /\ Sound(table') /\ table'.packages = << >> /\ table'.dirty = << >>
      /\ table'.log = table.log /\ table'.device = d
  BY <1>5 DEF Opens
<1>10. config'.last \in 0..MaxID /\ config'.flag = config.flag
       /\ config' \in [last : 0..MaxID, flag : BOOLEAN]
  <2>1. cfgLog \in 0..MaxID /\ config.last \in 0..MaxID /\ config.flag \in BOOLEAN
    BY ConfigIs DEF IInv, NodeTyped
  <2> QED BY <1>6, <2>1
<1>11. NodeTyped'
  BY <1>1, <1>10 DEF IInv, NodeTyped
<1>12. Resting' /\ Shown' /\ Broken' /\ Reopened'
  <2>1. cur' <= config'.last
    BY <1>1, <1>10, MaxIDIs
  <2> QED BY <1>1, <1>3, <1>9, <2>1 DEF Resting, Clear, Shown, Serving, Broken, Reopened
<1>13. Queued'
  BY <1>1, <1>3, <1>9 DEF Queued
<1>14. OnDevice'
  BY <1>7, <1>9 DEF OnDevice
<1>15. Logged'
  <2>1. config'.flag => cfgLog' = config'.last /\ config.flag
    BY <1>1, <1>6, <1>10
  <2> QED BY <1>1, <1>7, <1>9, <2>1 DEF Logged
<1>16. Asked'
  <2>1. fetched' # NULL => Blocks' = Blocks
    BY <1>1, <1>8, <1>9, BlocksStay
  <2> QED BY <1>1, <2>1 DEF IInv, Asked
<1>17. Sound(table)'
  BY <1>9
<1>18. IInv'
  BY <1>11, <1>12, <1>13, <1>14, <1>15, <1>16, <1>17 DEF IInv
<1> QED BY <1>1, <1>3, <1>9, <1>18 DEF Clear, d

\* Every step keeps the invariant.
LEMMA NextInv ==
    ASSUME Protected, IInv, [Next]_vars
    PROVE  IInv'
<1>1. CASE UNCHANGED vars
  BY <1>1, FollowInv
<1>2. CASE Fetch
  <2>1. ASSUME NEW b \in NextBlocks, SyncRsp(b) \/ SyncFails(b) \/ CrashInSync(b) PROVE IInv'
    BY <1>2, <2>1, SyncRspInv, SyncFailsInv, CrashInSyncInv DEF Fetch
  <2>2. ASSUME NEW b \in NextBlocks \cup WrongBlocks, SyncConflict(b) PROVE IInv'
    BY <1>2, <2>2, SyncConflictInv DEF Fetch
  <2> QED BY <1>2, <2>1, <2>2 DEF Fetch
<1>3. CASE PeersAdvance \/ BecomeMaster
  BY <1>3, FollowInv
<1>4. CASE SubmitAppend
  BY <1>4, SubmitAppendInv
<1>5. ASSUME NEW id \in IDs, SubmitUpdate(id) \/ SubmitFails(id) \/ CheckVersion(id) PROVE IInv'
  BY <1>5, SubmitUpdateInv, SubmitFailsInv, CheckVersionInv
<1>6. CASE PackBlock
  BY <1>6, PackBlockInv
<1>7. CASE Persist
  BY <1>7, PersistInv
<1>8. CASE PersistFails
  BY <1>8, PersistFailsInv
<1>9. CASE StepDown
  BY <1>9, StepDownInv
<1>10. CASE Crash
  BY <1>10, CrashInv
<1>11. CASE CrashInPersist
  BY <1>11, CrashInPersistInv
<1>12. CASE OnInit
  BY <1>12, OnInitInv
<1> QED BY <1>1, <1>2, <1>3, <1>4, <1>5, <1>6, <1>7, <1>8, <1>9, <1>10, <1>11, <1>12 DEF Next

\* IInv holds of every reachable state of the node and its table when no fault
\* falls into an unprotected window (CChannelProcessService, CVbhMultiUpdateTable).
THEOREM Invariant == Protected /\ Spec => []IInv
<1> SUFFICES ASSUME Protected PROVE Spec => []IInv
  OBVIOUS
<1>1. Init => IInv
  BY InitInv
<1>2. IInv /\ [Next]_vars => IInv'
  BY NextInv
<1> QED BY <1>1, <1>2, PTL DEF Spec

-----------------------------------------------------------------------------
(* The invariants *)

\* The invariant gives the types.
LEMMA TypeOKIs ==
    ASSUME IInv
    PROVE  TypeOK
<1>1. /\ table = [cache |-> table.cache, dirty |-> table.dirty, packages |-> table.packages,
                  log |-> table.log, device |-> table.device]
      /\ Whole(table.cache) /\ table.device \in [PageIDs -> Content]
  BY DEF IInv, Sound, Filed
<1>2. DOMAIN table = {"cache", "dirty", "packages", "log", "device"}
  BY ONLY <1>1
<1>3. table.cache \in CacheType
  BY <1>1, WholeIs
<1>4. /\ table.cache.queue \in Dqueue!DqueueType /\ table.cache.num \in Nat /\ table.cache.limit \in Nat
  BY <1>3, CacheFields
<1>5. table.device \in [PageIDs -> [Slots -> Versions \cup {NULL}]]
  BY <1>1 DEF Content
<1>6. NodeTyped
  BY DEF IInv
<1> QED BY <1>2, <1>4, <1>5, <1>6 DEF TypeOK, NodeTyped

\* The invariant gives a consistent cache.
LEMMA CacheConsistentIs ==
    ASSUME IInv
    PROVE  CacheConsistent
<1> DEFINE c == table.cache
           d == table.dirty
<1>1. /\ Whole(c) /\ d \in Seq(Frames) /\ OneToOne(d)
      /\ \A f \in Frames : f \in Elements(d) <=> c.frame[f].dirty
  BY DEF IInv, Sound
<1>2. CacheSound(c) /\ \A f \in Frames : c.frame[f].id # NULL <=> f \in CachedFrames(c)
  BY <1>1, SoundCache
<1>3. DOMAIN d = 1..Len(d)
  BY <1>1
<1>4. \A f \in Frames : (\E i \in DOMAIN d : d[i] = f) <=> f \in Elements(d)
  BY <1>3 DEF Elements
<1>5. \A i, j \in DOMAIN d : i # j => d[i] # d[j]
  BY <1>1, <1>3 DEF OneToOne
<1> HIDE DEF c, d
<1>6. \A f \in Frames : /\ (\E i \in DOMAIN d : d[i] = f) <=> c.frame[f].dirty
                        /\ c.frame[f].id # NULL <=> f \in CachedFrames(c)
  BY <1>1, <1>2, <1>4
<1> QED BY <1>2, <1>5, <1>6 DEF CacheConsistent, c, d

\* The invariant gives every block its package.
LEMMA PackagesMatchIs ==
    ASSUME IInv
    PROVE  PackagesMatchBlocks
<1>1. DOMAIN queue = 1..Len(queue)
  BY DEF IInv, NodeTyped
<1> QED BY <1>1 DEF IInv, Queued, UpTo, PackagesMatchBlocks

\* The invariant lets a restart find the last record.
LEMMA RestartFindsIs ==
    ASSUME IInv
    PROVE  RestartFindsLastID
<1> SUFFICES ASSUME ~torn PROVE UpTo(FoundRecords, FoundLast)
  BY DEF RestartFindsLastID, UpTo
<1>1. RedoByLog(table).device = Redone(table.log, table.device)
  BY RedoneIs DEF IInv
<1>2. CASE ~config.flag
  BY <1>2 DEF IInv, OnDevice, FoundRecords, FoundLast
<1>3. CASE config.flag /\ state = "down"
  BY <1>1, <1>3 DEF IInv, Logged, FoundRecords, FoundLast
<1>4. CASE config.flag /\ state # "down"
  BY <1>1, <1>4 DEF IInv, Logged, OnDevice, FoundRecords, FoundLast
<1> QED BY <1>2, <1>3, <1>4

\* The table keeps the types of its parts.
THEOREM Types == Protected /\ Spec => []TypeOK
<1>1. IInv => TypeOK
  BY TypeOKIs
<1> QED BY <1>1, Invariant, PTL

\* The queue, the map and the counter of the page cache stay one cache, and the
\* list of dirty pages names exactly the dirty ones, through evictions, failed
\* reads, rollbacks and restarts (GetPage, InsertPage, RollbackUnpackCache).
THEOREM CacheStaysConsistent == Protected /\ Spec => []CacheConsistent
<1>1. IInv => CacheConsistent
  BY CacheConsistentIs
<1> QED BY <1>1, Invariant, PTL

\* Every queued block has its package, which holds the records up to the block's
\* last id (PackBlock, PersistentBlockQueueHeader, ChangeCpsToFollowerState).
THEOREM PackagesStayWithBlocks == Protected /\ Spec => []PackagesMatchBlocks
<1>1. IInv => PackagesMatchBlocks
  BY PackagesMatchIs
<1> QED BY <1>1, Invariant, PTL

\* Unless a write of pages was broken off, a restart goes on from the last record
\* there is, whatever was stored last and wherever it crashed (m_nLastAlocWsID,
\* OnInit, PersistentBlockQueueHeader, CMasterSyncVersionTableCsCpsRsp).
THEOREM RestartKeepsLastID == Protected /\ Spec => []RestartFindsLastID
<1>1. IInv => RestartFindsLastID
  BY RestartFindsIs
<1> QED BY <1>1, Invariant, PTL

-----------------------------------------------------------------------------
(* What the abstract table sees *)

Hidden == state = "down" /\ config.flag

\* The abstract table has the same ids and records.
LEMMA AbstractSets == Abstract!IDs = IDs /\ Abstract!Records = Records
BY DEF Abstract!IDs, IDs, Abstract!Records, Records, Versions

\* Ids up to a number are contiguous.
LEMMA UpToContiguous ==
    ASSUME NEW r \in Records, NEW n \in Nat, UpTo(r, n)
    PROVE  Abstract!Contiguous(r)
<1> SUFFICES ASSUME NEW id \in IDs \ {1}, r[id] # NULL PROVE r[id - 1] # NULL
  BY AbstractSets DEF Abstract!Contiguous
<1>1. PICK j \in IDs : j = id - 1 /\ j <= id /\ id \in Nat /\ j \in Nat
  BY Sizes DEF IDs
<1>2. id <= n
  BY DEF UpTo
<1>3. j <= n
  BY <1>1, <1>2
<1> QED BY <1>1, <1>3 DEF UpTo

\* Before a replay the log decides.
LEMMA HiddenShows ==
    ASSUME IInv, Hidden
    PROVE  /\ StoredRecords = RecordsOn(Redone(table.log, table.device))
           /\ ShownRecords = RecordsOn(Redone(table.log, table.device))
           /\ PackedRecords = << >>
<1>1. RedoByLog(table).device = Redone(table.log, table.device)
  BY RedoneIs DEF IInv
<1>2. ~torn /\ Len(table.packages) = 0
  BY DEF Hidden, IInv, Broken, Resting, Serving, Clear
<1>3. PackedRecords = << >>
  <2>1. Begun = 0
    BY <1>2 DEF Begun
  <2> QED BY <1>2, <2>1 DEF PackedRecords
<1> QED BY <1>1, <1>3 DEF StoredRecords, ShownRecords, Hidden

\* Whether the oldest package counts as stored.
LEMMA BegunIs ==
    ASSUME IInv
    PROVE  /\ Begun = (IF torn THEN 1 ELSE 0) /\ Begun \in Nat
           /\ Len(table.packages) \in Nat /\ Begun <= Len(table.packages) /\ Begun \in 0..Len(table.packages)
           /\ table.packages = << >> <=> Len(table.packages) = 0
<1>1. queue \in Seq(0..MaxID) /\ table.packages \in Seq(Package) /\ Len(table.packages) = Len(queue)
  BY DEF IInv, NodeTyped, Sound, Filed, Queued
<1>2. /\ Len(table.packages) \in Nat /\ (table.packages = << >> <=> Len(table.packages) = 0)
      /\ (queue = << >> <=> Len(table.packages) = 0)
  BY <1>1, QueueIs, SeqHas
<1>3. torn => table.packages # << >>
  BY <1>2 DEF IInv, Broken
<1>4. Begun = (IF torn THEN 1 ELSE 0)
  BY <1>3 DEF Begun
<1>5. Begun \in Nat /\ Begun <= Len(table.packages)
  BY <1>2, <1>3, <1>4
<1> QED BY <1>2, <1>4, <1>5

\* What the abstract table is while the node runs.
LEMMA OpenShows ==
    ASSUME IInv, ~Hidden
    PROVE  /\ StoredRecords = AfterPackages(table, Begun) /\ ShownRecords = Answers(table)
           /\ StoredRecords \in Records /\ ShownRecords \in Records
           /\ PackedRecords \in Seq(Records) /\ Len(PackedRecords) = Len(table.packages) - Begun
           /\ \A i \in 1..Len(table.packages) - Begun : PackedRecords[i] = AfterPackages(table, i + Begun)
<1> DEFINE k == Len(table.packages) - Begun
<1>1. k \in Nat /\ Begun \in Nat /\ Begun \in 0..Len(table.packages) /\ Len(table.packages) \in Nat
  BY BegunIs
<1>2. StoredRecords = AfterPackages(table, Begun) /\ ShownRecords = Answers(table)
  BY DEF StoredRecords, ShownRecords, Hidden
<1>3. Sound(table) /\ Filed(table)
  BY DEF IInv, Sound
<1>4. StoredRecords \in Records /\ ShownRecords \in Records
  BY <1>1, <1>2, <1>3, AfterInRecords, AnswersTyped
<1>5. \A i \in 1..k : AfterPackages(table, i + Begun) \in Records
  <2> SUFFICES ASSUME NEW i \in 1..k PROVE AfterPackages(table, i + Begun) \in Records
    OBVIOUS
  <2>1. PICK j \in 0..Len(table.packages) : j = i + Begun
    BY <1>1
  <2> QED BY <1>3, <2>1, AfterInRecords
<1>6. PackedRecords = [i \in 1..k |-> AfterPackages(table, i + Begun)]
  BY DEF PackedRecords
<1> HIDE DEF k
<1>7. PackedRecords \in [1..k -> Records] /\ \A i \in 1..k : PackedRecords[i] = AfterPackages(table, i + Begun)
  BY <1>5, <1>6
<1>8. PackedRecords \in Seq(Records) /\ Len(PackedRecords) = k
  BY <1>1, <1>7
<1> QED BY <1>2, <1>4, <1>7, <1>8 DEF k

\* With nothing queued and nothing dirty its three states are the device.
LEMMA ClearShows ==
    ASSUME IInv, Clear(table), ~Hidden
    PROVE  /\ StoredRecords = RecordsOn(table.device) /\ ShownRecords = RecordsOn(table.device)
           /\ PackedRecords = << >> /\ ~torn
<1>1. Len(table.packages) = 0 /\ Begun = 0 /\ ~torn
  BY BegunIs DEF Clear
<1>2. StoredRecords = RecordsOn(table.device)
  BY <1>1, OpenShows, AfterZero DEF IInv, Sound
<1>3. ShownRecords = RecordsOn(table.device)
  BY OpenShows, ClearIs DEF IInv
<1>4. PackedRecords = << >>
  BY <1>1 DEF PackedRecords
<1> QED BY <1>1, <1>2, <1>3, <1>4

\* What only reads is not seen.
Unseen == StoredRecords' = StoredRecords /\ PackedRecords' = PackedRecords /\ ShownRecords' = ShownRecords

\* What only reads is not seen by the abstract table.
LEMMA SameUnseen ==
    ASSUME Same(table, table'), torn' = torn, ~Hidden, ~Hidden'
    PROVE  Unseen
<1>1. /\ table'.packages = table.packages /\ Answers(table') = Answers(table)
      /\ \A n : AfterPackages(table', n) = AfterPackages(table, n)
  BY DEF Same, Stays
<1>2. Begun' = Begun
  BY <1>1 DEF Begun
<1>3. StoredRecords' = StoredRecords /\ ShownRecords' = ShownRecords
  BY <1>1, <1>2 DEF StoredRecords, ShownRecords, Hidden
<1>4. PackedRecords' = PackedRecords
  BY <1>1, <1>2 DEF PackedRecords
<1> QED BY <1>3, <1>4 DEF Unseen

\* The start is a start of the abstract table.
LEMMA InitShows == Init => Abstract!Init
<1> SUFFICES ASSUME Init PROVE Abstract!Init
  OBVIOUS
<1>1. IInv /\ state = "follower"
  BY InitInv DEF Init
<1>2. Clear(table) /\ ~Hidden
  BY <1>1 DEF IInv, Resting, Serving, Hidden
<1>3. StoredRecords = RecordsOn(table.device) /\ ShownRecords = StoredRecords /\ PackedRecords = << >> /\ ~torn
  BY <1>1, <1>2, ClearShows
<1>4. StoredRecords \in Records
  BY <1>1, <1>2, OpenShows
<1>5. UpTo(StoredRecords, config.last) /\ config.last \in Nat
  BY <1>1, <1>3, ConfigIs, MaxIDIs DEF IInv, OnDevice
<1>6. Abstract!Contiguous(StoredRecords)
  BY <1>4, <1>5, UpToContiguous
<1> QED BY <1>3, <1>4, <1>6, AbstractSets DEF Abstract!Init

-----------------------------------------------------------------------------
(* Each step is one of the abstract table's, or not seen *)

\* One more entry of a sequence.
LEMMA AppendIs ==
    ASSUME NEW S, NEW s \in Seq(S), NEW x \in S
    PROVE  /\ Append(s, x) = [i \in 1..Len(s) + 1 |-> Append(s, x)[i]] /\ Append(s, x)[Len(s) + 1] = x
           /\ \A i \in 1..Len(s) : Append(s, x)[i] = s[i]
<1>1. /\ Append(s, x) \in Seq(S) /\ Len(Append(s, x)) = Len(s) + 1 /\ Append(s, x)[Len(s) + 1] = x
      /\ \A i \in 1..Len(s) : Append(s, x)[i] = s[i]
  OBVIOUS
<1>2. \A r \in Seq(S) : r = [i \in 1..Len(r) |-> r[i]]
  OBVIOUS
<1>3. Append(s, x) = [i \in 1..Len(Append(s, x)) |-> Append(s, x)[i]]
  BY <1>1, <1>2, Zenon
<1> QED BY <1>1, <1>3, Zenon

\* Work in the cache changes nothing that is stored or packed.
LEMMA StaysShows ==
    ASSUME IInv, IInv', ~Hidden, ~Hidden', Stays(table, table'), torn' = torn
    PROVE  StoredRecords' = StoredRecords /\ PackedRecords' = PackedRecords
<1>1. table'.packages = table.packages /\ \A n : AfterPackages(table', n) = AfterPackages(table, n)
  BY AfterStays, SameAfter DEF Stays
<1>2. Begun' = Begun
  BY <1>1 DEF Begun
<1> QED BY <1>1, <1>2 DEF StoredRecords, PackedRecords, Hidden

\* A record that is set is a Change.
LEMMA ChangeStep ==
    ASSUME Protected, IInv, IInv', Serving, Serving', NEW id \in IDs, NEW record \in Versions,
           Sets(table, table', id, record), Answer(table, id) # NULL => record >= Answer(table, id),
           torn' = torn
    PROVE  Abstract!Change
<1>1. ~Hidden /\ ~Hidden'
  BY DEF Serving, Hidden
<1>2. /\ ShownRecords = Answers(table) /\ ShownRecords \in Records
      /\ ShownRecords' = Answers(table') /\ ShownRecords' \in Records
  <2>1. ShownRecords = Answers(table) /\ ShownRecords \in Records
    BY <1>1, OpenShows
  <2>2. ShownRecords' = Answers(table')
    BY <1>1 DEF ShownRecords, Hidden
  <2>3. Answers(table') \in Records
    BY AnswersTyped DEF Sets
  <2> QED BY <2>1, <2>2, <2>3
<1>3. StoredRecords' = StoredRecords /\ PackedRecords' = PackedRecords
  BY <1>1, StaysShows DEF Sets
<1>4. Abstract!Extends(ShownRecords', ShownRecords)
  <2> SUFFICES ASSUME NEW i \in IDs, ShownRecords[i] # NULL
               PROVE  ShownRecords'[i] # NULL /\ ShownRecords'[i] >= ShownRecords[i]
    BY AbstractSets DEF Abstract!Extends
  <2>1. ShownRecords[i] = Answer(table, i) /\ ShownRecords'[i] = Answer(table', i)
    BY <1>2, AnswersTyped DEF IInv, Sets
  <2>2. Answer(table', i) = IF i = id THEN record ELSE Answer(table, i)
    BY DEF Sets
  <2>3. Answer(table, i) \in Nat /\ record # NULL
    <3>1. Answer(table, i) \in Versions \cup {NULL}
      BY AnswerTyped DEF IInv
    <3> QED BY <2>1, <3>1, Sizes DEF Versions
  <2> QED BY <2>1, <2>2, <2>3
<1>5. Abstract!Contiguous(ShownRecords')
  <2>1. UpTo(ShownRecords', cur') /\ cur' \in Nat
    BY <1>2, MaxIDIs DEF IInv, Shown, NodeTyped, Serving
  <2> QED BY <1>2, <2>1, UpToContiguous
<1> QED BY <1>2, <1>3, <1>4, <1>5, AbstractSets DEF Abstract!Change

\* Append and Update are Changes.
LEMMA SubmitsAbstract ==
    ASSUME Protected, IInv, SubmitAppend \/ \E id \in IDs : SubmitUpdate(id)
    PROVE  Abstract!Change
<1>1. CASE SubmitAppend
  <2>1. /\ IInv' /\ Serving /\ Serving' /\ Sets(table, table', cur + 1, 0) /\ torn' = torn
    BY <1>1, SubmitAppendInv DEF SubmitAppend
  <2>2. PICK id \in IDs : id = cur + 1
    BY <1>1, SubmitAppendInv
  <2>3. 0 \in Versions
    BY Sizes DEF Versions
  <2>4. Answer(table, id) = NULL
    BY <2>1, <2>2, ServingIs
  <2>5. Sets(table, table', id, 0)
    BY <2>1, <2>2
  <2> QED BY <2>1, <2>3, <2>4, <2>5, ChangeStep
<1>2. ASSUME NEW id \in IDs, SubmitUpdate(id) PROVE Abstract!Change
  <2> DEFINE v == Answer(table, id) + 1
  <2>1. /\ IInv' /\ Serving /\ Serving' /\ Sets(table, table', id, v)
        /\ Answer(table, id) \in Versions /\ v \in Versions /\ torn' = torn
    BY <1>2, SubmitUpdateInv DEF SubmitUpdate
  <2>2. v >= Answer(table, id)
    BY <2>1, Sizes DEF Versions
  <2> HIDE DEF v
  <2> QED BY <2>1, <2>2, ChangeStep
<1> QED BY <1>1, <1>2

\* A rollback is a Rollback.
LEMMA SubmitFailsAbstract ==
    ASSUME Protected, IInv, NEW id \in IDs, SubmitFails(id)
    PROVE  Abstract!Rollback
<1>1. /\ IInv' /\ Stays(table, table') /\ Serving /\ Answers(table') = AfterPackages(table, Len(table.packages))
      /\ state' = state /\ torn' = torn
  BY SubmitFailsInv DEF SubmitFails
<1>2. ~Hidden /\ ~Hidden'
  BY <1>1 DEF Serving, Hidden
<1>3. StoredRecords' = StoredRecords /\ PackedRecords' = PackedRecords
  BY <1>1, <1>2, StaysShows
<1>4. ShownRecords' = AfterPackages(table, Len(table.packages))
  BY <1>1, <1>2 DEF ShownRecords, Hidden
<1> DEFINE k == Len(table.packages) - Begun
<1>5. /\ k \in Nat /\ Begun \in Nat /\ Len(table.packages) = k + Begun
      /\ PackedRecords \in Seq(Records) /\ Len(PackedRecords) = k
      /\ StoredRecords = AfterPackages(table, Begun)
      /\ \A i \in 1..k : PackedRecords[i] = AfterPackages(table, i + Begun)
  BY <1>2, BegunIs, OpenShows
<1> HIDE DEF k
<1>6. Abstract!Newest = AfterPackages(table, Len(table.packages))
  <2>1. CASE k = 0
    <3>1. PackedRecords = << >> /\ Len(table.packages) = Begun
      BY <1>5, <2>1
    <3> QED BY <1>5, <3>1 DEF Abstract!Newest
  <2>2. CASE k # 0
    <3>1. PackedRecords # << >> /\ k \in 1..k
      BY <1>5, <2>2
    <3>2. Abstract!Last(PackedRecords) = PackedRecords[k]
      BY <1>5 DEF Abstract!Last
    <3>3. PackedRecords[k] = AfterPackages(table, Len(table.packages))
      BY <1>5, <3>1
    <3> QED BY <3>1, <3>2, <3>3 DEF Abstract!Newest
  <2> QED BY <2>1, <2>2
<1> QED BY <1>3, <1>4, <1>6 DEF Abstract!Rollback

\* PackBlock is a Pack.
LEMMA PackAbstract ==
    ASSUME Protected, IInv, PackBlock
    PROVE  Abstract!Pack
<1>1. IInv' /\ Packs(table, table') /\ Serving /\ state' = state /\ torn' = torn
  BY PackBlockInv DEF PackBlock
<1>2. ~Hidden /\ ~Hidden'
  BY <1>1 DEF Serving, Hidden
<1> DEFINE n == Len(table.packages)
           k == n - Begun
<1>3. n \in Nat /\ k \in Nat /\ Begun \in Nat /\ n = k + Begun /\ Begun \in 0..n
  BY BegunIs
<1>4. Len(table'.packages) = n + 1
  <2>1. PICK x \in Package : table'.packages = Append(table.packages, x)
    BY <1>1 DEF Packs
  <2> QED BY <2>1, SeqHas DEF IInv, Sound, Filed
<1>5. Begun' = Begun
  <2>1. Begun' = (IF torn' THEN 1 ELSE 0)
    <3>1. table'.packages # << >>
      BY <1>3, <1>4
    <3> QED BY <3>1 DEF Begun
  <2> QED BY <1>1, <2>1, BegunIs
<1>6. \A i \in 0..n : AfterPackages(table', i) = AfterPackages(table, i)
  BY <1>1, SameAfter DEF Packs
<1>7. Answers(table') = Answers(table) /\ AfterPackages(table', n + 1) = Answers(table)
  <2>1. \A p \in PageIDs : Page(table, p) = PageAfter(table', n + 1, p) /\ Page(table', p) = PageAfter(table', n + 1, p)
    BY <1>1 DEF Packs
  <2>2. Sound(table) /\ Sound(table')
    BY <1>1 DEF IInv, Packs
  <2> HIDE DEF n
  <2> QED BY <2>1, <2>2, SameAnswers
<1>8. /\ StoredRecords = AfterPackages(table, Begun) /\ ShownRecords = Answers(table) /\ ShownRecords \in Records
      /\ PackedRecords \in Seq(Records) /\ Len(PackedRecords) = k
      /\ \A i \in 1..k : PackedRecords[i] = AfterPackages(table, i + Begun)
  BY <1>2, OpenShows
<1>9. /\ StoredRecords' = AfterPackages(table', Begun) /\ ShownRecords' = Answers(table')
      /\ PackedRecords' = [i \in 1..k + 1 |-> PackedRecords'[i]]
      /\ \A i \in 1..k + 1 : PackedRecords'[i] = AfterPackages(table', i + Begun)
  <2>1. StoredRecords' = AfterPackages(table', Begun) /\ ShownRecords' = Answers(table')
    BY <1>2, <1>5 DEF StoredRecords, ShownRecords, Hidden
  <2>2. PackedRecords' = [i \in 1..Len(table'.packages) - Begun' |-> AfterPackages(table', i + Begun')]
    BY DEF PackedRecords
  <2>3. Len(table'.packages) - Begun' = k + 1
    BY <1>3, <1>4, <1>5
  <2> HIDE DEF n, k
  <2> QED BY <1>5, <2>1, <2>2, <2>3
<1> HIDE DEF n, k
<1>10. StoredRecords' = StoredRecords /\ ShownRecords' = ShownRecords
  BY <1>3, <1>6, <1>7, <1>8, <1>9
<1> DEFINE q == Append(PackedRecords, ShownRecords)
<1>11. /\ q = [i \in 1..k + 1 |-> q[i]] /\ q[k + 1] = ShownRecords
       /\ \A i \in 1..k : q[i] = PackedRecords[i]
  <2>1. PackedRecords \in Seq(Records) /\ Len(PackedRecords) = k /\ ShownRecords \in Records
    BY <1>8
  <2> QED BY <2>1, AppendIs
<1>12. ASSUME NEW i \in 1..k + 1 PROVE AfterPackages(table', i + Begun) = q[i]
  <2>1. CASE i = k + 1
    <3>1. i + Begun = n + 1
      BY <1>3, <2>1
    <3> QED BY <1>7, <1>8, <1>11, <2>1, <3>1
  <2>2. CASE i # k + 1
    <3>1. i \in 1..k
      BY <1>3, <2>2
    <3>2. PICK j \in 0..n : j = i + Begun
      BY <1>3, <3>1
    <3> QED BY <1>6, <1>8, <1>11, <3>1, <3>2
  <2> QED BY <2>1, <2>2
<1> HIDE DEF q
<1>13. PackedRecords' = q
  <2>1. \A i \in 1..k + 1 : PackedRecords'[i] = q[i]
    BY <1>9, <1>12
  <2> QED BY <1>9, <1>11, <2>1
<1> QED BY <1>10, <1>13 DEF Abstract!Pack, q

\* A sequence without its first entry.
LEMMA TailIs ==
    ASSUME NEW S, NEW s \in Seq(S), s # << >>
    PROVE  /\ Tail(s) = [i \in 1..Len(s) - 1 |-> Tail(s)[i]] /\ Head(s) = s[1] /\ Len(s) \in Nat /\ Len(s) >= 1
           /\ \A i \in 1..Len(s) - 1 : Tail(s)[i] = s[i + 1]
<1>1. /\ Tail(s) \in Seq(S) /\ Len(Tail(s)) = Len(s) - 1 /\ Head(s) = s[1] /\ Len(s) \in Nat /\ Len(s) >= 1
      /\ \A i \in 1..Len(s) - 1 : Tail(s)[i] = s[i + 1]
  OBVIOUS
<1>2. \A r \in Seq(S) : r = [i \in 1..Len(r) |-> r[i]]
  OBVIOUS
<1>3. Tail(s) = [i \in 1..Len(Tail(s)) |-> Tail(s)[i]]
  BY <1>1, <1>2, Zenon
<1> QED BY <1>1, <1>3, Zenon

\* The oldest package before a write that was not begun yet.
LEMMA OldestShows ==
    ASSUME IInv, ~Hidden, ~torn, table.packages # << >>
    PROVE  /\ StoredRecords = AfterPackages(table, 0) /\ PackedRecords # << >>
           /\ Head(PackedRecords) = AfterPackages(table, 1)
           /\ Tail(PackedRecords) = [i \in 1..Len(table.packages) - 1 |-> Tail(PackedRecords)[i]]
           /\ \A i \in 1..Len(table.packages) - 1 : Tail(PackedRecords)[i] = AfterPackages(table, i + 1)
<1> DEFINE n == Len(table.packages)
<1>1. n \in Nat /\ n # 0 /\ Begun = 0
  BY BegunIs
<1>2. /\ PackedRecords \in Seq(Records) /\ Len(PackedRecords) = n
      /\ \A i \in 1..n : PackedRecords[i] = AfterPackages(table, i)
      /\ StoredRecords = AfterPackages(table, 0)
  <2>1. n - 0 = n /\ \A i \in 1..n : i + 0 = i
    BY <1>1
  <2> QED BY <1>1, <2>1, OpenShows
<1> HIDE DEF n
<1>3. PackedRecords # << >> /\ 1 \in 1..n
  BY <1>1, <1>2
<1>4. /\ Tail(PackedRecords) = [i \in 1..n - 1 |-> Tail(PackedRecords)[i]] /\ Head(PackedRecords) = PackedRecords[1]
      /\ \A i \in 1..n - 1 : Tail(PackedRecords)[i] = PackedRecords[i + 1]
  BY <1>2, <1>3, TailIs
<1>5. ASSUME NEW i \in 1..n - 1 PROVE Tail(PackedRecords)[i] = AfterPackages(table, i + 1)
  <2>1. PICK j \in 1..n : j = i + 1
    BY <1>1
  <2> QED BY <1>2, <1>4, <2>1
<1> QED BY <1>2, <1>3, <1>4, <1>5 DEF n

\* What a fetched block makes of the stored records is a Fetch.
LEMMA FetchedIs ==
    ASSUME Protected, IInv, state = "sync", NEW b \in Blocks, SetsLastID(b),
           StoredRecords' = Answers(Applied(b, MaxID)), ShownRecords' = StoredRecords', PackedRecords' = << >>
    PROVE  Abstract!Fetch
<1> DEFINE a == Applied(b, MaxID)
<1>1. Synced /\ ~Hidden /\ NodeTyped
  BY SyncedIs DEF Hidden, IInv
<1>2. StoredRecords = RecordsOn(table.device) /\ ShownRecords = StoredRecords /\ PackedRecords = << >>
  BY <1>1, ClearShows DEF Synced
<1>3. /\ Takes(table, a, b, MaxID) /\ UpTo(Answers(a), MaxAlocWsID(b)) /\ MaxAlocWsID(b) \in 0..MaxID
  BY <1>1, StoredIs
<1>4. StoredRecords' = Answers(a)
  OBVIOUS
<1> HIDE DEF a
<1>5. Sound(a) /\ StoredRecords' \in Records
  BY <1>3, <1>4, AnswersTyped DEF Takes
<1>6. ASSUME NEW id \in IDs PROVE Answer(a, id) = IF id \in DOMAIN b THEN b[id] ELSE Answer(table, id)
  <2>1. id <= MaxID
    BY MaxIDIs DEF IDs
  <2> QED BY <1>3, <2>1 DEF Takes
<1>8. Abstract!Extends(StoredRecords', StoredRecords)
  <2> SUFFICES ASSUME NEW id \in IDs, StoredRecords[id] # NULL
               PROVE  StoredRecords'[id] # NULL /\ StoredRecords'[id] >= StoredRecords[id]
    BY AbstractSets DEF Abstract!Extends
  <2>1. StoredRecords[id] = Answer(table, id) /\ StoredRecords'[id] = Answer(a, id)
    BY <1>1, <1>2, <1>4, <1>5, AnswersTyped DEF Synced
  <2>2. Answer(table, id) \in Nat
    <3>1. Answer(table, id) \in Versions \cup {NULL}
      BY <1>1, AnswerTyped DEF Synced
    <3> QED BY <2>1, <3>1, Sizes DEF Versions
  <2>3. CASE id \in DOMAIN b
    <3>1. id \in Known
      BY <1>2, <2>1 DEF Known
    <3>2. b[id] = Answer(table, id) + 1
      BY <1>2, <2>1, <2>3, <3>1, BlockIs
    <3>3. Answer(a, id) = Answer(table, id) + 1
      BY <1>6, <2>3, <3>2
    <3> QED BY <2>1, <2>2, <3>3, Sizes
  <2>4. CASE id \notin DOMAIN b
    BY <1>6, <2>1, <2>2, <2>4, Sizes
  <2> QED BY <2>3, <2>4
<1>9. Abstract!Contiguous(StoredRecords')
  BY <1>3, <1>4, <1>5, UpToContiguous, MaxIDIs
<1> QED BY <1>2, <1>5, <1>8, <1>9, AbstractSets DEF Abstract!Fetch

\* A fetched block is a Fetch.
LEMMA SyncRspAbstract ==
    ASSUME Protected, IInv, Requested, NEW b \in NextBlocks, SyncRsp(b)
    PROVE  Abstract!Fetch
<1>1. IInv' /\ Clear(table') /\ Answers(table') = Answers(Applied(b, MaxID))
  BY SyncRspInv
<1>2. state = "sync" /\ state' \in {"sync", "normal"} /\ torn' = FALSE /\ SetsLastID(b)
  BY DEF Requested, SyncRsp, AfterFetch
<1>3. ~Hidden' /\ b \in Blocks
  BY <1>2 DEF Hidden, IInv, Asked, NextBlocks
<1>4. Begun' = 0 /\ Len(table'.packages) = 0
  BY <1>1, <1>2 DEF Begun, Clear
<1>5. StoredRecords' = AfterPackages(table', 0) /\ ShownRecords' = Answers(table')
  BY <1>3, <1>4 DEF StoredRecords, ShownRecords, Hidden
<1>6. Sound(table') /\ AfterPackages(table', 0) = RecordsOn(table'.device)
  BY AfterZero, <1>1 DEF IInv, Sound
<1>7. Answers(table') = RecordsOn(table'.device)
  BY <1>1, <1>6, ClearIs
<1>8. PackedRecords' = << >>
  BY <1>4 DEF PackedRecords
<1> QED BY <1>1, <1>2, <1>3, <1>5, <1>6, <1>7, <1>8, FetchedIs

\* So is a crash while its pages are written: the replay completes it.
LEMMA CrashInSyncAbstract ==
    ASSUME Protected, IInv, Requested, NEW b \in NextBlocks, CrashInSync(b)
    PROVE  Abstract!Fetch
<1>1. /\ IInv' /\ state' = "down" /\ config'.flag /\ table'.packages = << >> /\ torn' = FALSE
      /\ RecordsOn(Redone(table'.log, table'.device)) = Answers(Applied(b, MaxID))
  BY CrashInSyncInv
<1>2. state = "sync" /\ b \in Blocks /\ SetsLastID(b)
  BY DEF Requested, CrashInSync, IInv, Asked, NextBlocks
<1>3. PackedRecords' = << >>
  <2>1. Begun' = 0 /\ Len(table'.packages) = 0
    BY <1>1 DEF Begun
  <2> QED BY <2>1 DEF PackedRecords
<1>4. RedoByLog(table').device = Redone(table'.log, table'.device)
  BY <1>1, RedoneIs DEF IInv
<1>5. StoredRecords' = Answers(Applied(b, MaxID)) /\ ShownRecords' = StoredRecords'
  BY <1>1, <1>4 DEF StoredRecords, ShownRecords
<1> QED BY <1>2, <1>3, <1>5, FetchedIs

\* The write of a whole package is a Persist, unless a broken one already was.
LEMMA PersistAbstract ==
    ASSUME Protected, IInv, Persist
    PROVE  Abstract!Persist \/ Unseen
<1>1. /\ IInv' /\ Persists(table, table') /\ table.packages # << >> /\ state = "normal" /\ torn' = FALSE
      /\ state' = "normal"
  BY PersistInv DEF Persist
<1>2. ~Hidden /\ ~Hidden'
  BY <1>1 DEF Hidden
<1> DEFINE n == Len(table.packages)
<1>3. n \in Nat /\ n # 0 /\ Sound(table) /\ Sound(table')
  BY <1>1, BegunIs DEF IInv
<1>4. Len(table'.packages) = n - 1 /\ Begun' = 0
  <2>1. table'.packages = Tail(table.packages) /\ table.packages \in Seq(Package)
    BY <1>1, <1>3 DEF Persists, Sound, Filed
  <2> QED BY <1>1, <2>1, SeqHas DEF Begun
<1>5. \A i \in 0..n - 1 : AfterPackages(table', i) = AfterPackages(table, i + 1)
  BY <1>1, SameAfter DEF Persists
<1>6. ShownRecords' = ShownRecords
  <2>1. \A p \in PageIDs : Page(table', p) = Page(table, p)
    BY <1>1 DEF Persists
  <2>2. Answers(table') = Answers(table)
    BY <1>3, <2>1, SamePages, AnswersKeep DEF SameRecords
  <2> QED BY <1>2, <2>2 DEF ShownRecords, Hidden
<1> HIDE DEF n
<1>7. /\ StoredRecords' = AfterPackages(table, 1)
      /\ PackedRecords' = [i \in 1..n - 1 |-> PackedRecords'[i]]
      /\ \A i \in 1..n - 1 : PackedRecords'[i] = AfterPackages(table, i + 1)
  <2>1. StoredRecords' = AfterPackages(table', 0)
    BY <1>2, <1>4 DEF StoredRecords, Hidden
  <2>2. 0 \in 0..n - 1 /\ 0 + 1 = 1
    BY <1>3
  <2>3. PackedRecords' = [i \in 1..Len(table'.packages) - Begun' |-> AfterPackages(table', i + Begun')]
    BY DEF PackedRecords
  <2>4. Len(table'.packages) - Begun' = n - 1 /\ \A i \in 1..n - 1 : i + Begun' = i /\ i \in 0..n - 1
    BY <1>3, <1>4
  <2>5. \A i \in 1..n - 1 : PackedRecords'[i] = AfterPackages(table', i)
    BY <2>3, <2>4
  <2>6. PackedRecords' = [i \in 1..n - 1 |-> PackedRecords'[i]]
    BY <2>3, <2>4
  <2> QED BY <1>5, <2>1, <2>2, <2>4, <2>5, <2>6
<1>8. CASE torn
  <2>1. /\ StoredRecords = AfterPackages(table, 1) /\ Begun = 1
        /\ PackedRecords = [i \in 1..n - 1 |-> AfterPackages(table, i + 1)]
    <3>1. Begun = 1
      BY <1>8, BegunIs
    <3> QED BY <1>2, <3>1 DEF StoredRecords, PackedRecords, Hidden, n
  <2>2. PackedRecords' = PackedRecords
    BY <1>7, <2>1
  <2> QED BY <1>6, <1>7, <2>1, <2>2 DEF Unseen
<1>9. CASE ~torn
  <2>1. /\ PackedRecords # << >>
        /\ Head(PackedRecords) = AfterPackages(table, 1)
        /\ Tail(PackedRecords) = [i \in 1..n - 1 |-> Tail(PackedRecords)[i]]
        /\ \A i \in 1..n - 1 : Tail(PackedRecords)[i] = AfterPackages(table, i + 1)
    BY <1>1, <1>2, <1>9, OldestShows DEF n
  <2>2. PackedRecords' = Tail(PackedRecords)
    BY <1>7, <2>1
  <2> QED BY <1>6, <1>7, <2>1, <2>2 DEF Abstract!Persist
<1> QED BY <1>8, <1>9

\* The first page a broken write got to is a Persist: from then on the package
\* counts as stored.
LEMMA PersistFailsAbstract ==
    ASSUME Protected, IInv, PersistFails
    PROVE  Abstract!Persist \/ Unseen
<1>1. /\ IInv' /\ Begins(table, table') /\ table.packages # << >> /\ state = "normal" /\ state' = state
      /\ torn' = torn \/ torn' = TRUE
      /\ ~torn' => table'.device = table.device
  BY PersistFailsInv
<1>2. ~Hidden /\ ~Hidden' /\ table'.packages = table.packages
  BY <1>1 DEF Hidden, Begins
<1> DEFINE n == Len(table.packages)
<1>3. n \in Nat /\ n # 0 /\ Sound(table) /\ Sound(table')
  BY <1>1, BegunIs DEF IInv
<1>4. \A i \in 1..n : AfterPackages(table', i) = AfterPackages(table, i)
  BY <1>1, SameAfter DEF Begins
<1>5. ShownRecords' = ShownRecords
  <2>1. \A p \in PageIDs : Page(table', p) = Page(table, p)
    BY <1>1 DEF Begins
  <2>2. Answers(table') = Answers(table)
    BY <1>3, <2>1, SamePages, AnswersKeep DEF SameRecords
  <2> QED BY <1>2, <2>2 DEF ShownRecords, Hidden
<1>6. PackedRecords' = [i \in 1..n - Begun' |-> AfterPackages(table', i + Begun')]
  BY <1>2 DEF PackedRecords
<1>7. Begun' = IF torn' THEN 1 ELSE 0
  BY <1>1, <1>2 DEF Begun
<1>8. StoredRecords' = AfterPackages(table', Begun')
  BY <1>2 DEF StoredRecords, Hidden
<1> HIDE DEF n
<1>9. \A i \in 1..n - 1 : AfterPackages(table', i + 1) = AfterPackages(table, i + 1)
  <2> SUFFICES ASSUME NEW i \in 1..n - 1 PROVE AfterPackages(table', i + 1) = AfterPackages(table, i + 1)
    OBVIOUS
  <2>1. PICK j \in 1..n : j = i + 1
    BY <1>3
  <2> QED BY <1>4, <2>1
<1>10. 1 \in 1..n
  BY <1>3
<1>11. CASE torn
  <2>1. torn' /\ Begun' = 1 /\ Begun = 1
    BY <1>1, <1>7, <1>11, BegunIs
  <2>2. /\ StoredRecords = AfterPackages(table, 1)
        /\ PackedRecords = [i \in 1..n - 1 |-> AfterPackages(table, i + 1)]
    BY <1>2, <2>1 DEF StoredRecords, PackedRecords, Hidden, n
  <2>3. StoredRecords' = StoredRecords
    BY <1>4, <1>8, <1>10, <2>1, <2>2
  <2>4. PackedRecords' = [i \in 1..n - 1 |-> AfterPackages(table', i + 1)]
    BY <1>6, <2>1
  <2>5. PackedRecords' = PackedRecords
    BY <1>9, <2>2, <2>4
  <2> QED BY <1>5, <2>3, <2>5 DEF Unseen
<1>12. CASE ~torn /\ torn'
  <2>1. Begun' = 1
    BY <1>7, <1>12
  <2>2. /\ PackedRecords # << >>
        /\ Head(PackedRecords) = AfterPackages(table, 1)
        /\ Tail(PackedRecords) = [i \in 1..n - 1 |-> Tail(PackedRecords)[i]]
        /\ \A i \in 1..n - 1 : Tail(PackedRecords)[i] = AfterPackages(table, i + 1)
    BY <1>1, <1>2, <1>12, OldestShows DEF n
  <2>3. StoredRecords' = Head(PackedRecords)
    BY <1>4, <1>8, <1>10, <2>1, <2>2
  <2>4. PackedRecords' = [i \in 1..n - 1 |-> AfterPackages(table', i + 1)]
    BY <1>6, <2>1
  <2>5. PackedRecords' = Tail(PackedRecords)
    BY <1>9, <2>2, <2>4
  <2> QED BY <1>5, <2>2, <2>3, <2>5 DEF Abstract!Persist
<1>13. CASE ~torn /\ ~torn'
  <2>1. Begun' = 0 /\ Begun = 0 /\ table'.device = table.device
    BY <1>1, <1>7, <1>13, BegunIs
  <2>2. /\ StoredRecords = AfterPackages(table, 0)
        /\ PackedRecords = [i \in 1..n - 0 |-> AfterPackages(table, i + 0)]
    BY <1>2, <2>1 DEF StoredRecords, PackedRecords, Hidden, n
  <2>3. AfterPackages(table', 0) = AfterPackages(table, 0)
    BY <1>3, <2>1, AfterZero DEF Sound
  <2>4. PackedRecords' = [i \in 1..n - 0 |-> AfterPackages(table', i + 0)]
    BY <1>6, <2>1
  <2>5. \A i \in 1..n - 0 : AfterPackages(table', i + 0) = AfterPackages(table, i + 0)
    BY <1>3, <1>4
  <2>6. PackedRecords' = PackedRecords
    BY <2>2, <2>4, <2>5
  <2> QED BY <1>5, <1>8, <2>1, <2>2, <2>3, <2>6 DEF Unseen
<1> QED BY <1>11, <1>12, <1>13

\* A crash between two calls is a Restart with what was stored.
LEMMA CrashAbstract ==
    ASSUME Protected, IInv, Crash
    PROVE  Abstract!Restart
<1>1. /\ IInv' /\ ~torn /\ state # "down" /\ state' = "down" /\ config' = config /\ table'.packages = << >>
      /\ table'.device = table.device /\ table'.log = table.log /\ torn' = FALSE
  BY CrashInv
<1>2. ~Hidden /\ Sound(table) /\ Sound(table')
  BY <1>1 DEF Hidden, IInv
<1>3. StoredRecords = RecordsOn(table.device)
  <2>1. Begun = 0
    BY <1>1, BegunIs
  <2> QED BY <1>2, <2>1, OpenShows, AfterZero DEF Sound
<1>4. Clear(table') /\ Begun' = 0 /\ Len(table'.packages) = 0
  BY <1>1 DEF IInv, Resting, Serving, Clear, Begun
<1>5. PackedRecords' = << >>
  BY <1>4 DEF PackedRecords
<1>6. StoredRecords' = RecordsOn(table.device) /\ ShownRecords' = RecordsOn(table.device)
  <2>1. CASE config.flag
    <3>1. Redone(table.log, table.device) = table.device
      BY <1>1, <2>1 DEF IInv, Logged
    <3>2. RedoByLog(table').device = table.device
      BY <1>1, <1>2, <3>1, RedoneIs
    <3> QED BY <1>1, <2>1, <3>2 DEF StoredRecords, ShownRecords
  <2>2. CASE ~config.flag
    <3>1. StoredRecords' = AfterPackages(table', 0) /\ ShownRecords' = Answers(table')
      BY <1>1, <1>4, <2>2 DEF StoredRecords, ShownRecords
    <3>2. AfterPackages(table', 0) = RecordsOn(table'.device)
      BY <1>2, AfterZero DEF Sound
    <3>3. Answers(table') = RecordsOn(table'.device)
      BY <1>2, <1>4, ClearIs
    <3> QED BY <1>1, <3>1, <3>2, <3>3
  <2> QED BY <2>1, <2>2
<1> QED BY <1>3, <1>5, <1>6 DEF Abstract!Restart

\* A crash while pages are written is a Restart with the package.
LEMMA CrashInPersistAbstract ==
    ASSUME Protected, IInv, CrashInPersist
    PROVE  Abstract!Restart
<1>1. /\ IInv' /\ state = "normal" /\ state' = "down" /\ config'.flag /\ table.packages # << >>
      /\ table'.packages = << >> /\ torn' = FALSE
      /\ RecordsOn(Redone(table'.log, table'.device)) = AfterPackages(table, 1)
  BY CrashInPersistInv
<1>2. ~Hidden /\ Sound(table')
  BY <1>1 DEF Hidden, IInv
<1>3. PackedRecords' = << >>
  <2>1. Begun' = 0 /\ Len(table'.packages) = 0
    BY <1>1 DEF Begun
  <2> QED BY <2>1 DEF PackedRecords
<1>4. StoredRecords' = AfterPackages(table, 1) /\ ShownRecords' = AfterPackages(table, 1)
  <2>1. RedoByLog(table').device = Redone(table'.log, table'.device)
    BY <1>2, RedoneIs
  <2> QED BY <1>1, <2>1 DEF StoredRecords, ShownRecords
<1>5. CASE torn
  <2>1. StoredRecords = AfterPackages(table, 1)
    BY <1>2, <1>5, BegunIs, OpenShows
  <2> QED BY <1>3, <1>4, <2>1 DEF Abstract!Restart
<1>6. CASE ~torn
  <2>1. PackedRecords # << >> /\ Head(PackedRecords) = AfterPackages(table, 1)
    BY <1>1, <1>2, <1>6, OldestShows
  <2> QED BY <1>3, <1>4, <2>1 DEF Abstract!Restart
<1> QED BY <1>5, <1>6

\* The replay writes what was already counted as stored.
LEMMA OnInitAbstract ==
    ASSUME Protected, IInv, OnInit
    PROVE  Unseen
<1>1. /\ IInv' /\ state = "down" /\ state' = "follower" /\ Clear(table) /\ Clear(table') /\ torn' = torn
      /\ table'.device = IF config.flag THEN Redone(table.log, table.device) ELSE table.device
  BY OnInitInv
<1>2. ~Hidden' /\ Sound(table') /\ ~torn'
  BY <1>1 DEF Hidden, IInv, Broken
<1>3. StoredRecords' = RecordsOn(table'.device) /\ ShownRecords' = RecordsOn(table'.device) /\ PackedRecords' = << >>
  <2>1. Begun' = 0 /\ Len(table'.packages) = 0
    BY <1>1, <1>2 DEF Begun, Clear
  <2>2. StoredRecords' = AfterPackages(table', 0) /\ ShownRecords' = Answers(table')
    BY <1>2, <2>1 DEF StoredRecords, ShownRecords, Hidden
  <2>3. AfterPackages(table', 0) = RecordsOn(table'.device)
    BY <1>2, AfterZero DEF Sound
  <2>4. Answers(table') = RecordsOn(table'.device)
    BY <1>1, <1>2, ClearIs
  <2>5. PackedRecords' = << >>
    BY <2>1 DEF PackedRecords
  <2> QED BY <2>2, <2>3, <2>4, <2>5
<1>4. CASE config.flag
  <2>1. Hidden
    BY <1>1, <1>4 DEF Hidden
  <2> QED BY <1>1, <1>3, <1>4, <2>1, HiddenShows DEF Unseen
<1>5. CASE ~config.flag
  <2>1. ~Hidden
    BY <1>5 DEF Hidden
  <2> QED BY <1>1, <1>3, <1>5, <2>1, ClearShows DEF Unseen
<1> QED BY <1>4, <1>5

\* A step that is the abstract table's or not seen.
LEMMA SeenStep ==
    ASSUME Abstract!Next \/ Unseen
    PROVE  [Abstract!Next]_Abstract!vars
BY DEF Unseen, Abstract!vars

\* Every step is one of the abstract table or not seen.
LEMMA StepShows ==
    ASSUME Protected, IInv, [Next]_vars
    PROVE  [Abstract!Next]_Abstract!vars
<1>1. CASE UNCHANGED vars
  <2>1. table' = table /\ state' = state /\ config' = config /\ torn' = torn
    BY <1>1 DEF vars, node
  <2>2. Unseen
    BY <2>1 DEF Unseen, StoredRecords, PackedRecords, ShownRecords, Begun
  <2> QED BY <2>2, SeenStep
<1>2. CASE Fetch
  <2>1. state # "down" /\ Requested
    BY <1>2 DEF Fetch, Requested
  <2>2. ASSUME NEW b \in NextBlocks, SyncRsp(b) PROVE [Abstract!Next]_Abstract!vars
    BY <2>1, <2>2, SyncRspAbstract, SeenStep DEF Abstract!Next
  <2>5. ASSUME NEW b \in NextBlocks, CrashInSync(b) PROVE [Abstract!Next]_Abstract!vars
    BY <2>1, <2>5, CrashInSyncAbstract, SeenStep DEF Abstract!Next
  <2>3. ASSUME NEW b \in NextBlocks, SyncFails(b) PROVE [Abstract!Next]_Abstract!vars
    <3>1. Same(table, table') /\ torn' = torn /\ state' = state
      BY <2>1, <2>3, SyncFailsInv DEF SyncFails
    <3>2. ~Hidden /\ ~Hidden'
      BY <2>1, <3>1 DEF Hidden
    <3> QED BY <3>1, <3>2, SameUnseen, SeenStep
  <2>4. ASSUME NEW b \in NextBlocks \cup WrongBlocks, SyncConflict(b) PROVE [Abstract!Next]_Abstract!vars
    <3>1. Same(table, table') /\ torn' = torn /\ state' = state
      BY <2>1, <2>4, SyncConflictInv DEF SyncConflict, node
    <3>2. ~Hidden /\ ~Hidden'
      BY <2>1, <3>1 DEF Hidden
    <3> QED BY <3>1, <3>2, SameUnseen, SeenStep
  <2> QED BY <1>2, <2>2, <2>3, <2>4, <2>5 DEF Fetch
<1>3. CASE PeersAdvance \/ BecomeMaster
  <2>1. Same(table, table') /\ torn' = torn
    BY <1>3, FollowInv DEF PeersAdvance, BecomeMaster
  <2>2. ~Hidden /\ ~Hidden'
    BY <1>3 DEF PeersAdvance, BecomeMaster, node, Hidden
  <2> QED BY <2>1, <2>2, SameUnseen, SeenStep
<1>4. CASE SubmitAppend \/ \E id \in IDs : SubmitUpdate(id)
  BY <1>4, SubmitsAbstract, SeenStep DEF Abstract!Next
<1>5. ASSUME NEW id \in IDs, SubmitFails(id) PROVE [Abstract!Next]_Abstract!vars
  BY <1>5, SubmitFailsAbstract, SeenStep DEF Abstract!Next
<1>6. ASSUME NEW id \in IDs, CheckVersion(id) PROVE [Abstract!Next]_Abstract!vars
  <2>1. Same(table, table') /\ torn' = torn /\ state = "normal" /\ state' = state
    BY <1>6, CheckVersionInv DEF CheckVersion, Serving, node
  <2>2. ~Hidden /\ ~Hidden'
    BY <2>1 DEF Hidden
  <2> QED BY <2>1, <2>2, SameUnseen, SeenStep
<1>7. CASE PackBlock
  BY <1>7, PackAbstract, SeenStep DEF Abstract!Next
<1>8. CASE Persist
  BY <1>8, PersistAbstract, SeenStep DEF Abstract!Next
<1>9. CASE PersistFails
  BY <1>9, PersistFailsAbstract, SeenStep DEF Abstract!Next
<1>10. CASE StepDown
  <2>1. Same(table, table') /\ torn' = torn /\ state # "down" /\ state' = state
    BY <1>10, StepDownInv DEF StepDown
  <2>2. ~Hidden /\ ~Hidden'
    BY <2>1 DEF Hidden
  <2> QED BY <2>1, <2>2, SameUnseen, SeenStep
<1>11. CASE Crash
  BY <1>11, CrashAbstract, SeenStep DEF Abstract!Next
<1>12. CASE CrashInPersist
  BY <1>12, CrashInPersistAbstract, SeenStep DEF Abstract!Next
<1>13. CASE OnInit
  BY <1>13, OnInitAbstract, SeenStep
<1> QED BY <1>1, <1>2, <1>3, <1>4, <1>5, <1>6, <1>7, <1>8, <1>9, <1>10, <1>11, <1>12, <1>13 DEF Next

\* Through cache, packages, device, log and restarts the table is the one
\* function of ids that PackedTable describes.
THEOREM Implements == Protected /\ Spec => ImplementsPackedTable
<1> SUFFICES ASSUME Protected PROVE Spec => ImplementsPackedTable
  OBVIOUS
<1>1. Init => Abstract!Init
  BY InitShows
<1>2. IInv /\ [Next]_vars => [Abstract!Next]_Abstract!vars
  BY StepShows
<1>3. Spec => []IInv
  BY Invariant
<1> QED BY <1>1, <1>2, <1>3, PTL DEF Spec, ImplementsPackedTable, Abstract!Spec
=============================================================================
