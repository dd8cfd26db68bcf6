----------------------- MODULE BlockDistributionProofs -----------------------
(***************************************************************************)
(* The safety of the distribution, proved for every number of peers, every *)
(* quorum and all bounds, as long as none of the events in Exposed happens.*)
(*                                                                         *)
(* The node counts answers and not peers.  What makes the count honest is  *)
(* that a peer that was counted and left can be heard again only after it  *)
(* registers, since its connection is a FIFO that begins with that.        *)
(***************************************************************************)
EXTENDS BlockDistribution, FiniteSetTheorems, TLAPS

Protected == Exposed = {}

\* What may be under way to a peer, from a peer that holds the blocks up to h,
\* and from one that is not registered.
SentOn(s)      == s \in Seq(Message) /\ \A i \in 1..Len(s) : s[i].block <= MaxBlock
HonestOn(s, h) == /\ s \in Seq(Message)
                  /\ \A i \in 1..Len(s) : s[i].type = "ack" => s[i].block <= h
SilentOn(s)    == \A i \in 1..Len(s) : s[i].type = "regist"
-----------------------------------------------------------------------------
(* The inductive invariant. *)

Node ==
    /\ queue \in Seq(1..MaxBlock)
    /\ cur \in 1..(MaxBlock + 1) /\ blockID \in 0..MaxBlock
    /\ conn \subseteq link /\ link \subseteq Peers /\ conn # {}
    /\ repersist \in BOOLEAN /\ alive = TRUE
    /\ height \in [Peers -> 0..MaxBlock]
    /\ faults \in 0..(MaxBreak + MaxFail)

ToPeer  == /\ toPeer \in [Peers -> Seq(Message)]
           /\ \A p \in Peers : SentOn(toPeer[p]) /\ (p \notin conn => toPeer[p] = <<>>)
ToOrder == /\ toOrder \in [Peers -> Seq(Message)]
           /\ \A p \in Peers : /\ HonestOn(toOrder[p], height[p])
                               /\ p \notin conn => SilentOn(toOrder[p])
                               /\ p \notin link => toOrder[p] = <<>>

\* The bookkeeping r of the registered peers c: who was counted and is still
\* registered has its flag set, and the count is that of the counted peers.
Books(r, c) ==
    /\ r \in [answered : SUBSET c, count : Nat, counted : SUBSET Peers, resend : SUBSET c]
    /\ r.answered \subseteq r.counted /\ r.counted \cap c \subseteq r.answered
    /\ r.count = Cardinality(r.counted)

\* For the queue q: the counted hold its front, and timers have one.
Fits(r, q) == /\ q # <<>> => r.counted \subseteq Holders(q[1])
              /\ q = <<>> => r.resend = {}

\* While the node waits to persist the front again, the quorum stands.
Waiting == repersist => queue # <<>> /\ round.count >= Kafka /\ round.resend = {}

IInv == /\ Node /\ ToPeer /\ ToOrder
        /\ Books(round, conn) /\ Fits(round, queue) /\ Waiting /\ QuorumStored
-----------------------------------------------------------------------------
(* Messages, counts and holders. *)

LEMMA Bounds == /\ MaxBlock \in Nat /\ MaxBreak \in Nat /\ MaxFail \in Nat
                /\ Kafka \in Nat /\ Kafka > 1 /\ Kafka <= Cardinality(Peers)
                /\ IsFiniteSet(Peers) /\ Cardinality(Peers) \in Nat
BY DistributionAssumption, FS_CardinalityType

LEMMA TailOf ==
    ASSUME NEW s \in Seq(Message), s # <<>>
    PROVE  /\ Tail(s) \in Seq(Message) /\ Len(Tail(s)) = Len(s) - 1 /\ Len(s) \in Nat
           /\ \A i \in 1..Len(Tail(s)) : i + 1 \in 1..Len(s) /\ Tail(s)[i] = s[i + 1]
           /\ 1 \in 1..Len(s) /\ Head(s) = s[1] /\ Head(s) \in Message
OBVIOUS

LEMMA AppendOf ==
    ASSUME NEW s \in Seq(Message), NEW m \in Message
    PROVE  /\ Append(s, m) \in Seq(Message) /\ Len(s) \in Nat
           /\ \A i \in 1..Len(Append(s, m)) :
                (i \in 1..Len(s) /\ Append(s, m)[i] = s[i]) \/ Append(s, m)[i] = m
OBVIOUS

LEMMA Messages ==
    ASSUME NEW b \in Nat
    PROVE  /\ Dist(b) \in Message /\ Dist(b).block = b /\ Dist(b).type = "dist"
           /\ Sync(b) \in Message /\ Sync(b).block = b /\ Sync(b).type = "sync"
           /\ Ack(b) \in Message /\ Ack(b).block = b /\ Ack(b).type = "ack"
           /\ Regist(b) \in Message /\ Regist(b).block = b /\ Regist(b).type = "regist"
BY DEF Dist, Sync, Ack, Regist, Message

LEMMA SentMail ==
    ASSUME NEW s, SentOn(s)
    PROVE  /\ s # <<>> => SentOn(Tail(s)) /\ Head(s).block \in 0..MaxBlock
           /\ \A b \in 0..MaxBlock : SentOn(Append(s, Dist(b))) /\ SentOn(Append(s, Sync(b)))
<1>1. ASSUME s # <<>> PROVE SentOn(Tail(s)) /\ Head(s).block \in 0..MaxBlock
  BY <1>1, TailOf, Bounds DEF SentOn, Message
<1>2. ASSUME NEW m \in Message, m.block <= MaxBlock PROVE SentOn(Append(s, m))
  BY <1>2, AppendOf DEF SentOn
<1> QED BY <1>1, <1>2, Messages, Bounds

LEMMA HonestMail ==
    ASSUME NEW s, NEW h \in 0..MaxBlock, HonestOn(s, h)
    PROVE  /\ s # <<>> => /\ HonestOn(Tail(s), h)
                          /\ Head(s).type = "ack" => Head(s).block <= h
                          /\ Head(s).block \in Nat
           /\ \A g \in 0..MaxBlock : g >= h =>
                /\ HonestOn(s, g) /\ HonestOn(Append(s, Regist(g)), g)
                /\ \A b \in 0..g : HonestOn(Append(s, Ack(b)), g)
<1>1. ASSUME s # <<>>
      PROVE  /\ HonestOn(Tail(s), h) /\ Head(s).block \in Nat
             /\ Head(s).type = "ack" => Head(s).block <= h
  BY <1>1, TailOf DEF HonestOn, Message
<1>2. ASSUME NEW g \in 0..MaxBlock, g >= h PROVE HonestOn(s, g)
  <2>1. \A i \in 1..Len(s) : s[i] \in Message
    BY DEF HonestOn
  <2>2. \A i \in 1..Len(s) : s[i].block \in Nat
    BY <2>1 DEF Message
  <2> QED BY <1>2, <2>2, Bounds DEF HonestOn
<1>3. ASSUME NEW g \in 0..MaxBlock, g >= h, NEW m \in Message, m.type = "ack" => m.block <= g
      PROVE  HonestOn(Append(s, m), g)
  BY <1>2, <1>3, AppendOf DEF HonestOn
<1>4. ASSUME NEW g \in 0..MaxBlock, g >= h
      PROVE  /\ HonestOn(Append(s, Regist(g)), g)
             /\ \A b \in 0..g : HonestOn(Append(s, Ack(b)), g)
  <2>1. g \in Nat /\ \A b \in 0..g : b \in Nat /\ b <= g
    BY Bounds
  <2> QED BY <1>3, <1>4, <2>1, Messages
<1> QED BY <1>1, <1>2, <1>4

LEMMA SilentMail ==
    ASSUME NEW s \in Seq(Message), SilentOn(s)
    PROVE  /\ s # <<>> => SilentOn(Tail(s)) /\ Head(s).type = "regist"
           /\ \A b \in Nat : SilentOn(Append(s, Regist(b)))
<1>1. ASSUME s # <<>> PROVE SilentOn(Tail(s)) /\ Head(s).type = "regist"
  BY <1>1, TailOf DEF SilentOn
<1>2. ASSUME NEW b \in Nat PROVE SilentOn(Append(s, Regist(b)))
  BY <1>2, AppendOf, Messages DEF SilentOn
<1> QED BY <1>1, <1>2

\* Sets of peers are finite, and larger ones have more members.
LEMMA PeerSets ==
    ASSUME NEW A \in SUBSET Peers
    PROVE  /\ IsFiniteSet(A) /\ Cardinality(A) \in Nat
           /\ \A B \in SUBSET A : Cardinality(B) <= Cardinality(A) /\ Cardinality(B) \in Nat
           /\ \A p \in Peers \ A : Cardinality(A \cup {p}) = Cardinality(A) + 1
<1>1. IsFiniteSet(A)
  BY Bounds, FS_Subset
<1> QED BY <1>1, FS_Subset, FS_CardinalityType, FS_AddElement

\* Peers keep their blocks, so a stored block stays stored.
LEMMA QuorumGrows ==
    ASSUME Node, QuorumStored, height' \in [Peers -> 0..MaxBlock], blockID' = blockID,
           \A p \in Peers : height'[p] >= height[p]
    PROVE  QuorumStored'
<1>1. /\ \A p \in Peers : height[p] \in 0..MaxBlock /\ height'[p] \in 0..MaxBlock
      /\ blockID \in 0..MaxBlock /\ MaxBlock \in Nat
  BY Bounds DEF Node
<1>2. Holders(blockID) \in SUBSET Holders(blockID)' /\ Holders(blockID)' \in SUBSET Peers
  BY <1>1 DEF Holders
<1>3. /\ Cardinality(Holders(blockID)) <= Cardinality(Holders(blockID)')
      /\ Cardinality(Holders(blockID)) \in Nat /\ Cardinality(Holders(blockID)') \in Nat
  BY <1>2, PeerSets
<1> QED BY <1>3, Bounds DEF QuorumStored, Holders
-----------------------------------------------------------------------------
(* What the handlers have in common. *)

\* A message is taken from p; an answer is from a registered peer and true.
LEMMA Received ==
    ASSUME Node, ToOrder, NEW p \in Peers, toOrder[p] # <<>>,
           toOrder' = [toOrder EXCEPT ![p] = Tail(@)], height' = height, conn \subseteq conn', link' = link
    PROVE  /\ ToOrder' /\ p \in link /\ Head(toOrder[p]).block \in Nat
           /\ Head(toOrder[p]).type = "ack" => p \in conn /\ Head(toOrder[p]).block <= height[p]
<1>1. /\ toOrder[p] \in Seq(Message) /\ HonestOn(toOrder[p], height[p])
      /\ height[p] \in 0..MaxBlock /\ (p \notin conn => SilentOn(toOrder[p]))
  BY DEF Node, ToOrder
<1>2. /\ HonestOn(Tail(toOrder[p]), height[p]) /\ Head(toOrder[p]).block \in Nat
      /\ Head(toOrder[p]).type = "ack" => Head(toOrder[p]).block <= height[p]
  BY <1>1, HonestMail
<1>3. p \notin conn => SilentOn(Tail(toOrder[p])) /\ Head(toOrder[p]).type = "regist"
  BY <1>1, SilentMail
<1>4. /\ toOrder'[p] = Tail(toOrder[p]) /\ Tail(toOrder[p]) \in Seq(Message)
      /\ \A q \in Peers : q # p => toOrder'[q] = toOrder[q]
  BY <1>1, TailOf DEF ToOrder
<1>5. toOrder' \in [Peers -> Seq(Message)]
  BY <1>4 DEF ToOrder
<1>6. p \in link
  BY DEF ToOrder
<1>7. ToOrder'
  BY <1>2, <1>3, <1>4, <1>5, <1>6 DEF ToOrder, HonestOn, SilentOn
<1> QED BY <1>2, <1>3, <1>6, <1>7

\* Registered peers are sent a block.
LEMMA FrontSent ==
    ASSUME Node, ToPeer, NEW q \in Seq(1..MaxBlock), q # <<>>, NEW ps \in SUBSET conn',
           SendFront(ps, q), conn \subseteq conn'
    PROVE  ToPeer'
<1>1. q[1] \in 0..MaxBlock /\ q[1] \in Nat
  BY Bounds
<1>2. \A p \in Peers : /\ toPeer'[p] = IF p \in ps THEN Append(toPeer[p], Dist(q[1])) ELSE toPeer[p]
                       /\ SentOn(toPeer[p]) /\ toPeer[p] \in Seq(Message)
  BY DEF SendFront, ToPeer
<1>3. \A p \in Peers : SentOn(Append(toPeer[p], Dist(q[1])))
  BY <1>1, <1>2, SentMail
<1>4. \A p \in Peers : SentOn(toPeer'[p]) /\ toPeer'[p] \in Seq(Message)
  BY <1>2, <1>3 DEF SentOn
<1>5. toPeer' \in [Peers -> Seq(Message)]
  BY <1>4 DEF SendFront
<1> QED BY <1>2, <1>4, <1>5 DEF ToPeer, SentOn

\* A distribution starts a new round, or there is no block to distribute.
LEMMA Distributed ==
    ASSUME Node, ToPeer, NEW q \in Seq(1..MaxBlock), NEW r, Books(r, conn),
           q = <<>> => r.resend = {}, DistributeBlock(q, r), conn' = conn
    PROVE  /\ ToPeer' /\ Books(round', conn)
           /\ q # <<>> => round'.counted = {}
           /\ q = <<>> => round'.resend = {}
<1>1. CASE q = <<>>
  <2>1. round' = r /\ toPeer' = toPeer
    BY <1>1 DEF DistributeBlock
  <2> QED BY <1>1, <2>1 DEF ToPeer, SentOn
<1>2. CASE q # <<>>
  <2>1. /\ round' = [answered |-> r.answered \ conn, count |-> 0,
                     counted |-> {}, resend |-> r.resend \cup conn]
        /\ SendFront(conn, q)
    BY <1>2 DEF DistributeBlock, Node
  <2>2. ToPeer'
    BY <1>2, <2>1, FrontSent
  <2>3. r.answered \subseteq conn /\ r.resend \subseteq conn
    BY DEF Books
  <2>4. Books(round', conn)
    BY <2>1, <2>3, FS_EmptySet DEF Books
  <2> QED BY <1>2, <2>1, <2>2, <2>4
<1> QED BY <1>1, <1>2

\* An answer that counts comes from a peer that was not counted.
LEMMA AnswerCounts ==
    ASSUME IInv, NEW p \in Peers, Receive(p, "ack"), Counts(p),
           height' = height, conn' = conn, link' = link
    PROVE  /\ ToOrder' /\ p \in conn /\ queue # <<>> /\ queue[1] \in 1..MaxBlock
           /\ Books(Counted(p), conn)
           /\ Counted(p).count = round.count + 1 /\ Counted(p).counted = round.counted \cup {p}
           /\ Counted(p).counted \subseteq Holders(queue[1]) /\ Counted(p).resend = round.resend
<1>1. ToOrder' /\ p \in conn /\ Head(toOrder[p]).block <= height[p]
  BY Received DEF IInv, Receive
<1>2. queue # <<>> /\ Head(toOrder[p]).block = queue[1] /\ p \notin round.answered
  BY DEF Counts, Front
<1>3. queue[1] \in 1..MaxBlock
  <2>1. queue \in Seq(1..MaxBlock)
    BY DEF IInv, Node
  <2> QED BY <1>2, <2>1, Bounds
<1>4. p \in Holders(queue[1])
  BY <1>1, <1>2 DEF Holders
<1>5. p \notin round.counted /\ round.counted \in SUBSET Peers
  BY <1>1, <1>2 DEF IInv, Books
<1>6. Cardinality(round.counted \cup {p}) = Cardinality(round.counted) + 1
  BY <1>5, PeerSets
<1>7. /\ Counted(p) \in [answered : SUBSET conn, count : Nat, counted : SUBSET Peers,
                         resend : SUBSET conn]
      /\ Counted(p).answered = round.answered \cup {p} /\ Counted(p).count = round.count + 1
      /\ Counted(p).counted = round.counted \cup {p} /\ Counted(p).resend = round.resend
  <2>1. round \in [answered : SUBSET conn, count : Nat, counted : SUBSET Peers,
                   resend : SUBSET conn]
    BY DEF IInv, Books
  <2>2. Counted(p).answered = round.answered \cup {p}
    BY <2>1 DEF Counted
  <2>3. Counted(p).count = round.count + 1
    BY <2>1 DEF Counted
  <2>4. Counted(p).counted = round.counted \cup {p}
    BY <2>1 DEF Counted
  <2>5. Counted(p).resend = round.resend
    BY <2>1 DEF Counted
  <2>6. Counted(p) \in [answered : SUBSET conn, count : Nat, counted : SUBSET Peers,
                        resend : SUBSET conn]
    <3> DEFINE R  == [answered : SUBSET conn, count : Nat, counted : SUBSET Peers,
                      resend : SUBSET conn]
               r1 == [round EXCEPT !.answered = round.answered \cup {p}]
               r2 == [r1 EXCEPT !.count = round.count + 1]
               r3 == [r2 EXCEPT !.counted = round.counted \cup {p}]
    <3>1. r1 \in R
      BY <1>1, <2>1
    <3>2. \A r \in R : [r EXCEPT !.count = round.count + 1] \in R
      BY <2>1
    <3>3. \A r \in R : [r EXCEPT !.counted = round.counted \cup {p}] \in R
      BY <2>1
    <3>4. r3 \in R
      BY <3>1, <3>2, <3>3
    <3>5. Counted(p) = r3
      BY DEF Counted
    <3> QED BY <3>4, <3>5
  <2> QED BY <2>2, <2>3, <2>4, <2>5, <2>6
<1>8. Books(Counted(p), conn)
  BY <1>1, <1>5, <1>6, <1>7 DEF IInv, Books
<1> QED BY <1>1, <1>2, <1>3, <1>4, <1>7, <1>8 DEF IInv, Fits

\* Resend timers are cancelled.
LEMMA Cancelled ==
    ASSUME NEW r, NEW c, NEW S, Books(r, c), NEW n, n = [r EXCEPT !.resend = @ \ S]
    PROVE  Books(n, c) /\ n.count = r.count /\ n.counted = r.counted /\ n.resend = r.resend \ S
<1>1. r \in [answered : SUBSET c, count : Nat, counted : SUBSET Peers, resend : SUBSET c]
  BY DEF Books
<1>2. n \in [answered : SUBSET c, count : Nat, counted : SUBSET Peers, resend : SUBSET c]
  BY <1>1
<1>3. /\ n.count = r.count /\ n.counted = r.counted /\ n.resend = r.resend \ S
      /\ n.answered = r.answered
  BY <1>1
<1> QED BY <1>2, <1>3 DEF Books

\* The front is persisted when the peers counted for it are a quorum.
LEMMA Persisted ==
    ASSUME Node, ToPeer, queue # <<>>, NEW r, Books(r, conn), r.counted \subseteq Holders(queue[1]),
           r.count >= Kafka, r.resend = {}, PersistAndDistribute(r), conn' = conn, height' = height
    PROVE  /\ ToPeer' /\ Books(round', conn) /\ Fits(round', queue')
           /\ queue' \in Seq(1..MaxBlock) /\ blockID' \in 0..MaxBlock /\ QuorumStored'
<1>1. /\ queue \in Seq(1..MaxBlock) /\ queue' = Tail(queue) /\ blockID' = queue[1]
      /\ DistributeBlock(queue', r)
  BY DEF Node, PersistAndDistribute
<1>2. queue' \in Seq(1..MaxBlock) /\ queue[1] \in 1..MaxBlock
  BY <1>1, Bounds
<1>3. /\ ToPeer' /\ Books(round', conn) /\ (queue' # <<>> => round'.counted = {})
      /\ queue' = <<>> => round'.resend = {}
  BY <1>1, <1>2, Distributed
<1>4. QuorumStored'
  <2>1. Holders(queue[1]) \in SUBSET Peers /\ r.counted \in SUBSET Holders(queue[1])
    BY DEF Holders
  <2>2. /\ r.count = Cardinality(r.counted) /\ Cardinality(r.counted) \in Nat
        /\ Cardinality(r.counted) <= Cardinality(Holders(queue[1]))
        /\ Cardinality(Holders(queue[1])) \in Nat
    BY <2>1, PeerSets DEF Books
  <2>3. Cardinality(Holders(queue[1])) >= Kafka
    BY <2>2, Bounds
  <2> QED BY <1>1, <2>3 DEF QuorumStored, Holders
<1>5. Fits(round', queue')
  BY <1>3 DEF Fits
<1>6. blockID' \in 0..MaxBlock
  BY <1>1, <1>2, Bounds
<1> QED BY <1>2, <1>3, <1>4, <1>5, <1>6

\* Without a change of what is stored the quorum stays.
LEMMA SameQuorum == ASSUME QuorumStored, blockID' = blockID, height' = height PROVE QuorumStored'
BY DEF QuorumStored, Holders
-----------------------------------------------------------------------------
(* The order node's steps. *)

LEMMA PackKeeps == ASSUME IInv, Pack PROVE IInv'
<1> USE DEF IInv
<1>1. /\ queue \in Seq(1..MaxBlock) /\ cur \in 1..MaxBlock /\ queue' = Append(queue, cur)
      /\ cur' = cur + 1
  BY Bounds DEF Pack, Node
<1>2. /\ queue' \in Seq(1..MaxBlock) /\ queue' # <<>> /\ cur' \in 1..(MaxBlock + 1)
      /\ queue # <<>> => queue'[1] = queue[1]
  BY <1>1, Bounds
<1>3. Node' /\ ToOrder' /\ QuorumStored'
  BY <1>2, SameQuorum DEF Pack, Node, ToOrder, HonestOn, SilentOn
<1>4. CASE queue = <<>>
  <2>1. DistributeBlock(queue', round) /\ conn' = conn /\ ~repersist /\ repersist' = repersist
    BY <1>4 DEF Pack, Waiting
  <2>2. ToPeer' /\ Books(round', conn) /\ round'.counted = {}
    BY <1>2, <2>1, Distributed
  <2> QED BY <1>2, <1>3, <2>1, <2>2 DEF Fits, Waiting
<1>5. CASE queue # <<>>
  <2>1. UNCHANGED <<round, toPeer, conn, height, repersist>>
    BY <1>5 DEF Pack
  <2> QED BY <1>2, <1>3, <1>5, <2>1 DEF Fits, Waiting, Holders, ToPeer, SentOn
<1> QED BY <1>4, <1>5

LEMMA AckKeeps == ASSUME Protected, IInv, NEW p \in Peers, HandleAck(p) PROVE IInv'
<1> USE DEF IInv
<1>1. ASSUME AckIgnored(p) PROVE IInv'
  <2>1. ToOrder'
    BY <1>1, Received DEF AckIgnored, Receive
  <2> QED BY <1>1, <2>1, SameQuorum
          DEF AckIgnored, Node, ToPeer, SentOn, Fits, Holders, Waiting
<1>2. ASSUME Receive(p, "ack"), Counts(p), UNCHANGED <<height, conn, link>>
      PROVE  /\ ToOrder' /\ queue # <<>> /\ Books(Quorum(p), conn)
             /\ Quorum(p).count = round.count + 1 /\ Quorum(p).resend = {}
             /\ Quorum(p).counted \subseteq Holders(queue[1])
  <2>1. /\ ToOrder' /\ queue # <<>> /\ Books(Counted(p), conn)
        /\ Counted(p).count = round.count + 1 /\ Counted(p).counted \subseteq Holders(queue[1])
        /\ Counted(p).resend = round.resend
    BY <1>2, AnswerCounts
  <2>2. round.resend \ conn = {}
    BY DEF Books
  <2>3. /\ Books(Quorum(p), conn) /\ Quorum(p).count = Counted(p).count
        /\ Quorum(p).counted = Counted(p).counted
        /\ Quorum(p).resend = Counted(p).resend \ conn
    <3>1. Quorum(p) = [Counted(p) EXCEPT !.resend = @ \ conn]
      BY DEF Quorum
    <3> QED BY ONLY <2>1, <3>1, Cancelled
  <2> QED BY <2>1, <2>2, <2>3
<1>3. ASSUME AckCounted(p) PROVE IInv'
  <2>1. /\ ToOrder' /\ queue # <<>> /\ Books(Counted(p), conn)
        /\ Counted(p).count = round.count + 1 /\ Counted(p).counted \subseteq Holders(queue[1])
    BY <1>3, AnswerCounts DEF AckCounted
  <2>2. /\ Books(round', conn) /\ round'.counted \subseteq Holders(queue[1])
    <3>1. round' = [Counted(p) EXCEPT !.resend = @ \ {p}]
      BY <1>3 DEF AckCounted
    <3>2. \A S, n : n = [Counted(p) EXCEPT !.resend = @ \ S] =>
                      Books(n, conn) /\ n.counted = Counted(p).counted
      BY ONLY <2>1, Cancelled
    <3> QED BY <2>1, <3>1, <3>2
  <2>3. round.count \in Nat
    BY DEF Books
  <2>4. ~repersist
    BY <1>3, <2>3, Bounds DEF AckCounted, Waiting
  <2> QED BY <1>3, <2>1, <2>2, <2>4, SameQuorum
          DEF AckCounted, Node, ToPeer, SentOn, Fits, Holders, Waiting
<1>4. ASSUME AckPersists(p) PROVE IInv'
  <2>1. /\ ToOrder' /\ queue # <<>> /\ Books(Quorum(p), conn) /\ Quorum(p).count >= Kafka
        /\ Quorum(p).resend = {} /\ Quorum(p).counted \subseteq Holders(queue[1])
    BY <1>2, <1>4 DEF AckPersists
  <2>2. /\ ToPeer' /\ Books(round', conn) /\ Fits(round', queue')
        /\ queue' \in Seq(1..MaxBlock) /\ blockID' \in 0..MaxBlock /\ QuorumStored'
    BY <1>4, <2>1, Persisted DEF AckPersists
  <2>3. ~repersist /\ repersist' = repersist
    BY <1>4 DEF AckPersists, Undisturbed, Protected
  <2> QED BY <1>4, <2>1, <2>2, <2>3 DEF AckPersists, Node, Waiting, Fits, Holders
<1>5. ASSUME AckPersistFails(p) PROVE IInv'
  <2>1. /\ ToOrder' /\ queue # <<>> /\ Books(Quorum(p), conn) /\ Quorum(p).count >= Kafka
        /\ Quorum(p).resend = {} /\ Quorum(p).counted \subseteq Holders(queue[1])
    BY <1>2, <1>5 DEF AckPersistFails
  <2> QED BY <1>5, <2>1, SameQuorum
          DEF AckPersistFails, Node, ToPeer, SentOn, Fits, Holders, Waiting
<1> QED BY <1>1, <1>3, <1>4, <1>5 DEF HandleAck

LEMMA RepersistenceKeeps == ASSUME IInv, OnTimeRepersistence PROVE IInv'
<1> USE DEF IInv
<1>1. /\ repersist /\ queue # <<>> /\ round.count >= Kafka /\ round.resend = {}
      /\ queue \in Seq(1..MaxBlock)
  BY DEF OnTimeRepersistence, Waiting, Node
<1>2. Front # NULL
  BY <1>1, Bounds DEF Front, NULL
<1>3. PersistAndDistribute(round) /\ ~repersist' /\ repersist' \in BOOLEAN /\ alive' = TRUE
  BY <1>2 DEF OnTimeRepersistence
<1>4. /\ ToPeer' /\ Books(round', conn) /\ Fits(round', queue')
      /\ queue' \in Seq(1..MaxBlock) /\ blockID' \in 0..MaxBlock /\ QuorumStored'
  BY <1>1, <1>3, Persisted DEF OnTimeRepersistence, Fits
<1> QED BY <1>3, <1>4
        DEF OnTimeRepersistence, Node, ToOrder, HonestOn, SilentOn, Waiting, Fits, Holders

LEMMA ResendKeeps == ASSUME IInv, NEW p \in Peers, OnTimeDistributeBlock(p) PROVE IInv'
<1> USE DEF IInv
<1>1. p \in round.resend /\ p \in conn /\ ~repersist /\ queue # <<>> /\ queue \in Seq(1..MaxBlock)
  BY DEF OnTimeDistributeBlock, Waiting, Fits, Books, Node
<1>2. Front # NULL
  BY <1>1, Bounds DEF Front, NULL
<1>3. SendFront({p}, queue) /\ alive' = TRUE
  BY <1>2 DEF OnTimeDistributeBlock
<1>4. {p} \in SUBSET conn' /\ conn \subseteq conn'
  BY <1>1 DEF OnTimeDistributeBlock
<1>5. ToPeer'
  BY <1>1, <1>3, <1>4, FrontSent
<1>6. Books(round', conn) /\ round'.counted = round.counted
  BY Cancelled DEF OnTimeDistributeBlock
<1> QED BY <1>1, <1>3, <1>5, <1>6, SameQuorum
        DEF OnTimeDistributeBlock, Node, ToOrder, HonestOn, SilentOn, Waiting, Fits, Holders
-----------------------------------------------------------------------------
(* Connections and peers. *)

LEMMA RegisterKeeps == ASSUME Protected, IInv, NEW p \in Peers, Register(p) PROVE IInv'
<1> USE DEF IInv
<1>1. /\ Receive(p, "regist") /\ conn' = conn \cup {p} /\ conn \subseteq conn'
      /\ UNCHANGED <<height, link, queue, cur, blockID, repersist, alive, faults>>
  BY DEF Register
<1>2. ToOrder' /\ p \in link
  BY <1>1, Received DEF Receive
<1>3. p \notin round.counted /\ p \notin round.answered /\ ~repersist
  BY DEF Register, Returns, Undisturbed, Protected, Books
<1>4. Node' /\ QuorumStored'
  BY <1>1, <1>2, SameQuorum DEF Node
<1>5. Books(round, conn')
  BY <1>1, <1>3 DEF Books
<1>6. CASE UNCHANGED round /\ toPeer' = [toPeer EXCEPT ![p] = Append(@, Sync(blockID))]
  <2>1. SentOn(toPeer[p]) /\ blockID \in 0..MaxBlock /\ toPeer \in [Peers -> Seq(Message)]
    BY DEF ToPeer, Node
  <2>2. SentOn(Append(toPeer[p], Sync(blockID)))
    BY <2>1, SentMail
  <2>3. ToPeer'
    BY <1>1, <1>6, <2>1, <2>2 DEF ToPeer, SentOn
  <2> QED BY <1>1, <1>2, <1>3, <1>4, <1>5, <1>6, <2>3 DEF Fits, Holders, Waiting
<1>7. CASE /\ Front # NULL /\ SendFront({p}, queue)
           /\ round' = [round EXCEPT !.answered = @ \ {p}, !.resend = @ \cup {p}]
  <2>1. queue # <<>> /\ queue \in Seq(1..MaxBlock) /\ {p} \in SUBSET conn'
    BY <1>1, <1>7 DEF Front, Node
  <2>2. ToPeer'
    BY <1>1, <1>7, <2>1, FrontSent
  <2>3. /\ round'.answered = round.answered /\ round'.count = round.count
        /\ round'.counted = round.counted /\ round'.resend = round.resend \cup {p}
        /\ round' \in [answered : SUBSET conn', count : Nat, counted : SUBSET Peers,
                       resend : SUBSET conn']
    <3> DEFINE R == [answered : SUBSET conn', count : Nat, counted : SUBSET Peers,
                     resend : SUBSET conn']
               n == [round EXCEPT !.answered = @ \ {p}]
    <3>1. round \in R
      BY <1>5 DEF Books
    <3>2. n \in R
      BY <3>1
    <3>3. n.resend = round.resend
      BY <3>1
    <3>4. round' = [n EXCEPT !.resend = round.resend \cup {p}]
      BY <1>7
    <3>5. round' \in R
      <4>1. round.resend \cup {p} \in SUBSET conn'
        BY <1>1, <3>1
      <4> QED BY <3>2, <3>4, <4>1
    <3>6. /\ round'.answered = round.answered \ {p} /\ round'.count = round.count
          /\ round'.counted = round.counted /\ round'.resend = round.resend \cup {p}
      BY <1>7, <3>1
    <3> QED BY <1>3, <3>5, <3>6
  <2>4. Books(round', conn')
    BY <1>5, <2>3 DEF Books
  <2> QED BY <1>1, <1>2, <1>3, <1>4, <2>1, <2>2, <2>3, <2>4 DEF Fits, Holders, Waiting
<1>8. CASE UNCHANGED <<toPeer, round>>
  <2>1. ToPeer'
    BY <1>1, <1>8 DEF ToPeer, SentOn
  <2> QED BY <1>1, <1>2, <1>3, <1>4, <1>5, <1>8, <2>1 DEF Fits, Holders, Waiting
<1> QED BY <1>6, <1>7, <1>8 DEF Register

LEMMA BreakKeeps == ASSUME Protected, IInv, NEW p \in Peers, OnNetworkError(p) PROVE IInv'
<1> USE DEF IInv
<1>1. /\ conn' = conn \ {p} /\ link' = link \ {p} /\ conn # {p} /\ faults' = faults + 1
      /\ faults < MaxBreak /\ UNCHANGED <<queue, cur, blockID, repersist, alive, height>>
  BY DEF OnNetworkError, Protected
<1>2. Node' /\ QuorumStored'
  BY <1>1, SameQuorum, Bounds DEF Node
<1>3. /\ <<>> \in Seq(Message) /\ SentOn(<<>>) /\ SilentOn(<<>>)
      /\ \A h \in 0..MaxBlock : HonestOn(<<>>, h)
  BY DEF SentOn, SilentOn, HonestOn
<1>4. ToPeer'
  <2>1. \A q \in Peers : toPeer'[q] = IF q = p THEN <<>> ELSE toPeer[q]
    BY DEF OnNetworkError, ToPeer
  <2>2. toPeer' \in [Peers -> Seq(Message)]
    BY <1>3 DEF OnNetworkError, ToPeer
  <2> QED BY <1>1, <1>3, <2>1, <2>2 DEF ToPeer, SentOn
<1>5. ToOrder'
  <2>1. \A q \in Peers : toOrder'[q] = IF q = p THEN <<>> ELSE toOrder[q]
    BY DEF OnNetworkError, ToOrder
  <2>2. toOrder' \in [Peers -> Seq(Message)]
    BY <1>3 DEF OnNetworkError, ToOrder
  <2>3. ASSUME NEW q \in Peers
        PROVE  /\ HonestOn(toOrder'[q], height'[q])
               /\ q \notin conn' => SilentOn(toOrder'[q])
               /\ q \notin link' => toOrder'[q] = <<>>
    <3>1. height'[q] = height[q] /\ height[q] \in 0..MaxBlock
      BY <1>1 DEF Node
    <3>2. CASE q = p
      BY <1>3, <2>1, <3>1, <3>2
    <3>3. CASE q # p
      BY <1>1, <2>1, <3>1, <3>3 DEF ToOrder
    <3> QED BY <3>2, <3>3
  <2> QED BY <2>2, <2>3 DEF ToOrder, HonestOn, SilentOn
<1>6. /\ round'.answered = round.answered \ {p} /\ round'.count = round.count
      /\ round'.counted = round.counted /\ round'.resend = round.resend \ {p}
      /\ round' \in [answered : SUBSET conn', count : Nat, counted : SUBSET Peers,
                     resend : SUBSET conn']
  <2>1. /\ round \in [answered : SUBSET conn, count : Nat, counted : SUBSET Peers,
                      resend : SUBSET conn]
        /\ round' = [round EXCEPT !.answered = @ \ {p}, !.resend = @ \ {p}]
    BY DEF Books, OnNetworkError
  <2>2. /\ round'.answered = round.answered \ {p} /\ round'.count = round.count
        /\ round'.counted = round.counted /\ round'.resend = round.resend \ {p}
    BY <2>1
  <2>3. round' \in [answered : SUBSET conn', count : Nat, counted : SUBSET Peers,
                   resend : SUBSET conn']
    <3> DEFINE R == [answered : SUBSET conn, count : Nat, counted : SUBSET Peers,
                     resend : SUBSET conn]
               n == [round EXCEPT !.answered = round.answered \ {p}]
    <3>1. n \in R /\ n.answered = round.answered \ {p} /\ n.resend = round.resend
      BY <2>1
    <3>2. round' = [n EXCEPT !.resend = round.resend \ {p}]
      BY <2>1
    <3>3. round' \in R
      BY <2>1, <3>1, <3>2
    <3> QED BY <1>1, <2>2, <3>3
  <2> QED BY <2>2, <2>3
<1>7. Books(round', conn')
  BY <1>1, <1>6 DEF Books
<1> QED BY <1>1, <1>2, <1>4, <1>5, <1>6, <1>7 DEF Fits, Holders, Waiting

LEMMA ConnectKeeps == ASSUME IInv, NEW p \in Peers, PeerConnect(p) PROVE IInv'
<1> USE DEF IInv
<1>1. /\ p \notin link /\ p \notin conn /\ link' = link \cup {p}
      /\ toOrder' = [toOrder EXCEPT ![p] = Append(@, Regist(height[p]))]
      /\ UNCHANGED <<queue, cur, blockID, conn, round, repersist, alive, toPeer, height, faults>>
  BY DEF PeerConnect, Node
<1>2. /\ toOrder[p] \in Seq(Message) /\ HonestOn(toOrder[p], height[p]) /\ SilentOn(toOrder[p])
      /\ height[p] \in 0..MaxBlock /\ height[p] \in Nat
  BY <1>1, Bounds DEF ToOrder, Node
<1>3. /\ HonestOn(Append(toOrder[p], Regist(height[p])), height[p])
      /\ SilentOn(Append(toOrder[p], Regist(height[p])))
      /\ Append(toOrder[p], Regist(height[p])) \in Seq(Message)
  <2>1. HonestOn(Append(toOrder[p], Regist(height[p])), height[p])
    <3>1. height[p] >= height[p]
      BY <1>2
    <3>2. \A h \in 0..MaxBlock : HonestOn(toOrder[p], h) /\ h >= h =>
                                  HonestOn(Append(toOrder[p], Regist(h)), h)
      BY ONLY HonestMail
    <3> QED BY ONLY <1>2, <3>1, <3>2
  <2>2. SilentOn(Append(toOrder[p], Regist(height[p])))
    BY ONLY <1>2, SilentMail
  <2> QED BY ONLY <2>1, <2>2 DEF HonestOn
<1>4. ToOrder'
  <2>1. \A q \in Peers : toOrder'[q] = IF q = p THEN Append(toOrder[p], Regist(height[p]))
                                                ELSE toOrder[q]
    BY <1>1 DEF ToOrder
  <2>2. toOrder' \in [Peers -> Seq(Message)]
    BY <1>1, <1>3 DEF ToOrder
  <2>3. ASSUME NEW q \in Peers
        PROVE  /\ HonestOn(toOrder'[q], height'[q])
               /\ q \notin conn' => SilentOn(toOrder'[q])
               /\ q \notin link' => toOrder'[q] = <<>>
    BY <1>1, <1>3, <2>1 DEF ToOrder
  <2> QED BY <2>2, <2>3 DEF ToOrder, HonestOn, SilentOn
<1>5. Node' /\ ToPeer' /\ QuorumStored'
  BY <1>1, SameQuorum DEF Node, ToPeer, SentOn
<1> QED BY <1>1, <1>4, <1>5 DEF Fits, Holders, Waiting

\* A registered peer takes its next message and may have more blocks then.
LEMMA PeerRises ==
    ASSUME IInv, NEW p \in Peers, toPeer[p] # <<>>,
           toPeer' = [toPeer EXCEPT ![p] = Tail(@)],
           NEW g \in 0..MaxBlock, g >= height[p], height' = [height EXCEPT ![p] = g],
           NEW m, HonestOn(m, g), toOrder' = [toOrder EXCEPT ![p] = m],
           faults' \in 0..(MaxBreak + MaxFail),
           UNCHANGED <<queue, cur, blockID, conn, round, repersist, alive, link>>
    PROVE  IInv'
<1> USE DEF IInv
<1>1. /\ p \in conn /\ p \in link /\ toPeer[p] \in Seq(Message) /\ SentOn(toPeer[p])
      /\ toPeer \in [Peers -> Seq(Message)] /\ toOrder \in [Peers -> Seq(Message)]
      /\ height \in [Peers -> 0..MaxBlock]
  BY DEF ToPeer, ToOrder, Node
<1>2. ToPeer'
  <2>1. SentOn(Tail(toPeer[p])) /\ Tail(toPeer[p]) \in Seq(Message)
    BY <1>1, SentMail, TailOf
  <2> QED BY <1>1, <2>1 DEF ToPeer, SentOn
<1>3. /\ height' \in [Peers -> 0..MaxBlock]
      /\ \A q \in Peers : height'[q] = IF q = p THEN g ELSE height[q]
  BY <1>1
<1>4. \A q \in Peers : height'[q] >= height[q] /\ height[q] \in Nat /\ height'[q] \in Nat
  BY <1>1, <1>3, Bounds
<1>5. ToOrder'
  <2>1. \A q \in Peers : toOrder'[q] = IF q = p THEN m ELSE toOrder[q]
    BY <1>1
  <2>2. toOrder' \in [Peers -> Seq(Message)]
    BY <1>1 DEF HonestOn
  <2>3. ASSUME NEW q \in Peers
        PROVE  /\ HonestOn(toOrder'[q], height'[q])
               /\ q \notin conn' => SilentOn(toOrder'[q])
               /\ q \notin link' => toOrder'[q] = <<>>
    BY <1>1, <1>3, <2>1 DEF ToOrder
  <2> QED BY <2>2, <2>3 DEF ToOrder, HonestOn, SilentOn
<1>6. Node' /\ QuorumStored'
  BY <1>3, <1>4, QuorumGrows DEF Node
<1>7. Fits(round, queue)'
  <2>1. queue # <<>> => queue[1] \in 1..MaxBlock
    <3>1. queue \in Seq(1..MaxBlock)
      BY DEF Node
    <3> QED BY <3>1, Bounds
  <2> QED BY <1>4, <2>1, Bounds DEF Fits, Holders
<1> QED BY <1>2, <1>5, <1>6, <1>7 DEF Waiting

LEMMA PeerKeeps ==
    ASSUME IInv, NEW p \in Peers, PeerStore(p) \/ PeerStoreFails(p) \/ PeerSync(p)
    PROVE  IInv'
<1> DEFINE b == Head(toPeer[p]).block
           h == height[p]
<1> USE DEF IInv
<1>1. /\ toPeer[p] # <<>> /\ toPeer' = [toPeer EXCEPT ![p] = Tail(@)]
      /\ UNCHANGED <<queue, cur, blockID, conn, round, repersist, alive, link>>
  BY DEF PeerStore, PeerStoreFails, PeerSync
<1>2. /\ b \in 0..MaxBlock /\ b \in Nat /\ h \in 0..MaxBlock /\ h \in Nat /\ h >= h
      /\ HonestOn(toOrder[p], h) /\ toOrder \in [Peers -> Seq(Message)]
      /\ height \in [Peers -> 0..MaxBlock]
  BY <1>1, SentMail, Bounds DEF ToPeer, ToOrder, Node
<1>3. ASSUME height' = height, toOrder' = toOrder, faults' \in 0..(MaxBreak + MaxFail)
      PROVE  IInv'
  <2>1. height' = [height EXCEPT ![p] = h] /\ toOrder' = [toOrder EXCEPT ![p] = toOrder[p]]
    BY <1>2, <1>3
  <2> QED BY <1>1, <1>2, <1>3, <2>1, PeerRises
<1> DEFINE g == IF b > h THEN b ELSE h
<1>4. g \in 0..MaxBlock /\ g >= h /\ b \in 0..g
  BY <1>2
<1>5. ASSUME PeerStore(p) PROVE IInv'
  <2>1. faults' \in 0..(MaxBreak + MaxFail)
    BY <1>5 DEF PeerStore, Node
  <2>2. CASE b <= h + 1
    <3>1. /\ height' = [height EXCEPT ![p] = g]
          /\ toOrder' = [toOrder EXCEPT ![p] = Append(toOrder[p], Ack(b))]
      BY <1>5, <2>2 DEF PeerStore
    <3>2. HonestOn(Append(toOrder[p], Ack(b)), g)
      BY <1>2, <1>4, HonestMail
    <3> HIDE DEF g, h, b
    <3> QED BY <1>1, <1>4, <2>1, <3>1, <3>2, PeerRises DEF h
  <2>3. CASE ~(b <= h + 1)
    BY <1>3, <1>5, <2>1, <2>3 DEF PeerStore
  <2> QED BY <2>2, <2>3
<1>6. ASSUME PeerStoreFails(p) PROVE IInv'
  BY <1>3, <1>6, Bounds DEF PeerStoreFails, Node
<1>7. ASSUME PeerSync(p) PROVE IInv'
  <2>1. faults' \in 0..(MaxBreak + MaxFail)
    BY <1>7 DEF PeerSync, Node
  <2>2. height' = [height EXCEPT ![p] = g]
    BY <1>7 DEF PeerSync
  <2>3. toOrder' = [toOrder EXCEPT ![p] = Append(toOrder[p], Regist(g))]
    BY <1>2, <1>7, <2>2 DEF PeerSync
  <2>4. HonestOn(Append(toOrder[p], Regist(g)), g)
    BY <1>2, <1>4, HonestMail
  <2> HIDE DEF g, h, b
  <2> QED BY <1>1, <1>4, <2>1, <2>2, <2>3, <2>4, PeerRises DEF h
<1> QED BY <1>5, <1>6, <1>7
-----------------------------------------------------------------------------
(* The theorems. *)

\* A distribution starts with an empty queue and a quorum of registered peers.
LEMMA InitHolds == ASSUME Init PROVE IInv
<1>1. /\ conn \in SUBSET Peers /\ Cardinality(conn) >= Kafka /\ link = conn /\ queue = <<>>
      /\ cur = 1 /\ blockID = 0 /\ repersist = FALSE /\ alive = TRUE /\ faults = 0
      /\ round = [answered |-> {}, count |-> 0, counted |-> {}, resend |-> {}]
      /\ toPeer = [p \in Peers |-> <<>>] /\ toOrder = [p \in Peers |-> <<>>]
      /\ height = [p \in Peers |-> 0]
  BY DEF Init
<1>2. conn # {}
  <2> SUFFICES ASSUME conn = {} PROVE FALSE
    OBVIOUS
  <2>1. Cardinality(conn) = 0
    BY FS_EmptySet
  <2> QED BY <1>1, <2>1, Bounds
<1>3. Node
  <2>1. queue \in Seq(1..MaxBlock)
    BY <1>1
  <2>2. /\ cur \in 1..(MaxBlock + 1) /\ blockID \in 0..MaxBlock
        /\ faults \in 0..(MaxBreak + MaxFail)
    BY <1>1, Bounds
  <2>3. height \in [Peers -> 0..MaxBlock]
    BY <1>1, Bounds
  <2> QED BY <1>1, <1>2, <2>1, <2>2, <2>3 DEF Node
<1>4. /\ <<>> \in Seq(Message) /\ SentOn(<<>>) /\ SilentOn(<<>>)
      /\ \A h \in 0..MaxBlock : HonestOn(<<>>, h)
  BY DEF SentOn, SilentOn, HonestOn
<1>5. ToPeer /\ ToOrder
  BY <1>1, <1>4, Bounds DEF ToPeer, ToOrder
<1>6. Books(round, conn) /\ Fits(round, queue) /\ Waiting
  BY <1>1, FS_EmptySet DEF Books, Fits, Waiting
<1>7. QuorumStored
  <2>1. Holders(blockID) = Peers
    BY <1>1 DEF Holders
  <2> QED BY <2>1, Bounds DEF QuorumStored
<1> QED BY <1>3, <1>5, <1>6, <1>7 DEF IInv

\* Every step of the node, the network and the peers keeps the bookkeeping.
THEOREM StepKeeps == ASSUME Protected, IInv, [Next]_vars PROVE IInv'
<1>1. ASSUME UNCHANGED vars PROVE IInv'
  BY <1>1 DEF vars, IInv, Node, ToPeer, ToOrder, SentOn, HonestOn, SilentOn, Books, Fits,
              Waiting, QuorumStored, Holders
<1>2. ASSUME Next PROVE IInv'
  BY <1>2, PackKeeps, RepersistenceKeeps, AckKeeps, ResendKeeps, RegisterKeeps, BreakKeeps,
     ConnectKeeps, PeerKeeps DEF Next
<1> QED BY <1>1, <1>2

\* What the invariant says to a reader.
LEMMA Consequences ==
    ASSUME IInv PROVE TypeOK /\ QuorumStored /\ CountIsHonest /\ TimersHaveBlock
<1> USE DEF IInv
<1>1. TypeOK
  BY DEF Node, ToPeer, ToOrder, Books, TypeOK
<1>2. CountIsHonest
  <2> SUFFICES ASSUME queue # <<>> PROVE round.count <= Cardinality(Holders(queue[1]))
    BY DEF CountIsHonest
  <2>1. /\ Holders(queue[1]) \in SUBSET Peers /\ round.counted \in SUBSET Holders(queue[1])
        /\ round.count = Cardinality(round.counted)
    BY DEF Holders, Fits, Books
  <2> QED BY <2>1, PeerSets
<1>3. TimersHaveBlock
  BY DEF Fits, Waiting, TimersHaveBlock
<1> QED BY <1>1, <1>2, <1>3

\* The bookkeeping of a distribution is sound in every reachable state.
THEOREM DistributionInvariant == Protected /\ Spec => []IInv
<1>1. Init => IInv
  BY InitHolds
<1>2. Protected /\ IInv /\ [Next]_vars => IInv'
  BY StepKeeps
<1>3. Protected => Protected'
  BY DEF Protected
<1> QED BY <1>1, <1>2, <1>3, PTL DEF Spec

\* TypeOK of BlockDistribution, for every number of peers and all bounds.
THEOREM TypeCorrect == Protected /\ Spec => []TypeOK
<1>1. IInv => TypeOK
  BY Consequences
<1> QED BY <1>1, DistributionInvariant, PTL

\* A persisted block is held by at least m_nKafkaValue peers, whatever
\* connections break and whatever is resent (CDistributeBlockXcsCpsRsp's
\* handler and OnTimeRepersistence).
THEOREM StoredByQuorum == Protected /\ Spec => []QuorumStored
<1>1. IInv => QuorumStored
  BY Consequences
<1> QED BY <1>1, DistributionInvariant, PTL

\* m_nDistBlockRspPeerCount never exceeds the peers that hold the front.
THEOREM HonestCount == Protected /\ Spec => []CountIsHonest
<1>1. IInv => CountIsHonest
  BY Consequences
<1> QED BY <1>1, DistributionInvariant, PTL

\* OnTimeDistributeBlock and OnTimeRepersistence never dereference a null
\* front.
THEOREM NoEmptyFront == Protected /\ Spec => []TimersHaveBlock
<1>1. IInv => TimersHaveBlock
  BY Consequences
<1> QED BY <1>1, DistributionInvariant, PTL
=============================================================================
