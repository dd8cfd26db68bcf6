------------------------- MODULE BlockDistribution -------------------------
(***************************************************************************)
(* How a master order node distributes its packed blocks: one block at a   *)
(* time to every registered peer, persisted once m_nKafkaValue answers are *)
(* counted, with resend and re-persistence timers (CChannelProcessService  *)
(* in EN_MASTER_NORMAL_STATE).                                             *)
(*                                                                         *)
(* A block is its id: there is one master, so a peer's hash of a block is  *)
(* the master's and the hash checks of a registration all succeed.  A      *)
(* connection is FIFO and loses messages only by breaking; a peer opens a  *)
(* new one after the order noticed that the old one broke, so the check    *)
(* for a peer id on two handlers never bites.  The persistence of a block  *)
(* is BlockPersistence's; here it succeeds or fails as one step.           *)
(***************************************************************************)
EXTENDS Naturals, Sequences, FiniteSets

CONSTANTS Peers,
          Kafka,       \* m_nKafkaValue, answers a block needs
          MaxBlock,    \* bound: no block above this id is packed
          MaxQueue,    \* bound: m_nMaxCacheBlockNum
          MaxBreak,    \* bound: connections break below this many faults
          MaxFail,     \* bound: peers fail to store below this many faults
          Exposed      \* the events the bookkeeping has no defence against

ASSUME DistributionAssumption ==
    /\ IsFiniteSet(Peers)
    /\ Kafka \in 2..Cardinality(Peers)
    /\ MaxBlock \in Nat /\ MaxQueue \in Nat
    /\ MaxBreak \in Nat /\ MaxFail \in Nat
    /\ Exposed \subseteq
         {"countedPeerReturns", "lastPeerLeaves", "mailDuringRepersist"}

VARIABLES
    \* the order node
    queue,      \* m_queueBlockInfo, block ids
    cur,        \* m_pCurBlockInfo->m_nBlockID
    blockID,    \* m_pConfig->m_nBlockID
    conn,       \* m_arrCsConnectHandler, registered peers
    round,      \* answer flags, answer count and resend timers of the handlers
    repersist,  \* the re-persistence timer is armed
    alive,      \* no null front was dereferenced
    \* the network and the peers
    link,       \* peers with an open connection
    toPeer,     \* what is under way to each peer
    toOrder,    \* what is under way from each peer
    height,     \* the last block each peer holds
    faults      \* broken connections and failed stores so far

vars == <<queue, cur, blockID, conn, round, repersist, alive,
          link, toPeer, toOrder, height, faults>>

Message == [type : {"dist", "sync", "ack", "regist"}, block : Nat]
Dist(b)   == [type |-> "dist",   block |-> b]
Sync(b)   == [type |-> "sync",   block |-> b]
Ack(b)    == [type |-> "ack",    block |-> b]
Regist(b) == [type |-> "regist", block |-> b]

\* m_queueBlockInfo.Front(), null when the queue is empty.
NULL  == 0
Front == IF queue = <<>> THEN NULL ELSE queue[1]

\* A peer has block b when it holds every block up to b.
Holders(b) == {p \in Peers : height[p] >= b}

\* Enough peers are registered when the node becomes a serving master.
\* counted is history: the peers the count stands for.
Init ==
    /\ queue = <<>> /\ cur = 1 /\ blockID = 0
    /\ conn \in {S \in SUBSET Peers : Cardinality(S) >= Kafka}
    /\ round = [answered |-> {}, count |-> 0, counted |-> {}, resend |-> {}]
    /\ repersist = FALSE /\ alive = TRUE
    /\ link = conn
    /\ toPeer  = [p \in Peers |-> <<>>]
    /\ toOrder = [p \in Peers |-> <<>>]
    /\ height  = [p \in Peers |-> 0]
    /\ faults = 0
-----------------------------------------------------------------------------
(* Distribution *)

\* The handlers in ps are sent the front of the queue q.
SendFront(ps, q) ==
    toPeer' = [p \in Peers |-> IF p \in ps THEN Append(toPeer[p], Dist(q[1]))
                                           ELSE toPeer[p]]

\* Mutant: the answers of the last block still count.
DistributeBlockKeepingCount(q, r) ==
    IF conn # {} /\ q # <<>>
    THEN /\ round' = [r EXCEPT !.answered = @ \ conn, !.resend = @ \cup conn]
         /\ SendFront(conn, q)
    ELSE /\ round' = r
         /\ UNCHANGED toPeer

\* DistributeBlock, with the queue q and the bookkeeping r as its caller left
\* them.  With no peer registered nothing happens: the count is not cleared.
DistributeBlock(q, r) ==
    IF conn # {} /\ q # <<>>
    THEN /\ round' = [answered |-> r.answered \ conn, count |-> 0,
                      counted |-> {}, resend |-> r.resend \cup conn]
         /\ SendFront(conn, q)
    ELSE /\ round' = r
         /\ UNCHANGED toPeer

\* OnTimePackBlock with transactions in the current block; only an empty
\* queue means that no distribution is under way.
Pack ==
    /\ alive
    /\ cur <= MaxBlock /\ Len(queue) < MaxQueue
    /\ queue' = Append(queue, cur)
    /\ cur' = cur + 1
    /\ IF queue = <<>> THEN DistributeBlock(queue', round)
                       ELSE UNCHANGED <<round, toPeer>>
    /\ UNCHANGED <<blockID, conn, repersist, alive, link, toOrder,
                   height, faults>>

\* PersistentBlockQueueHeader succeeds; the next block goes out.
PersistAndDistribute(r) ==
    /\ blockID' = queue[1]
    /\ queue' = Tail(queue)
    /\ DistributeBlock(queue', r)

\* A message from peer p is handled.
Receive(p, type) ==
    /\ alive
    /\ toOrder[p] # <<>> /\ Head(toOrder[p]).type = type
    /\ toOrder' = [toOrder EXCEPT ![p] = Tail(@)]

\* While the node waits to persist the front again, answers are counted and
\* peers are registered as ever.
Undisturbed == repersist => "mailDuringRepersist" \in Exposed

\* The answer is for the front, and the handler's first.
Counts(p) == Front # NULL /\ Head(toOrder[p]).block = Front /\ p \notin round.answered

\* The handler's flag is set and the answer counted.
Counted(p) == [round EXCEPT !.answered = @ \cup {p}, !.count = @ + 1,
                            !.counted = @ \cup {p}]

AckIgnored(p) ==
    /\ Receive(p, "ack") /\ ~Counts(p)
    /\ UNCHANGED <<queue, cur, blockID, conn, round, repersist, alive,
                   link, toPeer, height, faults>>

\* Below the quorum the handler's own resend timer is cancelled.
AckCounted(p) ==
    /\ Receive(p, "ack") /\ Counts(p)
    /\ round.count + 1 < Kafka
    /\ round' = [Counted(p) EXCEPT !.resend = @ \ {p}]
    /\ UNCHANGED <<queue, cur, blockID, conn, repersist, alive,
                   link, toPeer, height, faults>>

\* Mutant: only the answering handler's timer is cancelled.
QuorumTimersKept(p) == [Counted(p) EXCEPT !.resend = @ \ {p}]

\* With the quorum all resend timers are cancelled.
Quorum(p) == [Counted(p) EXCEPT !.resend = @ \ conn]

\* Mutant: one answer less is enough.
AckPersistsOneEarly(p) ==
    /\ Receive(p, "ack") /\ Counts(p)
    /\ round.count + 2 >= Kafka /\ Undisturbed
    /\ PersistAndDistribute(Quorum(p))
    /\ UNCHANGED <<cur, conn, repersist, alive, link, height, faults>>

AckPersists(p) ==
    /\ Receive(p, "ack") /\ Counts(p)
    /\ round.count + 1 >= Kafka /\ Undisturbed
    /\ PersistAndDistribute(Quorum(p))
    /\ UNCHANGED <<cur, conn, repersist, alive, link, height, faults>>

\* The persistence fails: the block stays and the timer retries.
AckPersistFails(p) ==
    /\ Receive(p, "ack") /\ Counts(p)
    /\ round.count + 1 >= Kafka /\ Undisturbed
    /\ round' = Quorum(p)
    /\ repersist' = TRUE
    /\ UNCHANGED <<queue, cur, blockID, conn, alive, link, toPeer, height, faults>>

\* OnTimeRepersistence succeeds; a retry that fails changes nothing.  A null
\* front is dereferenced.
OnTimeRepersistence ==
    /\ alive /\ repersist
    /\ alive' = (Front # NULL)
    /\ IF Front # NULL
       THEN PersistAndDistribute(round) /\ repersist' = FALSE
       ELSE UNCHANGED <<queue, blockID, round, toPeer, repersist>>
    /\ UNCHANGED <<cur, conn, link, toOrder, height, faults>>

\* OnTimeDistributeBlock: the timer fires once and is not armed again.
OnTimeDistributeBlock(p) ==
    /\ alive /\ p \in round.resend
    /\ alive' = (Front # NULL)
    /\ round' = [round EXCEPT !.resend = @ \ {p}]
    /\ IF Front # NULL THEN SendFront({p}, queue) ELSE UNCHANGED toPeer
    /\ UNCHANGED <<queue, cur, blockID, conn, repersist, link, toOrder,
                   height, faults>>
-----------------------------------------------------------------------------
(* Connections *)

\* A counted peer comes back: its next answer counts again.
Returns(p) == p \in round.counted => "countedPeerReturns" \in Exposed

\* Mutant: a peer that registers is only served from the next block on.
RegisterWithoutFront(p) ==
    LET h == Head(toOrder[p]).block IN
    /\ Receive(p, "regist") /\ Returns(p) /\ Undisturbed
    /\ conn' = conn \cup {p}
    /\ IF h < blockID
       THEN toPeer' = [toPeer EXCEPT ![p] = Append(@, Sync(blockID))]
       ELSE UNCHANGED toPeer
    /\ UNCHANGED <<queue, cur, blockID, round, repersist, alive, link, height, faults>>

\* CRegistCsCpsReq of a new or a known handler: a peer that is behind is told
\* to synchronise, any other is sent the front and has its flag cleared.
Register(p) ==
    LET h == Head(toOrder[p]).block IN
    /\ Receive(p, "regist") /\ Returns(p) /\ Undisturbed
    /\ conn' = conn \cup {p}
    /\ IF h < blockID
       THEN /\ toPeer' = [toPeer EXCEPT ![p] = Append(@, Sync(blockID))]
            /\ UNCHANGED round
       ELSE IF Front # NULL /\ h <= Front
       THEN /\ SendFront({p}, queue)
            /\ round' = [round EXCEPT !.answered = @ \ {p}, !.resend = @ \cup {p}]
       ELSE UNCHANGED <<toPeer, round>>
    /\ UNCHANGED <<queue, cur, blockID, repersist, alive, link, height, faults>>

\* Mutant: the handler's timer outlives it.
OnNetworkErrorTimerKept(p) ==
    /\ alive /\ p \in link /\ faults < MaxBreak
    /\ conn = {p} => "lastPeerLeaves" \in Exposed
    /\ conn' = conn \ {p} /\ link' = link \ {p}
    /\ round' = [round EXCEPT !.answered = @ \ {p}]
    /\ toPeer'  = [toPeer  EXCEPT ![p] = <<>>]
    /\ toOrder' = [toOrder EXCEPT ![p] = <<>>]
    /\ faults' = faults + 1
    /\ UNCHANGED <<queue, cur, blockID, repersist, alive, height>>

\* A connection breaks with all that is under way on it, and OnNetworkError
\* erases the handler, its timer and its flag, but not what it counted.
OnNetworkError(p) ==
    /\ alive /\ p \in link /\ faults < MaxBreak
    /\ conn = {p} => "lastPeerLeaves" \in Exposed
    /\ conn' = conn \ {p} /\ link' = link \ {p}
    /\ round' = [round EXCEPT !.answered = @ \ {p}, !.resend = @ \ {p}]
    /\ toPeer'  = [toPeer  EXCEPT ![p] = <<>>]
    /\ toOrder' = [toOrder EXCEPT ![p] = <<>>]
    /\ faults' = faults + 1
    /\ UNCHANGED <<queue, cur, blockID, repersist, alive, height>>

\* External: a peer without a connection opens one and registers.
PeerConnect(p) ==
    /\ p \notin link
    /\ link' = link \cup {p}
    /\ toOrder' = [toOrder EXCEPT ![p] = Append(@, Regist(height[p]))]
    /\ UNCHANGED <<queue, cur, blockID, conn, round, repersist, alive,
                   toPeer, height, faults>>

\* External: a peer stores a block that follows what it holds and answers
\* for every block it holds.
PeerStore(p) ==
    /\ toPeer[p] # <<>> /\ Head(toPeer[p]).type = "dist"
    /\ LET b == Head(toPeer[p]).block IN
       IF b <= height[p] + 1
       THEN /\ height' = [height EXCEPT ![p] = IF b > @ THEN b ELSE @]
            /\ toOrder' = [toOrder EXCEPT ![p] = Append(@, Ack(b))]
       ELSE UNCHANGED <<height, toOrder>>
    /\ toPeer' = [toPeer EXCEPT ![p] = Tail(@)]
    /\ UNCHANGED <<queue, cur, blockID, conn, round, repersist, alive, link, faults>>

\* External: storing fails, and there is no answer.
PeerStoreFails(p) ==
    /\ toPeer[p] # <<>> /\ Head(toPeer[p]).type = "dist" /\ faults < MaxFail
    /\ toPeer' = [toPeer EXCEPT ![p] = Tail(@)]
    /\ faults' = faults + 1
    /\ UNCHANGED <<queue, cur, blockID, conn, round, repersist, alive,
                   link, toOrder, height>>

\* External: a peer that is behind fetches the blocks from another peer that
\* holds them and registers again.
PeerSync(p) ==
    /\ toPeer[p] # <<>> /\ Head(toPeer[p]).type = "sync"
    /\ LET b == Head(toPeer[p]).block IN
       /\ Holders(b) # {}
       /\ height' = [height EXCEPT ![p] = IF b > @ THEN b ELSE @]
       /\ toOrder' = [toOrder EXCEPT ![p] = Append(@, Regist(height'[p]))]
    /\ toPeer' = [toPeer EXCEPT ![p] = Tail(@)]
    /\ UNCHANGED <<queue, cur, blockID, conn, round, repersist, alive, link, faults>>
-----------------------------------------------------------------------------
HandleAck(p) ==
    AckIgnored(p) \/ AckCounted(p) \/ AckPersists(p) \/ AckPersistFails(p)

Next ==
    \/ Pack \/ OnTimeRepersistence
    \/ \E p \in Peers :
         \/ HandleAck(p) \/ OnTimeDistributeBlock(p)
         \/ Register(p) \/ OnNetworkError(p)
         \/ PeerConnect(p) \/ PeerStore(p) \/ PeerStoreFails(p) \/ PeerSync(p)

\* Messages that arrived are handled, timers fire, a write that is retried
\* succeeds in the end, and peers store, answer and come back.  Nothing has to
\* be packed, to break or to fail.
Fairness ==
    /\ WF_vars(OnTimeRepersistence)
    /\ \A p \in Peers :
         /\ WF_vars(HandleAck(p) \/ Register(p))
         /\ WF_vars(OnTimeDistributeBlock(p))
         /\ WF_vars(PeerStore(p) \/ PeerSync(p) \/ PeerConnect(p))

Spec == Init /\ [][Next]_vars /\ Fairness
-----------------------------------------------------------------------------
TypeOK ==
    /\ queue \in Seq(1..MaxBlock)
    /\ cur \in 1..(MaxBlock + 1)
    /\ blockID \in 0..MaxBlock
    /\ conn \subseteq link /\ link \subseteq Peers
    /\ round \in [answered : SUBSET conn, count : Nat,
                  counted : SUBSET Peers, resend : SUBSET conn]
    /\ repersist \in BOOLEAN /\ alive \in BOOLEAN
    /\ toPeer \in [Peers -> Seq(Message)]
    /\ toOrder \in [Peers -> Seq(Message)]
    /\ height \in [Peers -> 0..MaxBlock]
    /\ faults \in 0..(MaxBreak + MaxFail)

\* A block is only persisted, and with it final, when at least m_nKafkaValue
\* peers hold it: "more peers than the threshold have sent their answer" in
\* the handler of CDistributeBlockXcsCpsRsp.
QuorumStored == Cardinality(Holders(blockID)) >= Kafka

\* While a block is under way the count never exceeds the peers that hold it
\* (m_nDistBlockRspPeerCount against m_bRecvDistBlockRsp of the handlers).
CountIsHonest == queue # <<>> => round.count <= Cardinality(Holders(queue[1]))

\* A timer that fires finds a block at the front: OnTimeDistributeBlock and
\* OnTimeRepersistence dereference it unchecked.
TimersHaveBlock == round.resend # {} \/ repersist => queue # <<>>

\* A packed block is persisted in the end, whatever connections broke on the
\* way: the distribution drives itself (OnTimePackBlock, comment in line 306).
PackedIsPersisted == \A b \in 1..MaxBlock : cur > b ~> blockID >= b
=============================================================================
