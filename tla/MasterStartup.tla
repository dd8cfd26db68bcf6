--------------------------- MODULE MasterStartup ---------------------------
(***************************************************************************)
(* How an order node that was elected becomes a serving master: peers      *)
(* register, the node asks them for their highest block, chooses the       *)
(* highest that m_nKafkaValue peers hold, tells the others to drop or to   *)
(* fetch blocks, fetches what it misses itself, and serves                 *)
(* (CChannelProcessService from EN_FOLLOWER_STATE to                       *)
(* EN_MASTER_NORMAL_STATE).                                                *)
(*                                                                         *)
(* A block stands for the chain it ends: the sequence of the contents up   *)
(* to it.  Its length is the block id, and two blocks have the same hash   *)
(* when their chains are equal.  Packing, distributing and persisting are  *)
(* TransactionPacking's, BlockDistribution's and BlockPersistence's; here  *)
(* a serving master has one block under way at a time.  A connection is    *)
(* FIFO and loses messages only by breaking.  A restart of the order node  *)
(* leads to an initial state.                                              *)
(***************************************************************************)
EXTENDS Naturals, FiniteSets, SequencesExt

CONSTANTS Peers,
          Kafka,       \* m_nKafkaValue
          Contents,    \* contents of a block
          Histories,   \* chains persisted before
          MaxBlock,    \* bound: no block above this id is packed
          MaxMail,     \* bound: mail of a peer when the sync timer asks it again
          MaxFault,    \* bound: broken connections, failed reads and stores, lost terms
          Exposed      \* the events the start has no defence against

Chains == UNION {[1..n -> Contents] : n \in 0..MaxBlock}

ASSUME StartupAssumption ==
    /\ IsFiniteSet(Peers)
    /\ Kafka \in 2..Cardinality(Peers)
    /\ MaxBlock \in Nat /\ MaxMail \in Nat /\ MaxFault \in Nat
    /\ Histories \subseteq Chains
    /\ Exposed \subseteq {"lateAnswer", "otherMaster", "secondTerm", "groupLeaves",
                          "staleCurrent", "storeFails", "wildIndex"}

VARIABLES
    \* the order node
    state,      \* m_nCpsState
    leads,      \* CPAS is the leader
    conn,       \* m_arrCsConnectHandler: registered peer -> its chain then
    vec,        \* m_vecPeerInfo: peer that answered -> its chain then
    stale,      \* peers whose handle in m_vecPeerInfo has gone
    target,     \* m_orderSyncSession: block id and hash to reach
    timer,      \* the timer of m_orderSyncSession is armed
    dirty,      \* a store that failed left the versions of its block behind
    chain,      \* m_pConfig: block id and hash
    cur,        \* m_pCurBlockInfo->m_nBlockID, NULL without one
    out,        \* the block under way, <<>> if there is none
    alive,      \* no assertion failed, no null handler was used
    \* the network and the peers
    link,       \* peers with an open connection
    toPeer,     \* what is under way to each peer
    toOrder,    \* what is under way from each peer
    held,       \* the chain each peer holds
    persisted,  \* the longest chain an order node persisted
    faults      \* faults so far

role   == <<state, leads, target, timer, dirty>>
known  == <<conn, vec, stale>>
blocks == <<chain, cur, out, persisted>>
vars   == <<role, known, blocks, alive, link, toPeer, toOrder, held, faults>>

NULL == 0

Message == [type : {"query", "backspace", "sync", "get", "regist", "max", "table"},
            id : 0..MaxBlock, chain : Chains]
Query        == [type |-> "query",     id |-> 0, chain |-> <<>>]
Backspace(n) == [type |-> "backspace", id |-> n, chain |-> <<>>]
SyncTo(c)    == [type |-> "sync",      id |-> Len(c), chain |-> c]
Get(n)       == [type |-> "get",       id |-> n, chain |-> <<>>]
Regist(c)    == [type |-> "regist",    id |-> Len(c), chain |-> c]
Answer(c)    == [type |-> "max",       id |-> Len(c), chain |-> c]
Table(n, c)  == [type |-> "table",     id |-> n, chain |-> c]

\* Peers that hold chain c.
Holders(c) == {p \in Peers : IsPrefix(c, held[p])}

\* A peer holds persisted blocks, and at most one more that a master sent it
\* behind them and that may never have come to be persisted.
Init ==
    /\ persisted \in Histories
    /\ held \in [Peers -> {c \in Chains : IsPrefix(Front(c), persisted)}]
    /\ Cardinality(Holders(persisted)) >= Kafka
    /\ chain \in Prefixes(persisted)
    /\ cur = Len(chain) + 1 /\ out = <<>>
    /\ state = "follower" /\ leads = FALSE
    /\ conn = <<>> /\ vec = <<>> /\ stale = {}
    /\ target = <<>> /\ timer = FALSE /\ dirty = FALSE /\ alive = TRUE
    /\ link = {}
    /\ toPeer  = [p \in Peers |-> <<>>]
    /\ toOrder = [p \in Peers |-> <<>>]
    /\ faults = 0
-----------------------------------------------------------------------------
\* Each peer p in the domain of f is sent f[p].
Sent(mail, f) == [p \in Peers |-> IF p \in DOMAIN f THEN Append(mail[p], f[p])
                                                    ELSE mail[p]]
Send(f)         == toPeer' = Sent(toPeer, f)
SendTwice(f, g) == toPeer' = Sent(Sent(toPeer, f), g)
Nothing == [p \in {} |-> Query]
One(p, m) == [q \in {p} |-> m]

Set(f, p, c) == [q \in DOMAIN f \cup {p} |-> IF q = p THEN c ELSE f[q]]
Without(f, S) == [q \in DOMAIN f \ S |-> f[q]]

\* The next message from peer p is handled.
Receive(p, type) ==
    /\ alive
    /\ toOrder[p] # <<>> /\ Head(toOrder[p]).type = type
    /\ toOrder' = [toOrder EXCEPT ![p] = Tail(@)]

QueryAll == Send([p \in DOMAIN conn' |-> Query])

\* ChangeCpsToMasterState.
BecomeMaster ==
    /\ alive /\ ~leads
    /\ state # "follower" => "secondTerm" \in Exposed
    /\ leads' = TRUE
    /\ UNCHANGED <<target, timer, dirty, known, blocks, alive, link, toOrder, held, faults>>
    /\ IF Cardinality(DOMAIN conn) >= Kafka THEN state' = "start" /\ QueryAll
                                            ELSE state' = "wait" /\ UNCHANGED toPeer

\* ChangeCpsToFollowerState frees the current block and the queue; the state
\* and what the peers answered stay.
StepDown ==
    /\ alive /\ leads /\ faults < MaxFault
    /\ leads' = FALSE
    /\ timer' = FALSE
    /\ cur' = NULL /\ out' = <<>>
    /\ faults' = faults + 1
    /\ UNCHANGED <<state, target, dirty, known, chain, persisted, alive, link,
                   toPeer, toOrder, held>>
-----------------------------------------------------------------------------
(* Registration *)

\* GetRegistPeerHandler: handlers registered with chain c.
Registered(c) == {p \in DOMAIN conn' : conn'[p] = c}

\* While the node synchronises, a peer is led to the target.
SyncStateReply(p, tip) ==
    IF Len(tip) > Len(target) THEN One(p, Backspace(Len(target)))
    ELSE IF tip # target /\ Registered(target) # {} THEN One(p, SyncTo(target))
    ELSE Nothing

\* A peer at the target's height with another hash: the handler to fetch from
\* is used unchecked.
SyncStateSafe(tip) ==
    Len(tip) = Len(target) /\ tip # target => Registered(target) # {}

\* A serving master leads a peer to its own blocks.  A peer that may get the
\* block under way gets it (Deliver).
NormalStateReply(p, tip) ==
    IF Len(tip) < Len(chain) THEN One(p, SyncTo(chain))
    ELSE IF Len(tip) = Len(chain) + 1 /\ tip # out THEN One(p, Backspace(Len(chain)))
    ELSE IF Len(tip) = Len(chain) /\ tip # chain THEN One(p, Backspace(Len(chain) - 1))
    ELSE Nothing

\* OnHtsMsg(CRegistCsCpsReq).
Register(p) ==
    LET tip == Head(toOrder[p]).chain IN
    /\ Receive(p, "regist")
    /\ conn' = Set(conn, p, tip)
    /\ \/ /\ state = "follower"
          /\ UNCHANGED <<state, toPeer, alive>>
       \/ /\ state = "wait" /\ UNCHANGED alive
          /\ IF Cardinality(DOMAIN conn') >= Kafka
             THEN state' = "start" /\ QueryAll
             ELSE UNCHANGED <<state, toPeer>>
       \/ /\ state = "start"
          /\ Send(One(p, Query))
          /\ UNCHANGED <<state, alive>>
       \/ /\ state = "sync"
          /\ Send(SyncStateReply(p, tip))
          /\ alive' = SyncStateSafe(tip)
          /\ UNCHANGED state
       \/ /\ state = "normal"
          /\ Send(NormalStateReply(p, tip))
          /\ UNCHANGED <<state, alive>>
    /\ UNCHANGED <<leads, target, timer, dirty, vec, stale, blocks, link, held, faults>>

\* Mutant: the handler outlives its connection.
OnNetworkErrorHandlerKept(p) ==
    /\ alive /\ p \in link /\ faults < MaxFault
    /\ stale' = stale \cup ({p} \cap DOMAIN vec)
    /\ link' = link \ {p}
    /\ toPeer'  = [toPeer  EXCEPT ![p] = <<>>]
    /\ toOrder' = [toOrder EXCEPT ![p] = <<>>]
    /\ faults' = faults + 1
    /\ UNCHANGED <<role, conn, vec, blocks, alive, held>>

\* A connection breaks with all that is under way on it.  It may be the last one
\* to a peer that registered with the target of the synchronisation.
OnNetworkError(p) ==
    /\ alive /\ p \in link /\ faults < MaxFault
    /\ conn' = Without(conn, {p})
    /\ state = "sync" /\ Registered(target) = {} => "groupLeaves" \in Exposed
    /\ stale' = stale \cup ({p} \cap DOMAIN vec)
    /\ link' = link \ {p}
    /\ toPeer'  = [toPeer  EXCEPT ![p] = <<>>]
    /\ toOrder' = [toOrder EXCEPT ![p] = <<>>]
    /\ faults' = faults + 1
    /\ UNCHANGED <<role, vec, blocks, alive, held>>
-----------------------------------------------------------------------------
(* The answers to the query: OnHtsMsg(CQueryMaxBlockInfoCsCpsRsp), which is *)
(* the same in every state.                                                 *)

Group(w, t) == {p \in DOMAIN w : w[p] = t}

\* Mutant: lower blocks are considered too.
MostHeld(w) ==
    LET all == {w[p] : p \in DOMAIN w}
    IN  {t \in all : \A u \in all :
                        Cardinality(Group(w, u)) <= Cardinality(Group(w, t))}

\* GetTheMostBlockHeightInfo: of the highest blocks, one that most peers hold.
MostHeight(w) ==
    LET highest == {w[p] : p \in {q \in DOMAIN w :
                                   \A r \in DOMAIN w : Len(w[r]) <= Len(w[q])}}
    IN  {t \in highest : \A u \in highest :
                           Cardinality(Group(w, u)) <= Cardinality(Group(w, t))}

\* A peer's first answer is recorded; others are dropped.
AnswerDropped(p) ==
    /\ Receive(p, "max") /\ p \in DOMAIN vec
    /\ UNCHANGED <<role, known, blocks, alive, link, toPeer, held, faults>>

FirstAnswer(p) ==
    /\ Receive(p, "max") /\ p \notin DOMAIN vec
    /\ vec' = Set(vec, p, Head(toOrder[p]).chain)
    /\ UNCHANGED <<leads, dirty, stale, blocks, link, held, faults>>

\* Mutant: one peer less is enough.
AgreedOneEarly(w, t) == Cardinality(Group(w, t)) + 1 >= Kafka

\* Enough peers hold block t.
Agreed(w, t) == Cardinality(Group(w, t)) >= Kafka

\* Mutant: the peers that have not answered yet are forgotten.
HopelessTooSoon(w, t) == Cardinality(Group(w, t)) < Kafka

\* Even with every peer that has not answered, too few hold block t.
Hopeless(w, t) ==
    (Cardinality(Peers) - Cardinality(DOMAIN w)) + Cardinality(Group(w, t)) < Kafka

AnswerCounted(p) ==
    /\ FirstAnswer(p)
    /\ \/ Cardinality(DOMAIN vec') < Kafka
       \/ \E t \in MostHeight(vec') : ~Agreed(vec', t) /\ ~Hopeless(vec', t)
    /\ UNCHANGED <<state, conn, target, timer, alive, toPeer>>

\* SendSyncBlockNotifyMsg: every peer outside the group is sent to fetch t.
NotifyOthers(t) ==
    [q \in DOMAIN vec' \ (Group(vec', t) \cup stale) |-> SyncTo(t)]

\* The node has the chosen block, or (the branch that "cannot occur") a later
\* one.
ChooseOwn(p) ==
    /\ FirstAnswer(p) /\ Cardinality(DOMAIN vec') >= Kafka
    /\ \E t \in MostHeight(vec') :
         /\ Agreed(vec', t) /\ Len(chain) >= Len(t)
         /\ Send(NotifyOthers(t))
         /\ state' = IF Len(chain) = Len(t) THEN "normal" ELSE state
    /\ UNCHANGED <<conn, target, timer, alive>>

\* Mutant: the timer is not armed.
ChooseLaterUntimed(p) ==
    /\ FirstAnswer(p) /\ Cardinality(DOMAIN vec') >= Kafka
    /\ \E t \in MostHeight(vec') :
         /\ Agreed(vec', t) /\ Len(chain) < Len(t)
         /\ \E src \in Group(vec', t) :
              IF src \in stale
              THEN Send(NotifyOthers(t)) /\ UNCHANGED <<state, target, timer>>
              ELSE /\ Send(Set(NotifyOthers(t), src, Get(Len(chain) + 1)))
                   /\ state' = "sync" /\ target' = t /\ UNCHANGED timer
    /\ UNCHANGED <<conn, alive>>

\* The node fetches the next block from a peer of the group; with a handle
\* that has gone nothing starts.
ChooseLater(p) ==
    /\ FirstAnswer(p) /\ Cardinality(DOMAIN vec') >= Kafka
    /\ \E t \in MostHeight(vec') :
         /\ Agreed(vec', t) /\ Len(chain) < Len(t)
         /\ \E src \in Group(vec', t) :
              IF src \in stale
              THEN Send(NotifyOthers(t)) /\ UNCHANGED <<state, target, timer>>
              ELSE /\ Send(Set(NotifyOthers(t), src, Get(Len(chain) + 1)))
                   /\ state' = "sync" /\ target' = t /\ timer' = TRUE
    /\ UNCHANGED <<conn, alive>>

\* The highest block cannot be agreed on.  Peers above its predecessor drop
\* blocks and are erased from the handlers.  For a peer below it the handler at
\* the peer's place among the answers (line 922) is sent to fetch it: `inside`
\* are those places, counted from the end, that the shortened list still has.
\* Behind its end any handler that was in the list may be found, or none that
\* can be sent to, or what ends the process.
BackspacePeers(p) ==
    /\ FirstAnswer(p) /\ Cardinality(DOMAIN vec') >= Kafka
    /\ \E t \in MostHeight(vec') :
         LET base   == Front(t)
             above  == {q \in DOMAIN vec' \ stale : Len(vec'[q]) > Len(base)}
             below  == {q \in DOMAIN vec' : Len(vec'[q]) < Len(base)}
             rest   == DOMAIN conn \ above
             inside == {i \in 1..Cardinality(below) :
                           Cardinality(DOMAIN vec') - i < Cardinality(rest)}
         IN
         /\ ~Agreed(vec', t) /\ Hopeless(vec', t)
         /\ alive' \in BOOLEAN
         /\ IF Len(chain) > Len(base) THEN ~alive' /\ UNCHANGED <<conn, toPeer>>
            ELSE
            /\ conn' = Without(conn, above)
            /\ state = "sync" /\ Registered(target) = {} => "groupLeaves" \in Exposed
            /\ \E hit \in SUBSET rest, wild \in SUBSET (rest \cup (DOMAIN vec' \ stale)) :
                 /\ Cardinality(hit) = Cardinality(inside)
                 /\ Cardinality(wild) <= Cardinality(below) - Cardinality(inside)
                 /\ SendTwice([q \in above |-> Backspace(Len(base))],
                              [q \in hit \cup wild |-> SyncTo(base)])
            /\ ~alive' => inside # 1..Cardinality(below) /\ "wildIndex" \in Exposed
    /\ UNCHANGED <<state, target, timer>>
-----------------------------------------------------------------------------
(* Synchronisation of the order node *)

Longest(c) == IF Len(c) > Len(persisted) THEN c ELSE persisted

Expected(p) == state = "sync" /\ Head(toOrder[p]).id = Len(chain) + 1

TableIgnored(p) ==
    /\ Receive(p, "table") /\ ~Expected(p)
    /\ UNCHANGED <<role, known, blocks, alive, link, toPeer, held, faults>>

\* The next block is stored: the target is reached or another is requested.
TableStored(p) ==
    LET c == Head(toOrder[p]).chain IN
    /\ Receive(p, "table") /\ Expected(p) /\ c # <<>>
    /\ chain' = c
    /\ persisted' = Longest(c)
    /\ IF Len(c) = Len(target)
       THEN state' = "normal" /\ timer' = FALSE /\ UNCHANGED toPeer
       ELSE Send(One(p, Get(Len(c) + 1))) /\ UNCHANGED <<state, timer>>
    /\ UNCHANGED <<leads, target, dirty, known, cur, out, alive, link, held, faults>>

\* The peer does not have the block, or a read of the check fails: it is
\* requested again.  A failing update, append or store leaves what it has changed
\* in the table, and from then on the check may refuse the block.
TableNotStored(p) ==
    /\ Receive(p, "table") /\ Expected(p)
    /\ \/ /\ Head(toOrder[p]).chain = <<>> \/ dirty
          /\ UNCHANGED <<dirty, faults>>
       \/ /\ Head(toOrder[p]).chain # <<>> /\ faults < MaxFault
          /\ faults' = faults + 1
          /\ dirty' \in BOOLEAN
          /\ dirty' # dirty => dirty' /\ "storeFails" \in Exposed
    /\ Send(One(p, Get(Len(chain) + 1)))
    /\ UNCHANGED <<state, leads, target, timer, known, blocks, alive, link, held>>

\* OnSyncTimeOut; the timer is periodic.  Without a handler that registered
\* with the target nothing is sent.
OnSyncTimeOut ==
    /\ alive /\ timer
    /\ \E p \in DOMAIN conn :
         /\ conn[p] = target /\ Len(toPeer[p]) + Len(toOrder[p]) < MaxMail
         /\ Send(One(p, Get(Len(chain) + 1)))
    /\ UNCHANGED <<role, known, blocks, alive, link, toOrder, held, faults>>
-----------------------------------------------------------------------------
(* Service *)

\* OnTimePackBlock.  The block has the id of the current block, which is that of
\* the process start: synchronising does not raise it.  The hash covers the
\* time: nobody holds the block yet.  A node that stepped down has no current
\* block, and a submission ends its process.
Pack ==
    /\ alive /\ state = "normal" /\ out = <<>>
    /\ cur # NULL /\ cur <= MaxBlock
    /\ cur # Len(chain) + 1 => "staleCurrent" \in Exposed
    /\ \E c \in Contents : out' = Append(SubSeq(chain, 1, cur - 1), c)
    /\ Holders(out') = {}
    /\ cur' = cur + 1
    /\ UNCHANGED <<role, known, chain, persisted, alive, link, toPeer, toOrder,
                   held, faults>>

\* DistributeBlock: a registered peer that is ready for the block stores it.
Deliver(p) ==
    /\ alive /\ out # <<>>
    /\ p \in DOMAIN conn /\ toPeer[p] = <<>> /\ held[p] = Front(out)
    /\ held' = [held EXCEPT ![p] = out]
    /\ UNCHANGED <<role, known, blocks, alive, link, toPeer, toOrder, faults>>

\* A query, or the answer to it, is under way.
Asked(p) == \/ \E i \in DOMAIN toPeer[p]  : toPeer[p][i].type = "query"
            \/ \E i \in DOMAIN toOrder[p] : toOrder[p][i].type = "max"

\* A peer that is past the id of the block takes it for one sent again.
Repeated(p) == Len(out) <= Len(chain) /\ Len(held[p]) >= Len(out)

\* PersistentBlockQueueHeader, when enough answers have arrived: they come
\* behind what else is under way.
Persist ==
    /\ alive /\ out # <<>>
    /\ Cardinality({p \in DOMAIN conn : /\ held[p] = out \/ Repeated(p)
                                       /\ toOrder[p] = <<>>}) >= Kafka
    /\ (\E p \in Peers \ DOMAIN vec : Asked(p)) => "lateAnswer" \in Exposed
    /\ chain' = out /\ persisted' = Longest(out)
    /\ out' = <<>>
    /\ UNCHANGED <<role, known, cur, alive, link, toPeer, toOrder, held, faults>>

\* External: while this node does not lead, another master persists a block.
\* This node keeps its state, connections and answers when it steps down, so
\* they may be older than the block.
OtherMaster ==
    /\ ~leads
    /\ link # {} \/ vec # <<>> => "otherMaster" \in Exposed
    /\ Len(persisted) < MaxBlock
    /\ \E c \in Contents, S \in SUBSET {p \in Peers : held[p] = persisted} :
         /\ Cardinality(S) >= Kafka
         /\ persisted' = Append(persisted, c) /\ Holders(persisted') = {}
         /\ held' = [p \in Peers |-> IF p \in S THEN persisted' ELSE held[p]]
    /\ UNCHANGED <<role, known, chain, cur, out, alive, link, toPeer, toOrder, faults>>
-----------------------------------------------------------------------------
(* Peers, which are external: each reads what it is sent in order, and      *)
(* registers again when what it holds has changed.                          *)

Read(p, type) ==
    /\ toPeer[p] # <<>> /\ Head(toPeer[p]).type = type
    /\ toPeer' = [toPeer EXCEPT ![p] = Tail(@)]
    /\ UNCHANGED <<role, known, blocks, alive, link, faults>>

Says(p, m) == toOrder' = [toOrder EXCEPT ![p] = Append(@, m)]

RegisterIfChanged(p) ==
    IF held'[p] # held[p] THEN Says(p, Regist(held'[p])) ELSE UNCHANGED toOrder

PeerConnect(p) ==
    /\ p \notin link
    /\ link' = link \cup {p}
    /\ Says(p, Regist(held[p]))
    /\ UNCHANGED <<role, known, blocks, alive, toPeer, held, faults>>

PeerAnswer(p) ==
    /\ Read(p, "query")
    /\ Says(p, Answer(held[p]))
    /\ UNCHANGED held

PeerBackspace(p) ==
    LET n == Head(toPeer[p]).id IN
    /\ Read(p, "backspace")
    /\ held' = [held EXCEPT ![p] = IF Len(@) > n THEN SubSeq(@, 1, n) ELSE @]
    /\ RegisterIfChanged(p)

PeerSync(p) ==
    LET c == Head(toPeer[p]).chain IN
    /\ Read(p, "sync") /\ Holders(c) # {}
    /\ held' = [held EXCEPT ![p] = IF Len(@) <= Len(c) THEN c ELSE @]
    /\ RegisterIfChanged(p)

PeerTable(p) ==
    LET n == Head(toPeer[p]).id IN
    /\ Read(p, "get") /\ UNCHANGED held
    /\ Says(p, Table(n, IF n <= Len(held[p]) THEN SubSeq(held[p], 1, n) ELSE <<>>))
-----------------------------------------------------------------------------
Handle(p) ==
    \/ Register(p)
    \/ AnswerDropped(p) \/ AnswerCounted(p) \/ ChooseOwn(p) \/ ChooseLater(p)
    \/ BackspacePeers(p)
    \/ TableIgnored(p) \/ TableStored(p) \/ TableNotStored(p)

PeerStep(p) ==
    PeerConnect(p) \/ PeerAnswer(p) \/ PeerBackspace(p) \/ PeerSync(p) \/ PeerTable(p)

Next ==
    \/ BecomeMaster \/ StepDown \/ OnSyncTimeOut
    \/ Pack \/ Persist \/ OtherMaster
    \/ \E p \in Peers : Handle(p) \/ OnNetworkError(p) \/ Deliver(p) \/ PeerStep(p)

\* Messages are handled, the periodic timer fires, peers connect, answer and
\* do what they are told.  Nothing has to be packed, to break or to fail.
Fairness ==
    /\ WF_vars(OnSyncTimeOut)
    /\ \A p \in Peers : WF_vars(Handle(p)) /\ WF_vars(PeerStep(p))

Spec == Init /\ [][Next]_vars /\ Fairness
-----------------------------------------------------------------------------
TypeOK ==
    /\ state \in {"follower", "wait", "start", "sync", "normal"}
    /\ leads \in BOOLEAN /\ timer \in BOOLEAN /\ dirty \in BOOLEAN /\ alive \in BOOLEAN
    /\ link \subseteq Peers /\ DOMAIN conn \subseteq link
    /\ DOMAIN vec \subseteq Peers /\ stale \subseteq DOMAIN vec
    /\ conn \in [DOMAIN conn -> Chains] /\ vec \in [DOMAIN vec -> Chains]
    /\ target \in Chains /\ chain \in Chains /\ out \in Chains
    /\ persisted \in Chains /\ held \in [Peers -> Chains]
    /\ cur \in 0..(MaxBlock + 1)
    /\ toPeer \in [Peers -> Seq(Message)] /\ toOrder \in [Peers -> Seq(Message)]
    /\ faults \in 0..MaxFault

\* A master that serves has every block an order node ever persisted: the
\* choice among the peers' answers finds it, whatever they held.  One that
\* synchronised and packs under its old id does not ("staleCurrent").
ServesPersisted == leads /\ state = "normal" => IsPrefix(persisted, chain)

\* m_nKafkaValue peers go on holding every persisted block, whatever peers are
\* told to drop or to fetch by a node whose block ids go on from its config.
QuorumKept == Cardinality(Holders(persisted)) >= Kafka

\* "The block of the order node is at most the highest less one" (comment and
\* assertion, lines 887 and 888) where peers are made to drop blocks, and there
\* is a handler to fetch from where one is used unchecked (line 649).  Where
\* the list is read behind its end (line 922) nothing can be promised
\* ("wildIndex").
OrderStaysUp == alive

\* When peers are made to drop a block, those below its predecessor are sent to
\* fetch it (comment, line 890): all the node can still reach.
BehindAreSynced ==
    [][\A p \in Peers : BackspacePeers(p) /\ alive' =>
          \A q \in DOMAIN vec' \ stale :
              (\E r \in DOMAIN vec' : Len(vec'[q]) + 1 < Len(vec'[r]))
                  => toPeer'[q] # toPeer[q]]_vars

\* A master that synchronises reaches the block it chose, although
\* connections break and reading the table fails: the request is repeated by
\* the handler, and by OnSyncTimeOut.  A store that fails may end this for ever
\* ("storeFails").
SyncEnds == leads /\ state = "sync" ~> state = "normal" \/ ~leads

\* A master with enough peers gets on: it serves or synchronises in the end.
StartupCompletes == leads /\ state = "start" ~> state \in {"sync", "normal"} \/ ~leads
=============================================================================
