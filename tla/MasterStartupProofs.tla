------------------------ MODULE MasterStartupProofs ------------------------
(***************************************************************************)
(* MasterStartup for any number of peers, any contents, any histories and  *)
(* any bounds: a master that serves has every persisted block, and a       *)
(* quorum of peers holds it all the while.  The hypotheses are that none   *)
(* of the events happens that the start has no defence against, among them *)
(* that a node that synchronised packs under its old block id (Protected), *)
(* and that two quorums meet (Majority, which the code does not check).    *)
(*                                                                         *)
(* What the order node knows of a peer is spread over what the peer holds, *)
(* its registration, its answer and four kinds of mail, each of them as    *)
(* old as its place in the queue.  The invariant is therefore one          *)
(* conjunction per peer (Local) and four that relate peers to the node:    *)
(* the node's role, what it chose, and the two quorums that the persisted  *)
(* block has, one among the peers and one among their answers.             *)
(***************************************************************************)
EXTENDS MasterStartup, FiniteSetTheorems, SequenceTheorems, TLAPS

\* None of the unprotected events that can cost a persisted block.  A group of
\* registered peers may leave, a store may fail, and a list may be read behind
\* its end.
Protected == Exposed \cap {"lateAnswer", "otherMaster", "secondTerm", "staleCurrent"} = {}

\* Any two quorums have a peer in common.
Majority  == 2 * Kafka > Cardinality(Peers)

\* The messages of a type in queue s, and those of each type to or from peer p.
Of(s, type) == {m \in Range(s) : m.type = type}
Regs(p)     == Of(toOrder[p], "regist")
Maxes(p)    == Of(toOrder[p], "max")
Tables(p)   == Of(toOrder[p], "table")
Queries(p)  == Of(toPeer[p], "query")
Backs(p)    == Of(toPeer[p], "backspace")
Syncs(p)    == Of(toPeer[p], "sync")
Gets(p)     == Of(toPeer[p], "get")

\* Queue s has at most one registration.
Single(s)   == \A i, j \in 1..Len(s) : s[i].type = "regist" /\ s[j].type = "regist" => i = j

\* The last persisted block, and the chains of one block more: a peer holds
\* such a block when a master sent it and it never came to be persisted.
Top       == Len(persisted)
Longer(c) == Len(c) = Top + 1

\* No block behind the last persisted one can be agreed on any more.
Dead      == \A c \in Chains : Longer(c) => Hopeless(vec, c)

\* The answers agree on chain c, which is longer than the persisted one.
Chosen(c) == state \in {"start", "sync"} /\ Longer(c) /\ Agreed(vec, c)

\* The answers agree on chain c, which may be the persisted one.
Goal(c)   == Chosen(c) \/ (c = persisted /\ Agreed(vec, c))

\* A peer that takes chain c loses no persisted block and nothing chosen.
Good(c)   == IsPrefix(c, persisted) \/ Chosen(c)

\* Some peer answered with a longer chain, but none can be agreed on: the
\* branch of the code that tells peers to drop a block.
Split     == Kafka <= Cardinality(DOMAIN vec) /\ Dead /\ \E p \in DOMAIN vec : Longer(vec[p])
Stuck     == state = "start" /\ Split

\* The master serves and no answer is to come: the answers decide nothing more.
Closed    == state = "normal" /\ \A p \in Peers \ DOMAIN vec : ~Asked(p)

\* The persisted block was agreed on, and late answers may still come.
Low       == Agreed(vec, persisted) /\ ~Stuck /\ ~Closed

\* Peers whose answer can be used to reach them, and all the node can reach.
Live      == DOMAIN vec \ stale
Known     == DOMAIN conn \cup Live

\* Nothing was decided that peer p has to be told.
Untold(p) == /\ state \in {"follower", "wait", "start"} /\ ~Split
             /\ p \in DOMAIN vec => \A c \in Chains : Goal(c) => vec[p] = c

\* Peer p said, or is saying, that it holds chain c.
Claims(p, c) == \/ p \in DOMAIN conn /\ conn[p] = c
                \/ p \in DOMAIN vec /\ vec[p] = c
                \/ \E m \in Regs(p) \cup Maxes(p) : m.chain = c
-----------------------------------------------------------------------------
(* The invariant of peer p *)

\* Mail needs a connection, and before the peer is known to the node its
\* registration is all there is.
Wire(p) ==
    /\ p \notin link => toPeer[p] = <<>> /\ toOrder[p] = <<>>
    /\ p \in Known => p \in link
    /\ p \in link \ Known => toPeer[p] = <<>> /\ toOrder[p] = <<Regist(held[p])>>

\* What the peer holds, and what it answers, is persisted but for one block.
Fronts(p) ==
    /\ IsPrefix(Front(held[p]), persisted)
    /\ p \in DOMAIN vec => IsPrefix(Front(vec[p]), persisted)
    /\ \A m \in Maxes(p) : IsPrefix(Front(m.chain), persisted)

\* Before the start nothing is asked of the peer.
Idle(p) ==
    state \in {"follower", "wait"} =>
        toPeer[p] = <<>> /\ \A m \in Range(toOrder[p]) : m.type = "regist"

\* As long as the peer was told nothing, it holds what it said it holds.
Quiet(p) ==
    Untold(p) => /\ \A c \in Chains : Claims(p, c) => c = held[p]
                 /\ \A m \in Range(toPeer[p]) : m.type = "query"
                 /\ p \in Known => p \in DOMAIN conn /\ Regs(p) = {}

\* The peer is sent to good chains, and registers again with good ones.
Leads(p) == /\ \A m \in Syncs(p) : Good(m.chain)
            /\ p \in Known => \A m \in Regs(p) : Good(m.chain)

\* While answers count, the peer still holds the block it claims: the persisted
\* one, or one that can still be agreed on.
Kept(p) ==
    ~Closed => \A c \in Chains : Claims(p, c) =>
        /\ c = persisted => IsPrefix(persisted, held[p])
        /\ Longer(c) /\ ~Hopeless(vec, c) => held[p] = c

\* The peer is told to drop blocks only when nothing longer can be agreed on,
\* and down to the persisted block: below it only if it has other blocks there.
Backspaces(p) ==
    \A i \in 1..Len(toPeer[p]) : toPeer[p][i].type = "backspace" =>
        /\ state = "normal" \/ (Dead /\ (Stuck \/ state = "sync"))
        /\ ~Closed => \/ toPeer[p][i].id = Top
                      \/ /\ i = 1 /\ toPeer[p][i].id < Top
                         /\ state = "normal" /\ ~IsPrefix(persisted, held[p])

\* The node fetches blocks from the peer that leads to the target, and what
\* comes is a piece of it.
Fetch(p) ==
    /\ state = "start" => Gets(p) = {} /\ Tables(p) = {}
    /\ state = "sync" =>
         /\ \A m \in Gets(p) : m.id <= Len(target) /\ IsPrefix(target, held[p])
         /\ \A m \in Tables(p) :
              /\ IsPrefix(target, held[p])
              /\ m.chain # <<>> => Len(m.chain) = m.id /\ IsPrefix(m.chain, target)

\* A late answer with a longer chain is still true, and comes before whatever
\* could change it.
Answering(p) ==
    Low /\ p \notin DOMAIN vec =>
        /\ \A m \in Maxes(p) : Longer(m.chain) => held[p] = m.chain /\ Regs(p) = {} /\ Backs(p) = {}
        /\ Queries(p) # {} /\ Longer(held[p]) => Regs(p) = {} /\ Backs(p) = {}

\* A peer that answered with a longer chain holds the persisted block in it; it
\* is not registered until it has dropped the rest.
Dropping(p) ==
    Low /\ leads /\ p \in Live /\ Longer(vec[p]) =>
        /\ IsPrefix(persisted, held[p])
        /\ Regs(p) # {} => p \notin DOMAIN conn /\ held[p] = persisted /\ Single(toOrder[p])
        /\ held[p] # persisted /\ (held[p] # out \/ Backs(p) # {}) => p \notin DOMAIN conn

\* A peer that may drop the block under way is not counted for it.
OutKept(p) ==
    out # <<>> /\ held[p] = out /\ Backs(p) # {} => p \notin DOMAIN conn /\ Regs(p) = {}

Local(p) == /\ Wire(p) /\ Fronts(p) /\ Idle(p) /\ Quiet(p) /\ Leads(p) /\ Kept(p)
            /\ Backspaces(p) /\ Fetch(p) /\ Answering(p) /\ Dropping(p) /\ OutKept(p)
-----------------------------------------------------------------------------
(* The invariant of the node *)

\* What the node's state says of its blocks and of who leads.
Roles == /\ IsPrefix(chain, persisted)
         /\ state \in {"follower", "wait"} => vec = <<>>
         /\ leads => state # "follower"
         /\ out # <<>> => state = "normal" /\ leads /\ Len(out) = Len(chain) + 1 /\ Front(out) = chain
         /\ state # "follower" /\ cur # NULL => leads
         /\ timer => state = "sync"

\* The node fetches what was agreed on, and serves with the persisted block,
\* which was agreed on as long as answers may come.
Phase == /\ state = "sync" => Len(chain) < Len(target) /\ Goal(target)
         /\ state = "normal" => /\ chain = persisted /\ DOMAIN vec # {}
                                /\ Closed \/ Agreed(vec, persisted)

\* The peers that hold the persisted block and whose answers show it, and those
\* that hold it and are not told to drop it.
Wit  == {p \in Peers : /\ IsPrefix(persisted, held[p])
                       /\ p \in DOMAIN vec => IsPrefix(persisted, vec[p])
                       /\ p \notin DOMAIN vec => \A m \in Maxes(p) : IsPrefix(persisted, m.chain)}
Safe == {p \in Peers : IsPrefix(persisted, held[p]) /\ \A m \in Backs(p) : m.id >= Top}

\* Both are quorums: the first is what the choice relies on.
Quorums == Cardinality(Safe) >= Kafka /\ (~Closed => Cardinality(Wit) >= Kafka)

IInv == TypeOK /\ Roles /\ Phase /\ Quorums /\ \A p \in Peers : Local(p)

\* For OrderStaysUp: until the node serves, every peer that registers or is sent
\* to fetch blocks comes with what was agreed on,
Led(p) == state \in {"start", "sync"} /\ ~Stuck =>
             /\ p \in Known => \A m \in Regs(p) : Goal(m.chain) /\ held[p] = m.chain
             /\ \A m \in Syncs(p) : Goal(m.chain)

\* so that the node always has a registered peer to fetch the target from.
UpInv == /\ alive
         /\ \A p \in Peers : Led(p)
         /\ state = "sync" => \E p \in DOMAIN conn : conn[p] = target
-----------------------------------------------------------------------------
(* Chains. *)

\* The bounds are naturals, the peers a finite set of which a quorum is a part.
LEMMA Bounds == /\ MaxBlock \in Nat /\ MaxMail \in Nat /\ MaxFault \in Nat
                /\ IsFiniteSet(Peers) /\ Cardinality(Peers) \in Nat
                /\ Kafka \in Nat /\ Kafka > 1 /\ Kafka <= Cardinality(Peers)
BY StartupAssumption, FS_CardinalityType

\* A chain is a bounded sequence of contents.
LEMMA ChainIs ==
    ASSUME NEW c
    PROVE  c \in Chains <=> c \in Seq(Contents) /\ Len(c) <= MaxBlock
<1>1. ASSUME c \in Chains PROVE c \in Seq(Contents) /\ Len(c) <= MaxBlock
  <2>1. PICK n \in 0..MaxBlock : c \in [1..n -> Contents]
    BY <1>1 DEF Chains
  <2>2. n \in Nat
    BY Bounds
  <2>3. c \in Seq(Contents)
    BY <2>1, <2>2
  <2>4. Len(c) = n
    BY <2>1, <2>2
  <2> QED BY <2>1, <2>3, <2>4, Bounds
<1>2. ASSUME c \in Seq(Contents), Len(c) <= MaxBlock PROVE c \in Chains
  <2>1. Len(c) \in Nat /\ c \in [1..Len(c) -> Contents]
    BY <1>2, LenProperties
  <2> QED BY <1>2, <2>1, Bounds DEF Chains
<1> QED BY <1>1, <1>2

\* The length of a chain; only the empty one has none.
LEMMA Lengths ==
    ASSUME NEW c \in Chains
    PROVE  Len(c) \in Nat /\ Len(c) <= MaxBlock /\ (c = <<>> <=> Len(c) = 0)
BY ChainIs

\* The beginning of a chain.
LEMMA Cut ==
    ASSUME NEW c \in Chains, NEW n \in 0..Len(c)
    PROVE  /\ SubSeq(c, 1, n) \in Chains /\ Len(SubSeq(c, 1, n)) = n
           /\ \A i \in 1..n : SubSeq(c, 1, n)[i] = c[i]
           /\ IsPrefix(SubSeq(c, 1, n), c)
<1>1. c \in Seq(Contents) /\ Len(c) \in Nat /\ Len(c) <= MaxBlock /\ n \in Nat /\ n <= Len(c)
  BY ChainIs, Lengths
<1>2. \A i \in 1..n : c[i] \in Contents
  BY <1>1, ElementOfSeq
<1>3. /\ SubSeq(c, 1, n) \in Seq(Contents) /\ Len(SubSeq(c, 1, n)) = n
      /\ \A i \in 1..n : SubSeq(c, 1, n)[i] = c[i]
  <2>1. /\ SubSeq(c, 1, n) \in Seq(Contents)
        /\ Len(SubSeq(c, 1, n)) = IF 1 <= n THEN n - 1 + 1 ELSE 0
        /\ \A i \in 1..(n - 1 + 1) : SubSeq(c, 1, n)[i] = c[1 + i - 1]
    BY <1>1, <1>2, SubSeqProperties
  <2> QED BY <1>1, <2>1
<1>4. SubSeq(c, 1, n) \in Chains
  <2>1. Len(SubSeq(c, 1, n)) <= MaxBlock
    BY <1>1, <1>3, Bounds
  <2> QED BY <1>3, <2>1, ChainIs, Zenon
<1>5. SubSeq(SubSeq(c, 1, n), 1, n) = SubSeq(c, 1, n)
  BY <1>3, SubSeqFull
<1> QED BY <1>1, <1>3, <1>4, <1>5 DEF IsPrefix

\* A chain begins another when it agrees with it.
LEMMA PrefixIs ==
    ASSUME NEW a \in Chains, NEW b \in Chains
    PROVE  IsPrefix(a, b) <=> Len(a) <= Len(b) /\ \A i \in 1..Len(a) : a[i] = b[i]
<1>1. a \in Seq(Contents) /\ b \in Seq(Contents) /\ Len(a) \in Nat /\ Len(b) \in Nat
  BY ChainIs, Lengths
<1>2. SubSeq(a, 1, Len(a)) = a
  BY <1>1, SubSeqFull
<1>3. ASSUME Len(a) <= Len(b)
      PROVE  a = SubSeq(b, 1, Len(a)) <=> \A i \in 1..Len(a) : a[i] = b[i]
  <2>1. Len(a) \in 0..Len(b)
    BY <1>1, <1>3
  <2>2. /\ SubSeq(b, 1, Len(a)) \in Seq(Contents) /\ Len(SubSeq(b, 1, Len(a))) = Len(a)
        /\ \A i \in 1..Len(a) : SubSeq(b, 1, Len(a))[i] = b[i]
    BY <2>1, Cut, ChainIs
  <2>3. ASSUME \A i \in 1..Len(a) : a[i] = b[i] PROVE a = SubSeq(b, 1, Len(a))
    BY <1>1, <2>2, <2>3, SeqEqual
  <2> QED BY <2>2, <2>3
<1> QED BY <1>2, <1>3 DEF IsPrefix

\* Being a prefix is a partial order on chains, and prefixes of a chain are
\* prefixes of each other.
LEMMA PrefixOrder ==
    ASSUME NEW a \in Chains, NEW b \in Chains
    PROVE  /\ IsPrefix(a, a)
           /\ IsPrefix(a, b) => Len(a) <= Len(b)
           /\ IsPrefix(a, b) /\ Len(b) <= Len(a) => a = b
           /\ \A c \in Chains : /\ IsPrefix(a, b) /\ IsPrefix(b, c) => IsPrefix(a, c)
                                /\ IsPrefix(a, c) /\ IsPrefix(b, c) /\ Len(a) <= Len(b) => IsPrefix(a, b)
<1>1. a \in Seq(Contents) /\ b \in Seq(Contents) /\ Len(a) \in Nat /\ Len(b) \in Nat
  BY ChainIs, Lengths
<1>2. IsPrefix(a, a) /\ (IsPrefix(a, b) => Len(a) <= Len(b))
  BY <1>1, PrefixIs
<1>3. ASSUME IsPrefix(a, b), Len(b) <= Len(a) PROVE a = b
  <2>1. Len(a) = Len(b) /\ \A i \in 1..Len(a) : a[i] = b[i]
    BY <1>1, <1>3, PrefixIs
  <2> QED BY <1>1, <2>1, SeqEqual
<1>4. ASSUME NEW c \in Chains
      PROVE  /\ IsPrefix(a, b) /\ IsPrefix(b, c) => IsPrefix(a, c)
             /\ IsPrefix(a, c) /\ IsPrefix(b, c) /\ Len(a) <= Len(b) => IsPrefix(a, b)
  <2>1. Len(c) \in Nat
    BY Lengths
  <2>2. /\ IsPrefix(a, b) <=> Len(a) <= Len(b) /\ \A i \in 1..Len(a) : a[i] = b[i]
        /\ IsPrefix(b, c) <=> Len(b) <= Len(c) /\ \A i \in 1..Len(b) : b[i] = c[i]
        /\ IsPrefix(a, c) <=> Len(a) <= Len(c) /\ \A i \in 1..Len(a) : a[i] = c[i]
    BY PrefixIs
  <2>3. Len(a) <= Len(b) => \A i \in 1..Len(a) : i \in 1..Len(b)
    BY <1>1
  <2> QED BY <1>1, <2>1, <2>2, <2>3
<1> QED BY <1>2, <1>3, <1>4

\* The predecessor of a block.
LEMMA FrontOf ==
    ASSUME NEW c \in Chains
    PROVE  /\ Front(c) \in Chains /\ IsPrefix(Front(c), c)
           /\ c = <<>> => Front(c) = <<>>
           /\ c # <<>> => Len(Front(c)) = Len(c) - 1
           /\ \A a \in Chains : IsPrefix(a, c) => a = c \/ IsPrefix(a, Front(c))
<1>1. Len(c) \in Nat /\ (c = <<>> <=> Len(c) = 0)
  BY Lengths
<1>2. CASE c = <<>>
  <2>1. Front(c) = <<>>
    BY <1>1, <1>2, SubSeqEmpty DEF Front
  <2>2. \A a \in Chains : IsPrefix(a, c) => a = c
    BY <1>1, <1>2, PrefixOrder, Lengths
  <2> QED BY <1>2, <2>1, <2>2, PrefixOrder
<1>3. CASE c # <<>>
  <2>1. Len(c) - 1 \in 0..Len(c)
    BY <1>1, <1>3
  <2>2. Front(c) \in Chains /\ IsPrefix(Front(c), c) /\ Len(Front(c)) = Len(c) - 1
    BY <2>1, Cut DEF Front
  <2>3. ASSUME NEW a \in Chains, IsPrefix(a, c), a # c PROVE IsPrefix(a, Front(c))
    <3>1. Len(a) \in Nat /\ Len(a) <= Len(c) /\ ~(Len(c) <= Len(a))
      BY <2>3, PrefixOrder, Lengths
    <3>2. Len(a) <= Len(Front(c))
      BY <1>1, <2>2, <3>1
    <3> QED BY <2>2, <2>3, <3>2, PrefixOrder
  <2> QED BY <1>3, <2>2, <2>3
<1> QED BY <1>2, <1>3

\* A chain whose predecessor is in P: it is in P, or it is one block behind P.
LEMMA Behind ==
    ASSUME NEW P \in Chains, NEW c \in Chains, IsPrefix(Front(c), P)
    PROVE  /\ Len(c) <= Len(P) + 1
           /\ Len(c) = Len(P) + 1 => Front(c) = P /\ IsPrefix(P, c) /\ c # <<>>
           /\ IsPrefix(P, c) => c = P \/ Len(c) = Len(P) + 1
           /\ \A n \in 0..Len(c) : n < Len(c) => IsPrefix(SubSeq(c, 1, n), P)
<1>1. /\ Len(c) \in Nat /\ (c = <<>> <=> Len(c) = 0) /\ Len(P) \in Nat
      /\ Front(c) \in Chains /\ IsPrefix(Front(c), c) /\ (c # <<>> => Len(Front(c)) = Len(c) - 1)
  BY Lengths, FrontOf
<1>2. Len(Front(c)) <= Len(P)
  BY <1>1, PrefixOrder
<1>3. ASSUME Len(c) = Len(P) + 1 PROVE Front(c) = P /\ IsPrefix(P, c) /\ c # <<>>
  <2>1. Len(P) <= Len(Front(c)) /\ c # <<>>
    BY <1>1, <1>3
  <2>2. Front(c) = P
    BY <1>1, <2>1, PrefixOrder
  <2> QED BY <1>1, <2>1, <2>2
<1>4. ASSUME IsPrefix(P, c) PROVE c = P \/ Len(c) = Len(P) + 1
  <2>1. Len(P) <= Len(c)
    BY <1>4, PrefixOrder
  <2>2. Len(c) <= Len(P) => c = P
    BY <1>4, PrefixOrder
  <2> QED BY <1>1, <1>2, <2>1, <2>2
<1>5. ASSUME NEW n \in 0..Len(c), n < Len(c) PROVE IsPrefix(SubSeq(c, 1, n), P)
  <2>1. SubSeq(c, 1, n) \in Chains /\ Len(SubSeq(c, 1, n)) = n /\ IsPrefix(SubSeq(c, 1, n), c)
    BY Cut
  <2>2. c # <<>> /\ n <= Len(Front(c))
    BY <1>1, <1>5
  <2>3. \A a, b, d \in Chains : IsPrefix(a, d) /\ IsPrefix(b, d) /\ Len(a) <= Len(b)
                              => IsPrefix(a, b)
    BY PrefixOrder
  <2>4. IsPrefix(SubSeq(c, 1, n), Front(c))
    <3>1. Len(SubSeq(c, 1, n)) <= Len(Front(c))
      BY <2>1, <2>2
    <3> QED BY <1>1, <2>1, <2>3, <3>1, Zenon
  <2> QED BY <1>1, <2>1, <2>4, PrefixOrder
<1> QED BY <1>1, <1>2, <1>3, <1>4, <1>5

\* A new block behind a chain.
LEMMA Extended ==
    ASSUME NEW c \in Chains, Len(c) < MaxBlock, NEW x \in Contents
    PROVE  /\ Append(c, x) \in Chains /\ Len(Append(c, x)) = Len(c) + 1
           /\ Front(Append(c, x)) = c /\ IsPrefix(c, Append(c, x)) /\ Append(c, x) # <<>>
<1>1. c \in Seq(Contents) /\ Len(c) \in Nat
  BY ChainIs, Lengths
<1> DEFINE d == Append(c, x)
<1>2. /\ d \in Seq(Contents) /\ d # <<>> /\ Len(d) = Len(c) + 1
      /\ \A i \in 1..Len(c) : d[i] = c[i]
  BY <1>1, AppendProperties
<1> HIDE DEF d
<1>3. d \in Chains
  BY <1>1, <1>2, ChainIs, Bounds
<1>4. IsPrefix(c, d)
  BY <1>1, <1>2, <1>3, PrefixIs
<1>5. Front(d) \in Chains /\ Len(Front(d)) = Len(c) /\ IsPrefix(c, Front(d))
  <2>1. Front(d) \in Chains /\ Len(Front(d)) = Len(d) - 1
    BY <1>2, <1>3, FrontOf
  <2>2. c # d
    BY <1>1, <1>2
  <2> QED BY <1>1, <1>2, <1>3, <1>4, <2>1, <2>2, FrontOf
<1>6. Len(Front(d)) <= Len(c)
  BY <1>1, <1>5
<1>7. Front(d) = c
  BY <1>5, <1>6, PrefixOrder
<1> QED BY <1>2, <1>3, <1>4, <1>7 DEF d
-----------------------------------------------------------------------------
(* Queues of messages. *)

\* The fields of a message.
LEMMA MessageIs ==
    ASSUME NEW m \in Message
    PROVE  m.id \in 0..MaxBlock /\ m.id \in Nat /\ m.chain \in Chains
BY Bounds DEF Message

\* What the order node and the peers send are messages.
LEMMA Messages ==
    /\ Query \in Message /\ Query.type = "query"
    /\ \A n \in 0..MaxBlock : /\ Backspace(n) \in Message /\ Backspace(n).type = "backspace" /\ Backspace(n).id = n
                              /\ Get(n) \in Message /\ Get(n).type = "get" /\ Get(n).id = n
    /\ \A c \in Chains : /\ SyncTo(c) \in Message /\ SyncTo(c).type = "sync" /\ SyncTo(c).chain = c
                         /\ Regist(c) \in Message /\ Regist(c).type = "regist" /\ Regist(c).chain = c
                         /\ Answer(c) \in Message /\ Answer(c).type = "max" /\ Answer(c).chain = c
                         /\ \A n \in 0..MaxBlock : /\ Table(n, c) \in Message /\ Table(n, c).type = "table"
                                                   /\ Table(n, c).id = n /\ Table(n, c).chain = c
<1>1. <<>> \in Chains /\ 0 \in 0..MaxBlock
  <2>1. <<>> \in Seq(Contents) /\ Len(<<>>) <= MaxBlock
    BY Bounds
  <2>2. \A c : c \in Seq(Contents) /\ Len(c) <= MaxBlock => c \in Chains
    BY ChainIs
  <2>3. 0 \in 0..MaxBlock
    BY Bounds
  <2> QED BY <2>1, <2>2, <2>3
<1>2. \A c \in Chains : Len(c) \in 0..MaxBlock
  BY Lengths, Bounds
<1> QED BY <1>1, <1>2 DEF Message, Query, Backspace, Get, SyncTo, Regist, Answer, Table

\* A sequence of messages by its indices.
LEMMA RangeOf ==
    ASSUME NEW s \in Seq(Message)
    PROVE  /\ Len(s) \in Nat /\ DOMAIN s = 1..Len(s)
           /\ \A m : m \in Range(s) <=> \E i \in 1..Len(s) : s[i] = m
           /\ \A i \in 1..Len(s) : s[i] \in Range(s) /\ s[i] \in Message
           /\ Range(s) \subseteq Message
<1>1. Len(s) \in Nat /\ DOMAIN s = 1..Len(s) /\ \A i \in 1..Len(s) : s[i] \in Message
  OBVIOUS
<1> QED BY <1>1 DEF Range

\* What is left when the head is taken.
LEMMA TailOf ==
    ASSUME NEW s \in Seq(Message), s # <<>>
    PROVE  /\ Tail(s) \in Seq(Message) /\ Head(s) \in Message /\ Head(s) = s[1] /\ 1 \in 1..Len(s)
           /\ Head(s) \in Of(s, Head(s).type) /\ Head(s) \in Range(s)
           /\ Len(Tail(s)) = Len(s) - 1 /\ Len(s) \in Nat
           /\ \A i \in 1..Len(Tail(s)) : i + 1 \in 1..Len(s) /\ Tail(s)[i] = s[i + 1]
           /\ Range(Tail(s)) \subseteq Range(s)
           /\ \A t : Of(Tail(s), t) \subseteq Of(s, t)
           /\ \A t : t # Head(s).type => Of(Tail(s), t) = Of(s, t)
<1>1. /\ Tail(s) \in Seq(Message) /\ Len(Tail(s)) = Len(s) - 1
      /\ \A i \in 1..Len(Tail(s)) : i + 1 \in 1..Len(s) /\ Tail(s)[i] = s[i + 1]
      /\ 1 \in 1..Len(s) /\ Head(s) = s[1] /\ Head(s) \in Message /\ Len(s) \in Nat
  OBVIOUS
<1>2. /\ \A m : m \in Range(s) <=> \E i \in 1..Len(s) : s[i] = m
      /\ \A m : m \in Range(Tail(s)) <=> \E i \in 1..Len(Tail(s)) : Tail(s)[i] = m
  BY <1>1, RangeOf
<1>3. Range(Tail(s)) \subseteq Range(s)
  BY <1>1, <1>2
<1>4. \A m \in Range(s) : m = Head(s) \/ m \in Range(Tail(s))
  <2>1. SUFFICES ASSUME NEW i \in 1..Len(s), i # 1
                 PROVE  \E j \in 1..Len(Tail(s)) : Tail(s)[j] = s[i]
    BY <1>1, <1>2
  <2>2. i - 1 \in 1..Len(Tail(s)) /\ (i - 1) + 1 = i
    BY <1>1, <2>1
  <2> QED BY <1>1, <2>2
<1>5. Head(s) \in Range(s)
  BY <1>1, <1>2
<1>6. \A t : Of(Tail(s), t) \subseteq Of(s, t)
  BY <1>3 DEF Of
<1>7. \A t : t # Head(s).type => Of(Tail(s), t) = Of(s, t)
  BY <1>3, <1>4 DEF Of
<1>8. Head(s) \in Of(s, Head(s).type)
  BY <1>5 DEF Of
<1> QED BY <1>1, <1>3, <1>5, <1>6, <1>7, <1>8

\* What is there when a message is sent.
LEMMA AppendOf ==
    ASSUME NEW s \in Seq(Message), NEW m \in Message
    PROVE  /\ Append(s, m) \in Seq(Message) /\ Append(s, m) # <<>>
           /\ Len(Append(s, m)) = Len(s) + 1 /\ Append(s, m)[Len(s) + 1] = m
           /\ \A i \in 1..Len(s) : Append(s, m)[i] = s[i]
           /\ Range(Append(s, m)) = Range(s) \cup {m}
           /\ \A t : Of(Append(s, m), t) = IF m.type = t THEN Of(s, t) \cup {m} ELSE Of(s, t)
<1> DEFINE r == Append(s, m)
<1>1. /\ r \in Seq(Message) /\ r # <<>> /\ Len(r) = Len(s) + 1 /\ r[Len(s) + 1] = m
      /\ \A i \in 1..Len(s) : r[i] = s[i]
  BY AppendProperties
<1>2. Len(s) \in Nat
  OBVIOUS
<1> HIDE DEF r
<1>3. /\ \A x : x \in Range(s) <=> \E i \in 1..Len(s) : s[i] = x
      /\ \A x : x \in Range(r) <=> \E i \in 1..Len(r) : r[i] = x
  BY <1>1, RangeOf
<1>4. \A i \in 1..Len(r) : i \in 1..Len(s) \/ i = Len(s) + 1
  BY <1>1, <1>2
<1>5. Len(s) + 1 \in 1..Len(r) /\ \A i \in 1..Len(s) : i \in 1..Len(r)
  BY <1>1, <1>2
<1>6. Range(r) = Range(s) \cup {m}
  BY <1>1, <1>3, <1>4, <1>5
<1>7. \A t : Of(r, t) = IF m.type = t THEN Of(s, t) \cup {m} ELSE Of(s, t)
  BY <1>6 DEF Of
<1> QED BY <1>1, <1>6, <1>7 DEF r

\* An empty queue has no message of any type.
LEMMA NoMessages ==
    /\ <<>> \in Seq(Message) /\ Range(<<>>) = {} /\ Len(<<>>) = 0
    /\ \A t : Of(<<>>, t) = {}
BY DEF Range, Of

\* A queue of one message has that one only.
LEMMA OneMessage ==
    ASSUME NEW m \in Message
    PROVE  /\ <<m>> \in Seq(Message) /\ Range(<<m>>) = {m} /\ Tail(<<m>>) = <<>> /\ Head(<<m>>) = m
           /\ \A t : Of(<<m>>, t) = IF m.type = t THEN {m} ELSE {}
           /\ Append(<<>>, m) = <<m>>
<1>1. Append(<<>>, m) = <<m>>
  OBVIOUS
<1>2. Range(<<m>>) = {m}
  <2>1. \A s \in Seq(Message) : Range(Append(s, m)) = Range(s) \cup {m}
    BY AppendOf
  <2>2. Range(Append(<<>>, m)) = Range(<<>>) \cup {m}
    BY <2>1, NoMessages
  <2> QED BY <1>1, <2>2, NoMessages
<1>3. \A t : Of(<<m>>, t) = IF m.type = t THEN {m} ELSE {}
  BY <1>2 DEF Of
<1>4. <<m>> \in Seq(Message) /\ Tail(<<m>>) = <<>> /\ Head(<<m>>) = m
  OBVIOUS
<1> QED BY <1>1, <1>2, <1>3, <1>4

\* When one registration is under way, there is none once it is taken.
LEMMA SingleTaken ==
    ASSUME NEW s \in Seq(Message)
    PROVE  /\ s # <<>> /\ Head(s).type = "regist" /\ Single(s) => Of(Tail(s), "regist") = {}
           /\ s # <<>> /\ Single(s) => Single(Tail(s))
           /\ \A m \in Message : (Of(s, "regist") = {} \/ (Single(s) /\ m.type # "regist")) => Single(Append(s, m))
<1>1. ASSUME s # <<>>, Single(s)
      PROVE  Single(Tail(s)) /\ (Head(s).type = "regist" => Of(Tail(s), "regist") = {})
  <2>1. /\ Tail(s) \in Seq(Message) /\ Len(s) \in Nat /\ 1 \in 1..Len(s) /\ Head(s) = s[1]
        /\ \A i \in 1..Len(Tail(s)) : i + 1 \in 1..Len(s) /\ Tail(s)[i] = s[i + 1]
        /\ Len(Tail(s)) \in Nat
    BY <1>1, TailOf, RangeOf
  <2>2. \A m : m \in Range(Tail(s)) <=> \E i \in 1..Len(Tail(s)) : Tail(s)[i] = m
    BY <2>1, RangeOf
  <2>3. Single(Tail(s))
    <3>1. SUFFICES ASSUME NEW i \in 1..Len(Tail(s)), NEW j \in 1..Len(Tail(s)),
                          Tail(s)[i].type = "regist", Tail(s)[j].type = "regist"
                   PROVE  i = j
      BY DEF Single
    <3>2. i + 1 = j + 1
      BY <1>1, <2>1, <3>1 DEF Single
    <3> QED BY <2>1, <3>2
  <2>4. ASSUME Head(s).type = "regist", NEW m \in Of(Tail(s), "regist") PROVE FALSE
    <3>1. PICK i \in 1..Len(Tail(s)) : Tail(s)[i] = m /\ m.type = "regist"
      BY <2>2, <2>4 DEF Of
    <3>2. i + 1 = 1
      BY <1>1, <2>1, <2>4, <3>1 DEF Single
    <3> QED BY <2>1, <3>2
  <2> QED BY <2>3, <2>4
<1>2. ASSUME NEW m \in Message, Of(s, "regist") = {} \/ (Single(s) /\ m.type # "regist")
      PROVE  Single(Append(s, m))
  <2> DEFINE r == Append(s, m)
  <2>1. /\ Len(r) = Len(s) + 1 /\ r[Len(s) + 1] = m /\ Len(s) \in Nat
        /\ \A i \in 1..Len(s) : r[i] = s[i] /\ s[i] \in Range(s)
    BY AppendOf, RangeOf
  <2> HIDE DEF r
  <2>2. \A i \in 1..Len(r) : i \in 1..Len(s) \/ i = Len(s) + 1
    BY <2>1
  <2>3. \A i \in 1..Len(s) : s[i].type = "regist" => s[i] \in Of(s, "regist")
    BY <2>1 DEF Of
  <2>4. ASSUME NEW i \in 1..Len(r), NEW j \in 1..Len(r), r[i].type = "regist", r[j].type = "regist"
        PROVE  i = j
    <3>1. CASE Of(s, "regist") = {}
      BY <2>1, <2>2, <2>3, <2>4, <3>1
    <3>2. CASE Single(s) /\ m.type # "regist"
      BY <2>1, <2>2, <2>4, <3>2 DEF Single
    <3> QED BY <1>2, <3>1, <3>2
  <2> QED BY <2>4 DEF Single, r
<1> QED BY <1>1, <1>2

\* The messages of a type by their indices.
LEMMA OfIs ==
    ASSUME NEW s \in Seq(Message), NEW t
    PROVE  (\E i \in DOMAIN s : s[i].type = t) <=> Of(s, t) # {}
<1>1. ASSUME NEW i \in DOMAIN s, s[i].type = t PROVE Of(s, t) # {}
  <2>1. s[i] \in Of(s, t)
    BY <1>1, RangeOf DEF Of
  <2> QED BY <2>1
<1>2. ASSUME NEW m \in Of(s, t) PROVE \E i \in DOMAIN s : s[i].type = t
  <2>1. m \in Range(s) /\ m.type = t
    BY DEF Of
  <2>2. \E i \in DOMAIN s : s[i] = m
    BY <2>1, RangeOf
  <2> QED BY <2>1, <2>2
<1> QED BY <1>1, <1>2

\* A peer that is asked has a query or an answer under way.
LEMMA AskedIs ==
    ASSUME NEW p \in Peers, toPeer \in [Peers -> Seq(Message)], toOrder \in [Peers -> Seq(Message)]
    PROVE  Asked(p) <=> Queries(p) # {} \/ Maxes(p) # {}
<1>1. toPeer[p] \in Seq(Message) /\ toOrder[p] \in Seq(Message)
  OBVIOUS
<1>2. /\ (\E i \in DOMAIN toPeer[p] : toPeer[p][i].type = "query") <=> Of(toPeer[p], "query") # {}
      /\ (\E i \in DOMAIN toOrder[p] : toOrder[p][i].type = "max") <=> Of(toOrder[p], "max") # {}
  BY <1>1, OfIs
<1> QED BY <1>2 DEF Asked, Queries, Maxes
-----------------------------------------------------------------------------
(* Answers: w is what m_vecPeerInfo holds. *)

\* Sets of peers are finite, and their sizes add up.
LEMMA PeerSets ==
    ASSUME NEW A \in SUBSET Peers
    PROVE  /\ IsFiniteSet(A) /\ Cardinality(A) \in Nat /\ Cardinality(A) <= Cardinality(Peers)
           /\ \A B \in SUBSET A : Cardinality(B) <= Cardinality(A)
           /\ \A B \in SUBSET Peers : A \cap B = {} =>
                Cardinality(A \cup B) = Cardinality(A) + Cardinality(B)
<1>1. IsFiniteSet(A)
  BY Bounds, FS_Subset
<1>2. ASSUME NEW B \in SUBSET Peers, A \cap B = {}
      PROVE  Cardinality(A \cup B) = Cardinality(A) + Cardinality(B)
  <2>1. IsFiniteSet(B)
    BY Bounds, FS_Subset
  <2>2. Cardinality(A \cup B) = Cardinality(A) + Cardinality(B) - Cardinality(A \cap B)
    BY <1>1, <2>1, FS_Union
  <2>3. Cardinality(A) \in Nat /\ Cardinality(B) \in Nat /\ Cardinality(A \cap B) = 0
    BY <1>1, <1>2, <2>1, FS_CardinalityType, FS_EmptySet
  <2> QED BY <2>2, <2>3
<1> QED BY <1>1, <1>2, Bounds, FS_Subset, FS_CardinalityType

\* Two sets of Kafka peers meet.
LEMMA Meet ==
    ASSUME Majority, NEW A \in SUBSET Peers, NEW B \in SUBSET Peers,
           Cardinality(A) >= Kafka, Cardinality(B) >= Kafka
    PROVE  A \cap B # {}
<1> SUFFICES ASSUME A \cap B = {} PROVE FALSE
  OBVIOUS
<1>1. Cardinality(A \cup B) = Cardinality(A) + Cardinality(B)
  BY PeerSets
<1>2. A \cup B \in SUBSET Peers
  OBVIOUS
<1>3. Cardinality(A \cup B) <= Cardinality(Peers) /\ Cardinality(A) \in Nat /\ Cardinality(B) \in Nat
  BY <1>2, PeerSets
<1> QED BY <1>1, <1>3, Bounds DEF Majority

\* Peers that have not answered, and those that answered t.
Open(w, t) == (Peers \ DOMAIN w) \cup Group(w, t)

\* A block is hopeless when those that answered with it and those that have not
\* answered are too few.
LEMMA HopelessIs ==
    ASSUME NEW w, DOMAIN w \subseteq Peers, NEW t
    PROVE  /\ Group(w, t) \in SUBSET Peers /\ Group(w, t) \subseteq DOMAIN w
           /\ Open(w, t) \in SUBSET Peers
           /\ Cardinality(Group(w, t)) \in Nat /\ Cardinality(DOMAIN w) \in Nat
           /\ Cardinality(Open(w, t)) = (Cardinality(Peers) - Cardinality(DOMAIN w)) + Cardinality(Group(w, t))
           /\ Hopeless(w, t) <=> Cardinality(Open(w, t)) < Kafka
<1>1. /\ Group(w, t) \in SUBSET Peers /\ Group(w, t) \subseteq DOMAIN w
      /\ Peers \ DOMAIN w \in SUBSET Peers /\ DOMAIN w \in SUBSET Peers
      /\ (Peers \ DOMAIN w) \cap Group(w, t) = {} /\ (Peers \ DOMAIN w) \cap DOMAIN w = {}
      /\ (Peers \ DOMAIN w) \cup DOMAIN w = Peers
  BY DEF Group
<1>2. /\ Cardinality(Open(w, t)) = Cardinality(Peers \ DOMAIN w) + Cardinality(Group(w, t))
      /\ Cardinality(Peers) = Cardinality(Peers \ DOMAIN w) + Cardinality(DOMAIN w)
  BY <1>1, PeerSets DEF Open
<1>3. /\ Cardinality(Group(w, t)) \in Nat /\ Cardinality(DOMAIN w) \in Nat
      /\ Cardinality(Peers \ DOMAIN w) \in Nat
  BY <1>1, PeerSets
<1>4. Cardinality(Open(w, t)) = (Cardinality(Peers) - Cardinality(DOMAIN w)) + Cardinality(Group(w, t))
  BY <1>2, <1>3
<1> QED BY <1>1, <1>3, <1>4 DEF Open, Hopeless

\* At most one block is agreed on, and then no other can be.
LEMMA AgreedAlone ==
    ASSUME Majority, NEW w, DOMAIN w \subseteq Peers, NEW t, Agreed(w, t)
    PROVE  ~Hopeless(w, t) /\ \A u : u # t => Hopeless(w, u) /\ ~Agreed(w, u)
<1>1. /\ Group(w, t) \in SUBSET Peers /\ Group(w, t) \in SUBSET Open(w, t)
      /\ Open(w, t) \in SUBSET Peers /\ Cardinality(Group(w, t)) \in Nat
      /\ Hopeless(w, t) <=> Cardinality(Open(w, t)) < Kafka
  BY HopelessIs DEF Open
<1>2. Cardinality(Group(w, t)) <= Cardinality(Open(w, t)) /\ Cardinality(Open(w, t)) \in Nat
  BY <1>1, PeerSets
<1>3. ~Hopeless(w, t)
  BY <1>1, <1>2, Bounds DEF Agreed
<1>4. ASSUME NEW u, u # t PROVE Hopeless(w, u) /\ ~Agreed(w, u)
  <2>1. /\ Open(w, u) \in SUBSET Peers /\ (Hopeless(w, u) <=> Cardinality(Open(w, u)) < Kafka)
        /\ Group(w, u) \in SUBSET Open(w, u) /\ Cardinality(Group(w, u)) \in Nat
        /\ Group(w, t) \cap Open(w, u) = {}
    <3>1. Group(w, t) \cap Open(w, u) = {}
      BY <1>4 DEF Group, Open
    <3> QED BY <3>1, HopelessIs DEF Open
  <2>2. /\ Cardinality(Open(w, u)) \in Nat /\ Cardinality(Group(w, u)) <= Cardinality(Open(w, u))
    BY <2>1, PeerSets
  <2>3. ~(Cardinality(Open(w, u)) >= Kafka)
    BY <1>1, <2>1, Meet DEF Agreed
  <2> QED BY <2>1, <2>2, <2>3, Bounds DEF Agreed
<1> QED BY <1>3, <1>4

\* An agreed block is one that some peer answered with.
LEMMA GroupIn ==
    ASSUME NEW w, DOMAIN w \subseteq Peers, NEW t, Agreed(w, t)
    PROVE  \E p \in DOMAIN w : w[p] = t
<1>1. Group(w, t) # {}
  <2>1. Group(w, t) = {} => Cardinality(Group(w, t)) = 0
    BY FS_EmptySet
  <2> QED BY <2>1, Bounds DEF Agreed
<1> QED BY <1>1 DEF Group

\* The first answer of peer p is added.
LEMMA VoteAdded ==
    ASSUME NEW w, DOMAIN w \subseteq Peers, NEW p \in Peers, p \notin DOMAIN w, NEW c,
           NEW v, v = Set(w, p, c)
    PROVE  /\ DOMAIN v = DOMAIN w \cup {p} /\ v[p] = c /\ \A q \in DOMAIN w : v[q] = w[q]
           /\ Cardinality(DOMAIN w) <= Cardinality(DOMAIN v)
           /\ \A t : /\ Agreed(w, t) => Agreed(v, t)
                     /\ Hopeless(w, t) => Hopeless(v, t)
<1>1. DOMAIN v = DOMAIN w \cup {p} /\ v[p] = c /\ \A q \in DOMAIN w : v[q] = w[q]
  BY DEF Set
<1>2. DOMAIN v \in SUBSET Peers
  BY <1>1
<1>3. Cardinality(DOMAIN w) <= Cardinality(DOMAIN v)
  <2>1. DOMAIN w \in SUBSET (DOMAIN v)
    BY <1>1
  <2> QED BY <1>2, <2>1, PeerSets
<1>4. ASSUME NEW t PROVE (Agreed(w, t) => Agreed(v, t)) /\ (Hopeless(w, t) => Hopeless(v, t))
  <2>1. /\ Group(w, t) \in SUBSET Group(v, t) /\ Open(v, t) \in SUBSET Open(w, t)
    BY <1>1 DEF Group, Open
  <2>2. /\ Group(v, t) \in SUBSET Peers /\ Open(w, t) \in SUBSET Peers
        /\ Open(v, t) \in SUBSET Peers /\ Group(w, t) \in SUBSET Peers
        /\ Hopeless(w, t) <=> Cardinality(Open(w, t)) < Kafka
        /\ Hopeless(v, t) <=> Cardinality(Open(v, t)) < Kafka
    BY <1>2, HopelessIs
  <2>3. /\ Cardinality(Group(w, t)) <= Cardinality(Group(v, t))
        /\ Cardinality(Open(v, t)) <= Cardinality(Open(w, t))
        /\ Cardinality(Group(w, t)) \in Nat /\ Cardinality(Group(v, t)) \in Nat
        /\ Cardinality(Open(w, t)) \in Nat /\ Cardinality(Open(v, t)) \in Nat
    BY <2>1, <2>2, PeerSets
  <2> QED BY <2>2, <2>3, Bounds DEF Agreed
<1> QED BY <1>1, <1>3, <1>4

\* What is chosen: no answer is higher, and none of its height has more peers.
LEMMA MostHeightIs ==
    ASSUME NEW w, DOMAIN w \subseteq Peers, NEW t \in MostHeight(w), \A p \in DOMAIN w : Len(w[p]) \in Nat
    PROVE  /\ \E p \in DOMAIN w : w[p] = t
           /\ \A p \in DOMAIN w : Len(w[p]) <= Len(t)
           /\ \A u : Len(u) = Len(t) => Cardinality(Group(w, u)) <= Cardinality(Group(w, t))
<1> DEFINE top == {q \in DOMAIN w : \A r \in DOMAIN w : Len(w[r]) <= Len(w[q])}
<1>1. PICK p \in top : w[p] = t
  BY DEF MostHeight
<1>2. \A u \in {w[q] : q \in top} : Cardinality(Group(w, u)) <= Cardinality(Group(w, t))
  BY DEF MostHeight
<1>3. p \in DOMAIN w /\ \A r \in DOMAIN w : Len(w[r]) <= Len(t)
  BY <1>1
<1>4. ASSUME NEW u, Len(u) = Len(t) PROVE Cardinality(Group(w, u)) <= Cardinality(Group(w, t))
  <2>1. CASE \E q \in DOMAIN w : w[q] = u
    <3>1. PICK q \in DOMAIN w : w[q] = u
      BY <2>1
    <3>2. q \in top
      BY <1>3, <1>4, <3>1
    <3> QED BY <1>2, <3>1, <3>2
  <2>2. CASE ~(\E q \in DOMAIN w : w[q] = u)
    <3>1. Group(w, u) = {}
      BY <2>2 DEF Group
    <3>2. Cardinality(Group(w, u)) = 0 /\ Cardinality(Group(w, t)) \in Nat
      BY <3>1, FS_EmptySet, HopelessIs
    <3> QED BY <3>2
  <2> QED BY <2>1, <2>2
<1> QED BY <1>1, <1>3, <1>4
-----------------------------------------------------------------------------
(* What a step leaves as it was. *)

\* The state, the answers and the persisted chain stay.
SameVotes == UNCHANGED <<state, vec, persisted>>
\* So does the rest of the node that the invariant of a peer speaks of.
SameNode  == SameVotes /\ UNCHANGED <<leads, target, out>> /\ (Closed => Closed')
\* Where peer q stands with the node.
SamePlace(q) == /\ q \in DOMAIN conn' <=> q \in DOMAIN conn
                /\ q \in DOMAIN conn => conn'[q] = conn[q]
                /\ q \in stale' <=> q \in stale
                /\ q \in link' <=> q \in link
\* What is under way to and from peer q.
SameMail(q)  == toPeer'[q] = toPeer[q] /\ toOrder'[q] = toOrder[q]
\* Peer q as a whole.
SamePeer(q)  == SamePlace(q) /\ SameMail(q) /\ held'[q] = held[q]

\* The state of a peer by its types.
LEMMA PeerTypes ==
    ASSUME TypeOK, NEW p \in Peers
    PROVE  /\ toPeer[p] \in Seq(Message) /\ toOrder[p] \in Seq(Message)
           /\ held[p] \in Chains /\ persisted \in Chains /\ Top \in Nat
           /\ p \in DOMAIN vec => vec[p] \in Chains
           /\ p \in DOMAIN conn => conn[p] \in Chains
           /\ \A t : Of(toPeer[p], t) \subseteq Message /\ Of(toOrder[p], t) \subseteq Message
<1>1. /\ toPeer[p] \in Seq(Message) /\ toOrder[p] \in Seq(Message)
      /\ held[p] \in Chains /\ persisted \in Chains
      /\ p \in DOMAIN vec => vec[p] \in Chains
      /\ p \in DOMAIN conn => conn[p] \in Chains
  BY DEF TypeOK
<1>2. Range(toPeer[p]) \subseteq Message /\ Range(toOrder[p]) \subseteq Message
  BY <1>1, RangeOf
<1> QED BY <1>1, <1>2, Lengths DEF Top, Of

\* With an agreed block there is no other, and no chain above the persisted
\* ones can be agreed on if they are.
LEMMA Goals ==
    ASSUME Majority, TypeOK
    PROVE  /\ \A c : Agreed(vec, c) => ~Hopeless(vec, c) /\ \A u : u # c => Hopeless(vec, u) /\ ~Agreed(vec, u)
           /\ \A c, u : Goal(c) /\ Goal(u) => c = u
           /\ Agreed(vec, persisted) => Dead
           /\ \A c : Chosen(c) => ~Agreed(vec, persisted)
           /\ Dead => \A c \in Chains : ~Chosen(c)
           /\ \A c : Goal(c) => Agreed(vec, c) /\ (c = persisted \/ Longer(c))
<1>1. DOMAIN vec \subseteq Peers /\ Top \in Nat
  BY Lengths DEF TypeOK, Top
<1>2. \A c : Agreed(vec, c) => ~Hopeless(vec, c) /\ \A u : u # c => Hopeless(vec, u) /\ ~Agreed(vec, u)
  BY <1>1, AgreedAlone
<1>3. \A c : Longer(c) => c # persisted
  BY <1>1 DEF Longer, Top
<1> QED BY <1>2, <1>3 DEF Goal, Chosen, Dead

\* While the state, the answers and the persisted chain stay, so does the choice.
LEMMA SameGoals ==
    ASSUME SameVotes
    PROVE  /\ Top' = Top /\ (Dead' <=> Dead) /\ (Split' <=> Split) /\ (Stuck' <=> Stuck)
           /\ \A c : /\ Longer(c)' <=> Longer(c)
                     /\ Chosen(c)' <=> Chosen(c)
                     /\ Goal(c)' <=> Goal(c)
                     /\ Good(c)' <=> Good(c)
           /\ \A q : Untold(q)' <=> Untold(q)
<1>1. state' = state /\ vec' = vec /\ persisted' = persisted
  BY DEF SameVotes
<1>2. Top' = Top
  BY <1>1 DEF Top
<1>3. \A c : Longer(c)' <=> Longer(c)
  BY <1>2 DEF Longer
<1>4. Dead' <=> Dead
  BY <1>1, <1>3 DEF Dead
<1>5. Split' <=> Split
  BY <1>1, <1>3, <1>4 DEF Split
<1>6. \A c : Chosen(c)' <=> Chosen(c)
  BY <1>1, <1>3 DEF Chosen
<1>7. \A c : (Goal(c)' <=> Goal(c)) /\ (Good(c)' <=> Good(c))
  BY <1>1, <1>6 DEF Goal, Good
<1>8. \A q : Untold(q)' <=> Untold(q)
  BY <1>1, <1>5, <1>7 DEF Untold
<1> QED BY <1>1, <1>2, <1>3, <1>4, <1>5, <1>6, <1>7, <1>8 DEF Stuck

\* If such a step does not open what was closed, it does not make Low true.
LEMMA SameLow ==
    ASSUME SameVotes, Closed => Closed'
    PROVE  /\ Low' => Low
           /\ ~Closed' => ~Closed
BY SameGoals DEF SameVotes, Low

\* What follows for the order node of a step that leaves it alone.
LEMMA NodeFacts ==
    ASSUME SameNode
    PROVE  /\ state' = state /\ vec' = vec /\ persisted' = persisted
           /\ leads' = leads /\ target' = target /\ out' = out
           /\ Top' = Top /\ (Dead' <=> Dead) /\ (Stuck' <=> Stuck)
           /\ (Low' => Low) /\ (~Closed' => ~Closed)
           /\ \A c : (Longer(c)' <=> Longer(c)) /\ (Good(c)' <=> Good(c)) /\ (Goal(c)' <=> Goal(c))
           /\ \A q : Untold(q)' <=> Untold(q)
BY SameGoals, SameLow DEF SameNode, SameVotes

\* A peer that the step does not concern, when the node's part in it changes.
LEMMA FrameBut ==
    ASSUME SameVotes, target' = target, Closed => Closed', NEW q \in Peers, Local(q), SamePeer(q),
           Dropping(q)', OutKept(q)'
    PROVE  Local(q)'
<1>1. /\ state' = state /\ vec' = vec /\ persisted' = persisted
      /\ toPeer'[q] = toPeer[q] /\ toOrder'[q] = toOrder[q] /\ held'[q] = held[q]
  BY DEF SameVotes, SamePeer, SameMail
<1>2. /\ q \in DOMAIN conn' <=> q \in DOMAIN conn
      /\ q \in DOMAIN conn => conn'[q] = conn[q]
      /\ q \in link' <=> q \in link
      /\ q \in Live' <=> q \in Live
      /\ q \in Known' <=> q \in Known
  BY <1>1 DEF SamePeer, SamePlace, Live, Known
<1>3. /\ Regs(q)' = Regs(q) /\ Maxes(q)' = Maxes(q) /\ Tables(q)' = Tables(q)
      /\ Queries(q)' = Queries(q) /\ Backs(q)' = Backs(q) /\ Syncs(q)' = Syncs(q) /\ Gets(q)' = Gets(q)
  BY <1>1 DEF Regs, Maxes, Tables, Queries, Backs, Syncs, Gets
<1>4. /\ Top' = Top /\ (Dead' <=> Dead) /\ (Stuck' <=> Stuck)
      /\ \A c : (Longer(c)' <=> Longer(c)) /\ (Good(c)' <=> Good(c))
      /\ Untold(q)' <=> Untold(q)
  BY <1>1, SameGoals
<1>5. (Low' => Low) /\ (~Closed' => ~Closed)
  BY SameLow
<1>6. \A c : Claims(q, c)' <=> Claims(q, c)
  BY <1>1, <1>2, <1>3 DEF Claims
<1>7. Wire(q)' /\ Fronts(q)' /\ Idle(q)'
  BY <1>1, <1>2, <1>3 DEF Local, Wire, Fronts, Idle
<1>8. Quiet(q)' /\ Leads(q)'
  BY <1>1, <1>2, <1>3, <1>4, <1>6 DEF Local, Quiet, Leads
<1>9. Kept(q)'
  BY <1>1, <1>4, <1>5, <1>6 DEF Local, Kept
<1>10. Backspaces(q)'
  BY <1>1, <1>4, <1>5 DEF Local, Backspaces
<1>11. Fetch(q)'
  BY <1>1, <1>3 DEF Local, Fetch
<1>12. Answering(q)'
  BY <1>1, <1>3, <1>4, <1>5 DEF Local, Answering
<1> QED BY <1>7, <1>8, <1>9, <1>10, <1>11, <1>12 DEF Local

\* A peer that the step does not concern.
LEMMA Frame ==
    ASSUME SameNode, NEW q \in Peers, Local(q), SamePeer(q)
    PROVE  Local(q)'
<1>1. /\ vec' = vec /\ persisted' = persisted /\ leads' = leads /\ target' = target /\ out' = out
      /\ SameVotes /\ (Closed => Closed')
      /\ toPeer'[q] = toPeer[q] /\ toOrder'[q] = toOrder[q] /\ held'[q] = held[q]
  BY DEF SameNode, SameVotes, SamePeer, SameMail
<1>2. /\ q \in DOMAIN conn' <=> q \in DOMAIN conn
      /\ q \in Live' <=> q \in Live
      /\ Regs(q)' = Regs(q) /\ Backs(q)' = Backs(q)
  BY <1>1 DEF SamePeer, SamePlace, Live, Regs, Backs
<1>3. (Low' => Low) /\ \A c : Longer(c)' <=> Longer(c)
  BY <1>1, SameGoals, SameLow
<1>4. Dropping(q)' /\ OutKept(q)'
  BY <1>1, <1>2, <1>3 DEF Local, Dropping, OutKept
<1> QED BY <1>1, <1>4, FrameBut
-----------------------------------------------------------------------------
\* Only mail of p came or went that says nothing new of what it holds.
LEMMA Mailed ==
    ASSUME SameNode, NEW p \in Peers, Local(p), SamePlace(p), held'[p] = held[p], p \in Known,
           Regs(p)' = Regs(p), Single(toOrder[p]) => Single(toOrder'[p]),
           Maxes(p)' \subseteq Maxes(p), Queries(p)' \subseteq Queries(p),
           Backs(p)' \subseteq Backs(p), Syncs(p)' \subseteq Syncs(p),
           Fetch(p)', Idle(p)', Backspaces(p)',
           Untold(p) => \A m \in Range(toPeer'[p]) : m.type = "query"
    PROVE  Local(p)'
<1>1. /\ state' = state /\ vec' = vec /\ persisted' = persisted /\ leads' = leads
      /\ target' = target /\ out' = out /\ SameVotes
  BY DEF SameNode, SameVotes
<1>2. /\ p \in DOMAIN conn' <=> p \in DOMAIN conn
      /\ p \in DOMAIN conn => conn'[p] = conn[p]
      /\ p \in link' <=> p \in link
      /\ p \in Live' <=> p \in Live
      /\ p \in Known'
  BY <1>1 DEF SamePlace, Live, Known
<1>3. /\ Top' = Top
      /\ \A c : (Longer(c)' <=> Longer(c)) /\ (Good(c)' <=> Good(c))
      /\ Untold(p)' <=> Untold(p)
  BY <1>1, SameGoals
<1>4. (Low' => Low) /\ (~Closed' => ~Closed)
  BY SameLow DEF SameNode
<1>5. \A c : Claims(p, c)' => Claims(p, c)
  BY <1>1, <1>2 DEF Claims
<1>6. Wire(p)' /\ Fronts(p)'
  BY <1>1, <1>2 DEF Local, Wire, Fronts
<1>7. Quiet(p)' /\ Leads(p)'
  BY <1>1, <1>2, <1>3, <1>5 DEF Local, Quiet, Leads
<1>8. Kept(p)'
  BY <1>1, <1>3, <1>4, <1>5 DEF Local, Kept
<1>9. Answering(p)'
  BY <1>1, <1>3, <1>4 DEF Local, Answering
<1>10. Dropping(p)'
  BY <1>1, <1>2, <1>3, <1>4 DEF Local, Dropping
<1>11. OutKept(p)'
  BY <1>1, <1>2 DEF Local, OutKept
<1> QED BY <1>6, <1>7, <1>8, <1>9, <1>10, <1>11 DEF Local

\* No master starts asking again: what is closed stays closed.
LEMMA ClosedStays ==
    ASSUME TypeOK, TypeOK', NEW p \in Peers, state' = state, vec' = vec,
           \A q \in Peers \ {p} : SameMail(q),
           state = "normal" /\ p \notin DOMAIN vec /\ (Queries(p)' # {} \/ Maxes(p)' # {}) =>
               Queries(p) # {} \/ Maxes(p) # {}
    PROVE  Closed => Closed'
<1>1. /\ toPeer \in [Peers -> Seq(Message)] /\ toOrder \in [Peers -> Seq(Message)]
      /\ toPeer' \in [Peers -> Seq(Message)] /\ toOrder' \in [Peers -> Seq(Message)]
  BY DEF TypeOK
<1>2. Asked(p) <=> Queries(p) # {} \/ Maxes(p) # {}
  BY <1>1, AskedIs
<1>3. Asked(p)' <=> Queries(p)' # {} \/ Maxes(p)' # {}
  <2>1. toPeer'[p] \in Seq(Message) /\ toOrder'[p] \in Seq(Message)
    BY <1>1
  <2>2. /\ (\E i \in DOMAIN toPeer'[p] : toPeer'[p][i].type = "query") <=> Of(toPeer'[p], "query") # {}
        /\ (\E i \in DOMAIN toOrder'[p] : toOrder'[p][i].type = "max") <=> Of(toOrder'[p], "max") # {}
    BY <2>1, OfIs
  <2> QED BY <2>2 DEF Asked, Queries, Maxes
<1>4. \A q \in Peers \ {p} : Asked(q)' <=> Asked(q)
  BY DEF SameMail, Asked
<1> QED BY <1>2, <1>3, <1>4 DEF Closed

\* A step that concerns one peer and the part of the node only.
LEMMA OnePeerBut ==
    ASSUME IInv, NEW p \in Peers, SameNode, TypeOK', Roles', Phase',
           \A q \in Peers \ {p} : SamePeer(q), Local(p)',
           ~Closed => (p \in Wit => p \in Wit'), p \in Safe => p \in Safe'
    PROVE  IInv'
<1>1. \A q \in Peers : Local(q)'
  BY Frame DEF IInv
<1>2. /\ vec' = vec /\ persisted' = persisted /\ Top' = Top /\ (~Closed' => ~Closed)
  BY NodeFacts
<1>3. \A q \in Peers \ {p} : /\ held'[q] = held[q] /\ Backs(q)' = Backs(q) /\ Maxes(q)' = Maxes(q)
  BY DEF SamePeer, SameMail, Backs, Maxes
<1>4. (~Closed => Wit \in SUBSET Wit') /\ Wit' \in SUBSET Peers
  BY <1>2, <1>3 DEF Wit
<1>5. Safe \in SUBSET Safe' /\ Safe' \in SUBSET Peers
  BY <1>2, <1>3 DEF Safe
<1>6. /\ ~Closed => Cardinality(Wit) <= Cardinality(Wit')
      /\ Cardinality(Safe) <= Cardinality(Safe')
      /\ Cardinality(Wit) \in Nat /\ Cardinality(Wit') \in Nat
      /\ Cardinality(Safe) \in Nat /\ Cardinality(Safe') \in Nat
  <2>1. Wit \in SUBSET Peers /\ Safe \in SUBSET Peers
    BY DEF Wit, Safe
  <2> QED BY <1>4, <1>5, <2>1, PeerSets
<1>7. Quorums'
  BY <1>2, <1>6, Bounds DEF IInv, Quorums
<1> QED BY <1>1, <1>7 DEF IInv

\* A step that concerns one peer only.
LEMMA OnePeer ==
    ASSUME IInv, NEW p \in Peers, SameNode, UNCHANGED <<chain, cur, timer>>, TypeOK',
           \A q \in Peers \ {p} : SamePeer(q), Local(p)',
           ~Closed => (p \in Wit => p \in Wit'), p \in Safe => p \in Safe'
    PROVE  IInv'
<1>1. /\ state' = state /\ vec' = vec /\ persisted' = persisted /\ leads' = leads
      /\ target' = target /\ out' = out /\ chain' = chain /\ cur' = cur /\ timer' = timer
      /\ \A c : Goal(c)' <=> Goal(c)
  BY NodeFacts
<1>2. Roles'
  BY <1>1 DEF IInv, Roles
<1>3. Phase'
  BY <1>1 DEF IInv, Phase, SameNode
<1> QED BY <1>2, <1>3, OnePeerBut
-----------------------------------------------------------------------------
(* Sending and receiving. *)

\* Receiving takes the first message of a connected peer and changes no other.
LEMMA Received ==
    ASSUME TypeOK, NEW p \in Peers, Wire(p), NEW type, Receive(p, type)
    PROVE  /\ toOrder[p] \in Seq(Message) /\ toOrder[p] # <<>> /\ Head(toOrder[p]) \in Message
           /\ Head(toOrder[p]).type = type /\ Head(toOrder[p]) \in Of(toOrder[p], type)
           /\ toOrder' \in [Peers -> Seq(Message)] /\ toOrder'[p] = Tail(toOrder[p])
           /\ \A q \in Peers : q # p => toOrder'[q] = toOrder[q]
           /\ p \in link /\ (type # "regist" => p \in Known)
           /\ \A t : Of(toOrder'[p], t) \subseteq Of(toOrder[p], t)
           /\ \A t : t # type => Of(toOrder'[p], t) = Of(toOrder[p], t)
           /\ Single(toOrder[p]) => Single(toOrder'[p])
<1>1. /\ toOrder \in [Peers -> Seq(Message)] /\ toOrder[p] \in Seq(Message) /\ toOrder[p] # <<>>
      /\ Head(toOrder[p]).type = type /\ toOrder' = [toOrder EXCEPT ![p] = Tail(@)]
  BY DEF TypeOK, Receive
<1>2. /\ Tail(toOrder[p]) \in Seq(Message) /\ Head(toOrder[p]) \in Message
      /\ Head(toOrder[p]) \in Of(toOrder[p], type)
      /\ \A t : Of(Tail(toOrder[p]), t) \subseteq Of(toOrder[p], t)
      /\ \A t : t # type => Of(Tail(toOrder[p]), t) = Of(toOrder[p], t)
  BY <1>1, TailOf
<1>3. /\ toOrder' \in [Peers -> Seq(Message)] /\ toOrder'[p] = Tail(toOrder[p])
      /\ \A q \in Peers : q # p => toOrder'[q] = toOrder[q]
  BY <1>1, <1>2
<1>4. p \in link
  BY <1>1 DEF Wire
<1>5. ASSUME type # "regist", p \notin Known PROVE FALSE
  <2>1. toOrder[p] = <<Regist(held[p])>> /\ held[p] \in Chains
    BY <1>4, <1>5, PeerTypes DEF Wire
  <2>2. Head(toOrder[p]).type = "regist"
    BY <2>1, Messages, OneMessage
  <2> QED BY <1>1, <1>5, <2>2
<1>6. Single(toOrder[p]) => Single(toOrder'[p])
  BY <1>1, <1>3, SingleTaken
<1> QED BY <1>1, <1>2, <1>3, <1>4, <1>5, <1>6

\* Queue r is queue s with m behind it.
Appended(s, r, m) ==
    /\ s \in Seq(Message) /\ r \in Seq(Message) /\ r # <<>>
    /\ Range(r) = Range(s) \cup {m}
    /\ \A t : Of(r, t) = IF m.type = t THEN Of(s, t) \cup {m} ELSE Of(s, t)
    /\ Len(s) \in Nat /\ Len(r) = Len(s) + 1 /\ r[Len(s) + 1] = m
    /\ \A i \in 1..Len(s) : r[i] = s[i]
    /\ s = <<>> => r = <<m>>
    /\ Of(s, "regist") = {} \/ (Single(s) /\ m.type # "regist") => Single(r)

\* Appending a message gains that message.
LEMMA AppendedTo ==
    ASSUME NEW s \in Seq(Message), NEW m \in Message
    PROVE  Appended(s, Append(s, m), m)
<1>1. Len(s) \in Nat
  BY RangeOf
<1>2. s = <<>> => Append(s, m) = <<m>>
  BY OneMessage
<1> QED BY <1>1, <1>2, AppendOf, SingleTaken DEF Appended

\* Sending appends to the queues of those that are sent something.
LEMMA SentIs ==
    ASSUME NEW s \in [Peers -> Seq(Message)], NEW f, DOMAIN f \subseteq Peers,
           \A q \in DOMAIN f : f[q] \in Message
    PROVE  /\ Sent(s, f) \in [Peers -> Seq(Message)]
           /\ \A q \in Peers : q \notin DOMAIN f => Sent(s, f)[q] = s[q]
           /\ \A q \in DOMAIN f : Appended(s[q], Sent(s, f)[q], f[q])
<1> DEFINE r == Sent(s, f)
<1>1. r = [q \in Peers |-> IF q \in DOMAIN f THEN Append(s[q], f[q]) ELSE s[q]]
  BY DEF Sent
<1> HIDE DEF r
<1>2. \A q \in Peers : q \notin DOMAIN f => r[q] = s[q]
  BY <1>1
<1>3. ASSUME NEW q \in DOMAIN f PROVE Appended(s[q], r[q], f[q])
  <2>1. s[q] \in Seq(Message) /\ f[q] \in Message /\ r[q] = Append(s[q], f[q])
    BY <1>1
  <2> QED BY <2>1, AppendedTo
<1>4. \A q \in Peers : r[q] \in Seq(Message)
  BY <1>1, <1>2, <1>3 DEF Appended
<1>5. r \in [Peers -> Seq(Message)]
  BY <1>1, <1>4
<1> QED BY <1>2, <1>3, <1>5 DEF r

LEMMA SentTo ==
    ASSUME TypeOK, NEW f, DOMAIN f \subseteq Peers, \A q \in DOMAIN f : f[q] \in Message, Send(f)
    PROVE  /\ toPeer' \in [Peers -> Seq(Message)]
           /\ \A q \in Peers : q \notin DOMAIN f => toPeer'[q] = toPeer[q]
           /\ \A q \in DOMAIN f : Appended(toPeer[q], toPeer'[q], f[q])
BY SentIs DEF TypeOK, Send

\* One message is sent.
LEMMA SentOne ==
    ASSUME TypeOK, NEW p \in Peers, NEW m \in Message, Send(One(p, m))
    PROVE  /\ toPeer' \in [Peers -> Seq(Message)]
           /\ Appended(toPeer[p], toPeer'[p], m)
           /\ \A q \in Peers : q # p => toPeer'[q] = toPeer[q]
<1> DEFINE f == One(p, m)
<1>1. DOMAIN f = {p} /\ f[p] = m
  BY DEF One
<1>2. Send(f)
  OBVIOUS
<1> HIDE DEF f
<1>3. DOMAIN f \subseteq Peers /\ \A q \in DOMAIN f : f[q] \in Message
  BY <1>1
<1>4. /\ toPeer' \in [Peers -> Seq(Message)]
      /\ \A q \in Peers : q \notin DOMAIN f => toPeer'[q] = toPeer[q]
      /\ \A q \in DOMAIN f : Appended(toPeer[q], toPeer'[q], f[q])
  BY <1>2, <1>3, SentTo
<1> QED BY <1>1, <1>4

\* Sending nothing changes nothing.
LEMMA SentNothing ==
    ASSUME TypeOK, Send(Nothing)
    PROVE  toPeer' = toPeer
BY DEF TypeOK, Send, Sent, Nothing

\* A peer reads what it was sent, and says something.
LEMMA ReadOf ==
    ASSUME TypeOK, NEW p \in Peers, NEW type, Read(p, type)
    PROVE  /\ toPeer[p] \in Seq(Message) /\ toPeer[p] # <<>> /\ Head(toPeer[p]) \in Message
           /\ Head(toPeer[p]).type = type /\ Head(toPeer[p]) \in Of(toPeer[p], type)
           /\ toPeer' \in [Peers -> Seq(Message)] /\ toPeer'[p] = Tail(toPeer[p])
           /\ \A q \in Peers : q # p => toPeer'[q] = toPeer[q]
           /\ \A t : Of(toPeer'[p], t) \subseteq Of(toPeer[p], t)
           /\ Range(toPeer'[p]) \subseteq Range(toPeer[p])
           /\ \A i \in 1..Len(toPeer'[p]) : i + 1 \in 1..Len(toPeer[p]) /\ toPeer'[p][i] = toPeer[p][i + 1]
<1>1. /\ toPeer \in [Peers -> Seq(Message)] /\ toPeer[p] \in Seq(Message) /\ toPeer[p] # <<>>
      /\ Head(toPeer[p]).type = type /\ toPeer' = [toPeer EXCEPT ![p] = Tail(@)]
  BY DEF TypeOK, Read
<1>2. /\ Tail(toPeer[p]) \in Seq(Message) /\ Head(toPeer[p]) \in Message
      /\ Head(toPeer[p]) \in Of(toPeer[p], type)
      /\ \A t : Of(Tail(toPeer[p]), t) \subseteq Of(toPeer[p], t)
      /\ Range(Tail(toPeer[p])) \subseteq Range(toPeer[p])
      /\ \A i \in 1..Len(Tail(toPeer[p])) : i + 1 \in 1..Len(toPeer[p]) /\ Tail(toPeer[p])[i] = toPeer[p][i + 1]
  BY <1>1, TailOf
<1>3. /\ toPeer' \in [Peers -> Seq(Message)] /\ toPeer'[p] = Tail(toPeer[p])
      /\ \A q \in Peers : q # p => toPeer'[q] = toPeer[q]
  BY <1>1, <1>2
<1> QED BY <1>1, <1>2, <1>3

\* What a peer says is the only message its queue gains.
LEMMA SaidOf ==
    ASSUME TypeOK, NEW p \in Peers, NEW m \in Message, Says(p, m)
    PROVE  /\ toOrder' \in [Peers -> Seq(Message)]
           /\ Appended(toOrder[p], toOrder'[p], m)
           /\ \A q \in Peers : q # p => toOrder'[q] = toOrder[q]
<1>1. /\ toOrder \in [Peers -> Seq(Message)] /\ toOrder[p] \in Seq(Message)
      /\ toOrder' = [toOrder EXCEPT ![p] = Append(@, m)]
  BY DEF TypeOK, Says
<1>2. Appended(toOrder[p], Append(toOrder[p], m), m)
  BY <1>1, AppendedTo
<1> QED BY <1>1, <1>2 DEF Appended
-----------------------------------------------------------------------------
(* Steps that leave what is known of the peers as it is. *)

\* Backspaces under way after others were read or something else was sent.
LEMMA BackspacesRead ==
    ASSUME SameNode, NEW p \in Peers, Backspaces(p),
           \A i \in 1..Len(toPeer'[p]) : i + 1 \in 1..Len(toPeer[p]) /\ toPeer'[p][i] = toPeer[p][i + 1]
    PROVE  Backspaces(p)'
<1>1. /\ state' = state /\ Top' = Top /\ (Dead' <=> Dead) /\ (Stuck' <=> Stuck)
      /\ persisted' = persisted /\ (~Closed' => ~Closed)
  BY SameGoals, SameLow DEF SameNode, SameVotes
<1>2. ASSUME NEW i \in 1..Len(toPeer'[p]), toPeer'[p][i].type = "backspace"
      PROVE  /\ state = "normal" \/ (Dead /\ (Stuck \/ state = "sync"))
             /\ ~Closed => toPeer'[p][i].id = Top
  <2>1. i + 1 \in 1..Len(toPeer[p]) /\ toPeer'[p][i] = toPeer[p][i + 1] /\ i + 1 # 1
    BY <1>2
  <2> QED BY <1>2, <2>1 DEF Backspaces
<1> QED BY <1>1, <1>2 DEF Backspaces

\* A peer is told to drop blocks, if at all, to the last persisted one.
LEMMA BackspacesSent ==
    ASSUME SameNode, NEW p \in Peers, Backspaces(p), held'[p] = held[p],
           NEW m, Appended(toPeer[p], toPeer'[p], m),
           m.type = "backspace" =>
               /\ state = "normal" \/ (Dead /\ (Stuck \/ state = "sync"))
               /\ ~Closed => \/ m.id = Top
                             \/ toPeer[p] = <<>> /\ m.id < Top /\ state = "normal" /\ ~IsPrefix(persisted, held[p])
    PROVE  Backspaces(p)'
<1>1. /\ state' = state /\ Top' = Top /\ (Dead' <=> Dead) /\ (Stuck' <=> Stuck)
      /\ persisted' = persisted /\ (~Closed' => ~Closed)
  BY SameGoals, SameLow DEF SameNode, SameVotes
<1>2. /\ Len(toPeer[p]) \in Nat /\ Len(toPeer'[p]) = Len(toPeer[p]) + 1
      /\ toPeer'[p][Len(toPeer[p]) + 1] = m
      /\ \A i \in 1..Len(toPeer[p]) : toPeer'[p][i] = toPeer[p][i]
      /\ toPeer[p] = <<>> => Len(toPeer[p]) + 1 = 1
  BY DEF Appended
<1>3. \A i \in 1..Len(toPeer'[p]) : i \in 1..Len(toPeer[p]) \/ i = Len(toPeer[p]) + 1
  BY <1>2
<1>4. ASSUME NEW i \in 1..Len(toPeer'[p]), toPeer'[p][i].type = "backspace"
      PROVE  /\ state = "normal" \/ (Dead /\ (Stuck \/ state = "sync"))
             /\ ~Closed => \/ toPeer'[p][i].id = Top
                           \/ /\ i = 1 /\ toPeer'[p][i].id < Top
                              /\ state = "normal" /\ ~IsPrefix(persisted, held[p])
  <2>1. CASE i \in 1..Len(toPeer[p])
    BY <1>2, <1>4, <2>1 DEF Backspaces
  <2>2. CASE i = Len(toPeer[p]) + 1
    BY <1>2, <1>4, <2>2
  <2> QED BY <1>3, <2>1, <2>2
<1> QED BY <1>1, <1>4 DEF Backspaces

\* An answer or a block that is not used.
LEMMA IgnoredSafe ==
    ASSUME IInv, NEW p \in Peers, AnswerDropped(p) \/ TableIgnored(p)
    PROVE  IInv'
<1>1. /\ Local(p) /\ Wire(p) /\ TypeOK
      /\ UNCHANGED <<role, known, blocks, alive, link, toPeer, held, faults>>
  BY DEF IInv, Local, AnswerDropped, TableIgnored
<1>2. PICK type \in {"max", "table"} : Receive(p, type)
  BY DEF AnswerDropped, TableIgnored
<1>3. /\ toOrder' \in [Peers -> Seq(Message)] /\ p \in Known
      /\ \A q \in Peers : q # p => toOrder'[q] = toOrder[q]
      /\ \A t : Of(toOrder'[p], t) \subseteq Of(toOrder[p], t)
      /\ Of(toOrder'[p], "regist") = Of(toOrder[p], "regist")
      /\ Single(toOrder[p]) => Single(toOrder'[p])
      /\ toOrder'[p] = Tail(toOrder[p]) /\ toOrder[p] \in Seq(Message) /\ toOrder[p] # <<>>
  BY <1>1, <1>2, Received
<1>4. /\ state' = state /\ vec' = vec /\ persisted' = persisted /\ leads' = leads /\ target' = target /\ dirty' = dirty
      /\ out' = out /\ chain' = chain /\ cur' = cur /\ timer' = timer /\ conn' = conn /\ stale' = stale
      /\ link' = link /\ toPeer' = toPeer /\ held' = held /\ faults' = faults /\ alive' = alive
  BY <1>1 DEF role, known, blocks
<1>5. TypeOK'
  BY <1>1, <1>3, <1>4 DEF TypeOK
<1>6. Queries(p)' = Queries(p) /\ Maxes(p)' \subseteq Maxes(p)
  BY <1>3, <1>4 DEF Queries, Maxes
<1>7. \A q \in Peers \ {p} : SamePeer(q)
  BY <1>3, <1>4 DEF SamePeer, SamePlace, SameMail
<1>8. SameNode
  <2>1. Closed => Closed'
    BY <1>1, <1>4, <1>5, <1>6, <1>7, ClosedStays DEF SamePeer
  <2> QED BY <1>4, <2>1 DEF SameNode, SameVotes
<1>9. /\ Regs(p)' = Regs(p) /\ Backs(p)' = Backs(p) /\ Syncs(p)' = Syncs(p)
      /\ Gets(p)' = Gets(p) /\ Tables(p)' \subseteq Tables(p)
  BY <1>3, <1>4 DEF Regs, Backs, Syncs, Gets, Tables
<1>10. Fetch(p)'
  BY <1>1, <1>4, <1>9 DEF Local, Fetch
<1>11. Idle(p)'
  <2>1. Range(toOrder'[p]) \subseteq Range(toOrder[p])
    BY <1>3, TailOf
  <2> QED BY <1>1, <1>4, <2>1 DEF Local, Idle
<1>12. Backspaces(p)'
  <2>1. /\ Top' = Top /\ (Dead' <=> Dead) /\ (Stuck' <=> Stuck) /\ (~Closed' => ~Closed)
    BY <1>8, SameGoals, SameLow DEF SameNode
  <2> QED BY <1>1, <1>4, <2>1 DEF Local, Backspaces
<1>13. Untold(p) => \A m \in Range(toPeer'[p]) : m.type = "query"
  BY <1>1, <1>4 DEF Local, Quiet
<1>14. Local(p)'
  <2>1. SamePlace(p) /\ held'[p] = held[p] /\ Queries(p)' \subseteq Queries(p)
         /\ Backs(p)' \subseteq Backs(p) /\ Syncs(p)' \subseteq Syncs(p)
    BY <1>4, <1>6, <1>9 DEF SamePlace
  <2> QED BY <1>1, <1>3, <1>6, <1>8, <1>9, <1>10, <1>11, <1>12, <1>13, <2>1, Mailed
<1>15. (p \in Wit => p \in Wit') /\ (p \in Safe => p \in Safe')
  <2>1. Top' = Top
    BY <1>4 DEF Top
  <2> QED BY <1>4, <1>6, <1>9, <2>1 DEF Wit, Safe
<1> QED BY <1>4, <1>5, <1>7, <1>8, <1>14, <1>15, OnePeer

\* A block is requested again.
LEMMA RequestSafe ==
    ASSUME Majority, IInv, NEW p \in Peers,
           \/ TableNotStored(p)
           \/ OnSyncTimeOut /\ p \in DOMAIN conn /\ conn[p] = target /\ Send(One(p, Get(Len(chain) + 1)))
    PROVE  IInv'
<1> DEFINE m == Get(Len(chain) + 1)
<1>1. /\ Local(p) /\ Wire(p) /\ TypeOK /\ Phase /\ Roles
      /\ UNCHANGED <<state, leads, target, timer, known, blocks, alive, link, held>> /\ Send(One(p, m))
  BY DEF IInv, Local, OnSyncTimeOut, TableNotStored, role
<1>2. /\ state' = state /\ vec' = vec /\ persisted' = persisted /\ leads' = leads /\ target' = target
      /\ out' = out /\ chain' = chain /\ cur' = cur /\ timer' = timer /\ conn' = conn /\ stale' = stale
      /\ link' = link /\ held' = held /\ alive' = alive
  BY <1>1 DEF role, known, blocks
<1>3. /\ state = "sync" /\ p \in Known /\ toOrder' \in [Peers -> Seq(Message)]
      /\ \A q \in Peers : q # p => toOrder'[q] = toOrder[q]
      /\ \A t : Of(toOrder'[p], t) \subseteq Of(toOrder[p], t)
      /\ Of(toOrder'[p], "regist") = Of(toOrder[p], "regist")
      /\ Single(toOrder[p]) => Single(toOrder'[p])
      /\ faults' \in 0..MaxFault /\ dirty' \in BOOLEAN
      /\ IsPrefix(target, held[p])
  <2>1. CASE TableNotStored(p)
    <3>1. /\ Receive(p, "table") /\ state = "sync"
          /\ faults' = faults \/ (faults < MaxFault /\ faults' = faults + 1)
          /\ dirty' = dirty \/ dirty' \in BOOLEAN
      BY <2>1 DEF TableNotStored, Expected
    <3>2. /\ p \in Known /\ toOrder' \in [Peers -> Seq(Message)]
          /\ \A q \in Peers : q # p => toOrder'[q] = toOrder[q]
          /\ \A t : Of(toOrder'[p], t) \subseteq Of(toOrder[p], t)
          /\ Of(toOrder'[p], "regist") = Of(toOrder[p], "regist")
          /\ Single(toOrder[p]) => Single(toOrder'[p])
          /\ Head(toOrder[p]) \in Of(toOrder[p], "table")
      <4>1. PICK type \in {"table"} : Receive(p, type)
        BY <3>1
      <4>2. type = "table" /\ type # "regist"
        BY <4>1
      <4> QED BY <1>1, <4>1, <4>2, Received
    <3>3. IsPrefix(target, held[p])
      BY <1>1, <3>1, <3>2 DEF Local, Fetch, Tables
    <3>4. faults' \in 0..MaxFault /\ dirty' \in BOOLEAN
      BY <1>1, <3>1, Bounds DEF TypeOK
    <3> QED BY <3>1, <3>2, <3>3, <3>4
  <2>2. CASE OnSyncTimeOut /\ p \in DOMAIN conn /\ conn[p] = target
    <3>1. toOrder' = toOrder /\ state = "sync" /\ faults' = faults /\ dirty' = dirty
      BY <1>1, <2>2 DEF OnSyncTimeOut, Roles, role
    <3>2. p \in Known /\ Claims(p, target) /\ target \in Chains /\ held[p] \in Chains
      BY <1>1, <2>2 DEF Known, Claims, TypeOK
    <3>3. ~Closed /\ Goal(target) /\ target \in Chains
      BY <1>1, <3>1 DEF Phase, Closed, TypeOK
    <3>4. Agreed(vec, target) /\ (target = persisted \/ Longer(target)) /\ ~Hopeless(vec, target)
      BY <1>1, <3>3, Goals
    <3>5. target = persisted => IsPrefix(persisted, held[p])
      BY <1>1, <3>2, <3>3 DEF Local, Kept
    <3>6. Longer(target) => held[p] = target
      BY <1>1, <3>2, <3>3, <3>4 DEF Local, Kept
    <3>7. IsPrefix(target, held[p])
      BY <3>2, <3>4, <3>5, <3>6, PrefixOrder
    <3> QED BY <1>1, <3>1, <3>2, <3>7 DEF TypeOK
  <2> QED BY <2>1, <2>2
<1>4. /\ Len(chain) + 1 <= Len(target) /\ Len(chain) + 1 \in 0..MaxBlock
  <2>1. Len(chain) < Len(target) /\ chain \in Chains /\ target \in Chains
    BY <1>1, <1>3 DEF Phase, TypeOK
  <2> QED BY <2>1, Lengths, Bounds
<1>5. m \in Message /\ m.type = "get" /\ m.id = Len(chain) + 1
  BY <1>4, Messages
<1> HIDE DEF m
<1>6. /\ toPeer' \in [Peers -> Seq(Message)] /\ Appended(toPeer[p], toPeer'[p], m)
      /\ \A q \in Peers : q # p => toPeer'[q] = toPeer[q]
  BY <1>1, <1>5, SentOne
<1>7. TypeOK'
  BY <1>1, <1>2, <1>3, <1>6 DEF TypeOK
<1>8. \A q \in Peers \ {p} : SamePeer(q)
  BY <1>2, <1>3, <1>6 DEF SamePeer, SamePlace, SameMail
<1>9. /\ Regs(p)' = Regs(p) /\ Maxes(p)' \subseteq Maxes(p) /\ Tables(p)' \subseteq Tables(p)
      /\ Queries(p)' = Queries(p) /\ Backs(p)' = Backs(p) /\ Syncs(p)' = Syncs(p)
      /\ Gets(p)' = Gets(p) \cup {m}
  BY <1>3, <1>5, <1>6 DEF Regs, Maxes, Tables, Queries, Backs, Syncs, Gets, Appended
<1>10. SameNode
  <2>1. Closed => Closed'
    BY <1>3 DEF Closed
  <2> QED BY <1>2, <2>1 DEF SameNode, SameVotes
<1>11. Fetch(p)'
  BY <1>1, <1>2, <1>3, <1>4, <1>5, <1>9 DEF Local, Fetch
<1>12. Idle(p)' /\ ~Untold(p)
  BY <1>2, <1>3 DEF Idle, Untold
<1>13. Backspaces(p)'
  BY <1>1, <1>2, <1>5, <1>6, <1>10, BackspacesSent DEF Local
<1>14. Local(p)'
  <2>1. SamePlace(p) /\ held'[p] = held[p] /\ Queries(p)' \subseteq Queries(p)
         /\ Backs(p)' \subseteq Backs(p) /\ Syncs(p)' \subseteq Syncs(p)
    BY <1>2, <1>9 DEF SamePlace
  <2> QED BY <1>1, <1>3, <1>9, <1>10, <1>11, <1>12, <1>13, <2>1, Mailed
<1>15. (p \in Wit => p \in Wit') /\ (p \in Safe => p \in Safe')
  <2>1. Top' = Top
    BY <1>2 DEF Top
  <2> QED BY <1>2, <1>9, <2>1 DEF Wit, Safe
<1> QED BY <1>2, <1>7, <1>8, <1>10, <1>14, <1>15, OnePeer

\* The timer of the synchronisation asks again for the block that is missing.
LEMMA TimeOutSafe ==
    ASSUME Majority, IInv, OnSyncTimeOut
    PROVE  IInv'
<1>1. PICK p \in DOMAIN conn : conn[p] = target /\ Send(One(p, Get(Len(chain) + 1)))
  BY DEF OnSyncTimeOut
<1>2. p \in Peers
  BY DEF IInv, TypeOK
<1> QED BY <1>1, <1>2, RequestSafe

\* A peer answers a request for a block.
LEMMA PeerTableSafe ==
    ASSUME IInv, NEW p \in Peers, PeerTable(p)
    PROVE  IInv'
<1> DEFINE n == Head(toPeer[p]).id
           c == IF n <= Len(held[p]) THEN SubSeq(held[p], 1, n) ELSE <<>>
           m == Table(n, c)
<1>1. /\ Local(p) /\ Wire(p) /\ TypeOK /\ held' = held /\ Read(p, "get") /\ Says(p, m)
      /\ UNCHANGED <<role, known, blocks, alive, link, faults>>
  BY DEF IInv, Local, PeerTable, Read
<1>2. /\ state' = state /\ vec' = vec /\ persisted' = persisted /\ leads' = leads /\ target' = target /\ dirty' = dirty
      /\ out' = out /\ chain' = chain /\ cur' = cur /\ timer' = timer /\ conn' = conn /\ stale' = stale
      /\ link' = link /\ held' = held /\ alive' = alive /\ faults' = faults
  BY <1>1 DEF role, known, blocks
<1>3. /\ toPeer[p] \in Seq(Message) /\ toPeer[p] # <<>> /\ Head(toPeer[p]) \in Message
      /\ Head(toPeer[p]) \in Of(toPeer[p], "get")
      /\ toPeer' \in [Peers -> Seq(Message)] /\ toPeer'[p] = Tail(toPeer[p])
      /\ \A q \in Peers : q # p => toPeer'[q] = toPeer[q]
      /\ \A t : Of(toPeer'[p], t) \subseteq Of(toPeer[p], t)
      /\ Range(toPeer'[p]) \subseteq Range(toPeer[p])
      /\ \A i \in 1..Len(toPeer'[p]) : i + 1 \in 1..Len(toPeer[p]) /\ toPeer'[p][i] = toPeer[p][i + 1]
  BY <1>1, ReadOf
<1>4. n \in 0..MaxBlock /\ n \in Nat /\ held[p] \in Chains /\ <<>> \in Chains
  <2>1. <<>> \in Chains
    <3>1. Query \in Message /\ Query.chain = <<>>
      BY Messages DEF Query
    <3> QED BY <3>1, MessageIs
  <2> QED BY <1>1, <1>3, <2>1, MessageIs DEF TypeOK
<1>5. c \in Chains /\ (n <= Len(held[p]) => Len(c) = n /\ IsPrefix(c, held[p]))
  <2>1. n <= Len(held[p]) => n \in 0..Len(held[p])
    BY <1>4, Lengths
  <2> QED BY <1>4, <2>1, Cut
<1>6. m \in Message /\ m.type = "table" /\ m.id = n /\ m.chain = c
  BY <1>4, <1>5, Messages
<1>7. c # <<>> => Len(c) = n /\ IsPrefix(c, held[p])
  BY <1>5
<1> HIDE DEF n, c, m
<1>8. /\ toOrder' \in [Peers -> Seq(Message)] /\ Appended(toOrder[p], toOrder'[p], m)
      /\ \A q \in Peers : q # p => toOrder'[q] = toOrder[q]
  BY <1>1, <1>6, SaidOf
<1>9. TypeOK'
  BY <1>1, <1>2, <1>3, <1>8 DEF TypeOK
<1>10. \A q \in Peers \ {p} : SamePeer(q)
  BY <1>2, <1>3, <1>8 DEF SamePeer, SamePlace, SameMail
<1>11. /\ Regs(p)' = Regs(p) /\ Maxes(p)' = Maxes(p) /\ Tables(p)' = Tables(p) \cup {m}
       /\ Queries(p)' \subseteq Queries(p) /\ Backs(p)' \subseteq Backs(p) /\ Syncs(p)' \subseteq Syncs(p)
       /\ Gets(p)' \subseteq Gets(p)
  BY <1>3, <1>6, <1>8 DEF Regs, Maxes, Tables, Queries, Backs, Syncs, Gets, Appended
<1>12. SameNode
  <2>1. Closed => Closed'
    BY <1>1, <1>2, <1>9, <1>10, <1>11, ClosedStays DEF SamePeer
  <2> QED BY <1>2, <2>1 DEF SameNode, SameVotes
<1>13. Fetch(p)'
  <2>1. state # "start"
    BY <1>1, <1>3 DEF Local, Fetch, Gets
  <2>2. ASSUME state = "sync"
        PROVE  IsPrefix(target, held[p]) /\ (c # <<>> => Len(c) = n /\ IsPrefix(c, target))
    <3>1. Head(toPeer[p]).id <= Len(target) /\ IsPrefix(target, held[p]) /\ target \in Chains
      BY <1>1, <1>3, <2>2 DEF Local, Fetch, Gets, TypeOK
    <3>2. c # <<>> => IsPrefix(c, target)
      BY <1>4, <1>5, <1>7, <3>1, PrefixOrder DEF n
    <3> QED BY <1>7, <3>1, <3>2
  <2> QED BY <1>1, <1>2, <1>6, <1>11, <2>1, <2>2 DEF Local, Fetch
<1>14. Idle(p)'
  <2>1. state \notin {"follower", "wait"}
    <3>1. toPeer[p] # <<>>
      BY <1>3
    <3> QED BY <1>1, <3>1 DEF Local, Idle
  <2> QED BY <1>2, <2>1 DEF Idle
<1>15. Backspaces(p)'
  BY <1>1, <1>2, <1>3, <1>12, BackspacesRead DEF Local
<1>16. Untold(p) => \A x \in Range(toPeer'[p]) : x.type = "query"
  BY <1>1, <1>3 DEF Local, Quiet
<1>17. p \in Known
  BY <1>1, <1>3 DEF Wire
<1>18. Local(p)'
  <2>1. SamePlace(p) /\ held'[p] = held[p] /\ (Single(toOrder[p]) => Single(toOrder'[p]))
    BY <1>2, <1>6, <1>8 DEF SamePlace, Appended
  <2>2. Maxes(p)' \subseteq Maxes(p)
    BY <1>11
  <2> QED BY <1>1, <1>11, <1>12, <1>13, <1>14, <1>15, <1>16, <1>17, <2>1, <2>2, Mailed
<1>19. (p \in Wit => p \in Wit') /\ (p \in Safe => p \in Safe')
  <2>1. Top' = Top
    BY <1>2 DEF Top
  <2> QED BY <1>2, <1>11, <2>1 DEF Wit, Safe
<1> QED BY <1>2, <1>9, <1>10, <1>12, <1>18, <1>19, OnePeer
-----------------------------------------------------------------------------
(* Peers do what they are told. *)

\* A peer that was told something is known, and the start is over for it.
LEMMA Reading ==
    ASSUME IInv, NEW p \in Peers, NEW type, Read(p, type)
    PROVE  /\ p \in Known /\ p \in link /\ state \notin {"follower", "wait"}
           /\ type # "query" => ~Untold(p)
<1>1. /\ Wire(p) /\ Idle(p) /\ Quiet(p) /\ TypeOK
  BY DEF IInv, Local
<1>2. /\ toPeer[p] # <<>> /\ toPeer[p] \in Seq(Message) /\ Head(toPeer[p]).type = type
  BY <1>1, ReadOf
<1>3. Head(toPeer[p]) \in Range(toPeer[p])
  BY <1>2, TailOf
<1> QED BY <1>1, <1>2, <1>3 DEF Wire, Idle, Quiet

\* A chain that peers are told to fetch is persisted, or it is chosen and one
\* block behind.
LEMMA GoodIs ==
    ASSUME IInv, NEW c \in Chains, Good(c)
    PROVE  /\ IsPrefix(Front(c), persisted) /\ persisted \in Chains
           /\ IsPrefix(c, persisted) \/ (Chosen(c) /\ Longer(c) /\ Agreed(vec, c) /\ IsPrefix(persisted, c))
<1>1. TypeOK /\ persisted \in Chains /\ DOMAIN vec \subseteq Peers
  BY DEF IInv, TypeOK
<1>2. CASE IsPrefix(c, persisted)
  <2>1. Front(c) \in Chains /\ IsPrefix(Front(c), c)
    BY FrontOf
  <2> QED BY <1>1, <1>2, <2>1, PrefixOrder
<1>3. CASE Chosen(c)
  <2>1. Longer(c) /\ Agreed(vec, c)
    BY <1>3 DEF Chosen
  <2>2. PICK q \in DOMAIN vec : vec[q] = c
    BY <1>1, <2>1, GroupIn
  <2>3. IsPrefix(Front(c), persisted)
    BY <1>1, <2>2 DEF IInv, Local, Fronts
  <2>4. IsPrefix(persisted, c)
    BY <1>1, <2>1, <2>3, Behind DEF Longer, Top
  <2> QED BY <1>1, <1>3, <2>1, <2>3, <2>4
<1> QED BY <1>2, <1>3 DEF Good

\* A peer registers again when what it holds has changed, and only then.
LEMMA Reregistered ==
    ASSUME TypeOK, NEW p \in Peers, held'[p] \in Chains, RegisterIfChanged(p)
    PROVE  /\ toOrder' \in [Peers -> Seq(Message)]
           /\ \A q \in Peers : q # p => toOrder'[q] = toOrder[q]
           /\ Maxes(p)' = Maxes(p) /\ Tables(p)' = Tables(p)
           /\ held'[p] = held[p] => toOrder'[p] = toOrder[p] /\ Regs(p)' = Regs(p)
           /\ held'[p] # held[p] /\ Regs(p) = {} => Single(toOrder'[p])
           /\ \A m \in Regs(p)' : m \in Regs(p) \/ (held'[p] # held[p] /\ m.chain = held'[p])
<1> DEFINE m == Regist(held'[p])
<1>1. m \in Message /\ m.type = "regist" /\ m.chain = held'[p]
  BY Messages
<1>2. CASE held'[p] # held[p]
  <2>1. Says(p, m)
    BY <1>2 DEF RegisterIfChanged
  <2> HIDE DEF m
  <2>2. /\ toOrder' \in [Peers -> Seq(Message)]
        /\ Appended(toOrder[p], toOrder'[p], m)
        /\ \A q \in Peers : q # p => toOrder'[q] = toOrder[q]
    BY <1>1, <2>1, SaidOf
  <2>3. /\ Of(toOrder'[p], "max") = Of(toOrder[p], "max") /\ Of(toOrder'[p], "table") = Of(toOrder[p], "table")
        /\ Of(toOrder'[p], "regist") = Of(toOrder[p], "regist") \cup {m}
        /\ Of(toOrder[p], "regist") = {} => Single(toOrder'[p])
    BY <1>1, <2>2 DEF Appended
  <2> QED BY <1>1, <1>2, <2>2, <2>3 DEF Maxes, Tables, Regs
<1>3. CASE held'[p] = held[p]
  <2>1. toOrder' = toOrder
    BY <1>3 DEF RegisterIfChanged
  <2> QED BY <1>3, <2>1 DEF TypeOK, Maxes, Tables, Regs
<1> QED BY <1>2, <1>3

\* A peer answers the query.
LEMMA PeerAnswerSafe ==
    ASSUME IInv, NEW p \in Peers, PeerAnswer(p)
    PROVE  IInv'
<1> DEFINE m == Answer(held[p])
<1>1. /\ Local(p) /\ TypeOK /\ held' = held /\ Read(p, "query") /\ Says(p, m)
      /\ UNCHANGED <<role, known, blocks, alive, link, faults>>
  BY DEF IInv, PeerAnswer, Read
<1>2. /\ state' = state /\ vec' = vec /\ persisted' = persisted /\ leads' = leads /\ target' = target /\ dirty' = dirty
      /\ out' = out /\ chain' = chain /\ cur' = cur /\ timer' = timer /\ conn' = conn /\ stale' = stale
      /\ link' = link /\ held' = held /\ alive' = alive /\ faults' = faults
  BY <1>1 DEF role, known, blocks
<1>3. /\ toPeer[p] \in Seq(Message) /\ toPeer[p] # <<>>
      /\ Head(toPeer[p]) \in Of(toPeer[p], "query")
      /\ toPeer' \in [Peers -> Seq(Message)]
      /\ \A q \in Peers : q # p => toPeer'[q] = toPeer[q]
      /\ \A t : Of(toPeer'[p], t) \subseteq Of(toPeer[p], t)
      /\ Range(toPeer'[p]) \subseteq Range(toPeer[p])
      /\ \A i \in 1..Len(toPeer'[p]) : i + 1 \in 1..Len(toPeer[p]) /\ toPeer'[p][i] = toPeer[p][i + 1]
  BY <1>1, ReadOf
<1>4. p \in Known /\ p \in link /\ state \notin {"follower", "wait"}
  BY <1>1, Reading
<1>5. held[p] \in Chains /\ m \in Message /\ m.type = "max" /\ m.chain = held[p]
  BY <1>1, Messages DEF TypeOK
<1> HIDE DEF m
<1>6. /\ toOrder' \in [Peers -> Seq(Message)] /\ Appended(toOrder[p], toOrder'[p], m)
      /\ \A q \in Peers : q # p => toOrder'[q] = toOrder[q]
  BY <1>1, <1>5, SaidOf
<1>7. TypeOK'
  BY <1>1, <1>2, <1>3, <1>6 DEF TypeOK
<1>8. \A q \in Peers \ {p} : SamePeer(q)
  BY <1>2, <1>3, <1>6 DEF SamePeer, SamePlace, SameMail
<1>9. /\ Regs(p)' = Regs(p) /\ Maxes(p)' = Maxes(p) \cup {m} /\ Tables(p)' = Tables(p)
      /\ Queries(p)' \subseteq Queries(p) /\ Backs(p)' \subseteq Backs(p) /\ Syncs(p)' \subseteq Syncs(p)
      /\ Gets(p)' \subseteq Gets(p) /\ Queries(p) # {}
      /\ Single(toOrder[p]) => Single(toOrder'[p])
  BY <1>3, <1>5, <1>6 DEF Regs, Maxes, Tables, Queries, Backs, Syncs, Gets, Appended
<1>10. SameNode
  <2>1. Closed => Closed'
    BY <1>1, <1>2, <1>7, <1>8, <1>9, ClosedStays DEF SamePeer
  <2> QED BY <1>2, <2>1 DEF SameNode, SameVotes
<1>11. /\ Top' = Top /\ (Low' => Low) /\ (~Closed' => ~Closed)
       /\ \A c : (Longer(c)' <=> Longer(c)) /\ (Good(c)' <=> Good(c))
       /\ Untold(p)' <=> Untold(p)
       /\ Live' = Live /\ Known' = Known
  BY <1>2, <1>10, NodeFacts DEF Live, Known
<1>12. \A c : Claims(p, c)' => Claims(p, c) \/ c = held[p]
  BY <1>2, <1>5, <1>9 DEF Claims
<1>13. Wire(p)' /\ Fronts(p)' /\ Idle(p)'
  BY <1>1, <1>2, <1>4, <1>5, <1>9, <1>11 DEF Local, Wire, Fronts, Idle
<1>14. Quiet(p)' /\ Leads(p)'
  BY <1>1, <1>2, <1>3, <1>9, <1>11, <1>12 DEF Local, Quiet, Leads
<1>15. Kept(p)'
  BY <1>1, <1>2, <1>5, <1>11, <1>12, PrefixOrder DEF Local, Kept
<1>16. Backspaces(p)'
  BY <1>1, <1>3, <1>10, BackspacesRead DEF Local
<1>17. Fetch(p)'
  BY <1>1, <1>2, <1>9 DEF Local, Fetch
<1>18. Answering(p)'
  BY <1>1, <1>2, <1>5, <1>9, <1>11 DEF Local, Answering
<1>19. Dropping(p)' /\ OutKept(p)'
  BY <1>1, <1>2, <1>9, <1>11 DEF Local, Dropping, OutKept
<1>20. (p \in Wit => p \in Wit') /\ (p \in Safe => p \in Safe')
  BY <1>2, <1>5, <1>9, <1>11 DEF Wit, Safe
<1>21. Local(p)'
  BY <1>13, <1>14, <1>15, <1>16, <1>17, <1>18, <1>19 DEF Local
<1> QED BY <1>2, <1>7, <1>8, <1>10, <1>20, <1>21, OnePeer

\* A peer drops the blocks it is told to drop: never one a quorum needs.
LEMMA PeerBackspaceSafe ==
    ASSUME Majority, IInv, NEW p \in Peers, PeerBackspace(p)
    PROVE  IInv'
<1> DEFINE n == Head(toPeer[p]).id
<1>1. /\ Local(p) /\ TypeOK /\ Phase /\ Roles /\ Read(p, "backspace") /\ RegisterIfChanged(p)
      /\ held' = [held EXCEPT ![p] = IF Len(@) > n THEN SubSeq(@, 1, n) ELSE @]
      /\ UNCHANGED <<role, known, blocks, alive, link, faults>>
  BY DEF IInv, PeerBackspace, Read
<1>2. /\ state' = state /\ vec' = vec /\ persisted' = persisted /\ leads' = leads /\ target' = target /\ dirty' = dirty
      /\ out' = out /\ chain' = chain /\ cur' = cur /\ timer' = timer /\ conn' = conn /\ stale' = stale
      /\ link' = link /\ alive' = alive /\ faults' = faults
  BY <1>1 DEF role, known, blocks
<1>3. /\ toPeer[p] \in Seq(Message) /\ toPeer[p] # <<>> /\ Head(toPeer[p]) \in Message
      /\ Head(toPeer[p]).type = "backspace" /\ Head(toPeer[p]) \in Of(toPeer[p], "backspace")
      /\ toPeer' \in [Peers -> Seq(Message)]
      /\ \A q \in Peers : q # p => toPeer'[q] = toPeer[q]
      /\ \A t : Of(toPeer'[p], t) \subseteq Of(toPeer[p], t)
      /\ \A i \in 1..Len(toPeer'[p]) : i + 1 \in 1..Len(toPeer[p]) /\ toPeer'[p][i] = toPeer[p][i + 1]
  BY <1>1, ReadOf
<1>4. /\ p \in Known /\ p \in link /\ state \notin {"follower", "wait"} /\ ~Untold(p)
  <2>1. PICK type \in {"backspace"} : Read(p, type)
    BY <1>1
  <2>2. type # "query"
    BY <2>1
  <2> QED BY <2>1, <2>2, Reading
<1>5. n \in Nat /\ held[p] \in Chains /\ persisted \in Chains /\ IsPrefix(Front(held[p]), persisted)
      /\ Len(held[p]) \in Nat /\ Top \in Nat
  BY <1>1, <1>3, MessageIs, Lengths DEF TypeOK, Local, Fronts, Top
\* What the message says.
<1>6. /\ state = "normal" \/ (Dead /\ (Stuck \/ state = "sync"))
      /\ ~Closed => \/ n = Top
                    \/ n < Top /\ state = "normal" /\ ~IsPrefix(persisted, held[p])
      /\ Head(toPeer[p]) \in Backs(p)
  <2>1. 1 \in 1..Len(toPeer[p]) /\ Head(toPeer[p]) = toPeer[p][1]
    BY <1>3, TailOf
  <2> QED BY <1>1, <1>3, <2>1 DEF Local, Backspaces, Backs
<1>7. ~Closed => Dead
  <2>1. state = "normal" /\ ~Closed => Agreed(vec, persisted)
    BY <1>1 DEF Phase
  <2> QED BY <1>1, <1>6, <2>1, Goals
<1> HIDE DEF n
\* What the peer holds then.
<1>8. /\ held' \in [Peers -> Chains] /\ held'[p] \in Chains
      /\ \A q \in Peers : q # p => held'[q] = held[q]
      /\ \/ held'[p] = held[p]
         \/ /\ IsPrefix(held'[p], persisted) /\ Len(held'[p]) = n /\ n < Len(held[p])
            /\ IsPrefix(held'[p], held[p]) /\ held'[p] # held[p]
  <2>1. CASE Len(held[p]) > n
    <3>1. n \in 0..Len(held[p]) /\ n < Len(held[p])
      BY <1>5, <2>1
    <3>2. /\ SubSeq(held[p], 1, n) \in Chains /\ Len(SubSeq(held[p], 1, n)) = n
          /\ IsPrefix(SubSeq(held[p], 1, n), held[p])
      BY <1>5, <3>1, Cut
    <3>3. IsPrefix(SubSeq(held[p], 1, n), persisted)
      BY <1>5, <3>1, Behind
    <3>4. held' = [held EXCEPT ![p] = SubSeq(held[p], 1, n)]
      BY <1>1, <2>1 DEF n
    <3>5. held \in [Peers -> Chains]
      BY <1>1 DEF TypeOK
    <3> QED BY <1>5, <3>1, <3>2, <3>3, <3>4, <3>5
  <2>2. CASE ~(Len(held[p]) > n)
    <3>1. held' = held
      BY <1>1, <2>2 DEF n, TypeOK
    <3> QED BY <1>1, <3>1 DEF TypeOK
  <2> QED BY <2>1, <2>2
<1>9. IsPrefix(persisted, held[p]) /\ n >= Top => IsPrefix(persisted, held'[p])
  <2>1. Len(held'[p]) \in Nat
    BY <1>8, Lengths
  <2> QED BY <1>5, <1>8, <2>1, PrefixOrder DEF Top
<1>10. held'[p] # held[p] => ~Longer(held'[p]) /\ (out # <<>> => held'[p] # out)
  <2>1. held'[p] # held[p] => Len(held'[p]) <= Top
    BY <1>5, <1>8, PrefixOrder DEF Top
  <2>2. out = <<>> \/ Len(out) = Top + 1
    BY <1>1 DEF Roles, Phase, Top
  <2>3. held'[p] # held[p] => ~Longer(held'[p])
    BY <1>5, <1>8, <2>1, Lengths DEF Longer
  <2>4. out # <<>> => (held'[p] # held[p] => held'[p] # out)
    BY <2>2, <2>3 DEF Longer
  <2> QED BY <2>3, <2>4
<1>11. /\ toOrder' \in [Peers -> Seq(Message)]
       /\ \A q \in Peers : q # p => toOrder'[q] = toOrder[q]
       /\ Maxes(p)' = Maxes(p) /\ Tables(p)' = Tables(p)
       /\ held'[p] = held[p] => toOrder'[p] = toOrder[p] /\ Regs(p)' = Regs(p)
       /\ held'[p] # held[p] /\ Regs(p) = {} => Single(toOrder'[p])
       /\ \A m \in Regs(p)' : m \in Regs(p) \/ (held'[p] # held[p] /\ m.chain = held'[p])
  BY <1>1, <1>8, Reregistered
<1>12. TypeOK'
  BY <1>1, <1>2, <1>3, <1>8, <1>11 DEF TypeOK
<1>13. \A q \in Peers \ {p} : SamePeer(q)
  BY <1>2, <1>3, <1>8, <1>11 DEF SamePeer, SamePlace, SameMail
<1>14. /\ Queries(p)' \subseteq Queries(p) /\ Backs(p)' \subseteq Backs(p) /\ Syncs(p)' \subseteq Syncs(p)
       /\ Gets(p)' \subseteq Gets(p)
  BY <1>3 DEF Queries, Backs, Syncs, Gets
<1>15. SameNode
  <2>1. Closed => Closed'
    BY <1>1, <1>2, <1>11, <1>12, <1>13, <1>14, ClosedStays DEF SamePeer
  <2> QED BY <1>2, <2>1 DEF SameNode, SameVotes
<1>16. /\ Top' = Top /\ (Low' => Low) /\ (~Closed' => ~Closed)
       /\ \A c : (Longer(c)' <=> Longer(c)) /\ (Good(c)' <=> Good(c))
       /\ Untold(p)' <=> Untold(p)
       /\ Live' = Live /\ Known' = Known
  BY <1>2, <1>15, NodeFacts DEF Live, Known
<1>17. \A c : Claims(p, c)' => Claims(p, c) \/ c = held'[p]
  BY <1>2, <1>11 DEF Claims
<1>18. Wire(p)' /\ Fronts(p)' /\ Idle(p)'
  <2>1. held'[p] # held[p] => IsPrefix(Front(held'[p]), persisted)
    BY <1>5, <1>8, FrontOf, PrefixOrder
  <2> QED BY <1>1, <1>2, <1>4, <1>11, <1>16, <2>1 DEF Local, Wire, Fronts, Idle
<1>19. Quiet(p)' /\ Leads(p)'
  BY <1>1, <1>2, <1>4, <1>8, <1>11, <1>14, <1>16 DEF Local, Quiet, Leads, Good
<1>20. Kept(p)'
  <2>1. SUFFICES ASSUME ~Closed, NEW c \in Chains, Claims(p, c) \/ c = held'[p]
                 PROVE  /\ c = persisted => IsPrefix(persisted, held'[p])
                        /\ Longer(c) /\ ~Hopeless(vec, c) => held'[p] = c
    BY <1>2, <1>16, <1>17 DEF Kept
  <2>2. Longer(c) => Hopeless(vec, c)
    BY <1>7, <2>1 DEF Dead
  <2>3. c = persisted /\ Claims(p, c) => IsPrefix(persisted, held'[p])
    BY <1>1, <1>5, <1>6, <1>9, <2>1 DEF Local, Kept
  <2> QED BY <1>5, <2>1, <2>2, <2>3, PrefixOrder
<1>21. Backspaces(p)'
  BY <1>1, <1>3, <1>15, BackspacesRead DEF Local
<1>22. Fetch(p)'
  <2>1. ASSUME state = "sync" PROVE target = persisted /\ n = Top
    <3>1. Goal(target) /\ ~Closed /\ target \in Chains
      BY <1>1, <2>1 DEF Phase, Closed, TypeOK
    <3>2. ~Chosen(target)
      BY <1>1, <1>7, <3>1, Goals
    <3> QED BY <1>6, <2>1, <3>1, <3>2 DEF Goal
  <2>2. state = "sync" /\ IsPrefix(target, held[p]) => IsPrefix(target, held'[p])
    BY <1>5, <1>9, <2>1
  <2> QED BY <1>1, <1>2, <1>11, <1>14, <2>2 DEF Local, Fetch
<1>23. Answering(p)'
  <2>1. Backs(p) # {}
    BY <1>6
  <2> QED BY <1>1, <1>2, <1>10, <1>11, <1>14, <1>16, <2>1 DEF Local, Answering
<1>24. Dropping(p)'
  <2>1. CASE held'[p] = held[p]
    BY <1>1, <1>2, <1>11, <1>14, <1>16, <2>1 DEF Local, Dropping
  <2>2. CASE held'[p] # held[p]
    <3>1. SUFFICES ASSUME Low, leads, p \in Live, Longer(vec[p])
                   PROVE  /\ held'[p] = persisted /\ p \notin DOMAIN conn /\ Single(toOrder'[p])
      BY <1>2, <1>5, <1>16, PrefixOrder DEF Dropping
    <3>2. /\ IsPrefix(persisted, held[p])
          /\ Regs(p) # {} => held[p] = persisted
          /\ held[p] # persisted => p \notin DOMAIN conn
      BY <1>1, <1>6, <3>1 DEF Local, Dropping
    <3>3. n = Top /\ IsPrefix(persisted, held'[p])
      BY <1>5, <1>6, <1>9, <3>1, <3>2 DEF Low
    <3>4. held'[p] = persisted
      BY <1>5, <1>8, <2>2, <3>3, PrefixOrder DEF Top
    <3> QED BY <1>11, <2>2, <3>2, <3>4
  <2> QED BY <2>1, <2>2
<1>25. OutKept(p)'
  BY <1>1, <1>2, <1>10, <1>11, <1>14 DEF Local, OutKept
<1>26. /\ ~Closed => (p \in Wit => p \in Wit')
       /\ p \in Safe => p \in Safe'
  <2>1. p \in Safe => n >= Top
    BY <1>6 DEF Safe, n
  <2>2. ~Closed /\ IsPrefix(persisted, held[p]) => n >= Top
    BY <1>5, <1>6
  <2> QED BY <1>2, <1>9, <1>11, <1>14, <1>16, <2>1, <2>2 DEF Wit, Safe
<1>27. Local(p)'
  BY <1>18, <1>19, <1>20, <1>21, <1>22, <1>23, <1>24, <1>25 DEF Local
<1> QED BY <1>2, <1>12, <1>13, <1>15, <1>26, <1>27, OnePeer

\* A peer fetches the blocks it is told to fetch.
LEMMA PeerSyncSafe ==
    ASSUME Majority, IInv, NEW p \in Peers, PeerSync(p)
    PROVE  IInv'
<1> DEFINE c == Head(toPeer[p]).chain
<1>1. /\ Local(p) /\ TypeOK /\ Phase /\ Roles /\ Read(p, "sync") /\ RegisterIfChanged(p)
      /\ held' = [held EXCEPT ![p] = IF Len(@) <= Len(c) THEN c ELSE @]
      /\ UNCHANGED <<role, known, blocks, alive, link, faults>>
  BY DEF IInv, PeerSync, Read
<1>2. /\ state' = state /\ vec' = vec /\ persisted' = persisted /\ leads' = leads /\ target' = target /\ dirty' = dirty
      /\ out' = out /\ chain' = chain /\ cur' = cur /\ timer' = timer /\ conn' = conn /\ stale' = stale
      /\ link' = link /\ alive' = alive /\ faults' = faults
  BY <1>1 DEF role, known, blocks
<1>3. /\ toPeer[p] \in Seq(Message) /\ toPeer[p] # <<>> /\ Head(toPeer[p]) \in Message
      /\ Head(toPeer[p]).type = "sync" /\ Head(toPeer[p]) \in Of(toPeer[p], "sync")
      /\ toPeer' \in [Peers -> Seq(Message)] /\ toPeer'[p] = Tail(toPeer[p])
      /\ \A q \in Peers : q # p => toPeer'[q] = toPeer[q]
      /\ \A t : Of(toPeer'[p], t) \subseteq Of(toPeer[p], t)
      /\ \A i \in 1..Len(toPeer'[p]) : i + 1 \in 1..Len(toPeer[p]) /\ toPeer'[p][i] = toPeer[p][i + 1]
  BY <1>1, ReadOf
<1>4. /\ p \in Known /\ p \in link /\ state \notin {"follower", "wait"} /\ ~Untold(p)
  <2>1. PICK type \in {"sync"} : Read(p, type)
    BY <1>1
  <2>2. type # "query"
    BY <2>1
  <2> QED BY <2>1, <2>2, Reading
<1>5. /\ c \in Chains /\ held[p] \in Chains /\ persisted \in Chains /\ Good(c)
      /\ Len(held[p]) \in Nat /\ Len(c) \in Nat /\ Top \in Nat
  <2>1. Good(c)
    BY <1>1, <1>3 DEF Local, Leads, Syncs
  <2> QED BY <1>1, <1>3, <2>1, MessageIs, Lengths DEF TypeOK, Top
<1> HIDE DEF c
<1>6. /\ IsPrefix(Front(c), persisted)
      /\ IsPrefix(c, persisted) \/ (Chosen(c) /\ Longer(c) /\ Agreed(vec, c) /\ IsPrefix(persisted, c))
  BY <1>5, GoodIs
\* What the peer holds then.
<1>7. /\ held' \in [Peers -> Chains] /\ held'[p] \in Chains
      /\ \A q \in Peers : q # p => held'[q] = held[q]
      /\ held'[p] = held[p] \/ (held'[p] = c /\ Len(held[p]) <= Len(c))
  BY <1>1, <1>5 DEF TypeOK
<1>8. IsPrefix(persisted, held[p]) => IsPrefix(persisted, held'[p])
  <2>1. IsPrefix(persisted, held[p]) => Top <= Len(held[p])
    BY <1>5, PrefixOrder DEF Top
  <2>2. IsPrefix(c, persisted) /\ Top <= Len(c) => c = persisted
    BY <1>5, PrefixOrder DEF Top
  <2> QED BY <1>5, <1>6, <1>7, <2>1, <2>2, PrefixOrder
<1>9. IsPrefix(c, persisted) => ~Longer(c)
  BY <1>5, PrefixOrder DEF Longer, Top
<1>10. Longer(held[p]) /\ held'[p] # held[p] => Chosen(c) /\ Longer(c) /\ Agreed(vec, c)
  BY <1>5, <1>6, <1>7, PrefixOrder DEF Longer, Top
<1>11. /\ toOrder' \in [Peers -> Seq(Message)]
       /\ \A q \in Peers : q # p => toOrder'[q] = toOrder[q]
       /\ Maxes(p)' = Maxes(p) /\ Tables(p)' = Tables(p)
       /\ held'[p] = held[p] => toOrder'[p] = toOrder[p] /\ Regs(p)' = Regs(p)
       /\ \A m \in Regs(p)' : m \in Regs(p) \/ (held'[p] # held[p] /\ m.chain = held'[p])
  BY <1>1, <1>7, Reregistered
<1>12. TypeOK'
  BY <1>1, <1>2, <1>3, <1>7, <1>11 DEF TypeOK
<1>13. \A q \in Peers \ {p} : SamePeer(q)
  BY <1>2, <1>3, <1>7, <1>11 DEF SamePeer, SamePlace, SameMail
<1>14. /\ Queries(p)' \subseteq Queries(p) /\ Backs(p)' \subseteq Backs(p) /\ Syncs(p)' \subseteq Syncs(p)
       /\ Gets(p)' \subseteq Gets(p)
  BY <1>3 DEF Queries, Backs, Syncs, Gets
<1>15. SameNode
  <2>1. Closed => Closed'
    BY <1>1, <1>2, <1>11, <1>12, <1>13, <1>14, ClosedStays DEF SamePeer
  <2> QED BY <1>2, <2>1 DEF SameNode, SameVotes
<1>16. /\ Top' = Top /\ (Low' => Low) /\ (~Closed' => ~Closed)
       /\ \A d : (Longer(d)' <=> Longer(d)) /\ (Good(d)' <=> Good(d))
       /\ Untold(p)' <=> Untold(p)
       /\ Live' = Live /\ Known' = Known
  BY <1>2, <1>15, NodeFacts DEF Live, Known
<1>17. \A d : Claims(p, d)' => Claims(p, d) \/ d = held'[p]
  BY <1>2, <1>11 DEF Claims
<1>18. Wire(p)' /\ Fronts(p)' /\ Idle(p)'
  BY <1>1, <1>2, <1>4, <1>6, <1>7, <1>11, <1>16 DEF Local, Wire, Fronts, Idle
<1>19. Quiet(p)' /\ Leads(p)'
  BY <1>1, <1>2, <1>4, <1>5, <1>7, <1>11, <1>14, <1>16 DEF Local, Quiet, Leads
<1>20. Kept(p)'
  <2>1. SUFFICES ASSUME ~Closed, NEW d \in Chains, Claims(p, d) \/ d = held'[p]
                 PROVE  /\ d = persisted => IsPrefix(persisted, held'[p])
                        /\ Longer(d) /\ ~Hopeless(vec, d) => held'[p] = d
    BY <1>2, <1>16, <1>17 DEF Kept
  <2>2. CASE d = held'[p]
    BY <1>5, <2>2, PrefixOrder
  <2>3. CASE Claims(p, d)
    <3>1. /\ d = persisted => IsPrefix(persisted, held[p])
          /\ Longer(d) /\ ~Hopeless(vec, d) => held[p] = d
      BY <1>1, <2>1, <2>3 DEF Local, Kept
    <3>2. ASSUME Longer(d), ~Hopeless(vec, d), held'[p] # held[p] PROVE held'[p] = d
      <4>1. Agreed(vec, c) /\ held'[p] = c
        BY <1>7, <1>10, <3>1, <3>2
      <4> QED BY <1>1, <3>2, <4>1, Goals
    <3> QED BY <1>8, <3>1, <3>2
  <2> QED BY <2>1, <2>2, <2>3
<1>21. Backspaces(p)'
  BY <1>1, <1>3, <1>15, BackspacesRead DEF Local
<1>22. Fetch(p)'
  <2>1. ASSUME state = "sync", IsPrefix(target, held[p]), held'[p] # held[p]
        PROVE  IsPrefix(target, held'[p])
    <3>1. Goal(target) /\ target \in Chains /\ (target = persisted \/ (Longer(target) /\ Agreed(vec, target)))
      BY <1>1, <2>1, Goals DEF Phase, TypeOK
    <3>2. CASE target = persisted
      BY <1>8, <2>1, <3>2
    <3>3. CASE Longer(target) /\ Agreed(vec, target)
      <4>1. Len(target) <= Len(held[p]) /\ Len(held[p]) <= Len(c) /\ Len(target) \in Nat
        BY <1>5, <1>7, <2>1, <3>1, PrefixOrder, Lengths
      <4>2. ~IsPrefix(c, persisted)
        <5>1. IsPrefix(c, persisted) => Len(c) <= Top
          BY <1>5, PrefixOrder DEF Top
        <5> QED BY <1>5, <3>3, <4>1, <5>1 DEF Longer
      <4>3. c = target
        BY <1>1, <1>6, <3>3, <4>2, Goals
      <4> QED BY <1>5, <1>7, <2>1, <4>3, PrefixOrder
    <3> QED BY <3>1, <3>2, <3>3
  <2> QED BY <1>1, <1>2, <1>11, <1>14, <2>1 DEF Local, Fetch
<1>23. Low => IsPrefix(c, persisted)
  BY <1>1, <1>6, Goals DEF Low
<1>24. Answering(p)'
  <2>1. ASSUME Low, Longer(held[p]) \/ Longer(held'[p]) PROVE held'[p] = held[p]
    BY <1>7, <1>9, <1>10, <1>23, <2>1
  <2>2. held'[p] = held[p] => toOrder'[p] = toOrder[p] /\ Regs(p)' = Regs(p)
    BY <1>11
  <2> QED BY <1>1, <1>2, <1>11, <1>14, <1>16, <2>1, <2>2 DEF Local, Answering
<1>25. Dropping(p)'
  <2>1. SUFFICES ASSUME Low, leads, p \in Live, Longer(vec[p])
                 PROVE  held'[p] = held[p]
    BY <1>1, <1>2, <1>11, <1>14, <1>16 DEF Local, Dropping
  <2>2. IsPrefix(persisted, held[p]) /\ IsPrefix(c, persisted)
    BY <1>1, <1>23, <2>1 DEF Local, Dropping
  <2>3. CASE Len(held[p]) <= Len(c)
    <3>1. Top <= Len(held[p]) /\ Len(c) <= Top
      BY <1>5, <2>2, PrefixOrder DEF Top
    <3>2. Len(held[p]) <= Len(persisted) /\ Len(persisted) <= Len(c)
      BY <1>5, <2>3, <3>1 DEF Top
    <3>3. held[p] = persisted /\ c = persisted
      BY <1>5, <2>2, <3>2, PrefixOrder
    <3> QED BY <1>7, <3>3
  <2>4. CASE ~(Len(held[p]) <= Len(c))
    BY <1>7, <2>4
  <2> QED BY <2>3, <2>4
<1>26. OutKept(p)'
  <2>1. out # <<>> => state = "normal" /\ Len(out) = Top + 1
    BY <1>1 DEF Roles, Phase, Top
  <2>2. out # <<>> => IsPrefix(c, persisted)
    BY <1>6, <2>1 DEF Chosen
  <2>3. out # <<>> /\ held'[p] = out => held'[p] = held[p]
    BY <1>7, <1>9, <2>1, <2>2 DEF Longer
  <2> QED BY <1>1, <1>2, <1>11, <1>14, <2>3 DEF Local, OutKept
<1>27. (p \in Wit => p \in Wit') /\ (p \in Safe => p \in Safe')
  BY <1>2, <1>8, <1>11, <1>14, <1>16 DEF Wit, Safe
<1>28. Local(p)'
  BY <1>18, <1>19, <1>20, <1>21, <1>22, <1>24, <1>25, <1>26 DEF Local
<1> QED BY <1>2, <1>12, <1>13, <1>15, <1>27, <1>28, OnePeer
-----------------------------------------------------------------------------
(* Connections. *)

\* Nothing but the registration is under way between the node and a peer that
\* is not connected, or not registered.
LEMMA Blank ==
    ASSUME SameNode, TypeOK, NEW p \in Peers, Local(p), p \notin Known', held'[p] = held[p],
           toPeer'[p] = <<>>,
           \/ p \notin link' /\ toOrder'[p] = <<>>
           \/ p \in link' /\ toOrder'[p] = <<Regist(held[p])>>
    PROVE  Local(p)'
<1>1. /\ state' = state /\ vec' = vec /\ persisted' = persisted /\ leads' = leads /\ target' = target
      /\ out' = out /\ Top' = Top /\ (Low' => Low) /\ (~Closed' => ~Closed)
      /\ \A c : (Longer(c)' <=> Longer(c)) /\ (Good(c)' <=> Good(c))
      /\ Untold(p)' <=> Untold(p)
  BY NodeFacts
<1>2. /\ Queries(p)' = {} /\ Backs(p)' = {} /\ Syncs(p)' = {} /\ Gets(p)' = {}
      /\ Range(toPeer'[p]) = {} /\ Len(toPeer'[p]) = 0
  BY NoMessages DEF Queries, Backs, Syncs, Gets
<1> DEFINE r == Regist(held[p])
<1>3. held[p] \in Chains /\ persisted \in Chains /\ r \in Message /\ r.type = "regist" /\ r.chain = held[p]
  BY Messages DEF TypeOK
<1>4. toOrder'[p] = <<>> \/ toOrder'[p] = <<r>>
  OBVIOUS
<1> HIDE DEF r
<1>5. /\ Maxes(p)' = {} /\ Tables(p)' = {} /\ Regs(p)' \subseteq {r} /\ Range(toOrder'[p]) \subseteq {r}
  BY <1>3, <1>4, NoMessages, OneMessage DEF Maxes, Tables, Regs
<1>6. p \notin DOMAIN conn' /\ p \notin Live'
  BY DEF Known
<1>7. \A c : Claims(p, c)' => Claims(p, c) \/ c = held[p]
  BY <1>1, <1>3, <1>5, <1>6 DEF Claims
<1>8. Wire(p)' /\ Fronts(p)' /\ Idle(p)'
  BY <1>1, <1>2, <1>3, <1>5 DEF Local, Wire, Fronts, Idle
<1>9. Quiet(p)' /\ Leads(p)'
  BY <1>1, <1>2, <1>7 DEF Local, Quiet, Leads
<1>10. Kept(p)'
  BY <1>1, <1>3, <1>7, PrefixOrder DEF Local, Kept
<1>11. Backspaces(p)'
  BY <1>2 DEF Backspaces
<1>12. Fetch(p)' /\ Answering(p)' /\ Dropping(p)' /\ OutKept(p)'
  BY <1>2, <1>5, <1>6 DEF Fetch, Answering, Dropping, OutKept
<1> QED BY <1>8, <1>9, <1>10, <1>11, <1>12 DEF Local

\* A connection breaks or opens.
LEMMA ConnectSafe ==
    ASSUME IInv, NEW p \in Peers, PeerConnect(p) \/ OnNetworkError(p)
    PROVE  IInv'
<1>1. /\ Local(p) /\ Wire(p) /\ TypeOK
  BY DEF IInv, Local
<1>2. /\ UNCHANGED <<role, vec, blocks, alive, held>>
      /\ conn' = Without(conn, {p})
      /\ stale' = stale \cup ({p} \cap DOMAIN vec)
      /\ toPeer' \in [Peers -> Seq(Message)] /\ toOrder' \in [Peers -> Seq(Message)]
      /\ \A q \in Peers : q # p => toOrder'[q] = toOrder[q] /\ toPeer'[q] = toPeer[q]
      /\ toPeer'[p] = <<>>
      /\ \/ link' = link \ {p} /\ toOrder'[p] = <<>>
         \/ link' = link \cup {p} /\ toOrder'[p] = <<Regist(held[p])>>
      /\ faults' \in 0..MaxFault
  <2>1. CASE PeerConnect(p)
    <3> DEFINE r == Regist(held[p])
    <3>1. /\ UNCHANGED <<role, known, blocks, alive, toPeer, held, faults>>
          /\ p \notin link /\ link' = link \cup {p} /\ Says(p, r)
      BY <2>1 DEF PeerConnect
    <3>2. p \notin Known /\ toPeer[p] = <<>> /\ toOrder[p] = <<>>
      BY <1>1, <3>1 DEF Wire
    <3>3. p \notin DOMAIN conn /\ (p \in DOMAIN vec => p \in stale) /\ stale \subseteq DOMAIN vec
      BY <1>1, <3>2 DEF Known, Live, TypeOK
    <3>4. conn' = Without(conn, {p}) /\ stale' = stale \cup ({p} \cap DOMAIN vec)
      <4>1. conn' = conn /\ stale' = stale
        BY <3>1 DEF known
      <4>2. conn = [q \in DOMAIN conn |-> conn[q]] /\ DOMAIN conn \ {p} = DOMAIN conn
        BY <1>1, <3>3 DEF TypeOK
      <4>3. Without(conn, {p}) = conn
        BY <4>2 DEF Without
      <4> QED BY <3>3, <4>1, <4>3
    <3>5. r \in Message
      BY <1>1, Messages DEF TypeOK
    <3> HIDE DEF r
    <3>6. /\ toOrder' \in [Peers -> Seq(Message)] /\ toOrder'[p] = <<r>>
          /\ \A q \in Peers : q # p => toOrder'[q] = toOrder[q]
      BY <1>1, <3>1, <3>2, <3>5, SaidOf DEF Appended
    <3> QED BY <1>1, <3>1, <3>2, <3>4, <3>6 DEF r, TypeOK, known
  <2>2. CASE OnNetworkError(p)
    <3>1. /\ toPeer \in [Peers -> Seq(Message)] /\ toOrder \in [Peers -> Seq(Message)]
          /\ toPeer' = [toPeer EXCEPT ![p] = <<>>] /\ toOrder' = [toOrder EXCEPT ![p] = <<>>]
          /\ <<>> \in Seq(Message)
      BY <1>1, <2>2 DEF TypeOK, OnNetworkError
    <3>2. /\ toPeer' \in [Peers -> Seq(Message)] /\ toOrder' \in [Peers -> Seq(Message)]
          /\ \A q \in Peers : q # p => toOrder'[q] = toOrder[q] /\ toPeer'[q] = toPeer[q]
          /\ toPeer'[p] = <<>> /\ toOrder'[p] = <<>>
      BY <3>1
    <3>3. faults' \in 0..MaxFault
      BY <1>1, <2>2, Bounds DEF TypeOK, OnNetworkError
    <3> QED BY <2>2, <3>2, <3>3 DEF OnNetworkError
  <2> QED BY <2>1, <2>2
<1>3. /\ state' = state /\ vec' = vec /\ persisted' = persisted /\ leads' = leads /\ target' = target /\ dirty' = dirty
      /\ out' = out /\ chain' = chain /\ cur' = cur /\ timer' = timer
      /\ held' = held /\ alive' = alive
  BY <1>2 DEF role, blocks
<1>4. /\ DOMAIN conn' = DOMAIN conn \ {p} /\ \A q \in DOMAIN conn' : conn'[q] = conn[q]
      /\ \A q \in Peers : q # p => ((q \in link' <=> q \in link) /\ (q \in stale' <=> q \in stale))
      /\ p \notin DOMAIN conn' /\ p \notin Live'
  BY <1>2, <1>3 DEF Without, Live
<1>5. TypeOK'
  <2>1. conn' \in [DOMAIN conn' -> Chains]
    BY <1>1, <1>2, <1>4 DEF TypeOK, Without
  <2>2. DOMAIN conn' \subseteq link' /\ link' \subseteq Peers /\ stale' \subseteq DOMAIN vec
    BY <1>1, <1>2, <1>4 DEF TypeOK
  <2> QED BY <1>1, <1>2, <1>3, <2>1, <2>2 DEF TypeOK
<1>6. \A q \in Peers \ {p} : SamePeer(q)
  BY <1>2, <1>3, <1>4 DEF SamePeer, SamePlace, SameMail
<1>7. /\ Queries(p)' = {} /\ Maxes(p)' = {} /\ Backs(p)' = {}
  <2>1. held[p] \in Chains
    BY <1>1 DEF TypeOK
  <2>2. Regist(held[p]) \in Message /\ Regist(held[p]).type = "regist"
    BY <2>1, Messages
  <2>3. Of(toOrder'[p], "max") = {}
    BY <1>2, <2>2, NoMessages, OneMessage
  <2> QED BY <1>2, <2>3, NoMessages DEF Queries, Maxes, Backs
<1>8. SameNode
  <2>1. Closed => Closed'
    BY <1>1, <1>3, <1>5, <1>6, <1>7, ClosedStays DEF SamePeer
  <2> QED BY <1>3, <2>1 DEF SameNode, SameVotes
<1>9. Local(p)'
  <2>1. p \notin Known' /\ held'[p] = held[p] /\ (p \notin link' \/ p \in link')
    BY <1>3, <1>4 DEF Known
  <2> QED BY <1>1, <1>2, <1>8, <2>1, Blank
<1>10. (p \in Wit => p \in Wit') /\ (p \in Safe => p \in Safe')
  BY <1>3, <1>7, <1>8, NodeFacts DEF Wit, Safe
<1> QED BY <1>3, <1>5, <1>6, <1>8, <1>9, <1>10, OnePeer

\* The block under way reaches a peer.
LEMMA DeliverSafe ==
    ASSUME Majority, IInv, NEW p \in Peers, Deliver(p)
    PROVE  IInv'
<1>1. /\ Local(p) /\ TypeOK /\ Roles /\ Phase
      /\ UNCHANGED <<role, known, blocks, alive, link, toPeer, toOrder, faults>>
      /\ out # <<>> /\ p \in DOMAIN conn /\ toPeer[p] = <<>> /\ held[p] = Front(out)
      /\ held' = [held EXCEPT ![p] = out]
  BY DEF IInv, Deliver
<1>2. /\ state' = state /\ vec' = vec /\ persisted' = persisted /\ leads' = leads /\ target' = target /\ dirty' = dirty
      /\ out' = out /\ chain' = chain /\ cur' = cur /\ timer' = timer /\ conn' = conn /\ stale' = stale
      /\ link' = link /\ alive' = alive /\ faults' = faults /\ toPeer' = toPeer /\ toOrder' = toOrder
  BY <1>1 DEF role, known, blocks
<1>3. /\ state = "normal" /\ Front(out) = persisted /\ Len(out) = Top + 1 /\ out \in Chains
      /\ held[p] = persisted /\ persisted \in Chains
  BY <1>1 DEF Roles, Phase, Top, TypeOK
<1>4. IsPrefix(persisted, out) /\ IsPrefix(Front(out), persisted) /\ ~Longer(held[p])
  <2>1. IsPrefix(Front(out), persisted)
    BY <1>3, PrefixOrder
  <2> QED BY <1>3, <2>1, Behind, Lengths DEF Top, Longer
<1>5. /\ held' \in [Peers -> Chains] /\ held'[p] = out /\ \A q \in Peers : q # p => held'[q] = held[q]
  BY <1>1, <1>3 DEF TypeOK
<1>6. TypeOK'
  BY <1>1, <1>2, <1>5 DEF TypeOK
<1>7. \A q \in Peers \ {p} : SamePeer(q)
  BY <1>2, <1>5 DEF SamePeer, SamePlace, SameMail
<1>8. SameNode
  <2>1. Closed => Closed'
    BY <1>2 DEF Closed, Asked
  <2> QED BY <1>2, <2>1 DEF SameNode, SameVotes
<1>9. /\ Top' = Top /\ (Low' => Low) /\ (~Closed' => ~Closed)
      /\ \A c : (Longer(c)' <=> Longer(c)) /\ (Good(c)' <=> Good(c))
      /\ Untold(p)' <=> Untold(p)
      /\ Live' = Live /\ Known' = Known /\ p \in Known
  BY <1>1, <1>2, <1>8, NodeFacts DEF Live, Known
<1>10. /\ Queries(p) = {} /\ Backs(p) = {} /\ Syncs(p) = {} /\ Gets(p) = {} /\ Len(toPeer[p]) = 0
       /\ Queries(p)' = {} /\ Backs(p)' = {} /\ Syncs(p)' = {} /\ Gets(p)' = {}
       /\ Regs(p)' = Regs(p) /\ Maxes(p)' = Maxes(p) /\ Tables(p)' = Tables(p)
  BY <1>1, <1>2, NoMessages DEF Queries, Backs, Syncs, Gets, Regs, Maxes, Tables
<1>11. \A c : Claims(p, c)' => Claims(p, c)
  BY <1>2, <1>10 DEF Claims
<1>12. Wire(p)' /\ Fronts(p)' /\ Idle(p)'
  BY <1>1, <1>2, <1>3, <1>4, <1>5, <1>9, <1>10 DEF Local, Wire, Fronts, Idle
<1>13. Quiet(p)' /\ Leads(p)'
  BY <1>1, <1>2, <1>3, <1>9, <1>10 DEF Local, Quiet, Leads, Untold
<1>14. Kept(p)'
  <2>1. ~Closed => Dead
    BY <1>1, <1>3, Goals DEF Phase
  <2> QED BY <1>2, <1>4, <1>5, <1>9, <1>11, <2>1 DEF Kept, Dead
<1>15. Backspaces(p)' /\ Fetch(p)'
  BY <1>2, <1>3, <1>10 DEF Backspaces, Fetch
<1>16. Answering(p)'
  BY <1>1, <1>2, <1>4, <1>9, <1>10 DEF Local, Answering
<1>17. Dropping(p)' /\ OutKept(p)'
  BY <1>1, <1>2, <1>4, <1>5, <1>9, <1>10 DEF Local, Dropping, OutKept
<1>18. (p \in Wit => p \in Wit') /\ (p \in Safe => p \in Safe')
  BY <1>2, <1>4, <1>5, <1>9, <1>10 DEF Wit, Safe
<1>19. Local(p)'
  BY <1>12, <1>13, <1>14, <1>15, <1>16, <1>17 DEF Local
<1> QED BY <1>2, <1>6, <1>7, <1>8, <1>18, <1>19, OnePeer
-----------------------------------------------------------------------------
(* Registration. *)

\* What a registration changes before the state is looked at.
LEMMA Registering ==
    ASSUME IInv, NEW p \in Peers, Register(p)
    PROVE  /\ Head(toOrder[p]) \in Regs(p) /\ Head(toOrder[p]).chain \in Chains
           /\ toOrder' \in [Peers -> Seq(Message)] /\ toOrder'[p] = Tail(toOrder[p])
           /\ \A q \in Peers : q # p => toOrder'[q] = toOrder[q]
           /\ p \in link
           /\ Regs(p)' \subseteq Regs(p) /\ Maxes(p)' = Maxes(p) /\ Tables(p)' = Tables(p)
           /\ Range(toOrder'[p]) \subseteq Range(toOrder[p])
           /\ Single(toOrder[p]) => Regs(p)' = {}
           /\ p \notin Known => /\ Head(toOrder[p]).chain = held[p]
                                /\ toPeer[p] = <<>> /\ toOrder'[p] = <<>>
           /\ p \in Known => Good(Head(toOrder[p]).chain) /\ ~Untold(p)
           /\ DOMAIN conn' = DOMAIN conn \cup {p} /\ conn'[p] = Head(toOrder[p]).chain
           /\ \A q \in DOMAIN conn : q # p => conn'[q] = conn[q]
           /\ conn' \in [DOMAIN conn' -> Chains]
           /\ UNCHANGED <<leads, target, timer, dirty, vec, stale, chain, cur, out, persisted, link, held, faults>>
<1>1. /\ Wire(p) /\ Quiet(p) /\ Leads(p) /\ TypeOK /\ Receive(p, "regist")
      /\ conn' = Set(conn, p, Head(toOrder[p]).chain)
      /\ UNCHANGED <<leads, target, timer, dirty, vec, stale, chain, cur, out, persisted, link, held, faults>>
  BY DEF IInv, Local, Register, blocks
<1>2. /\ toOrder[p] \in Seq(Message) /\ toOrder[p] # <<>> /\ Head(toOrder[p]) \in Message
      /\ Head(toOrder[p]).type = "regist" /\ Head(toOrder[p]) \in Of(toOrder[p], "regist")
      /\ toOrder' \in [Peers -> Seq(Message)] /\ toOrder'[p] = Tail(toOrder[p])
      /\ \A q \in Peers : q # p => toOrder'[q] = toOrder[q]
      /\ p \in link
      /\ \A t : Of(toOrder'[p], t) \subseteq Of(toOrder[p], t)
      /\ \A t : t # "regist" => Of(toOrder'[p], t) = Of(toOrder[p], t)
  <2>1. PICK type \in {"regist"} : Receive(p, type)
    BY <1>1
  <2>2. type = "regist"
    BY <2>1
  <2> QED BY <1>1, <2>1, <2>2, Received
<1>3. /\ Regs(p)' \subseteq Regs(p) /\ Maxes(p)' = Maxes(p) /\ Tables(p)' = Tables(p)
      /\ Head(toOrder[p]) \in Regs(p) /\ Head(toOrder[p]).chain \in Chains
  BY <1>2, MessageIs DEF Regs, Maxes, Tables
<1>4. Range(toOrder'[p]) \subseteq Range(toOrder[p]) /\ (Single(toOrder[p]) => Regs(p)' = {})
  BY <1>2, TailOf, SingleTaken DEF Regs
<1>5. p \notin Known => /\ Head(toOrder[p]).chain = held[p]
                        /\ toPeer[p] = <<>> /\ toOrder'[p] = <<>>
  <2> DEFINE r == Regist(held[p])
  <2>1. r \in Message /\ r.chain = held[p]
    BY <1>1, Messages DEF TypeOK
  <2>2. p \notin Known => toPeer[p] = <<>> /\ toOrder[p] = <<r>>
    BY <1>1, <1>2 DEF Wire
  <2> HIDE DEF r
  <2> QED BY <1>2, <2>1, <2>2, OneMessage
<1>6. p \in Known => Good(Head(toOrder[p]).chain) /\ ~Untold(p)
  BY <1>1, <1>3 DEF Leads, Quiet
<1>7. /\ DOMAIN conn' = DOMAIN conn \cup {p} /\ conn'[p] = Head(toOrder[p]).chain
      /\ \A q \in DOMAIN conn : q # p => conn'[q] = conn[q]
      /\ conn' \in [DOMAIN conn' -> Chains]
  BY <1>1, <1>3 DEF Set, TypeOK
<1> QED BY <1>1, <1>2, <1>3, <1>4, <1>5, <1>6, <1>7

\* A registration that does not begin the start is answered with a query, with
\* a chain to fetch, or, a peer that was not known, with a block to drop to.
LEMMA Replied ==
    ASSUME Majority, IInv, NEW p \in Peers, Register(p), state' = state
    PROVE  \/ toPeer' = toPeer
           \/ /\ state \notin {"follower", "wait"}
              /\ \E m \in Message :
                 /\ Send(One(p, m))
                 /\ m.type \in {"query", "sync", "backspace"}
                 /\ m.type = "query" <=> state = "start"
                 /\ m.type = "sync" => Good(m.chain)
                 /\ m.type = "backspace" =>
                      /\ p \notin Known /\ (state = "normal" \/ (Dead /\ state = "sync"))
                      /\ m.id = Top \/ (m.id < Top /\ state = "normal" /\ ~IsPrefix(persisted, held[p]))
                      /\ out # <<>> => held[p] # out
<1> DEFINE tip == Head(toOrder[p]).chain
           Fit(m) == /\ m.type \in {"query", "sync", "backspace"}
                     /\ m.type = "query" <=> state = "start"
                     /\ m.type = "sync" => Good(m.chain)
                     /\ m.type = "backspace" =>
                          /\ p \notin Known /\ (state = "normal" \/ (Dead /\ state = "sync"))
                          /\ m.id = Top \/ (m.id < Top /\ state = "normal" /\ ~IsPrefix(persisted, held[p]))
                          /\ out # <<>> => held[p] # out
<1>1. /\ TypeOK /\ Roles /\ Phase /\ Local(p) /\ tip \in Chains
      /\ p \notin Known => tip = held[p]
      /\ p \in Known => Good(tip)
  BY Registering DEF IInv
<1>2. /\ persisted \in Chains /\ target \in Chains /\ out \in Chains /\ held[p] \in Chains
      /\ Top \in Nat /\ Len(tip) \in Nat /\ Len(target) \in Nat
      /\ Top <= MaxBlock /\ Len(target) <= MaxBlock /\ MaxBlock \in Nat
  BY <1>1, Lengths, Bounds DEF TypeOK, Top
<1>3. /\ IsPrefix(persisted, persisted)
      /\ IsPrefix(tip, persisted) => Len(tip) <= Top
      /\ Len(held[p]) <= Top + 1
  BY <1>1, <1>2, PrefixOrder, Behind DEF Local, Fronts, Top
<1> HIDE DEF tip
<1>4. CASE state \in {"follower", "wait"}
  BY <1>4 DEF Register
<1>5. CASE state = "start"
  <2>1. Send(One(p, Query)) /\ Query \in Message /\ Fit(Query)
    BY <1>5, Messages DEF Register
  <2> QED BY <1>5, <2>1
<1>6. CASE state = "sync"
  <2>1. Send(SyncStateReply(p, tip))
    BY <1>6 DEF Register, tip
  <2>2. Goal(target) /\ (target = persisted \/ Longer(target))
    BY <1>1, <1>6, Goals DEF Phase
  <2>3. CASE Len(tip) > Len(target)
    <3> DEFINE m == Backspace(Len(target))
    <3>1. Send(One(p, m)) /\ m \in Message /\ m.type = "backspace" /\ m.id = Len(target)
      BY <1>2, <2>1, <2>3, Messages DEF SyncStateReply
    <3> HIDE DEF m
    <3>2. p \notin Known
      <4>1. Chosen(tip) => tip = target
        BY <1>1, <2>2, Goals DEF Goal
      <4> QED BY <1>1, <1>2, <1>3, <2>2, <2>3, <4>1 DEF Good, Longer, Top
    <3>3. target = persisted
      BY <1>1, <1>2, <1>3, <2>2, <2>3, <3>2 DEF Longer
    <3>4. Dead /\ out = <<>>
      BY <1>1, <1>6, <2>2, <3>3, Goals DEF Roles
    <3>5. m.id = Top
      BY <3>1, <3>3 DEF Top
    <3>6. Fit(m)
      BY <1>6, <3>1, <3>2, <3>4, <3>5
    <3> QED BY <1>6, <3>1, <3>6
  <2>4. CASE ~(Len(tip) > Len(target)) /\ tip # target /\ Registered(target) # {}
    <3> DEFINE m == SyncTo(target)
    <3>1. Send(One(p, m)) /\ m \in Message /\ m.type = "sync" /\ m.chain = target
      BY <1>2, <2>1, <2>4, Messages DEF SyncStateReply
    <3> HIDE DEF m
    <3>2. Good(target)
      BY <1>3, <2>2 DEF Goal, Good
    <3> QED BY <1>6, <3>1, <3>2
  <2>5. CASE ~(Len(tip) > Len(target)) /\ ~(tip # target /\ Registered(target) # {})
    <3>1. Send(Nothing)
      BY <2>1, <2>5 DEF SyncStateReply
    <3> QED BY <1>1, <3>1, SentNothing
  <2> QED BY <2>3, <2>4, <2>5
<1>7. CASE state = "normal"
  <2>1. Send(NormalStateReply(p, tip)) /\ chain = persisted /\ Len(chain) = Top
    BY <1>1, <1>7 DEF Register, tip, Phase, Top
  <2>2. /\ p \in Known => IsPrefix(tip, persisted)
        /\ out # <<>> => Len(out) = Top + 1
    BY <1>1, <1>7, <2>1 DEF Good, Chosen, Roles
  <2>3. CASE Len(tip) < Len(chain)
    <3> DEFINE m == SyncTo(persisted)
    <3>1. Send(One(p, m)) /\ m \in Message /\ m.type = "sync" /\ m.chain = persisted
      BY <1>2, <2>1, <2>3, Messages DEF NormalStateReply
    <3> HIDE DEF m
    <3>2. Good(persisted)
      BY <1>3 DEF Good
    <3> QED BY <1>7, <3>1, <3>2
  <2>4. CASE ~(Len(tip) < Len(chain)) /\ Len(tip) = Len(chain) + 1 /\ tip # out
    <3> DEFINE m == Backspace(Len(chain))
    <3>1. Send(One(p, m)) /\ m \in Message /\ m.type = "backspace" /\ m.id = Top
      BY <1>2, <2>1, <2>4, Messages DEF NormalStateReply
    <3> HIDE DEF m
    <3>2. p \notin Known
      BY <1>2, <1>3, <2>1, <2>2, <2>4
    <3>3. Fit(m)
      BY <1>1, <1>7, <2>4, <3>1, <3>2
    <3> QED BY <1>7, <3>1, <3>3
  <2>5. CASE ~(Len(tip) < Len(chain)) /\ ~(Len(tip) = Len(chain) + 1 /\ tip # out)
    <3>1. CASE Len(tip) = Len(chain) /\ tip # chain
      <4>1. Top # 0
        BY <1>1, <1>2, <2>1, <3>1, Lengths
      <4> DEFINE m == Backspace(Len(chain) - 1)
      <4>2. /\ Send(One(p, m)) /\ m \in Message /\ m.type = "backspace"
            /\ m.id = Top - 1
        BY <1>2, <2>1, <2>5, <3>1, <4>1, Messages DEF NormalStateReply
      <4> HIDE DEF m
      <4>3. ~IsPrefix(tip, persisted) /\ ~IsPrefix(persisted, tip)
        BY <1>1, <1>2, <2>1, <3>1, PrefixOrder DEF Top
      <4>4. p \notin Known /\ tip = held[p]
        BY <1>1, <2>2, <4>3
      <4>5. out # <<>> => held[p] # out
        BY <1>2, <2>1, <2>2, <3>1, <4>4
      <4>6. Fit(m)
        BY <1>2, <1>7, <4>1, <4>2, <4>3, <4>4, <4>5
      <4> QED BY <1>7, <4>2, <4>6
    <3>2. CASE ~(Len(tip) = Len(chain) /\ tip # chain)
      <4>1. Send(Nothing)
        BY <2>1, <2>5, <3>2 DEF NormalStateReply
      <4> QED BY <1>1, <4>1, SentNothing
    <3> QED BY <3>1, <3>2
  <2> QED BY <2>3, <2>4, <2>5
<1> QED BY <1>1, <1>4, <1>5, <1>6, <1>7 DEF TypeOK

\* A peer registers with a node that does not start because of it.
LEMMA RegisterSafe ==
    ASSUME Majority, IInv, NEW p \in Peers, Register(p), state' = state
    PROVE  IInv'
<1> DEFINE tip == Head(toOrder[p]).chain
<1>1. /\ Head(toOrder[p]) \in Regs(p) /\ tip \in Chains
      /\ toOrder' \in [Peers -> Seq(Message)] /\ toOrder'[p] = Tail(toOrder[p])
      /\ \A q \in Peers : q # p => toOrder'[q] = toOrder[q]
      /\ p \in link
      /\ Regs(p)' \subseteq Regs(p) /\ Maxes(p)' = Maxes(p) /\ Tables(p)' = Tables(p)
      /\ Range(toOrder'[p]) \subseteq Range(toOrder[p])
      /\ Single(toOrder[p]) => Regs(p)' = {}
      /\ p \notin Known => tip = held[p] /\ toPeer[p] = <<>> /\ toOrder'[p] = <<>>
      /\ p \in Known => Good(tip) /\ ~Untold(p)
      /\ DOMAIN conn' = DOMAIN conn \cup {p} /\ conn'[p] = tip
      /\ \A q \in DOMAIN conn : q # p => conn'[q] = conn[q]
      /\ conn' \in [DOMAIN conn' -> Chains]
      /\ UNCHANGED <<leads, target, timer, dirty, vec, stale, chain, cur, out, persisted, link, held, faults>>
  BY Registering
<1>2. \E c \in {tip} : Claims(p, c) /\ conn'[p] = c /\ (p \notin Known => c = held[p])
  BY <1>1 DEF Claims
<1> HIDE DEF tip
<1>3. /\ TypeOK /\ Local(p) /\ Wire(p) /\ Roles
      /\ toPeer \in [Peers -> Seq(Message)] /\ toPeer[p] \in Seq(Message)
      /\ held[p] \in Chains /\ Top \in Nat
  BY PeerTypes DEF IInv, Local, TypeOK
<1>4. p \notin Known => /\ Regs(p)' = {} /\ Maxes(p)' = {} /\ Tables(p)' = {}
                        /\ Queries(p) = {} /\ Backs(p) = {} /\ Syncs(p) = {} /\ Gets(p) = {}
  BY <1>1, NoMessages DEF Regs, Maxes, Tables, Queries, Backs, Syncs, Gets
\* What the peer is sent.
<1>5. /\ toPeer' \in [Peers -> Seq(Message)]
      /\ \A q \in Peers : q # p => toPeer'[q] = toPeer[q]
      /\ Range(toPeer[p]) \subseteq Range(toPeer'[p])
      /\ Gets(p)' = Gets(p)
      /\ \/ toPeer'[p] = toPeer[p]
         \/ state \notin {"follower", "wait"} /\ \E m \in Message : Appended(toPeer[p], toPeer'[p], m)
      /\ \A m \in Range(toPeer'[p]) : m \in Range(toPeer[p]) \/ state # "start" \/ m.type = "query"
      /\ \A m \in Syncs(p)' : m \in Syncs(p) \/ Good(m.chain)
      /\ state # "start" => Queries(p)' = Queries(p)
      /\ p \in Known => Backs(p)' = Backs(p)
      /\ state = "start" => Backs(p)' = Backs(p)
      /\ \A m \in Backs(p)' : m \in Backs(p) \/ m.id >= Top \/ ~IsPrefix(persisted, held[p])
      /\ out # <<>> /\ held[p] = out => Backs(p)' = Backs(p)
  <2>1. CASE toPeer' = toPeer
    BY <1>3, <2>1 DEF Gets, Syncs, Queries, Backs
  <2>2. CASE state \notin {"follower", "wait"} /\ \E m \in Message :
                 /\ Send(One(p, m))
                 /\ m.type \in {"query", "sync", "backspace"}
                 /\ m.type = "query" <=> state = "start"
                 /\ m.type = "sync" => Good(m.chain)
                 /\ m.type = "backspace" =>
                      /\ p \notin Known /\ (state = "normal" \/ (Dead /\ state = "sync"))
                      /\ m.id = Top \/ (m.id < Top /\ state = "normal" /\ ~IsPrefix(persisted, held[p]))
                      /\ out # <<>> => held[p] # out
    <3>1. PICK m \in Message :
                 /\ Send(One(p, m))
                 /\ m.type \in {"query", "sync", "backspace"}
                 /\ m.type = "query" <=> state = "start"
                 /\ m.type = "sync" => Good(m.chain)
                 /\ m.type = "backspace" =>
                      /\ p \notin Known /\ (state = "normal" \/ (Dead /\ state = "sync"))
                      /\ m.id = Top \/ (m.id < Top /\ state = "normal" /\ ~IsPrefix(persisted, held[p]))
                      /\ out # <<>> => held[p] # out
      BY <2>2
    <3>2. /\ toPeer' \in [Peers -> Seq(Message)]
          /\ Appended(toPeer[p], toPeer'[p], m)
          /\ \A q \in Peers : q # p => toPeer'[q] = toPeer[q]
      BY <1>3, <3>1, SentOne
    <3>3. /\ Range(toPeer'[p]) = Range(toPeer[p]) \cup {m}
          /\ Gets(p)' = Gets(p)
          /\ Syncs(p)' = IF m.type = "sync" THEN Syncs(p) \cup {m} ELSE Syncs(p)
          /\ Queries(p)' = IF m.type = "query" THEN Queries(p) \cup {m} ELSE Queries(p)
          /\ Backs(p)' = IF m.type = "backspace" THEN Backs(p) \cup {m} ELSE Backs(p)
      BY <3>1, <3>2 DEF Appended, Gets, Syncs, Queries, Backs
    <3>4. m.type = "backspace" => m.id >= Top \/ ~IsPrefix(persisted, held[p])
      BY <1>3, <3>1
    <3> QED BY <2>2, <3>1, <3>2, <3>3, <3>4
  <2> QED BY <2>1, <2>2, Replied
<1>6. /\ alive' \in BOOLEAN
  BY <1>3 DEF Register, SyncStateSafe, TypeOK
<1>7. TypeOK'
  <2>1. DOMAIN conn' \subseteq link
    BY <1>1, <1>3 DEF TypeOK
  <2> QED BY <1>1, <1>3, <1>5, <1>6, <2>1 DEF TypeOK
<1>8. \A q \in Peers \ {p} : SamePeer(q)
  BY <1>1, <1>5 DEF SamePeer, SamePlace, SameMail
<1>9. SameNode
  <2>1. Closed => Closed'
    BY <1>1, <1>3, <1>5, <1>7, <1>8, ClosedStays DEF SamePeer
  <2> QED BY <1>1, <2>1 DEF SameNode, SameVotes
<1>10. /\ Top' = Top /\ (Low' => Low) /\ (~Closed' => ~Closed)
       /\ \A c : (Longer(c)' <=> Longer(c)) /\ (Good(c)' <=> Good(c))
       /\ Untold(p)' <=> Untold(p)
       /\ Live' = Live /\ Known' = Known \cup {p}
       /\ Untold(p) => state \in {"follower", "wait", "start"} /\ p \notin Known
  BY <1>1, <1>9, NodeFacts DEF Live, Known, Untold
<1>11. \A c : Claims(p, c)' => Claims(p, c) /\ (p \notin Known => c = held[p] \/ p \in DOMAIN vec)
  BY <1>1, <1>2, <1>4 DEF Claims
<1>12. Wire(p)' /\ Fronts(p)' /\ Idle(p)'
  BY <1>1, <1>3, <1>5, <1>10 DEF Local, Wire, Fronts, Idle
<1>13. Quiet(p)'
  <2>1. SUFFICES ASSUME Untold(p)
                 PROVE  /\ \A c \in Chains : Claims(p, c)' => c = held[p]
                        /\ \A m \in Range(toPeer'[p]) : m.type = "query"
                        /\ Regs(p)' = {}
    BY <1>1, <1>10 DEF Quiet
  <2>2. p \notin Known /\ state \in {"follower", "wait", "start"} /\ Range(toPeer[p]) = {}
    BY <1>1, <1>10, <2>1, NoMessages
  <2>3. \A m \in Range(toPeer'[p]) : m.type = "query"
    BY <1>5, <2>2
  <2> QED BY <1>3, <1>4, <1>11, <2>1, <2>2, <2>3 DEF Local, Quiet
<1>14. Leads(p)'
  BY <1>1, <1>3, <1>4, <1>5, <1>10 DEF Local, Leads
<1>15. Kept(p)'
  BY <1>1, <1>3, <1>9, <1>10, <1>11 DEF Local, Kept
<1>16. Backspaces(p)'
  <2>1. CASE toPeer' = toPeer
    BY <1>1, <1>3, <1>9, <2>1, NodeFacts DEF Local, Backspaces
  <2>2. CASE \E m \in Message :
                 /\ Send(One(p, m))
                 /\ m.type = "backspace" =>
                      /\ p \notin Known /\ (state = "normal" \/ (Dead /\ state = "sync"))
                      /\ m.id = Top \/ (m.id < Top /\ state = "normal" /\ ~IsPrefix(persisted, held[p]))
    <3>1. PICK m \in Message :
                 /\ Send(One(p, m))
                 /\ m.type = "backspace" =>
                      /\ p \notin Known /\ (state = "normal" \/ (Dead /\ state = "sync"))
                      /\ m.id = Top \/ (m.id < Top /\ state = "normal" /\ ~IsPrefix(persisted, held[p]))
      BY <2>2
    <3>2. Appended(toPeer[p], toPeer'[p], m)
      BY <1>3, <3>1, SentOne
    <3>3. Backspaces(p) /\ held'[p] = held[p]
      BY <1>1, <1>3 DEF Local
    <3> QED BY <1>1, <1>9, <3>1, <3>2, <3>3, BackspacesSent
  <2> QED BY <2>1, <2>2, Replied
<1>17. Fetch(p)'
  BY <1>1, <1>3, <1>5 DEF Local, Fetch
<1>18. Answering(p)'
  <2>1. SUFFICES ASSUME Low, p \notin DOMAIN vec
                 PROVE  /\ \A m \in Maxes(p)' : Longer(m.chain) =>
                             held[p] = m.chain /\ Regs(p)' = {} /\ Backs(p)' = {}
                        /\ Queries(p)' # {} /\ Longer(held[p]) => Regs(p)' = {} /\ Backs(p)' = {}
    BY <1>1, <1>10 DEF Answering
  <2>2. CASE p \in Known
    <3>1. state # "start"
      <4>1. state = "start" => ~Split
        BY <2>1 DEF Low, Stuck
      <4> QED BY <1>1, <2>1, <2>2, <4>1 DEF Untold
    <3> QED BY <1>1, <1>3, <1>5, <2>1, <2>2, <3>1 DEF Local, Answering
  <2>3. CASE p \notin Known
    BY <1>4, <1>5, <2>1, <2>3
  <2> QED BY <2>2, <2>3
<1>19. Dropping(p)'
  <2>1. SUFFICES ASSUME Low, leads, p \in Live, Longer(vec[p])
                 PROVE  IsPrefix(persisted, held[p]) /\ Regs(p)' = {} /\ held[p] = persisted
    BY <1>1, <1>10 DEF Dropping
  <2> QED BY <1>1, <1>3, <2>1 DEF Local, Dropping
<1>20. OutKept(p)'
  BY <1>1, <1>3, <1>5 DEF Local, OutKept
<1>21. (p \in Wit => p \in Wit') /\ (p \in Safe => p \in Safe')
  BY <1>1, <1>5, <1>10 DEF Wit, Safe
<1>22. Local(p)'
  BY <1>12, <1>13, <1>14, <1>15, <1>16, <1>17, <1>18, <1>19, <1>20 DEF Local
<1> QED BY <1>1, <1>7, <1>8, <1>9, <1>21, <1>22, OnePeer
-----------------------------------------------------------------------------
(* The node's part changes. *)

\* A step that changes neither answers, mail nor connections keeps the invariant
\* if it keeps the parts that speak of who leads and what is under way.
LEMMA RoleSafe ==
    ASSUME IInv, SameVotes, UNCHANGED <<target, chain, held, vec, toPeer, toOrder, link, conn, stale>>,
           TypeOK', Roles', \A q \in Peers : Dropping(q)' /\ OutKept(q)'
    PROVE  IInv'
<1>1. state' = state /\ vec' = vec /\ persisted' = persisted /\ (Closed <=> Closed')
  BY DEF SameVotes, Closed, Asked
<1>2. ASSUME NEW q \in Peers PROVE Local(q)'
  <2>1. SamePeer(q) /\ Local(q)
    BY DEF SamePeer, SamePlace, SameMail, IInv
  <2> QED BY <1>1, <2>1, FrameBut
<1>3. Phase'
  <2>1. \A c : Goal(c)' <=> Goal(c)
    BY <1>1, SameGoals
  <2> QED BY <1>1, <2>1 DEF IInv, Phase
<1>4. Quorums'
  <2>1. Wit' = Wit
    BY <1>1 DEF Wit, Maxes
  <2>2. Safe' = Safe
    BY <1>1 DEF Safe, Backs, Top
  <2> QED BY <1>1, <2>1, <2>2 DEF IInv, Quorums
<1> QED BY <1>2, <1>3, <1>4 DEF IInv

\* The node is no longer the leader.
LEMMA StepDownSafe ==
    ASSUME IInv, StepDown
    PROVE  IInv'
<1>1. /\ TypeOK /\ Roles /\ leads' = FALSE /\ timer' = FALSE /\ cur' = NULL /\ out' = <<>>
      /\ UNCHANGED <<state, target, dirty, conn, vec, stale, chain, persisted, alive, link, toPeer, toOrder, held>>
  BY DEF IInv, StepDown, known
<1>2. TypeOK'
  <2>1. <<>> \in Chains
    <3>1. Query \in Message /\ Query.chain = <<>>
      BY Messages DEF Query
    <3> QED BY <3>1, MessageIs
  <2>2. faults' \in 0..MaxFault
    BY <1>1, Bounds DEF StepDown, TypeOK
  <2>3. cur' \in 0..(MaxBlock + 1)
    BY <1>1, Bounds DEF NULL
  <2> QED BY <1>1, <2>1, <2>2, <2>3 DEF TypeOK
<1>3. Roles'
  BY <1>1 DEF Roles, NULL
<1>4. SameVotes
  BY <1>1 DEF SameVotes
<1>5. ASSUME NEW q \in Peers PROVE Dropping(q)' /\ OutKept(q)'
  BY <1>1 DEF Dropping, OutKept
<1> QED BY <1>1, <1>2, <1>3, <1>4, <1>5, RoleSafe

\* A serving master packs a block.
LEMMA PackSafe ==
    ASSUME Protected, IInv, Pack
    PROVE  IInv'
<1>1. /\ TypeOK /\ Roles /\ state = "normal" /\ out = <<>> /\ cur = Len(chain) + 1 /\ cur <= MaxBlock
      /\ cur # NULL /\ Holders(out') = {} /\ cur' = cur + 1
      /\ UNCHANGED <<state, leads, target, timer, dirty, conn, vec, stale, chain, persisted, alive, link, toPeer,
                     toOrder, held, faults>>
  BY DEF IInv, Pack, Protected, role, known
<1>2. PICK x \in Contents : out' = Append(chain, x)
  <2>1. PICK x \in Contents : out' = Append(SubSeq(chain, 1, cur - 1), x)
    BY DEF Pack
  <2>2. SubSeq(chain, 1, cur - 1) = chain
    <3>1. chain \in Seq(Contents) /\ Len(chain) \in Nat /\ cur - 1 = Len(chain)
      BY <1>1, ChainIs, Lengths DEF TypeOK
    <3> QED BY <3>1, SubSeqFull
  <2> QED BY <2>1, <2>2
<1>3. chain \in Chains /\ Len(chain) \in Nat /\ Len(chain) < MaxBlock /\ MaxBlock \in Nat
  BY <1>1, Lengths, Bounds DEF TypeOK
<1>4. /\ out' \in Chains /\ Len(out') = Len(chain) + 1
      /\ Front(out') = chain /\ out' # <<>>
  <2>1. \A y \in Contents : /\ Append(chain, y) \in Chains /\ Len(Append(chain, y)) = Len(chain) + 1
                            /\ Front(Append(chain, y)) = chain /\ Append(chain, y) # <<>>
    BY <1>3, Extended
  <2> QED BY <1>2, <2>1
<1>5. TypeOK'
  BY <1>1, <1>3, <1>4 DEF TypeOK
<1>6. Roles'
  <2>1. leads
    BY <1>1, <1>3 DEF Roles, NULL
  <2> QED BY <1>1, <1>4, <2>1 DEF Roles
<1>7. SameVotes
  BY <1>1 DEF SameVotes
<1>8. ASSUME NEW q \in Peers PROVE held[q] # out'
  <2>1. IsPrefix(out', out')
    BY <1>4, PrefixOrder
  <2> QED BY <1>1, <2>1 DEF Holders
<1>9. ASSUME NEW q \in Peers PROVE Dropping(q)' /\ OutKept(q)'
  <2>1. /\ Regs(q)' = Regs(q) /\ Backs(q)' = Backs(q) /\ Live' = Live /\ (Low' => Low)
        /\ \A c : Longer(c)' <=> Longer(c)
    <3>1. Closed => Closed'
      BY <1>1 DEF Closed, Asked
    <3> QED BY <1>1, <1>7, <3>1, SameGoals, SameLow DEF Regs, Backs, Live
  <2>2. held[q] # persisted /\ IsPrefix(persisted, held[q]) => held[q] # out
    <3>1. held[q] \in Chains /\ persisted \in Chains
      BY <1>1 DEF TypeOK
    <3>2. held[q] = <<>> /\ IsPrefix(persisted, held[q]) => held[q] = persisted
      BY <3>1, PrefixOrder, Lengths
    <3> QED BY <1>1, <3>2
  <2>3. Dropping(q)
    BY DEF IInv, Local
  <2>4. Dropping(q)'
    BY <1>1, <2>1, <2>2, <2>3 DEF Dropping
  <2> QED BY <1>1, <1>8, <2>4 DEF OutKept
<1> QED BY <1>1, <1>5, <1>6, <1>7, <1>9, RoleSafe
-----------------------------------------------------------------------------
(* The start begins. *)

\* Before, a peer registered with what it holds, and nothing else was said.
LEMMA Before ==
    ASSUME IInv, state \in {"follower", "wait"}
    PROVE  /\ vec = <<>> /\ DOMAIN vec = {} /\ out = <<>> /\ timer = FALSE /\ ~Closed
           /\ Known = DOMAIN conn
           /\ \A q \in Peers :
                /\ toPeer[q] = <<>> /\ Maxes(q) = {} /\ Tables(q) = {}
                /\ \A c \in Chains : Claims(q, c) => c = held[q]
                /\ q \in DOMAIN conn => conn[q] = held[q] /\ toOrder[q] = <<>>
<1>1. TypeOK /\ Roles /\ \A q \in Peers : Local(q)
  BY DEF IInv
<1>2. /\ vec = <<>> /\ DOMAIN vec = {} /\ out = <<>> /\ timer = FALSE /\ ~Closed
  BY <1>1 DEF Roles, Closed, TypeOK
<1>3. Known = DOMAIN conn
  BY <1>2 DEF Known, Live
<1>4. ASSUME NEW q \in Peers
      PROVE  /\ toPeer[q] = <<>> /\ Maxes(q) = {} /\ Tables(q) = {}
             /\ \A c \in Chains : Claims(q, c) => c = held[q]
             /\ q \in DOMAIN conn => conn[q] = held[q] /\ toOrder[q] = <<>>
  <2>1. /\ toOrder[q] \in Seq(Message) /\ (q \in DOMAIN conn => conn[q] \in Chains)
    BY <1>1, PeerTypes
  <2>2. toPeer[q] = <<>> /\ \A m \in Range(toOrder[q]) : m.type = "regist"
    BY <1>1 DEF Local, Idle
  <2>3. Untold(q)
    BY <1>2 DEF Untold, Split
  <2>4. /\ \A c \in Chains : Claims(q, c) => c = held[q]
        /\ q \in Known => Regs(q) = {}
    BY <1>1, <2>3 DEF Local, Quiet
  <2>5. Maxes(q) = {} /\ Tables(q) = {}
    BY <2>2 DEF Maxes, Tables, Of
  <2>6. q \in DOMAIN conn => conn[q] = held[q]
    BY <2>1, <2>4 DEF Claims
  <2>7. ASSUME q \in DOMAIN conn PROVE toOrder[q] = <<>>
    <3>1. Range(toOrder[q]) = {}
      BY <1>3, <2>2, <2>4, <2>7 DEF Regs, Of
    <3>2. toOrder[q] # <<>> => Head(toOrder[q]) \in Range(toOrder[q])
      BY <2>1, TailOf
    <3> QED BY <3>1, <3>2
  <2> QED BY <2>2, <2>4, <2>5, <2>6, <2>7
<1> QED BY <1>2, <1>3, <1>4

\* The node starts: it asks nobody yet, or everybody that is registered.
LEMMA Begins ==
    ASSUME IInv, TypeOK', state \in {"follower", "wait"}, state' \in {"wait", "start"},
           leads' = TRUE \/ (state = "wait" /\ leads' = leads),
           UNCHANGED <<target, timer, vec, stale, chain, cur, out, persisted, link, held>>,
           \A q \in Peers : q \in DOMAIN conn' => conn'[q] = held[q] /\ toOrder'[q] = <<>>,
           \A q \in Peers : q \notin DOMAIN conn' => q \notin DOMAIN conn /\ toOrder'[q] = toOrder[q],
           \A q \in Peers : \/ toPeer'[q] = <<>>
                            \/ state' = "start" /\ q \in DOMAIN conn' /\ toPeer'[q] = <<Query>>
    PROVE  IInv'
<1>1. /\ TypeOK /\ Roles /\ Quorums /\ \A q \in Peers : Local(q)
      /\ DOMAIN vec = {} /\ vec = <<>> /\ out = <<>> /\ timer = FALSE /\ ~Closed
      /\ Known = DOMAIN conn
  <2>1. TypeOK /\ Roles /\ Quorums /\ \A q \in Peers : Local(q)
    BY DEF IInv
  <2> QED BY <2>1, Before
<1>2. Top' = Top /\ Live' = {} /\ Known' = DOMAIN conn' /\ Live = {}
  BY <1>1 DEF Top, Live, Known
<1>3. ASSUME NEW q \in Peers
      PROVE  /\ Backs(q)' = {} /\ Syncs(q)' = {} /\ Gets(q)' = {}
             /\ \A m \in Range(toPeer'[q]) : m.type = "query"
             /\ \A i \in 1..Len(toPeer'[q]) : toPeer'[q][i].type # "backspace"
             /\ Maxes(q)' = {} /\ Tables(q)' = {}
             /\ q \in DOMAIN conn' => Regs(q)' = {}
             /\ q \notin DOMAIN conn' => Regs(q)' = Regs(q) /\ toPeer'[q] = <<>>
  <2>1. toPeer'[q] \in Seq(Message)
    BY <1>1 DEF TypeOK
  <2>2. \A m \in Range(toPeer'[q]) : m.type = "query"
    <3>1. Query \in Message /\ Query.type = "query"
      BY Messages
    <3>2. Range(<<>>) = {} /\ Range(<<Query>>) = {Query}
      BY <3>1, NoMessages, OneMessage
    <3>3. toPeer'[q] = <<>> \/ toPeer'[q] = <<Query>>
      OBVIOUS
    <3> QED BY <3>1, <3>2, <3>3
  <2>3. Backs(q)' = {} /\ Syncs(q)' = {} /\ Gets(q)' = {}
    BY <2>2 DEF Backs, Syncs, Gets, Of
  <2>4. \A i \in 1..Len(toPeer'[q]) : toPeer'[q][i].type # "backspace"
    BY <2>1, <2>2, RangeOf
  <2>5. CASE q \in DOMAIN conn'
    BY <2>2, <2>3, <2>4, <2>5, NoMessages DEF Maxes, Tables, Regs
  <2>6. CASE q \notin DOMAIN conn'
    <3>1. Maxes(q) = {} /\ Tables(q) = {}
      BY Before
    <3> QED BY <2>2, <2>3, <2>4, <2>6, <3>1 DEF Maxes, Tables, Regs
  <2> QED BY <2>5, <2>6
<1>4. ASSUME NEW q \in Peers, NEW c \in Chains, Claims(q, c)' PROVE c = held[q]
  <2>1. CASE q \in DOMAIN conn'
    BY <1>1, <1>3, <1>4, <2>1 DEF Claims
  <2>2. CASE q \notin DOMAIN conn'
    <3>1. Claims(q, c)
      BY <1>1, <1>3, <1>4, <2>2 DEF Claims
    <3> QED BY <3>1, Before
  <2> QED BY <2>1, <2>2
<1>5. ASSUME NEW q \in Peers PROVE Local(q)'
  <2>1. /\ held[q] \in Chains /\ persisted \in Chains /\ toPeer[q] = <<>> /\ Local(q)
    BY <1>1, Before DEF TypeOK
  <2>2. Wire(q)'
    <3>1. Wire(q)
      BY <2>1 DEF Local
    <3>2. q \in DOMAIN conn' => q \in link
      BY DEF TypeOK
    <3>3. q \notin DOMAIN conn' => toOrder'[q] = toOrder[q] /\ toPeer'[q] = <<>> /\ q \notin Known
      BY <1>1, <1>3
    <3> QED BY <1>2, <3>1, <3>2, <3>3 DEF Wire
  <2>3. Fronts(q)' /\ Idle(q)'
    <3>1. state' # "follower"
      OBVIOUS
    <3>2. state' = "wait" => toPeer'[q] = <<>>
      OBVIOUS
    <3>3. \A m \in Range(toOrder'[q]) : m.type = "regist"
      <4>1. \A m \in Range(toOrder[q]) : m.type = "regist"
        BY <2>1 DEF Local, Idle
      <4> QED BY <4>1, NoMessages
    <3>4. Idle(q)'
      BY <3>1, <3>2, <3>3 DEF Idle
    <3>5. IsPrefix(Front(held[q]), persisted)
      BY <2>1 DEF Local, Fronts
    <3> QED BY <1>1, <1>3, <3>4, <3>5 DEF Fronts
  <2>4. Quiet(q)' /\ Leads(q)'
    BY <1>2, <1>3, <1>4 DEF Quiet, Leads
  <2>5. Kept(q)'
    BY <1>4, <2>1, PrefixOrder DEF Kept
  <2>6. Backspaces(q)' /\ Fetch(q)' /\ Dropping(q)' /\ OutKept(q)'
    BY <1>2, <1>3 DEF Backspaces, Fetch, Dropping, OutKept
  <2>7. Answering(q)'
    <3>1. Queries(q)' # {} => q \in DOMAIN conn'
      BY <1>3, NoMessages DEF Queries
    <3> QED BY <1>3, <3>1 DEF Answering
  <2> QED BY <2>2, <2>3, <2>4, <2>5, <2>6, <2>7 DEF Local
<1>6. Roles' /\ Phase'
  BY <1>1 DEF Roles, Phase
<1>7. Quorums'
  <2>1. Wit \in SUBSET Wit' /\ Wit' \in SUBSET Peers /\ Wit \in SUBSET Safe' /\ Safe' \in SUBSET Peers
    BY <1>1, <1>3 DEF Wit, Safe
  <2>2. Cardinality(Wit) >= Kafka /\ Wit \in SUBSET Peers
    BY <1>1 DEF Quorums, Wit
  <2>3. /\ Cardinality(Wit) <= Cardinality(Wit') /\ Cardinality(Wit) <= Cardinality(Safe')
        /\ Cardinality(Wit) \in Nat /\ Cardinality(Wit') \in Nat /\ Cardinality(Safe') \in Nat
    BY <2>1, <2>2, PeerSets
  <2> QED BY <2>2, <2>3, Bounds DEF Quorums
<1> QED BY <1>5, <1>6, <1>7 DEF IInv

\* A query for each registered peer.
LEMMA QueriedAll ==
    ASSUME TypeOK, DOMAIN conn' \subseteq Peers, QueryAll, \A q \in Peers : toPeer[q] = <<>>
    PROVE  /\ toPeer' \in [Peers -> Seq(Message)]
           /\ \A q \in Peers : toPeer'[q] = <<>> \/ (q \in DOMAIN conn' /\ toPeer'[q] = <<Query>>)
<1> DEFINE f == [q \in DOMAIN conn' |-> Query]
<1>1. DOMAIN f \subseteq Peers /\ (\A q \in DOMAIN f : f[q] = Query) /\ DOMAIN f = DOMAIN conn'
  OBVIOUS
<1>2. Send(f)
  BY DEF QueryAll
<1>3. Query \in Message
  BY Messages
<1> HIDE DEF f
<1>4. \A q \in DOMAIN f : f[q] \in Message
  BY <1>1, <1>3
<1>5. /\ toPeer' \in [Peers -> Seq(Message)]
      /\ \A q \in Peers : q \notin DOMAIN f => toPeer'[q] = toPeer[q]
      /\ \A q \in DOMAIN f : Appended(toPeer[q], toPeer'[q], f[q])
  BY <1>1, <1>2, <1>4, SentTo
<1> QED BY <1>1, <1>5 DEF Appended

\* The election is won.
LEMMA BecomeMasterSafe ==
    ASSUME Protected, IInv, BecomeMaster
    PROVE  IInv'
<1>1. /\ TypeOK /\ state = "follower" /\ leads' = TRUE
      /\ UNCHANGED <<target, timer, dirty, conn, vec, stale, chain, cur, out, persisted, alive, link, toOrder, held, faults>>
  BY DEF IInv, BecomeMaster, Protected, known, blocks
<1>2. \A q \in Peers : toPeer[q] = <<>> /\ (q \in DOMAIN conn => conn[q] = held[q] /\ toOrder[q] = <<>>)
  BY <1>1, Before
<1>3. /\ state' \in {"wait", "start"} /\ toPeer' \in [Peers -> Seq(Message)]
      /\ \A q \in Peers : \/ toPeer'[q] = <<>>
                          \/ state' = "start" /\ q \in DOMAIN conn' /\ toPeer'[q] = <<Query>>
  <2>1. CASE state' = "start" /\ QueryAll
    <3>1. DOMAIN conn' \subseteq Peers
      BY <1>1 DEF TypeOK
    <3> QED BY <1>1, <1>2, <2>1, <3>1, QueriedAll
  <2>2. CASE state' = "wait" /\ UNCHANGED toPeer
    BY <1>1, <1>2, <2>2 DEF TypeOK
  <2> QED BY <2>1, <2>2 DEF BecomeMaster
<1>4. TypeOK'
  BY <1>1, <1>3 DEF TypeOK
<1> QED BY <1>1, <1>2, <1>3, <1>4, Begins

\* The registration that makes the quorum starts the queries.
LEMMA RegisterBeginsSafe ==
    ASSUME IInv, NEW p \in Peers, Register(p), state' # state
    PROVE  IInv'
<1>1. state = "wait" /\ state' = "start" /\ QueryAll /\ alive' = alive /\ TypeOK
  BY DEF Register, IInv
<1>2. /\ toOrder' \in [Peers -> Seq(Message)]
      /\ \A q \in Peers : q # p => toOrder'[q] = toOrder[q]
      /\ p \in link
      /\ p \notin Known => Head(toOrder[p]).chain = held[p] /\ toOrder'[p] = <<>>
      /\ DOMAIN conn' = DOMAIN conn \cup {p} /\ conn'[p] = Head(toOrder[p]).chain
      /\ \A q \in DOMAIN conn : q # p => conn'[q] = conn[q]
      /\ conn' \in [DOMAIN conn' -> Chains]
      /\ UNCHANGED <<leads, target, timer, dirty, vec, stale, chain, cur, out, persisted, link, held, faults>>
      /\ p \in Known => ~Untold(p)
  BY Registering
<1>3. /\ \A q \in Peers : toPeer[q] = <<>> /\ (q \in DOMAIN conn => conn[q] = held[q] /\ toOrder[q] = <<>>)
      /\ DOMAIN vec = {}
  BY <1>1, Before
<1>4. p \notin Known
  BY <1>1, <1>2, <1>3 DEF Untold, Split
<1>5. DOMAIN conn' \subseteq link /\ DOMAIN conn' \subseteq Peers
  BY <1>1, <1>2 DEF TypeOK
<1>6. /\ toPeer' \in [Peers -> Seq(Message)]
      /\ \A q \in Peers : toPeer'[q] = <<>> \/ (q \in DOMAIN conn' /\ toPeer'[q] = <<Query>>)
  BY <1>1, <1>3, <1>5, QueriedAll
<1>7. TypeOK'
  BY <1>1, <1>2, <1>5, <1>6 DEF TypeOK
<1>8. \A q \in Peers : q \in DOMAIN conn' => conn'[q] = held[q] /\ toOrder'[q] = <<>>
  BY <1>2, <1>3, <1>4
<1> QED BY <1>1, <1>2, <1>6, <1>7, <1>8, Begins
-----------------------------------------------------------------------------
(* Blocks are persisted. *)

\* The block under way is persisted.
LEMMA PersistSafe ==
    ASSUME Protected, IInv, Persist
    PROVE  IInv'
<1>1. /\ TypeOK /\ Roles /\ Phase /\ Quorums /\ (\A q \in Peers : Local(q))
      /\ out # <<>> /\ chain' = out /\ persisted' = out /\ out' = <<>>
      /\ Cardinality({p \in DOMAIN conn : held[p] = out /\ toOrder[p] = <<>>}) >= Kafka
      /\ \A p \in Peers \ DOMAIN vec : ~Asked(p)
      /\ UNCHANGED <<state, leads, target, timer, dirty, conn, vec, stale, cur, alive, link, toPeer, toOrder,
                     held, faults>>
  <2>1. /\ TypeOK /\ Roles /\ Phase /\ Quorums /\ (\A q \in Peers : Local(q))
        /\ out # <<>> /\ chain' = out /\ persisted' = Longest(out) /\ out' = <<>>
        /\ Cardinality({p \in DOMAIN conn : (held[p] = out \/ Repeated(p)) /\ toOrder[p] = <<>>}) >= Kafka
        /\ \A p \in Peers \ DOMAIN vec : ~Asked(p)
        /\ UNCHANGED <<state, leads, target, timer, dirty, conn, vec, stale, cur, alive, link, toPeer, toOrder,
                       held, faults>>
    BY DEF IInv, Persist, Protected, role, known
  <2>2. Len(out) = Len(chain) + 1 /\ Len(chain) \in Nat /\ chain = persisted
    BY <2>1, Lengths DEF Roles, Phase, TypeOK
  <2>3. Longest(out) = out /\ \A p \in Peers : ~Repeated(p)
    BY <2>2 DEF Longest, Repeated
  <2>4. DOMAIN conn \subseteq Peers
    BY <2>1 DEF TypeOK
  <2>5. {p \in DOMAIN conn : (held[p] = out \/ Repeated(p)) /\ toOrder[p] = <<>>}
          = {p \in DOMAIN conn : held[p] = out /\ toOrder[p] = <<>>}
    BY <2>3, <2>4
  <2> QED BY <2>1, <2>3, <2>5
<1>2. /\ state = "normal" /\ leads /\ Closed /\ Closed' /\ chain = persisted /\ DOMAIN vec # {}
  <2>1. state = "normal" /\ leads
    BY <1>1 DEF Roles
  <2>2. Closed
    BY <1>1, <2>1 DEF Closed
  <2>3. Closed'
    BY <1>1, <2>2 DEF Closed, Asked
  <2> QED BY <1>1, <2>1, <2>2, <2>3 DEF Phase
<1>3. /\ persisted \in Chains /\ out \in Chains /\ Len(out) = Top + 1 /\ Front(out) = persisted
      /\ Top \in Nat
  BY <1>1, <1>2, Lengths DEF Roles, TypeOK, Top
<1>4. IsPrefix(persisted, out) /\ IsPrefix(out, out)
  BY <1>3, FrontOf, PrefixOrder
<1>5. \A c \in Chains : IsPrefix(c, persisted) => IsPrefix(c, out)
  BY <1>3, <1>4, PrefixOrder
<1>6. TypeOK'
  <2>1. out' \in Chains
    <3>1. Query \in Message /\ Query.chain = <<>>
      BY Messages DEF Query
    <3> QED BY <1>1, <3>1, MessageIs
  <2> QED BY <1>1, <1>3, <2>1 DEF TypeOK
<1>7. Roles' /\ Phase'
  BY <1>1, <1>2, <1>4 DEF Roles, Phase
<1>8. ASSUME NEW q \in Peers PROVE Local(q)'
  <2>1. /\ Local(q) /\ held[q] \in Chains
        /\ q \in DOMAIN vec => vec[q] \in Chains
        /\ Of(toPeer[q], "sync") \subseteq Message /\ Of(toOrder[q], "regist") \subseteq Message
        /\ Of(toOrder[q], "max") \subseteq Message
    BY <1>1, PeerTypes
  <2>2. /\ Regs(q)' = Regs(q) /\ Maxes(q)' = Maxes(q) /\ Tables(q)' = Tables(q)
        /\ Queries(q)' = Queries(q) /\ Backs(q)' = Backs(q) /\ Syncs(q)' = Syncs(q) /\ Gets(q)' = Gets(q)
        /\ Known' = Known
    BY <1>1 DEF Regs, Maxes, Tables, Queries, Backs, Syncs, Gets, Known, Live
  <2>3. Wire(q)' /\ Idle(q)'
    BY <1>1, <1>2, <2>1, <2>2 DEF Local, Wire, Idle
  <2>4. Fronts(q)'
    <3>1. \A m \in Maxes(q) : m.chain \in Chains
      BY <2>1, MessageIs DEF Maxes
    <3> QED BY <1>1, <1>5, <2>1, <2>2, <3>1, FrontOf DEF Local, Fronts
  <2>5. Quiet(q)'
    BY <1>1, <1>2 DEF Quiet, Untold
  <2>6. Leads(q)'
    <3>1. \A m \in Syncs(q) \cup Regs(q) : m.chain \in Chains
      BY <2>1, MessageIs DEF Syncs, Regs
    <3>2. ASSUME NEW c \in Chains, Good(c) PROVE Good(c)'
      BY <1>1, <1>2, <1>5, <3>2 DEF Good, Chosen
    <3> QED BY <2>1, <2>2, <3>1, <3>2 DEF Local, Leads
  <2>7. Kept(q)' /\ Backspaces(q)' /\ Fetch(q)' /\ Answering(q)' /\ Dropping(q)' /\ OutKept(q)'
    BY <1>1, <1>2 DEF Kept, Backspaces, Fetch, Answering, Dropping, OutKept, Low
  <2> QED BY <2>3, <2>4, <2>5, <2>6, <2>7 DEF Local
<1>9. Quorums'
  <2> DEFINE C == {p \in DOMAIN conn : held[p] = out /\ toOrder[p] = <<>>}
  <2>1. C \in SUBSET Peers /\ Safe' \in SUBSET Peers
    BY <1>1 DEF TypeOK, Safe
  <2>2. ASSUME NEW q \in C PROVE q \in Safe'
    <3>1. q \in Peers /\ held[q] = out /\ q \in DOMAIN conn /\ OutKept(q)
      BY <1>1, <2>1 DEF Local
    <3>2. Backs(q) = {}
      BY <1>1, <3>1 DEF OutKept
    <3> QED BY <1>1, <1>4, <3>1, <3>2 DEF Safe, Backs
  <2>3. Cardinality(C) >= Kafka
    BY <1>1
  <2> HIDE DEF C
  <2>4. Cardinality(C) <= Cardinality(Safe') /\ Cardinality(C) \in Nat /\ Cardinality(Safe') \in Nat
    BY <2>1, <2>2, PeerSets
  <2> QED BY <1>2, <2>3, <2>4, Bounds DEF Quorums
<1> QED BY <1>6, <1>7, <1>8, <1>9 DEF IInv

\* Another master persists a block while nobody is connected.
LEMMA OtherMasterSafe ==
    ASSUME Protected, IInv, OtherMaster
    PROVE  IInv'
<1>1. /\ TypeOK /\ Roles /\ Phase /\ Quorums /\ (\A q \in Peers : Local(q))
      /\ ~leads /\ link = {} /\ vec = <<>> /\ Len(persisted) < MaxBlock
      /\ UNCHANGED <<state, leads, target, timer, dirty, conn, vec, stale, chain, cur, out, alive, link, toPeer, toOrder,
                     faults>>
  BY DEF IInv, OtherMaster, Protected, role, known
<1>2. PICK c \in Contents, S \in SUBSET {p \in Peers : held[p] = persisted} :
        /\ Cardinality(S) >= Kafka /\ persisted' = Append(persisted, c)
        /\ held' = [p \in Peers |-> IF p \in S THEN persisted' ELSE held[p]]
  BY DEF OtherMaster
<1>3. /\ persisted \in Chains /\ persisted' \in Chains /\ Front(persisted') = persisted
      /\ IsPrefix(persisted, persisted') /\ IsPrefix(persisted', persisted')
  <2>1. \A x \in Contents : /\ Append(persisted, x) \in Chains
                            /\ Front(Append(persisted, x)) = persisted /\ IsPrefix(persisted, Append(persisted, x))
    BY <1>1, Extended DEF TypeOK
  <2> QED BY <1>1, <1>2, <2>1, PrefixOrder DEF TypeOK
<1>4. /\ DOMAIN conn = {} /\ DOMAIN vec = {} /\ Known = {} /\ Live = {} /\ Known' = {} /\ Live' = {}
  <2>1. DOMAIN vec = {}
    BY <1>1
  <2>2. DOMAIN conn = {}
    BY <1>1 DEF TypeOK
  <2>3. Live = {} /\ Live' = {}
    BY <1>1, <2>1 DEF Live
  <2> QED BY <1>1, <2>1, <2>2, <2>3 DEF Known
<1>5. state \in {"follower", "wait", "start"} /\ out = <<>>
  <2>1. state # "normal"
    BY <1>1, <1>4 DEF Phase
  <2>2. ~Agreed(vec, target)
    BY <1>4, GroupIn
  <2>3. state # "sync"
    BY <1>1, <2>2 DEF Phase, Goal, Chosen
  <2> QED BY <1>1, <2>1, <2>3 DEF TypeOK, Roles
<1>6. \A q \in Peers : toPeer[q] = <<>> /\ toOrder[q] = <<>>
  BY <1>1 DEF Local, Wire
<1>7. TypeOK'
  BY <1>1, <1>2, <1>3 DEF TypeOK
<1>8. Roles' /\ Phase'
  <2>1. IsPrefix(chain, persisted')
    <3>1. chain \in Chains /\ IsPrefix(chain, persisted)
      BY <1>1 DEF Roles, TypeOK
    <3> QED BY <1>3, <3>1, PrefixOrder
  <2> QED BY <1>1, <1>5, <2>1 DEF Roles, Phase
<1>9. ASSUME NEW q \in Peers PROVE Local(q)'
  <2>1. /\ Regs(q)' = {} /\ Maxes(q)' = {} /\ Tables(q)' = {} /\ Queries(q)' = {} /\ Backs(q)' = {}
        /\ Syncs(q)' = {} /\ Gets(q)' = {} /\ toPeer'[q] = <<>> /\ toOrder'[q] = <<>>
        /\ Range(toPeer'[q]) = {} /\ Range(toOrder'[q]) = {} /\ Len(toPeer'[q]) = 0
    BY <1>1, <1>6, NoMessages DEF Regs, Maxes, Tables, Queries, Backs, Syncs, Gets
  <2>2. q \notin DOMAIN conn' /\ q \notin DOMAIN vec' /\ q \notin link' /\ q \notin Known' /\ q \notin Live'
    BY <1>1, <1>4
  <2>3. IsPrefix(Front(held'[q]), persisted')
    <3>1. held[q] \in Chains /\ IsPrefix(Front(held[q]), persisted)
      BY <1>1 DEF Local, Fronts, TypeOK
    <3>2. IsPrefix(Front(held[q]), persisted')
      BY <1>3, <3>1, FrontOf, PrefixOrder
    <3>3. held'[q] = persisted' \/ held'[q] = held[q]
      BY <1>2
    <3> QED BY <1>3, <3>2, <3>3
  <2>4. \A x : ~Claims(q, x)'
    BY <2>1, <2>2 DEF Claims
  <2>5. Wire(q)' /\ Fronts(q)' /\ Idle(q)' /\ Quiet(q)' /\ Leads(q)' /\ Kept(q)'
    BY <2>1, <2>2, <2>3, <2>4 DEF Wire, Fronts, Idle, Quiet, Leads, Kept
  <2>6. Backspaces(q)' /\ Fetch(q)' /\ Answering(q)' /\ Dropping(q)' /\ OutKept(q)'
    BY <2>1, <2>2 DEF Backspaces, Fetch, Answering, Dropping, OutKept
  <2> QED BY <2>5, <2>6 DEF Local
<1>10. Quorums'
  <2>1. S \in SUBSET Peers
    OBVIOUS
  <2>2. ASSUME NEW q \in S PROVE q \in Wit' /\ q \in Safe'
    <3>1. q \in Peers /\ held'[q] = persisted'
      BY <1>2
    <3>2. Maxes(q)' = {} /\ Backs(q)' = {} /\ q \notin DOMAIN vec'
      BY <1>1, <1>4, <1>6, <3>1, NoMessages DEF Maxes, Backs
    <3> QED BY <1>3, <3>1, <3>2 DEF Wit, Safe
  <2>3. Wit' \in SUBSET Peers /\ Safe' \in SUBSET Peers
    BY DEF Wit, Safe
  <2>4. /\ Cardinality(S) <= Cardinality(Wit') /\ Cardinality(S) <= Cardinality(Safe')
        /\ Cardinality(S) \in Nat /\ Cardinality(Wit') \in Nat /\ Cardinality(Safe') \in Nat
    BY <2>1, <2>2, <2>3, PeerSets
  <2> QED BY <1>2, <2>4, Bounds DEF Quorums
<1> QED BY <1>7, <1>8, <1>9, <1>10 DEF IInv
-----------------------------------------------------------------------------
(* The node stores a block it fetched. *)

\* The block is the next one of the target, which is persisted or one block
\* behind the persisted ones.
LEMMA TableIs ==
    ASSUME Majority, IInv, NEW p \in Peers, TableStored(p)
    PROVE  /\ state = "sync" /\ ~Closed /\ out = <<>> /\ p \in Known
           /\ chain' \in Chains /\ IsPrefix(chain', target) /\ Len(chain') = Len(chain) + 1
           /\ target \in Chains /\ persisted \in Chains /\ Goal(target) /\ Agreed(vec, target) /\ DOMAIN vec # {}
           /\ target = persisted \/ (Longer(target) /\ Front(target) = persisted /\ IsPrefix(persisted, target))
           /\ IF Len(chain') <= Top THEN persisted' = persisted /\ IsPrefix(chain', persisted)
                                    ELSE persisted' = chain' /\ Longer(target) /\ chain' = target
           /\ IF chain' = target
              THEN state' = "normal" /\ timer' = FALSE /\ toPeer' = toPeer
              ELSE /\ Send(One(p, Get(Len(chain') + 1))) /\ state' = state /\ timer' = timer
                   /\ Len(chain') + 1 <= Len(target)
           /\ \A q \in Peers : q # p => toOrder'[q] = toOrder[q]
           /\ toOrder' \in [Peers -> Seq(Message)]
           /\ \A t : Of(toOrder'[p], t) \subseteq Of(toOrder[p], t)
           /\ Of(toOrder'[p], "regist") = Of(toOrder[p], "regist")
           /\ Single(toOrder[p]) => Single(toOrder'[p])
           /\ Maxes(p)' = Maxes(p) /\ IsPrefix(target, held[p])
           /\ UNCHANGED <<leads, target, dirty, conn, vec, stale, cur, out, alive, link, held, faults>>
<1> DEFINE c == Head(toOrder[p]).chain
<1>1. /\ TypeOK /\ Roles /\ Phase /\ Local(p) /\ Wire(p)
      /\ Receive(p, "table") /\ state = "sync" /\ Head(toOrder[p]).id = Len(chain) + 1
      /\ c # <<>> /\ chain' = c
      /\ persisted' = Longest(c)
      /\ IF Len(c) = Len(target)
         THEN state' = "normal" /\ timer' = FALSE /\ toPeer' = toPeer
         ELSE Send(One(p, Get(Len(c) + 1))) /\ state' = state /\ timer' = timer
      /\ UNCHANGED <<leads, target, dirty, conn, vec, stale, cur, out, alive, link, held, faults>>
  BY DEF IInv, Local, TableStored, Expected, known
<1>2. /\ p \in Known /\ toOrder' \in [Peers -> Seq(Message)]
      /\ \A q \in Peers : q # p => toOrder'[q] = toOrder[q]
      /\ \A t : Of(toOrder'[p], t) \subseteq Of(toOrder[p], t)
      /\ Of(toOrder'[p], "regist") = Of(toOrder[p], "regist")
      /\ Of(toOrder'[p], "max") = Of(toOrder[p], "max")
      /\ Single(toOrder[p]) => Single(toOrder'[p])
      /\ Head(toOrder[p]) \in Of(toOrder[p], "table") /\ Head(toOrder[p]) \in Message
  <2>1. PICK type \in {"table"} : Receive(p, type)
    BY <1>1
  <2>2. type = "table" /\ type # "regist" /\ type # "max"
    BY <2>1
  <2> QED BY <1>1, <2>1, <2>2, Received
<1>3. /\ c \in Chains /\ Len(c) = Len(chain) + 1 /\ IsPrefix(c, target) /\ IsPrefix(target, held[p])
  BY <1>1, <1>2, MessageIs DEF Local, Fetch, Tables
<1>4. /\ ~Closed /\ out = <<>> /\ Goal(target) /\ target \in Chains /\ persisted \in Chains
      /\ Agreed(vec, target) /\ (target = persisted \/ Longer(target)) /\ DOMAIN vec \subseteq Peers
      /\ Len(target) \in Nat /\ Len(c) \in Nat /\ Len(persisted) \in Nat /\ Len(c) <= Len(target)
  BY <1>1, <1>3, Goals, Lengths, PrefixOrder DEF Closed, Roles, Phase, TypeOK
<1>5. Longer(target) => Front(target) = persisted /\ IsPrefix(persisted, target)
  <2>1. PICK q \in DOMAIN vec : vec[q] = target
    BY <1>4, GroupIn
  <2>2. IsPrefix(Front(target), persisted)
    BY <1>4, <2>1 DEF IInv, Local, Fronts
  <2> QED BY <1>4, <2>2, Behind DEF Longer, Top
<1>6. DOMAIN vec # {}
  BY <1>4, GroupIn
<1>7. Len(c) = Len(target) <=> c = target
  BY <1>3, <1>4, PrefixOrder
<1>8. IF Len(c) <= Top THEN persisted' = persisted /\ IsPrefix(c, persisted)
                       ELSE persisted' = c /\ Longer(target) /\ c = target
  <2>1. CASE Len(c) <= Top
    <3>1. IsPrefix(c, persisted)
      BY <1>3, <1>4, <1>5, <2>1, PrefixOrder DEF Top
    <3> QED BY <1>1, <1>4, <2>1, <3>1 DEF Top, Longest
  <2>2. CASE ~(Len(c) <= Top)
    <3>1. Longer(target) /\ Len(c) = Len(target)
      BY <1>3, <1>4, <2>2 DEF Longer, Top
    <3> QED BY <1>1, <1>4, <1>7, <2>2, <3>1 DEF Top, Longest
  <2> QED BY <2>1, <2>2
<1>9. /\ IF chain' = target
         THEN state' = "normal" /\ timer' = FALSE /\ toPeer' = toPeer
         ELSE /\ Send(One(p, Get(Len(chain') + 1))) /\ state' = state /\ timer' = timer
              /\ Len(chain') + 1 <= Len(target)
  <2>1. CASE c = target
    BY <1>1, <1>7, <2>1
  <2>2. CASE c # target
    BY <1>1, <1>4, <1>7, <2>2
  <2> QED BY <1>1, <2>1, <2>2
<1>10. Maxes(p)' = Maxes(p)
  BY <1>2 DEF Maxes
<1>11. chain' = c /\ (\A q \in Peers : q # p => toOrder'[q] = toOrder[q])
  BY <1>1, <1>2
<1> HIDE DEF c
<1> QED BY <1>1, <1>2, <1>3, <1>4, <1>5, <1>6, <1>8, <1>9, <1>10, <1>11

\* A block is stored and the next one is asked for.
LEMMA TableNextSafe ==
    ASSUME Majority, IInv, NEW p \in Peers, TableStored(p), chain' # target
    PROVE  IInv'
<1> DEFINE m == Get(Len(chain') + 1)
<1>1. /\ state = "sync" /\ ~Closed /\ out = <<>> /\ p \in Known /\ Goal(target) /\ target \in Chains
      /\ chain' \in Chains /\ IsPrefix(chain', persisted') /\ persisted' = persisted
      /\ Send(One(p, m)) /\ state' = state /\ timer' = timer /\ Len(chain') + 1 <= Len(target)
      /\ \A q \in Peers : q # p => toOrder'[q] = toOrder[q]
      /\ toOrder' \in [Peers -> Seq(Message)]
      /\ \A t : Of(toOrder'[p], t) \subseteq Of(toOrder[p], t)
      /\ Of(toOrder'[p], "regist") = Of(toOrder[p], "regist")
      /\ Single(toOrder[p]) => Single(toOrder'[p])
      /\ IsPrefix(target, held[p])
      /\ UNCHANGED <<leads, target, dirty, conn, vec, stale, cur, out, alive, link, held, faults>>
  BY TableIs
<1>2. TypeOK /\ Roles /\ Phase /\ Local(p)
  BY DEF IInv
<1>3. m \in Message /\ m.type = "get" /\ m.id = Len(chain') + 1 /\ m.id <= Len(target)
      /\ Len(chain') \in Nat /\ Len(target) \in Nat
  <2>1. Len(chain') + 1 \in 0..MaxBlock /\ Len(chain') \in Nat /\ Len(target) \in Nat
    BY <1>1, Lengths, Bounds
  <2> QED BY <1>1, <2>1, Messages
<1> HIDE DEF m
<1>4. /\ toPeer' \in [Peers -> Seq(Message)] /\ Appended(toPeer[p], toPeer'[p], m)
      /\ \A q \in Peers : q # p => toPeer'[q] = toPeer[q]
  BY <1>1, <1>2, <1>3, SentOne
<1>5. TypeOK'
  BY <1>1, <1>2, <1>4 DEF TypeOK
<1>6. \A q \in Peers \ {p} : SamePeer(q)
  BY <1>1, <1>4 DEF SamePeer, SamePlace, SameMail
<1>7. /\ Regs(p)' = Regs(p) /\ Maxes(p)' \subseteq Maxes(p) /\ Tables(p)' \subseteq Tables(p)
      /\ Queries(p)' = Queries(p) /\ Backs(p)' = Backs(p) /\ Syncs(p)' = Syncs(p)
      /\ Gets(p)' = Gets(p) \cup {m}
  BY <1>1, <1>3, <1>4 DEF Regs, Maxes, Tables, Queries, Backs, Syncs, Gets, Appended
<1>8. SameNode
  BY <1>1 DEF SameNode, SameVotes
<1>9. Roles'
  BY <1>1, <1>2 DEF Roles
<1>10. Phase'
  <2>1. Goal(target)'
    BY <1>1, <1>8, NodeFacts
  <2> QED BY <1>1, <1>3, <2>1 DEF Phase
<1>11. Fetch(p)'
  BY <1>1, <1>2, <1>3, <1>7 DEF Local, Fetch
<1>12. Idle(p)' /\ ~Untold(p)
  BY <1>1 DEF Idle, Untold
<1>13. Backspaces(p)'
  BY <1>1, <1>2, <1>3, <1>4, <1>8, BackspacesSent DEF Local
<1>14. Local(p)'
  <2>1. SamePlace(p) /\ held'[p] = held[p] /\ Queries(p)' \subseteq Queries(p)
         /\ Backs(p)' \subseteq Backs(p) /\ Syncs(p)' \subseteq Syncs(p)
    BY <1>1, <1>7 DEF SamePlace
  <2> QED BY <1>1, <1>2, <1>7, <1>8, <1>11, <1>12, <1>13, <2>1, Mailed
<1>15. (p \in Wit => p \in Wit') /\ (p \in Safe => p \in Safe')
  <2>1. Top' = Top
    BY <1>1 DEF Top
  <2> QED BY <1>1, <1>7, <2>1 DEF Wit, Safe
<1> QED BY <1>5, <1>6, <1>8, <1>9, <1>10, <1>14, <1>15, OnePeerBut

\* The target is reached: the node has every persisted block.
LEMMA TargetReachedSafe ==
    ASSUME Majority, IInv, NEW p \in Peers, TableStored(p), chain' = target
    PROVE  IInv'
<1>1. /\ state = "sync" /\ ~Closed /\ out = <<>> /\ p \in Known /\ Goal(target) /\ target \in Chains
      /\ persisted \in Chains /\ Agreed(vec, target) /\ DOMAIN vec # {}
      /\ target = persisted \/ (Longer(target) /\ Front(target) = persisted /\ IsPrefix(persisted, target))
      /\ persisted' = target /\ state' = "normal" /\ timer' = FALSE /\ toPeer' = toPeer
      /\ \A q \in Peers : q # p => toOrder'[q] = toOrder[q]
      /\ toOrder' \in [Peers -> Seq(Message)]
      /\ \A t : Of(toOrder'[p], t) \subseteq Of(toOrder[p], t)
      /\ Of(toOrder'[p], "regist") = Of(toOrder[p], "regist")
      /\ Single(toOrder[p]) => Single(toOrder'[p])
      /\ Maxes(p)' = Maxes(p)
      /\ UNCHANGED <<leads, target, dirty, conn, vec, stale, cur, out, alive, link, held, faults>>
  <2>1. IF Len(chain') <= Top THEN persisted' = persisted /\ IsPrefix(chain', persisted)
                              ELSE persisted' = chain' /\ Longer(target) /\ chain' = target
    BY TableIs
  <2>2. target = persisted \/ Longer(target)
    BY TableIs
  <2>3. Top \in Nat
    BY Lengths DEF IInv, TypeOK, Top
  <2>4. persisted' = target
    BY <2>1, <2>2, <2>3 DEF Longer
  <2> QED BY <2>4, TableIs
<1>2. /\ TypeOK /\ Roles /\ Phase /\ Quorums /\ \A q \in Peers : Local(q)
  BY DEF IInv
<1>3. /\ IsPrefix(target, target) /\ IsPrefix(persisted, target)
      /\ \A c \in Chains : IsPrefix(c, persisted) => IsPrefix(c, target)
  BY <1>1, PrefixOrder
<1>4. TypeOK'
  BY <1>1, <1>2 DEF TypeOK
<1>5. Roles' /\ Phase'
  BY <1>1, <1>2, <1>3 DEF Roles, Phase
<1>6. /\ Live' = Live /\ Known' = Known /\ Top' = Len(target)
      /\ \A q \in Peers :
           /\ Regs(q)' = Regs(q) /\ Maxes(q)' = Maxes(q)
           /\ Queries(q)' = Queries(q) /\ Backs(q)' = Backs(q) /\ Syncs(q)' = Syncs(q)
           /\ \A c : Claims(q, c)' <=> Claims(q, c)
  BY <1>1 DEF Live, Known, Top, Regs, Maxes, Queries, Backs, Syncs, Claims
\* What the persisted blocks are decides what peers were told.
<1>7. \/ target = persisted /\ Low
      \/ Longer(target) /\ \A q \in Peers : Backs(q) = {}
  <2>1. CASE target = persisted
    BY <1>1, <2>1 DEF Low, Stuck
  <2>2. CASE Longer(target)
    <3>1. ~Dead
      BY <1>1, <1>2, <2>2, Goals DEF Dead
    <3>2. ASSUME NEW q \in Peers PROVE Backs(q) = {}
      <4>1. \A i \in 1..Len(toPeer[q]) : toPeer[q][i].type # "backspace"
        BY <1>1, <1>2, <3>1 DEF Local, Backspaces
      <4>2. toPeer[q] \in Seq(Message)
        BY <1>2 DEF TypeOK
      <4> QED BY <4>1, <4>2, RangeOf DEF Backs, Of
    <3> QED BY <2>2, <3>2
  <2> QED BY <1>1, <2>1, <2>2
\* No chain of a peer is longer than the target by two blocks.
<1>8. ASSUME Longer(target), NEW c \in Chains, IsPrefix(Front(c), persisted) PROVE ~Longer(c)'
  <2>1. Len(c) <= Top + 1 /\ Top \in Nat /\ Len(c) \in Nat
    BY <1>1, <1>8, Behind, Lengths DEF Top
  <2> QED BY <1>1, <1>6, <1>8, <2>1 DEF Longer
<1>9. ASSUME NEW q \in Peers PROVE Local(q)'
  <2>1. /\ Local(q) /\ held[q] \in Chains
        /\ q \in DOMAIN vec => vec[q] \in Chains
        /\ Of(toPeer[q], "sync") \subseteq Message /\ Of(toOrder[q], "regist") \subseteq Message
        /\ Of(toOrder[q], "max") \subseteq Message
    BY <1>2, PeerTypes
  <2>2. \A m \in Syncs(q) \cup Regs(q) \cup Maxes(q) : m.chain \in Chains
    BY <2>1, MessageIs DEF Syncs, Regs, Maxes
  <2>3. Wire(q)' /\ Idle(q)' /\ Quiet(q)' /\ Fetch(q)' /\ OutKept(q)'
    <3>1. q \in link \ Known => q # p
      BY <1>1
    <3>2. q \notin link => q # p
      BY <1>1, <1>2 DEF Local, Wire
    <3>3. Wire(q)'
      BY <1>1, <1>6, <2>1, <3>1, <3>2 DEF Local, Wire
    <3> QED BY <1>1, <3>3 DEF Idle, Quiet, Untold, Fetch, OutKept
  <2>4. Fronts(q)'
    BY <1>1, <1>3, <1>6, <2>1, <2>2, FrontOf DEF Local, Fronts
  <2>5. Leads(q)'
    <3>1. ASSUME NEW c \in Chains, Good(c) PROVE Good(c)'
      <4>1. IsPrefix(c, persisted) \/ c = target
        BY <1>1, <1>2, <3>1, Goals DEF Good, Goal
      <4> QED BY <1>1, <1>3, <4>1 DEF Good
    <3> QED BY <1>1, <1>6, <2>1, <2>2, <3>1 DEF Local, Leads
  <2>6. Kept(q)'
    <3>1. SUFFICES ASSUME NEW c \in Chains, Claims(q, c)
                   PROVE  /\ c = target => IsPrefix(target, held[q])
                          /\ Longer(c)' /\ ~Hopeless(vec, c) => held[q] = c
      BY <1>1, <1>6 DEF Kept
    <3>2. /\ c = persisted => IsPrefix(persisted, held[q])
          /\ Longer(c) /\ ~Hopeless(vec, c) => held[q] = c
      BY <1>1, <2>1, <3>1 DEF Local, Kept
    <3>3. c # target => Hopeless(vec, c)
      BY <1>1, <1>2, Goals
    <3>4. ~Hopeless(vec, target)
      BY <1>1, <1>2, Goals
    <3>5. CASE target = persisted
      <4>1. Longer(c)' <=> Longer(c)
        BY <1>1, <3>5 DEF Longer, Top
      <4> QED BY <3>2, <3>5, <4>1
    <3>6. CASE Longer(target)
      <4>1. ~Longer(target)'
        <5>1. Len(target) \in Nat
          BY <1>1, Lengths
        <5> QED BY <1>1, <1>6, <5>1 DEF Longer
      <4> QED BY <1>3, <3>2, <3>3, <3>4, <3>6, <4>1
    <3> QED BY <1>1, <3>5, <3>6
  <2>7. Backspaces(q)'
    <3>1. CASE target = persisted
      BY <1>1, <1>6, <2>1, <3>1 DEF Local, Backspaces, Top
    <3>2. CASE \A x \in Peers : Backs(x) = {}
      <4>1. toPeer[q] \in Seq(Message)
        BY <1>2 DEF TypeOK
      <4>2. \A i \in 1..Len(toPeer[q]) : toPeer[q][i].type # "backspace"
        BY <3>2, <4>1, RangeOf DEF Backs, Of
      <4> QED BY <1>1, <4>2 DEF Backspaces
    <3> QED BY <1>7, <3>1, <3>2
  <2>8. Answering(q)' /\ Dropping(q)'
    <3>1. CASE target = persisted /\ Low
      <4>1. \A c : Longer(c)' <=> Longer(c)
        BY <1>1, <3>1 DEF Longer, Top
      <4>2. Single(toOrder[q]) => Single(toOrder'[q])
        BY <1>1
      <4>3. toOrder'[q] = toOrder[q] \/ q = p
        BY <1>1
      <4> QED BY <1>1, <1>6, <2>1, <3>1, <4>1, <4>2 DEF Local, Answering, Dropping
    <3>2. CASE Longer(target)
      <4>1. /\ ~Longer(held[q])'
            /\ q \in DOMAIN vec => ~Longer(vec[q])'
            /\ \A m \in Maxes(q) : ~Longer(m.chain)'
        <5>1. ASSUME NEW c \in Chains, IsPrefix(Front(c), persisted) PROVE ~(Len(c) = Top' + 1)
          BY <1>8, <3>2, <5>1 DEF Longer
        <5> QED BY <1>1, <2>1, <2>2, <5>1 DEF Local, Fronts, Longer
      <4> QED BY <1>1, <1>6, <4>1 DEF Answering, Dropping, Live
    <3> QED BY <1>7, <3>1, <3>2
  <2> QED BY <2>3, <2>4, <2>5, <2>6, <2>7, <2>8 DEF Local
<1>10. Quorums'
  <2>1. CASE target = persisted
    <3>1. Wit' = Wit /\ Safe' = Safe
      BY <1>1, <1>6, <2>1 DEF Wit, Safe, Top
    <3> QED BY <1>1, <1>2, <3>1 DEF Quorums
  <2>2. CASE \A q \in Peers : Backs(q) = {}
    <3>1. ASSUME NEW q \in Group(vec, target) PROVE q \in Wit' /\ q \in Safe'
      <4>1. q \in Peers /\ q \in DOMAIN vec /\ vec[q] = target
        BY <1>2 DEF Group, TypeOK
      <4>2. Claims(q, target) /\ Kept(q)
        BY <1>2, <4>1 DEF Claims, Local
      <4>3. ~Hopeless(vec, target)
        BY <1>1, <1>2, Goals
      <4>4. IsPrefix(target, held[q])
        BY <1>1, <1>3, <4>2, <4>3 DEF Kept
      <4> QED BY <1>1, <1>3, <1>6, <2>2, <4>1, <4>4 DEF Wit, Safe
    <3>2. Group(vec, target) \in SUBSET Peers /\ Wit' \in SUBSET Peers /\ Safe' \in SUBSET Peers
      BY <1>2 DEF Group, TypeOK, Wit, Safe
    <3>3. Cardinality(Group(vec, target)) >= Kafka
      BY <1>1 DEF Agreed
    <3>4. /\ Cardinality(Group(vec, target)) <= Cardinality(Wit')
          /\ Cardinality(Group(vec, target)) <= Cardinality(Safe')
          /\ Cardinality(Group(vec, target)) \in Nat
          /\ Cardinality(Wit') \in Nat /\ Cardinality(Safe') \in Nat
      BY <3>1, <3>2, PeerSets
    <3> QED BY <3>3, <3>4, Bounds DEF Quorums
  <2> QED BY <1>7, <2>1, <2>2
<1> QED BY <1>4, <1>5, <1>9, <1>10 DEF IInv

\* A block is stored, the last one or not.
LEMMA TableStoredSafe ==
    ASSUME Majority, IInv, NEW p \in Peers, TableStored(p)
    PROVE  IInv'
BY TableNextSafe, TargetReachedSafe
-----------------------------------------------------------------------------
(* Answers to the query. *)

\* The highest block that enough answers have is the last persisted one or one
\* behind it: among Kafka answers is one of a peer that holds what is persisted.
LEMMA Decision ==
    ASSUME Majority, persisted \in Chains, NEW w, DOMAIN w \subseteq Peers, w \in [DOMAIN w -> Chains],
           NEW W \in SUBSET Peers, Cardinality(W) >= Kafka, Cardinality(DOMAIN w) >= Kafka,
           \A q \in W : q \in DOMAIN w => IsPrefix(persisted, w[q]),
           \A q \in DOMAIN w : IsPrefix(Front(w[q]), persisted),
           NEW t \in MostHeight(w)
    PROVE  /\ t \in Chains /\ \E q \in DOMAIN w : w[q] = t
           /\ \A q \in DOMAIN w : Len(w[q]) <= Len(t)
           /\ \A u : Len(u) = Len(t) => Cardinality(Group(w, u)) <= Cardinality(Group(w, t))
           /\ Longer(t) \/ (Len(t) = Top /\ \A q \in DOMAIN w : ~Longer(w[q]))
           /\ Longer(t) => Front(t) = persisted /\ IsPrefix(persisted, t)
           /\ Agreed(w, t) => Longer(t) \/ t = persisted
           /\ Hopeless(w, t) => Longer(t) /\ \A c : Longer(c) => Hopeless(w, c)
<1>1. \A q \in DOMAIN w : w[q] \in Chains /\ Len(w[q]) \in Nat
  BY Lengths
<1>2. /\ \E q \in DOMAIN w : w[q] = t
      /\ \A q \in DOMAIN w : Len(w[q]) <= Len(t)
      /\ \A u : Len(u) = Len(t) => Cardinality(Group(w, u)) <= Cardinality(Group(w, t))
  BY <1>1, MostHeightIs
<1>3. t \in Chains /\ Len(t) \in Nat /\ Top \in Nat /\ IsPrefix(Front(t), persisted)
  BY <1>1, <1>2, Lengths DEF Top
<1>4. Len(t) <= Top + 1 /\ (Longer(t) => Front(t) = persisted /\ IsPrefix(persisted, t))
  BY <1>3, Behind DEF Longer, Top
<1>5. Len(t) >= Top
  <2>1. PICK q \in W : q \in DOMAIN w
    BY Meet
  <2>2. Top <= Len(w[q])
    BY <1>1, <2>1, PrefixOrder DEF Top
  <2> QED BY <1>1, <1>2, <1>3, <2>1, <2>2
<1>6. Longer(t) \/ (Len(t) = Top /\ \A q \in DOMAIN w : ~Longer(w[q]))
  BY <1>1, <1>2, <1>3, <1>4, <1>5 DEF Longer
<1>7. ASSUME Agreed(w, t), ~Longer(t) PROVE t = persisted
  <2>1. Group(w, t) \in SUBSET Peers /\ Cardinality(Group(w, t)) >= Kafka
    BY <1>7 DEF Group, Agreed
  <2>2. PICK q \in W : q \in Group(w, t)
    BY <2>1, Meet
  <2>3. IsPrefix(persisted, t)
    BY <2>2 DEF Group
  <2> QED BY <1>3, <1>6, <1>7, <2>3, PrefixOrder DEF Top
<1>8. /\ Hopeless(w, t) <=> Cardinality(Open(w, t)) < Kafka
      /\ Cardinality(Open(w, t)) = (Cardinality(Peers) - Cardinality(DOMAIN w)) + Cardinality(Group(w, t))
      /\ Cardinality(Group(w, t)) \in Nat /\ Cardinality(DOMAIN w) \in Nat
  BY HopelessIs
<1>9. ASSUME Hopeless(w, t), NEW u, Len(u) = Len(t) PROVE Cardinality(Open(w, u)) < Kafka /\ Hopeless(w, u)
  <2>1. /\ Hopeless(w, u) <=> Cardinality(Open(w, u)) < Kafka
        /\ Cardinality(Open(w, u)) = (Cardinality(Peers) - Cardinality(DOMAIN w)) + Cardinality(Group(w, u))
        /\ Cardinality(Group(w, u)) \in Nat
    BY HopelessIs
  <2>2. Cardinality(Group(w, u)) <= Cardinality(Group(w, t))
    BY <1>2, <1>9
  <2> QED BY <1>8, <1>9, <2>1, <2>2, Bounds
<1>10. Hopeless(w, t) => Longer(t)
  <2>1. SUFFICES ASSUME Hopeless(w, t), ~Longer(t) PROVE FALSE
    OBVIOUS
  <2>2. Cardinality(Open(w, persisted)) < Kafka
    BY <1>6, <1>9, <2>1 DEF Top
  <2>3. ASSUME NEW q \in W PROVE q \in Open(w, persisted)
    <3>1. CASE q \in DOMAIN w
      <4>1. IsPrefix(persisted, w[q]) /\ Len(w[q]) <= Top
        BY <1>2, <1>6, <2>1, <3>1
      <4>2. w[q] = persisted
        BY <1>1, <3>1, <4>1, PrefixOrder DEF Top
      <4> QED BY <3>1, <4>2 DEF Open, Group
    <3>2. CASE q \notin DOMAIN w
      BY <3>2 DEF Open
    <3> QED BY <3>1, <3>2
  <2>4. Open(w, persisted) \in SUBSET Peers
    BY HopelessIs
  <2>5. Cardinality(W) <= Cardinality(Open(w, persisted)) /\ Cardinality(W) \in Nat
        /\ Cardinality(Open(w, persisted)) \in Nat
    BY <2>3, <2>4, PeerSets
  <2> QED BY <2>2, <2>5, Bounds
<1>11. Hopeless(w, t) => \A c : Longer(c) => Hopeless(w, c)
  BY <1>9, <1>10 DEF Longer
<1> QED BY <1>2, <1>3, <1>4, <1>6, <1>7, <1>10, <1>11

\* What a first answer changes, and what not.
LEMMA Counted ==
    ASSUME Majority, IInv, NEW p \in Peers, FirstAnswer(p)
    PROVE  /\ state \in {"start", "sync", "normal"} /\ ~Closed
           /\ p \in DOMAIN conn /\ p \in Known /\ p \in link /\ p \notin DOMAIN vec /\ p \notin stale
           /\ DOMAIN vec' = DOMAIN vec \cup {p} /\ DOMAIN vec' \subseteq Peers
           /\ vec' \in [DOMAIN vec' -> Chains] /\ \A q \in DOMAIN vec : vec'[q] = vec[q]
           /\ \E m \in Maxes(p) : vec'[p] = m.chain
           /\ UNCHANGED <<leads, dirty, stale, chain, cur, out, persisted, link, held, faults>>
           /\ \A x : Agreed(vec, x) => Agreed(vec', x)
           /\ \A x : Hopeless(vec, x) => Hopeless(vec', x)
           /\ \A x : Agreed(vec', x) => ~Hopeless(vec', x) /\ \A u : u # x => Hopeless(vec', u) /\ ~Agreed(vec', u)
           /\ Top' = Top /\ (\A x : Longer(x)' <=> Longer(x)) /\ (Dead => Dead')
           /\ toOrder' \in [Peers -> Seq(Message)]
           /\ \A q \in Peers : q # p => toOrder'[q] = toOrder[q]
           /\ \A q \in Peers : /\ Regs(q)' = Regs(q) /\ Maxes(q)' \subseteq Maxes(q) /\ Tables(q)' = Tables(q)
                               /\ Single(toOrder[q]) => Single(toOrder'[q])
                               /\ Fronts(q)'
           /\ Live' = Live \cup {p}
           /\ Wit \in SUBSET Wit' /\ Wit' \in SUBSET Peers /\ Cardinality(Wit') >= Kafka
<1> DEFINE c == Head(toOrder[p]).chain
<1>1. /\ TypeOK /\ Quorums /\ Local(p) /\ Wire(p) /\ Receive(p, "max") /\ p \notin DOMAIN vec
      /\ vec' = Set(vec, p, c)
      /\ UNCHANGED <<leads, dirty, stale, chain, cur, out, persisted, link, held, faults>>
  BY DEF IInv, Local, FirstAnswer, blocks
<1>2. /\ Head(toOrder[p]) \in Of(toOrder[p], "max") /\ Head(toOrder[p]) \in Message
      /\ toOrder' \in [Peers -> Seq(Message)] /\ toOrder[p] \in Seq(Message) /\ toOrder[p] # <<>>
      /\ \A q \in Peers : q # p => toOrder'[q] = toOrder[q]
      /\ p \in link /\ p \in Known
      /\ \A t : Of(toOrder'[p], t) \subseteq Of(toOrder[p], t)
      /\ Of(toOrder'[p], "regist") = Of(toOrder[p], "regist") /\ Of(toOrder'[p], "table") = Of(toOrder[p], "table")
      /\ Single(toOrder[p]) => Single(toOrder'[p])
  <2>1. PICK type \in {"max"} : Receive(p, type)
    BY <1>1
  <2>2. type = "max" /\ type # "regist" /\ type # "table"
    BY <2>1
  <2> QED BY <1>1, <2>1, <2>2, Received
<1>3. Head(toOrder[p]) \in Maxes(p) /\ c \in Chains
  BY <1>2, MessageIs DEF Maxes
<1> HIDE DEF c
<1>4. p \in DOMAIN conn /\ p \notin stale
  BY <1>1, <1>2 DEF Known, Live, TypeOK
<1>5. state \in {"start", "sync", "normal"}
  <2>1. Head(toOrder[p]) \in Range(toOrder[p]) /\ Head(toOrder[p]).type # "regist"
    BY <1>2 DEF Of
  <2> QED BY <1>1, <2>1 DEF Local, Idle, TypeOK
<1>6. ~Closed
  <2>1. Asked(p)
    BY <1>1, <1>3, AskedIs DEF TypeOK
  <2> QED BY <1>1, <2>1 DEF Closed
<1>7. /\ DOMAIN vec' = DOMAIN vec \cup {p} /\ vec'[p] = c /\ \A q \in DOMAIN vec : vec'[q] = vec[q]
      /\ \A x : Agreed(vec, x) => Agreed(vec', x)
      /\ \A x : Hopeless(vec, x) => Hopeless(vec', x)
  <2>1. DOMAIN vec \subseteq Peers
    BY <1>1 DEF TypeOK
  <2>2. p \notin DOMAIN vec /\ vec' = Set(vec, p, c)
    BY <1>1
  <2> QED BY <2>1, <2>2, VoteAdded
<1>8. DOMAIN vec' \subseteq Peers /\ vec' \in [DOMAIN vec' -> Chains]
  <2>1. vec' = [q \in DOMAIN vec \cup {p} |-> IF q = p THEN c ELSE vec[q]]
    BY <1>1 DEF Set, c
  <2> QED BY <1>1, <1>3, <2>1 DEF TypeOK
<1>9. \A x : Agreed(vec', x) => ~Hopeless(vec', x) /\ \A u : u # x => Hopeless(vec', u) /\ ~Agreed(vec', u)
  BY <1>8, AgreedAlone
<1>10. /\ Top' = Top /\ (\A x : Longer(x)' <=> Longer(x)) /\ (Dead => Dead')
  BY <1>1, <1>7 DEF Top, Longer, Dead
<1>11. ASSUME NEW q \in Peers
       PROVE  /\ Regs(q)' = Regs(q) /\ Maxes(q)' \subseteq Maxes(q) /\ Tables(q)' = Tables(q)
              /\ Single(toOrder[q]) => Single(toOrder'[q])
  <2>1. CASE q = p
    BY <1>2, <2>1 DEF Regs, Maxes, Tables
  <2>2. CASE q # p
    BY <1>2, <2>2 DEF Regs, Maxes, Tables
  <2> QED BY <2>1, <2>2
<1>12. ASSUME NEW q \in Peers PROVE Fronts(q)'
  <2>1. Fronts(q) /\ Fronts(p)
    BY DEF IInv, Local
  <2>2. IsPrefix(Front(c), persisted)
    BY <1>1, <1>3, <2>1 DEF Fronts, c
  <2> QED BY <1>1, <1>7, <1>11, <2>1, <2>2 DEF Fronts
<1>13. Live' = Live \cup {p}
  BY <1>1, <1>4, <1>7 DEF Live
<1>14. Wit \in SUBSET Wit' /\ Wit' \in SUBSET Peers
  <2>1. ASSUME NEW q \in Wit PROVE q \in Wit'
    <3>1. /\ q \in Peers /\ IsPrefix(persisted, held[q])
          /\ q \in DOMAIN vec => IsPrefix(persisted, vec[q])
          /\ q \notin DOMAIN vec => \A m \in Maxes(q) : IsPrefix(persisted, m.chain)
      BY DEF Wit
    <3>2. q = p => IsPrefix(persisted, c)
      BY <1>1, <1>3, <3>1 DEF c
    <3> QED BY <1>1, <1>7, <1>11, <3>1, <3>2 DEF Wit
  <2> QED BY <2>1 DEF Wit
<1>15. Cardinality(Wit') >= Kafka
  <2>1. Cardinality(Wit) <= Cardinality(Wit') /\ Cardinality(Wit) \in Nat /\ Cardinality(Wit') \in Nat
    BY <1>14, PeerSets
  <2> QED BY <1>1, <1>6, <2>1, Bounds DEF Quorums
<1>16. \E m \in Maxes(p) : vec'[p] = m.chain
  BY <1>3, <1>7 DEF c
<1> QED BY <1>1, <1>2, <1>4, <1>5, <1>6, <1>7, <1>8, <1>9, <1>10, <1>11, <1>12, <1>13, <1>14, <1>15, <1>16

\* The block that the answers with a first one more are decided by.
LEMMA Decided ==
    ASSUME Majority, IInv, NEW p \in Peers, FirstAnswer(p), Cardinality(DOMAIN vec') >= Kafka,
           NEW t \in MostHeight(vec')
    PROVE  /\ t \in Chains /\ \E q \in DOMAIN vec' : vec'[q] = t
           /\ \A q \in DOMAIN vec' : Len(vec'[q]) <= Len(t)
           /\ \A u : Len(u) = Len(t) => Cardinality(Group(vec', u)) <= Cardinality(Group(vec', t))
           /\ Longer(t) \/ (Len(t) = Top /\ \A q \in DOMAIN vec' : ~Longer(vec'[q]))
           /\ Longer(t) => Front(t) = persisted /\ IsPrefix(persisted, t)
           /\ Agreed(vec', t) => Longer(t) \/ t = persisted
           /\ Hopeless(vec', t) => Longer(t) /\ \A c : Longer(c) => Hopeless(vec', c)
<1>1. /\ DOMAIN vec' \subseteq Peers /\ vec' \in [DOMAIN vec' -> Chains]
      /\ Wit' \in SUBSET Peers /\ Cardinality(Wit') >= Kafka
      /\ persisted' = persisted /\ held' = held
      /\ \A q \in Peers : Fronts(q)'
  BY Counted
<1>2. \A q \in Wit' : q \in DOMAIN vec' => IsPrefix(persisted, vec'[q])
  BY <1>1 DEF Wit
<1>3. \A q \in DOMAIN vec' : IsPrefix(Front(vec'[q]), persisted)
  BY <1>1 DEF Fronts
<1>4. persisted \in Chains
  BY DEF IInv, TypeOK
<1> DEFINE W == Wit'
<1>5. W \in SUBSET Peers /\ Cardinality(W) >= Kafka /\ \A q \in W : q \in DOMAIN vec' => IsPrefix(persisted, vec'[q])
  BY <1>1, <1>2
<1> HIDE DEF W
<1> QED BY <1>1, <1>3, <1>4, <1>5, Decision

\* What peers claimed they still claim, and no more.
LEMMA StillKept ==
    ASSUME Majority, IInv, NEW p \in Peers, FirstAnswer(p), NEW q \in Peers,
           \A r \in DOMAIN conn' : r \in DOMAIN conn /\ conn'[r] = conn[r]
    PROVE  /\ \A x : Claims(q, x)' => Claims(q, x)
           /\ Kept(q)'
<1>1. /\ ~Closed /\ p \notin DOMAIN vec
      /\ DOMAIN vec' = DOMAIN vec \cup {p} /\ \A r \in DOMAIN vec : vec'[r] = vec[r]
      /\ persisted' = persisted /\ held' = held
      /\ \A x : Hopeless(vec, x) => Hopeless(vec', x)
      /\ \A x : Longer(x)' <=> Longer(x)
      /\ Regs(q)' = Regs(q) /\ Maxes(q)' \subseteq Maxes(q)
      /\ \E m \in Maxes(p) : vec'[p] = m.chain
  BY Counted
<1>2. \A x : Claims(q, x)' => Claims(q, x)
  BY <1>1 DEF Claims
<1>3. Kept(q)
  BY DEF IInv, Local
<1> QED BY <1>1, <1>2, <1>3 DEF Kept

\* While the node asks, a peer that has not answered has said only what it holds.
LEMMA NotAnswered ==
    ASSUME IInv, state = "start", ~Split, NEW q \in Peers, q \notin DOMAIN vec
    PROVE  /\ Backs(q) = {} /\ Syncs(q) = {} /\ Gets(q) = {}
           /\ \A m \in Maxes(q) : held[q] = m.chain /\ Regs(q) = {}
           /\ Queries(q) # {} => Regs(q) = {}
<1>1. /\ Untold(q) /\ Quiet(q) /\ Wire(q) /\ TypeOK
  BY DEF IInv, Local, Untold
<1>2. /\ \A c \in Chains : Claims(q, c) => c = held[q]
      /\ \A m \in Range(toPeer[q]) : m.type = "query"
      /\ q \in Known => Regs(q) = {}
  BY <1>1 DEF Quiet
<1>3. Backs(q) = {} /\ Syncs(q) = {} /\ Gets(q) = {}
  BY <1>2 DEF Backs, Syncs, Gets, Of
<1>4. ASSUME NEW m \in Maxes(q) PROVE held[q] = m.chain
  <2>1. m.chain \in Chains
    BY <1>1, <1>4, PeerTypes, MessageIs DEF Maxes
  <2> QED BY <1>2, <1>4, <2>1 DEF Claims
<1>5. Maxes(q) # {} \/ Queries(q) # {} => q \in Known
  <2>1. CASE q \notin link
    BY <1>1, <2>1, NoMessages DEF Wire, Maxes, Queries
  <2>2. CASE q \in link \ Known
    <3> DEFINE r == Regist(held[q])
    <3>1. r \in Message /\ r.type = "regist"
      BY <1>1, Messages DEF TypeOK
    <3>2. toPeer[q] = <<>> /\ toOrder[q] = <<r>>
      BY <1>1, <2>2 DEF Wire
    <3> HIDE DEF r
    <3> QED BY <3>1, <3>2, NoMessages, OneMessage DEF Maxes, Queries
  <2> QED BY <2>1, <2>2
<1> QED BY <1>2, <1>3, <1>4, <1>5

\* Enough answers agree on block t.
LEMMA AgreedOn ==
    ASSUME Majority, IInv, NEW p \in Peers, FirstAnswer(p), Cardinality(DOMAIN vec') >= Kafka,
           NEW t \in MostHeight(vec'), Agreed(vec', t)
    PROVE  /\ t \in Chains /\ persisted \in Chains /\ DOMAIN vec' # {}
           /\ t = persisted \/ Longer(t)
           /\ t = persisted => \A q \in DOMAIN vec' : ~Longer(vec'[q])
           /\ ~Split /\ ~(Split')
           /\ state = "normal" => t = persisted
           /\ state = "sync" => t = target
           /\ \A x : Goal(x) => x = t
<1>1. /\ TypeOK /\ Phase /\ persisted \in Chains /\ t \in Chains
  BY Decided DEF IInv, TypeOK
<1>2. t = persisted \/ Longer(t)
  BY Decided
<1>3. t = persisted => \A q \in DOMAIN vec' : ~Longer(vec'[q])
  <2>1. Longer(t) \/ \A q \in DOMAIN vec' : ~Longer(vec'[q])
    BY Decided
  <2>2. t = persisted => ~Longer(t)
    BY <1>1, Lengths DEF Longer, Top
  <2> QED BY <2>1, <2>2
<1>4. /\ ~Closed /\ DOMAIN vec' = DOMAIN vec \cup {p} /\ \A q \in DOMAIN vec : vec'[q] = vec[q]
      /\ \A x : Agreed(vec, x) => Agreed(vec', x)
      /\ ~Hopeless(vec', t) /\ \A u : u # t => ~Agreed(vec', u)
      /\ \A x : Longer(x)' <=> Longer(x)
      /\ Dead => Dead'
  BY Counted
<1>5. ~(Dead' /\ \E q \in DOMAIN vec' : Longer(vec'[q]))
  <2>1. Dead' => \A x \in Chains : Longer(x)' => Hopeless(vec', x)
    BY DEF Dead
  <2> QED BY <1>1, <1>2, <1>3, <1>4, <2>1
<1>6. ~Split /\ ~(Split')
  <2>1. ~Split
    BY <1>4, <1>5 DEF Split
  <2>2. Split' => Dead' /\ \E q \in DOMAIN vec' : Longer(vec'[q])
    BY <1>4 DEF Split
  <2> QED BY <1>5, <2>1, <2>2
<1>7. \A x : Goal(x) => x = t
  BY <1>4 DEF Goal, Chosen
<1>8. state = "normal" => t = persisted
  BY <1>1, <1>4 DEF Phase
<1>9. state = "sync" => t = target
  BY <1>1, <1>7 DEF Phase
<1> QED BY <1>1, <1>2, <1>3, <1>4, <1>6, <1>7, <1>8, <1>9

\* Peers are told to fetch blocks, or asked for one.
Told(q, m) == q \in DOMAIN vec' \ stale /\ m \in Message /\ Appended(toPeer[q], toPeer'[q], m)

\* A message sent to a peer is the only one its queue gains.
LEMMA Gained ==
    ASSUME NEW q \in Peers, NEW m \in Message, Appended(toPeer[q], toPeer'[q], m)
    PROVE  /\ \A x \in Syncs(q)' : x \in Syncs(q) \/ (x = m /\ m.type = "sync")
           /\ \A x \in Gets(q)' : x \in Gets(q) \/ (x = m /\ m.type = "get")
<1>1. \A t : Of(toPeer'[q], t) = IF m.type = t THEN Of(toPeer[q], t) \cup {m} ELSE Of(toPeer[q], t)
  BY DEF Appended
<1>2. /\ Syncs(q)' = IF m.type = "sync" THEN Syncs(q) \cup {m} ELSE Syncs(q)
      /\ Gets(q)' = IF m.type = "get" THEN Gets(q) \cup {m} ELSE Gets(q)
  BY <1>1 DEF Syncs, Gets
<1> QED BY <1>2

\* The peers that answered with another block than t are told to fetch t.
LEMMA Notified ==
    ASSUME TypeOK, DOMAIN vec' \subseteq Peers, NEW t \in Chains, Send(NotifyOthers(t))
    PROVE  /\ toPeer' \in [Peers -> Seq(Message)]
           /\ \A q \in Peers : \/ toPeer'[q] = toPeer[q]
                               \/ \E m \in Message : Told(q, m) /\ m.type = "sync" /\ m.chain = t /\ vec'[q] # t
<1> DEFINE f == NotifyOthers(t)
           m == SyncTo(t)
<1>1. m \in Message /\ m.type = "sync" /\ m.chain = t
  BY Messages
<1>2. /\ DOMAIN f = {q \in DOMAIN vec' \ stale : vec'[q] # t}
      /\ \A q \in DOMAIN f : f[q] = m
  BY DEF NotifyOthers, Group
<1>3. Send(f)
  OBVIOUS
<1> HIDE DEF f, m
<1>4. DOMAIN f \subseteq Peers /\ \A q \in DOMAIN f : f[q] \in Message
  BY <1>1, <1>2
<1>5. /\ toPeer' \in [Peers -> Seq(Message)]
      /\ \A q \in Peers : q \notin DOMAIN f => toPeer'[q] = toPeer[q]
      /\ \A q \in DOMAIN f : Appended(toPeer[q], toPeer'[q], f[q])
  BY <1>3, <1>4, SentTo
<1> QED BY <1>1, <1>2, <1>5 DEF Told

\* The same, but for the peer that t is fetched from.
LEMMA NotifiedBut ==
    ASSUME TypeOK, DOMAIN vec' \subseteq Peers, NEW t \in Chains, NEW n \in 0..MaxBlock,
           NEW src, src \in DOMAIN vec', vec'[src] = t, src \notin stale, Send(Set(NotifyOthers(t), src, Get(n)))
    PROVE  /\ toPeer' \in [Peers -> Seq(Message)]
           /\ \A q \in Peers : \/ toPeer'[q] = toPeer[q]
                               \/ \E m \in Message :
                                    /\ Told(q, m)
                                    /\ \/ m.type = "sync" /\ m.chain = t /\ vec'[q] # t
                                       \/ m.type = "get" /\ m.id = n /\ q = src
<1> DEFINE f == Set(NotifyOthers(t), src, Get(n))
           m == SyncTo(t)
           g == Get(n)
<1>1. m \in Message /\ m.type = "sync" /\ m.chain = t /\ g \in Message /\ g.type = "get" /\ g.id = n
  BY Messages
<1>2. /\ DOMAIN f = {q \in DOMAIN vec' \ stale : vec'[q] # t} \cup {src}
      /\ f[src] = g
      /\ \A q \in DOMAIN f : q # src => f[q] = m
  BY DEF NotifyOthers, Group, Set
<1>3. Send(f) /\ src \in DOMAIN vec' \ stale
  BY DEF Group
<1> HIDE DEF f, m, g
<1>4. DOMAIN f \subseteq Peers /\ \A q \in DOMAIN f : f[q] \in Message
  BY <1>1, <1>2, <1>3
<1>5. /\ toPeer' \in [Peers -> Seq(Message)]
      /\ \A q \in Peers : q \notin DOMAIN f => toPeer'[q] = toPeer[q]
      /\ \A q \in DOMAIN f : Appended(toPeer[q], toPeer'[q], f[q])
  BY <1>3, <1>4, SentTo
<1> QED BY <1>1, <1>2, <1>3, <1>5 DEF Told

\* What does not depend on the decision.
LEMMA Answered ==
    ASSUME Majority, IInv, NEW p \in Peers, FirstAnswer(p), conn' = conn, NEW q \in Peers,
           \/ toPeer'[q] = toPeer[q]
           \/ \E m \in Message : Told(q, m) /\ m.type \in {"sync", "get"}
    PROVE  /\ Wire(q)' /\ Fronts(q)' /\ Kept(q)' /\ Known' = Known
           /\ \A x : Claims(q, x)' => Claims(q, x)
           /\ Backs(q)' = Backs(q) /\ Queries(q)' = Queries(q)
           /\ \A i \in 1..Len(toPeer'[q]) : toPeer'[q][i].type = "backspace" =>
                i \in 1..Len(toPeer[q]) /\ toPeer'[q][i] = toPeer[q][i]
<1>1. /\ p \in Known /\ p \in link /\ DOMAIN vec' = DOMAIN vec \cup {p} /\ stale' = stale /\ link' = link
      /\ held' = held /\ Live' = Live \cup {p} /\ Fronts(q)'
      /\ \A r \in Peers : r # p => toOrder'[r] = toOrder[r]
  BY Counted
<1>2. Kept(q)' /\ \A x : Claims(q, x)' => Claims(q, x)
  BY StillKept
<1>3. Known' = Known
  BY <1>1 DEF Known
<1>4. Wire(q) /\ toPeer[q] \in Seq(Message)
  BY DEF IInv, Local, TypeOK
<1>5. CASE toPeer'[q] = toPeer[q]
  <2>1. Wire(q)'
    BY <1>1, <1>3, <1>4, <1>5 DEF Wire
  <2> QED BY <1>1, <1>2, <1>3, <1>5, <2>1 DEF Backs, Queries
<1>6. CASE \E m \in Message : Told(q, m) /\ m.type \in {"sync", "get"}
  <2>1. PICK m \in Message : Told(q, m) /\ m.type \in {"sync", "get"}
    BY <1>6
  <2>2. q \in Live' /\ q \in Known
    BY <1>1, <1>3, <2>1 DEF Told, Live, Known
  <2>3. Wire(q)'
    BY <1>1, <1>3, <1>4, <2>2 DEF Wire
  <2>4. Backs(q)' = Backs(q) /\ Queries(q)' = Queries(q)
    BY <2>1 DEF Told, Appended, Backs, Queries
  <2>5. /\ Len(toPeer[q]) \in Nat /\ Len(toPeer'[q]) = Len(toPeer[q]) + 1
        /\ toPeer'[q][Len(toPeer[q]) + 1] = m
        /\ \A i \in 1..Len(toPeer[q]) : toPeer'[q][i] = toPeer[q][i]
    BY <2>1 DEF Told, Appended
  <2>6. \A i \in 1..Len(toPeer'[q]) : i \in 1..Len(toPeer[q]) \/ i = Len(toPeer[q]) + 1
    BY <2>5
  <2> QED BY <1>1, <1>2, <1>3, <2>1, <2>3, <2>4, <2>5, <2>6
<1> QED BY <1>5, <1>6

\* An answer takes no peer from the quorums.
LEMMA QuorumsAnswered ==
    ASSUME Majority, IInv, NEW p \in Peers, FirstAnswer(p),
           \A q \in Peers : \A m \in Backs(q)' : m \in Backs(q) \/ m.id >= Top
    PROVE  Quorums'
<1>1. /\ Cardinality(Wit') >= Kafka /\ Top' = Top /\ held' = held /\ persisted' = persisted
  BY Counted
<1>2. Safe \in SUBSET Safe' /\ Safe' \in SUBSET Peers
  BY <1>1 DEF Safe
<1>3. Cardinality(Safe) <= Cardinality(Safe') /\ Cardinality(Safe) \in Nat /\ Cardinality(Safe') \in Nat
  BY <1>2, PeerSets
<1> QED BY <1>1, <1>3, Bounds DEF IInv, Quorums

\* An answer that does not decide: the node goes on asking.
LEMMA AnswerCountedSafe ==
    ASSUME Majority, IInv, NEW p \in Peers, AnswerCounted(p)
    PROVE  IInv'
<1>1. /\ FirstAnswer(p) /\ UNCHANGED <<state, conn, target, timer, alive, toPeer>>
      /\ \/ Cardinality(DOMAIN vec') < Kafka
         \/ \E t \in MostHeight(vec') : ~Agreed(vec', t) /\ ~Hopeless(vec', t)
  BY DEF AnswerCounted
<1>2. /\ state \in {"start", "sync", "normal"} /\ ~Closed
      /\ DOMAIN vec' = DOMAIN vec \cup {p} /\ DOMAIN vec' \subseteq Peers
      /\ vec' \in [DOMAIN vec' -> Chains] /\ \A q \in DOMAIN vec : vec'[q] = vec[q]
      /\ UNCHANGED <<leads, dirty, stale, chain, cur, out, persisted, link, held, faults>>
      /\ \A x : Agreed(vec, x) => Agreed(vec', x)
      /\ \A x : Agreed(vec', x) => ~Hopeless(vec', x) /\ \A u : u # x => Hopeless(vec', u) /\ ~Agreed(vec', u)
      /\ Top' = Top /\ (\A x : Longer(x)' <=> Longer(x)) /\ (Dead => Dead')
      /\ toOrder' \in [Peers -> Seq(Message)]
  BY <1>1, Counted
<1>3. TypeOK /\ Roles /\ Phase /\ persisted \in Chains
  BY DEF IInv, TypeOK
\* No block is agreed on, and the highest still may be.
<1>4. /\ \A x \in Chains : x = persisted \/ Longer(x) => ~Agreed(vec', x)
      /\ ~(Cardinality(DOMAIN vec') >= Kafka /\ Dead' /\ \E q \in DOMAIN vec' : Longer(vec'[q]))
  <2>1. CASE Cardinality(DOMAIN vec') < Kafka
    <3>1. \A x : Cardinality(Group(vec', x)) <= Cardinality(DOMAIN vec') /\ Cardinality(Group(vec', x)) \in Nat
      BY <1>2, PeerSets DEF Group
    <3>2. Cardinality(DOMAIN vec') \in Nat
      BY <1>2, PeerSets
    <3> QED BY <2>1, <3>1, <3>2, Bounds DEF Agreed
  <2>2. CASE Cardinality(DOMAIN vec') >= Kafka
    <3>1. PICK t \in MostHeight(vec') : ~Agreed(vec', t) /\ ~Hopeless(vec', t)
      <4>1. Cardinality(DOMAIN vec') \in Nat
        BY <1>2, PeerSets
      <4> QED BY <1>1, <2>2, <4>1, Bounds
    <3>2. /\ t \in Chains /\ \A q \in DOMAIN vec' : Len(vec'[q]) <= Len(t)
          /\ \A u : Len(u) = Len(t) => Cardinality(Group(vec', u)) <= Cardinality(Group(vec', t))
          /\ Longer(t) \/ (Len(t) = Top /\ \A q \in DOMAIN vec' : ~Longer(vec'[q]))
      BY <1>1, <2>2, Decided
    <3>3. ASSUME NEW x \in Chains, x = persisted \/ Longer(x), Agreed(vec', x) PROVE FALSE
      <4>1. Len(x) # Len(t)
        <5>1. Cardinality(Group(vec', x)) \in Nat /\ Cardinality(Group(vec', t)) \in Nat
          BY <1>2, PeerSets DEF Group
        <5> QED BY <3>1, <3>2, <3>3, <5>1, Bounds DEF Agreed
      <4>2. x # t => Hopeless(vec', t)
        BY <1>2, <3>3
      <4> QED BY <3>1, <4>1, <4>2
    <3>4. ~(Dead' /\ \E q \in DOMAIN vec' : Longer(vec'[q]))
      <4>1. Dead' => \A x \in Chains : Longer(x)' => Hopeless(vec', x)
        BY DEF Dead
      <4> QED BY <1>2, <3>1, <3>2, <4>1
    <3> QED BY <3>3, <3>4
  <2> QED BY <1>2, <2>1, <2>2, PeerSets, Bounds
<1>5. /\ \A x \in Chains : ~Goal(x) /\ ~(Chosen(x))
      /\ \A x \in Chains : ~(Goal(x)') /\ ~(Chosen(x)')
  BY <1>2, <1>3, <1>4 DEF Goal, Chosen
<1>6. state = "start" /\ out = <<>> /\ timer = FALSE
  BY <1>2, <1>3, <1>4, <1>5 DEF Phase, TypeOK, Roles
<1>7. ~Split /\ ~(Split')
  <2>1. Split => Cardinality(DOMAIN vec') >= Kafka /\ Dead' /\ \E q \in DOMAIN vec' : Longer(vec'[q])
    <3>1. Cardinality(DOMAIN vec) <= Cardinality(DOMAIN vec') /\ Cardinality(DOMAIN vec) \in Nat
          /\ Cardinality(DOMAIN vec') \in Nat
      BY <1>2, PeerSets
    <3> QED BY <1>2, <3>1, Bounds DEF Split
  <2>2. Split' => Cardinality(DOMAIN vec') >= Kafka /\ Dead' /\ \E q \in DOMAIN vec' : Longer(vec'[q])
    BY <1>2 DEF Split
  <2> QED BY <1>4, <2>1, <2>2
<1>8. TypeOK'
  BY <1>1, <1>2, <1>3 DEF TypeOK
<1>9. Roles' /\ Phase'
  BY <1>1, <1>2, <1>3, <1>6 DEF Roles, Phase
<1>10. ASSUME NEW q \in Peers PROVE Local(q)' /\ Backs(q)' = Backs(q)
  <2>1. /\ Wire(q)' /\ Fronts(q)' /\ Kept(q)' /\ Known' = Known
        /\ \A x : Claims(q, x)' => Claims(q, x)
        /\ Backs(q)' = Backs(q)
    BY <1>1, Answered
  <2>2. /\ Regs(q)' = Regs(q) /\ Tables(q)' = Tables(q) /\ Syncs(q)' = Syncs(q) /\ Gets(q)' = Gets(q)
    BY <1>1, Counted DEF Syncs, Gets
  <2>3. Untold(q) /\ Local(q)
    BY <1>5, <1>6, <1>7, <1>3 DEF IInv, Untold
  <2>4. /\ \A c \in Chains : Claims(q, c) => c = held[q]
        /\ \A m \in Range(toPeer[q]) : m.type = "query"
        /\ q \in Known => q \in DOMAIN conn /\ Regs(q) = {}
    BY <2>3 DEF Local, Quiet
  <2>5. Quiet(q)' /\ Leads(q)' /\ Idle(q)'
    <3>1. Syncs(q) = {}
      BY <2>4 DEF Syncs, Of
    <3> QED BY <1>1, <1>2, <1>6, <2>1, <2>2, <2>4, <3>1 DEF Quiet, Leads, Idle
  <2>6. Backspaces(q)'
    <3>1. toPeer[q] \in Seq(Message)
      BY <1>3 DEF TypeOK
    <3>2. \A i \in 1..Len(toPeer[q]) : toPeer[q][i].type # "backspace"
      BY <2>4, <3>1, RangeOf
    <3> QED BY <1>1, <3>2 DEF Backspaces
  <2>7. Fetch(q)'
    BY <1>1, <1>6, <2>2, <2>3 DEF Local, Fetch
  <2>8. Answering(q)' /\ Dropping(q)'
    <3>1. ~(Low')
      BY <1>2, <1>3, <1>4 DEF Low
    <3> QED BY <3>1 DEF Answering, Dropping
  <2>9. OutKept(q)'
    BY <1>2, <1>6 DEF OutKept
  <2> QED BY <2>1, <2>5, <2>6, <2>7, <2>8, <2>9 DEF Local
<1>11. Quorums'
  BY <1>1, <1>10, QuorumsAnswered
<1> QED BY <1>8, <1>9, <1>10, <1>11 DEF IInv

\* The node has the block agreed on: it serves.
LEMMA ChooseOwnSafe ==
    ASSUME Majority, IInv, NEW p \in Peers, ChooseOwn(p)
    PROVE  IInv'
<1>1. /\ FirstAnswer(p) /\ Cardinality(DOMAIN vec') >= Kafka
      /\ UNCHANGED <<conn, target, timer, alive>>
  BY DEF ChooseOwn
<1>2. PICK t \in MostHeight(vec') :
         /\ Agreed(vec', t) /\ Len(chain) >= Len(t)
         /\ Send(NotifyOthers(t))
         /\ state' = IF Len(chain) = Len(t) THEN "normal" ELSE state
  BY DEF ChooseOwn
<1>3. /\ TypeOK /\ Roles /\ Phase /\ chain \in Chains /\ IsPrefix(chain, persisted) /\ Top \in Nat
  BY Lengths DEF IInv, TypeOK, Roles, Top
<1>4. /\ t \in Chains /\ persisted \in Chains /\ DOMAIN vec' # {}
      /\ t = persisted \/ Longer(t)
      /\ t = persisted => \A q \in DOMAIN vec' : ~Longer(vec'[q])
      /\ ~Split /\ ~(Split')
      /\ state = "sync" => t = target
      /\ \A x : Goal(x) => x = t
  BY <1>1, <1>2, AgreedOn
<1>5. t = persisted /\ chain = persisted /\ state' = "normal"
  <2>1. Len(chain) <= Top /\ Len(chain) \in Nat
    BY <1>3, <1>4, PrefixOrder, Lengths DEF Top
  <2>2. t = persisted
    BY <1>2, <1>3, <1>4, <2>1 DEF Longer
  <2>3. chain = persisted
    BY <1>2, <1>3, <1>4, <2>2, PrefixOrder
  <2> QED BY <1>2, <2>2, <2>3
<1>6. /\ state \in {"start", "sync", "normal"} /\ ~Closed /\ p \in Known /\ p \notin DOMAIN vec
      /\ DOMAIN vec' = DOMAIN vec \cup {p} /\ DOMAIN vec' \subseteq Peers
      /\ vec' \in [DOMAIN vec' -> Chains] /\ \A q \in DOMAIN vec : vec'[q] = vec[q]
      /\ UNCHANGED <<leads, dirty, stale, chain, cur, out, persisted, link, held, faults>>
      /\ Top' = Top /\ (\A x : Longer(x)' <=> Longer(x)) /\ (Dead => Dead')
      /\ toOrder' \in [Peers -> Seq(Message)]
  BY <1>1, Counted
<1>7. state \in {"start", "normal"} /\ timer = FALSE
  <2>1. state # "sync"
    BY <1>3, <1>4, <1>5 DEF Phase
  <2> QED BY <1>3, <1>6, <2>1 DEF Roles, TypeOK
<1>8. /\ toPeer' \in [Peers -> Seq(Message)]
      /\ \A q \in Peers : \/ toPeer'[q] = toPeer[q]
                          \/ \E m \in Message : Told(q, m) /\ m.type = "sync" /\ m.chain = persisted
  BY <1>2, <1>3, <1>5, <1>6, Notified
<1>9. TypeOK'
  BY <1>1, <1>3, <1>5, <1>6, <1>8 DEF TypeOK
<1>10. Roles' /\ Phase'
  BY <1>1, <1>2, <1>3, <1>4, <1>5, <1>6, <1>7 DEF Roles, Phase
<1>11. ASSUME NEW q \in Peers PROVE Local(q)' /\ Backs(q)' = Backs(q)
  <2>1. /\ Wire(q)' /\ Fronts(q)' /\ Kept(q)' /\ Known' = Known
        /\ Backs(q)' = Backs(q) /\ Queries(q)' = Queries(q)
        /\ \A i \in 1..Len(toPeer'[q]) : toPeer'[q][i].type = "backspace" =>
             i \in 1..Len(toPeer[q]) /\ toPeer'[q][i] = toPeer[q][i]
    <3>1. \/ toPeer'[q] = toPeer[q]
          \/ \E m \in Message : Told(q, m) /\ m.type \in {"sync", "get"}
      BY <1>8
    <3> QED BY <1>1, <3>1, Answered
  <2>2. /\ Regs(q)' = Regs(q) /\ Maxes(q)' \subseteq Maxes(q)
        /\ \A m \in Syncs(q)' : m \in Syncs(q) \/ m.chain = persisted
    <3>1. \A m \in Syncs(q)' : m \in Syncs(q) \/ m.chain = persisted
      BY <1>8 DEF Told, Appended, Syncs
    <3> QED BY <1>1, <3>1, Counted
  <2>3. Local(q)
    BY DEF IInv
  <2>4. Idle(q)' /\ Quiet(q)' /\ Fetch(q)'
    BY <1>5 DEF Idle, Quiet, Untold, Fetch
  <2>5. Leads(q)'
    <3>1. \A x : Good(x) => IsPrefix(x, persisted)
      <4>1. \A x : Chosen(x) => x = persisted
        BY <1>4, <1>5 DEF Goal
      <4> QED BY <1>4, <4>1, PrefixOrder DEF Good
    <3>2. \A x : IsPrefix(x, persisted) => Good(x)'
      BY <1>6 DEF Good
    <3>3. IsPrefix(persisted, persisted)
      BY <1>4, PrefixOrder
    <3> QED BY <2>1, <2>2, <2>3, <3>1, <3>2, <3>3 DEF Local, Leads
  <2>6. Backspaces(q)'
    <3>1. SUFFICES ASSUME NEW i \in 1..Len(toPeer'[q]), toPeer'[q][i].type = "backspace", ~(Closed')
                   PROVE  \/ toPeer'[q][i].id = Top
                          \/ i = 1 /\ toPeer'[q][i].id < Top /\ ~IsPrefix(persisted, held[q])
      BY <1>5, <1>6 DEF Backspaces
    <3>2. i \in 1..Len(toPeer[q]) /\ toPeer'[q][i] = toPeer[q][i]
      BY <2>1, <3>1
    <3> QED BY <1>6, <2>3, <3>1, <3>2 DEF Local, Backspaces
  <2>7. Answering(q)'
    <3>1. SUFFICES ASSUME q \notin DOMAIN vec
                   PROVE  /\ \A m \in Maxes(q) : Longer(m.chain) => held[q] = m.chain /\ Regs(q) = {} /\ Backs(q) = {}
                          /\ Queries(q) # {} /\ Longer(held[q]) => Regs(q) = {} /\ Backs(q) = {}
      BY <1>6, <2>1, <2>2 DEF Answering
    <3>2. CASE state = "start"
      BY <1>4, <3>1, <3>2, NotAnswered
    <3>3. CASE state = "normal"
      <4>1. Low
        BY <1>3, <1>6, <3>3 DEF Low, Phase, Stuck
      <4> QED BY <2>3, <3>1, <4>1 DEF Local, Answering
    <3> QED BY <1>7, <3>2, <3>3
  <2>8. Dropping(q)'
    <3>1. q \in Live' => ~Longer(vec'[q])
      BY <1>4, <1>5, <1>6 DEF Live
    <3> QED BY <1>6, <3>1 DEF Dropping, Longer
  <2>9. OutKept(q)'
    BY <1>1, <1>6, <2>1, <2>2, <2>3 DEF Local, OutKept
  <2> QED BY <2>1, <2>4, <2>5, <2>6, <2>7, <2>8, <2>9 DEF Local
<1>12. Quorums'
  BY <1>1, <1>11, QuorumsAnswered
<1> QED BY <1>9, <1>10, <1>11, <1>12 DEF IInv

\* The node lacks the block agreed on: it fetches it from a peer that answered
\* with it, or, when that peer's handle has gone, goes on as it was.
LEMMA ChoosesLater ==
    ASSUME Majority, IInv, NEW p \in Peers, ChooseLater(p)
    PROVE  \E t \in Chains, src \in Peers :
             /\ FirstAnswer(p) /\ Cardinality(DOMAIN vec') >= Kafka /\ UNCHANGED <<conn, alive>>
             /\ Agreed(vec', t) /\ Len(chain) < Len(t) /\ src \in DOMAIN vec' /\ vec'[src] = t
             /\ t = persisted \/ Longer(t)
             /\ t = persisted => \A q \in DOMAIN vec' : ~Longer(vec'[q])
             /\ ~Split /\ ~(Split')
             /\ state = "sync" => t = target
             /\ \A x : Goal(x) => x = t
             /\ state \in {"start", "sync"} /\ out = <<>>
             /\ state' \in {"start", "sync"} /\ (state = "sync" => state' = "sync" /\ target' = target)
             /\ state' = "sync" => target' = t
             /\ state' = "start" => src \in stale
             /\ state' = "sync" /\ state = "start" => src \notin stale
             /\ timer' => state' = "sync"
             /\ timer' \in BOOLEAN /\ target' \in Chains
             /\ Len(chain) + 1 <= Len(t) /\ Len(chain) + 1 \in 0..MaxBlock
             /\ toPeer' \in [Peers -> Seq(Message)]
             /\ \A q \in Peers : \/ toPeer'[q] = toPeer[q]
                                 \/ \E m \in Message :
                                      /\ Told(q, m)
                                      /\ \/ m.type = "sync" /\ m.chain = t /\ vec'[q] # t
                                         \/ m.type = "get" /\ m.id = Len(chain) + 1 /\ q = src /\ src \notin stale
<1>1. /\ FirstAnswer(p) /\ Cardinality(DOMAIN vec') >= Kafka
      /\ UNCHANGED <<conn, alive>>
  BY DEF ChooseLater
<1>2. PICK t \in MostHeight(vec') :
         /\ Agreed(vec', t) /\ Len(chain) < Len(t)
         /\ \E src \in Group(vec', t) :
              IF src \in stale
              THEN Send(NotifyOthers(t)) /\ UNCHANGED <<state, target, timer>>
              ELSE /\ Send(Set(NotifyOthers(t), src, Get(Len(chain) + 1)))
                   /\ state' = "sync" /\ target' = t /\ timer' = TRUE
  BY DEF ChooseLater
<1>3. PICK src \in Group(vec', t) :
              IF src \in stale
              THEN Send(NotifyOthers(t)) /\ UNCHANGED <<state, target, timer>>
              ELSE /\ Send(Set(NotifyOthers(t), src, Get(Len(chain) + 1)))
                   /\ state' = "sync" /\ target' = t /\ timer' = TRUE
  BY <1>2
<1>4. /\ TypeOK /\ Roles /\ Phase /\ chain \in Chains /\ IsPrefix(chain, persisted) /\ Top \in Nat
  BY Lengths DEF IInv, TypeOK, Roles, Top
<1>5. /\ t \in Chains /\ persisted \in Chains /\ DOMAIN vec' # {}
      /\ t = persisted \/ Longer(t)
      /\ t = persisted => \A q \in DOMAIN vec' : ~Longer(vec'[q])
      /\ ~Split /\ ~(Split')
      /\ state = "normal" => t = persisted
      /\ state = "sync" => t = target
      /\ \A x : Goal(x) => x = t
  BY <1>1, <1>2, AgreedOn
<1>6. /\ state \in {"start", "sync", "normal"} /\ ~Closed /\ p \in Known /\ p \notin DOMAIN vec
      /\ DOMAIN vec' = DOMAIN vec \cup {p} /\ DOMAIN vec' \subseteq Peers
      /\ vec' \in [DOMAIN vec' -> Chains] /\ \A q \in DOMAIN vec : vec'[q] = vec[q]
      /\ UNCHANGED <<leads, dirty, stale, chain, cur, out, persisted, link, held, faults>>
      /\ \A x : Agreed(vec, x) => Agreed(vec', x)
      /\ \A x : Hopeless(vec, x) => Hopeless(vec', x)
      /\ ~Hopeless(vec', t) /\ \A u : u # t => ~Agreed(vec', u)
      /\ Top' = Top /\ (\A x : Longer(x)' <=> Longer(x)) /\ (Dead => Dead')
      /\ toOrder' \in [Peers -> Seq(Message)]
  BY <1>1, <1>2, Counted
<1>7. state \in {"start", "sync"} /\ out = <<>>
  <2>1. state # "normal"
    BY <1>2, <1>4, <1>5 DEF Phase
  <2> QED BY <1>4, <1>6, <2>1 DEF Roles
<1>8. /\ state' \in {"start", "sync"} /\ (state = "sync" => state' = "sync" /\ target' = target)
      /\ state' = "sync" => target' = t
      /\ state' = "start" => src \in stale
      /\ state' = "sync" /\ state = "start" => src \notin stale
      /\ timer' => state' = "sync" 
      /\ timer' \in BOOLEAN /\ target' \in Chains
  BY <1>3, <1>4, <1>5, <1>7 DEF TypeOK, Roles
<1>9. Len(chain) + 1 \in 0..MaxBlock /\ Len(chain) + 1 <= Len(t) /\ Len(t) \in Nat
  BY <1>2, <1>4, <1>5, Lengths, Bounds
<1>10. /\ toPeer' \in [Peers -> Seq(Message)]
       /\ \A q \in Peers : \/ toPeer'[q] = toPeer[q]
                           \/ \E m \in Message :
                                /\ Told(q, m)
                                /\ \/ m.type = "sync" /\ m.chain = t /\ vec'[q] # t
                                   \/ m.type = "get" /\ m.id = Len(chain) + 1 /\ q = src /\ src \notin stale
  <2>1. CASE src \in stale
    <3>1. Send(NotifyOthers(t))
      BY <1>3, <2>1
    <3> QED BY <1>4, <1>5, <1>6, <3>1, Notified
  <2>2. CASE src \notin stale
    <3>1. /\ Send(Set(NotifyOthers(t), src, Get(Len(chain) + 1)))
          /\ src \in DOMAIN vec' /\ vec'[src] = t /\ src \notin stale
      BY <1>3, <2>2 DEF Group
    <3>2. PICK n \in 0..MaxBlock : n = Len(chain) + 1 /\ Send(Set(NotifyOthers(t), src, Get(n)))
      BY <1>9, <3>1
    <3>3. TypeOK /\ DOMAIN vec' \subseteq Peers /\ t \in Chains
      BY <1>4, <1>5, <1>6
    <3>4. /\ toPeer' \in [Peers -> Seq(Message)]
          /\ \A q \in Peers : \/ toPeer'[q] = toPeer[q]
                              \/ \E m \in Message :
                                    /\ Told(q, m)
                                    /\ \/ m.type = "sync" /\ m.chain = t /\ vec'[q] # t
                                       \/ m.type = "get" /\ m.id = n /\ q = src
      <4>1. Send(Set(NotifyOthers(t), src, Get(n)))
        BY <3>2
      <4> QED BY <3>1, <3>3, <4>1, NotifiedBut
    <3> QED BY <2>2, <3>2, <3>4
  <2> QED BY <2>1, <2>2
<1>11. src \in Peers /\ src \in DOMAIN vec' /\ vec'[src] = t
  BY <1>6 DEF Group
<1> QED BY <1>1, <1>2, <1>5, <1>7, <1>8, <1>9, <1>10, <1>11

\* The node lacks the block agreed on: it fetches it.
LEMMA ChooseLaterSafe ==
    ASSUME Majority, IInv, NEW p \in Peers, ChooseLater(p)
    PROVE  IInv'
<1>2. PICK t \in Chains, src \in Peers :
         /\ FirstAnswer(p) /\ Cardinality(DOMAIN vec') >= Kafka /\ UNCHANGED <<conn, alive>>
         /\ Agreed(vec', t) /\ Len(chain) < Len(t) /\ src \in DOMAIN vec' /\ vec'[src] = t
         /\ t = persisted \/ Longer(t)
         /\ t = persisted => \A q \in DOMAIN vec' : ~Longer(vec'[q])
         /\ ~Split /\ ~(Split')
         /\ state = "sync" => t = target
         /\ \A x : Goal(x) => x = t
         /\ state \in {"start", "sync"} /\ out = <<>>
         /\ state' \in {"start", "sync"} /\ (state = "sync" => state' = "sync" /\ target' = target)
         /\ state' = "sync" => target' = t
         /\ state' = "start" => src \in stale
         /\ timer' => state' = "sync"
         /\ timer' \in BOOLEAN /\ target' \in Chains
         /\ Len(chain) + 1 <= Len(t)
         /\ toPeer' \in [Peers -> Seq(Message)]
         /\ \A q \in Peers : \/ toPeer'[q] = toPeer[q]
                             \/ \E m \in Message :
                                  /\ Told(q, m)
                                  /\ \/ m.type = "sync" /\ m.chain = t /\ vec'[q] # t
                                     \/ m.type = "get" /\ m.id = Len(chain) + 1 /\ q = src /\ src \notin stale
  BY ChoosesLater
<1>1. FirstAnswer(p) /\ Cardinality(DOMAIN vec') >= Kafka /\ UNCHANGED <<conn, alive>>
  BY <1>2
<1>4. /\ TypeOK /\ Roles /\ Phase /\ chain \in Chains /\ IsPrefix(chain, persisted) /\ Top \in Nat
  BY Lengths DEF IInv, TypeOK, Roles, Top
<1>5. /\ t \in Chains /\ persisted \in Chains /\ DOMAIN vec' # {}
      /\ t = persisted \/ Longer(t)
      /\ t = persisted => \A q \in DOMAIN vec' : ~Longer(vec'[q])
      /\ ~Split /\ ~(Split')
      /\ state = "sync" => t = target
      /\ \A x : Goal(x) => x = t
  BY <1>2, <1>4 DEF TypeOK
<1>6. /\ state \in {"start", "sync", "normal"} /\ ~Closed /\ p \in Known /\ p \notin DOMAIN vec
      /\ DOMAIN vec' = DOMAIN vec \cup {p} /\ DOMAIN vec' \subseteq Peers
      /\ vec' \in [DOMAIN vec' -> Chains] /\ \A q \in DOMAIN vec : vec'[q] = vec[q]
      /\ UNCHANGED <<leads, dirty, stale, chain, cur, out, persisted, link, held, faults>>
      /\ \A x : Agreed(vec, x) => Agreed(vec', x)
      /\ \A x : Hopeless(vec, x) => Hopeless(vec', x)
      /\ ~Hopeless(vec', t) /\ \A u : u # t => ~Agreed(vec', u)
      /\ Top' = Top /\ (\A x : Longer(x)' <=> Longer(x)) /\ (Dead => Dead')
      /\ toOrder' \in [Peers -> Seq(Message)]
  BY <1>1, <1>2, Counted
<1>7. state \in {"start", "sync"} /\ out = <<>>
  BY <1>2
<1>8. /\ state' \in {"start", "sync"} /\ (state = "sync" => state' = "sync" /\ target' = target)
      /\ state' = "sync" => target' = t
      /\ state' = "start" => src \in stale
      /\ timer' => state' = "sync"
      /\ timer' \in BOOLEAN /\ target' \in Chains
  BY <1>2
<1>9. Len(chain) + 1 <= Len(t) /\ Len(t) \in Nat
  BY <1>2, Lengths
<1>10. /\ toPeer' \in [Peers -> Seq(Message)]
       /\ \A q \in Peers : \/ toPeer'[q] = toPeer[q]
                           \/ \E m \in Message :
                                /\ Told(q, m)
                                /\ \/ m.type = "sync" /\ m.chain = t /\ vec'[q] # t
                                   \/ m.type = "get" /\ m.id = Len(chain) + 1 /\ q = src /\ src \notin stale
  BY <1>2
<1>11. TypeOK'
  BY <1>1, <1>4, <1>6, <1>7, <1>8, <1>10 DEF TypeOK
\* What was chosen stays chosen, and t is.
<1>12. /\ \A x : Goal(x) => Goal(x)'
       /\ \A x : Good(x) => Good(x)'
       /\ \A x \in {t} : Goal(x)' /\ Good(x)'
  <2>1. \A x : Chosen(x) => Chosen(x)'
    BY <1>6, <1>8 DEF Chosen
  <2>2. \A x \in {t} : x = persisted \/ Chosen(x)'
    BY <1>2, <1>5, <1>6, <1>8 DEF Chosen
  <2>3. IsPrefix(persisted, persisted)
    BY <1>5, PrefixOrder
  <2> QED BY <1>2, <1>6, <2>1, <2>2, <2>3 DEF Goal, Good
<1>13. Roles' /\ Phase'
  <2>1. Phase'
    <3>1. state' = "sync" => Goal(t)'
      BY <1>8, <1>12 DEF Goal, Chosen
    <3>2. \A x \in {t} : x = target' => (Goal(x)' => Goal(target)')
      BY DEF Goal, Chosen, Longer
    <3>3. state' = "sync" => Len(chain') < Len(target')
      BY <1>2, <1>6, <1>8
    <3>4. state' = "sync" => Goal(target)'
      BY <1>8, <1>12, <3>2
    <3> QED BY <1>8, <3>3, <3>4 DEF Phase
  <2> QED BY <1>4, <1>6, <1>7, <1>8, <2>1 DEF Roles
\* The peer that is asked for the next block has it.
<1>14. IsPrefix(t, held[src]) /\ src \in Peers /\ src \in DOMAIN vec' /\ vec'[src] = t
  <2>1. src \in Peers /\ src \in DOMAIN vec' /\ vec'[src] = t
    BY <1>2
  <2>2. Claims(src, t)
    <3>1. \A x : Claims(src, x)' => Claims(src, x)
      BY <1>1, <2>1, StillKept
    <3>2. \A x \in {t} : Claims(src, x)'
      BY <2>1 DEF Claims
    <3> QED BY <3>1, <3>2
  <2>3. Kept(src) /\ held[src] \in Chains
    BY <1>4, <2>1 DEF IInv, Local, TypeOK
  <2>4. ~Hopeless(vec, t)
    BY <1>6
  <2> QED BY <1>5, <1>6, <2>1, <2>2, <2>3, <2>4, PrefixOrder DEF Kept
<1>15. ASSUME NEW q \in Peers PROVE Local(q)' /\ Backs(q)' = Backs(q)
  <2>1. /\ Wire(q)' /\ Fronts(q)' /\ Kept(q)' /\ Known' = Known
        /\ \A x : Claims(q, x)' => Claims(q, x)
        /\ Backs(q)' = Backs(q) /\ Queries(q)' = Queries(q)
        /\ \A i \in 1..Len(toPeer'[q]) : toPeer'[q][i].type = "backspace" =>
             i \in 1..Len(toPeer[q]) /\ toPeer'[q][i] = toPeer[q][i]
    <3>1. \/ toPeer'[q] = toPeer[q]
          \/ \E m \in Message : Told(q, m) /\ m.type \in {"sync", "get"}
      BY <1>10
    <3> QED BY <1>1, <3>1, Answered
  <2>2. /\ Regs(q)' = Regs(q) /\ Maxes(q)' \subseteq Maxes(q) /\ Tables(q)' = Tables(q)
        /\ \A m \in Syncs(q)' : m \in Syncs(q) \/ m.chain = t
        /\ \A m \in Gets(q)' : m \in Gets(q) \/ (m.id = Len(chain) + 1 /\ q = src /\ src \notin stale)
    <3>1. CASE toPeer'[q] = toPeer[q]
      BY <1>1, <3>1, Counted DEF Syncs, Gets
    <3>2. CASE toPeer'[q] # toPeer[q]
      <4>1. PICK m \in Message :
              /\ Told(q, m)
              /\ \/ m.type = "sync" /\ m.chain = t
                 \/ m.type = "get" /\ m.id = Len(chain) + 1 /\ q = src /\ src \notin stale
        BY <1>10, <3>2
      <4>2. /\ \A x \in Syncs(q)' : x \in Syncs(q) \/ (x = m /\ m.type = "sync")
            /\ \A x \in Gets(q)' : x \in Gets(q) \/ (x = m /\ m.type = "get")
        BY <4>1, Gained DEF Told
      <4> QED BY <1>1, <4>1, <4>2, Counted
    <3> QED BY <3>1, <3>2
  <2>3. Local(q)
    BY DEF IInv
  <2>4. Idle(q)' /\ OutKept(q)'
    BY <1>6, <1>7, <1>8 DEF Idle, OutKept
  <2>5. Quiet(q)'
    <3>1. SUFFICES ASSUME Untold(q)' PROVE Untold(q) /\ toPeer'[q] = toPeer[q]
      BY <1>1, <1>6, <2>1, <2>2, <2>3 DEF Local, Quiet
    <3>2. state' = "start" /\ state = "start" /\ src \in stale
      BY <1>7, <1>8, <3>1 DEF Untold
    <3>3. q \in DOMAIN vec' => vec'[q] = t
      BY <1>5, <1>12, <3>1 DEF Untold
    <3>4. Untold(q)
      BY <1>5, <1>6, <3>2, <3>3 DEF Untold
    <3>5. toPeer'[q] = toPeer[q]
      BY <1>10, <3>2, <3>3 DEF Told
    <3> QED BY <3>4, <3>5
  <2>6. Leads(q)'
    BY <1>12, <2>1, <2>2, <2>3 DEF Local, Leads
  <2>7. Backspaces(q)'
    <3>1. SUFFICES ASSUME NEW i \in 1..Len(toPeer'[q]), toPeer'[q][i].type = "backspace"
                   PROVE  Dead /\ state = "sync" /\ toPeer'[q][i].id = Top
      BY <1>6, <1>8 DEF Backspaces
    <3>2. i \in 1..Len(toPeer[q]) /\ toPeer'[q][i] = toPeer[q][i]
      BY <2>1, <3>1
    <3>3. ~Stuck
      BY <1>5 DEF Stuck
    <3> QED BY <1>6, <1>7, <2>3, <3>1, <3>2, <3>3 DEF Local, Backspaces
  <2>8. Fetch(q)'
    <3>1. CASE state' = "start"
      <4>1. state = "start" /\ src \in stale
        BY <1>7, <1>8, <3>1
      <4> QED BY <2>2, <2>3, <3>1, <4>1 DEF Local, Fetch
    <3>2. CASE state' = "sync" /\ state = "start"
      <4>1. /\ Tables(q)' = {} /\ target' = t
            /\ \A m \in Gets(q)' : m.id <= Len(t) /\ q = src
        BY <1>8, <1>9, <2>2, <2>3, <3>2 DEF Local, Fetch
      <4> QED BY <1>6, <1>14, <3>2, <4>1 DEF Fetch
    <3>3. CASE state = "sync"
      <4>1. target' = target /\ target = t /\ state' = "sync"
        BY <1>5, <1>8, <3>3
      <4>2. \A m \in Gets(q)' : m.id <= Len(target) /\ IsPrefix(target, held[q])
        BY <1>9, <1>14, <2>2, <2>3, <3>3, <4>1 DEF Local, Fetch
      <4> QED BY <1>6, <2>2, <2>3, <3>3, <4>1, <4>2 DEF Local, Fetch
    <3> QED BY <1>7, <1>8, <3>1, <3>2, <3>3
  <2>9. Answering(q)'
    <3>1. SUFFICES ASSUME Low', q \notin DOMAIN vec
                   PROVE  /\ \A m \in Maxes(q) : Longer(m.chain) => held[q] = m.chain /\ Regs(q) = {} /\ Backs(q) = {}
                          /\ Queries(q) # {} /\ Longer(held[q]) => Regs(q) = {} /\ Backs(q) = {}
      BY <1>6, <2>1, <2>2 DEF Answering
    <3>2. CASE state = "start"
      BY <1>5, <3>1, <3>2, NotAnswered
    <3>3. CASE state = "sync"
      <4>1. t = persisted
        BY <1>6, <3>1 DEF Low
      <4>2. Agreed(vec, persisted)
        BY <1>4, <1>5, <3>3, <4>1 DEF Phase, Goal, Chosen
      <4>3. Low
        BY <1>6, <3>3, <4>2 DEF Low, Stuck
      <4> QED BY <2>3, <3>1, <4>3 DEF Local, Answering
    <3> QED BY <1>7, <3>2, <3>3
  <2>10. Dropping(q)'
    <3>1. Low' => t = persisted
      BY <1>6 DEF Low
    <3>2. Low' /\ q \in Live' => ~Longer(vec'[q])
      BY <1>5, <1>6, <3>1 DEF Live
    <3> QED BY <1>6, <3>2 DEF Dropping, Longer
  <2> QED BY <2>1, <2>4, <2>5, <2>6, <2>7, <2>8, <2>9, <2>10 DEF Local
<1>16. Quorums'
  BY <1>1, <1>15, QuorumsAnswered
<1> QED BY <1>11, <1>13, <1>15, <1>16 DEF IInv
-----------------------------------------------------------------------------
(* The highest block cannot be agreed on. *)

\* The peers that are told to drop a block: they answered with one behind the
\* last persisted one.
Above == {q \in Live : Longer(vec[q])}

\* What peer q is sent then: to drop that block, if it is above, to fetch the
\* persisted one, if the node finds its handler, or both, in this order.
Misled(q) ==
    \E r \in Seq(Message) :
      /\ \/ r = toPeer[q]
         \/ q \in Above' /\ \E m \in Message : /\ Appended(toPeer[q], r, m)
                                              /\ m.type = "backspace" /\ m.id = Top
      /\ \/ toPeer'[q] = r
         \/ q \in DOMAIN conn \cup Live' /\ \E m \in Message : /\ Appended(r, toPeer'[q], m)
                                                              /\ m.type = "sync" /\ m.chain = persisted

\* What the queue of peer q gains by it.
LEMMA MisledIs ==
    ASSUME TypeOK, NEW q \in Peers, Misled(q)
    PROVE  /\ Queries(q)' = Queries(q) /\ Gets(q)' = Gets(q)
           /\ q \notin Above' => Backs(q)' = Backs(q)
           /\ \A m \in Backs(q)' : m \in Backs(q) \/ m.id = Top
           /\ \A m \in Syncs(q)' : m \in Syncs(q) \/ m.chain = persisted
           /\ \A i \in 1..Len(toPeer'[q]) : toPeer'[q][i].type = "backspace" =>
                \/ i \in 1..Len(toPeer[q]) /\ toPeer'[q][i] = toPeer[q][i]
                \/ toPeer'[q][i].id = Top
           /\ q \notin Above' \cup DOMAIN conn \cup Live' => toPeer'[q] = toPeer[q]
<1>1. PICK r \in Seq(Message) :
      /\ \/ r = toPeer[q]
         \/ q \in Above' /\ \E m \in Message : /\ Appended(toPeer[q], r, m)
                                              /\ m.type = "backspace" /\ m.id = Top
      /\ \/ toPeer'[q] = r
         \/ q \in DOMAIN conn \cup Live' /\ \E m \in Message : /\ Appended(r, toPeer'[q], m)
                                                              /\ m.type = "sync" /\ m.chain = persisted
  BY DEF Misled
<1> DEFINE s == toPeer[q]
           u == toPeer'[q]
<1>2. /\ Of(r, "query") = Of(s, "query") /\ Of(r, "get") = Of(s, "get") /\ Of(r, "sync") = Of(s, "sync")
      /\ q \notin Above' => r = s
      /\ \A m \in Of(r, "backspace") : m \in Of(s, "backspace") \/ m.id = Top
      /\ \A i \in 1..Len(r) : (i \in 1..Len(s) /\ r[i] = s[i]) \/ r[i].id = Top
  <2>1. CASE r = s
    BY <2>1
  <2>2. CASE q \in Above' /\ \E m \in Message : Appended(s, r, m) /\ m.type = "backspace" /\ m.id = Top
    BY <2>2 DEF Appended
  <2> QED BY <1>1, <2>1, <2>2
<1>3. /\ Of(u, "query") = Of(r, "query") /\ Of(u, "get") = Of(r, "get") /\ Of(u, "backspace") = Of(r, "backspace")
      /\ q \notin DOMAIN conn \cup Live' => u = r
      /\ \A m \in Of(u, "sync") : m \in Of(r, "sync") \/ m.chain = persisted
      /\ \A i \in 1..Len(u) : (i \in 1..Len(r) /\ u[i] = r[i]) \/ u[i].type = "sync"
  <2>1. CASE u = r
    BY <2>1
  <2>2. CASE q \in DOMAIN conn \cup Live' /\ \E m \in Message : Appended(r, u, m) /\ m.type = "sync" /\ m.chain = persisted
    <3>1. PICK m \in Message : Appended(r, u, m) /\ m.type = "sync" /\ m.chain = persisted
      BY <2>2
    <3>2. /\ Of(u, "query") = Of(r, "query") /\ Of(u, "get") = Of(r, "get")
          /\ Of(u, "backspace") = Of(r, "backspace") /\ Of(u, "sync") = Of(r, "sync") \cup {m}
      BY <3>1 DEF Appended
    <3>3. /\ Len(r) \in Nat /\ Len(u) = Len(r) + 1 /\ u[Len(r) + 1] = m
          /\ \A i \in 1..Len(r) : u[i] = r[i]
      BY <3>1 DEF Appended
    <3>4. \A i \in 1..Len(u) : i \in 1..Len(r) \/ i = Len(r) + 1
      BY <3>3
    <3>5. \A i \in 1..Len(u) : (i \in 1..Len(r) /\ u[i] = r[i]) \/ u[i].type = "sync"
      BY <3>1, <3>3, <3>4
    <3> QED BY <2>2, <3>1, <3>2, <3>5
  <2> QED BY <1>1, <2>1, <2>2
<1>4. \A i \in 1..Len(u) : u[i].type = "backspace" => (i \in 1..Len(s) /\ u[i] = s[i]) \/ u[i].id = Top
  BY <1>2, <1>3
<1>5. /\ Queries(q) = Of(s, "query") /\ Queries(q)' = Of(u, "query")
      /\ Gets(q) = Of(s, "get") /\ Gets(q)' = Of(u, "get")
      /\ Syncs(q) = Of(s, "sync") /\ Syncs(q)' = Of(u, "sync")
      /\ Backs(q) = Of(s, "backspace") /\ Backs(q)' = Of(u, "backspace")
  BY DEF Queries, Gets, Syncs, Backs
<1> HIDE DEF s, u
<1>6. q \notin Above' \cup DOMAIN conn \cup Live' => u = s
  BY <1>2, <1>3
<1> QED BY <1>2, <1>3, <1>4, <1>5, <1>6 DEF s, u

\* It is a block behind the last persisted one, no block of that height can be
\* agreed on, and the peers that answered with one are told to drop it.
LEMMA Backspaced ==
    ASSUME Majority, IInv, NEW p \in Peers, BackspacePeers(p)
    PROVE  /\ FirstAnswer(p) /\ UNCHANGED <<state, target, timer>> /\ alive' \in BOOLEAN
           /\ alive' \/ "wildIndex" \in Exposed
           /\ Kafka <= Cardinality(DOMAIN vec') /\ DOMAIN vec' # {}
           /\ Dead' /\ (\E q \in DOMAIN vec' : Longer(vec'[q]))
           /\ \A c : ~Chosen(c)
           /\ Above' \subseteq Peers
           /\ conn' = Without(conn, Above')
           /\ toPeer' \in [Peers -> Seq(Message)]
           /\ \A q \in Peers : Misled(q)
<1>1. /\ FirstAnswer(p) /\ Cardinality(DOMAIN vec') >= Kafka /\ UNCHANGED <<state, target, timer>>
      /\ alive' \in BOOLEAN
  BY DEF BackspacePeers
<1> DEFINE Over(t) == {r \in DOMAIN vec' \ stale : Len(vec'[r]) > Len(Front(t))}
<1>2. PICK t \in MostHeight(vec') :
         /\ Hopeless(vec', t)
         /\ IF Len(chain) > Len(Front(t)) THEN ~alive' /\ UNCHANGED <<conn, toPeer>>
            ELSE /\ conn' = Without(conn, Over(t))
                 /\ \E hit \in SUBSET (DOMAIN conn \ Over(t)),
                       wild \in SUBSET ((DOMAIN conn \ Over(t)) \cup (DOMAIN vec' \ stale)) :
                      SendTwice([q \in Over(t) |-> Backspace(Len(Front(t)))],
                                [q \in hit \cup wild |-> SyncTo(Front(t))])
                 /\ ~alive' => "wildIndex" \in Exposed
  BY DEF BackspacePeers
<1>3. /\ t \in Chains /\ (\E q \in DOMAIN vec' : vec'[q] = t)
      /\ \A q \in DOMAIN vec' : Len(vec'[q]) <= Len(t)
      /\ Longer(t) /\ Front(t) = persisted /\ \A c : Longer(c) => Hopeless(vec', c)
  BY <1>1, <1>2, Decided
<1>4. /\ DOMAIN vec' \subseteq Peers /\ vec' \in [DOMAIN vec' -> Chains] /\ stale' = stale /\ persisted' = persisted
      /\ \A x : Agreed(vec, x) => Agreed(vec', x)
      /\ \A x : Agreed(vec', x) => ~Hopeless(vec', x)
      /\ Top' = Top /\ (\A x : Longer(x)' <=> Longer(x))
  BY <1>1, Counted
<1>5. /\ TypeOK /\ persisted \in Chains /\ chain \in Chains /\ IsPrefix(chain, persisted) /\ DOMAIN conn \subseteq Peers
      /\ Top \in Nat /\ Top \in 0..MaxBlock /\ Len(t) = Top + 1
  BY <1>3, Lengths DEF IInv, TypeOK, Roles, Top, Longer
<1>6. ~(Len(chain) > Len(Front(t)))
  BY <1>3, <1>5, PrefixOrder
<1>7. Over(t) = Above'
  <2>1. Above' = {q \in DOMAIN vec' \ stale : Longer(vec'[q])}
    BY <1>4 DEF Above, Live
  <2>2. \A q \in DOMAIN vec' : Len(vec'[q]) > Len(Front(t)) <=> Longer(vec'[q])
    <3>1. \A q \in DOMAIN vec' : Len(vec'[q]) \in Nat
      BY <1>4, Lengths
    <3> QED BY <1>3, <1>5, <3>1 DEF Longer, Top
  <2> QED BY <2>1, <2>2
<1>8. Dead' /\ \E q \in DOMAIN vec' : Longer(vec'[q])
  BY <1>3, <1>4 DEF Dead
<1>9. \A c : ~Chosen(c)
  BY <1>3, <1>4 DEF Chosen
<1>10. /\ Above' \subseteq Peers /\ Live' = DOMAIN vec' \ stale
       /\ conn' = Without(conn, Above') /\ (alive' \/ "wildIndex" \in Exposed)
  BY <1>2, <1>4, <1>6, <1>7 DEF Live
<1>11. PICK hit \in SUBSET (DOMAIN conn \ Above'), wild \in SUBSET ((DOMAIN conn \ Above') \cup Live') :
         SendTwice([q \in Above' |-> Backspace(Top)], [q \in hit \cup wild |-> SyncTo(persisted)])
  BY <1>2, <1>3, <1>6, <1>7, <1>10 DEF Top
<1> DEFINE b == Backspace(Top)
           s == SyncTo(persisted)
           f == [q \in Above' |-> b]
           g == [q \in hit \cup wild |-> s]
           r == Sent(toPeer, f)
<1>12. /\ b \in Message /\ b.type = "backspace" /\ b.id = Top
       /\ s \in Message /\ s.type = "sync" /\ s.chain = persisted
  BY <1>5, Messages
<1>13. /\ DOMAIN f = Above' /\ (\A q \in Above' : f[q] = b)
       /\ DOMAIN g = hit \cup wild /\ (\A q \in DOMAIN g : g[q] = s)
       /\ toPeer' = Sent(r, g) /\ r = Sent(toPeer, f)
  BY <1>11 DEF SendTwice
<1> HIDE DEF f, g, b, s, r
<1>14. /\ DOMAIN f \subseteq Peers /\ \A q \in DOMAIN f : f[q] \in Message
       /\ DOMAIN g \subseteq Peers /\ DOMAIN g \subseteq DOMAIN conn \cup Live'
       /\ \A q \in DOMAIN g : g[q] \in Message
  BY <1>4, <1>5, <1>10, <1>12, <1>13
<1>15. /\ r \in [Peers -> Seq(Message)]
       /\ \A q \in Peers : q \notin DOMAIN f => r[q] = toPeer[q]
       /\ \A q \in DOMAIN f : Appended(toPeer[q], r[q], f[q])
  BY <1>5, <1>13, <1>14, SentIs DEF TypeOK
<1>16. /\ toPeer' \in [Peers -> Seq(Message)]
       /\ \A q \in Peers : q \notin DOMAIN g => toPeer'[q] = r[q]
       /\ \A q \in DOMAIN g : Appended(r[q], toPeer'[q], g[q])
  <2>1. /\ Sent(r, g) \in [Peers -> Seq(Message)]
        /\ \A q \in Peers : q \notin DOMAIN g => Sent(r, g)[q] = r[q]
        /\ \A q \in DOMAIN g : Appended(r[q], Sent(r, g)[q], g[q])
    BY <1>14, <1>15, SentIs
  <2>2. toPeer' = Sent(r, g)
    BY <1>13
  <2> QED BY <2>1, <2>2
<1>17. ASSUME NEW q \in Peers PROVE Misled(q)
  <2>1. r[q] \in Seq(Message)
    BY <1>15
  <2>2. \/ r[q] = toPeer[q]
        \/ q \in Above' /\ \E m \in Message : /\ Appended(toPeer[q], r[q], m)
                                             /\ m.type = "backspace" /\ m.id = Top
    BY <1>12, <1>13, <1>15
  <2>3. \/ toPeer'[q] = r[q]
        \/ q \in DOMAIN conn \cup Live' /\ \E m \in Message : /\ Appended(r[q], toPeer'[q], m)
                                                             /\ m.type = "sync" /\ m.chain = persisted
    BY <1>12, <1>13, <1>14, <1>16
  <2> QED BY <2>1, <2>2, <2>3 DEF Misled
<1>18. DOMAIN vec' # {}
  BY <1>8
<1> QED BY <1>1, <1>8, <1>9, <1>10, <1>16, <1>17, <1>18

\* The peers above drop a block that was not persisted: the node asks on, or
\* goes on, without them.
LEMMA BackspacePeersSafe ==
    ASSUME Majority, IInv, NEW p \in Peers, BackspacePeers(p)
    PROVE  IInv'
<1>1. /\ FirstAnswer(p) /\ UNCHANGED <<state, target, timer>> /\ alive' \in BOOLEAN
      /\ Kafka <= Cardinality(DOMAIN vec') /\ DOMAIN vec' # {}
      /\ Dead' /\ (\E q \in DOMAIN vec' : Longer(vec'[q]))
      /\ \A c : ~Chosen(c)
      /\ conn' = Without(conn, Above') /\ toPeer' \in [Peers -> Seq(Message)]
  BY Backspaced
<1>2. \A q \in Peers : Misled(q)
  BY Backspaced
<1>3. /\ TypeOK /\ Roles /\ Phase /\ persisted \in Chains /\ Top \in Nat
  BY Lengths DEF IInv, TypeOK, Top
<1>4. /\ state \in {"start", "sync", "normal"} /\ ~Closed
      /\ p \in DOMAIN conn /\ p \in Known /\ p \in link /\ p \notin DOMAIN vec
      /\ DOMAIN vec' = DOMAIN vec \cup {p} /\ DOMAIN vec' \subseteq Peers
      /\ vec' \in [DOMAIN vec' -> Chains] /\ \A q \in DOMAIN vec : vec'[q] = vec[q]
      /\ UNCHANGED <<leads, dirty, stale, chain, cur, out, persisted, link, held, faults>>
      /\ \A x : Agreed(vec, x) => Agreed(vec', x)
      /\ Top' = Top /\ (\A x : Longer(x)' <=> Longer(x))
      /\ toOrder' \in [Peers -> Seq(Message)]
      /\ \A q \in Peers : q # p => toOrder'[q] = toOrder[q]
      /\ Live' = Live \cup {p}
  BY <1>1, Counted
<1>5. /\ DOMAIN conn' = DOMAIN conn \ Above' /\ conn' \in [DOMAIN conn' -> Chains]
      /\ \A r \in DOMAIN conn' : r \in DOMAIN conn /\ conn'[r] = conn[r]
  BY <1>1, <1>3 DEF Without, TypeOK
<1>6. Above' \subseteq Live' /\ \A q \in Above' : Longer(vec'[q])
  BY <1>4 DEF Above
<1>7. Known' = Known
  BY <1>4, <1>5, <1>6 DEF Known
\* Past the start, what is persisted was agreed on.
<1>8. state # "start" => Agreed(vec, persisted) /\ Low
  <2>1. state = "sync" => Agreed(vec, persisted)
    BY <1>1, <1>3 DEF Phase, Goal
  <2>2. state = "normal" => Agreed(vec, persisted)
    BY <1>3, <1>4 DEF Phase
  <2> QED BY <1>4, <2>1, <2>2 DEF Low, Stuck
<1>9. Split' /\ (state = "start" => Stuck') /\ (Low' => state # "start")
  <2>1. Split'
    BY <1>1, <1>4 DEF Split
  <2> QED BY <1>1, <2>1 DEF Stuck, Low
<1>10. TypeOK'
  BY <1>1, <1>3, <1>4, <1>5 DEF TypeOK
<1>11. Roles' /\ Phase'
  <2>1. Roles'
    BY <1>1, <1>3, <1>4 DEF Roles
  <2>2. state = "sync" => target = persisted
    BY <1>1, <1>3 DEF Phase, Goal
  <2>3. state = "sync" => Goal(target)'
    BY <1>1, <1>4, <1>8, <2>2 DEF Goal
  <2> QED BY <1>1, <1>3, <1>4, <1>8, <2>1, <2>3 DEF Phase
<1>12. ASSUME NEW q \in Peers
       PROVE  /\ Local(q)' /\ \A m \in Backs(q)' : m \in Backs(q) \/ m.id >= Top
  <2>1. /\ Local(q) /\ toPeer[q] \in Seq(Message)
        /\ Regs(q)' = Regs(q) /\ Maxes(q)' \subseteq Maxes(q) /\ Tables(q)' = Tables(q)
        /\ Single(toOrder[q]) => Single(toOrder'[q])
        /\ Fronts(q)' /\ Kept(q)'
    BY <1>1, <1>3, <1>5, Counted, StillKept DEF IInv, TypeOK
  <2>2. /\ Queries(q)' = Queries(q) /\ Gets(q)' = Gets(q)
        /\ q \notin Above' => Backs(q)' = Backs(q)
        /\ \A m \in Backs(q)' : m \in Backs(q) \/ m.id = Top
        /\ \A m \in Syncs(q)' : m \in Syncs(q) \/ m.chain = persisted
        /\ \A i \in 1..Len(toPeer'[q]) : toPeer'[q][i].type = "backspace" =>
             \/ i \in 1..Len(toPeer[q]) /\ toPeer'[q][i] = toPeer[q][i]
             \/ toPeer'[q][i].id = Top
        /\ q \notin Known => toPeer'[q] = toPeer[q]
    <3>1. q \notin Known => q \notin Above' \cup DOMAIN conn \cup Live'
      BY <1>4, <1>6 DEF Known
    <3> QED BY <1>2, <1>3, <3>1, MisledIs
  <2>3. Wire(q)'
    BY <1>4, <1>7, <2>1, <2>2 DEF Local, Wire, Known
  <2>4. Idle(q)' /\ Quiet(q)' /\ Fetch(q)'
    BY <1>1, <1>4, <1>9, <2>1, <2>2 DEF Local, Idle, Quiet, Untold, Fetch
  <2>5. Leads(q)'
    <3>1. \A x : Good(x) => IsPrefix(x, persisted)
      BY <1>1 DEF Good
    <3>2. \A x : IsPrefix(x, persisted) => Good(x)'
      BY <1>4 DEF Good
    <3>3. IsPrefix(persisted, persisted)
      BY <1>3, PrefixOrder
    <3> QED BY <1>7, <2>1, <2>2, <3>1, <3>2, <3>3 DEF Local, Leads
  <2>6. Backspaces(q)'
    <3>1. SUFFICES ASSUME NEW i \in 1..Len(toPeer'[q]), toPeer'[q][i].type = "backspace"
                   PROVE  \/ toPeer'[q][i].id = Top
                          \/ /\ i = 1 /\ toPeer'[q][i].id < Top
                             /\ state = "normal" /\ ~IsPrefix(persisted, held[q])
      BY <1>1, <1>4, <1>9 DEF Backspaces
    <3>2. CASE toPeer'[q][i].id = Top
      BY <3>2
    <3>3. CASE i \in 1..Len(toPeer[q]) /\ toPeer'[q][i] = toPeer[q][i]
      BY <1>4, <2>1, <3>1, <3>3 DEF Local, Backspaces
    <3> QED BY <2>2, <3>1, <3>2, <3>3
  <2>7. Answering(q)'
    <3>1. SUFFICES ASSUME Low', q \notin DOMAIN vec'
                   PROVE  /\ \A m \in Maxes(q) : Longer(m.chain) => held[q] = m.chain /\ Regs(q) = {} /\ Backs(q)' = {}
                          /\ Queries(q) # {} /\ Longer(held[q]) => Regs(q) = {} /\ Backs(q)' = {}
      BY <1>4, <2>1, <2>2 DEF Answering
    <3>2. Low /\ q \notin DOMAIN vec
      BY <1>4, <1>8, <1>9, <3>1
    <3>3. Backs(q)' = Backs(q)
      BY <1>6, <2>2, <3>1 DEF Live
    <3> QED BY <2>1, <3>2, <3>3 DEF Local, Answering
  \* What a peer above holds, and says that it holds.
  <2>8. ASSUME Low, leads, q \in Above'
        PROVE  /\ q \notin DOMAIN conn' /\ IsPrefix(persisted, held[q])
               /\ Regs(q) # {} => held[q] = persisted /\ Single(toOrder[q])
    <3>1. q \notin DOMAIN conn'
      BY <1>5, <2>8
    <3>2. CASE q \in Live
      <4>1. Longer(vec[q])
        BY <1>4, <1>6, <2>8, <3>2 DEF Live
      <4> QED BY <2>1, <2>8, <3>1, <3>2, <4>1 DEF Local, Dropping
    <3>3. CASE q = p
      <4>1. PICK m \in Maxes(p) : vec'[p] = m.chain
        BY <1>1, Counted
      <4>2. held[p] = vec'[p] /\ Regs(p) = {}
        BY <1>4, <1>6, <2>1, <2>8, <3>3, <4>1 DEF Local, Answering
      <4>3. vec'[p] \in Chains /\ IsPrefix(Front(vec'[p]), persisted)
        BY <1>4, <2>1, <3>3 DEF Fronts
      <4>4. IsPrefix(persisted, vec'[p])
        BY <1>3, <1>6, <2>8, <3>3, <4>3, Behind DEF Longer, Top
      <4> QED BY <3>1, <3>3, <4>2, <4>4
    <3> QED BY <1>4, <1>6, <2>8, <3>2, <3>3
  <2>9. Dropping(q)'
    <3>1. SUFFICES ASSUME Low', leads, q \in Live', Longer(vec'[q])
                   PROVE  /\ IsPrefix(persisted, held[q])
                          /\ Regs(q) # {} => q \notin DOMAIN conn' /\ held[q] = persisted /\ Single(toOrder'[q])
                          /\ q \notin DOMAIN conn'
      BY <1>4, <2>1 DEF Dropping
    <3>2. q \in Above' /\ Low
      BY <1>4, <1>8, <1>9, <3>1 DEF Above
    <3> QED BY <2>1, <2>8, <3>1, <3>2
  <2>10. OutKept(q)'
    <3>1. SUFFICES ASSUME out # <<>>, held[q] = out, Backs(q)' # {}
                   PROVE  q \notin DOMAIN conn' /\ Regs(q) = {}
      BY <1>4, <2>1 DEF OutKept
    <3>2. state = "normal" /\ leads /\ Low /\ out # persisted
      <4>1. state = "normal" /\ leads /\ Len(out) = Len(chain) + 1 /\ chain = persisted
        BY <1>3, <3>1 DEF Roles, Phase
      <4> QED BY <1>3, <1>8, <4>1 DEF Top
    <3>3. CASE q \in Above'
      BY <2>8, <3>1, <3>2, <3>3
    <3>4. CASE q \notin Above'
      BY <1>5, <2>1, <2>2, <3>1, <3>4 DEF Local, OutKept
    <3> QED BY <3>3, <3>4
  <2>11. \A m \in Backs(q)' : m \in Backs(q) \/ m.id >= Top
    BY <1>3, <2>2
  <2> QED BY <2>1, <2>3, <2>4, <2>5, <2>6, <2>7, <2>9, <2>10, <2>11 DEF Local
<1>13. Quorums'
  BY <1>1, <1>12, QuorumsAnswered
<1> QED BY <1>10, <1>11, <1>12, <1>13 DEF IInv
-----------------------------------------------------------------------------
(* The invariant holds. *)

\* The invariant holds at first.
LEMMA InitIInv == Init => IInv
<1> SUFFICES ASSUME Init PROVE IInv
  OBVIOUS
<1>1. /\ persisted \in Chains /\ held \in [Peers -> Chains] /\ <<>> \in Chains
      /\ \A p \in Peers : IsPrefix(Front(held[p]), persisted)
  <2>1. /\ persisted \in Chains /\ held \in [Peers -> {c \in Chains : IsPrefix(Front(c), persisted)}]
    BY StartupAssumption DEF Init
  <2>2. <<>> \in Seq(Contents) /\ Len(<<>>) <= MaxBlock
    BY Bounds
  <2>3. \A c : c \in Seq(Contents) /\ Len(c) <= MaxBlock => c \in Chains
    BY ChainIs
  <2> QED BY <2>1, <2>2, <2>3
<1>2. chain \in Chains /\ IsPrefix(chain, persisted) /\ Len(chain) + 1 \in 0..(MaxBlock + 1)
  <2>1. PICK n \in 0..Len(persisted) : chain = SubSeq(persisted, 1, n)
    BY DEF Init, Prefixes
  <2>2. chain \in Chains /\ IsPrefix(chain, persisted)
    BY <1>1, <2>1, Cut
  <2> QED BY <2>2, Lengths, Bounds
<1>3. /\ vec = <<>> /\ conn = <<>> /\ DOMAIN vec = {} /\ DOMAIN conn = {} /\ stale = {} /\ link = {}
      /\ vec \in [DOMAIN vec -> Chains] /\ conn \in [DOMAIN conn -> Chains]
      /\ Live = {} /\ Known = {}
  <2>1. vec = <<>> /\ conn = <<>> /\ stale = {} /\ link = {}
    BY DEF Init
  <2>2. DOMAIN vec = {} /\ DOMAIN conn = {}
    BY <2>1
  <2>3. vec \in [DOMAIN vec -> Chains] /\ conn \in [DOMAIN conn -> Chains]
    BY <2>1, <2>2
  <2> QED BY <2>1, <2>2, <2>3 DEF Live, Known
<1>4. /\ toPeer \in [Peers -> Seq(Message)] /\ toOrder \in [Peers -> Seq(Message)]
      /\ \A p \in Peers : /\ toPeer[p] = <<>> /\ toOrder[p] = <<>>
                          /\ Regs(p) = {} /\ Maxes(p) = {} /\ Tables(p) = {}
                          /\ Queries(p) = {} /\ Backs(p) = {} /\ Syncs(p) = {} /\ Gets(p) = {}
                          /\ Range(toPeer[p]) = {} /\ Range(toOrder[p]) = {}
                          /\ Len(toPeer[p]) = 0
  <2>1. toPeer = [p \in Peers |-> <<>>] /\ toOrder = [p \in Peers |-> <<>>]
    BY DEF Init
  <2>2. \A p \in Peers : toPeer[p] = <<>> /\ toOrder[p] = <<>>
    BY <2>1
  <2>3. toPeer \in [Peers -> Seq(Message)] /\ toOrder \in [Peers -> Seq(Message)]
    BY <2>1, NoMessages
  <2> QED BY <2>2, <2>3, NoMessages DEF Regs, Maxes, Tables, Queries, Backs, Syncs, Gets
<1>5. /\ state = "follower" /\ leads = FALSE /\ target = <<>> /\ timer = FALSE /\ dirty = FALSE /\ alive = TRUE
      /\ cur = Len(chain) + 1 /\ out = <<>> /\ faults = 0 /\ Cardinality(Holders(persisted)) >= Kafka
  BY DEF Init
<1>6. TypeOK
  <2>1. /\ state \in {"follower", "wait", "start", "sync", "normal"}
        /\ leads \in BOOLEAN /\ timer \in BOOLEAN /\ dirty \in BOOLEAN /\ alive \in BOOLEAN
        /\ target \in Chains /\ out \in Chains /\ faults \in 0..MaxFault /\ cur \in 0..(MaxBlock + 1)
    <3>1. state \in {"follower", "wait", "start", "sync", "normal"}
      BY <1>5
    <3>2. target \in Chains /\ out \in Chains
      BY <1>1, <1>5
    <3>3. faults \in 0..MaxFault /\ cur \in 0..(MaxBlock + 1)
      BY <1>2, <1>5, Bounds
    <3>4. leads \in BOOLEAN /\ timer \in BOOLEAN /\ dirty \in BOOLEAN /\ alive \in BOOLEAN
      BY <1>5
    <3> QED BY <3>1, <3>2, <3>3, <3>4
  <2>2. /\ link \subseteq Peers /\ DOMAIN conn \subseteq link
        /\ DOMAIN vec \subseteq Peers /\ stale \subseteq DOMAIN vec
    BY <1>3
  <2>3. vec \in [DOMAIN vec -> Chains] /\ conn \in [DOMAIN conn -> Chains]
    BY <1>3
  <2> QED BY <1>1, <1>2, <1>4, <2>1, <2>2, <2>3 DEF TypeOK
<1>7. Roles /\ Phase
  BY <1>2, <1>3, <1>5 DEF Roles, Phase
<1>8. ASSUME NEW p \in Peers PROVE Local(p)
  <2>1. \A c : ~Claims(p, c)
    BY <1>3, <1>4 DEF Claims
  <2>2. \A i \in 1..Len(toPeer[p]) : FALSE
    BY <1>4
  <2>3. Wire(p) /\ Fronts(p) /\ Idle(p)
    BY <1>1, <1>3, <1>4 DEF Wire, Fronts, Idle
  <2>4. Quiet(p) /\ Leads(p) /\ Kept(p)
    BY <1>3, <1>4, <2>1 DEF Quiet, Leads, Kept
  <2>5. Backspaces(p) /\ Fetch(p)
    BY <1>5, <2>2 DEF Backspaces, Fetch
  <2>6. Answering(p) /\ Dropping(p) /\ OutKept(p)
    BY <1>3, <1>4, <1>5 DEF Answering, Dropping, OutKept
  <2> QED BY <2>3, <2>4, <2>5, <2>6 DEF Local
<1>9. Quorums
  <2>1. Safe = Holders(persisted) /\ Wit = Holders(persisted)
    BY <1>3, <1>4 DEF Safe, Wit, Holders
  <2> QED BY <1>5, <2>1 DEF Quorums
<1> QED BY <1>6, <1>7, <1>8, <1>9 DEF IInv

\* The invariant speaks of the state only.
LEMMA StutterIInv == IInv /\ UNCHANGED vars => IInv'
<1> SUFFICES ASSUME IInv, UNCHANGED vars PROVE IInv'
  OBVIOUS
<1>1. /\ UNCHANGED <<state, leads, target, timer, dirty, conn, vec, stale, chain, cur, out, persisted>>
      /\ UNCHANGED <<alive, link, toPeer, toOrder, held, faults>>
  BY DEF vars, role, known, blocks
<1>2. SameVotes /\ (Closed => Closed')
  BY <1>1 DEF SameVotes, Closed, Asked
<1>3. TypeOK' /\ Roles'
  BY <1>1 DEF IInv, TypeOK, Roles
<1>4. ASSUME NEW q \in Peers PROVE Dropping(q)' /\ OutKept(q)'
  <2>1. /\ Live' = Live /\ Regs(q)' = Regs(q) /\ Backs(q)' = Backs(q)
        /\ (Low' => Low) /\ \A c : Longer(c)' <=> Longer(c)
    BY <1>1, <1>2, SameGoals, SameLow DEF Live, Regs, Backs
  <2>2. Dropping(q) /\ OutKept(q)
    BY DEF IInv, Local
  <2> QED BY <1>1, <2>1, <2>2 DEF Dropping, OutKept
<1> QED BY <1>1, <1>2, <1>3, <1>4, RoleSafe

\* Every step of the order node and of the peers preserves it.
LEMMA StepIInv ==
    ASSUME Protected, Majority, IInv, [Next]_vars
    PROVE  IInv'
<1>1. CASE BecomeMaster \/ StepDown \/ OnSyncTimeOut
  BY <1>1, BecomeMasterSafe, StepDownSafe, TimeOutSafe
<1>2. CASE Pack \/ Persist \/ OtherMaster
  BY <1>2, PackSafe, PersistSafe, OtherMasterSafe
<1>3. ASSUME NEW p \in Peers, Handle(p) PROVE IInv'
  <2>1. CASE Register(p)
    BY <2>1, RegisterSafe, RegisterBeginsSafe
  <2>2. CASE AnswerDropped(p) \/ TableIgnored(p)
    BY <2>2, IgnoredSafe
  <2>3. CASE AnswerCounted(p)
    BY <2>3, AnswerCountedSafe
  <2>4. CASE ChooseOwn(p)
    BY <2>4, ChooseOwnSafe
  <2>5. CASE ChooseLater(p)
    BY <2>5, ChooseLaterSafe
  <2>6. CASE BackspacePeers(p)
    BY <2>6, BackspacePeersSafe
  <2>7. CASE TableStored(p)
    BY <2>7, TableStoredSafe
  <2>8. CASE TableNotStored(p)
    BY <2>8, RequestSafe
  <2> QED BY <1>3, <2>1, <2>2, <2>3, <2>4, <2>5, <2>6, <2>7, <2>8 DEF Handle
<1>4. ASSUME NEW p \in Peers, OnNetworkError(p) \/ PeerConnect(p) PROVE IInv'
  BY <1>4, ConnectSafe
<1>5. ASSUME NEW p \in Peers, Deliver(p) PROVE IInv'
  BY <1>5, DeliverSafe
<1>6. ASSUME NEW p \in Peers, PeerStep(p) PROVE IInv'
  BY <1>4, <1>6, PeerAnswerSafe, PeerBackspaceSafe, PeerSyncSafe, PeerTableSafe DEF PeerStep
<1>7. CASE UNCHANGED vars
  BY <1>7, StutterIInv
<1> QED BY <1>1, <1>2, <1>3, <1>4, <1>5, <1>6, <1>7 DEF Next

\* The inductive invariant holds of every reachable state, as long as no node
\* packs under the block id it had before it synchronised, no other master writes
\* behind its back, no late answer follows a block, and it leads but once.
THEOREM StartupInvariant == Protected /\ Majority /\ Spec => []IInv
<1> SUFFICES ASSUME Protected, Majority PROVE Spec => []IInv
  OBVIOUS
<1>1. IInv /\ [Next]_vars => IInv'
  BY StepIInv
<1> QED BY <1>1, InitIInv, PTL DEF Spec
-----------------------------------------------------------------------------
(* The properties *)

\* The node's role, its blocks, what the peers answered and the mail keep
\* their types: handlers are those of open connections, answers those of peers.
THEOREM TypeCorrect == Protected /\ Majority /\ Spec => []TypeOK
<1>1. IInv => TypeOK
  BY DEF IInv
<1> QED BY <1>1, StartupInvariant, PTL

\* A master that serves has every block an order node ever persisted.  A node
\* that synchronised may be that master, but only until it packs: its current
\* block kept the id of the process start (Protected rules that packing out).
THEOREM StartSafe == Protected /\ Majority /\ Spec => []ServesPersisted
<1>1. IInv => ServesPersisted
  <2>1. ASSUME IInv PROVE IsPrefix(persisted, persisted)
    BY <2>1, PrefixOrder DEF IInv, TypeOK
  <2> QED BY <2>1 DEF IInv, Phase, ServesPersisted
<1> QED BY <1>1, StartupInvariant, PTL

\* Whatever peers are told to drop or to fetch, m_nKafkaValue of them hold
\* every persisted block: as long as the ids of the blocks packed go on from
\* the config (Protected), or the config would go back and peers with it.
THEOREM BlocksSafe == Protected /\ Majority /\ Spec => []QuorumKept
<1>1. IInv => QuorumKept
  <2> SUFFICES ASSUME IInv PROVE QuorumKept
    OBVIOUS
  <2>1. Holders(persisted) \in SUBSET Peers /\ Safe \in SUBSET Holders(persisted)
    BY DEF Holders, Safe
  <2>2. /\ Cardinality(Safe) <= Cardinality(Holders(persisted))
        /\ Cardinality(Safe) \in Nat /\ Cardinality(Holders(persisted)) \in Nat
    BY <2>1, PeerSets
  <2> QED BY <2>2, Bounds DEF IInv, Quorums, QuorumKept
<1> QED BY <1>1, StartupInvariant, PTL
-----------------------------------------------------------------------------
(* The order node stays up. *)

\* A fault does not take the last of the peers that registered with the block to
\* fetch, and no list is read behind its end.
Sheltered == Protected /\ Exposed \cap {"groupLeaves", "wildIndex"} = {}

\* Nothing came to peer q, or from it, that leads elsewhere.
SameLead(q) == /\ q \in Known' => \/ Regs(q)' = {}
                                  \/ q \in Known /\ Regs(q)' \subseteq Regs(q) /\ held'[q] = held[q]
               /\ \A m \in Syncs(q)' : m \in Syncs(q) \/ Goal(m.chain)'

\* What leads a peer to the goal keeps leading it there.
LEMMA LedKept ==
    ASSUME NEW q \in Peers, Led(q), SameLead(q), \A c : Goal(c) => Goal(c)',
           state' \in {"start", "sync"} /\ ~(Stuck') => state \in {"start", "sync"} /\ ~Stuck
    PROVE  Led(q)'
<1>1. SUFFICES ASSUME state' \in {"start", "sync"}, ~(Stuck')
               PROVE  /\ q \in Known' => \A m \in Regs(q)' : Goal(m.chain)' /\ held'[q] = m.chain
                      /\ \A m \in Syncs(q)' : Goal(m.chain)'
  BY DEF Led
<1>2. /\ q \in Known => \A m \in Regs(q) : Goal(m.chain) /\ held[q] = m.chain
      /\ \A m \in Syncs(q) : Goal(m.chain)
  BY <1>1 DEF Led
<1> QED BY <1>2 DEF SameLead

\* A step that concerns one peer.
LEMMA UpOne ==
    ASSUME UpInv, SameVotes, target' = target, alive', NEW p \in Peers,
           state = "sync" => \E r \in DOMAIN conn' : conn'[r] = target,
           \A q \in Peers \ {p} : SamePeer(q), Led(p)'
    PROVE  UpInv'
<1>1. /\ state' = state /\ vec' = vec /\ (Stuck' <=> Stuck) /\ \A c : Goal(c)' <=> Goal(c)
  BY SameGoals DEF SameVotes
<1>2. ASSUME NEW q \in Peers \ {p} PROVE Led(q)'
  <2>1. SamePeer(q) /\ Led(q)
    BY DEF UpInv
  <2>2. (q \in Known' <=> q \in Known) /\ Regs(q)' = Regs(q) /\ Syncs(q)' = Syncs(q) /\ held'[q] = held[q]
    BY <1>1, <2>1 DEF SamePeer, SamePlace, SameMail, Known, Live, Regs, Syncs
  <2>3. SameLead(q)
    BY <2>2 DEF SameLead
  <2> QED BY <1>1, <2>1, <2>3, LedKept
<1>3. \A q \in Peers : Led(q)'
  BY <1>2
<1> QED BY <1>1, <1>3 DEF UpInv

\* A step that keeps what peers were told, and whom the node knows.
LEMMA UpMail ==
    ASSUME UpInv, SameVotes, UNCHANGED <<target, alive, conn, stale, link>>, NEW p \in Peers,
           \A q \in Peers \ {p} : SameMail(q) /\ held'[q] = held[q],
           Led(p)' \/ (Regs(p)' = Regs(p) /\ Syncs(p)' \subseteq Syncs(p) /\ held'[p] = held[p])
    PROVE  UpInv'
<1>1. /\ state' = state /\ vec' = vec /\ (Stuck' <=> Stuck) /\ \A c : Goal(c)' <=> Goal(c)
  BY SameGoals DEF SameVotes
<1>2. Known' = Known /\ \A q \in Peers \ {p} : SamePeer(q)
  BY <1>1 DEF Known, Live, SamePeer, SamePlace
<1>3. Led(p)'
  <2>1. CASE Regs(p)' = Regs(p) /\ Syncs(p)' \subseteq Syncs(p) /\ held'[p] = held[p]
    <3>1. SameLead(p) /\ Led(p)
      BY <1>2, <2>1 DEF SameLead, UpInv
    <3> QED BY <1>1, <3>1, LedKept
  <2> QED BY <2>1
<1> QED BY <1>2, <1>3, UpOne DEF UpInv

\* Past the start, or with the choice stuck, nothing is asked of peers.
LEMMA UpServes ==
    ASSUME alive', state' \notin {"start", "sync"}
    PROVE  UpInv'
BY DEF UpInv, Led

\* What peers hold does not change, and what comes from them only to the node.
LEMMA UpRequest ==
    ASSUME Majority, IInv, UpInv, NEW p \in Peers,
           \/ TableNotStored(p)
           \/ OnSyncTimeOut /\ p \in DOMAIN conn /\ conn[p] = target /\ Send(One(p, Get(Len(chain) + 1)))
    PROVE  UpInv'
<1> DEFINE m == Get(Len(chain) + 1)
<1>1. /\ Wire(p) /\ TypeOK /\ Phase /\ Roles
      /\ UNCHANGED <<state, leads, target, timer, known, blocks, alive, link, held>> /\ Send(One(p, m))
  BY DEF IInv, Local, OnSyncTimeOut, TableNotStored, role
<1>2. /\ SameVotes /\ UNCHANGED <<target, alive, conn, stale, link>> /\ held' = held
  BY <1>1 DEF role, known, blocks, SameVotes
<1>3. /\ state = "sync" /\ Regs(p)' = Regs(p)
      /\ \A q \in Peers : q # p => toOrder'[q] = toOrder[q]
  <2>1. CASE TableNotStored(p)
    <3>1. Receive(p, "table") /\ state = "sync"
      BY <2>1 DEF TableNotStored, Expected
    <3>2. PICK type \in {"table"} : Receive(p, type)
      BY <3>1
    <3>3. type # "regist"
      BY <3>2
    <3>4. /\ \A q \in Peers : q # p => toOrder'[q] = toOrder[q]
          /\ Of(toOrder'[p], "regist") = Of(toOrder[p], "regist")
      BY <1>1, <3>2, <3>3, Received
    <3> QED BY <3>1, <3>4 DEF Regs
  <2>2. CASE OnSyncTimeOut
    BY <1>1, <2>2 DEF OnSyncTimeOut, Roles, Regs
  <2> QED BY <2>1, <2>2
<1>4. Len(chain) + 1 \in 0..MaxBlock
  <2>1. Len(chain) < Len(target) /\ chain \in Chains /\ target \in Chains
    BY <1>1, <1>3 DEF Phase, TypeOK
  <2> QED BY <2>1, Lengths, Bounds
<1>5. m \in Message /\ m.type = "get"
  BY <1>4, Messages
<1> HIDE DEF m
<1>6. Appended(toPeer[p], toPeer'[p], m) /\ \A q \in Peers : q # p => toPeer'[q] = toPeer[q]
  BY <1>1, <1>5, SentOne
<1>7. Syncs(p)' = Syncs(p)
  BY <1>5, <1>6 DEF Appended, Syncs
<1>8. \A q \in Peers \ {p} : SameMail(q) /\ held'[q] = held[q]
  BY <1>2, <1>3, <1>6 DEF SameMail
<1> QED BY <1>2, <1>3, <1>7, <1>8, UpMail

\* A message that is not used.
LEMMA UpIgnored ==
    ASSUME IInv, UpInv, NEW p \in Peers, AnswerDropped(p) \/ TableIgnored(p)
    PROVE  UpInv'
<1>1. /\ Wire(p) /\ TypeOK
      /\ UNCHANGED <<role, known, blocks, alive, link, toPeer, held, faults>>
  BY DEF IInv, Local, AnswerDropped, TableIgnored
<1>2. /\ SameVotes /\ UNCHANGED <<target, alive, conn, stale, link>> /\ held' = held /\ toPeer' = toPeer
  BY <1>1 DEF role, known, blocks, SameVotes
<1>3. PICK type \in {"max", "table"} : Receive(p, type)
  BY DEF AnswerDropped, TableIgnored
<1>4. type # "regist"
  BY <1>3
<1>5. /\ \A q \in Peers : q # p => toOrder'[q] = toOrder[q]
      /\ Of(toOrder'[p], "regist") = Of(toOrder[p], "regist")
  BY <1>1, <1>3, <1>4, Received
<1>6. Regs(p)' = Regs(p) /\ Syncs(p)' = Syncs(p)
  BY <1>2, <1>5 DEF Regs, Syncs
<1>7. \A q \in Peers \ {p} : SameMail(q) /\ held'[q] = held[q]
  BY <1>2, <1>5 DEF SameMail
<1> QED BY <1>2, <1>6, <1>7, UpMail

\* The node's own steps that concern no peer.
LEMMA UpRole ==
    ASSUME UpInv, SameVotes, UNCHANGED <<target, alive, conn, stale, link, toPeer, toOrder, held>>
    PROVE  UpInv'
<1>1. /\ state' = state /\ vec' = vec /\ (Stuck' <=> Stuck) /\ \A c : Goal(c)' <=> Goal(c)
  BY SameGoals DEF SameVotes
<1>2. ASSUME NEW q \in Peers PROVE Led(q)'
  <2>1. SameLead(q) /\ Led(q)
    BY <1>1 DEF SameLead, Known, Live, Regs, Syncs, UpInv
  <2> QED BY <1>1, <2>1, LedKept
<1> QED BY <1>1, <1>2 DEF UpInv
-----------------------------------------------------------------------------
\* A registered peer that is told to drop or to fetch a block drops it, or
\* fetches the one agreed on, and has registered with nothing else.
LEMMA UpPeer ==
    ASSUME Majority, IInv, UpInv, NEW p \in Peers, PeerBackspace(p) \/ PeerSync(p)
    PROVE  UpInv'
<1>1. /\ Local(p) /\ TypeOK /\ Phase /\ Roles /\ RegisterIfChanged(p)
      /\ Read(p, "backspace") \/ Read(p, "sync")
      /\ UNCHANGED <<role, known, blocks, alive, link, faults>>
  BY DEF IInv, PeerBackspace, PeerSync, Read
<1>2. /\ SameVotes /\ UNCHANGED <<target, alive, conn, stale, link>>
      /\ state' = state /\ vec' = vec /\ persisted' = persisted
  BY <1>1 DEF role, known, blocks, SameVotes
<1>3. PICK type \in {"backspace", "sync"} : Read(p, type)
  BY <1>1
<1>4. /\ toPeer[p] \in Seq(Message) /\ toPeer[p] # <<>> /\ Head(toPeer[p]) \in Message
      /\ Head(toPeer[p]).type = type /\ Head(toPeer[p]) \in Of(toPeer[p], type)
      /\ \A q \in Peers : q # p => toPeer'[q] = toPeer[q]
      /\ \A t : Of(toPeer'[p], t) \subseteq Of(toPeer[p], t)
  BY <1>1, <1>3, ReadOf
<1>5. p \in Known /\ Syncs(p)' \subseteq Syncs(p)
  BY <1>3, <1>4, Reading DEF Syncs
<1>6. /\ (Stuck' <=> Stuck) /\ (\A c : Goal(c)' <=> Goal(c)) /\ Known' = Known
  BY <1>2, SameGoals DEF Known, Live
<1>7. /\ held[p] \in Chains /\ persisted \in Chains /\ Len(held[p]) \in Nat /\ Top \in Nat
      /\ IsPrefix(Front(held[p]), persisted)
  BY <1>1, Lengths DEF TypeOK, Local, Fronts, Top
\* What p holds then is the block agreed on.
<1>8. ASSUME state \in {"start", "sync"}, ~Stuck
      PROVE  /\ held'[p] \in Chains /\ \A q \in Peers : q # p => held'[q] = held[q]
             /\ held'[p] # held[p] => /\ \A x \in {held'[p]} : Goal(x)
                                      /\ ~Goal(held[p])
  <2>1. CASE PeerBackspace(p)
    <3> DEFINE n == Head(toPeer[p]).id
    <3>1. /\ toPeer[p][1].type = "backspace" /\ toPeer[p][1].id = n /\ 1 \in 1..Len(toPeer[p])
      BY <1>4, <2>1, TailOf DEF PeerBackspace, Read
    <3>2. Dead /\ state = "sync" /\ n = Top
      <4>1. ~Closed
        BY <1>8 DEF Closed
      <4> QED BY <1>1, <1>8, <3>1, <4>1 DEF Local, Backspaces
    <3>3. target = persisted /\ Goal(persisted)
      <4>1. Goal(target) /\ ~Chosen(target)
        BY <1>1, <3>2, Goals DEF Phase, TypeOK
      <4> QED BY <4>1 DEF Goal
    <3>4. held' = [held EXCEPT ![p] = IF Len(held[p]) > Top THEN SubSeq(held[p], 1, Top) ELSE held[p]]
      BY <2>1, <3>2 DEF PeerBackspace
    <3>5. CASE Len(held[p]) > Top
      <4>1. Len(held[p]) = Top + 1
        BY <1>7, <3>5, Behind DEF Top
      <4>2. /\ Top \in 0..Len(held[p]) /\ SubSeq(held[p], 1, Top) \in Chains
            /\ Len(SubSeq(held[p], 1, Top)) = Top /\ IsPrefix(SubSeq(held[p], 1, Top), persisted)
        <5>1. Top \in 0..Len(held[p]) /\ Top < Len(held[p])
          BY <1>7, <4>1
        <5> QED BY <1>7, <5>1, Cut, Behind
      <4>3. SubSeq(held[p], 1, Top) = persisted
        BY <1>7, <4>2, PrefixOrder DEF Top
      <4>4. held'[p] = persisted /\ \A q \in Peers : q # p => held'[q] = held[q]
        BY <1>1, <3>4, <3>5, <4>3 DEF TypeOK
      <4>5. ~Goal(held[p])
        <5>1. held[p] # persisted /\ ~Chosen(held[p])
          BY <1>1, <1>7, <3>2, <4>1, Goals DEF Top
        <5> QED BY <5>1 DEF Goal
      <4> QED BY <1>7, <3>3, <4>4, <4>5
    <3>6. CASE ~(Len(held[p]) > Top)
      BY <1>1, <1>7, <3>4, <3>6 DEF TypeOK
    <3> QED BY <3>5, <3>6
  <2>2. CASE PeerSync(p)
    <3> DEFINE c == Head(toPeer[p]).chain
    <3>1. Goal(c) /\ c \in Chains
      <4>1. Head(toPeer[p]) \in Syncs(p)
        BY <1>4, <2>2 DEF PeerSync, Read, Syncs
      <4> QED BY <1>4, <1>8, <4>1, MessageIs DEF UpInv, Led
    <3>2. held' = [held EXCEPT ![p] = IF Len(@) <= Len(c) THEN c ELSE @]
      BY <2>2 DEF PeerSync
    <3> HIDE DEF c
    <3>3. held'[p] \in {c, held[p]} /\ \A q \in Peers : q # p => held'[q] = held[q]
      BY <1>1, <3>2 DEF TypeOK
    <3>4. held[p] # c => ~Goal(held[p])
      BY <1>1, <3>1, Goals
    <3> QED BY <1>7, <3>1, <3>3, <3>4
  <2> QED BY <2>1, <2>2
<1>9. CASE state \in {"start", "sync"} /\ ~Stuck
  <2>1. /\ held'[p] \in Chains /\ (\A q \in Peers : q # p => held'[q] = held[q])
        /\ held'[p] # held[p] => /\ \A x \in {held'[p]} : Goal(x)
                                 /\ ~Goal(held[p])
    BY <1>8, <1>9
  <2>2. /\ \A q \in Peers : q # p => toOrder'[q] = toOrder[q]
        /\ held'[p] = held[p] => Regs(p)' = Regs(p)
        /\ \A m \in Regs(p)' : m \in Regs(p) \/ (held'[p] # held[p] /\ m.chain = held'[p])
    BY <1>1, <2>1, Reregistered
  <2>3. /\ \A m \in Regs(p) : Goal(m.chain) /\ held[p] = m.chain
        /\ \A m \in Syncs(p) : Goal(m.chain)
    BY <1>5, <1>9 DEF UpInv, Led
  <2>4. Led(p)'
    <3>1. \A m \in Syncs(p)' : Goal(m.chain)'
      BY <1>5, <1>6, <2>3
    <3>2. CASE held'[p] = held[p]
      BY <1>6, <2>2, <2>3, <3>1, <3>2 DEF Led
    <3>3. CASE held'[p] # held[p]
      <4>1. Regs(p) = {}
        BY <2>1, <2>3, <3>3
      <4>2. \A m \in Regs(p)' : m.chain = held'[p] /\ Goal(m.chain)
        BY <2>1, <2>2, <3>3, <4>1
      <4> QED BY <1>6, <3>1, <4>2 DEF Led
    <3> QED BY <3>2, <3>3
  <2>5. \A q \in Peers \ {p} : SameMail(q) /\ held'[q] = held[q]
    BY <1>4, <2>1, <2>2 DEF SameMail
  <2> QED BY <1>2, <2>4, <2>5, UpMail
<1>10. CASE state \notin {"start", "sync"}
  BY <1>2, <1>10, UpServes DEF UpInv
<1>11. CASE Stuck
  <2>1. \A q \in Peers : Led(q)'
    BY <1>6, <1>11 DEF Led
  <2>2. state = "start"
    BY <1>11 DEF Stuck
  <2> QED BY <1>2, <2>1, <2>2 DEF UpInv
<1> QED BY <1>9, <1>10, <1>11

\* Answers, and blocks for the node.
LEMMA UpAnswer ==
    ASSUME IInv, UpInv, NEW p \in Peers, PeerAnswer(p) \/ PeerTable(p)
    PROVE  UpInv'
<1>1. /\ TypeOK /\ held' = held
      /\ Read(p, "query") \/ Read(p, "get")
      /\ UNCHANGED <<role, known, blocks, alive, link, faults>>
  BY DEF IInv, PeerAnswer, PeerTable, Read
<1>2. SameVotes /\ UNCHANGED <<target, alive, conn, stale, link>>
  BY <1>1 DEF role, known, blocks, SameVotes
<1>3. PICK type \in {"query", "get"} : Read(p, type)
  BY <1>1
<1>4. /\ \A q \in Peers : q # p => toPeer'[q] = toPeer[q]
      /\ \A t : Of(toPeer'[p], t) \subseteq Of(toPeer[p], t)
      /\ toPeer[p] \in Seq(Message) /\ toPeer[p] # <<>> /\ Head(toPeer[p]) \in Message
  BY <1>1, <1>3, ReadOf
<1>5. \E m \in Message : Says(p, m) /\ m.type # "regist"
  <2>1. CASE PeerAnswer(p)
    <3> DEFINE m == Answer(held[p])
    <3>1. Says(p, m)
      BY <2>1 DEF PeerAnswer
    <3>2. m \in Message /\ m.type = "max"
      BY <1>1, Messages DEF TypeOK
    <3> HIDE DEF m
    <3> QED BY <3>1, <3>2
  <2>2. CASE PeerTable(p)
    <3> DEFINE n == Head(toPeer[p]).id
               c == IF n <= Len(held[p]) THEN SubSeq(held[p], 1, n) ELSE <<>>
               m == Table(n, c)
    <3>1. Says(p, m)
      BY <2>2 DEF PeerTable
    <3>2. n \in 0..MaxBlock /\ n \in Nat /\ held[p] \in Chains /\ <<>> \in Chains
      <4>1. Query \in Message /\ Query.chain = <<>>
        BY Messages DEF Query
      <4>2. <<>> \in Chains
        BY <4>1, MessageIs
      <4> QED BY <1>1, <1>4, <4>2, MessageIs DEF TypeOK
    <3>3. c \in Chains
      <4>1. n <= Len(held[p]) => n \in 0..Len(held[p])
        BY <3>2, Lengths
      <4> QED BY <3>2, <4>1, Cut
    <3>4. m \in Message /\ m.type = "table"
      BY <3>2, <3>3, Messages
    <3> HIDE DEF m
    <3> QED BY <3>1, <3>4
  <2> QED BY <2>1, <2>2
<1>6. PICK m \in Message : Says(p, m) /\ m.type # "regist"
  BY <1>5
<1>7. Appended(toOrder[p], toOrder'[p], m) /\ \A q \in Peers : q # p => toOrder'[q] = toOrder[q]
  BY <1>1, <1>6, SaidOf
<1>8. Regs(p)' = Regs(p) /\ Syncs(p)' \subseteq Syncs(p)
  BY <1>4, <1>6, <1>7 DEF Appended, Regs, Syncs
<1>9. \A q \in Peers \ {p} : SameMail(q) /\ held'[q] = held[q]
  BY <1>1, <1>4, <1>7 DEF SameMail
<1> QED BY <1>1, <1>2, <1>8, <1>9, UpMail
-----------------------------------------------------------------------------
\* A connection breaks, but not the last one to a peer that holds the target;
\* or a peer connects.
LEMMA UpConnect ==
    ASSUME Sheltered, IInv, UpInv, NEW p \in Peers, PeerConnect(p) \/ OnNetworkError(p)
    PROVE  UpInv'
<1>1. TypeOK /\ Wire(p)
  BY DEF IInv, Local
<1>2. /\ SameVotes /\ UNCHANGED <<target, alive, held, vec>> /\ state' = state
      /\ \A q \in Peers : q # p => toOrder'[q] = toOrder[q] /\ toPeer'[q] = toPeer[q]
      /\ \A q \in Peers : q # p => ((q \in link' <=> q \in link) /\ (q \in stale' <=> q \in stale))
      /\ \A q \in Peers : q # p =>
           (q \in DOMAIN conn' <=> q \in DOMAIN conn) /\ (q \in DOMAIN conn => conn'[q] = conn[q])
      /\ toPeer'[p] = <<>> /\ p \notin Known'
      /\ state = "sync" => \E r \in DOMAIN conn' : conn'[r] = target
  <2>1. CASE PeerConnect(p)
    <3>1. /\ UNCHANGED <<role, known, blocks, alive, toPeer, held>> /\ p \notin link
          /\ link' = link \cup {p} /\ toOrder' = [toOrder EXCEPT ![p] = Append(@, Regist(held[p]))]
      BY <2>1 DEF PeerConnect, Says
    <3>2. p \notin Known /\ toPeer[p] = <<>>
      BY <1>1, <3>1 DEF Wire
    <3>3. /\ UNCHANGED <<state, target, conn, vec, stale, persisted>> /\ Known' = Known
      BY <3>1 DEF role, known, blocks, Known, Live
    <3> QED BY <1>1, <3>1, <3>2, <3>3 DEF TypeOK, UpInv, SameVotes
  <2>2. CASE OnNetworkError(p)
    <3>1. /\ UNCHANGED <<state, target, vec, persisted, held, alive>>
          /\ conn' = Without(conn, {p}) /\ stale' = stale \cup ({p} \cap DOMAIN vec)
          /\ link' = link \ {p}
          /\ toPeer' = [toPeer EXCEPT ![p] = <<>>] /\ toOrder' = [toOrder EXCEPT ![p] = <<>>]
          /\ state = "sync" => Registered(target) # {}
      BY <2>2 DEF OnNetworkError, role, blocks, Sheltered
    <3>2. /\ DOMAIN conn' = DOMAIN conn \ {p} /\ \A q \in DOMAIN conn' : conn'[q] = conn[q]
      BY <3>1 DEF Without
    <3>3. p \notin Known'
      BY <3>1, <3>2 DEF Known, Live
    <3>4. state = "sync" => \E r \in DOMAIN conn' : conn'[r] = target
      BY <3>1 DEF Registered
    <3> QED BY <1>1, <3>1, <3>2, <3>3, <3>4 DEF TypeOK, SameVotes
  <2> QED BY <2>1, <2>2
<1>3. \A q \in Peers \ {p} : SamePeer(q)
  BY <1>2 DEF SamePeer, SamePlace, SameMail
<1>4. Syncs(p)' = {}
  BY <1>2, NoMessages DEF Syncs
<1>5. Led(p)'
  BY <1>2, <1>4 DEF Led
<1> QED BY <1>2, <1>3, <1>5, UpOne DEF UpInv

\* A peer that registers while the node synchronises has the target, or is new.
LEMMA UpRegister ==
    ASSUME Majority, IInv, UpInv, NEW p \in Peers, Register(p), state' = state
    PROVE  UpInv'
<1> DEFINE tip == Head(toOrder[p]).chain
<1>1. /\ Head(toOrder[p]) \in Regs(p) /\ tip \in Chains
      /\ \A q \in Peers : q # p => toOrder'[q] = toOrder[q]
      /\ Regs(p)' \subseteq Regs(p)
      /\ p \notin Known => toOrder'[p] = <<>>
      /\ DOMAIN conn' = DOMAIN conn \cup {p} /\ conn'[p] = tip
      /\ \A q \in DOMAIN conn : q # p => conn'[q] = conn[q]
      /\ UNCHANGED <<target, vec, stale, persisted, link, held>>
  BY Registering
<1>2. TypeOK /\ Phase /\ Wire(p) /\ SameVotes /\ Led(p) /\ alive
  BY <1>1 DEF IInv, Local, SameVotes, UpInv
<1>3. /\ (Stuck' <=> Stuck) /\ \A c : Goal(c)' <=> Goal(c)
  BY <1>2, SameGoals
<1> HIDE DEF tip
\* What a peer that was known registers with is the block agreed on.
<1>4. state = "sync" => Goal(target) /\ (p \in Known => tip = target)
  <2>1. state = "sync" => Goal(target) /\ ~Stuck
    BY <1>2 DEF Phase, Stuck
  <2>2. state = "sync" /\ p \in Known => Goal(tip)
    BY <1>1, <1>2, <2>1 DEF Led, tip
  <2> QED BY <1>2, <2>1, <2>2, Goals
<1>5. state = "sync" => \E r \in DOMAIN conn' : conn'[r] = target
  <2>1. SUFFICES ASSUME state = "sync" PROVE \E r \in DOMAIN conn' : conn'[r] = target
    OBVIOUS
  <2>2. PICK r \in DOMAIN conn : conn[r] = target
    BY <2>1 DEF UpInv
  <2>3. CASE r = p
    BY <1>1, <1>4, <2>1, <2>2, <2>3 DEF Known
  <2>4. CASE r # p
    BY <1>1, <2>2, <2>4
  <2> QED BY <2>3, <2>4
<1>6. alive'
  <2>1. CASE state = "sync"
    <3>1. alive' = SyncStateSafe(tip)
      BY <2>1 DEF Register, tip
    <3>2. Registered(target) # {}
      BY <1>5, <2>1 DEF Registered
    <3> QED BY <3>1, <3>2 DEF SyncStateSafe
  <2>2. CASE state # "sync"
    BY <1>2, <2>2 DEF Register
  <2> QED BY <2>1, <2>2
\* What it is told.
<1>7. /\ \A q \in Peers : q # p => toPeer'[q] = toPeer[q]
      /\ state \in {"start", "sync"} => \A m \in Syncs(p)' : m \in Syncs(p) \/ Goal(m.chain)
  <2>1. CASE toPeer' = toPeer
    BY <2>1 DEF Syncs
  <2>2. CASE toPeer' # toPeer
    <3>1. \E m \in Message : /\ Send(One(p, m))
                             /\ m.type = "sync" /\ state \in {"start", "sync"} => m.chain = target /\ state = "sync"
      <4>1. CASE state = "start"
        <5>1. Send(One(p, Query)) /\ Query \in Message /\ Query.type # "sync"
          BY <4>1, Messages DEF Register
        <5> QED BY <5>1
      <4>2. CASE state = "sync"
        <5>1. Send(SyncStateReply(p, tip)) /\ Len(target) \in 0..MaxBlock /\ target \in Chains
          BY <1>2, <4>2, Lengths, Bounds DEF Register, tip, TypeOK
        <5>2. CASE Len(tip) > Len(target)
          <6> DEFINE b == Backspace(Len(target))
          <6>1. Send(One(p, b)) /\ b \in Message /\ b.type # "sync"
            BY <5>1, <5>2, Messages DEF SyncStateReply
          <6> HIDE DEF b
          <6> QED BY <6>1
        <5>3. CASE ~(Len(tip) > Len(target)) /\ tip # target /\ Registered(target) # {}
          <6> DEFINE s == SyncTo(target)
          <6>1. Send(One(p, s)) /\ s \in Message /\ s.chain = target
            BY <5>1, <5>3, Messages DEF SyncStateReply
          <6> HIDE DEF s
          <6> QED BY <4>2, <6>1
        <5>4. CASE ~(Len(tip) > Len(target)) /\ ~(tip # target /\ Registered(target) # {})
          <6>1. Send(Nothing)
            BY <5>1, <5>4 DEF SyncStateReply
          <6> QED BY <1>2, <2>2, <6>1, SentNothing
        <5> QED BY <5>2, <5>3, <5>4
      <4>3. CASE state \notin {"start", "sync"}
        BY <2>2, <4>3, Replied
      <4> QED BY <4>1, <4>2, <4>3
    <3>2. PICK m \in Message : /\ Send(One(p, m))
                               /\ m.type = "sync" /\ state \in {"start", "sync"} => m.chain = target /\ state = "sync"
      BY <3>1
    <3>3. Appended(toPeer[p], toPeer'[p], m) /\ \A q \in Peers : q # p => toPeer'[q] = toPeer[q]
      BY <1>2, <3>2, SentOne
    <3>4. \A x \in Syncs(p)' : x \in Syncs(p) \/ (x = m /\ m.type = "sync")
      BY <3>3 DEF Appended, Syncs
    <3> QED BY <1>4, <3>2, <3>3, <3>4
  <2> QED BY <2>1, <2>2
<1>8. \A q \in Peers \ {p} : SamePeer(q)
  BY <1>1, <1>7 DEF SamePeer, SamePlace, SameMail
<1>9. Led(p)'
  <2>1. CASE state \in {"start", "sync"} /\ ~Stuck
    <3>1. Regs(p)' = {} \/ (p \in Known /\ Regs(p)' \subseteq Regs(p) /\ held'[p] = held[p])
      <4>1. p \notin Known => Regs(p)' = {}
        BY <1>1, NoMessages DEF Regs
      <4> QED BY <1>1, <4>1
    <3>2. SameLead(p)
      BY <1>3, <1>7, <2>1, <3>1 DEF SameLead
    <3> QED BY <1>2, <1>3, <2>1, <3>2, LedKept
  <2>2. CASE ~(state \in {"start", "sync"} /\ ~Stuck)
    BY <1>3, <2>2 DEF Led
  <2> QED BY <2>1, <2>2
<1> QED BY <1>1, <1>2, <1>5, <1>6, <1>8, <1>9, UpOne

\* The start begins: no peer was told anything, nor has registered again.
LEMMA UpBegins ==
    ASSUME IInv, alive', state \in {"follower", "wait"}, state' \in {"wait", "start"}, vec' = vec, stale' = stale,
           \A q \in Peers : q \in DOMAIN conn' => toOrder'[q] = <<>>,
           \A q \in Peers : toPeer'[q] = <<>> \/ toPeer'[q] = <<Query>>
    PROVE  UpInv'
<1>1. DOMAIN vec = {} /\ Known' = DOMAIN conn'
  BY Before DEF Known, Live
<1>2. Query \in Message /\ Query.type # "sync"
  BY Messages
<1>3. ASSUME NEW q \in Peers PROVE Led(q)'
  <2>1. Syncs(q)' = {}
    BY <1>2, NoMessages, OneMessage DEF Syncs
  <2>2. q \in Known' => Regs(q)' = {}
    BY <1>1, NoMessages DEF Regs
  <2> QED BY <2>1, <2>2 DEF Led
<1> QED BY <1>3 DEF UpInv

\* The election is won.
LEMMA UpBecomeMaster ==
    ASSUME Protected, IInv, UpInv, BecomeMaster
    PROVE  UpInv'
<1>1. /\ TypeOK /\ state = "follower" /\ alive'
      /\ UNCHANGED <<conn, vec, stale, toOrder>>
  BY DEF IInv, UpInv, BecomeMaster, Protected, known
<1>2. \A q \in Peers : toPeer[q] = <<>> /\ (q \in DOMAIN conn => toOrder[q] = <<>>)
  BY <1>1, Before
<1>3. state' \in {"wait", "start"} /\ \A q \in Peers : toPeer'[q] = <<>> \/ toPeer'[q] = <<Query>>
  <2>1. CASE state' = "start" /\ QueryAll
    <3>1. DOMAIN conn' \subseteq Peers
      BY <1>1 DEF TypeOK
    <3> QED BY <1>1, <1>2, <2>1, <3>1, QueriedAll
  <2>2. CASE state' = "wait" /\ UNCHANGED toPeer
    BY <1>2, <2>2
  <2> QED BY <2>1, <2>2 DEF BecomeMaster
<1> QED BY <1>1, <1>2, <1>3, UpBegins

\* The registration that makes the quorum starts the queries.
LEMMA UpRegisterBegins ==
    ASSUME IInv, UpInv, NEW p \in Peers, Register(p), state' # state
    PROVE  UpInv'
<1>1. state = "wait" /\ state' = "start" /\ QueryAll /\ alive' /\ TypeOK
  BY DEF Register, IInv, UpInv
<1>2. /\ \A q \in Peers : q # p => toOrder'[q] = toOrder[q]
      /\ p \in link /\ (p \notin Known => toOrder'[p] = <<>>)
      /\ DOMAIN conn' = DOMAIN conn \cup {p}
      /\ vec' = vec /\ stale' = stale /\ (p \in Known => ~Untold(p))
  BY Registering
<1>3. /\ \A q \in Peers : toPeer[q] = <<>> /\ (q \in DOMAIN conn => toOrder[q] = <<>>)
      /\ DOMAIN vec = {}
  BY <1>1, Before
<1>4. p \notin Known
  BY <1>1, <1>2, <1>3 DEF Untold, Split
<1>5. DOMAIN conn' \subseteq Peers
  BY <1>1, <1>2 DEF TypeOK
<1>6. \A q \in Peers : toPeer'[q] = <<>> \/ toPeer'[q] = <<Query>>
  BY <1>1, <1>3, <1>5, QueriedAll
<1> QED BY <1>1, <1>2, <1>3, <1>4, <1>6, UpBegins
-----------------------------------------------------------------------------
\* An answer that does not decide.
LEMMA UpCounted ==
    ASSUME Majority, IInv, UpInv, NEW p \in Peers, AnswerCounted(p)
    PROVE  UpInv'
<1>1. FirstAnswer(p) /\ UNCHANGED <<state, conn, target, timer, alive, toPeer>>
  BY DEF AnswerCounted
<1>2. /\ persisted' = persisted /\ held' = held /\ p \in Known /\ Live' = Live \cup {p}
      /\ \A x : Agreed(vec, x) => Agreed(vec', x)
      /\ \A x : Longer(x)' <=> Longer(x)
      /\ DOMAIN vec' = DOMAIN vec \cup {p} /\ \A q \in DOMAIN vec : vec'[q] = vec[q]
      /\ \A q \in Peers : Regs(q)' = Regs(q)
      /\ \A x : Hopeless(vec, x) => Hopeless(vec', x)
  BY <1>1, Counted
<1>3. \A c : Goal(c) => Goal(c)'
  BY <1>1, <1>2 DEF Goal, Chosen
<1>4. Stuck => Stuck'
  <2>1. Cardinality(DOMAIN vec) <= Cardinality(DOMAIN vec') /\ Cardinality(DOMAIN vec) \in Nat
        /\ Cardinality(DOMAIN vec') \in Nat
    <3>1. DOMAIN vec' \in SUBSET Peers /\ DOMAIN vec \in SUBSET (DOMAIN vec')
      BY <1>2 DEF IInv, TypeOK
    <3> QED BY <3>1, PeerSets
  <2> QED BY <1>1, <1>2, <2>1, Bounds DEF Stuck, Split, Dead
<1>5. ASSUME NEW q \in Peers PROVE Led(q)'
  <2>1. SameLead(q) /\ Led(q)
    BY <1>1, <1>2 DEF SameLead, Known, Syncs, UpInv
  <2> QED BY <1>1, <1>3, <1>4, <2>1, LedKept
<1> QED BY <1>1, <1>5 DEF UpInv

\* A decision for the node's own block: it serves.
LEMMA UpOwn ==
    ASSUME Majority, IInv, UpInv, NEW p \in Peers, ChooseOwn(p)
    PROVE  UpInv'
<1>1. FirstAnswer(p) /\ Cardinality(DOMAIN vec') >= Kafka /\ alive'
  BY DEF ChooseOwn, UpInv
<1>2. PICK t \in MostHeight(vec') :
         /\ Agreed(vec', t) /\ Len(chain) >= Len(t)
         /\ state' = IF Len(chain) = Len(t) THEN "normal" ELSE state
  BY DEF ChooseOwn
<1>3. t \in Chains /\ persisted \in Chains /\ (t = persisted \/ Longer(t))
  BY <1>1, <1>2, AgreedOn
<1>4. chain \in Chains /\ Len(chain) <= Top /\ Len(chain) \in Nat /\ Top \in Nat
  <2>1. chain \in Chains /\ IsPrefix(chain, persisted)
    BY DEF IInv, TypeOK, Roles
  <2> QED BY <1>3, <2>1, PrefixOrder, Lengths DEF Top
<1>5. Len(chain) = Len(t)
  BY <1>2, <1>3, <1>4 DEF Longer, Top
<1> QED BY <1>1, <1>2, <1>5, UpServes

\* A decision for a later block: the peer it is fetched from has registered
\* with it.
LEMMA UpLater ==
    ASSUME Majority, IInv, UpInv, NEW p \in Peers, ChooseLater(p)
    PROVE  UpInv'
<1>1. PICK t \in Chains, src \in Peers :
         /\ FirstAnswer(p) /\ UNCHANGED <<conn, alive>>
         /\ Agreed(vec', t) /\ src \in DOMAIN vec' /\ vec'[src] = t
         /\ t = persisted \/ Longer(t)
         /\ ~Split /\ ~(Split')
         /\ \A x : Goal(x) => x = t
         /\ state \in {"start", "sync"}
         /\ state' \in {"start", "sync"} /\ (state = "sync" => state' = "sync" /\ target' = target)
         /\ state' = "sync" => target' = t
         /\ state' = "sync" /\ state = "start" => src \notin stale
         /\ \A q \in Peers : \/ toPeer'[q] = toPeer[q]
                             \/ \E m \in Message :
                                  /\ Told(q, m)
                                  /\ \/ m.type = "sync" /\ m.chain = t /\ vec'[q] # t
                                     \/ m.type = "get" /\ m.id = Len(chain) + 1 /\ q = src /\ src \notin stale
  BY ChoosesLater
<1>2. /\ UNCHANGED <<persisted, held, stale>> /\ p \in DOMAIN conn /\ p \in Known /\ Live' = Live \cup {p}
      /\ p \notin DOMAIN vec
      /\ DOMAIN vec' = DOMAIN vec \cup {p} /\ \A q \in DOMAIN vec : vec'[q] = vec[q]
      /\ \A x : Agreed(vec, x) => Agreed(vec', x)
      /\ \A x : Longer(x)' <=> Longer(x)
      /\ \E m \in Maxes(p) : vec'[p] = m.chain
      /\ \A q \in Peers : Regs(q)' = Regs(q)
  BY <1>1, Counted
<1>3. \A c : Goal(c) => Goal(c)'
  BY <1>1, <1>2 DEF Goal, Chosen
<1>4. \A x \in {t} : Goal(x)'
  BY <1>1, <1>2 DEF Goal, Chosen
<1>5. ~Stuck
  BY <1>1 DEF Stuck
<1>6. ASSUME NEW q \in Peers PROVE Led(q)'
  <2>1. \A m \in Syncs(q)' : m \in Syncs(q) \/ m.chain = t
    <3>1. CASE toPeer'[q] = toPeer[q]
      BY <3>1 DEF Syncs
    <3>2. CASE toPeer'[q] # toPeer[q]
      <4>1. PICK m \in Message : Told(q, m) /\ (m.type = "sync" => m.chain = t)
        BY <1>1, <3>2
      <4> QED BY <4>1, Gained DEF Told
    <3> QED BY <3>1, <3>2
  <2>2. SameLead(q) /\ Led(q)
    BY <1>1, <1>2, <1>4, <2>1 DEF SameLead, Known, UpInv
  <2> QED BY <1>1, <1>3, <1>5, <2>2, LedKept
<1>7. state' = "sync" => \E r \in DOMAIN conn' : conn'[r] = target'
  <2>1. CASE state = "sync"
    BY <1>1, <2>1 DEF UpInv
  <2>2. CASE state = "start" /\ state' = "sync"
    <3>1. Untold(src)
      <4>1. src \in DOMAIN vec => vec[src] = t
        BY <1>1, <1>2
      <4> QED BY <1>1, <2>2, <4>1 DEF Untold
    <3>2. /\ \A c \in Chains : Claims(src, c) => c = held[src]
          /\ src \in Known => src \in DOMAIN conn
      BY <3>1 DEF IInv, Local, Quiet
    <3>3. src \in DOMAIN conn
      BY <1>1, <1>2, <2>2, <3>2 DEF Known, Live
    <3>4. Claims(src, t)
      BY <1>1, <1>2 DEF Claims
    <3>5. conn[src] \in Chains /\ Claims(src, conn[src])
      BY <3>3 DEF IInv, TypeOK, Claims
    <3>6. conn[src] = t
      BY <3>2, <3>4, <3>5
    <3> QED BY <1>1, <2>2, <3>3, <3>6
  <2> QED BY <1>1, <2>1, <2>2
<1> QED BY <1>1, <1>6, <1>7 DEF UpInv

\* A decision that no highest block can be agreed on.
LEMMA UpBackspace ==
    ASSUME Sheltered, Majority, IInv, UpInv, NEW p \in Peers, BackspacePeers(p)
    PROVE  UpInv'
<1>1. /\ FirstAnswer(p) /\ UNCHANGED <<state, target, timer>> /\ alive' = TRUE
      /\ Kafka <= Cardinality(DOMAIN vec')
      /\ Dead' /\ (\E q \in DOMAIN vec' : Longer(vec'[q]))
      /\ \A c : ~Chosen(c)
      /\ conn' = Without(conn, Above')
      /\ \A q \in Peers : Misled(q)
  BY Backspaced DEF Sheltered
<1>2. /\ UNCHANGED <<persisted, held>> /\ p \in Known /\ Live' = Live \cup {p}
      /\ DOMAIN conn' \subseteq DOMAIN conn
      /\ \A x : Agreed(vec, x) => Agreed(vec', x)
      /\ \A x : Longer(x)' <=> Longer(x)
      /\ \A q \in Peers : Regs(q)' = Regs(q)
  BY <1>1, Counted DEF Without
<1>3. \A c : Goal(c) => Goal(c)'
  BY <1>1, <1>2 DEF Goal
<1>4. state = "start" => Stuck'
  BY <1>1, <1>2 DEF Stuck, Split
<1>5. state = "sync" => \A x \in {persisted} : Goal(x)
  <2>1. state = "sync" => Goal(target) /\ target = persisted
    BY <1>1 DEF IInv, Phase, Goal
  <2> QED BY <2>1
<1>6. ASSUME NEW q \in Peers PROVE Led(q)'
  <2>1. CASE state = "sync"
    <3>1. \A m \in Syncs(q)' : m \in Syncs(q) \/ m.chain = persisted
      BY <1>1, MisledIs DEF IInv
    <3>2. SameLead(q) /\ Led(q)
      BY <1>2, <1>3, <1>5, <2>1, <3>1 DEF SameLead, Known, UpInv
    <3> QED BY <1>1, <1>3, <2>1, <3>2, LedKept DEF Stuck
  <2>2. CASE state # "sync"
    BY <1>1, <1>4, <2>2 DEF Led
  <2> QED BY <2>1, <2>2
<1>7. state = "sync" => \E r \in DOMAIN conn' : conn'[r] = target
  <2>1. state = "sync" => Registered(target) # {}
    BY <1>1 DEF BackspacePeers, Sheltered
  <2> QED BY <2>1 DEF Registered
<1> QED BY <1>1, <1>6, <1>7 DEF UpInv

\* A block is stored.
LEMMA UpStored ==
    ASSUME Majority, IInv, UpInv, NEW p \in Peers, TableStored(p)
    PROVE  UpInv'
<1>1. alive'
  BY DEF TableStored, UpInv
<1>2. CASE chain' = target
  <2>1. state' = "normal"
    BY <1>2, TableIs
  <2> QED BY <1>1, <2>1, UpServes
<1>3. CASE chain' # target
  <2> DEFINE m == Get(Len(chain') + 1)
  <2>1. /\ state' = state /\ Send(One(p, m)) /\ Len(chain') + 1 <= Len(target) /\ chain' \in Chains /\ target \in Chains
        /\ Of(toOrder'[p], "regist") = Of(toOrder[p], "regist")
        /\ \A q \in Peers : q # p => toOrder'[q] = toOrder[q]
        /\ persisted' = persisted
        /\ UNCHANGED <<target, conn, vec, stale, alive, link, held>>
    BY <1>3, TableIs
  <2>2. m \in Message /\ m.type = "get"
    <3>1. Len(chain') + 1 \in 0..MaxBlock
      BY <2>1, Lengths, Bounds
    <3> QED BY <3>1, Messages
  <2> HIDE DEF m
  <2>3. Appended(toPeer[p], toPeer'[p], m) /\ \A q \in Peers : q # p => toPeer'[q] = toPeer[q]
    BY <2>1, <2>2, SentOne DEF IInv
  <2>4. Regs(p)' = Regs(p) /\ Syncs(p)' = Syncs(p)
    BY <2>1, <2>2, <2>3 DEF Appended, Regs, Syncs
  <2>5. \A q \in Peers \ {p} : SameMail(q) /\ held'[q] = held[q]
    BY <2>1, <2>3 DEF SameMail
  <2> QED BY <2>1, <2>4, <2>5, UpMail DEF SameVotes
<1> QED BY <1>2, <1>3

\* Another master persists a block while nobody is connected and no answer is
\* kept.
LEMMA UpOther ==
    ASSUME Protected, IInv, UpInv, OtherMaster
    PROVE  UpInv'
<1>1. /\ link = {} /\ vec = <<>> /\ UNCHANGED <<state, target, conn, vec, stale, alive, toPeer, toOrder>>
  BY DEF OtherMaster, Protected, role, known
<1>2. state # "sync"
  <2>1. state = "sync" => Agreed(vec, target)
    BY DEF IInv, Phase, Goal, Chosen
  <2>2. ~Agreed(vec, target)
    <3>1. DOMAIN vec = {}
      BY <1>1
    <3>2. DOMAIN vec \subseteq Peers
      BY <3>1
    <3> QED BY <3>1, <3>2, GroupIn
  <2> QED BY <2>1, <2>2
<1>3. ASSUME NEW q \in Peers PROVE Led(q)'
  <2>1. Wire(q)
    BY DEF IInv, Local
  <2>2. toPeer[q] = <<>> /\ toOrder[q] = <<>>
    BY <1>1, <2>1 DEF Wire
  <2>3. Syncs(q)' = {} /\ Regs(q)' = {}
    BY <1>1, <2>2, NoMessages DEF Syncs, Regs
  <2> QED BY <2>3 DEF Led
<1> QED BY <1>1, <1>2, <1>3 DEF UpInv
-----------------------------------------------------------------------------
\* The node is up at first, and every step keeps it so.
LEMMA InitUp == Init => UpInv
<1> SUFFICES ASSUME Init PROVE UpInv
  OBVIOUS
<1> QED BY DEF Init, UpInv, Led

\* Every step keeps the node up.
LEMMA StepUp ==
    ASSUME Sheltered, Majority, IInv, UpInv, [Next]_vars
    PROVE  UpInv'
<1>0. Protected
  BY DEF Sheltered
<1>1. CASE BecomeMaster \/ OnSyncTimeOut
  <2>1. CASE OnSyncTimeOut
    <3>1. PICK p \in DOMAIN conn : conn[p] = target /\ Send(One(p, Get(Len(chain) + 1)))
      BY <2>1 DEF OnSyncTimeOut
    <3>2. p \in Peers
      BY DEF IInv, TypeOK
    <3> QED BY <2>1, <3>1, <3>2, UpRequest
  <2> QED BY <1>0, <1>1, <2>1, UpBecomeMaster
<1>2. CASE StepDown \/ UNCHANGED vars
  <2>1. SameVotes /\ UNCHANGED <<target, alive, conn, stale, link, toPeer, toOrder, held>>
    BY <1>2 DEF StepDown, SameVotes, vars, role, known, blocks
  <2> QED BY <2>1, UpRole
<1>3. CASE Pack \/ Persist \/ \E p \in Peers : Deliver(p)
  <2>1. state = "normal" /\ alive' /\ state' = state
    BY <1>3 DEF Pack, Persist, Deliver, role, IInv, Roles
  <2> QED BY <2>1, UpServes
<1>4. CASE OtherMaster
  BY <1>0, <1>4, UpOther
<1>5. ASSUME NEW p \in Peers, Handle(p) PROVE UpInv'
  <2>1. CASE Register(p)
    BY <2>1, UpRegister, UpRegisterBegins
  <2>2. CASE AnswerDropped(p) \/ TableIgnored(p)
    BY <2>2, UpIgnored
  <2>3. CASE AnswerCounted(p)
    BY <2>3, UpCounted
  <2>4. CASE ChooseOwn(p)
    BY <2>4, UpOwn
  <2>5. CASE ChooseLater(p)
    BY <2>5, UpLater
  <2>6. CASE BackspacePeers(p)
    BY <2>6, UpBackspace
  <2>7. CASE TableStored(p)
    BY <2>7, UpStored
  <2>8. CASE TableNotStored(p)
    BY <2>8, UpRequest
  <2> QED BY <1>5, <2>1, <2>2, <2>3, <2>4, <2>5, <2>6, <2>7, <2>8 DEF Handle
<1>6. ASSUME NEW p \in Peers, OnNetworkError(p) \/ PeerConnect(p) PROVE UpInv'
  BY <1>6, UpConnect
<1>7. ASSUME NEW p \in Peers, PeerStep(p) PROVE UpInv'
  BY <1>6, <1>7, UpAnswer, UpPeer DEF PeerStep
<1> QED BY <1>1, <1>2, <1>3, <1>4, <1>5, <1>6, <1>7 DEF Next

\* The assertion that the node is below what peers drop does not fail, and
\* there is a handler where one is used unchecked, as long as a peer that
\* registered with the block to fetch stays connected and the handler of a
\* peer that is behind is looked for inside the list (Sheltered).
THEOREM StaysUp == Sheltered /\ Majority /\ Spec => []OrderStaysUp
<1> SUFFICES ASSUME Sheltered, Majority PROVE Spec => []OrderStaysUp
  OBVIOUS
<1>1. Protected
  BY DEF Sheltered
<1>2. Init => IInv /\ UpInv
  BY InitIInv, InitUp
<1>3. IInv /\ UpInv /\ [Next]_vars => IInv' /\ UpInv'
  BY <1>1, StepIInv, StepUp
<1>4. UpInv => OrderStaysUp
  BY DEF UpInv, OrderStaysUp
<1> QED BY <1>2, <1>3, <1>4, PTL DEF Spec
=============================================================================
