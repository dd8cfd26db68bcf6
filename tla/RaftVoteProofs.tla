--------------------------- MODULE RaftVoteProofs ---------------------------
(***************************************************************************)
(* The safety of the vote, proved for every number of servers and every    *)
(* bound, as long as none of the events in Exposed happens.                *)
(*                                                                         *)
(* What makes it hard is that a server that restarts forgets its term and  *)
(* its votes.  Only one that is not ahead of another restarts, so that     *)
(* whoever votes again in a term it voted in does so when all others have  *)
(* reached that term: a candidate among them asks in a later one, and its  *)
(* own candidacy in the old term gets no vote but its own.                 *)
(***************************************************************************)
EXTENDS RaftVote, FiniteSetTheorems, SequenceTheorems, TLAPS

Protected == Exposed = {}

Cast(v, s, t) == [voter |-> v, for |-> s, term |-> t]

\* The terms in which a queue of requests asks for votes, and those in which a
\* queue of answers grants one; a connection's are Asks and Says.
AsksIn(q) == {t \in 0..MaxTerm : \E i \in 1..Len(q) : q[i].type = "vote" /\ q[i].term = t}
SaysIn(q) == {t \in 0..MaxTerm : \E i \in 1..Len(q) : q[i].granted /\ q[i].term = t}
Asks(l) == AsksIn(mail[l])
Says(l) == SaysIn(answers[l])

\* The servers whose vote for s in its term is on its way.
Pending(s) == {w \in Server : w # s /\ term[s] \in Says(<<s, w>>)}
-----------------------------------------------------------------------------
(* The inductive invariant. *)

\* What is being handled was compared with the present term.
HandledFresh ==
    \A h \in handled :
       LET s == h.link[2]
           m == Head(mail[h.link])
       IN /\ h.seen = term[s]
          /\ m.type = "vote" => Grants(s, m.term)
          /\ m.type = "heartbeat" => StepsDown(s, m.term)

\* A connection never carries two grants of one term.
Once(q) ==
    \A i, j \in 1..Len(q) : q[i].granted /\ q[j].granted /\ i # j => q[i].term # q[j].term
GrantsOnce == \A l \in Link : Once(answers[l])

\* Who is voted for or asks for votes was a candidate of that term, and what
\* an answer grants was voted.
VotesAsked == \A x \in votes : Cast(x.for, x.for, x.term) \in votes
AsksVoted  == \A l \in Link : \A t \in Asks(l) : Cast(l[1], l[1], t) \in votes
SaysVoted  == \A l \in Link : \A t \in Says(l) : Cast(l[2], l[1], t) \in votes

\* A server that forgot a vote is behind all others, and is asked for votes of
\* later terms only.
Forgot(x) == x \in votes /\ term[x.voter] < x.term
OthersReached ==
    \A x \in votes : Forgot(x) => \A w \in Server \ {x.voter} : term[w] >= x.term
AskedLater ==
    \A x \in votes : Forgot(x) =>
       \A l \in Link : l[2] = x.voter => \A t \in Asks(l) : t > x.term

\* In a term a server votes for one other server.
OneGrant ==
    \A x, y \in votes :
       x.voter = y.voter /\ x.term = y.term /\ x.for # x.voter /\ y.for # y.voter =>
          x.for = y.for

\* A server that voted for itself and for another in one term gets no other
\* vote in it.
Both(s, t) == /\ Cast(s, s, t) \in votes
              /\ \E y \in votes : y.voter = s /\ y.term = t /\ y.for # s
GetsNoOther ==
    \A s \in Server, t \in 0..MaxTerm : Both(s, t) =>
       /\ \A z \in votes : z.for = s /\ z.term = t => z.voter = s
       /\ \A l \in Link : l[1] = s /\ t \in Asks(l) => term[l[2]] >= t

\* A candidate counts votes that were cast, and those on the way come on top.
Backed ==
    \A s \in Server : role[s] = "candidate" /\ Cast(s, s, term[s]) \in votes =>
       voteNum[s] <= Cardinality(Voters(s, term[s]) \ Pending(s))
Undecided == \A s \in Server : role[s] = "candidate" => voteNum[s] < Kafka

Core ==
    /\ VotesAsked /\ AsksVoted /\ SaysVoted
    /\ OthersReached /\ AskedLater /\ OneGrant /\ GetsNoOther
    /\ Backed /\ Undecided /\ LeaderHasMajority

IInv == TypeOK /\ HandledFresh /\ GrantsOnce /\ Core
-----------------------------------------------------------------------------
(* Finite sets of servers. *)

\* Two majorities have a server in common.
LEMMA MajoritiesMeet ==
    ASSUME NEW S, IsFiniteSet(S), NEW A \in SUBSET S, NEW B \in SUBSET S,
           2 * Cardinality(A) > Cardinality(S), 2 * Cardinality(B) > Cardinality(S)
    PROVE  A \cap B # {}
<1> DEFINE a == Cardinality(A)
           b == Cardinality(B)
<1>1. /\ IsFiniteSet(A) /\ IsFiniteSet(B)
      /\ a \in Nat /\ b \in Nat /\ Cardinality(S) \in Nat
  BY FS_Subset, FS_CardinalityType
<1>2. PICK f \in Bijection(1..a, A) : TRUE
  BY <1>1, FS_CardinalityType DEF ExistsBijection
<1>3. PICK g \in Bijection(1..b, B) : TRUE
  BY <1>1, FS_CardinalityType DEF ExistsBijection
<1>4. /\ f \in [1..a -> A] /\ \A i, j \in 1..a : f[i] = f[j] => i = j
      /\ g \in [1..b -> B] /\ \A i, j \in 1..b : g[i] = g[j] => i = j
  BY <1>2, <1>3 DEF Bijection, Injection, IsInjective
<1> HIDE DEF a, b
<1> DEFINE h == [i \in 1..(a + b) |-> IF i <= a THEN f[i] ELSE g[i - a]]
<1>5. h \in [1..(a + b) -> S]
  BY <1>1, <1>4
<1>6. IsFiniteSet(1..(a + b)) /\ Cardinality(1..(a + b)) = a + b
  <2> DEFINE n == a + b
  <2>1. n \in Int /\ 1 \in Int /\ ~(1 > n) /\ n - 1 + 1 = n
    BY <1>1, VoteAssumption DEF a, b
  <2> HIDE DEF n
  <2>2. /\ IsFiniteSet(1..n)
        /\ Cardinality(1..n) = IF 1 > n THEN 0 ELSE n - 1 + 1
    BY <2>1, FS_Interval, Zenon
  <2> QED BY <2>1, <2>2 DEF n
<1>7. Cardinality(S) < Cardinality(1..(a + b))
  BY <1>1, <1>6 DEF a, b
<1>8. PICK i, j \in 1..(a + b) : i # j /\ h[i] = h[j]
  <2> HIDE DEF h
  <2> QED BY <1>5, <1>6, <1>7, FS_PigeonHole, Zenon
<1>9. CASE i <= a /\ j <= a
  BY <1>1, <1>4, <1>8, <1>9
<1>10. CASE ~(i <= a) /\ ~(j <= a)
  <2>1. i - a \in 1..b /\ j - a \in 1..b /\ i - a # j - a
    BY <1>1, <1>8, <1>10
  <2> QED BY <1>4, <1>8, <1>10, <2>1
<1>11. CASE i <= a /\ ~(j <= a)
  <2>1. i \in 1..a /\ j - a \in 1..b
    BY <1>1, <1>8, <1>11
  <2> QED BY <1>4, <1>8, <1>11, <2>1
<1>12. CASE ~(i <= a) /\ j <= a
  <2>1. j \in 1..a /\ i - a \in 1..b
    BY <1>1, <1>8, <1>12
  <2> QED BY <1>4, <1>8, <1>12, <2>1
<1> QED BY <1>9, <1>10, <1>11, <1>12

\* The sets of servers that are counted are finite.
LEMMA ServerSets ==
    ASSUME NEW V \in SUBSET Server
    PROVE  /\ IsFiniteSet(V) /\ Cardinality(V) \in Nat
           /\ \A W \in SUBSET V : IsFiniteSet(W) /\ Cardinality(W) <= Cardinality(V)
<1>1. IsFiniteSet(V)
  BY VoteAssumption, FS_Subset
<1> QED BY <1>1, FS_Subset, FS_CardinalityType

\* The quorum is a majority, and no candidate has it from its own vote.
LEMMA KafkaIsMajority ==
    /\ Kafka \in Nat /\ Kafka > 1 /\ 2 * Kafka > Cardinality(Server)
<1>1. Cardinality(Server) \in Nat /\ Cardinality(Server) > 1
  BY VoteAssumption, FS_CardinalityType
<1> QED BY <1>1 DEF Kafka
-----------------------------------------------------------------------------
(* Queues of messages. *)

LEMMA TailOf ==
    ASSUME NEW T, NEW q \in Seq(T), q # <<>>
    PROVE  /\ Tail(q) \in Seq(T) /\ Len(Tail(q)) = Len(q) - 1
           /\ \A i \in 1..Len(Tail(q)) : i + 1 \in 1..Len(q) /\ Tail(q)[i] = q[i + 1]
           /\ 1 \in 1..Len(q) /\ Head(q) = q[1] /\ Head(q) \in T
OBVIOUS

LEMMA AppendOf ==
    ASSUME NEW T, NEW q \in Seq(T), NEW e \in T
    PROVE  /\ Append(q, e) \in Seq(T) /\ Append(q, e) # <<>>
           /\ Len(Append(q, e)) = Len(q) + 1 /\ Append(q, e)[Len(q) + 1] = e
           /\ \A i \in 1..Len(q) : Append(q, e)[i] = q[i]
           /\ q # <<>> => Head(Append(q, e)) = Head(q)
BY AppendProperties, HeadTailAppend

\* What a queue of requests asks for after its head is taken, and after a
\* request is sent.
LEMMA RequestQueue ==
    ASSUME NEW q \in Seq(Request)
    PROVE  /\ AsksIn(<<>>) = {}
           /\ q # <<>> => AsksIn(Tail(q)) \subseteq AsksIn(q)
           /\ q # <<>> /\ Head(q).type = "vote" => Head(q).term \in AsksIn(q)
           /\ \A m \in Request :
                AsksIn(Append(q, m)) \subseteq
                   AsksIn(q) \cup {t \in {m.term} : m.type = "vote"}
<1>1. AsksIn(<<>>) = {}
  BY DEF AsksIn
<1>2. ASSUME q # <<>> PROVE AsksIn(Tail(q)) \subseteq AsksIn(q)
  BY <1>2, TailOf DEF AsksIn
<1>3. ASSUME q # <<>>, Head(q).type = "vote" PROVE Head(q).term \in AsksIn(q)
  <2>1. 1 \in 1..Len(q) /\ Head(q) = q[1] /\ Head(q) \in Request
    BY <1>3, TailOf
  <2> QED BY <1>3, <2>1 DEF AsksIn, Request
<1>4. ASSUME NEW m \in Request
      PROVE  AsksIn(Append(q, m)) \subseteq AsksIn(q) \cup {t \in {m.term} : m.type = "vote"}
  <2>1. ASSUME NEW t \in 0..MaxTerm, NEW i \in 1..Len(Append(q, m)),
               Append(q, m)[i].type = "vote", Append(q, m)[i].term = t
        PROVE  (\E j \in 1..Len(q) : q[j].type = "vote" /\ q[j].term = t)
                  \/ (m.type = "vote" /\ m.term = t)
    BY <2>1, AppendOf
  <2> QED BY <2>1 DEF AsksIn
<1> QED BY <1>1, <1>2, <1>3, <1>4

\* The same of a queue of answers.
LEMMA AnswerQueue ==
    ASSUME NEW q \in Seq(Answer)
    PROVE  /\ SaysIn(<<>>) = {} /\ Once(<<>>)
           /\ q # <<>> => SaysIn(Tail(q)) \subseteq SaysIn(q)
           /\ q # <<>> /\ Head(q).granted => Head(q).term \in SaysIn(q)
           /\ q # <<>> /\ Once(q) =>
                 Once(Tail(q)) /\ (Head(q).granted => Head(q).term \notin SaysIn(Tail(q)))
           /\ \A a \in Answer :
                /\ SaysIn(Append(q, a)) \subseteq SaysIn(q) \cup {t \in {a.term} : a.granted}
                /\ Once(q) /\ (a.granted => a.term \notin SaysIn(q)) => Once(Append(q, a))
<1>1. SaysIn(<<>>) = {} /\ Once(<<>>)
  BY DEF SaysIn, Once
<1>2. ASSUME q # <<>> PROVE SaysIn(Tail(q)) \subseteq SaysIn(q)
  BY <1>2, TailOf DEF SaysIn
<1>3. ASSUME q # <<>>, Head(q).granted PROVE Head(q).term \in SaysIn(q)
  <2>1. 1 \in 1..Len(q) /\ Head(q) = q[1] /\ Head(q) \in Answer
    BY <1>3, TailOf
  <2> QED BY <1>3, <2>1 DEF SaysIn, Answer
<1>4. ASSUME q # <<>>, Once(q) PROVE Once(Tail(q))
  BY <1>4, TailOf DEF Once
<1>5. ASSUME q # <<>>, Once(q), Head(q).granted
      PROVE  Head(q).term \notin SaysIn(Tail(q))
  BY <1>5, TailOf DEF Once, SaysIn
<1>6. ASSUME NEW a \in Answer
      PROVE  SaysIn(Append(q, a)) \subseteq SaysIn(q) \cup {t \in {a.term} : a.granted}
  <2>1. ASSUME NEW t \in 0..MaxTerm, NEW i \in 1..Len(Append(q, a)),
               Append(q, a)[i].granted, Append(q, a)[i].term = t
        PROVE  (\E j \in 1..Len(q) : q[j].granted /\ q[j].term = t)
                  \/ (a.granted /\ a.term = t)
    BY <2>1, AppendOf
  <2> QED BY <2>1 DEF SaysIn
<1>7. ASSUME NEW a \in Answer, Once(q), a.granted => a.term \notin SaysIn(q)
      PROVE  Once(Append(q, a))
  <2> SUFFICES ASSUME NEW i \in 1..Len(Append(q, a)), NEW j \in 1..Len(Append(q, a)), i # j,
                      Append(q, a)[i].granted, Append(q, a)[j].granted
               PROVE  Append(q, a)[i].term # Append(q, a)[j].term
    BY DEF Once
  <2>1. \A k \in 1..Len(q) : q[k].granted => q[k].term \in SaysIn(q)
    <3>1. \A k \in 1..Len(q) : q[k] \in Answer
      OBVIOUS
    <3> QED BY <3>1 DEF SaysIn, Answer
  <2>2. CASE i \in 1..Len(q) /\ j \in 1..Len(q)
    BY <1>7, <2>2, AppendOf DEF Once
  <2>3. CASE i \in 1..Len(q) /\ j = Len(q) + 1
    BY <1>7, <2>1, <2>3, AppendOf
  <2>4. CASE i = Len(q) + 1 /\ j \in 1..Len(q)
    BY <1>7, <2>1, <2>4, AppendOf
  <2> QED BY <2>2, <2>3, <2>4, AppendOf
<1> QED BY <1>1, <1>2, <1>3, <1>4, <1>5, <1>6, <1>7
-----------------------------------------------------------------------------
(* What one step makes of the core of the invariant, in terms of what is   *)
(* asked and said on the connections.                                      *)

\* Types that all of the following use.
Typed == /\ role \in [Server -> Roles]
         /\ term \in [Server -> 0..MaxTerm]
         /\ voteNum \in [Server -> 0..Kafka]
         /\ votes \subseteq Vote
         /\ elected \subseteq Server \X (0..MaxTerm)

LEMMA VotersAreServers ==
    ASSUME NEW s, NEW t
    PROVE  /\ IsFiniteSet(Voters(s, t)) /\ Cardinality(Voters(s, t)) \in Nat
           /\ \A W \in SUBSET Voters(s, t) :
                IsFiniteSet(W) /\ Cardinality(W) <= Cardinality(Voters(s, t))
BY ServerSets DEF Voters

\* A term that is asked for and higher than the server's own is above all
\* terms it ever voted in.
LEMMA AskedIsNew ==
    ASSUME Typed, Core, NEW l \in Link, NEW t \in Asks(l), t > term[l[2]]
    PROVE  \A x \in votes : x.voter = l[2] => x.term < t
<1> SUFFICES ASSUME NEW x \in votes, x.voter = l[2]
             PROVE  x.term < t
  OBVIOUS
<1>1. /\ l[2] \in Server /\ term[l[2]] \in 0..MaxTerm /\ x.term \in 0..MaxTerm
      /\ t \in 0..MaxTerm /\ MaxTerm \in Nat
  BY VoteAssumption DEF Typed, Vote, Link, Asks, AsksIn
<1>2. CASE Forgot(x)
  BY <1>2 DEF Core, AskedLater
<1>3. CASE ~Forgot(x)
  BY <1>1, <1>3 DEF Forgot
<1> QED BY <1>2, <1>3

\* Messages that are taken or lost take nothing from the invariant.
LEMMA QuietCore ==
    ASSUME Typed, Core, UNCHANGED <<role, term, voteNum, votes, elected>>,
           \A l \in Link : Asks(l)' \subseteq Asks(l) /\ Says(l)' \subseteq Says(l)
    PROVE  Core'
<1>1. (VotesAsked /\ AsksVoted /\ SaysVoted)'
  BY DEF Core, VotesAsked, AsksVoted, SaysVoted, Cast
<1>2. (OthersReached /\ AskedLater /\ OneGrant)'
  BY DEF Core, OthersReached, AskedLater, OneGrant, Forgot
<1>3. GetsNoOther'
  BY DEF Core, GetsNoOther, Both, Cast
<1>4. Backed'
  <2> SUFFICES ASSUME NEW s \in Server, role[s] = "candidate", Cast(s, s, term[s]) \in votes
               PROVE  voteNum[s] <= Cardinality(Voters(s, term[s])' \ Pending(s)')
    BY DEF Backed, Cast
  <2>1. Voters(s, term[s])' = Voters(s, term[s]) /\ Pending(s)' \subseteq Pending(s)
    BY DEF Voters, Pending, Link
  <2>2. /\ voteNum[s] <= Cardinality(Voters(s, term[s]) \ Pending(s))
        /\ voteNum[s] \in Nat
    BY KafkaIsMajority DEF Core, Backed, Typed
  <2>3. /\ Voters(s, term[s]) \ Pending(s) \in SUBSET (Voters(s, term[s]) \ Pending(s)')
        /\ Voters(s, term[s]) \ Pending(s)' \in SUBSET Server
    BY <2>1 DEF Voters
  <2>4. Cardinality(Voters(s, term[s]) \ Pending(s)) <= Cardinality(Voters(s, term[s]) \ Pending(s)')
    BY <2>3, ServerSets
  <2> QED BY <2>1, <2>2, <2>3, <2>4, ServerSets
<1>5. (Undecided /\ LeaderHasMajority)'
  BY DEF Core, Undecided, LeaderHasMajority, Voters
<1> QED BY <1>1, <1>2, <1>3, <1>4, <1>5 DEF Core

\* Votes are never taken back, so a majority stays one.
LEMMA MajorityStays ==
    ASSUME votes \subseteq votes', elected' = elected, LeaderHasMajority
    PROVE  LeaderHasMajority'
<1> SUFFICES ASSUME NEW e \in elected
             PROVE  2 * Cardinality(Voters(e[1], e[2])') > Cardinality(Server)
  BY DEF LeaderHasMajority
<1>1. Voters(e[1], e[2]) \in SUBSET Voters(e[1], e[2])' /\ Voters(e[1], e[2])' \in SUBSET Server
  BY DEF Voters
<1>2. /\ Cardinality(Voters(e[1], e[2])) <= Cardinality(Voters(e[1], e[2])')
      /\ Cardinality(Voters(e[1], e[2])) \in Nat /\ Cardinality(Voters(e[1], e[2])') \in Nat
  BY <1>1, ServerSets DEF Voters
<1>3. Cardinality(Server) \in Nat
  BY VoteAssumption, FS_CardinalityType
<1> QED BY <1>2, <1>3 DEF LeaderHasMajority

\* What a server may count grows with its voters and shrinks with the answers
\* on the way.
LEMMA BackingStays ==
    ASSUME NEW V \in SUBSET Server, NEW P, NEW W \in SUBSET Server, NEW Q,
           V \ P \subseteq W \ Q, NEW n \in Nat, n <= Cardinality(V \ P)
    PROVE  n <= Cardinality(W \ Q)
<1>1. W \ Q \in SUBSET Server /\ V \ P \in SUBSET (W \ Q)
  OBVIOUS
<1>2. /\ Cardinality(V \ P) <= Cardinality(W \ Q)
      /\ Cardinality(V \ P) \in Nat /\ Cardinality(W \ Q) \in Nat
  BY <1>1, ServerSets
<1> QED BY <1>2

\* A candidacy: the server votes for itself in the next term and asks for it.
LEMMA TimerCore ==
    ASSUME Typed, Core, NEW s \in Server, NEW T, T = term[s] + 1, T <= MaxTerm,
           term' = [term EXCEPT ![s] = T], role' = [role EXCEPT ![s] = "candidate"],
           voteNum' = [voteNum EXCEPT ![s] = 1], elected' = elected,
           votes' = votes \cup {Cast(s, s, T)},
           \A l \in Link : /\ Asks(l)' \subseteq Asks(l) \cup {t \in {T} : l[1] = s}
                           /\ Says(l)' \subseteq Says(l)
    PROVE  Core'
<1>1. /\ MaxTerm \in Nat /\ term[s] \in 0..MaxTerm /\ T \in 0..MaxTerm
      /\ \A w \in Server : term[w] \in 0..MaxTerm /\ term'[w] \in 0..MaxTerm
      /\ \A w \in Server : term'[w] >= term[w] /\ (w # s => term'[w] = term[w])
      /\ term'[s] = T
      /\ \A x \in votes : x.voter \in Server /\ x.for \in Server /\ x.term \in 0..MaxTerm
      /\ \A l \in Link : l[1] \in Server /\ l[2] \in Server /\ l[1] # l[2]
  BY VoteAssumption DEF Typed, Vote, Link
<1>2. /\ Cast(s, s, T).voter = s /\ Cast(s, s, T).for = s /\ Cast(s, s, T).term = T
      /\ \A l \in Link : Asks(l)' \subseteq 0..MaxTerm /\ Asks(l) \subseteq 0..MaxTerm
  BY DEF Cast, Asks, AsksIn
<1>3. (VotesAsked /\ AsksVoted /\ SaysVoted)'
  BY <1>2 DEF Core, VotesAsked, AsksVoted, SaysVoted, Cast
<1>4. ASSUME NEW x \in votes', Forgot(x)'
      PROVE  x \in votes /\ Forgot(x) /\ \A w \in Server \ {x.voter} : term[w] >= x.term
  <2>1. x \in votes
    BY <1>1, <1>2, <1>4 DEF Forgot
  <2>2. Forgot(x)
    BY <1>1, <1>4, <2>1 DEF Forgot
  <2> QED BY <2>1, <2>2 DEF Core, OthersReached
<1>5. OthersReached'
  BY <1>1, <1>4 DEF OthersReached
<1>6. AskedLater'
  <2> SUFFICES ASSUME NEW x \in votes', Forgot(x)', NEW l \in Link, l[2] = x.voter,
                      NEW t \in Asks(l)'
               PROVE  t > x.term
    BY DEF AskedLater
  <2>1. CASE t \in Asks(l)
    BY <1>4, <2>1 DEF Core, AskedLater
  <2>2. CASE l[1] = s /\ t = T
    BY <1>1, <1>4, <2>2
  <2> QED BY <2>1, <2>2
<1>7. OneGrant'
  BY <1>2 DEF Core, OneGrant
<1>8. GetsNoOther'
  <2> SUFFICES ASSUME NEW a \in Server, NEW u \in 0..MaxTerm, Both(a, u)'
               PROVE  /\ \A z \in votes' : z.for = a /\ z.term = u => z.voter = a
                      /\ \A l \in Link : l[1] = a /\ u \in Asks(l)' => term'[l[2]] >= u
    BY DEF GetsNoOther
  <2>1. PICK y \in votes : y.voter = a /\ y.term = u /\ y.for # a
    BY <1>2 DEF Both
  <2>2. CASE a # s \/ u # T
    <3>1. Both(a, u)
      BY <2>1, <2>2, <1>2 DEF Both, Cast
    <3>2. \A l \in Link : l[1] = a /\ u \in Asks(l)' => u \in Asks(l)
      BY <2>2
    <3> QED BY <1>1, <1>2, <2>2, <3>1, <3>2 DEF Core, GetsNoOther
  <2>3. CASE a = s /\ u = T
    <3>1. Forgot(y)
      BY <1>1, <2>1, <2>3 DEF Forgot
    <3>2. \A l \in Link : l[1] = a /\ u \in Asks(l)' => term'[l[2]] >= u
      BY <1>1, <2>1, <2>3, <3>1 DEF Core, OthersReached
    <3>3. ASSUME NEW z \in votes, z.for = a, z.term = u
          PROVE  z.voter = a
      <4>1. Cast(a, a, u) \in votes
        BY <3>3 DEF Core, VotesAsked
      <4>2. Both(a, u)
        BY <2>1, <4>1 DEF Both
      <4> QED BY <3>3, <4>2 DEF Core, GetsNoOther
    <3> QED BY <1>2, <2>3, <3>2, <3>3
  <2> QED BY <2>2, <2>3
<1>9. Backed'
  <2> SUFFICES ASSUME NEW a \in Server, NEW u \in 0..MaxTerm, u = term'[a],
                      role'[a] = "candidate", Cast(a, a, u) \in votes'
               PROVE  voteNum'[a] <= Cardinality(Voters(a, u)' \ Pending(a)')
    BY <1>1 DEF Backed, Cast, Voters
  <2>1. CASE a # s
    <3>1. /\ role[a] = "candidate" /\ Cast(a, a, u) \in votes
          /\ voteNum'[a] = voteNum[a] /\ voteNum[a] \in Nat /\ term[a] = u
      BY <2>1, <1>1, <1>2, KafkaIsMajority DEF Typed, Cast
    <3>2. voteNum[a] <= Cardinality(Voters(a, u) \ Pending(a))
      BY <3>1 DEF Core, Backed
    <3>3. /\ Voters(a, u) \ Pending(a) \subseteq Voters(a, u)' \ Pending(a)'
          /\ Voters(a, u) \in SUBSET Server /\ Voters(a, u)' \in SUBSET Server
      BY <3>1 DEF Voters, Pending, Link
    <3> QED BY <3>1, <3>2, <3>3, BackingStays
  <2>2. CASE a = s
    <3>1. voteNum'[s] = 1 /\ u = T
      BY <1>1, <2>2 DEF Typed
    <3>2. {s} \in SUBSET (Voters(s, T)' \ Pending(s)') /\ Voters(s, T)' \ Pending(s)' \in SUBSET Server
      BY <1>2 DEF Voters, Pending, Cast
    <3>3. Cardinality({s}) = 1
      BY FS_Singleton
    <3>4. Cardinality({s}) <= Cardinality(Voters(s, T)' \ Pending(s)')
      BY <3>2, ServerSets
    <3> QED BY <2>2, <3>1, <3>3, <3>4, Zenon
  <2> QED BY <2>1, <2>2
<1>10. Undecided'
  BY KafkaIsMajority DEF Core, Undecided, Typed
<1>11. LeaderHasMajority'
  BY MajorityStays DEF Core
<1> QED BY <1>3, <1>5, <1>6, <1>7, <1>8, <1>9, <1>10, <1>11 DEF Core

\* A grant: the server takes over the term it is asked for and votes.
LEMMA GrantCore ==
    ASSUME Typed, Core, NEW l \in Link, NEW t \in Asks(l), t > term[l[2]],
           term' = [term EXCEPT ![l[2]] = t],
           UNCHANGED <<role, voteNum, elected>>,
           votes' = votes \cup {Cast(l[2], l[1], t)},
           \A k \in Link : /\ Asks(k)' \subseteq Asks(k)
                           /\ Says(k)' \subseteq Says(k) \cup {u \in {t} : k = l}
    PROVE  Core'
<1> DEFINE w == l[2]
           a == l[1]
           n == Cast(w, a, t)
<1>1. /\ MaxTerm \in Nat /\ t \in 0..MaxTerm /\ a \in Server /\ w \in Server /\ a # w
      /\ \A x \in Server : term[x] \in 0..MaxTerm /\ term'[x] \in 0..MaxTerm
      /\ \A x \in Server : term'[x] >= term[x] /\ (x # w => term'[x] = term[x])
      /\ term'[w] = t
      /\ \A x \in votes : x.voter \in Server /\ x.for \in Server /\ x.term \in 0..MaxTerm
  BY VoteAssumption DEF Typed, Vote, Link, Asks, AsksIn
<1>2. n.voter = w /\ n.for = a /\ n.term = t
  BY DEF Cast
<1>3. \A x \in votes : x.voter = w => x.term < t
  BY AskedIsNew
<1>4. votes' = votes \cup {n}
  OBVIOUS
<1>5. (VotesAsked /\ AsksVoted /\ SaysVoted)'
  <2>1. Cast(a, a, t) \in votes
    BY DEF Core, AsksVoted
  <2>2. VotesAsked'
    BY <1>2, <1>4, <2>1 DEF Core, VotesAsked, Cast
  <2>3. AsksVoted'
    BY DEF Core, AsksVoted, Cast
  <2>4. SaysVoted'
    BY DEF Core, SaysVoted, Cast
  <2> QED BY <2>2, <2>3, <2>4
<1> HIDE DEF w, a, n
<1>6. ASSUME NEW x \in votes', Forgot(x)'
      PROVE  x \in votes /\ Forgot(x)
  BY <1>1, <1>2, <1>4, <1>6 DEF Forgot
<1>7. OthersReached'
  BY <1>1, <1>6 DEF Core, OthersReached
<1>8. AskedLater'
  BY <1>6 DEF Core, AskedLater
<1>9. OneGrant'
  <2> SUFFICES ASSUME NEW x \in votes', NEW y \in votes', x.voter = y.voter, x.term = y.term,
                      x.for # x.voter, y.for # y.voter
               PROVE  x.for = y.for
    BY DEF OneGrant
  <2>1. \A z \in votes : z.voter = w => z.term # t
    BY <1>1, <1>3
  <2>2. CASE x \in votes /\ y \in votes
    BY <2>2 DEF Core, OneGrant
  <2>3. CASE ~(x \in votes /\ y \in votes)
    BY <1>2, <1>4, <2>1, <2>3
  <2> QED BY <2>2, <2>3
<1>10. GetsNoOther'
  <2> SUFFICES ASSUME NEW c \in Server, NEW u \in 0..MaxTerm, Both(c, u)'
               PROVE  /\ \A z \in votes' : z.for = c /\ z.term = u => z.voter = c
                      /\ \A k \in Link : k[1] = c /\ u \in Asks(k)' => term'[k[2]] >= u
    BY DEF GetsNoOther
  <2>1. Cast(c, c, u) \in votes
    BY <1>1, <1>2, <1>4 DEF Both, Cast
  <2>2. ~(c = w /\ u = t)
    BY <1>1, <1>3, <2>1 DEF Cast
  <2>3. Both(c, u)
    BY <1>2, <1>4, <2>1, <2>2 DEF Both
  <2>4. ~(c = a /\ u = t)
    BY <1>1, <2>3 DEF Core, GetsNoOther, a, w
  <2>5. \A z \in votes' : z.for = c /\ z.term = u => z.voter = c
    BY <1>2, <1>4, <2>3, <2>4 DEF Core, GetsNoOther
  <2>6. ASSUME NEW k \in Link, k[1] = c, u \in Asks(k)'
        PROVE  term'[k[2]] >= u
    <3>1. term[k[2]] >= u /\ k[2] \in Server
      BY <2>3, <2>6 DEF Core, GetsNoOther, Link
    <3> QED BY <1>1, <3>1
  <2> QED BY <2>5, <2>6
<1>11. Backed'
  <2> SUFFICES ASSUME NEW c \in Server, NEW u \in 0..MaxTerm, u = term'[c],
                      role'[c] = "candidate", Cast(c, c, u) \in votes'
               PROVE  voteNum'[c] <= Cardinality(Voters(c, u)' \ Pending(c)')
    BY <1>1 DEF Backed, Cast, Voters
  <2>1. Cast(c, c, u) \in votes
    BY <1>1, <1>2, <1>4 DEF Cast
  <2>2. c # w
    BY <1>1, <1>3, <2>1 DEF Cast
  <2>3. /\ role[c] = "candidate" /\ term[c] = u
        /\ voteNum'[c] = voteNum[c] /\ voteNum[c] \in Nat
    BY <1>1, <2>2, KafkaIsMajority DEF Typed
  <2>4. voteNum[c] <= Cardinality(Voters(c, u) \ Pending(c))
    BY <2>1, <2>3 DEF Core, Backed
  <2>5. ASSUME NEW x \in Voters(c, u) \ Pending(c)
        PROVE  x \in Voters(c, u)' \ Pending(c)'
    <3>1. x \in Server /\ Cast(x, c, u) \in votes
      BY DEF Voters, Cast
    <3>2. ~(x = w /\ u = t)
      BY <1>1, <1>3, <3>1 DEF Cast
    <3>3. x \in Voters(c, u)'
      BY <3>1 DEF Voters, Cast
    <3>4. x = c \/ u \notin Says(<<c, x>>)
      BY <2>3, <2>5, <3>1 DEF Pending
    <3>5. x = c \/ u \notin Says(<<c, x>>)'
      BY <3>1, <3>2, <3>4 DEF Link, w
    <3> QED BY <3>3, <3>5 DEF Pending
  <2>6. /\ Voters(c, u) \ Pending(c) \subseteq Voters(c, u)' \ Pending(c)'
        /\ Voters(c, u) \in SUBSET Server /\ Voters(c, u)' \in SUBSET Server
    BY <2>5 DEF Voters
  <2> QED BY <2>3, <2>4, <2>6, BackingStays
<1>12. Undecided'
  BY DEF Core, Undecided
<1>13. LeaderHasMajority'
  BY MajorityStays DEF Core
<1> QED BY <1>5, <1>7, <1>8, <1>9, <1>10, <1>11, <1>12, <1>13 DEF Core

\* A counted vote: it is no longer on the way, and may make a leader.
LEMMA CountCore ==
    ASSUME Typed, Core, NEW l \in Link, NEW s \in Server, s = l[1],
           role[s] = "candidate", term[s] \in Says(l), term[s] \notin Says(l)',
           UNCHANGED <<term, votes>>, voteNum' = [voteNum EXCEPT ![s] = @ + 1],
           \/ role' = role /\ elected' = elected /\ voteNum[s] + 1 < Kafka
           \/ /\ role' = [role EXCEPT ![s] = "leader"]
              /\ elected' = elected \cup {<<s, term[s]>>} /\ voteNum[s] + 1 >= Kafka,
           \A k \in Link : Asks(k)' \subseteq Asks(k) /\ Says(k)' \subseteq Says(k)
    PROVE  Core'
<1>1. /\ l[2] \in Server /\ l[2] # s /\ l = <<s, l[2]>>
      /\ \A c \in Server : term[c] \in 0..MaxTerm /\ voteNum[c] \in Nat
  BY KafkaIsMajority DEF Link, Typed
<1>2. Cast(l[2], s, term[s]) \in votes /\ Cast(s, s, term[s]) \in votes
  BY DEF Core, SaysVoted, VotesAsked, Cast
<1>3. (VotesAsked /\ AsksVoted /\ SaysVoted)'
  BY DEF Core, VotesAsked, AsksVoted, SaysVoted, Cast
<1>4. (OthersReached /\ AskedLater /\ OneGrant)'
  BY DEF Core, OthersReached, AskedLater, OneGrant, Forgot
<1>5. GetsNoOther'
  BY DEF Core, GetsNoOther, Both, Cast
<1>6. ASSUME NEW c \in Server, role[c] = "candidate", Cast(c, c, term[c]) \in votes
      PROVE  voteNum'[c] <= Cardinality(Voters(c, term[c]) \ Pending(c)')
  <2>1. /\ voteNum[c] <= Cardinality(Voters(c, term[c]) \ Pending(c))
        /\ Voters(c, term[c]) \in SUBSET Server /\ Pending(c)' \subseteq Pending(c)
    BY <1>6 DEF Core, Backed, Voters, Pending, Link
  <2>2. CASE c # s
    <3>1. voteNum'[c] = voteNum[c] /\ voteNum[c] \in Nat
      BY <1>1, <2>2 DEF Typed
    <3>2. Voters(c, term[c]) \ Pending(c) \subseteq Voters(c, term[c]) \ Pending(c)'
      BY <2>1
    <3> QED BY <2>1, <3>1, <3>2, BackingStays
  <2>3. CASE c = s
    <3> DEFINE A == Voters(s, term[s]) \ Pending(s)
               B == Voters(s, term[s]) \ Pending(s)'
    <3>1. l[2] \in Pending(s) /\ l[2] \notin Pending(s)' /\ l[2] \in Voters(s, term[s])
      BY <1>1, <1>2 DEF Pending, Voters, Cast
    <3>2. A \in SUBSET Server /\ B \in SUBSET Server /\ A \cup {l[2]} \in SUBSET B /\ l[2] \notin A
      BY <2>1, <2>3, <3>1
    <3>3. voteNum[s] <= Cardinality(A)
      BY <2>1, <2>3
    <3>4. voteNum'[s] = voteNum[s] + 1 /\ voteNum[s] \in Nat
      BY <1>1 DEF Typed
    <3> HIDE DEF A, B
    <3>5. IsFiniteSet(A) /\ Cardinality(A) \in Nat /\ Cardinality(B) \in Nat
      BY <3>2, ServerSets
    <3>6. Cardinality(A \cup {l[2]}) = Cardinality(A) + 1
      BY <3>2, <3>5, FS_AddElement
    <3>7. Cardinality(A \cup {l[2]}) <= Cardinality(B)
      BY <3>2, ServerSets
    <3>8. voteNum'[s] <= Cardinality(B)
      BY <3>3, <3>4, <3>5, <3>6, <3>7
    <3> QED BY <2>3, <3>8 DEF B
  <2> QED BY <2>2, <2>3
<1>7. Backed'
  <2> SUFFICES ASSUME NEW c \in Server, role'[c] = "candidate", Cast(c, c, term[c]) \in votes
               PROVE  voteNum'[c] <= Cardinality(Voters(c, term[c]) \ Pending(c)')
    BY DEF Backed, Cast, Voters
  <2>1. role[c] = "candidate"
    BY DEF Typed
  <2> QED BY <1>6, <2>1
<1>8. Undecided'
  BY <1>1 DEF Core, Undecided, Typed
<1>9. LeaderHasMajority'
  <2>1. ASSUME voteNum[s] + 1 >= Kafka
        PROVE  2 * Cardinality(Voters(s, term[s])) > Cardinality(Server)
    <3>1. Voters(s, term[s]) \ Pending(s)' \in SUBSET Voters(s, term[s])
      OBVIOUS
    <3>2. /\ Cardinality(Voters(s, term[s]) \ Pending(s)') <= Cardinality(Voters(s, term[s]))
          /\ Cardinality(Voters(s, term[s]) \ Pending(s)') \in Nat
          /\ Cardinality(Voters(s, term[s])) \in Nat
      BY <3>1, VotersAreServers, FS_CardinalityType
    <3>3. voteNum[s] + 1 <= Cardinality(Voters(s, term[s]) \ Pending(s)')
      BY <1>1, <1>2, <1>6 DEF Typed
    <3>4. Cardinality(Server) \in Nat
      BY VoteAssumption, FS_CardinalityType
    <3> QED BY <1>1, <2>1, <3>2, <3>3, <3>4, KafkaIsMajority
  <2>2. \A e \in elected' : e \in elected \/ (e = <<s, term[s]>> /\ voteNum[s] + 1 >= Kafka)
    OBVIOUS
  <2>3. \A e : Voters(e[1], e[2])' = Voters(e[1], e[2])
    BY DEF Voters
  <2> QED BY <2>1, <2>2, <2>3 DEF Core, LeaderHasMajority
<1> QED BY <1>3, <1>4, <1>5, <1>7, <1>8, <1>9 DEF Core

\* A restart of a server that is not ahead of another.
LEMMA RestartCore ==
    ASSUME Typed, Core, NEW s \in Server, \A x \in Server : term[x] >= term[s],
           term' = [term EXCEPT ![s] = 0], role' = [role EXCEPT ![s] = "follower"],
           voteNum' = [voteNum EXCEPT ![s] = 0], UNCHANGED <<votes, elected>>,
           \A l \in Link : /\ Asks(l)' \subseteq Asks(l) /\ Says(l)' \subseteq Says(l)
                           /\ l[2] = s => Asks(l)' = {}
    PROVE  Core'
<1>1. /\ MaxTerm \in Nat /\ term'[s] = 0
      /\ \A w \in Server : term[w] \in 0..MaxTerm /\ (w # s => term'[w] = term[w])
      /\ \A x \in votes : x.voter \in Server /\ x.for \in Server /\ x.term \in 0..MaxTerm
      /\ \A l \in Link : l[1] \in Server /\ l[2] \in Server /\ l[1] # l[2]
  BY VoteAssumption DEF Typed, Vote, Link
<1>2. (VotesAsked /\ AsksVoted /\ SaysVoted)'
  BY DEF Core, VotesAsked, AsksVoted, SaysVoted, Cast
<1>3. ASSUME NEW x \in votes, Forgot(x)', x.voter # s
      PROVE  Forgot(x)
  BY <1>1, <1>3 DEF Forgot
<1>4. OthersReached'
  <2> SUFFICES ASSUME NEW x \in votes, Forgot(x)', NEW w \in Server \ {x.voter}
               PROVE  term'[w] >= x.term
    BY DEF OthersReached
  <2>1. CASE x.voter = s
    <3>1. CASE Forgot(x)
      BY <1>1, <2>1, <3>1 DEF Core, OthersReached
    <3>2. CASE ~Forgot(x)
      BY <1>1, <2>1, <3>2 DEF Forgot
    <3> QED BY <3>1, <3>2
  <2>2. CASE x.voter # s
    <3>1. Forgot(x) /\ term[x.voter] < x.term
      BY <1>3, <2>2 DEF Forgot
    <3>2. term[s] >= x.term
      BY <2>2, <3>1 DEF Core, OthersReached
    <3> QED BY <1>1, <3>1, <3>2
  <2> QED BY <2>1, <2>2
<1>5. AskedLater'
  BY <1>3 DEF Core, AskedLater
<1>6. OneGrant'
  BY DEF Core, OneGrant
<1>7. GetsNoOther'
  <2>1. \A c, u : Both(c, u)' <=> Both(c, u)
    BY DEF Both, Cast
  <2> QED BY <1>1, <2>1 DEF Core, GetsNoOther
<1>8. Backed'
  <2> SUFFICES ASSUME NEW c \in Server, role'[c] = "candidate", NEW u \in 0..MaxTerm, u = term'[c],
                      Cast(c, c, u) \in votes
               PROVE  voteNum'[c] <= Cardinality(Voters(c, u) \ Pending(c)')
    BY <1>1 DEF Backed, Cast, Voters
  <2>1. /\ c # s /\ role[c] = "candidate" /\ term[c] = u
        /\ voteNum'[c] = voteNum[c] /\ voteNum[c] \in Nat
    BY <1>1, KafkaIsMajority DEF Typed
  <2>2. /\ voteNum[c] <= Cardinality(Voters(c, u) \ Pending(c))
        /\ Voters(c, u) \in SUBSET Server
    BY <2>1 DEF Core, Backed, Voters
  <2>3. Voters(c, u) \ Pending(c) \subseteq Voters(c, u) \ Pending(c)'
    BY <2>1 DEF Pending, Link
  <2> QED BY <2>1, <2>2, <2>3, BackingStays
<1>9. Undecided'
  BY DEF Core, Undecided, Typed
<1>10. LeaderHasMajority'
  BY MajorityStays DEF Core
<1> QED BY <1>2, <1>4, <1>5, <1>6, <1>7, <1>8, <1>9, <1>10 DEF Core

\* A candidate or leader gives up for another leader.
LEMMA StepDownCore ==
    ASSUME Typed, Core, NEW s \in Server, NEW v \in 0..MaxTerm, v >= term[s],
           term' = [term EXCEPT ![s] = v], role' = [role EXCEPT ![s] = "follower"],
           \A c \in Server \ {s} : voteNum'[c] = voteNum[c], UNCHANGED <<votes, elected>>,
           \A l \in Link : Asks(l)' \subseteq Asks(l) /\ Says(l)' \subseteq Says(l)
    PROVE  Core'
<1>1. /\ MaxTerm \in Nat
      /\ \A w \in Server : /\ term[w] \in 0..MaxTerm /\ term'[w] \in 0..MaxTerm
                           /\ term'[w] >= term[w] /\ (w # s => term'[w] = term[w])
      /\ \A x \in votes : x.voter \in Server /\ x.for \in Server /\ x.term \in 0..MaxTerm
      /\ \A l \in Link : l[1] \in Server /\ l[2] \in Server
  BY VoteAssumption DEF Typed, Vote, Link
<1>2. (VotesAsked /\ AsksVoted /\ SaysVoted)'
  BY DEF Core, VotesAsked, AsksVoted, SaysVoted, Cast
<1>3. ASSUME NEW x \in votes, Forgot(x)'
      PROVE  Forgot(x)
  BY <1>1, <1>3 DEF Forgot
<1>4. OthersReached'
  BY <1>1, <1>3 DEF Core, OthersReached
<1>5. AskedLater' /\ OneGrant'
  BY <1>3 DEF Core, AskedLater, OneGrant
<1>6. GetsNoOther'
  <2>1. \A c, u : Both(c, u)' <=> Both(c, u)
    BY DEF Both, Cast
  <2>2. ASSUME NEW l \in Link, NEW u \in 0..MaxTerm, term[l[2]] >= u
        PROVE  term'[l[2]] >= u
    BY <1>1, <2>2
  <2> QED BY <2>1, <2>2 DEF Core, GetsNoOther
<1>7. Backed'
  <2> SUFFICES ASSUME NEW c \in Server, role'[c] = "candidate", NEW u \in 0..MaxTerm, u = term'[c],
                      Cast(c, c, u) \in votes
               PROVE  voteNum'[c] <= Cardinality(Voters(c, u) \ Pending(c)')
    BY <1>1 DEF Backed, Cast, Voters
  <2>1. /\ c # s /\ role[c] = "candidate" /\ term[c] = u
        /\ voteNum'[c] = voteNum[c] /\ voteNum[c] \in Nat
    BY <1>1, KafkaIsMajority DEF Typed
  <2>2. /\ voteNum[c] <= Cardinality(Voters(c, u) \ Pending(c))
        /\ Voters(c, u) \in SUBSET Server
    BY <2>1 DEF Core, Backed, Voters
  <2>3. Voters(c, u) \ Pending(c) \subseteq Voters(c, u) \ Pending(c)'
    BY <2>1 DEF Pending, Link
  <2> QED BY <2>1, <2>2, <2>3, BackingStays
<1>8. Undecided'
  BY DEF Core, Undecided, Typed
<1>9. LeaderHasMajority'
  BY MajorityStays DEF Core
<1> QED BY <1>2, <1>4, <1>5, <1>6, <1>7, <1>8, <1>9 DEF Core
-----------------------------------------------------------------------------
(* What a step does to the connections and to the requests in hand. *)

Channels == mail \in [Link -> Seq(Request)] /\ answers \in [Link -> Seq(Answer)]

\* One request of a server is in hand at a time, and still at the head.
HandlersOwn == /\ handled \subseteq Handler
               /\ \A h \in handled : InHand(h.link[2]) = {h} /\ mail[h.link] # <<>>

\* A request that is sent comes behind what is under way.
LEMMA BroadcastAsks ==
    ASSUME Channels, NEW s \in Server, NEW m \in Request, Broadcast(s, m)
    PROVE  /\ mail' \in [Link -> Seq(Request)]
           /\ \A l \in Link :
                /\ Asks(l)' \subseteq Asks(l) \cup {t \in {m.term} : l[1] = s /\ m.type = "vote"}
                /\ mail[l] # <<>> => mail'[l] # <<>> /\ Head(mail'[l]) = Head(mail[l])
<1>1. mail' = [l \in Link |-> IF l[1] = s /\ l \in up THEN Append(mail[l], m) ELSE mail[l]]
  BY DEF Broadcast
<1>2. \A l \in Link : mail[l] \in Seq(Request)
  BY DEF Channels
<1>3. mail' \in [Link -> Seq(Request)]
  BY <1>1, <1>2, AppendOf
<1>4. ASSUME NEW l \in Link
      PROVE  /\ Asks(l)' \subseteq Asks(l) \cup {t \in {m.term} : l[1] = s /\ m.type = "vote"}
             /\ mail[l] # <<>> => mail'[l] # <<>> /\ Head(mail'[l]) = Head(mail[l])
  <2>1. CASE l[1] = s /\ l \in up
    <3>1. mail'[l] = Append(mail[l], m)
      BY <1>1, <2>1
    <3>2. AsksIn(Append(mail[l], m)) \subseteq AsksIn(mail[l]) \cup {t \in {m.term} : m.type = "vote"}
      BY <1>2, RequestQueue
    <3>3. /\ Append(mail[l], m) # <<>>
          /\ mail[l] # <<>> => Head(Append(mail[l], m)) = Head(mail[l])
      BY <1>2, AppendOf
    <3> QED BY <2>1, <3>1, <3>2, <3>3 DEF Asks, AsksIn
  <2>2. CASE ~(l[1] = s /\ l \in up)
    <3>1. mail'[l] = mail[l]
      BY <1>1, <2>2
    <3> QED BY <3>1 DEF Asks, AsksIn
  <2> QED BY <2>1, <2>2
<1> QED BY <1>3, <1>4

\* A request that is taken.
LEMMA MailTaken ==
    ASSUME Channels, NEW l \in Link, mail[l] # <<>>, mail' = [mail EXCEPT ![l] = Tail(@)]
    PROVE  /\ mail' \in [Link -> Seq(Request)]
           /\ \A k \in Link : Asks(k)' \subseteq Asks(k) /\ (k # l => mail'[k] = mail[k])
<1>1. /\ mail[l] \in Seq(Request) /\ Tail(mail[l]) \in Seq(Request)
      /\ AsksIn(Tail(mail[l])) \subseteq AsksIn(mail[l])
  BY TailOf, RequestQueue DEF Channels
<1>2. mail'[l] = Tail(mail[l]) /\ \A k \in Link : k # l => mail'[k] = mail[k]
  BY DEF Channels
<1> QED BY <1>1, <1>2 DEF Channels, Asks, AsksIn

\* An answer that is taken, and one that is sent.
LEMMA AnswerTaken ==
    ASSUME Channels, GrantsOnce, NEW l \in Link, answers[l] # <<>>,
           answers' = [answers EXCEPT ![l] = Tail(@)]
    PROVE  /\ answers' \in [Link -> Seq(Answer)] /\ GrantsOnce'
           /\ \A k \in Link : Says(k)' \subseteq Says(k)
           /\ Head(answers[l]) \in Answer
           /\ Head(answers[l]).granted =>
                 Head(answers[l]).term \in Says(l) /\ Head(answers[l]).term \notin Says(l)'
<1> DEFINE q == answers[l]
<1>1. /\ q \in Seq(Answer) /\ Tail(q) \in Seq(Answer) /\ Head(q) \in Answer
      /\ SaysIn(Tail(q)) \subseteq SaysIn(q) /\ Once(Tail(q))
      /\ Head(q).granted => Head(q).term \in SaysIn(q) /\ Head(q).term \notin SaysIn(Tail(q))
  BY TailOf, AnswerQueue DEF Channels, GrantsOnce
<1>2. answers'[l] = Tail(q) /\ \A k \in Link : k # l => answers'[k] = answers[k]
  BY DEF Channels
<1>3. answers' \in [Link -> Seq(Answer)]
  BY <1>1 DEF Channels
<1>4. GrantsOnce'
  BY <1>1, <1>2 DEF GrantsOnce, Once
<1>5. \A k \in Link : Says(k)' = SaysIn(answers'[k])
  BY DEF Says, SaysIn
<1> QED BY <1>1, <1>2, <1>3, <1>4, <1>5 DEF Says

LEMMA AnswerSent ==
    ASSUME Channels, GrantsOnce, NEW l \in Link, NEW a \in Answer,
           a.granted => a.term \notin Says(l),
           answers' = [answers EXCEPT ![l] = Append(@, a)]
    PROVE  /\ answers' \in [Link -> Seq(Answer)] /\ GrantsOnce'
           /\ \A k \in Link : Says(k)' \subseteq Says(k) \cup {t \in {a.term} : a.granted /\ k = l}
<1> DEFINE q == answers[l]
<1>1. /\ q \in Seq(Answer) /\ Append(q, a) \in Seq(Answer) /\ Once(Append(q, a))
      /\ SaysIn(Append(q, a)) \subseteq SaysIn(q) \cup {t \in {a.term} : a.granted}
  BY AppendOf, AnswerQueue DEF Channels, GrantsOnce, Says
<1>2. answers'[l] = Append(q, a) /\ \A k \in Link : k # l => answers'[k] = answers[k]
  BY DEF Channels
<1>3. answers' \in [Link -> Seq(Answer)]
  BY <1>1 DEF Channels
<1>4. GrantsOnce'
  BY <1>1, <1>2 DEF GrantsOnce, Once
<1>5. \A k \in Link : Says(k)' = SaysIn(answers'[k])
  BY DEF Says, SaysIn
<1> QED BY <1>1, <1>2, <1>3, <1>4, <1>5 DEF Says

\* What is lost when connections break.
LEMMA ChannelsCleared ==
    ASSUME Channels, GrantsOnce, NEW links,
           mail' = Cleared(mail, links), answers' = Cleared(answers, links)
    PROVE  /\ Channels' /\ GrantsOnce'
           /\ \A l \in Link : /\ Asks(l)' \subseteq Asks(l) /\ Says(l)' \subseteq Says(l)
                              /\ l \in links => Asks(l)' = {}
                              /\ l \notin links => mail'[l] = mail[l]
<1>1. \A l \in Link : /\ mail'[l] = IF l \in links THEN <<>> ELSE mail[l]
                      /\ answers'[l] = IF l \in links THEN <<>> ELSE answers[l]
  BY DEF Cleared
<1>2. Channels'
  BY DEF Channels, Cleared
<1>3. GrantsOnce'
  BY <1>1 DEF GrantsOnce, Once
<1>4. \A l \in Link : Asks(l)' = AsksIn(mail'[l]) /\ Says(l)' = SaysIn(answers'[l])
  BY DEF Asks, AsksIn, Says, SaysIn
<1>5. AsksIn(<<>>) = {} /\ SaysIn(<<>>) = {}
  BY DEF AsksIn, SaysIn
<1> QED BY <1>1, <1>2, <1>3, <1>4, <1>5 DEF Asks, Says

\* Requests in hand that a step leaves alone.
LEMMA HandledStay ==
    ASSUME HandlersOwn, HandledFresh, handled' \subseteq handled,
           \A h \in handled' :
              /\ mail'[h.link] # <<>> /\ Head(mail'[h.link]) = Head(mail[h.link])
              /\ term'[h.link[2]] = term[h.link[2]]
              /\ role'[h.link[2]] = role[h.link[2]] \/ Head(mail[h.link]).type # "heartbeat"
    PROVE  HandlersOwn' /\ HandledFresh'
<1>1. HandlersOwn'
  BY DEF HandlersOwn, InHand
<1>2. HandledFresh'
  BY DEF HandledFresh, Grants, StepsDown
<1> QED BY <1>1, <1>2

\* A request that is taken in hand.
LEMMA HandledBegins ==
    ASSUME HandlersOwn, HandledFresh, NEW l \in Link, InHand(l[2]) = {}, mail[l] # <<>>,
           handled' = handled \cup {[link |-> l, seen |-> term[l[2]]]},
           term[l[2]] \in 0..MaxTerm, UNCHANGED <<mail, term, role>>,
           Head(mail[l]).type = "vote" => Grants(l[2], Head(mail[l]).term),
           Head(mail[l]).type = "heartbeat" => StepsDown(l[2], Head(mail[l]).term)
    PROVE  HandlersOwn' /\ HandledFresh'
<1> DEFINE n == [link |-> l, seen |-> term[l[2]]]
<1>1. n \in Handler /\ n.link = l /\ n.seen = term[l[2]]
  BY DEF Handler
<1>2. \A h \in handled : h.link[2] # l[2]
  BY DEF InHand
<1> HIDE DEF n
<1>3. handled' = handled \cup {n}
  BY DEF n
<1>4. HandlersOwn'
  <2> SUFFICES ASSUME NEW h \in handled'
               PROVE  InHand(h.link[2])' = {h} /\ mail[h.link] # <<>>
    BY <1>1, <1>3 DEF HandlersOwn, InHand
  <2>1. CASE h = n
    BY <1>1, <1>2, <1>3, <2>1 DEF InHand
  <2>2. CASE h \in handled
    <3>1. InHand(h.link[2]) = {h} /\ mail[h.link] # <<>>
      BY <2>2 DEF HandlersOwn
    <3>2. InHand(h.link[2])' = InHand(h.link[2])
      BY <1>1, <1>2, <1>3, <2>2 DEF InHand
    <3> QED BY <3>1, <3>2
  <2> QED BY <1>3, <2>1, <2>2
<1>5. HandledFresh'
  <2> SUFFICES ASSUME NEW h \in handled'
               PROVE  /\ h.seen = term[h.link[2]]
                      /\ Head(mail[h.link]).type = "vote" =>
                            Grants(h.link[2], Head(mail[h.link]).term)
                      /\ Head(mail[h.link]).type = "heartbeat" =>
                            StepsDown(h.link[2], Head(mail[h.link]).term)
    BY DEF HandledFresh, Grants, StepsDown
  <2> QED BY <1>1, <1>3 DEF HandledFresh
<1> QED BY <1>4, <1>5
-----------------------------------------------------------------------------
(* Every action keeps the invariant. *)

\* What the election does not depend on.
Aside == /\ cps \in [Server -> {"follower", "master"}]
         /\ started \in [Server -> BOOLEAN]
         /\ up \subseteq Link /\ faults \in 0..MaxFault

LEMMA Parts ==
    /\ TypeOK <=> Typed /\ Aside /\ Channels /\ HandlersOwn
    /\ TypeOK' <=> (Typed /\ Aside /\ Channels /\ HandlersOwn)'
    /\ IInv <=> TypeOK /\ HandledFresh /\ GrantsOnce /\ Core
    /\ IInv' <=> TypeOK' /\ HandledFresh' /\ GrantsOnce' /\ Core'
BY DEF TypeOK, Typed, Aside, Channels, HandlersOwn, IInv

\* A head is a request.
LEMMA HeadIsRequest ==
    ASSUME Channels, NEW l \in Link, mail[l] # <<>>
    PROVE  /\ Head(mail[l]) \in Request /\ Head(mail[l]).term \in 0..MaxTerm
           /\ Head(mail[l]).type = "vote" => Head(mail[l]).term \in Asks(l)
<1>1. mail[l] \in Seq(Request)
  BY DEF Channels
<1>2. Head(mail[l]) \in Request
  BY <1>1, TailOf
<1>3. Head(mail[l]).type = "vote" => Head(mail[l]).term \in Asks(l)
  BY <1>1, RequestQueue DEF Asks
<1> QED BY <1>2, <1>3 DEF Request

LEMMA TimerKeeps ==
    ASSUME IInv, Protected, NEW s \in Server, RaftVoteTimeOut(s)
    PROVE  IInv'
<1> DEFINE T == term[s] + 1
           m == [type |-> "vote", term |-> T]
<1>1. Typed /\ Aside /\ Channels /\ HandlersOwn /\ HandledFresh /\ GrantsOnce /\ Core
  BY Parts
<1>2. /\ MaxTerm \in Nat /\ term[s] \in 0..MaxTerm /\ T \in 0..MaxTerm /\ term'[s] = T
      /\ term' = [term EXCEPT ![s] = T] /\ InHand(s) = {} /\ T <= MaxTerm
  BY <1>1, VoteAssumption DEF RaftVoteTimeOut, Typed, Protected
<1>3. m \in Request /\ m.term = T /\ Broadcast(s, m)
  BY <1>2 DEF Request, RaftVoteTimeOut
<1>4. votes' = votes \cup {Cast(s, s, T)}
  BY <1>2 DEF RaftVoteTimeOut, Cast
<1> HIDE DEF T, m
<1>5. /\ mail' \in [Link -> Seq(Request)]
      /\ \A l \in Link :
           /\ Asks(l)' \subseteq Asks(l) \cup {t \in {T} : l[1] = s}
           /\ mail[l] # <<>> => mail'[l] # <<>> /\ Head(mail'[l]) = Head(mail[l])
  BY <1>1, <1>3, BroadcastAsks
<1>6. UNCHANGED <<cps, started, up, answers, handled, faults, elected>>
  BY DEF RaftVoteTimeOut
<1>7. Typed'
  BY <1>1, <1>2, <1>4, <1>6, KafkaIsMajority DEF Typed, Cast, Vote, Roles, RaftVoteTimeOut
<1>8. Aside' /\ Channels'
  BY <1>1, <1>5, <1>6 DEF Aside, Channels
<1>9. HandlersOwn' /\ HandledFresh'
  <2>1. \A h \in handled : h.link[2] # s /\ h.link[2] \in Server /\ h.link \in Link
    BY <1>1, <1>2 DEF InHand, HandlersOwn, Handler, Link
  <2>2. \A h \in handled : /\ mail'[h.link] # <<>> /\ Head(mail'[h.link]) = Head(mail[h.link])
                           /\ term'[h.link[2]] = term[h.link[2]]
                           /\ role'[h.link[2]] = role[h.link[2]]
    BY <1>1, <1>2, <1>5, <2>1 DEF HandlersOwn, Typed, RaftVoteTimeOut
  <2> QED BY <1>1, <1>6, <2>2, HandledStay
<1>10. GrantsOnce'
  BY <1>1, <1>6 DEF GrantsOnce, Once
<1>11. Core'
  <2>1. \A l \in Link : Says(l)' \subseteq Says(l)
    BY <1>6 DEF Says, SaysIn
  <2>2. role' = [role EXCEPT ![s] = "candidate"] /\ voteNum' = [voteNum EXCEPT ![s] = 1]
    BY DEF RaftVoteTimeOut
  <2> QED BY <1>1, <1>2, <1>4, <1>5, <1>6, <2>1, <2>2, TimerCore DEF T
<1> QED BY <1>7, <1>8, <1>9, <1>10, <1>11, Parts

LEMMA HeartBeatKeeps ==
    ASSUME IInv, NEW s \in Server, RaftHeartBeatTimeOut(s)
    PROVE  IInv'
<1> DEFINE m == [type |-> "heartbeat", term |-> term[s]]
<1>1. Typed /\ Aside /\ Channels /\ HandlersOwn /\ HandledFresh /\ GrantsOnce /\ Core
  BY Parts
<1>2. m \in Request /\ Broadcast(s, m) /\ m.type = "heartbeat"
  BY <1>1 DEF Request, RaftHeartBeatTimeOut, Typed
<1> HIDE DEF m
<1>3. /\ mail' \in [Link -> Seq(Request)]
      /\ \A l \in Link :
           /\ Asks(l)' \subseteq Asks(l)
           /\ mail[l] # <<>> => mail'[l] # <<>> /\ Head(mail'[l]) = Head(mail[l])
  BY <1>1, <1>2, BroadcastAsks
<1>4. UNCHANGED <<role, term, voteNum, cps, started, up, answers, handled, faults, votes, elected>>
  BY DEF RaftHeartBeatTimeOut
<1>5. Typed' /\ Aside' /\ Channels'
  BY <1>1, <1>3, <1>4 DEF Typed, Aside, Channels
<1>6. HandlersOwn' /\ HandledFresh'
  BY <1>1, <1>3, <1>4, HandledStay DEF HandlersOwn, Handler
<1>7. GrantsOnce'
  BY <1>1, <1>4 DEF GrantsOnce, Once
<1>8. Core'
  <2>1. \A l \in Link : Says(l)' \subseteq Says(l)
    BY <1>4 DEF Says, SaysIn
  <2> QED BY <1>1, <1>3, <1>4, <2>1, QuietCore
<1> QED BY <1>5, <1>6, <1>7, <1>8, Parts

LEMMA VoteReqKeeps ==
    ASSUME IInv, NEW l \in Link, ReceiveVoteReq(l)
    PROVE  IInv'
<1> DEFINE t == Head(mail[l]).term
           a == [granted |-> FALSE, term |-> t]
<1>1. Typed /\ Aside /\ Channels /\ HandlersOwn /\ HandledFresh /\ GrantsOnce /\ Core
  BY Parts
<1>2. /\ InHand(l[2]) = {} /\ mail[l] # <<>> /\ Head(mail[l]).type = "vote"
      /\ UNCHANGED <<role, term, voteNum, cps, started, up, faults, votes, elected>>
  BY DEF ReceiveVoteReq, TakesUp
<1>3. t \in 0..MaxTerm /\ l[2] \in Server /\ term[l[2]] \in 0..MaxTerm
  BY <1>1, <1>2, HeadIsRequest DEF Typed, Link
<1>4. Typed' /\ Aside'
  BY <1>1, <1>2 DEF Typed, Aside
<1>5. CASE Grants(l[2], t)
  <2>1. /\ handled' = handled \cup {[link |-> l, seen |-> term[l[2]]]}
        /\ UNCHANGED <<mail, answers>>
    BY <1>5 DEF ReceiveVoteReq
  <2>2. HandlersOwn' /\ HandledFresh'
    BY <1>1, <1>2, <1>3, <1>5, <2>1, HandledBegins
  <2>3. Channels' /\ GrantsOnce'
    BY <1>1, <2>1 DEF Channels, GrantsOnce, Once
  <2>4. \A k \in Link : Asks(k)' \subseteq Asks(k) /\ Says(k)' \subseteq Says(k)
    BY <2>1 DEF Asks, AsksIn, Says, SaysIn
  <2>5. Core'
    BY <1>1, <1>2, <2>4, QuietCore
  <2> QED BY <1>4, <2>2, <2>3, <2>5, Parts
<1>6. CASE ~Grants(l[2], t)
  <2>1. /\ mail' = [mail EXCEPT ![l] = Tail(@)]
        /\ answers' = [answers EXCEPT ![l] = Append(@, a)] /\ handled' = handled
    BY <1>6 DEF ReceiveVoteReq
  <2>2. a \in Answer /\ ~a.granted
    BY <1>3 DEF Answer
  <2> HIDE DEF a
  <2>3. /\ mail' \in [Link -> Seq(Request)]
        /\ \A k \in Link : Asks(k)' \subseteq Asks(k) /\ (k # l => mail'[k] = mail[k])
    BY <1>1, <1>2, <2>1, MailTaken
  <2>4. /\ answers' \in [Link -> Seq(Answer)] /\ GrantsOnce'
        /\ \A k \in Link : Says(k)' \subseteq Says(k)
    BY <1>1, <2>1, <2>2, AnswerSent
  <2>5. HandlersOwn' /\ HandledFresh'
    <3>1. \A h \in handled : h.link # l /\ h.link \in Link /\ mail[h.link] # <<>>
      BY <1>1, <1>2 DEF InHand, HandlersOwn, Handler
    <3> QED BY <1>1, <1>2, <2>1, <2>3, <3>1, HandledStay
  <2>6. Core'
    BY <1>1, <1>2, <2>3, <2>4, QuietCore
  <2> QED BY <1>4, <2>3, <2>4, <2>5, <2>6, Parts DEF Channels
<1> QED BY <1>5, <1>6

LEMMA VoteRspKeeps ==
    ASSUME IInv, Protected, NEW l \in Link, ReceiveVoteRsp(l)
    PROVE  IInv'
<1> DEFINE s == l[1]
           a == Head(answers[l])
           m == [type |-> "heartbeat", term |-> term[s]]
<1>1. Typed /\ Aside /\ Channels /\ HandlersOwn /\ HandledFresh /\ GrantsOnce /\ Core
  BY Parts
<1>2. /\ answers[l] # <<>> /\ s \in Server
      /\ CountsFor(s, a) => /\ a.term = term[s] /\ a.granted /\ role[s] = "candidate"
                            /\ \A h \in InHand(s) : Head(mail[h.link]).type # "heartbeat"
      /\ answers' = [answers EXCEPT ![l] = Tail(@)]
      /\ UNCHANGED <<term, started, up, handled, faults, votes>>
  BY DEF ReceiveVoteRsp, Protected, CountsFor, Link
<1>3. /\ answers' \in [Link -> Seq(Answer)] /\ GrantsOnce'
      /\ \A k \in Link : Says(k)' \subseteq Says(k)
      /\ a.granted => a.term \in Says(l) /\ a.term \notin Says(l)'
  BY <1>1, <1>2, AnswerTaken
<1>4. m \in Request /\ m.type = "heartbeat" /\ term[s] \in 0..MaxTerm /\ voteNum[s] \in Nat
  BY <1>1, <1>2, KafkaIsMajority DEF Typed, Request
<1>5. CASE CountsFor(s, a) /\ Wins(s)
  <2>1. /\ role' = [role EXCEPT ![s] = "leader"] /\ cps' = [cps EXCEPT ![s] = "master"]
        /\ elected' = elected \cup {<<s, term[s]>>} /\ Broadcast(s, m)
        /\ voteNum' = [voteNum EXCEPT ![s] = @ + 1] /\ voteNum[s] + 1 >= Kafka
    BY <1>5 DEF ReceiveVoteRsp, Wins
  <2>2. voteNum[s] < Kafka
    BY <1>1, <1>2, <1>5 DEF Core, Undecided
  <2> HIDE DEF m, a
  <2>3. /\ mail' \in [Link -> Seq(Request)]
        /\ \A k \in Link :
             /\ Asks(k)' \subseteq Asks(k)
             /\ mail[k] # <<>> => mail'[k] # <<>> /\ Head(mail'[k]) = Head(mail[k])
    BY <1>1, <1>2, <1>4, <2>1, BroadcastAsks
  <2>4. Typed'
    BY <1>1, <1>2, <1>4, <2>1, <2>2, KafkaIsMajority DEF Typed, Roles
  <2>5. Aside' /\ Channels'
    BY <1>1, <1>2, <1>3, <2>1, <2>3 DEF Aside, Channels
  <2>6. HandlersOwn' /\ HandledFresh'
    <3>1. \A h \in handled : /\ role'[h.link[2]] = role[h.link[2]] \/ Head(mail[h.link]).type # "heartbeat"
                             /\ mail[h.link] # <<>> /\ h.link \in Link
      BY <1>1, <1>2, <1>5, <2>1 DEF HandlersOwn, Handler, InHand, Typed, Link, a
    <3> QED BY <1>1, <1>2, <2>3, <3>1, HandledStay
  <2>7. Core'
    <3>1. term[s] \in Says(l) /\ term[s] \notin Says(l)'
      BY <1>2, <1>3, <1>5 DEF a
    <3> QED BY <1>1, <1>2, <1>3, <1>5, <2>1, <2>3, <3>1, CountCore DEF a
  <2> QED BY <1>3, <2>4, <2>5, <2>6, <2>7, Parts
<1>6. CASE CountsFor(s, a) /\ ~Wins(s)
  <2>1. /\ UNCHANGED <<role, cps, elected, mail>>
        /\ voteNum' = [voteNum EXCEPT ![s] = @ + 1] /\ voteNum[s] + 1 < Kafka
    BY <1>4, <1>6, KafkaIsMajority DEF ReceiveVoteRsp, Wins
  <2> HIDE DEF a
  <2>2. Typed' /\ Aside' /\ Channels'
    BY <1>1, <1>2, <1>3, <1>4, <2>1, KafkaIsMajority DEF Typed, Aside, Channels
  <2>3. HandlersOwn' /\ HandledFresh'
    BY <1>1, <1>2, <2>1, HandledStay DEF HandlersOwn
  <2>4. Core'
    <3>1. term[s] \in Says(l) /\ term[s] \notin Says(l)'
      BY <1>2, <1>3, <1>6 DEF a
    <3>2. \A k \in Link : Asks(k)' \subseteq Asks(k)
      BY <2>1 DEF Asks, AsksIn
    <3> QED BY <1>1, <1>2, <1>3, <1>6, <2>1, <3>1, <3>2, CountCore DEF a
  <2> QED BY <1>3, <2>2, <2>3, <2>4, Parts
<1>7. CASE ~CountsFor(s, a)
  <2>1. UNCHANGED <<role, cps, elected, mail, voteNum>>
    BY <1>1, <1>7 DEF ReceiveVoteRsp, Typed
  <2>2. Typed' /\ Aside' /\ Channels'
    BY <1>1, <1>2, <1>3, <2>1 DEF Typed, Aside, Channels
  <2>3. HandlersOwn' /\ HandledFresh'
    BY <1>1, <1>2, <2>1, HandledStay DEF HandlersOwn
  <2>4. \A k \in Link : Asks(k)' \subseteq Asks(k)
    BY <2>1 DEF Asks, AsksIn
  <2>5. Core'
    BY <1>1, <1>2, <1>3, <2>1, <2>4, QuietCore
  <2> QED BY <1>3, <2>2, <2>3, <2>5, Parts
<1> QED BY <1>5, <1>6, <1>7

LEMMA HeartBeatReqKeeps ==
    ASSUME IInv, NEW l \in Link, ReceiveRaftHeartBeat(l)
    PROVE  IInv'
<1> DEFINE t == Head(mail[l]).term
<1>1. Typed /\ Aside /\ Channels /\ HandlersOwn /\ HandledFresh /\ GrantsOnce /\ Core
  BY Parts
<1>2. /\ InHand(l[2]) = {} /\ mail[l] # <<>> /\ Head(mail[l]).type = "heartbeat"
      /\ UNCHANGED <<role, term, voteNum, cps, started, up, answers, faults, votes, elected>>
  BY DEF ReceiveRaftHeartBeat, TakesUp
<1>3. l[2] \in Server /\ term[l[2]] \in 0..MaxTerm
  BY <1>1 DEF Typed, Link
<1>4. Typed' /\ Aside' /\ GrantsOnce'
  BY <1>1, <1>2 DEF Typed, Aside, GrantsOnce, Once
<1>5. \A k \in Link : Says(k)' \subseteq Says(k)
  BY <1>2 DEF Says, SaysIn
<1>6. CASE StepsDown(l[2], t)
  <2>1. handled' = handled \cup {[link |-> l, seen |-> term[l[2]]]} /\ mail' = mail
    BY <1>6 DEF ReceiveRaftHeartBeat
  <2>2. HandlersOwn' /\ HandledFresh'
    BY <1>1, <1>2, <1>3, <1>6, <2>1, HandledBegins
  <2>3. Channels' /\ \A k \in Link : Asks(k)' \subseteq Asks(k)
    BY <1>1, <1>2, <2>1 DEF Channels, Asks, AsksIn
  <2>4. Core'
    BY <1>1, <1>2, <1>5, <2>3, QuietCore
  <2> QED BY <1>4, <2>2, <2>3, <2>4, Parts
<1>7. CASE ~StepsDown(l[2], t)
  <2>1. mail' = [mail EXCEPT ![l] = Tail(@)] /\ handled' = handled
    BY <1>7 DEF ReceiveRaftHeartBeat
  <2>2. /\ mail' \in [Link -> Seq(Request)]
        /\ \A k \in Link : Asks(k)' \subseteq Asks(k) /\ (k # l => mail'[k] = mail[k])
    BY <1>1, <1>2, <2>1, MailTaken
  <2>3. Channels'
    BY <1>1, <1>2, <2>2 DEF Channels
  <2>4. HandlersOwn' /\ HandledFresh'
    <3>1. \A h \in handled : h.link # l /\ h.link \in Link /\ mail[h.link] # <<>>
      BY <1>1, <1>2 DEF InHand, HandlersOwn, Handler
    <3> QED BY <1>1, <1>2, <2>1, <2>2, <3>1, HandledStay
  <2>5. Core'
    BY <1>1, <1>2, <1>5, <2>2, QuietCore
  <2> QED BY <1>4, <2>3, <2>4, <2>5, Parts
<1> QED BY <1>6, <1>7

\* What the second step of a handler leaves of the connections and of the
\* other requests in hand.
LEMMA HandlerEnds ==
    ASSUME Typed, Channels, HandlersOwn, HandledFresh, NEW h \in handled,
           handled' = handled \ {h}, mail' = [mail EXCEPT ![h.link] = Tail(@)],
           \A c \in Server \ {h.link[2]} : term'[c] = term[c] /\ role'[c] = role[c]
    PROVE  /\ mail' \in [Link -> Seq(Request)] /\ HandlersOwn' /\ HandledFresh'
           /\ \A k \in Link : Asks(k)' \subseteq Asks(k)
<1>1. h.link \in Link /\ mail[h.link] # <<>> /\ InHand(h.link[2]) = {h}
  BY DEF HandlersOwn, Handler
<1>2. /\ mail' \in [Link -> Seq(Request)]
      /\ \A k \in Link : Asks(k)' \subseteq Asks(k) /\ (k # h.link => mail'[k] = mail[k])
  BY <1>1, MailTaken
<1>3. \A g \in handled' : /\ g.link \in Link /\ g.link[2] \in Server /\ mail[g.link] # <<>>
                          /\ g.link[2] # h.link[2]
  BY <1>1 DEF HandlersOwn, Handler, InHand, Link
<1>4. HandlersOwn' /\ HandledFresh'
  BY <1>2, <1>3, HandledStay
<1> QED BY <1>2, <1>4

LEMMA GrantKeeps ==
    ASSUME IInv, NEW h \in handled, GrantVote(h)
    PROVE  IInv'
<1> DEFINE l == h.link
           s == l[2]
           t == Head(mail[l]).term
           a == [granted |-> TRUE, term |-> t]
<1>1. Typed /\ Aside /\ Channels /\ HandlersOwn /\ HandledFresh /\ GrantsOnce /\ Core
  BY Parts
<1>2. /\ Head(mail[l]).type = "vote" /\ handled' = handled \ {h}
      /\ mail' = [mail EXCEPT ![l] = Tail(@)]
      /\ answers' = [answers EXCEPT ![l] = Append(@, a)]
      /\ votes' = votes \cup {Cast(s, l[1], t)}
      /\ UNCHANGED <<role, voteNum, cps, started, up, faults, elected>>
  BY DEF GrantVote, Cast
<1>3. /\ l \in Link /\ mail[l] # <<>> /\ s \in Server /\ l[1] \in Server
      /\ h.seen = term[s] /\ t > term[s]
  BY <1>1, <1>2 DEF HandlersOwn, Handler, HandledFresh, Grants, Link
<1>4. t \in 0..MaxTerm /\ t \in Asks(l)
  BY <1>1, <1>2, <1>3, HeadIsRequest
<1>5. term' = [term EXCEPT ![s] = t]
  BY <1>3 DEF GrantVote, Written
<1>6. a \in Answer /\ a.term = t /\ a.granted
  BY <1>4 DEF Answer
<1>7. t \notin Says(l)
  <2>1. \A x \in votes : x.voter = s => x.term < t
    BY <1>1, <1>3, <1>4, AskedIsNew
  <2>2. t \in Says(l) => Cast(s, l[1], t) \in votes
    BY <1>1, <1>3 DEF Core, SaysVoted
  <2>3. Cast(s, l[1], t).voter = s /\ Cast(s, l[1], t).term = t /\ ~(t < t)
    BY <1>4, VoteAssumption DEF Cast
  <2> QED BY <2>1, <2>2, <2>3
<1> HIDE DEF l, s, t, a
<1>8. /\ answers' \in [Link -> Seq(Answer)] /\ GrantsOnce'
      /\ \A k \in Link : Says(k)' \subseteq Says(k) \cup {u \in {t} : k = l}
  BY <1>1, <1>2, <1>3, <1>6, <1>7, AnswerSent
<1>9. /\ mail' \in [Link -> Seq(Request)] /\ HandlersOwn' /\ HandledFresh'
      /\ \A k \in Link : Asks(k)' \subseteq Asks(k)
  BY <1>1, <1>2, <1>5, HandlerEnds DEF l, s, Typed
<1>10. Typed'
  BY <1>1, <1>2, <1>3, <1>4, <1>5 DEF Typed, Cast, Vote
<1>11. Aside' /\ Channels'
  BY <1>1, <1>2, <1>8, <1>9 DEF Aside, Channels
<1>12. Core'
  <2>1. /\ l[2] = s /\ t > term[l[2]] /\ term' = [term EXCEPT ![l[2]] = t]
        /\ votes' = votes \cup {Cast(l[2], l[1], t)} /\ UNCHANGED <<role, voteNum, elected>>
    BY <1>2, <1>3, <1>5 DEF s
  <2>2. \A k \in Link : /\ Asks(k)' \subseteq Asks(k)
                        /\ Says(k)' \subseteq Says(k) \cup {u \in {t} : k = l}
    BY <1>8, <1>9
  <2> QED BY <1>1, <1>3, <1>4, <2>1, <2>2, GrantCore
<1> QED BY <1>8, <1>9, <1>10, <1>11, <1>12, Parts

LEMMA StepDownKeeps ==
    ASSUME IInv, NEW h \in handled, StepDown(h)
    PROVE  IInv'
<1> DEFINE l == h.link
           s == l[2]
           t == Head(mail[l]).term
<1>1. Typed /\ Aside /\ Channels /\ HandlersOwn /\ HandledFresh /\ GrantsOnce /\ Core
  BY Parts
<1>2. /\ Head(mail[l]).type = "heartbeat" /\ handled' = handled \ {h}
      /\ mail' = [mail EXCEPT ![l] = Tail(@)]
      /\ UNCHANGED <<cps, started, up, answers, faults, votes, elected>>
  BY DEF StepDown
<1>3. /\ l \in Link /\ mail[l] # <<>> /\ s \in Server /\ h.seen = term[s]
      /\ StepsDown(s, t) /\ term[s] \in 0..MaxTerm /\ MaxTerm \in Nat
  BY <1>1, <1>2, VoteAssumption DEF HandlersOwn, Handler, HandledFresh, Link, Typed
<1>4. t \in 0..MaxTerm
  BY <1>1, <1>3, HeadIsRequest
<1>5. role' = [role EXCEPT ![s] = "follower"]
  BY <1>3 DEF StepDown, Written
<1>6. PICK v \in 0..MaxTerm :
         /\ v >= term[s] /\ term' = [term EXCEPT ![s] = v]
         /\ voteNum' = voteNum \/ voteNum' = [voteNum EXCEPT ![s] = 0]
  <2>1. CASE role[s] = "candidate"
    <3>1. t >= term[s]
      BY <1>3, <1>4, <2>1 DEF StepsDown
    <3>2. term' = [term EXCEPT ![s] = t] /\ voteNum' = [voteNum EXCEPT ![s] = 0]
      BY <1>3, <2>1 DEF StepDown, Written
    <3> QED BY <1>4, <3>1, <3>2
  <2>2. CASE role[s] # "candidate"
    <3>1. term' = term /\ voteNum' = voteNum
      BY <2>2 DEF StepDown
    <3>2. term' = [term EXCEPT ![s] = term[s]]
      BY <1>1, <3>1 DEF Typed
    <3>3. term[s] >= term[s]
      BY <1>3
    <3> HIDE DEF s
    <3> QED BY <1>3, <3>1, <3>2, <3>3
  <2> QED BY <2>1, <2>2
<1> HIDE DEF l, s, t
<1>7. /\ mail' \in [Link -> Seq(Request)] /\ HandlersOwn' /\ HandledFresh'
      /\ \A k \in Link : Asks(k)' \subseteq Asks(k)
  BY <1>1, <1>2, <1>5, <1>6, HandlerEnds DEF l, s, Typed
<1>8. Typed'
  <2>1. /\ voteNum \in [Server -> 0..Kafka] /\ 0 \in 0..Kafka
        /\ role' \in [Server -> Roles] /\ term' \in [Server -> 0..MaxTerm]
    BY <1>1, <1>3, <1>5, <1>6, KafkaIsMajority DEF Typed, Roles
  <2>2. voteNum' \in [Server -> 0..Kafka]
    BY <1>6, <2>1
  <2> QED BY <1>1, <1>2, <2>1, <2>2 DEF Typed
<1>9. Aside' /\ Channels' /\ GrantsOnce'
  BY <1>1, <1>2, <1>7 DEF Aside, Channels, GrantsOnce, Once
<1>10. \A k \in Link : Says(k)' \subseteq Says(k)
  BY <1>2 DEF Says, SaysIn
<1>11. \A c \in Server \ {s} : voteNum'[c] = voteNum[c]
  BY <1>1, <1>6 DEF Typed
<1>12. Core'
  BY <1>1, <1>2, <1>3, <1>5, <1>6, <1>7, <1>10, <1>11, StepDownCore
<1> QED BY <1>7, <1>8, <1>9, <1>12, Parts

LEMMA ErrorKeeps ==
    ASSUME IInv, NEW l \in Link, OnNetworkError(l)
    PROVE  IInv'
<1>1. Typed /\ Aside /\ Channels /\ HandlersOwn /\ HandledFresh /\ GrantsOnce /\ Core
  BY Parts
<1>2. /\ up' = up \ {l} /\ faults < MaxFault /\ faults' = faults + 1 /\ Idle({l})
      /\ mail' = Cleared(mail, {l}) /\ answers' = Cleared(answers, {l})
      /\ UNCHANGED <<role, term, voteNum, cps, started, handled, votes, elected>>
  BY DEF OnNetworkError
<1>3. /\ Channels' /\ GrantsOnce'
      /\ \A k \in Link : /\ Asks(k)' \subseteq Asks(k) /\ Says(k)' \subseteq Says(k)
                         /\ k \notin {l} => mail'[k] = mail[k]
  BY <1>1, <1>2, ChannelsCleared
<1>4. Typed' /\ Aside'
  BY <1>1, <1>2, VoteAssumption DEF Typed, Aside
<1>5. HandlersOwn' /\ HandledFresh'
  <2>1. \A h \in handled : mail'[h.link] = mail[h.link] /\ mail[h.link] # <<>>
    BY <1>1, <1>2, <1>3 DEF Idle, HandlersOwn, Handler
  <2> QED BY <1>1, <1>2, <2>1, HandledStay
<1>6. Core'
  BY <1>1, <1>2, <1>3, QuietCore
<1> QED BY <1>3, <1>4, <1>5, <1>6, Parts

LEMMA ConnectKeeps ==
    ASSUME IInv, NEW l \in Link, OnConnectedNodify(l)
    PROVE  IInv'
<1>1. Typed /\ Aside /\ Channels /\ HandlersOwn /\ HandledFresh /\ GrantsOnce /\ Core
  BY Parts
<1>2. /\ up' = up \cup {l} /\ started' = [started EXCEPT ![l[1]] = TRUE]
      /\ UNCHANGED <<role, term, voteNum, cps, mail, answers, handled, faults, votes, elected>>
  BY DEF OnConnectedNodify
<1>3. Typed' /\ Aside' /\ Channels' /\ GrantsOnce'
  BY <1>1, <1>2 DEF Typed, Aside, Channels, GrantsOnce, Once
<1>4. HandlersOwn' /\ HandledFresh'
  BY <1>1, <1>2, HandledStay DEF HandlersOwn
<1>5. \A k \in Link : Asks(k)' \subseteq Asks(k) /\ Says(k)' \subseteq Says(k)
  BY <1>2 DEF Asks, AsksIn, Says, SaysIn
<1>6. Core'
  BY <1>1, <1>2, <1>5, QuietCore
<1> QED BY <1>3, <1>4, <1>6, Parts

LEMMA RestartKeeps ==
    ASSUME IInv, Protected, NEW s \in Server, OnInit(s)
    PROVE  IInv'
<1> DEFINE links == {l \in Link : s \in {l[1], l[2]}}
<1>1. Typed /\ Aside /\ Channels /\ HandlersOwn /\ HandledFresh /\ GrantsOnce /\ Core
  BY Parts
<1>2. /\ faults < MaxFault /\ faults' = faults + 1 /\ Idle(links)
      /\ \A x \in Server : ~(term[x] < term[s])
      /\ role' = [role EXCEPT ![s] = "follower"] /\ term' = [term EXCEPT ![s] = 0]
      /\ voteNum' = [voteNum EXCEPT ![s] = 0] /\ cps' = [cps EXCEPT ![s] = "follower"]
      /\ started' = [started EXCEPT ![s] = FALSE] /\ up' = up \ links
      /\ mail' = Cleared(mail, links) /\ answers' = Cleared(answers, links)
      /\ UNCHANGED <<handled, votes, elected>>
  BY DEF OnInit, Protected
<1>3. \A l \in Link : l[2] = s \/ l[1] = s <=> l \in links
  OBVIOUS
<1> HIDE DEF links
<1>4. /\ Channels' /\ GrantsOnce'
      /\ \A l \in Link : /\ Asks(l)' \subseteq Asks(l) /\ Says(l)' \subseteq Says(l)
                         /\ l \in links => Asks(l)' = {}
                         /\ l \notin links => mail'[l] = mail[l]
  BY <1>1, <1>2, ChannelsCleared
<1>5. Typed' /\ Aside'
  BY <1>1, <1>2, VoteAssumption, KafkaIsMajority DEF Typed, Aside, Roles
<1>6. HandlersOwn' /\ HandledFresh'
  <2>1. \A h \in handled : /\ mail'[h.link] = mail[h.link] /\ mail[h.link] # <<>>
                           /\ h.link[2] # s /\ h.link[2] \in Server
    BY <1>1, <1>2, <1>3, <1>4 DEF Idle, HandlersOwn, Handler, Link
  <2> QED BY <1>1, <1>2, <2>1, HandledStay DEF Typed
<1>7. \A x \in Server : term[x] >= term[s]
  BY <1>1, <1>2, VoteAssumption DEF Typed
<1>8. Core'
  BY <1>1, <1>2, <1>3, <1>4, <1>7, RestartCore
<1> QED BY <1>4, <1>5, <1>6, <1>8, Parts

LEMMA InitKeeps == Init => IInv
<1> SUFFICES ASSUME Init PROVE IInv
  OBVIOUS
<1>1. \A l \in Link : mail[l] = <<>> /\ answers[l] = <<>>
  BY DEF Init
<1>2. \A l \in Link : Asks(l) = {} /\ Says(l) = {} /\ Once(answers[l])
  BY <1>1 DEF Asks, AsksIn, Says, SaysIn, Once
<1>3. Typed /\ Aside
  BY VoteAssumption, KafkaIsMajority DEF Init, Typed, Aside, Roles
<1>4. Channels /\ HandlersOwn /\ HandledFresh /\ GrantsOnce
  BY <1>2 DEF Init, Channels, HandlersOwn, HandledFresh, GrantsOnce
<1>5. VotesAsked /\ AsksVoted /\ SaysVoted /\ OthersReached /\ AskedLater /\ OneGrant
  BY <1>2 DEF Init, VotesAsked, AsksVoted, SaysVoted, OthersReached, AskedLater, OneGrant
<1>6. GetsNoOther /\ Backed /\ Undecided /\ LeaderHasMajority
  BY DEF Init, GetsNoOther, Both, Backed, Undecided, LeaderHasMajority
<1> QED BY <1>3, <1>4, <1>5, <1>6, Parts DEF Core

LEMMA StutterKeeps == IInv /\ UNCHANGED vars => IInv'
<1> SUFFICES ASSUME IInv, UNCHANGED vars PROVE IInv'
  OBVIOUS
<1>1. Typed /\ Aside /\ Channels /\ HandlersOwn /\ HandledFresh /\ GrantsOnce /\ Core
  BY Parts
<1>2. UNCHANGED <<role, term, voteNum, cps, started, up, mail, answers, handled, faults,
                  votes, elected>>
  BY DEF vars
<1>3. (Typed /\ Aside /\ Channels /\ GrantsOnce)'
  BY <1>1, <1>2 DEF Typed, Aside, Channels, GrantsOnce, Once
<1>4. HandlersOwn' /\ HandledFresh'
  BY <1>1, <1>2, HandledStay DEF HandlersOwn
<1>5. \A k \in Link : Asks(k)' \subseteq Asks(k) /\ Says(k)' \subseteq Says(k)
  BY <1>2 DEF Asks, AsksIn, Says, SaysIn
<1>6. Core'
  BY <1>1, <1>2, <1>5, QuietCore
<1> QED BY <1>3, <1>4, <1>6, Parts

\* The invariant is inductive: every step of every server keeps it.
THEOREM StepKeeps == Protected /\ IInv /\ [Next]_vars => IInv'
<1> SUFFICES ASSUME Protected, IInv, [Next]_vars PROVE IInv'
  OBVIOUS
<1>1. CASE \E s \in Server : RaftVoteTimeOut(s) \/ RaftHeartBeatTimeOut(s) \/ OnInit(s)
  BY <1>1, TimerKeeps, HeartBeatKeeps, RestartKeeps
<1>2. CASE \E l \in Link : \/ ReceiveVoteReq(l) \/ ReceiveVoteRsp(l)
                           \/ ReceiveRaftHeartBeat(l)
                           \/ OnNetworkError(l) \/ OnConnectedNodify(l)
  BY <1>2, VoteReqKeeps, VoteRspKeeps, HeartBeatReqKeeps, ErrorKeeps, ConnectKeeps
<1>3. CASE \E h \in handled : GrantVote(h)
  BY <1>3, GrantKeeps
<1>4. CASE \E h \in handled : StepDown(h)
  BY <1>4, StepDownKeeps
<1>5. CASE UNCHANGED vars
  BY <1>5, StutterKeeps
<1> QED BY <1>1, <1>2, <1>3, <1>4, <1>5 DEF Next

THEOREM VoteInvariant == Protected /\ Spec => []IInv
<1> SUFFICES ASSUME Protected PROVE Spec => []IInv
  OBVIOUS
<1> QED BY InitKeeps, StepKeeps, PTL DEF Spec
-----------------------------------------------------------------------------
(* What the checked properties follow from. *)

\* A leader that also voted for another in its term has no votes but its own.
LEMMA BothNeverLead ==
    ASSUME Core, NEW s \in Server, NEW t \in 0..MaxTerm, Both(s, t)
    PROVE  ~(2 * Cardinality(Voters(s, t)) > Cardinality(Server))
<1>1. Voters(s, t) \in SUBSET {s} /\ {s} \in SUBSET Server
  BY DEF Core, GetsNoOther, Voters
<1>2. Cardinality(Voters(s, t)) <= Cardinality({s}) /\ Cardinality({s}) = 1
  BY <1>1, ServerSets, FS_Singleton
<1>3. Cardinality(Voters(s, t)) \in Nat /\ Cardinality(Server) \in Nat
  BY VoteAssumption, VotersAreServers, FS_CardinalityType
<1> QED BY <1>2, <1>3, VoteAssumption

LEMMA SafetyFollows == IInv => ElectionSafety
<1> SUFFICES ASSUME IInv, NEW e \in elected, NEW f \in elected, e[2] = f[2], e[1] # f[1]
             PROVE  FALSE
  BY DEF ElectionSafety
<1> DEFINE p == e[1]
           q == f[1]
           t == e[2]
<1>1. Typed /\ Core
  BY Parts
<1>2. p \in Server /\ q \in Server /\ t \in 0..MaxTerm /\ p # q
  BY <1>1 DEF Typed
<1>3. /\ 2 * Cardinality(Voters(p, t)) > Cardinality(Server)
      /\ 2 * Cardinality(Voters(q, t)) > Cardinality(Server)
  BY <1>1 DEF Core, LeaderHasMajority
<1> HIDE DEF p, q, t
<1>4. Voters(p, t) \in SUBSET Server /\ Voters(q, t) \in SUBSET Server
  BY DEF Voters
<1>5. PICK v : v \in Voters(p, t) \cap Voters(q, t)
  BY <1>3, <1>4, VoteAssumption, MajoritiesMeet
<1>6. v \in Server /\ Cast(v, p, t) \in votes /\ Cast(v, q, t) \in votes
  BY <1>5 DEF Voters, Cast
<1>7. v = p \/ v = q
  BY <1>1, <1>2, <1>6 DEF Core, OneGrant, Cast
<1>8. Both(v, t)
  BY <1>2, <1>6, <1>7 DEF Both, Cast
<1> QED BY <1>1, <1>2, <1>3, <1>7, <1>8, BothNeverLead

\* Every variable keeps its type, and a server has at most one request in hand,
\* which stays at the head of its connection (CRaftVoteCpsCpasReq).
THEOREM TypeCorrect == Protected /\ Spec => []TypeOK
<1> SUFFICES ASSUME Protected PROVE Spec => []TypeOK
  OBVIOUS
<1>1. IInv => TypeOK
  BY DEF IInv
<1> QED BY <1>1, VoteInvariant, PTL

\* No two servers ever become leader in the same term, whatever the number of
\* servers, although a restarted one may vote twice (GetRaftVoteRsp).
THEOREM ElectionSafe == Protected /\ Spec => []ElectionSafety
<1> SUFFICES ASSUME Protected PROVE Spec => []ElectionSafety
  OBVIOUS
<1> QED BY SafetyFollows, VoteInvariant, PTL

\* A leader has the votes of a majority in the very term it leads, although
\* answers carry no term (OnHtsMsg of CRaftVoteCpsCpasRsp).
THEOREM LeaderMajority == Protected /\ Spec => []LeaderHasMajority
<1> SUFFICES ASSUME Protected PROVE Spec => []LeaderHasMajority
  OBVIOUS
<1>1. IInv => LeaderHasMajority
  BY DEF IInv, Core
<1> QED BY <1>1, VoteInvariant, PTL
=============================================================================
