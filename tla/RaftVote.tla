------------------------------ MODULE RaftVote ------------------------------
(***************************************************************************)
(* How the order nodes of a channel elect the one that packs blocks: the   *)
(* vote, heartbeat and timeout handlers of CChannelProcessAgentService,    *)
(* and what they make of the CChannelProcessService beside it.             *)
(*                                                                         *)
(* Every server's agent holds a client connection to each other server; a  *)
(* connection is FIFO both ways and loses messages only by breaking.  A    *)
(* timer may fire whenever it is armed.  An answer carries the term of its *)
(* request as history: the code sends none and reads none.                 *)
(*                                                                         *)
(* Two threads share a server's vote state.  Timers and answers come on    *)
(* the agent's, requests and heartbeats on that of the CPS: there a        *)
(* handler that changes the state is two steps, of which the first         *)
(* compares the term and the second writes.                                *)
(***************************************************************************)
EXTENDS Naturals, Sequences, FiniteSets

CONSTANTS Server,     \* the order nodes of one channel, CPS_CFG_LIST
          MaxTerm,    \* bound: no candidacy above this term
          MaxFault,   \* bound: broken connections and restarts
          MaxMail,    \* bound: messages one connection holds each way
          Exposed     \* the events the vote has no defence against

ASSUME VoteAssumption ==
    /\ IsFiniteSet(Server) /\ Cardinality(Server) > 1
    /\ MaxTerm \in Nat /\ MaxFault \in Nat /\ MaxMail \in Nat
    /\ Exposed \subseteq {"staleVote", "restartAhead", "threads"}

VARIABLES
    role,      \* m_voteState
    term,      \* m_raftVoteInfo.m_nTerm
    voteNum,   \* m_raftVoteInfo.m_nVoteNum
    cps,       \* does the CPS beside the agent act as master
    started,   \* m_startTimerFlag, set by the first connection
    up,        \* pairs <<client, server>> whose connection is up
    mail,      \* what is under way from client to server
    answers,   \* what is under way back
    handled,   \* [link, seen]: the head of that link's mail was compared with
               \* the term seen, and its handler has yet to write
    faults,    \* connections broken and servers restarted so far
    votes,     \* history: who granted whom in which term
    elected    \* history: who became leader in which term

vars == <<role, term, voteNum, cps, started, up, mail, answers, handled, faults, votes,
          elected>>

Roles == {"follower", "candidate", "leader"}
Link  == {l \in Server \X Server : l[1] # l[2]}

\* m_nKafkaValue.
Kafka == Cardinality(Server) \div 2 + 1

Request == [type : {"vote", "heartbeat"}, term : 0..MaxTerm]
Answer  == [granted : BOOLEAN, term : 0..MaxTerm]
Handler == [link : Link, seen : 0..MaxTerm]
Vote    == [voter : Server, for : Server, term : 0..MaxTerm]

Voters(s, t) == {v \in Server : [voter |-> v, for |-> s, term |-> t] \in votes}

Init ==
    /\ role = [s \in Server |-> "follower"]
    /\ term = [s \in Server |-> 0]
    /\ voteNum = [s \in Server |-> 0]
    /\ cps = [s \in Server |-> "follower"]
    /\ started = [s \in Server |-> TRUE]
    /\ up = Link
    /\ mail = [l \in Link |-> <<>>] /\ answers = [l \in Link |-> <<>>]
    /\ handled = {} /\ faults = 0
    /\ votes = {} /\ elected = {}
-----------------------------------------------------------------------------
\* The requests s has compared with its term.
InHand(s) == {h \in handled : h.link[2] = s}

\* s sends m over its connections that are up.
Broadcast(s, m) ==
    /\ \A l \in up : l[1] = s => Len(mail[l]) < MaxMail
    /\ mail' = [l \in Link |-> IF l[1] = s /\ l \in up THEN Append(mail[l], m)
                                                      ELSE mail[l]]

\* Mutant: a candidacy in the term the server is in.
RaftVoteTimeOutSameTerm(s) ==
    /\ started[s] /\ role[s] # "leader"
    /\ InHand(s) # {} => "threads" \in Exposed
    /\ term' = [term EXCEPT ![s] = IF @ = 0 THEN 1 ELSE @]
    /\ role' = [role EXCEPT ![s] = "candidate"]
    /\ voteNum' = [voteNum EXCEPT ![s] = 1]
    /\ Broadcast(s, [type |-> "vote", term |-> term'[s]])
    /\ votes' = votes \cup {[voter |-> s, for |-> s, term |-> term'[s]]}
    /\ UNCHANGED <<cps, started, up, answers, handled, faults, elected>>

\* RaftVoteTimeOut: the vote timer of a server that does not lead.
RaftVoteTimeOut(s) ==
    /\ started[s] /\ role[s] # "leader" /\ term[s] < MaxTerm
    /\ InHand(s) # {} => "threads" \in Exposed
    /\ term' = [term EXCEPT ![s] = @ + 1]
    /\ role' = [role EXCEPT ![s] = "candidate"]
    /\ voteNum' = [voteNum EXCEPT ![s] = 1]
    /\ Broadcast(s, [type |-> "vote", term |-> term'[s]])
    /\ votes' = votes \cup {[voter |-> s, for |-> s, term |-> term'[s]]}
    /\ UNCHANGED <<cps, started, up, answers, handled, faults, elected>>

\* RaftHeartBeatTimeOut: a leader's timer.
RaftHeartBeatTimeOut(s) ==
    /\ role[s] = "leader"
    /\ Broadcast(s, [type |-> "heartbeat", term |-> term[s]])
    /\ UNCHANGED <<role, term, voteNum, cps, started, up, answers, handled, faults, votes,
                   elected>>

\* GetRaftVoteRsp: any request of a higher term is granted.
Grants(s, t) == t > term[s]

\* The CPS of l's server takes up the head of l's mail, one message at a time.
TakesUp(l, type) ==
    /\ InHand(l[2]) = {} /\ mail[l] # <<>> /\ Head(mail[l]).type = type

\* CRaftVoteCpsCpasReq: the request is refused, or found to be granted.
ReceiveVoteReq(l) ==
    LET s == l[2]
        t == Head(mail[l]).term
    IN /\ TakesUp(l, "vote") /\ Len(answers[l]) < MaxMail
       /\ IF Grants(s, t)
          THEN /\ handled' = handled \cup {[link |-> l, seen |-> term[s]]}
               /\ UNCHANGED <<mail, answers>>
          ELSE /\ mail' = [mail EXCEPT ![l] = Tail(@)]
               /\ answers' = [answers EXCEPT ![l] =
                                 Append(@, [granted |-> FALSE, term |-> t])]
               /\ UNCHANGED handled
       /\ UNCHANGED <<role, term, voteNum, cps, started, up, faults, votes, elected>>

\* The values x may have when a handler that saw the term h.seen writes v: a
\* timer's write since then may come first or last.
Written(h, v, x) == IF term[h.link[2]] = h.seen THEN {v} ELSE {v, x}

\* A grant takes over the term and nothing else; a candidate or leader that
\* grants keeps its role.
GrantVote(h) ==
    LET l == h.link
        s == l[2]
        t == Head(mail[l]).term
    IN /\ Head(mail[l]).type = "vote"
       /\ handled' = handled \ {h}
       /\ mail' = [mail EXCEPT ![l] = Tail(@)]
       /\ answers' = [answers EXCEPT ![l] = Append(@, [granted |-> TRUE, term |-> t])]
       /\ \E v \in Written(h, t, term[s]) : term' = [term EXCEPT ![s] = v]
       /\ votes' = votes \cup {[voter |-> s, for |-> l[1], term |-> t]}
       /\ UNCHANGED <<role, voteNum, cps, started, up, faults, elected>>

\* Mutant: a leader goes on counting.
CountsForLeader(s, a) == a.granted

\* Mutant: a refusal counts too.
CountsRefusal(s, a) == role[s] = "candidate"

\* An answer that counts: granted, and its receiver is still a candidate.
CountsFor(s, a) == a.granted /\ role[s] = "candidate"

\* Does the next vote make s the leader?
Wins(s) == voteNum[s] + 1 >= Kafka

\* The answer of a vote request.  Neither its term nor its sender is looked
\* at, so a vote for an earlier term counts.
ReceiveVoteRsp(l) ==
    LET s == l[1]
        a == Head(answers[l])
    IN /\ answers[l] # <<>>
       /\ CountsFor(s, a) /\ a.term # term[s] => "staleVote" \in Exposed
       /\ CountsFor(s, a) /\ (\E h \in InHand(s) : Head(mail[h.link]).type = "heartbeat") =>
             "threads" \in Exposed
       /\ answers' = [answers EXCEPT ![l] = Tail(@)]
       /\ voteNum' = [voteNum EXCEPT ![s] = IF CountsFor(s, a) THEN @ + 1 ELSE @]
       /\ IF CountsFor(s, a) /\ Wins(s)
          THEN /\ role' = [role EXCEPT ![s] = "leader"]
               /\ cps'  = [cps  EXCEPT ![s] = "master"]
               /\ elected' = elected \cup {<<s, term[s]>>}
               /\ Broadcast(s, [type |-> "heartbeat", term |-> term[s]])
          ELSE UNCHANGED <<role, cps, elected, mail>>
       /\ UNCHANGED <<term, started, up, handled, faults, votes>>

\* A candidate gives up for a leader of its term, a leader for a later one.
StepsDown(s, t) == \/ t >= term[s] /\ role[s] = "candidate"
                   \/ t >  term[s] /\ role[s] = "leader"

\* ReceiveRaftHeartBeat.  An older heartbeat is ignored, a follower only sets
\* its timer back, and a leader ignores its own term; or the server is found
\* to step down.
ReceiveRaftHeartBeat(l) ==
    /\ TakesUp(l, "heartbeat")
    /\ IF StepsDown(l[2], Head(mail[l]).term)
       THEN /\ handled' = handled \cup {[link |-> l, seen |-> term[l[2]]]}
            /\ UNCHANGED mail
       ELSE /\ mail' = [mail EXCEPT ![l] = Tail(@)]
            /\ UNCHANGED handled
    /\ UNCHANGED <<role, term, voteNum, cps, started, up, answers, faults, votes, elected>>

\* A candidate gives up and takes over the term; a leader keeps its own, and
\* ChangeCpsToFollowerState compares the state of the CPS with
\* EN_FOLLOWER_STATE where it means to assign it.
StepDown(h) ==
    LET l == h.link
        s == l[2]
        t == Head(mail[l]).term
    IN /\ Head(mail[l]).type = "heartbeat"
       /\ handled' = handled \ {h}
       /\ mail' = [mail EXCEPT ![l] = Tail(@)]
       /\ \E r \in Written(h, "follower", role[s]) : role' = [role EXCEPT ![s] = r]
       /\ IF role[s] = "candidate"
          THEN /\ \E v \in Written(h, t, term[s]) : term' = [term EXCEPT ![s] = v]
               /\ \E n \in Written(h, 0, voteNum[s]) : voteNum' = [voteNum EXCEPT ![s] = n]
          ELSE UNCHANGED <<term, voteNum>>
       /\ UNCHANGED <<cps, started, up, answers, faults, votes, elected>>
-----------------------------------------------------------------------------
(* Faults *)

Cleared(channel, links) ==
    [l \in Link |-> IF l \in links THEN <<>> ELSE channel[l]]

\* What breaks or dies during a handler does so as well before or after it.
Idle(links) == \A h \in handled : h.link \notin links

\* A connection breaks: OnNetworkError clears the handle state.
OnNetworkError(l) ==
    /\ l \in up /\ faults < MaxFault /\ Idle({l})
    /\ up' = up \ {l}
    /\ mail' = Cleared(mail, {l}) /\ answers' = Cleared(answers, {l})
    /\ faults' = faults + 1
    /\ UNCHANGED <<role, term, voteNum, cps, started, handled, votes, elected>>

\* The client connects again; its first connection starts the vote timer.
OnConnectedNodify(l) ==
    /\ l \notin up
    /\ up' = up \cup {l}
    /\ started' = [started EXCEPT ![l[1]] = TRUE]
    /\ UNCHANGED <<role, term, voteNum, cps, mail, answers, handled, faults, votes, elected>>

\* A server restarts.  Term and votes are kept in memory only: a server that
\* was ahead of another may vote again in a term it voted in.
OnInit(s) ==
    LET links == {l \in Link : s \in {l[1], l[2]}}
    IN /\ faults < MaxFault /\ Idle(links)
       /\ (\E x \in Server : term[x] < term[s]) => "restartAhead" \in Exposed
       /\ role' = [role EXCEPT ![s] = "follower"]
       /\ term' = [term EXCEPT ![s] = 0]
       /\ voteNum' = [voteNum EXCEPT ![s] = 0]
       /\ cps' = [cps EXCEPT ![s] = "follower"]
       /\ started' = [started EXCEPT ![s] = FALSE]
       /\ up' = up \ links
       /\ mail' = Cleared(mail, links) /\ answers' = Cleared(answers, links)
       /\ faults' = faults + 1
       /\ UNCHANGED <<handled, votes, elected>>

Next ==
    \/ \E s \in Server : RaftVoteTimeOut(s) \/ RaftHeartBeatTimeOut(s) \/ OnInit(s)
    \/ \E l \in Link : \/ ReceiveVoteReq(l) \/ ReceiveVoteRsp(l)
                       \/ ReceiveRaftHeartBeat(l)
                       \/ OnNetworkError(l) \/ OnConnectedNodify(l)
    \/ \E h \in handled : GrantVote(h)
    \/ \E h \in handled : StepDown(h)

Spec == Init /\ [][Next]_vars
-----------------------------------------------------------------------------
TypeOK ==
    /\ role \in [Server -> Roles]
    /\ term \in [Server -> 0..MaxTerm]
    /\ voteNum \in [Server -> 0..Kafka]
    /\ cps \in [Server -> {"follower", "master"}]
    /\ started \in [Server -> BOOLEAN]
    /\ up \subseteq Link
    /\ mail \in [Link -> Seq(Request)] /\ answers \in [Link -> Seq(Answer)]
    /\ handled \subseteq Handler
    /\ \A h \in handled : InHand(h.link[2]) = {h} /\ mail[h.link] # <<>>
    /\ faults \in 0..MaxFault
    /\ votes \subseteq Vote
    /\ elected \subseteq Server \X (0..MaxTerm)

\* No two servers ever become leader in the same term: each would pack blocks
\* of its own (OnHtsMsg of CRaftVoteCpsCpasRsp, GetRaftVoteRsp).
ElectionSafety == \A e, f \in elected : e[2] = f[2] => e[1] = f[1]

\* A leader was voted for by a majority of the servers in the very term it
\* leads: "Receive votes from majority of servers, become leader".
LeaderHasMajority ==
    \A e \in elected : 2 * Cardinality(Voters(e[1], e[2])) > Cardinality(Server)

\* A server whose agent stopped leading does not go on as master:
\* ReceiveRaftHeartBeat switches its CPS to the follower state.
MasterLeads == \A s \in Server : cps[s] = "master" => role[s] = "leader"
=============================================================================
