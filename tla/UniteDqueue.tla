---------------------------- MODULE UniteDqueue ----------------------------
(***************************************************************************)
(* CVbhUniteDqueue: a double-ended queue whose links are members of its    *)
(* nodes.  A queue is a record of the two ends and of the links of all     *)
(* nodes; every operation is a function of the queue.  Each holds the      *)
(* order of its assignments: a node that is pushed twice, or inserted      *)
(* before itself, breaks the links as it does in the code.                 *)
(***************************************************************************)
EXTENDS Integers, Sequences, FiniteSets

CONSTANTS Nodes, \* the objects that carry the links
          NULL   \* no node

Links == Nodes \cup {NULL}

\* The queue as its constructor leaves it, around nodes that are in no queue.
EmptyDqueue ==
  [front |-> NULL, back |-> NULL,
   prev |-> [n \in Nodes |-> NULL], next |-> [n \in Nodes |-> NULL]]

DqueueType ==
  [front : Links, back : Links, prev : [Nodes -> Links], next : [Nodes -> Links]]

Unlink(q, n) == [q EXCEPT !.prev[n] = NULL, !.next[n] = NULL]

\* The only node of a queue that was empty.
Alone(q, n) == [Unlink(q, n) EXCEPT !.front = n, !.back = n]

PushFront(q, n) ==
  IF q.front = NULL
  THEN Alone(q, n)
  ELSE [q EXCEPT !.prev = [@ EXCEPT ![n] = NULL, ![q.front] = n],
                 !.next[n] = q.front, !.front = n]

PushBack(q, n) ==
  IF q.back = NULL
  THEN Alone(q, n)
  ELSE [q EXCEPT !.next = [@ EXCEPT ![n] = NULL, ![q.back] = n],
                 !.prev[n] = q.back, !.back = n]

\* The queue without its first node; the node is q.front.
PopFront(q) ==
  IF q.front = NULL
  THEN q
  ELSE LET second == q.next[q.front]
           rest == IF second = NULL THEN [q EXCEPT !.back = NULL]
                                    ELSE [q EXCEPT !.prev[second] = NULL]
       IN  [Unlink(rest, q.front) EXCEPT !.front = second]

PopBack(q) ==
  IF q.back = NULL
  THEN q
  ELSE LET last == q.prev[q.back]
           rest == IF last = NULL THEN [q EXCEPT !.front = NULL]
                                  ELSE [q EXCEPT !.next[last] = NULL]
       IN  [Unlink(rest, q.back) EXCEPT !.back = last]

\* Insert puts n before the node o of the queue.
Insert(q, n, o) ==
  IF q.front = o
  THEN PushFront(q, n)
  ELSE [q EXCEPT !.next = [@ EXCEPT ![n] = o, ![q.prev[o]] = n],
                 !.prev = [@ EXCEPT ![n] = q.prev[o], ![o] = n]]

\* Erase tells by the links of n which end of the queue it is.
Erase(q, n) ==
  LET before == q.prev[n]
      after  == q.next[n]
  IN  CASE before # NULL /\ after # NULL ->
             Unlink([q EXCEPT !.next[before] = after, !.prev[after] = before], n)
        [] before # NULL /\ after = NULL ->
             Unlink([q EXCEPT !.back = before, !.next[before] = NULL], n)
        [] before = NULL /\ after # NULL ->
             Unlink([q EXCEPT !.front = after, !.prev[after] = NULL], n)
        [] OTHER ->
             IF q.front = n THEN [q EXCEPT !.front = NULL, !.back = NULL] ELSE q

IsNodeInQueue(q, n) == q.prev[n] # NULL \/ q.next[n] # NULL \/ q.front = n

IsEmpty(q) == q.front = NULL

\* The node that i steps along the forward links lead to.
Walk(q) ==
  LET step[i \in 0..Cardinality(Nodes)] ==
        IF i = 0 THEN q.front
        ELSE IF step[i - 1] = NULL THEN NULL ELSE q.next[step[i - 1]]
  IN  step

\* GetAt(i) of a queue that is not empty; of an empty one it follows a null
\* pointer unless i is 0.
GetAt(q, i) == IF i <= Cardinality(Nodes) THEN Walk(q)[i] ELSE NULL

\* Size() walks the forward links to their end.
Size(q) == Cardinality({i \in 0..Cardinality(Nodes) : Walk(q)[i] # NULL})

\* The nodes in the order a loop over Front() and Next() visits them.
Contents(q) == [i \in 1..Size(q) |-> Walk(q)[i - 1]]
=============================================================================
