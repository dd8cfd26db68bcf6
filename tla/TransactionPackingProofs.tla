---------------------- MODULE TransactionPackingProofs ----------------------
(***************************************************************************)
(* The properties of TransactionPacking for every limit, every set of      *)
(* versions and every number of blocks, as long as no submission brings    *)
(* two transactions when the block has room for one (Exposed = {}).        *)
(*                                                                         *)
(* The inductive invariant says of the persisted block, every queued one   *)
(* and the current one what their transactions make of the block before:   *)
(* Follows.  It also bounds the count of the current block, which is       *)
(* packed before the counter can wrap.                                     *)
(***************************************************************************)
EXTENDS TransactionPacking, WellFoundedInduction, TLAPS

Protected == Exposed = {}

\* The transactions that allocate ids.
News(ts) == {j \in 1..Len(ts) : ts[j].new}

\* After the block b the transactions ts allocate the ids up to last, each
\* once, and leave table.
Follows(b, ts, last, table) ==
    /\ b.last <= last
    /\ UNION {ts[j].ids : j \in News(ts)} = (b.last + 1)..last
    /\ \A j, k \in News(ts) : j # k => ts[j].ids \cap ts[k].ids = {}
    /\ After(b.table, ts) = table

\* Every queued block follows the one before it, the current one the last.
AllFollow ==
    /\ \A i \in 1..Len(queue) :
            Follows(Before(i), queue[i].trans, queue[i].last, queue[i].table)
    /\ Follows(Back, trans, cur.last, view)

\* The header counts the transactions, and a full block is packed at once.
CountKept == count = Len(trans) /\ count < MaxTrans

IInv == TypeOK /\ CountKept /\ ChainLinked /\ AllFollow /\ AckedKept
-----------------------------------------------------------------------------
(* Naturals and maxima *)

\* A count below its width does not wrap.
LEMMA SmallMod ==
  ASSUME NEW m \in Nat, NEW n \in 0..m
  PROVE  n % (m + 1) = n
OBVIOUS

\* A set of naturals that is not empty has a least element.
LEMMA LeastNatural ==
  ASSUME NEW S, S \subseteq Nat, S # {}
  PROVE  \E x \in S : \A y \in S : x <= y
<1> DEFINE R == OpToRel(<, Nat)
<1>1. IsWellFoundedOn(R, Nat)
  BY NatLessThanWellFounded
<1>2. \A x, y \in Nat : x < y => <<x, y>> \in R
  BY DEF OpToRel
<1> HIDE DEF R
<1>3. PICK x \in S : \A y \in S : <<y, x>> \notin R
  BY <1>1, WFMin
<1>4. \A y \in S : x <= y
  <2> SUFFICES ASSUME NEW y \in S PROVE x <= y
    OBVIOUS
  <2>1. x \in Nat /\ y \in Nat /\ ~(y < x)
    BY <1>2, <1>3
  <2> QED
    BY <2>1
<1> QED
  BY <1>4

\* A bounded set of naturals that is not empty has a greatest element.
LEMMA MaxOfBounded ==
  ASSUME NEW n \in Nat, NEW S, S \subseteq 0..n, S # {}
  PROVE  Max(S) \in S /\ \A x \in S : x <= Max(S)
<1> DEFINE T == {n - x : x \in S}
<1>1. T \subseteq Nat
  OBVIOUS
<1>2. T # {}
  <2>1. PICK x \in S : TRUE
    OBVIOUS
  <2>2. n - x \in T
    BY <2>1
  <2> QED
    BY <2>2
<1>3. PICK y \in T : \A z \in T : y <= z
  BY <1>1, <1>2, LeastNatural
<1>4. PICK m \in S : y = n - m
  OBVIOUS
<1>5. \A x \in S : m >= x
  <2> SUFFICES ASSUME NEW x \in S PROVE m >= x
    OBVIOUS
  <2>1. y <= n - x
    BY <1>3
  <2> QED
    BY <1>4, <2>1
<1> QED
  BY <1>5 DEF Max

\* An element that no other exceeds is the maximum.
LEMMA MaxIs ==
  ASSUME NEW S, S \subseteq Nat, NEW m \in S, \A x \in S : x <= m
  PROVE  Max(S) = m
<1>1. \A x \in S : m >= x
  OBVIOUS
<1>2. Max(S) \in S /\ \A x \in S : Max(S) >= x
  BY <1>1 DEF Max
<1>3. Max(S) \in Nat /\ m \in Nat /\ m <= Max(S) /\ Max(S) <= m
  BY <1>2
<1> QED
  BY <1>3
\* A pair is a sequence of one element with another one appended.
LEMMA AppendToOne ==
  ASSUME NEW S, NEW r \in S, NEW t \in S
  PROVE  Append(<<r>>, t) = <<r, t>>
<1>1. \A s \in Seq(S) : s \o <<r, t>> = Append(Append(s, r), t)
  OBVIOUS
<1>2. <<>> \in Seq(S) /\ <<>> \o <<r, t>> = <<r, t>> /\ Append(<<>>, r) = <<r>>
  OBVIOUS
<1> QED
  BY <1>1, <1>2
-----------------------------------------------------------------------------
(* The effect of transactions on the table *)

\* The writers of an id are places in the sequence, the last one among them.
LEMMA LastWriter ==
  ASSUME NEW ts \in Seq(Transaction), NEW id, Writers(ts, id) # {}
  PROVE  /\ Writers(ts, id) \subseteq 1..Len(ts)
         /\ Max(Writers(ts, id)) \in 1..Len(ts)
<1>1. Writers(ts, id) \subseteq 1..Len(ts) /\ Len(ts) \in Nat
  BY DEF Writers
<1>2. Max(Writers(ts, id)) \in Writers(ts, id)
  BY <1>1, MaxOfBounded
<1> QED
  BY <1>1, <1>2

\* Transactions make a table of a table.
LEMMA AfterType ==
  ASSUME NEW table \in Table, NEW ts \in Seq(Transaction)
  PROVE  After(table, ts) \in Table
<1> SUFFICES ASSUME NEW id \in IDs, Writers(ts, id) # {}
             PROVE  ts[Max(Writers(ts, id))].version \in Versions \cup {0}
  BY DEF After, Table
<1>1. Max(Writers(ts, id)) \in 1..Len(ts)
  BY LastWriter
<1>2. ts[Max(Writers(ts, id))] \in Transaction
  BY <1>1
<1> QED
  BY <1>2 DEF Transaction

\* No transaction, no effect.
LEMMA AfterNone ==
  ASSUME NEW table \in Table
  PROVE  After(table, <<>>) = table
BY DEF After, Writers, Table

\* A further transaction writes over the effect of those before it.
LEMMA AfterAppend ==
  ASSUME NEW table \in Table, NEW ts \in Seq(Transaction), NEW t \in Transaction
  PROVE  After(table, Append(ts, t)) =
           [id \in IDs |-> IF id \in t.ids THEN t.version ELSE After(table, ts)[id]]
<1> DEFINE all == Append(ts, t)
           n == Len(ts) + 1
<1>1. /\ all \in Seq(Transaction) /\ DOMAIN all = 1..n /\ all[n] = t
      /\ n \in Nat /\ n \in 1..n /\ DOMAIN ts = 1..(n - 1) /\ \A j \in 1..(n - 1) : all[j] = ts[j]
  OBVIOUS
<1> HIDE DEF all, n
<1> SUFFICES ASSUME NEW id \in IDs
             PROVE  After(table, all)[id] =
                      IF id \in t.ids THEN t.version ELSE After(table, ts)[id]
  BY DEF After, all
<1>2. CASE id \in t.ids
  <2>1. n \in Writers(all, id) /\ \A j \in Writers(all, id) : j \in Nat /\ j <= n
    BY <1>1, <1>2 DEF Writers
  <2>2. Max(Writers(all, id)) = n
    BY <2>1, MaxIs
  <2> QED
    BY <1>1, <1>2, <2>1, <2>2 DEF After
<1>3. CASE id \notin t.ids
  <2>1. Writers(all, id) = Writers(ts, id)
    BY <1>1, <1>3 DEF Writers
  <2>2. CASE Writers(ts, id) = {}
    BY <1>3, <2>1, <2>2 DEF After
  <2>3. CASE Writers(ts, id) # {}
    <3>1. Max(Writers(ts, id)) \in 1..Len(ts)
      BY <2>3, LastWriter
    <3>2. all[Max(Writers(ts, id))] = ts[Max(Writers(ts, id))]
      BY <1>1, <3>1 DEF n
    <3> QED
      BY <1>3, <2>1, <2>3, <3>2 DEF After
  <2> QED
    BY <2>2, <2>3
<1> QED
  BY <1>2, <1>3

\* Applying one transaction to the table after the others is what Append or
\* Update does at a submission.
LEMMA AfterOneMore ==
  ASSUME NEW table \in Table, NEW ts \in Seq(Transaction), NEW t \in Transaction
  PROVE  After(table, Append(ts, t)) = After(After(table, ts), <<t>>)
<1>1. After(table, ts) \in Table
  BY AfterType
<1>2. \A u \in Table, s \in Seq(Transaction) : After(u, Append(s, t)) =
        [id \in IDs |-> IF id \in t.ids THEN t.version ELSE After(u, s)[id]]
  BY AfterAppend
<1>3. After(After(table, ts), <<t>>) =
        [id \in IDs |-> IF id \in t.ids THEN t.version
                        ELSE After(After(table, ts), <<>>)[id]]
  <2>1. <<t>> = Append(<<>>, t) /\ <<>> \in Seq(Transaction)
    OBVIOUS
  <2> QED
    BY <1>1, <1>2, <2>1
<1> QED
  BY <1>1, <1>3, AfterAppend, AfterNone
-----------------------------------------------------------------------------
(* Blocks that follow each other *)

\* With no transaction a block hands on its ids and its table.
LEMMA FollowsNone ==
  ASSUME NEW b, b.last \in Nat, b.table \in Table
  PROVE  Follows(b, <<>>, b.last, b.table)
<1>1. News(<<>>) = {}
  BY DEF News
<1> QED
  BY <1>1, AfterNone DEF Follows

\* Only the ids and the table of the block before count.
LEMMA FollowsSame ==
  ASSUME NEW b, NEW c, c.last = b.last, c.table = b.table,
         NEW ts, NEW last, NEW table, Follows(b, ts, last, table)
  PROVE  Follows(c, ts, last, table)
BY DEF Follows, After

\* A further transaction that allocates the next ids, or none.
LEMMA FollowsAppend ==
  ASSUME NEW b, NEW ts \in Seq(Transaction), NEW last \in Nat, NEW table \in Table,
         b.last \in Nat, b.table \in Table, Follows(b, ts, last, table),
         NEW t \in Transaction, NEW new \in Nat,
         \/ t.new /\ t.ids = (last + 1)..new /\ last <= new
         \/ ~t.new /\ new = last
  PROVE  Follows(b, Append(ts, t), new, After(table, <<t>>))
<1> DEFINE all == Append(ts, t)
           n == Len(ts) + 1
<1>1. /\ n \in Nat /\ 1..Len(all) = (1..Len(ts)) \cup {n} /\ n \notin 1..Len(ts)
      /\ all[n] = t /\ \A j \in 1..Len(ts) : all[j] = ts[j]
  OBVIOUS
<1> HIDE DEF n, all
<1>2. News(all) = News(ts) \cup {j \in {n} : t.new}
  BY <1>1 DEF News
<1>3. /\ n \notin News(ts) /\ News(ts) \subseteq 1..Len(ts)
      /\ \A j \in News(ts) : all[j] = ts[j]
  BY <1>1 DEF News
<1>4. b.last <= new
  BY DEF Follows
<1>5. \A j \in News(ts) : ts[j].ids \subseteq (b.last + 1)..last
  BY DEF Follows
<1>6. CASE t.new
  <2>1. UNION {all[j].ids : j \in News(all)} =
          (UNION {ts[j].ids : j \in News(ts)}) \cup t.ids
    BY <1>1, <1>2, <1>3, <1>6
  <2>2. UNION {all[j].ids : j \in News(all)} = (b.last + 1)..new
    <3>1. b.last <= last /\ UNION {ts[j].ids : j \in News(ts)} = (b.last + 1)..last
      BY DEF Follows
    <3>2. ((b.last + 1)..last) \cup ((last + 1)..new) = (b.last + 1)..new
      BY <1>6, <3>1
    <3> QED
      BY <1>6, <2>1, <3>1, <3>2
  <2>3. \A j \in News(ts) : ts[j].ids \cap t.ids = {}
    BY <1>5, <1>6
  <2>4. ASSUME NEW j \in News(all), NEW k \in News(all), j # k
        PROVE  all[j].ids \cap all[k].ids = {}
    <3>1. CASE j # n /\ k # n
      BY <1>2, <1>3, <2>4, <3>1 DEF Follows
    <3>2. CASE j = n \/ k = n
      BY <1>1, <1>2, <1>3, <2>3, <2>4, <3>2
    <3> QED
      BY <3>1, <3>2
  <2> QED
    BY <1>4, <2>2, <2>4, AfterOneMore DEF Follows, all
<1>7. CASE ~t.new
  <2>1. News(all) = News(ts)
    BY <1>2, <1>7
  <2>2. UNION {all[j].ids : j \in News(all)} = (b.last + 1)..new
    BY <1>3, <1>7, <2>1 DEF Follows
  <2>3. \A j, k \in News(all) : j # k => all[j].ids \cap all[k].ids = {}
    BY <1>3, <2>1 DEF Follows
  <2> QED
    BY <1>4, <2>2, <2>3, AfterOneMore DEF Follows, all
<1> QED
  BY <1>6, <1>7

\* The last block has the fields that the current one continues.
LEMMA BackType ==
  ASSUME TypeOK
  PROVE  /\ Back = Before(Unpacked) /\ Len(queue) \in Nat /\ Unpacked \in Nat
         /\ Back.id \in Nat /\ Back.last \in 0..MaxID /\ Back.last \in Nat
         /\ Back.table \in Table
<1>1. CASE queue = <<>>
  BY <1>1, PackingAssumption DEF TypeOK, Back, Before, Unpacked, Header
<1>2. CASE queue # <<>>
  <2>1. Len(queue) \in 1..Len(queue) /\ Len(queue) + 1 # 1 /\ (Len(queue) + 1) - 1 = Len(queue)
    BY <1>2 DEF TypeOK
  <2>2. Back = queue[Len(queue)] /\ Back = Before(Unpacked)
    BY <1>2, <2>1 DEF Back, Before, Unpacked
  <2>3. queue[Len(queue)] \in Block
    BY <2>1 DEF TypeOK
  <2> QED
    BY <2>1, <2>2, <2>3, PackingAssumption DEF Unpacked, Block
<1> QED
  BY <1>1, <1>2

\* What the invariant says of blocks and ids, as the model states it.
LEMMA Consequences ==
  ASSUME TypeOK, AllFollow
  PROVE  IdsContiguous /\ TableFollowsBlocks
<1>1. ASSUME NEW i \in 1..Unpacked
      PROVE  Follows(Before(i), TransOf(i),
                     IF i = Unpacked THEN cur.last ELSE queue[i].last,
                     IF i = Unpacked THEN view ELSE queue[i].table)
  <2>1. CASE i = Unpacked
    BY <2>1, BackType DEF AllFollow, TransOf
  <2>2. CASE i # Unpacked
    <3>1. i \in 1..Len(queue)
      BY <2>2, BackType DEF Unpacked
    <3> QED
      BY <2>2, <3>1 DEF AllFollow, TransOf
  <2> QED
    BY <2>1, <2>2
<1> QED
  BY <1>1 DEF IdsContiguous, TableFollowsBlocks, Follows, News
-----------------------------------------------------------------------------
(* Steps *)

\* Initially there is the empty block 1 after the empty block 0.
LEMMA InitIInv == Init => IInv
<1> SUFFICES ASSUME Init PROVE IInv
  OBVIOUS
<1>1. stored.table \in Table /\ stored.last = 0 /\ stored.id = 0
  BY DEF Init, Table
<1>2. TypeOK
  BY <1>1, PackingAssumption DEF Init, TypeOK, Header
<1>3. CountKept /\ ChainLinked /\ AckedKept
  BY <1>1, PackingAssumption DEF Init, CountKept, ChainLinked, AckedKept, Back
<1>4. Follows(stored, <<>>, stored.last, stored.table)
  BY <1>1, FollowsNone
<1>5. AllFollow
  BY <1>1, <1>4 DEF Init, AllFollow, Back
<1> QED
  BY <1>2, <1>3, <1>5 DEF IInv

\* Answers stay valid when only further transactions and blocks are added to
\* what they name, and a new answer names such a transaction.
LEMMA AckedGrow ==
  ASSUME TypeOK, AckedKept, NEW all,
         Len(all) \in Nat, Len(trans) <= Len(all),
         \A k \in 1..Len(trans) : all[k] = trans[k],
         Unpacked' \in Nat, Unpacked <= Unpacked',
         \A i \in 1..Unpacked : /\ Before(i)'.id = Before(i).id
                                /\ TransOf(i)' = IF i = Unpacked THEN all ELSE TransOf(i),
         \A a \in acked' : \/ a \in acked
                           \/ /\ a.block = Back.id + 1 /\ a.idx \in Nat
                              /\ a.idx < Len(all) /\ all[a.idx + 1] = a.t
  PROVE  AckedKept'
<1> SUFFICES ASSUME NEW a \in acked'
             PROVE  \E i \in 1..Unpacked' :
                      /\ a.block = Before(i)'.id + 1
                      /\ a.idx < Len(TransOf(i)') /\ TransOf(i)'[a.idx + 1] = a.t
  BY DEF AckedKept
<1>1. Unpacked \in 1..Unpacked /\ 1..Unpacked \subseteq 1..Unpacked' /\ Back = Before(Unpacked)
  BY BackType DEF Unpacked
<1>2. CASE a \in acked
  <2>1. PICK i \in 1..Unpacked : /\ a.block = Before(i).id + 1
                                 /\ a.idx < Len(TransOf(i)) /\ TransOf(i)[a.idx + 1] = a.t
    BY <1>2 DEF AckedKept
  <2>2. a.idx \in Nat /\ Len(trans) \in Nat
    BY <1>2 DEF TypeOK
  <2>3. CASE i = Unpacked
    <3>1. TransOf(i) = trans /\ TransOf(i)' = all
      BY <2>3, <1>1 DEF TransOf
    <3>2. a.idx + 1 \in 1..Len(trans) /\ a.idx < Len(all)
      BY <2>1, <2>2, <3>1
    <3> QED
      BY <1>1, <2>1, <3>1, <3>2
  <2>4. CASE i # Unpacked
    BY <1>1, <2>1, <2>4
  <2> QED
    BY <2>3, <2>4
<1>3. CASE a \notin acked
  <2>1. /\ a.block = Back.id + 1 /\ a.idx < Len(all) /\ all[a.idx + 1] = a.t
    BY <1>3
  <2>2. PICK i \in 1..Unpacked : i = Unpacked
    BY <1>1
  <2>3. Before(i)'.id = Back.id /\ TransOf(i)' = all
    BY <1>1, <2>2
  <2> QED
    BY <1>1, <2>1, <2>2, <2>3
<1> QED
  BY <1>2, <1>3

\* What AllFollow says of the next state.
LEMMA NextAllFollow ==
  AllFollow' <=>
    /\ \A i \in 1..Len(queue') :
            Follows(Before(i)', queue'[i].trans, queue'[i].last, queue'[i].table)
    /\ Follows(Back', trans', cur'.last, view')
BY DEF AllFollow, Follows, After, News, Writers

\* A block is packed: what holds of the current block holds of the last one.
LEMMA PackBlockStep ==
  ASSUME IInv, NEW b \in [id : Nat, last : 0..MaxID], NEW ts \in Seq(Transaction),
         NEW n \in 1..MaxTrans, NEW table \in Table,
         b.id = cur.id, Len(trans) <= Len(ts), \A k \in 1..Len(trans) : ts[k] = trans[k],
         Follows(Back, ts, b.last, table),
         PackBlock(b, ts, n, table), view' = table, UNCHANGED stored,
         acked' \subseteq [block : Nat, idx : 0..MaxTrans, t : Transaction],
         \A a \in acked' : \/ a \in acked
                           \/ /\ a.block = cur.id
                              /\ a.idx < Len(ts) /\ ts[a.idx + 1] = a.t
  PROVE  IInv'
<1> DEFINE p == Packed(b, ts, n, table)
           m == Len(queue)
<1> USE DEF IInv
<1>1. /\ queue \in Seq(Block) /\ p \in Block /\ queue' = Append(queue, p) /\ queue' \in Seq(Block)
      /\ p.id = cur.id /\ p.last = b.last /\ p.table = table /\ p.trans = ts /\ p.pre = Back.id
  <2>1. p \in Block
    BY BackType DEF Packed, Block
  <2> QED
    BY <2>1 DEF TypeOK, PackBlock, Packed
<1>2. /\ m \in Nat /\ Len(queue') = m + 1 /\ queue'[m + 1] = p
      /\ \A i \in 1..m : queue'[i] = queue[i]
      /\ 1..(m + 1) = (1..m) \cup {m + 1}
  BY <1>1
<1>3. /\ cur' = [id |-> b.id + 1, last |-> b.last] /\ trans' = <<>> /\ count' = 0
      /\ stored' = stored
  BY DEF PackBlock
<1> HIDE DEF p
<1>4. Back' = p
  BY <1>1, <1>2 DEF Back
<1>5. \A i \in 1..(m + 1) : Before(i)' = Before(i)
  <2> SUFFICES ASSUME NEW i \in 1..(m + 1), i # 1 PROVE queue'[i - 1] = queue[i - 1]
    BY <1>3 DEF Before
  <2>1. i - 1 \in 1..m
    BY <1>2
  <2> QED
    BY <1>2, <2>1
<1>6. Before(m + 1) = Back
  BY BackType DEF Unpacked
<1>7. TypeOK'
  BY <1>1, <1>3, PackingAssumption DEF TypeOK
<1>8. CountKept'
  BY <1>3, PackingAssumption DEF CountKept
<1>9. ChainLinked'
  <2>1. \A i \in 1..(m + 1) : queue'[i].id = Before(i).id + 1 /\ queue'[i].pre = Before(i).id
    BY <1>1, <1>2, <1>6 DEF ChainLinked
  <2> QED
    BY <1>1, <1>2, <1>3, <1>4, <1>5, <2>1 DEF ChainLinked
<1>10. AllFollow'
  <2>1. \A i \in 1..(m + 1) : Follows(Before(i), queue'[i].trans, queue'[i].last, queue'[i].table)
    BY <1>1, <1>2, <1>6 DEF AllFollow
  <2>2. Follows(p, <<>>, p.last, p.table)
    <3>1. p.last \in Nat /\ p.table \in Table
      BY <1>1, PackingAssumption DEF Block
    <3> QED
      BY <3>1, FollowsNone
  <2> QED
    BY <1>1, <1>2, <1>3, <1>4, <1>5, <2>1, <2>2, NextAllFollow
<1>11. AckedKept'
  <2>1. Unpacked = m + 1 /\ Unpacked' = m + 2
    BY <1>2 DEF Unpacked
  <2>2. \A i \in 1..(m + 1) : TransOf(i)' = IF i = Unpacked THEN ts ELSE TransOf(i)
    BY <1>1, <1>2, <2>1 DEF TransOf
  <2>3. cur.id = Back.id + 1
    BY DEF ChainLinked
  <2>4. \A a \in acked' : \/ a \in acked
                           \/ /\ a.block = Back.id + 1 /\ a.idx \in Nat
                              /\ a.idx < Len(ts) /\ ts[a.idx + 1] = a.t
    BY <2>3
  <2>5. \A i \in 1..Unpacked : /\ Before(i)'.id = Before(i).id
                               /\ TransOf(i)' = IF i = Unpacked THEN ts ELSE TransOf(i)
    BY <1>5, <2>1, <2>2
  <2>6. Len(ts) \in Nat /\ Unpacked' \in Nat /\ Unpacked <= Unpacked'
    BY <1>2, <2>1
  <2> QED
    BY <2>4, <2>5, <2>6, AckedGrow
<1> QED
  BY <1>7, <1>8, <1>9, <1>10, <1>11

\* Transactions enter the current block, which is not packed yet.
LEMMA EncodeStep ==
  ASSUME IInv, NEW ts \in Seq(Transaction), NEW last \in 0..MaxID, NEW table \in Table,
         Len(ts) < MaxTrans,
         Len(trans) <= Len(ts), \A k \in 1..Len(trans) : ts[k] = trans[k],
         Follows(Back, ts, last, table),
         cur' = [cur EXCEPT !.last = last], trans' = ts, count' = Len(ts),
         view' = table, UNCHANGED <<stored, queue>>,
         acked' \subseteq [block : Nat, idx : 0..MaxTrans, t : Transaction],
         \A a \in acked' : \/ a \in acked
                           \/ /\ a.block = cur.id
                              /\ a.idx < Len(ts) /\ ts[a.idx + 1] = a.t
  PROVE  IInv'
<1> USE DEF IInv
<1>1. cur' \in [id : Nat, last : 0..MaxID] /\ cur'.id = cur.id /\ cur'.last = last
  BY DEF TypeOK
<1>2. Len(ts) \in Nat /\ count' \in 0..MaxTrans
  BY PackingAssumption
<1>3. TypeOK'
  BY <1>1, <1>2 DEF TypeOK
<1>4. CountKept'
  BY DEF CountKept
<1>5. Back' = Back /\ \A i : Before(i)' = Before(i)
  BY DEF Back, Before
<1>6. ChainLinked'
  BY <1>1, <1>5 DEF ChainLinked
<1>7. AllFollow'
  BY <1>1, <1>5, NextAllFollow DEF AllFollow
<1>8. AckedKept'
  <2>1. Unpacked' = Unpacked /\ Unpacked \in Nat /\ cur.id = Back.id + 1
    BY BackType DEF Unpacked, ChainLinked
  <2>2. \A i : TransOf(i)' = IF i = Unpacked THEN ts ELSE TransOf(i)
    BY <2>1 DEF TransOf
  <2>3. \A a \in acked' : \/ a \in acked
                           \/ /\ a.block = Back.id + 1 /\ a.idx \in Nat
                              /\ a.idx < Len(ts) /\ ts[a.idx + 1] = a.t
    BY <2>1
  <2>4. \A i \in 1..Unpacked : /\ Before(i)'.id = Before(i).id
                               /\ TransOf(i)' = IF i = Unpacked THEN ts ELSE TransOf(i)
    BY <1>5, <2>2
  <2>5. Unpacked' \in Nat /\ Unpacked <= Unpacked'
    BY <2>1
  <2> QED
    BY <1>2, <2>3, <2>4, <2>5, AckedGrow
<1> QED
  BY <1>3, <1>4, <1>6, <1>7, <1>8

\* The common tail of the handlers, when the block has room for what it adds.
LEMMA RecordStep ==
  ASSUME IInv, NEW ts \in Seq(Transaction), NEW last \in 0..MaxID,
         Len(ts) > 0, count + Len(ts) <= MaxTrans,
         Follows(Back, trans \o ts, last, After(view, ts)),
         Record(ts, last)
  PROVE  IInv'
<1> DEFINE all == trans \o ts
           n == count + Len(ts)
           b == [cur EXCEPT !.last = last]
<1> USE DEF IInv
<1>1. /\ all \in Seq(Transaction) /\ Len(all) = n /\ Len(trans) <= Len(all)
      /\ \A k \in 1..Len(trans) : all[k] = trans[k]
      /\ count \in Nat /\ count < Len(all) /\ all[count + 1] = ts[1] /\ ts[1] \in Transaction
      /\ n \in 1..MaxTrans
  BY PackingAssumption DEF CountKept, TypeOK
<1>2. n % (MaxTrans + 1) = n
  <2> HIDE DEF n
  <2>1. MaxTrans \in Nat /\ n \in 0..MaxTrans
    BY <1>1, PackingAssumption
  <2> QED
    BY <2>1, SmallMod
<1>3. b \in [id : Nat, last : 0..MaxID] /\ b.id = cur.id /\ b.last = last
  BY DEF TypeOK
<1>4. After(view, ts) \in Table /\ view' = After(view, ts)
  BY AfterType DEF TypeOK, Record
<1>5. /\ acked' = acked \cup {Url(ts[1])}
      /\ acked' \subseteq [block : Nat, idx : 0..MaxTrans, t : Transaction]
      /\ \A a \in acked' : \/ a \in acked
                           \/ /\ a.block = cur.id
                              /\ a.idx < Len(all) /\ all[a.idx + 1] = a.t
  <2>1. acked' = acked \cup {Url(ts[1])}
    BY DEF Record
  <2>2. Url(ts[1]) \in [block : Nat, idx : 0..MaxTrans, t : Transaction]
    BY <1>1 DEF Url, TypeOK
  <2>3. Url(ts[1]).block = cur.id /\ Url(ts[1]).idx = count /\ Url(ts[1]).t = ts[1]
    BY DEF Url
  <2> QED
    BY <1>1, <2>1, <2>2, <2>3 DEF TypeOK
<1>6. stored' = stored
  BY DEF Record
<1>7. \/ PackBlock(b, all, n, view')
      \/ n < MaxTrans /\ cur' = b /\ trans' = all /\ count' = n /\ queue' = queue
  <2> HIDE DEF all, n, b
  <2>1. n # 0
    BY <1>1
  <2>2. PICK sizeReached \in BOOLEAN :
            IF n # 0 /\ (n = MaxTrans \/ sizeReached)
            THEN PackBlock(b, all, n, view')
            ELSE cur' = b /\ trans' = all /\ count' = n /\ UNCHANGED queue
    BY <1>2 DEF Record, all, n, b
  <2>3. CASE n = MaxTrans \/ sizeReached
    BY <2>1, <2>2, <2>3
  <2>4. CASE ~(n = MaxTrans \/ sizeReached)
    BY <1>1, <2>2, <2>4, PackingAssumption
  <2> QED
    BY <2>3, <2>4
<1> HIDE DEF all, n, b
<1>8. CASE PackBlock(b, all, n, view')
  BY <1>1, <1>3, <1>4, <1>5, <1>6, <1>8, PackBlockStep DEF all
<1>9. CASE n < MaxTrans /\ cur' = b /\ trans' = all /\ count' = n /\ queue' = queue
  BY <1>1, <1>3, <1>4, <1>5, <1>6, <1>9, EncodeStep DEF all, b
<1> QED
  BY <1>7, <1>8, <1>9

\* RollbackPartBlock: with the answers for the current block withdrawn, the
\* empty block follows the last one.
LEMMA RollbackStep == ASSUME IInv, SubmitFails PROVE IInv'
<1> USE DEF IInv
<1>1. /\ cur' = [id |-> Back.id + 1, last |-> Back.last] /\ trans' = <<>> /\ count' = 0
      /\ view' = Back.table /\ acked' = {a \in acked : a.block # cur.id}
      /\ stored' = stored /\ queue' = queue
  BY DEF SubmitFails, RollbackPartBlock
<1>2. Back' = Back /\ \A i : Before(i)' = Before(i)
  BY <1>1 DEF Back, Before
<1>3. TypeOK'
  BY <1>1, BackType, PackingAssumption DEF TypeOK
<1>4. CountKept' /\ ChainLinked'
  BY <1>1, <1>2, PackingAssumption DEF CountKept, ChainLinked
<1>5. AllFollow'
  <2>1. Follows(Back, <<>>, Back.last, Back.table)
    BY BackType, FollowsNone
  <2> QED
    BY <1>1, <1>2, <2>1, NextAllFollow DEF AllFollow
<1>6. AckedKept'
  <2>1. Unpacked' = Unpacked /\ Back = Before(Unpacked) /\ cur.id = Back.id + 1
    BY <1>1, BackType DEF Unpacked, ChainLinked
  <2> SUFFICES ASSUME NEW a \in acked'
               PROVE  \E i \in 1..Unpacked :
                        /\ a.block = Before(i).id + 1
                        /\ a.idx < Len(TransOf(i)') /\ TransOf(i)'[a.idx + 1] = a.t
    BY <1>2, <2>1 DEF AckedKept
  <2>2. PICK i \in 1..Unpacked : /\ a.block = Before(i).id + 1
                                 /\ a.idx < Len(TransOf(i)) /\ TransOf(i)[a.idx + 1] = a.t
    BY <1>1 DEF AckedKept
  <2>3. i # Unpacked
    BY <1>1, <2>1, <2>2
  <2>4. TransOf(i)' = TransOf(i)
    BY <1>1, <2>1, <2>3 DEF TransOf
  <2> QED
    BY <2>2, <2>4
<1> QED
  BY <1>3, <1>4, <1>5, <1>6

\* OnTimePackBlock packs what the current block holds.
LEMMA TimerStep == ASSUME IInv, OnTimePackBlock PROVE IInv'
<1> USE DEF IInv
<1>1. /\ cur \in [id : Nat, last : 0..MaxID] /\ trans \in Seq(Transaction)
      /\ count \in 1..MaxTrans /\ view \in Table
      /\ acked \subseteq [block : Nat, idx : 0..MaxTrans, t : Transaction]
  BY PackingAssumption DEF TypeOK, OnTimePackBlock
<1>2. /\ PackBlock(cur, trans, count, view)
      /\ stored' = stored /\ view' = view /\ acked' = acked
  BY DEF OnTimePackBlock
<1>3. Follows(Back, trans, cur.last, view)
  BY DEF AllFollow
<1>4. Len(trans) <= Len(trans)
  BY <1>1
<1> QED
  BY <1>1, <1>2, <1>3, <1>4, PackBlockStep

\* The front block is persisted: the second one is the first of the queue.
LEMMA PersistStep == ASSUME IInv, PersistentBlockQueueHeader PROVE IInv'
<1> DEFINE m == Len(queue)
           f == queue[1]
<1> USE DEF IInv
<1>1. /\ queue # <<>> /\ stored' = [id |-> f.id, last |-> f.last, table |-> f.table]
      /\ queue' = Tail(queue) /\ acked' = {a \in acked : a.block # f.id}
      /\ cur' = cur /\ trans' = trans /\ count' = count /\ view' = view
  BY DEF PersistentBlockQueueHeader
<1>2. queue \in Seq(Block)
  BY DEF TypeOK
<1>3. /\ m \in Nat /\ m >= 1 /\ 1 \in 1..m /\ f \in Block
      /\ queue' \in Seq(Block) /\ Len(queue') = m - 1
      /\ \A i \in 1..(m - 1) : i + 1 \in 1..m /\ queue'[i] = queue[i + 1]
  BY <1>1, <1>2
<1>4. stored' \in Header /\ stored'.id = f.id /\ stored'.last = f.last /\ stored'.table = f.table
  BY <1>1, <1>3 DEF Header, Block
<1>5. TypeOK'
  BY <1>1, <1>3, <1>4 DEF TypeOK
<1>6. CountKept'
  BY <1>1 DEF CountKept
<1>7. ASSUME NEW i \in 1..m
      PROVE  /\ Before(i)'.id = Before(i + 1).id
             /\ Before(i)'.last = Before(i + 1).last
             /\ Before(i)'.table = Before(i + 1).table
  <2>1. CASE i = 1
    BY <1>4, <2>1 DEF Before
  <2>2. CASE i # 1
    <3>1. /\ i - 1 \in 1..(m - 1) /\ (i - 1) + 1 = i /\ (i + 1) - 1 = i /\ i + 1 # 1
      BY <1>3, <2>2
    <3>2. queue'[i - 1] = queue[i]
      BY <1>3, <3>1
    <3> QED
      BY <2>2, <3>1, <3>2 DEF Before
  <2> QED
    BY <2>1, <2>2
<1>8. /\ Unpacked = m + 1 /\ Unpacked' = m
      /\ Back'.id = Back.id /\ Back'.last = Back.last /\ Back'.table = Back.table
  <2>1. Unpacked = m + 1 /\ Unpacked' = m
    BY <1>3 DEF Unpacked
  <2>2. Back = Before(m + 1)
    BY <2>1, BackType
  <2>3. PICK i \in 1..m : i = m
    BY <1>3
  <2>4. Back' = Before(i)'
    <3>1. CASE m = 1
      <4>1. queue' = <<>>
        BY <1>3, <3>1
      <4> QED
        BY <2>3, <3>1, <4>1 DEF Back, Before
    <3>2. CASE m # 1
      <4>1. queue' # <<>> /\ Len(queue') = i - 1 /\ i # 1
        BY <1>3, <2>3, <3>2
      <4> QED
        BY <4>1 DEF Back, Before
    <3> QED
      BY <3>1, <3>2
  <2>5. Before(i + 1) = Back
    BY <2>2, <2>3
  <2> QED
    BY <1>7, <2>1, <2>4, <2>5
<1>9. ChainLinked'
  <2>1. \A i \in 1..(m - 1) : /\ queue'[i].id = Before(i)'.id + 1
                              /\ queue'[i].pre = Before(i)'.id
    BY <1>3, <1>7 DEF ChainLinked
  <2> QED
    BY <1>1, <1>3, <1>8, <2>1 DEF ChainLinked
<1>10. AllFollow'
  <2>1. \A i \in 1..(m - 1) : Follows(Before(i)', queue'[i].trans, queue'[i].last, queue'[i].table)
    <3> SUFFICES ASSUME NEW i \in 1..(m - 1)
                 PROVE  Follows(Before(i)', queue'[i].trans, queue'[i].last, queue'[i].table)
      OBVIOUS
    <3>1. Follows(Before(i + 1), queue[i + 1].trans, queue[i + 1].last, queue[i + 1].table)
      BY <1>3 DEF AllFollow
    <3>2. i \in 1..m
      BY <1>3
    <3>3. queue'[i] = queue[i + 1]
      BY <1>3
    <3> QED
      BY <1>7, <3>1, <3>2, <3>3, FollowsSame
  <2>2. Follows(Back', trans, cur.last, view)
    BY <1>8, FollowsSame DEF AllFollow
  <2> QED
    BY <1>1, <1>3, <2>1, <2>2, NextAllFollow
<1>11. AckedKept'
  <2> SUFFICES ASSUME NEW a \in acked'
               PROVE  \E i \in 1..m :
                        /\ a.block = Before(i)'.id + 1
                        /\ a.idx < Len(TransOf(i)') /\ TransOf(i)'[a.idx + 1] = a.t
    BY <1>8 DEF AckedKept
  <2>1. PICK i \in 1..(m + 1) : /\ a.block = Before(i).id + 1
                                /\ a.idx < Len(TransOf(i)) /\ TransOf(i)[a.idx + 1] = a.t
    BY <1>1, <1>8 DEF AckedKept
  <2>2. i # 1
    <3>1. f.id = stored.id + 1
      BY <1>3 DEF ChainLinked, Before
    <3> QED
      BY <1>1, <2>1, <3>1 DEF Before
  <2>3. PICK j \in 1..m : i = j + 1
    <3>1. i - 1 \in 1..m /\ i = (i - 1) + 1
      BY <1>3, <2>2
    <3> QED
      BY <3>1
  <2>4. TransOf(j)' = TransOf(i)
    <3>1. CASE j = m
      BY <1>1, <1>8, <2>3, <3>1 DEF TransOf
    <3>2. CASE j # m
      <4>1. j \in 1..(m - 1) /\ i # m + 1
        BY <1>3, <2>3, <3>2
      <4> QED
        BY <1>3, <1>8, <2>3, <3>2, <4>1 DEF TransOf
    <3> QED
      BY <3>1, <3>2
  <2> QED
    BY <1>7, <2>1, <2>3, <2>4
<1> QED
  BY <1>5, <1>6, <1>9, <1>10, <1>11

\* A submission of one transaction: the block is never full before it.
LEMMA RecordOneStep ==
  ASSUME IInv, NEW t \in Transaction, NEW last \in 0..MaxID,
         \/ t.new /\ t.ids = (cur.last + 1)..last /\ cur.last <= last
         \/ ~t.new /\ last = cur.last,
         Record(<<t>>, last)
  PROVE  IInv'
<1> USE DEF IInv
<1>1. /\ <<t>> \in Seq(Transaction) /\ Len(<<t>>) = 1 /\ trans \o <<t>> = Append(trans, t)
      /\ trans \in Seq(Transaction) /\ cur.last \in Nat /\ last \in Nat /\ view \in Table
      /\ count + 1 <= MaxTrans
  BY PackingAssumption DEF TypeOK, CountKept
<1>2. Follows(Back, Append(trans, t), last, After(view, <<t>>))
  BY <1>1, BackType, FollowsAppend DEF AllFollow
<1>3. Follows(Back, trans \o <<t>>, last, After(view, <<t>>))
  BY <1>1, <1>2
<1>4. Len(<<t>>) > 0 /\ count + Len(<<t>>) <= MaxTrans
  BY <1>1
<1> QED
  BY <1>1, <1>3, <1>4, RecordStep

\* SubmitRegistUser adds two transactions; the window keeps room for both.
LEMMA RegistUserStep == ASSUME Protected, IInv, SubmitRegistUser PROVE IInv'
<1> DEFINE t == Create(cur.last + 1, cur.last + 1)
           last == cur.last + 1
<1> USE DEF IInv
<1>1. /\ cur.last \in Nat /\ last \in Nat /\ last \in 0..MaxID /\ view \in Table
      /\ trans \in Seq(Transaction) /\ count \in Nat /\ count + 2 <= MaxTrans
  BY PackingAssumption DEF TypeOK, SubmitRegistUser, Protected
<1>2. RegistUser \in Transaction /\ ~RegistUser.new
  BY DEF RegistUser, Transaction
<1>3. t \in Transaction /\ t.new /\ t.ids = (cur.last + 1)..last
  BY <1>1 DEF Create, Transaction, IDs
<1>4. Record(<<RegistUser, t>>, last)
  BY DEF SubmitRegistUser
<1> HIDE DEF t, last
<1>5. /\ <<RegistUser>> \in Seq(Transaction) /\ <<RegistUser, t>> \in Seq(Transaction)
      /\ Len(<<RegistUser, t>>) = 2 /\ Append(<<RegistUser>>, t) = <<RegistUser, t>>
      /\ Append(trans, RegistUser) \in Seq(Transaction)
      /\ trans \o <<RegistUser, t>> = Append(Append(trans, RegistUser), t)
  <2> DEFINE r == RegistUser
  <2>1. r \in Transaction
    BY <1>2
  <2> HIDE DEF r
  <2>2. <<r>> \in Seq(Transaction) /\ Len(<<r, t>>) = 2
    BY <1>3, <2>1
  <2>6. Append(<<r>>, t) = <<r, t>>
    <3>1. t \in Transaction
      BY <1>3
    <3> QED
      BY <2>1, <3>1, AppendToOne
  <2>3. <<r, t>> \in Seq(Transaction)
    BY <1>3, <2>1
  <2>4. Append(trans, r) \in Seq(Transaction)
    BY <1>1, <2>1
  <2>5. trans \o <<r, t>> = Append(Append(trans, r), t)
    BY <1>1, <1>3, <2>1, <2>3, <2>4
  <2> QED
    BY <2>2, <2>3, <2>4, <2>5, <2>6 DEF r
<1>6. After(view, <<RegistUser>>) \in Table
  BY <1>1, <1>5, AfterType
<1>7. Follows(Back, Append(trans, RegistUser), cur.last, After(view, <<RegistUser>>))
  BY <1>1, <1>2, BackType, FollowsAppend DEF AllFollow
<1>8. cur.last <= last
  BY <1>1 DEF last
<1>9. Follows(Back, Append(Append(trans, RegistUser), t), last,
              After(After(view, <<RegistUser>>), <<t>>))
  BY <1>1, <1>3, <1>5, <1>6, <1>7, <1>8, BackType, FollowsAppend
<1>10. After(After(view, <<RegistUser>>), <<t>>) = After(view, <<RegistUser, t>>)
  <2>1. \A s \in Seq(Transaction) : After(view, Append(s, t)) = After(After(view, s), <<t>>)
    BY <1>1, <1>3, AfterOneMore
  <2> QED
    BY <1>5, <2>1
<1>11. Follows(Back, trans \o <<RegistUser, t>>, last, After(view, <<RegistUser, t>>))
  BY <1>5, <1>9, <1>10
<1>12. Len(<<RegistUser, t>>) > 0 /\ count + Len(<<RegistUser, t>>) <= MaxTrans
  BY <1>1, <1>5
<1> QED
  BY <1>1, <1>4, <1>5, <1>11, <1>12, RecordStep

\* Every step keeps the inductive invariant.
LEMMA StepIInv == Protected /\ IInv /\ [Next]_vars => IInv'
<1> SUFFICES ASSUME Protected, IInv, [Next]_vars PROVE IInv'
  OBVIOUS
<1> USE DEF IInv
<1>1. CASE SubmitRegistUser
  BY <1>1, RegistUserStep
<1>2. ASSUME NEW n \in IDs, SubmitCreateInformation(n) PROVE IInv'
  <2> DEFINE t == Create(cur.last + 1, cur.last + n)
             last == cur.last + n
  <2>1. /\ cur.last \in Nat /\ n \in Nat /\ last \in 0..MaxID /\ cur.last <= last
    BY <1>2, PackingAssumption DEF TypeOK, SubmitCreateInformation, IDs
  <2>2. t \in Transaction /\ t.new /\ t.ids = (cur.last + 1)..last
    <3>1. (cur.last + 1)..last \subseteq IDs
      BY <2>1, PackingAssumption DEF IDs
    <3> QED
      BY <3>1 DEF Create, Transaction
  <2>3. Record(<<t>>, last)
    BY <1>2 DEF SubmitCreateInformation
  <2> HIDE DEF t, last
  <2> QED
    BY <2>1, <2>2, <2>3, RecordOneStep
<1>3. ASSUME NEW id \in IDs, NEW v \in Versions, SubmitProposal(id, v) PROVE IInv'
  <2> DEFINE t == Write(id, v)
  <2>1. cur.last \in 0..MaxID
    BY DEF TypeOK
  <2>2. t \in Transaction /\ ~t.new
    BY DEF Write, Transaction
  <2>3. Record(<<t>>, cur.last)
    BY <1>3 DEF SubmitProposal
  <2> HIDE DEF t
  <2> QED
    BY <2>1, <2>2, <2>3, RecordOneStep
<1>4. CASE SubmitFails
  BY <1>4, RollbackStep
<1>5. CASE OnTimePackBlock
  BY <1>5, TimerStep
<1>6. CASE PersistentBlockQueueHeader
  BY <1>6, PersistStep
<1>7. CASE UNCHANGED vars
  <2>1. /\ stored' = stored /\ queue' = queue /\ cur' = cur /\ trans' = trans
        /\ count' = count /\ view' = view /\ acked' = acked
    BY <1>7 DEF vars
  <2>2. Back' = Back /\ Unpacked' = Unpacked /\ \A i : Before(i)' = Before(i)
    BY <2>1 DEF Back, Before, Unpacked
  <2>3. \A i : TransOf(i)' = TransOf(i)
    BY <2>1, <2>2 DEF TransOf
  <2>4. TypeOK' /\ CountKept' /\ ChainLinked'
    BY <2>1, <2>2 DEF TypeOK, CountKept, ChainLinked
  <2>5. AllFollow'
    BY <2>1, <2>2, NextAllFollow DEF AllFollow
  <2>6. AckedKept'
    BY <2>1, <2>2, <2>3 DEF AckedKept
  <2> QED
    BY <2>4, <2>5, <2>6
<1> QED
  BY <1>1, <1>2, <1>3, <1>4, <1>5, <1>6, <1>7 DEF Next

\* The inductive invariant holds of every reachable state.
THEOREM PackingInvariant == Protected /\ Spec => []IInv
<1> SUFFICES ASSUME Protected PROVE Spec => []IInv
  OBVIOUS
<1>1. IInv /\ [Next]_vars => IInv'
  BY StepIInv
<1> QED
  BY <1>1, InitIInv, PTL DEF Spec
-----------------------------------------------------------------------------
(* The properties *)

\* Persisted block, queued blocks, current block, table and answers keep
\* their types: in particular no block with a count of 0 is packed, and the
\* count never exceeds the width of its field.
THEOREM TypeCorrect == Protected /\ Spec => []TypeOK
<1>1. IInv => TypeOK
  BY DEF IInv
<1> QED
  BY <1>1, PackingInvariant, PTL

\* Whatever is packed, persisted or rolled back, the blocks are linked by id
\* and by the hash of the block before.
THEOREM ChainSafe == Protected /\ Spec => []ChainLinked
<1>1. IInv => ChainLinked
  BY DEF IInv
<1> QED
  BY <1>1, PackingInvariant, PTL

\* The ids a block allocates continue those of the block before, each once
\* and without a hole, also after a rollback.
THEOREM IdsSafe == Protected /\ Spec => []IdsContiguous
<1>1. IInv => IdsContiguous
  BY Consequences DEF IInv
<1> QED
  BY <1>1, PackingInvariant, PTL

\* The version table, packed or live, is the effect of exactly the
\* transactions of the blocks that will be distributed.
THEOREM TableSafe == Protected /\ Spec => []TableFollowsBlocks
<1>1. IInv => TableFollowsBlocks
  BY Consequences DEF IInv
<1> QED
  BY <1>1, PackingInvariant, PTL

\* An answer that no rollback withdrew names the place of its transaction.
THEOREM AnswersSafe == Protected /\ Spec => []AckedKept
<1>1. IInv => AckedKept
  BY DEF IInv
<1> QED
  BY <1>1, PackingInvariant, PTL
=============================================================================
