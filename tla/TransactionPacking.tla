------------------------- MODULE TransactionPacking -------------------------
(***************************************************************************)
(* How a master order node fills blocks: it answers a submission, encodes  *)
(* the transaction into the current block, applies it to the version table *)
(* and packs the block when it is full or old enough; a failing table      *)
(* operation throws the whole unpacked block away (CChannelProcessService  *)
(* in EN_MASTER_NORMAL_STATE).                                             *)
(*                                                                         *)
(* Blocks are packed once and never replaced, so a block hash is the block *)
(* id.  The version table is a function of record id: what its pages and   *)
(* modify packages hold at a moment.  The size of a block is not counted,  *)
(* any transaction may reach the limit.  A submission that is refused, or  *)
(* whose answer cannot be sent, changes none of this state.                *)
(***************************************************************************)
EXTENDS Naturals, Sequences, FiniteSetsExt

CONSTANTS MaxTrans,   \* EN_MAX_TRANSACTION_COUNT_IN_BLOCK, 2^w - 1
          MaxQueue,   \* m_nMaxCacheBlockCount
          MaxID,      \* DEF_LAST_WRITE_SET_ALLOCATED_ID, scaled down
          MaxBlock,   \* bound: no transaction enters a block above this id
          Versions,   \* versions a proposal may submit
          Exposed     \* "countOverflow": two transactions for one free place

ASSUME PackingAssumption ==
    /\ MaxTrans \in Nat \ {0} /\ MaxQueue \in Nat \ {0}
    /\ MaxID \in Nat /\ MaxBlock \in Nat
    /\ Versions \subseteq Nat
    /\ Exposed \subseteq {"countOverflow"}

VARIABLES stored,   \* m_pConfig and the table on the device: id, last, table
          queue,    \* m_queueBlockInfo, each block with the table it packed
          cur,      \* m_pCurBlockInfo: block id, last allocated id
          trans,    \* transactions encoded into the current block
          count,    \* m_bcBlockHeader.m_nTransCount
          view,     \* the version table as Read finds it
          acked     \* history: answers for blocks not yet persisted

vars == <<stored, queue, cur, trans, count, view, acked>>

IDs   == 1..MaxID
Table == [IDs -> Versions \cup {0}]

\* A transaction writes one version to some ids; new when it allocates them.
Transaction == [new : BOOLEAN, ids : SUBSET IDs, version : Versions \cup {0}]
RegistUser       == [new |-> FALSE, ids |-> {}, version |-> 0]
Create(from, to) == [new |-> TRUE, ids |-> from..to, version |-> 0]
Write(id, v)     == [new |-> FALSE, ids |-> {id}, version |-> v]

\* Append and Update of the version table for the transactions ts in turn: an
\* id holds the version of the last transaction that writes it.
Writers(ts, id)  == {j \in DOMAIN ts : id \in ts[j].ids}
After(table, ts) ==
    [id \in IDs |-> IF Writers(ts, id) = {} THEN table[id]
                    ELSE ts[Max(Writers(ts, id))].version]

\* Back of the queue or, with nothing queued, what the config says.
Back == IF queue = <<>> THEN stored ELSE queue[Len(queue)]

Init ==
    /\ stored = [id |-> 0, last |-> 0, table |-> [id \in IDs |-> 0]]
    /\ queue = <<>>
    /\ cur = [id |-> 1, last |-> 0]
    /\ trans = <<>> /\ count = 0
    /\ view = stored.table
    /\ acked = {}
-----------------------------------------------------------------------------
\* Mutant: the hash of the previous block always comes from the config.
PackedAfterConfig(b, ts, n, table) ==
    [id |-> b.id, last |-> b.last, pre |-> stored.id,
     count |-> n, trans |-> ts, table |-> table]

\* The block as packed: header, transactions, the table PackModify copies.
Packed(b, ts, n, table) ==
    [id |-> b.id, last |-> b.last, pre |-> Back.id,
     count |-> n, trans |-> ts, table |-> table]

\* OnTimePackBlock for a header count that is not 0.
PackBlock(b, ts, n, table) ==
    /\ queue' = Append(queue, Packed(b, ts, n, table))
    /\ cur' = [id |-> b.id + 1, last |-> b.last]
    /\ trans' = <<>> /\ count' = 0

\* CheckOrderIsNormal: packed blocks waiting below the limit.
Accepts == Len(queue) < MaxQueue /\ cur.id <= MaxBlock

\* Mutant: the answer counts transactions from 1.
UrlFromOne(t) == [block |-> cur.id, idx |-> count + 1, t |-> t]

\* The place an answer names: block id and index of the transaction.
Url(t) == [block |-> cur.id, idx |-> count, t |-> t]

\* The handlers' common tail: the answer is out, the transactions ts are
\* encoded and applied, and the block is packed when its count is exactly the
\* maximum or its size is reached.  The count has the width of MaxTrans.
Record(ts, last) ==
    LET b == [cur EXCEPT !.last = last]
        all == trans \o ts
        n == (count + Len(ts)) % (MaxTrans + 1)
    IN /\ acked' = acked \cup {Url(ts[1])}
       /\ view' = After(view, ts)
       /\ \E sizeReached \in BOOLEAN :
            IF n # 0 /\ (n = MaxTrans \/ sizeReached)
            THEN PackBlock(b, all, n, view')
            ELSE cur' = b /\ trans' = all /\ count' = n /\ UNCHANGED queue
       /\ UNCHANGED stored

\* CSubmitRegistUserTransactionTasCpsReq: the registration and the proposal
\* with the new user's first record.
SubmitRegistUser ==
    /\ Accepts
    /\ cur.last < MaxID
    /\ count + 2 > MaxTrans => "countOverflow" \in Exposed
    /\ Record(<<RegistUser, Create(cur.last + 1, cur.last + 1)>>, cur.last + 1)

\* CSubmitProposalTransactionTasCpsReq with CREAT_INFORMATION_ID: n new ids.
\* The handler does not check that n ids are left; MaxID bounds the model.
SubmitCreateInformation(n) ==
    /\ Accepts
    /\ cur.last + n <= MaxID
    /\ Record(<<Create(cur.last + 1, cur.last + n)>>, cur.last + n)

\* Any other proposal, for an id that was allocated.  ProposalTransaction compares the result of
\* CheckWsItemVersion instead of assigning it: no version is ever refused.
SubmitProposal(id, v) ==
    /\ Accepts
    /\ id <= cur.last
    /\ Record(<<Write(id, v)>>, cur.last)

\* Mutant: the last allocated id survives the rollback.
RollbackPartBlockKeepingLast ==
    /\ cur' = [id |-> Back.id + 1, last |-> cur.last]
    /\ trans' = <<>> /\ count' = 0
    /\ view' = Back.table

\* Mutant: rolled back to the persisted block, past the queued ones.
RollbackPartBlockToStored ==
    /\ cur' = [id |-> Back.id + 1, last |-> Back.last]
    /\ trans' = <<>> /\ count' = 0
    /\ view' = stored.table

\* RollbackPartBlock: the unpacked part of block and table is thrown away.
RollbackPartBlock ==
    /\ cur' = [id |-> Back.id + 1, last |-> Back.last]
    /\ trans' = <<>> /\ count' = 0
    /\ view' = Back.table

\* Append or Update fails after the answer was sent: what had been answered
\* for this block, the failing submission included, is withdrawn silently.
SubmitFails ==
    /\ Accepts
    /\ RollbackPartBlock
    /\ acked' = {a \in acked : a.block # cur.id}
    /\ UNCHANGED <<stored, queue>>

\* Mutant: the timer packs an empty block.
OnTimePackBlockEmpty ==
    /\ PackBlock(cur, trans, count, view)
    /\ UNCHANGED <<stored, view, acked>>

\* The pack timer.
OnTimePackBlock ==
    /\ count # 0
    /\ PackBlock(cur, trans, count, view)
    /\ UNCHANGED <<stored, view, acked>>

\* The front is distributed and persisted (BlockDistribution,
\* PersistentBlockQueueHeader).
PersistentBlockQueueHeader ==
    /\ queue # <<>>
    /\ stored' = [id |-> queue[1].id, last |-> queue[1].last, table |-> queue[1].table]
    /\ queue' = Tail(queue)
    /\ acked' = {a \in acked : a.block # queue[1].id}
    /\ UNCHANGED <<cur, trans, count, view>>

Next ==
    \/ SubmitRegistUser
    \/ \E n \in IDs : SubmitCreateInformation(n)
    \/ \E id \in IDs, v \in Versions : SubmitProposal(id, v)
    \/ SubmitFails
    \/ OnTimePackBlock
    \/ PersistentBlockQueueHeader

Spec == Init /\ [][Next]_vars
-----------------------------------------------------------------------------
Header == [id : Nat, last : 0..MaxID, table : Table]
Block  == [id : Nat, last : 0..MaxID, table : Table, pre : Nat,
           count : 1..MaxTrans, trans : Seq(Transaction)]

TypeOK ==
    /\ stored \in Header
    /\ queue \in Seq(Block)
    /\ cur \in [id : Nat, last : 0..MaxID]
    /\ trans \in Seq(Transaction)
    /\ count \in 0..MaxTrans
    /\ view \in Table
    /\ acked \subseteq [block : Nat, idx : 0..MaxTrans, t : Transaction]

\* The block before the i-th queued one; the current block comes last.
Before(i) == IF i = 1 THEN stored ELSE queue[i - 1]
Unpacked  == Len(queue) + 1

TransOf(i) == IF i = Unpacked THEN trans ELSE queue[i].trans

\* Queued blocks follow each other and the persisted block, by id and by the
\* hash in their header, and the current block follows the last of them
\* (OnTimePackBlock, RollbackPartBlock, PersistentBlockQueueHeader).
ChainLinked ==
    /\ \A i \in 1..Len(queue) : /\ queue[i].id = Before(i).id + 1
                                /\ queue[i].pre = Before(i).id
    /\ cur.id = Back.id + 1

\* Whatever is rolled back, the ids that the transactions of a block allocate
\* are the next ones, each once and without a hole, as CVbhMultiUpdateTable's
\* Append requires.
IdsContiguous ==
    \A i \in 1..Unpacked :
        LET ts == TransOf(i)
            last == IF i = Unpacked THEN cur.last ELSE queue[i].last
            new == {j \in 1..Len(ts) : ts[j].new}
        IN /\ UNION {ts[j].ids : j \in new} = (Before(i).last + 1)..last
           /\ \A j, k \in new : j # k => ts[j].ids \cap ts[k].ids = {}

\* The version table is always the effect of the transactions, of exactly the
\* blocks that will be distributed: queued snapshots and the live view.
TableFollowsBlocks ==
    \A i \in 1..Unpacked :
        After(Before(i).table, TransOf(i)) =
            IF i = Unpacked THEN view ELSE queue[i].table

\* An answer that was not withdrawn names the place of its transaction, in
\* the current block and after it is packed.
AckedKept ==
    \A a \in acked : \E i \in 1..Unpacked :
        /\ a.block = Before(i).id + 1
        /\ a.idx < Len(TransOf(i)) /\ TransOf(i)[a.idx + 1] = a.t
=============================================================================
