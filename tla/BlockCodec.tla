----------------------------- MODULE BlockCodec -----------------------------
(***************************************************************************)
(* The bytes of blocks: how the order node encodes transactions into the   *)
(* buffer of the current block (CBlockEncoder, driven by the submissions   *)
(* of CChannelProcessService), what numbers it gives them, and how a peer  *)
(* decodes a block and checks its merkle tree (vbhDecodeMemBcBloc).        *)
(*                                                                         *)
(* Offsets and lengths count cells behind the block header. A transaction  *)
(* takes a cell for its sequence number and p cells for the payload p. A   *)
(* buffer is as long as the allocation; malloc leaves junk in it.          *)
(* The header is its count and root; the rest of it is TransactionPacking. *)
(***************************************************************************)
EXTENDS MerkleTree, Functions

CONSTANTS Serials,    \* 2^(32 - EN_TYPE_BITS), scaled down
          Channel,    \* m_nChannelID
          MaxCount,   \* EN_MAX_TRANSACTION_COUNT_IN_BLOCK, 2^w - 1
          PackSize,   \* m_nPackMaxBlockSizeValue, in cells
          Payloads,   \* sizes of payloads, in cells
          MaxID,      \* DEF_LAST_WRITE_SET_ALLOCATED_ID, scaled down
          MaxSubmit,  \* bound: submissions handled
          NULL,
          Exposed     \* "countOverflow": two transactions for one free place

ASSUME CodecAssumption ==
  /\ InitNodes \in Nat \ {0} /\ NodeStep \in Nat \ {0}
  /\ Serials \in Nat \ {0} /\ Channel \in 0..Serials - 1
  /\ MaxCount \in Nat \ {0} /\ PackSize \in Nat \ {0}
  /\ Payloads \subseteq Nat \ {0}
  /\ MaxID \in Nat /\ MaxSubmit \in Nat
  /\ NULL \notin Seq([number : Nat, payload : Nat])
  /\ Exposed \subseteq {"countOverflow"}

VARIABLES buf,      \* m_pCurBlockInfo->m_pBlockDataBuf
          dataLen,  \* m_nBlockDataLen of the current block
          last,     \* m_nLastAlocWsID: of the current block, the newest
                    \* packed one and the persisted one
          initial,  \* m_nBlockBufInitialSize
          offset,   \* the encoder's position
          tree,     \* the encoder's tree
          count,    \* m_bcBlockHeader.m_nTransCount
          serial,   \* m_pConfig->m_nSequenceNumber
          packed,   \* the newest packed block, or NULL
          told,     \* history: the transactions answered for this block
          keys      \* history: all keys given out, <<sequence number, id>>,
                    \* over all runs of the process

vars == <<buf, dataLen, last, initial, offset, tree, count, serial,
          packed, told, keys>>
-----------------------------------------------------------------------------
\* CTransactionSequenceNumber: a type above a serial number. The code shifts the
\* type and sets the bits of the serial number, which is below Serials.
RegistUserType == 1
ProposeType    == 2

CombineSequenceNumber(type, n) == type * Serials + n
GetTransType(number) == number \div Serials

SequenceNumberInc(n) == IF n < Serials - 1 THEN n + 1 ELSE 0

Junk       == [kind |-> "junk", of |-> 0, part |-> 0]
Number(n)  == [kind |-> "number", of |-> n, part |-> 0]
Part(p, i) == [kind |-> "payload", of |-> p, part |-> i]

\* A transaction is [number, payload]; these are its bytes.
Encoded(t) == <<Number(t.number)>> \o [i \in 1..t.payload |-> Part(t.payload, i)]
Size(t) == 1 + t.payload

\* Where the transactions ts end when they are encoded one after the other.
Ends(ts) ==
  LET end[n \in 0..Len(ts)] == IF n = 0 THEN 0 ELSE end[n - 1] + Size(ts[n])
  IN  end
-----------------------------------------------------------------------------
NewBuffer(size) == [i \in 1..size |-> Junk]

\* A new CLocalBlockInfo of that size and InitSetEncodeBuffer for it, but for
\* the tree, which it clears.
NewBlock(size) ==
  /\ buf' = NewBuffer(size) /\ dataLen' = 0
  /\ offset' = 0 /\ count' = 0

Init ==
  /\ buf = NewBuffer(PackSize) /\ dataLen = 0 /\ offset = 0
  /\ last = [cur |-> 0, packed |-> 0, stored |-> 0]
  /\ initial = PackSize
  /\ tree = NewTree /\ count = 0
  /\ serial = Channel
  /\ packed = NULL
  /\ told = <<>> /\ keys = <<>>

\* CLocalBlockInfo::Resize: the data is copied to a longer buffer.
Resized(size) == [i \in 1..size |-> IF i <= dataLen THEN buf[i] ELSE Junk]

\* Mutant: the buffer grows and the encoder starts at its beginning.
RoomRestarted(need) ==
  IF need + dataLen > Len(buf)
  THEN [buf |-> Resized(need + dataLen), offset |-> 0, initial |-> need + dataLen]
  ELSE [buf |-> buf, offset |-> offset, initial |-> initial]

\* Before it encodes, a submission makes room: Resize and ResetEncodeBuffer.
Room(need) ==
  IF need + dataLen > Len(buf)
  THEN [buf |-> Resized(need + dataLen), offset |-> dataLen, initial |-> need + dataLen]
  ELSE [buf |-> buf, offset |-> offset, initial |-> initial]

\* BeginEncodeTransaction, the encoding and EndEncodeTransaction, for one
\* transaction: what lies between the two positions becomes a leaf.
Encode(e, t) ==
  LET bytes == [i \in DOMAIN e.buf |->
                  IF i \in (e.offset + 1)..(e.offset + Size(t))
                  THEN Encoded(t)[i - e.offset] ELSE e.buf[i]]
      end == e.offset + Size(t)
  IN [buf |-> bytes, offset |-> end,
      tree |-> AddLeafNode(e.tree, SubSeq(bytes, e.offset + 1, end)),
      count |-> (e.count + 1) % (MaxCount + 1)]

EncodeAll(e, ts) ==
  LET encoded[n \in 0..Len(ts)] == IF n = 0 THEN e ELSE Encode(encoded[n - 1], ts[n])
  IN  encoded[Len(ts)]

\* OnTimePackBlock: the header gets the root; the next block is as large as
\* the largest so far had to be.
PackBlock(e, answers, cur) ==
  LET built == BuildMerkleTree(e.tree)
  IN /\ packed' = [count |-> e.count, root |-> GetRoot(built),
                   bytes |-> SubSeq(e.buf, 1, e.offset), told |-> answers]
     /\ NewBlock(initial') /\ tree' = Clear(built)
     /\ told' = <<>>
     /\ last' = [last EXCEPT !.cur = cur, !.packed = cur]

\* The common end of the submissions: the transactions ts are encoded, and
\* the block is packed when its count is the maximum or its size is reached.
Record(ts, cur) ==
  LET room == Room(Ends(ts)[Len(ts)])
      e == EncodeAll([buf |-> room.buf, offset |-> room.offset, tree |-> tree, count |-> count], ts)
      answers == told \o ts
  IN /\ initial' = room.initial
     /\ IF e.count # 0 /\ (e.count = MaxCount \/ e.offset >= PackSize)
        THEN PackBlock(e, answers, cur)
        ELSE /\ buf' = e.buf /\ offset' = e.offset /\ dataLen' = e.offset
             /\ tree' = e.tree /\ count' = e.count
             /\ told' = answers
             /\ last' = [last EXCEPT !.cur = cur] /\ UNCHANGED packed

Submitted == Len(keys)
Regist(p)  == [number |-> CombineSequenceNumber(RegistUserType, serial), payload |-> p]
Propose(p) == [number |-> CombineSequenceNumber(ProposeType, serial), payload |-> p]

\* Every accepted submission takes a number; key is what it answers: the
\* number with the new id. Only a registration looks whether an id is left.
Answer(id) ==
  /\ Submitted < MaxSubmit /\ id <= MaxID
  /\ keys' = Append(keys, <<CombineSequenceNumber(ProposeType, serial), id>>)
  /\ serial' = SequenceNumberInc(serial)

\* Registration of a user: two transactions of one number.
SubmitRegistUser(p) ==
  /\ count + 2 > MaxCount => "countOverflow" \in Exposed
  /\ Answer(last.cur + 1)
  /\ Record(<<Regist(p), Propose(p)>>, last.cur + 1)

\* CREAT_INFORMATION_ID for one write-set item.
SubmitCreateInformation(p) ==
  /\ Answer(last.cur + 1)
  /\ Record(<<Propose(p)>>, last.cur + 1)

\* The answer cannot be sent: the room is made and the number is used, the
\* transactions are not encoded.
SubmitUnanswered(p) ==
  /\ Submitted < MaxSubmit
  /\ LET room == Room(Size(Propose(p)))
     IN buf' = room.buf /\ offset' = room.offset /\ initial' = room.initial
  /\ keys' = Append(keys, <<CombineSequenceNumber(ProposeType, serial), -1>>)
  /\ serial' = SequenceNumberInc(serial)
  /\ UNCHANGED <<dataLen, last, tree, count, packed, told>>

\* RollbackPartBlock: the current block is dropped, with the ids it gave out.
RollbackPartBlock ==
  /\ NewBlock(PackSize) /\ tree' = Clear(tree)
  /\ told' = <<>> /\ last' = [last EXCEPT !.cur = last.packed]
  /\ UNCHANGED packed

\* Append to the version table fails after the answer was sent and the
\* transaction encoded.
SubmitFails(p) ==
  /\ Answer(last.cur + 1)
  /\ initial' = Room(Size(Propose(p))).initial
  /\ RollbackPartBlock

OnTimePackBlock ==
  /\ count # 0
  /\ initial' = initial
  /\ PackBlock([buf |-> buf, offset |-> offset, tree |-> tree, count |-> count],
               told, last.cur)
  /\ UNCHANGED <<serial, keys>>

\* The newest packed block is persisted (BlockDistribution).
PersistentBlockQueueHeader ==
  /\ last.stored # last.packed
  /\ last' = [last EXCEPT !.stored = last.packed]
  /\ UNCHANGED <<buf, dataLen, initial, offset, tree, count, serial,
                 packed, told, keys>>

\* OnInit: packed and current blocks are gone, and the numbers of the
\* channel start anew.
OnInit ==
  /\ NewBlock(PackSize) /\ tree' = NewTree /\ initial' = PackSize
  /\ last' = [last EXCEPT !.cur = last.stored, !.packed = last.stored]
  /\ serial' = Channel
  /\ packed' = NULL /\ told' = <<>>
  /\ UNCHANGED keys
-----------------------------------------------------------------------------
\* One transaction of vbhDecodeMemBcBloc, behind position d.pos: the number
\* must have a known type, the bytes must be one transaction.
DecodeTransaction(bytes, d) ==
  LET at == d.pos + 1
      t == [number |-> bytes[at].of, payload |-> bytes[at + 1].of]
      end == d.pos + Size(t)
      readable ==
        /\ at < Len(bytes)
        /\ bytes[at].kind = "number" /\ bytes[at + 1].kind = "payload"
        /\ GetTransType(t.number) \in {RegistUserType, ProposeType}
        /\ end <= Len(bytes) /\ SubSeq(bytes, at, end) = Encoded(t)
  IN IF d.trans # NULL /\ readable
     THEN [pos |-> end, trans |-> Append(d.trans, t),
           tree |-> AddLeafNode(d.tree, SubSeq(bytes, at, end))]
     ELSE [d EXCEPT !.trans = NULL]

\* vbhDecodeMemBcBloc with the merkle tree mt: the transactions, or NULL.
Decode(b, mt) ==
  LET decoded[n \in 0..b.count] ==
        IF n = 0 THEN [pos |-> 0, trans |-> <<>>, tree |-> Clear(mt)]
                 ELSE DecodeTransaction(b.bytes, decoded[n - 1])
      d == decoded[b.count]
      built == BuildMerkleTree(d.tree)
  IN IF d.trans = NULL THEN [trans |-> NULL, tree |-> d.tree]
     ELSE [trans |-> IF GetRoot(built) = b.root THEN d.trans ELSE NULL, tree |-> built]

Next ==
  \/ \E p \in Payloads : \/ SubmitRegistUser(p) \/ SubmitCreateInformation(p)
                         \/ SubmitUnanswered(p) \/ SubmitFails(p)
  \/ OnTimePackBlock \/ PersistentBlockQueueHeader \/ OnInit

Spec == Init /\ [][Next]_vars
-----------------------------------------------------------------------------
\* A packed block decodes to the transactions whose submissions were
\* answered, each under the number and at the index of its answer, whatever
\* the buffer, the trees and the counts went through: reallocated and rolled
\* back in the middle of a block, grown, wrapped, reused. The peer's tree has
\* been used before, as the encoder's has.
BlocksDecode == packed # NULL => Decode(packed, tree).trans = packed.told

\* The bytes b can become: one cell is another, or two are exchanged.
Cells == {Number(n) : n \in 0..(4 * Serials - 1)}
           \cup {Part(p, i) : p \in Payloads, i \in Payloads}

Damaged(bytes) ==
  {[bytes EXCEPT ![i] = c] : i \in DOMAIN bytes, c \in Cells}
    \cup {[bytes EXCEPT ![i] = bytes[j], ![j] = bytes[i]] : i, j \in DOMAIN bytes}

\* No changed or exchanged part of a packed block gets past the peer's
\* comparison of the merkle roots.
DamageIsRefused ==
  [][packed' # packed /\ packed' # NULL =>
       \A bytes \in Damaged(packed'.bytes) \ {packed'.bytes} :
         Decode([packed' EXCEPT !.bytes = bytes], tree').trans = NULL]_vars

\* "The serial number changes as soon as it is used and is never rolled back"
\* (m_nSequenceNumber of CCpsConfig): no two submissions are answered with the
\* same key, though a rollback gives ids out again.  It does not hold: a start
\* of the process sets the number back (OnInit, line 136).
KeysDiffer == IsInjective(keys)
=============================================================================
