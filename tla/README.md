# A TLA+ verification project for the vorder order node

vorder is the ordering service of a consortium chain. An *order node* answers
the transactions submitted to it, packs them into blocks, distributes each
block to the peers that store the chain, and makes the block final in its own
files once enough peers hold it. The nodes of a channel elect the one that
does this by a vote modelled after Raft. The repository has no documentation
apart from comments and no tests, so the modules are written from
the code under `src/src/`.

In this text CPS stands for `CChannelProcessService`
(`src/src/vbh_server/order/plugin/ord_cps/order_channel_process_service.cpp`)
and CPAS for `CChannelProcessAgentService`
(`src/src/vbh_server/order/plugin/ord_cpas/order_channel_process_agent_service.cpp`);
a number behind one of them is a line of that file.

## 1. Inventory

| Component | State | Operations | What makes it correct |
|---|---|---|---|
| CPS, block persistence and recovery | `m_pConfig` (flag, id, hash), `m_pCfgLog`, the log buffer, device pages, queue of packed blocks | `PersistentBlockQueueHeader`, `SaveToLog`, `Persistence`, `RedoByLog`, recovery in `OnInit` | after any crash config, log and device are those of one block; height moves by one |
| CPS, block distribution | queue, `m_pCurBlockInfo`, connect handlers with answer flag and resend timer, answer count, re-persistence timer | `OnTimePackBlock`, `DistributeBlock`, `OnTimeDistributeBlock`, `OnTimeRepersistence`, registration, answer, `OnNetworkError` | only blocks that a quorum holds are persisted; every packed block gets there |
| CPS, transaction packing | current block, encoder, last allocated id, version table | the submission handlers, `OnTimePackBlock`, `RollbackPartBlock` | ids, chain and version table are the effect of exactly the packed transactions, also after a rollback |
| CPS, master start | handler list, `m_vecPeerInfo`, CPS state | registration and query before a master serves, `GetTheMostBlockHeightInfo`, role changes | a master serves with every block ever persisted; making peers drop blocks never takes a persisted one below its quorum; it gets on to serve |
| CPS, order synchronisation | target block, retry timer, version table | `CMasterSyncVersionTable`, `OnSyncTimeOut` | it ends at the chosen block; wherever it is interrupted, config, log and table are those of one block |
| CPAS, leader election | role, term, vote count, connections | vote and heartbeat handlers, `RaftVoteTimeOut`, `RaftHeartBeatTimeOut` | one leader per term, elected by a majority |
| Version table and record cache | page cache, dirty pages, modify packages, log | `CVbhMultiUpdateTable`, `CVbhRecordTable`, `CVbhPageTable` | a read returns the newest version, cached or not; packages, queue and device stand for the same blocks |
| Update and append tables | page cache, pages of the transaction, log | `CVbhUpdateTable`, `CVbhAppendTable` | a transaction reads its own changes; whenever the process dies the records from before it come back |
| vbfs | tables of the files on several devices, of raw or directory kind | `CVbfs`, `CFileVbfs`, `CRawVbfs` | a file has one place, its own, for ever; allocating again is harmless |
| Double queue | links inside the nodes | `CVbhUniteDqueue` | the links stay those of one sequence |
| Block codec, merkle tree, sequence numbers | encode buffer, tree nodes, count, serial number | `CBlockEncoder`, `CMerkelTree`, `vbhDecodeMemBcBloc`, `CombineSequenceNumber` | a peer decodes what was submitted, and notices damage |
| Router, messages, keys, encryption, plugin and application | none of the protocol's | conversions, start-up | - |

**Interaction.** CPS and CPAS run in two containers, hence on two threads.
CPAS decides who leads and calls `ChangeCpsToMasterState` and
`ChangeCpsToFollowerState` of CPS directly; CPS receives the vote requests and
heartbeats of other agents and calls `GetRaftVoteRsp` and
`ReceiveRaftHeartBeat` of CPAS directly. Peers (CS) register
with CPS, receive blocks and answer. Packing fills `m_queueBlockInfo`;
distribution works on its front, one block at a time; persistence removes the
front; the version table keeps one modify package per queued block. The tables
read and write pages through a cache whose pages are linked by the double
queue, and their files are allocated by vbfs. `CVbhUpdateTable` and
`CVbhAppendTable` are the peers' tables, built on the same cache.

**What is hard here.** A crash between any two assignments to memory-mapped
files; a page write that fails half way; answers that are late, repeated or
from a connection that is gone; timers that meet another block than the one
they were armed for; an answer sent before the transaction is recorded; a cache
that evicts a page while it is changed, rolled back or read; a file that is
allocated again because its write was not answered; votes
that arrive in a later candidacy; two threads on the vote state; role changes
that do not reset what the former role left. Each is listed in `PROJECT.json`
under `hazards`, at its line, with the property that covers it or the reason
why none does.

## 2. Modules

```
DurableTable <--refines-- BlockPersistence <-- BlockPersistenceProofs
                           ^ one step of
                          BlockDistribution     TransactionPacking     RaftVote <-- RaftVoteProofs
                           ^ serves after        ^ bytes   ^ table      | decides who leads
                          MasterStartup <-------------------------------+
                                                 |         |
                       MerkleTree <-- BlockCodec           |
PackedTable <--refines-- OrderTable (VersionTable) --------+ <-- OrderTableProofs
                           | cache
                          RecordTable --> UniteDqueue
                           | cache
                          PageTable <-- UpdateTable, AppendTable <-- PeerTables
FileStore   <--refines-- Vbfs <-- VbfsProofs
BlockDistribution <-- BlockDistributionProofs
TransactionPacking <-- TransactionPackingProofs
BlockCodec <-- BlockCodecProofs
MasterStartup <-- MasterStartupProofs
MC<module> extends <module> and holds what its configurations need.
```

Most modules have a constant `Exposed` (`RiskyCrash` in `BlockPersistence`).
It names events against which the code has no defence, and each configuration
of a passing run excludes them all (`MasterStartup.cfg` allows one that its
single fault cannot bring about). So a passing run says two things: which
properties hold, and outside which windows. What fails when a window is opened
is said below and was found by adding the one value to the configuration.
Where a comment of the code claims what fails there, the window is a finding
(section 5). The others are hazards only, since no document,
comment or test of the repository promises anything about them.

### DurableTable, BlockPersistence, BlockPersistenceProofs

`DurableTable` is the promise: a table of pages and a height that change
together, one block per step. `BlockPersistence` is what the code does.
`PersistentBlockQueueHeader` is cut at every write that survives the process:

| Code | Action |
|---|---|
| CPS packing, as seen from storage | `Pack` |
| `SaveToLog`: page count, then page by page over the old content | `SaveToLog`, `EncodePage` |
| config log: block id, then block hash | `LogBlockID`, `LogBlockHash` |
| flag := BEGIN | `BeginModify` |
| `Persistence`: one `WritePage`, which may fail | `PersistPage`, `PersistFail` |
| config: id, hash, flag := END, pop | `SetBlockID`, `SetBlockHash`, `EndModify` |
| process dies | `Crash` |
| `OnInit`: flag tested, `RedoByLog`, id, hash, flag | `Restart`, `RedoPage`, `RedoFail`, `RedoBlockID`, `RedoBlockHash` |

`pc` and `k` say where in this sequence the node is. A page write is taken as
one step, and the memory-mapped files as written in program order: what is
modelled is the death of the process, not of the machine. A hash digests the
whole chain; it is modelled by the height and table it determines.

*Refinement.* What a restart would find at a moment (`RestartHeight`,
`RestartTable`) is the pair of abstract variables. They change in one step:
`BeginModify`, or the log of a retried block, makes the log decide; every
other step, crashes and recoveries included, is a stutter.

*Unprotected windows* (`RiskyCrash`):

- `"staleFlag"`: after a replay `OnInit` sets the flag to BEGIN, not to END
  (CPS 129). A crash while the next log is being written then replays a log
  that is of no block: `CrashConsistent` fails.
- `"failedWrite"`: when a page write fails the flag is cleared although some
  pages are new (CPS 1694), so a crash before the retry leaves a torn device
  unrepaired: `CrashConsistent` fails.

### BlockDistribution, BlockDistributionProofs

The order node in `EN_MASTER_NORMAL_STATE` with its peers. `queue`, `cur`,
`blockID`, `conn` and `repersist` are the code's fields; `round` collects the
answer flags and resend timers of the handlers and the answer count. The
network is a FIFO per direction and peer, which loses messages only when the
connection breaks (`OnNetworkError`). `HandleAck` is
`CDistributeBlockXcsCpsRsp` split by its branches, `Register` is
`CRegistCsCpsReq`, and `OnTimeDistributeBlock` and `OnTimeRepersistence` are the
timers; a null front that is dereferenced shows as `alive = FALSE`. The peers
(`PeerConnect`, `PeerStore`, `PeerStoreFails`, `PeerSync`) are external: they
store blocks in order, answer for every block they hold, do not answer when
storing fails, and fetch what they miss from each other. Since there is one
master, a block is its id and the hash checks of a registration succeed;
`MasterStartup` has the hashes.

*Unprotected windows:*

- `"countedPeerReturns"`: a peer that was counted registers again (over a new
  or the same connection) and its next answer is counted again:
  `QuorumStored`, `CountIsHonest`.
- `"lastPeerLeaves"`: while no peer is connected `DistributeBlock` returns
  before it clears the count: `QuorumStored`, `CountIsHonest`.
- `"mailDuringRepersist"`: while the re-persistence timer is armed, one more
  answer persists the block itself and the timer later persists the next one
  without any answer, or finds no block; a registration arms a resend timer that
  outlives the block: `QuorumStored`, `TimersHaveBlock`.

*Fairness.* `PackedIsPersisted` is checked under weak fairness of: handling a
message that arrived (the container's loop delivers them in turn),
`OnTimeRepersistence` (a periodic timer, whose write succeeds in the end), and
the peers' own steps (a peer that is up reads what it is sent and reconnects,
which is their part of the protocol), and of `OnTimeDistributeBlock`, the resend timer
of a handler, which fires once after it was armed. No fairness is assumed of
packing, of breaking connections or of failing stores. One failed store is
repaired by the resend; two failed stores of a peer that is needed are not
(`PackedIsPersisted` fails with `MaxFail = 2`), because the timer fires once
(CPS 340) and `OnTimeDistributeBlock` does not arm it again.
With weak fairness on the handling of an answer as a whole, a persistence that
fails is followed by the timer, whose retry may not fail for ever.

### TransactionPacking, TransactionPackingProofs

The submission handlers, each as answer, encoding, table operation and packing
in one step, since a handler runs to its end on one thread. `Record` is their
common tail. The version table is one function of record id (`view` is what
`Read` finds, `queue[i].table` what a queued block's modify package stands for,
`stored.table` what is on the device): what `OrderTable` shows the table
with its pages and caches to be. `SubmitFails` is a failing `Append` or
`Update`, which ends in `RollbackPartBlock`; `acked` is history and holds the
answers whose block is not yet persisted. A block that reaches its size is a
choice here; `BlockCodec` counts sizes. The result of the version check is dropped
in the code (CPS 1307), so any version is accepted here, too.

*Unprotected window:* `"countOverflow"`: a registration, which adds two
transactions, takes the last free place; the limit is tested with `==`, the
count wraps to 0 and `AckedKept` fails.

### BlockCodec, MerkleTree, BlockCodecProofs

The same submissions at the level of bytes. `buf`, `offset` and `tree` are the
buffer of the current block, the position and the merkle tree of
`CBlockEncoder`; `packed` is the newest packed block with the transactions its
submitters were told of. `Room` is `Resize` with `ResetEncodeBuffer`, which
copies the half-filled buffer to a longer one; `Record`, `RollbackPartBlock`
and `OnTimePackBlock` keep, drop and finish the block. A sequence number is a
type above a serial number, which is below `Serials` (2^28 in the code):
`CombineSequenceNumber` shifts and sets bits, which for such a number is
multiplying and adding; `SequenceNumberInc` wraps at the last one. `Decode` is
`vbhDecodeMemBcBloc`, which a peer runs on the block: it cuts the transactions apart, recomputes the tree in
a tree it has used before, and compares the roots. `MerkleTree` is
`CMerkelTree`: levels overwrite each other in one array that grows as it fills.
A digest is the data it digests.

*Unprotected window:* `"countOverflow"` as above: `BlocksDecode` fails.

`keys` is the history of the keys that were answered. `KeysDiffer`, that they
are all different, is stated and in no run: each start of the process sets the
serial number back (`OnInit`, CPS 136), so it does not hold (section 5).

### RaftVote, RaftVoteProofs

The agents of one channel: `RaftVoteTimeOut`, `RaftHeartBeatTimeOut`,
`ReceiveVoteReq` with `GrantVote` (`CRaftVoteCpsCpasReq` through
`GetRaftVoteRsp`), `ReceiveVoteRsp`, `ReceiveRaftHeartBeat` with `StepDown`,
and `OnNetworkError`, `OnConnectedNodify` and `OnInit` for connections and
restarts. A timer may fire whenever it is armed, since the code's times are
configured and random. `cps` is what the agent made of its CPS. `votes`,
`elected` and the term in an answer are history.

*Threads.* Timers and answers run on the agent's thread, requests and
heartbeats on that of CPS, and no lock protects role, term and vote count. A
handler of the CPS thread that will change them is two steps: the first
compares the term and remembers what it saw (`handled`), the second writes.
What both threads write without a lock ends as either's value (`Written`). A
vote counted between the two steps is in every run; a timer there, or a vote
counted during a heartbeat, only with `"threads"`.

*Unprotected windows:*

- `"staleVote"`: an answer for an earlier term counts in the present candidacy
  (the answer carries no term): `LeaderHasMajority` and `ElectionSafety` fail.
- `"restartAhead"`: term and votes are in memory only, so a restarted server
  that was ahead of another may vote twice in a term: `ElectionSafety` fails.
- `"threads"`: a vote timer fires while a grant has compared and not yet
  written: the server votes for itself and for another in one term, and
  `ElectionSafety` fails.

A candidate or leader that grants a vote takes over the term and keeps its role
(CPAS 294). That is in every run: two servers may then both lead with the
same number as their term and ignore each other's heartbeats, but only one of
them was elected in it.

### MasterStartup

How an elected node becomes a serving master. `state` is `m_nCpsState`, `leads`
what CPAS decided (`BecomeMaster` and `StepDown` are its calls of
`ChangeCpsToMasterState` and `ChangeCpsToFollowerState`), `conn` the handler
list with what each handler registered, `vec` is `m_vecPeerInfo`, `target` and
`timer` are `m_orderSyncSession`, `chain` the config, `cur` the block id of
`m_pCurBlockInfo` (that of the process start until a block is packed) and `out`
the block being distributed. `dirty` says that a store that failed left the
versions of its block in the table. A block stands for the chain of contents it ends, so that its
length is its id and two blocks have the same hash when their chains are equal.

| Code | Action |
|---|---|
| `CRegistCsCpsReq`, in each state | `Register` |
| `CQueryMaxBlockInfoCsCpsRsp`, by its branches | `AnswerDropped`, `AnswerCounted`, `ChooseOwn`, `ChooseLater`, `BackspacePeers` |
| `CMasterSyncVersionTableCsCpsRsp`, by its branches | `TableIgnored`, `TableStored`, `TableNotStored` |
| `OnSyncTimeOut`, `OnNetworkError` | same |
| service, from `BlockDistribution`, one block at a time | `Pack`, `Deliver`, `Persist` |
| another order node while this one does not lead (external) | `OtherMaster` |
| peers (external): connect, answer, drop blocks, fetch blocks, send a block | `PeerConnect`, `PeerAnswer`, `PeerBackspace`, `PeerSync`, `PeerTable` |

`MostHeight` is `GetTheMostBlockHeightInfo` by what it computes: of the highest
blocks answered, one that most peers hold. `std::sort` leaves open which of
several equal groups and which of its peers comes first, so it is a choice. A
registered peer changes what it holds only by what it is sent, and registers
again when it changed. `persisted` is history: the longest chain an order node
made final. `stale` are answers whose handle is gone: sending to them fails. A
failed assertion (CPS 888), a null handler (CPS 649) or an index behind the end
of a list (CPS 922) shows as `alive = FALSE`.

`BackspacePeers` sends the message for a peer that is behind to the handler at
the *answer's* index in the handler list, which is in another order and has just
lost the peers that drop blocks (CPS 910, 922). While the index is inside the
list some registered peer gets it, not the one that is meant, and this is in
every run. `BehindAreSynced`, that the one meant gets it, is stated and in no
run (section 5). Behind the end of the list any former handler may be found, or
what ends the process (`"wildIndex"`).

Initially a quorum holds every persisted block, a peer may hold one block
that a former master sent and that never came to be persisted, and the node may
be behind. That is what `BlockDistribution` leaves (`QuorumStored`).

*The argument.* A persisted block is held by a quorum, so any quorum of answers
contains it or one behind it; a block above it that a quorum agrees on extends
it; a block above it that cannot get a quorum any more was never persisted and
may be dropped. This needs `2 * Kafka > Cardinality(Peers)`, which the code does
not check (CPS 1560): with four peers and a quorum of two, `ServesPersisted`
fails. It also needs that what a peer said is still true when it counts;
section 4 says how far it is.

*Unprotected windows:*

- `"lateAnswer"`: a block is persisted while a query or an answer of a
  peer that has not answered is under way, and the answer is counted later:
  `OrderStaysUp` fails at the assertion in CPS 888, without a fault (section 5).
- `"staleCurrent"`: a node that synchronised packs under the id that its current
  block had at the start of the process (CPS 1064): the config goes back to it, and
  peers are told to drop persisted blocks. `ServesPersisted` fails without a
  fault, `QuorumKept` with one (section 5).
- `"wildIndex"`: the index of CPS 922 lies behind the end of the handler list:
  `OrderStaysUp` fails without a fault.
- `"storeFails"`: an update, append or store of a fetched block fails and leaves
  its versions in the table, so that the check refuses the block from then on
  (`OrderTable` has the details): `SyncEnds` fails with one fault. A failing
  read of the check leaves nothing and is in every run.
- `"otherMaster"`: peers that are connected to this node, or whose answers it
  keeps, take blocks from another master, so registrations and answers are
  older than what the peers hold: `OrderStaysUp` fails (CPS 649), and `SyncEnds`
  if a connection breaks. With four faults `QuorumKept` fails, too: a node that
  stepped down in `EN_MASTER_START_STATE` keeps this state and its answers
  (CPS 482), counts further ones and, when none of the blocks can be agreed on,
  tells peers to drop a block that another master persisted since.
- `"groupLeaves"`: all peers that registered with the block to fetch leave while
  the node synchronises: `OrderStaysUp` fails with two faults (CPS 649), when a
  peer registers at the same height with another hash.
- `"secondTerm"`: the node is elected again with the answers and the state
  of its first term; together with `"otherMaster"`, `QuorumKept` and
  `ServesPersisted` fail.

*Fairness.* `SyncEnds` and `StartupCompletes` are stated under weak fairness of
handling what a peer sent, of the periodic timer, and of the peers' steps. None
is assumed of packing, of faults, or of the other master.

### UniteDqueue, RecordTable, VersionTable

Pure definitions: a queue, a cache, a table is a record, an operation of the
class is a function of it with the class's name, and the order of the
assignments is kept where it can be told. Loops over the ids or the dirty pages are
recursive functions, which the provers can reason about. `UniteDqueue` is `CVbhUniteDqueue`
with the links in its nodes. `RecordTable` is the cache of `CVbhRecordTable`:
`GetPage` finds a page or evicts the least recently used clean one for it,
grows the cache when all are dirty, and may fail. `VersionTable` is
`CVbhMultiUpdateTable`: a missing page comes from the newest modify package
that has it, else from the device; `PackModify` copies the
dirty pages; `SaveToLog`, `Persistence`, `CommitteTransaction` and `RedoByLog`
bring the oldest package to the device.

### PackedTable, OrderTable

`PackedTable` is what the order node needs of the table: `stored`, the
snapshots of the packed blocks, and the newest `view`, each one function from ids to
versions. `OrderTable` puts `VersionTable` under the handlers that
use it, each as one action:

| Code | Action |
|---|---|
| `CMasterSyncVersionTableCsCpsRsp`: check, apply, pack, log, write, config | `SyncRsp`; refused `SyncConflict`; failing at its n-th read, update or page write `SyncFails`; dying between two page writes `CrashInSync` |
| submissions | `SubmitAppend`, `SubmitUpdate`, `CheckVersion`; failing and rolled back `SubmitFails` |
| `OnTimePackBlock`, `PersistentBlockQueueHeader` | `PackBlock`, `Persist`, `PersistFails` |
| role changes | `BecomeMaster`, `StepDown` |
| process dies, also between two page writes of an own block; `OnInit` | `Crash`, `CrashInPersist`, `OnInit` |
| peers (external) | `PeersAdvance`, `Fetch` |

*Refinement.* `ImplementsPackedTable`: records are read through the cache, the
packages and the device; while a page write is to be repeated, or the log to be
replayed, the oldest package counts as stored. Evictions, reads, logs and
replays are stutters.

*Unprotected windows:*

- `"update"`, `"store"`: a fetched block fails after some of its updates, or
  after its package is made (CPS 1035). Nothing takes the changes back, so the
  retry conflicts with its own first attempt: `RetryCanStore`, which is stated
  and in no run, fails with each (section 5). With `"update"` nothing
  else does; with `"store"` `CacheConsistent`, `PackagesMatchBlocks`,
  `RestartFindsLastID` and `ImplementsPackedTable` fail, too.
- `"updateOnly"`: a fetched block without new ids takes the last allocated
  id back (CPS 979): `PackagesMatchBlocks`, `RestartFindsLastID`,
  `ImplementsPackedTable`.
- `"staleCurrent"`: after a synchronisation the current block has the last id
  of the process start (CPS 1064), and the master allocates from there: the four
  properties but the type invariant (section 5).
- `"stepDown"`: stepping down frees the queue and the current block and leaves
  packages and dirty pages (CPS 461): the same four.
- `"tornCrash"`: a crash between a failed page write and its repetition
  (CPS 1694): `PackagesMatchBlocks`, `RestartFindsLastID`, `ImplementsPackedTable`.

A synchronised master that packs before it allocates, or whose fetched blocks
added no ids, is in the runs: `Serving` only asks that the id is not below
that of the last block.

### PageTable, UpdateTable, AppendTable, PeerTables

The two tables of the peers. Their callers are not in the repository, so
`PeerTables` runs one transaction after the other in the order the headers ask
for: changes, `SaveToLog`, `Persistence` with all or a part of its writes,
`CommitteTransaction`, or `RollbackCache` before and `RollbackTransaction`
after the log; `Restart` is `Open` with `RecoverFromLog` at any of these
points. Pages are evicted and loaded in between, and loading may fail. A page
that `RecoverFromLog` cannot read is not tested for null (`vbh_update_table.cpp:201`)
and ends the process, so that the next `Restart` finds what this one found.

*Unprotected windows:*

- `"updatedTwice"`: a record updated twice is rolled back to the first change
  (the old values are restored oldest first): `ReadsOwnChanges`, `LogRestores`.
- `"recoveryFails"`: a write fails during a rollback and leaves pages marked
  and in no list: `ReadsOwnChanges`, `MarkedIsListed`, `LogRestores`.
- `"pageKept"`: the page being filled is kept unmarked after a rollback and may
  be evicted while it is filled: `ReadsOwnChanges`, `MarkedIsListed`, `LogRestores`.
- `"appendPersisted"`: an append table is rolled back after `Persistence`,
  when its log is already the new config: `TypeOK`, `ReadsOwnChanges`, `LogRestores`.
  `AppendRollback.cfg` shows that this is also what a restart meets.

### Vbfs, FileStore, VbfsProofs

The files of the tables on a list of devices that are filled one after the
other. A raw device (`CRawVbfs`) has equal places behind an index of which one
block is in memory, a directory device (`CFileVbfs`) a directory per file type.
`AllocNext` and `Repeat` are `AllocatFile` for the next and for the newest file,
with the write of the index or the file failing or not; `NextDeviceFails` is the
call that finds the last device full and cannot open the next one (`vbfs.cpp:261`),
after which `Close` has freed the devices of a process that still runs, and a later call may end it;
`Restart` reads the devices again. `FileStore` is the abstract promise, which
`KeepsPlaces` shows `Vbfs` to implement: a file, once allocated, keeps one place
of its own.

*Unprotected windows:*

- `"fsRepeat"`: a repeated call on a directory device counts the file
  twice: `CountsMatchDisk`, `CallsSucceed`.
- `"fsFull"`: a full directory device answers an error, so that the next
  device is never opened: `CallsSucceed`.
- `"late"`: a repeated call when the device is full, or is no longer the last:
  `CountsMatchDisk`, `CallsSucceed`.
- `"untidy"`: a restart after a failed write that left a hole in the index or a
  file that was not counted: all three.
- `Uninitialised`: values `m_nStartFreePhyFileIdx` may have when a full raw
  device is opened, where nothing sets it. With small values all three fail;
  the configuration has a large one.

## 3. Runs

| Run | Result | What it shows |
|---|---|---|
| `BlockPersistence.cfg` | passes | crashes between any two durable writes, failing page writes and repeated recoveries keep config, log and device of one block, and implement `DurableTable` |
| `BlockDistribution.cfg` | passes | a block is persisted only when a quorum holds it, the count never exceeds the holders, timers find a block, every packed block is persisted |
| `TransactionPacking.cfg` | passes | chain, ids, version table and answers under packing, persistence and rollback in any order |
| `BlockCodec.cfg` | passes | whatever buffer, trees and counts went through, a packed block decodes to what was answered; no damage passes the check |
| `RaftVote.cfg` | passes | one leader per term with a majority of votes, across broken connections, restarts and the steps of two threads |
| `FollowerKeepsServing.cfg` | violates `MasterLeads` | stepping down leaves the CPS a master (CPS 482) |
| `MasterStartup.cfg` | passes | whatever the peers hold, a new master serves with every persisted block, no persisted block loses its quorum, no assertion fails, and synchronising ends in spite of one fault, a failing read included |
| `StartupStalls.cfg` | violates `StartupCompletes` | without any fault: peers that were made to drop a block are not heard again, and the master never serves (CPS 808) |
| `OrderTable.cfg` | passes | cache, packages, queue and device stay those of the same blocks through fetching, packing, rollback, persistence and crashes, also in the middle of writing a fetched block; a restart goes on from the last id there is; all implement `PackedTable` |
| `PeerTables.cfg` | passes | a transaction reads its own changes through any evictions, every changed page is written, and at every moment log and device together restore the records from before it |
| `AppendRollback.cfg` | violates `RecoveryRollsBack` | an append table persisted but not committed is not rolled back at the next start (`vbh_append_table.cpp:72`) |
| `Vbfs.cfg` | passes | files keep their places over two devices, failing writes, a next device that does not open, repeated calls and restarts |

**Bounds.** `BlockPersistence`: two pages and two contents are enough for a
torn write and for a block that leaves a page alone; three blocks and a queue
of two let a log be overwritten by the next one's while a third block waits.
`BlockDistribution`: three peers and a quorum of two leave one peer behind or
absent; two blocks let the bookkeeping of one meet the next; one fault is a broken
connection or a store that fails, which is what the excluded events need. `TransactionPacking`: three
transactions per block, two queued blocks, four blocks in all, two ids and two versions give a
rollback behind queued blocks and a block that fills exactly.
`BlockCodec`: a first tree node and steps of one make every transaction but
the first grow the tree; three transactions, two payload sizes and a block of
five cells give blocks that end by count and by size, odd and even trees, and
buffers replaced in the middle of a block; five submissions use each of the four
serial numbers and the first again. `RaftVote`: three
servers and two terms are a stale vote and two leaders; one fault is a
restart or a broken connection; one message per connection and direction
lets an answer of the first candidacy be under way with the request of the
second (a server whose connection is still occupied waits before it sends, which
loses only the case that two messages wait behind each other).
`MasterStartup`: three peers and a quorum of two give groups of one and
two, one persisted block with two possible contents and one above it give
peers that are behind, even, ahead, and on another block of the same height;
one fault is a broken connection, a failing read of a fetched block's check or a lost term. The sync
timer asks a peer again only when nothing is under way to or from it (`MaxMail`),
since a second request is answered like the first. `OrderTable` and
`PeerTables`: three ids on pages of two records are two pages, a cache that may
keep no clean page and grows by one evicts at every chance; two
queued blocks or two changes per transaction, and two faults (three in
`OrderTable`, where two blocks are fetched), let a fault meet
what another left. `Vbfs`: two types, two devices of four places, an index of
blocks of two and three files per type fill a device, cross a block of the
index and open the next device; two faults as above.

`MCOrderTable` and `MCPeerTables` have a `VIEW` that leaves out which of the
interchangeable page objects holds a page, the id of the current block of a
dead node, and a log that is written again before it is read: states equal under it
have the same behaviours and satisfy the same properties.

`CHECK_DEADLOCK FALSE` appears in the modules whose work ends at a bound: when
the last block is persisted, the last transaction packed, the last term or
file used up, nothing is left to do. `BlockPersistence` is checked for deadlock.

Symmetry is used for the servers of `RaftVote`, where every property is
an invariant. `MCMasterStartup` has a temporal property and uses none; it only
orders the initial chains of the peers, which loses no behaviour up to a renaming
of peers, since neither the specification nor a property names one.

## 4. Proofs

### BlockPersistenceProofs

For every finite set of pages, every
non-empty set of contents and all bounds, under `Protected == RiskyCrash = {}`
(no crash falls into an unprotected window):

| Theorem | Statement |
|---|---|
| `TypeCorrect` | `Spec => []TypeOK` |
| `CrashSafety` | `Spec => []CrashConsistent` |
| `RecoverySafety` | `Spec => []Recoverable` |
| `HeightSafety` | `Spec => HeightAdvancesByOne` |
| `Refinement` | `Spec => ImplementsDurableTable` |

They rest on one inductive invariant, `IInv` (`InductiveInvariant`).
`CrashConsistent` speaks of the idle node and is not inductive: what a crash
leaves behind depends on how far the writes had come. `IInv` has one clause
per place the node can be at:

- `QueueChained`: each packed block carries the table of the block before it
  with its own pages changed, the first one that of the config. So the pages
  *outside* a block's package need not be written.
- `AtSaving`, `AtPages`, `AtConfig`: how much of the front block is in log,
  config log, device and config; before the flag is set the device is intact,
  after it the log is complete.
- `AtDown`, `AtRedo`: with the flag set, replaying the log ends in the block of
  the config log (`RedoReady`), however often it is interrupted.
- `AtIdle`: a failed write leaves a complete log and a device that differs
  from the config in logged pages only; after a recovery the log still replays
  to the config's block, although the flag says BEGIN.

There is one lemma per action (`...IInv`). The refinement adds what a restart
would find (`Found`): it is the hash of the config log or that of the config
(`RestartFindsBlock`), and `StepFound` shows that it changes only when the
log of the front block starts to decide.

### BlockDistributionProofs

For every finite set of peers, every quorum of at least two and all bounds on
blocks, queue, breaks and failed stores, under `Protected == Exposed = {}`:

| Theorem | Statement |
|---|---|
| `TypeCorrect` | `Spec => []TypeOK` |
| `StoredByQuorum` | `Spec => []QuorumStored` |
| `HonestCount` | `Spec => []CountIsHonest` |
| `NoEmptyFront` | `Spec => []TimersHaveBlock` |

The node counts answers, and forgets whose they were when a connection breaks,
so `CountIsHonest` is not inductive. `IInv` (`DistributionInvariant`) speaks of
`round.counted`, the peers the count stands for:

- `Books`: the count is the number of these peers, and those of them that are
  still registered have their flag set. A counted peer that left has no flag,
  and only its registration could give it a second answer.
- `ToOrder`: what is under way from a peer that is not registered is its
  registration only (`SilentOn`), and an answer is for a block its sender has
  (`HonestOn`). So an answer that counts comes from a peer that holds the front
  and was not counted (`AnswerCounts`).
- `Fits`, `Waiting`: the counted peers hold the front of the queue, an empty
  queue leaves no timer, and while the node waits to persist the front again
  the quorum stands and no resend timer is armed.
- `Node` has at least one peer registered: with none, `DistributeBlock` would
  return before it clears the count.

Each of the three events of `Exposed` breaks one of these clauses, as section 2 says.

### RaftVoteProofs

For every finite set of at least two servers and all bounds on terms, faults
and messages, under `Protected == Exposed = {}`:

| Theorem | Statement |
|---|---|
| `TypeCorrect` | `Spec => []TypeOK` |
| `ElectionSafe` | `Spec => []ElectionSafety` |
| `LeaderMajority` | `Spec => []LeaderHasMajority` |

The textbook argument, that two majorities share a voter and a voter votes
once in a term, is not available here: a restarted server has forgotten its
term and votes, and a server may vote in one term for itself and for another.
`IInv` says what is left:

- `OthersReached`, `AskedLater`: only a server that is not ahead of another
  restarts, so when a server has forgotten a vote of term *t* (`Forgot`), all
  others are at *t* or beyond, and every request on its way to it is of a
  later term. Hence what it grants is above everything it voted in
  (`AskedIsNew`), and it votes for at most one *other* server per term (`OneGrant`).
- `GetsNoOther`: what it may still do is become a candidate of a term in which it
  voted for another (`Both`). All others have reached that term and grant
  nothing in it, so it has no vote but its own, which is no majority
  (`BothNeverLead`).
- `VotesAsked`, `AsksVoted`, `SaysVoted`: what is under way stands for votes.
- `Backed`, `Undecided`: a candidate's number is covered by voters whose answer
  is no longer under way (`Pending`), which makes the bare count of answers a
  count of servers; `GrantsOnce` says that an answer is there once.
- `HandledFresh`: what the first step of a handler found still holds at the second.

What a step does to the messages and what it does to the votes are kept
apart: `TimerCore`, `GrantCore`, `CountCore`, `RestartCore`, `StepDownCore` and
`QuietCore` preserve `Core` given only how `Asks` and `Says` change, and one
lemma per action (`...Keeps`) connects them with the queues. `MajoritiesMeet`
is proved from the pigeonhole principle.

### TransactionPackingProofs

For every width of the transaction counter, every limit on queue, ids and
blocks and every set of versions, under `Protected == Exposed = {}` (no
submission brings two transactions for one free place):

| Theorem | Statement |
|---|---|
| `TypeCorrect` | `Spec => []TypeOK` |
| `ChainSafe` | `Spec => []ChainLinked` |
| `IdsSafe` | `Spec => []IdsContiguous` |
| `TableSafe` | `Spec => []TableFollowsBlocks` |
| `AnswersSafe` | `Spec => []AckedKept` |

`IInv` (`PackingInvariant`) says of every queued block, and of the current one,
that it `Follows` the block before: its transactions allocate the ids between
the two marks, each once, and turn the one table into the other. It is
inductive only with `CountKept`: the current block is never full, so one
transaction always fits and the handler's `==` finds the limit. The steps need
that a further transaction extends what `Follows` says (`FollowsAppend`), which
rests on `AfterAppend`: the last writer of an id. That a bounded set has a
maximum at all is proved from the well-foundedness of the naturals
(`LeastNatural`, `MaxOfBounded`).

### MasterStartupProofs

For every finite set of peers and every `Kafka` of at least two, all contents,
histories and bounds:

| Theorem | Statement |
|---|---|
| `TypeCorrect` | `Protected /\ Majority /\ Spec => []TypeOK` |
| `StartSafe` | `Protected /\ Majority /\ Spec => []ServesPersisted` |
| `BlocksSafe` | `Protected /\ Majority /\ Spec => []QuorumKept` |
| `StaysUp` | `Sheltered /\ Majority /\ Spec => []OrderStaysUp` |

`Protected` says that `Exposed` has none of `"lateAnswer"`, `"otherMaster"`,
`"secondTerm"` and `"staleCurrent"`, `Sheltered` that it has neither
`"groupLeaves"` nor `"wildIndex"` either, and
`Majority` that two quorums meet. Each is needed, as section 2 says. So the
theorems speak of a node that packs only while its current block has the id behind
the config's: one that was up to date when its process started. Stores that fail, indices
behind the end of the list (for the first three), faults, packing, other masters (before peers connect) and reconnecting peers are all
in `Spec`, without a limit on their number but the arbitrary constant.

The argument of section 2 speaks of what peers *hold*, the code knows only
what they *said*: when they registered, and when they answered. `IInv`
(`StartupInvariant`) bridges the two.

- `Quiet`: until something was decided that a peer has to be told (`Untold`),
  it holds what it said.
- `Kept`: after that, as long as answers can still count, the peer holds the
  block it claims if that block is the persisted one or can still be agreed on.
  So a decision is about blocks that are there, and the block the node fetches
  comes from a peer that has it (`Fetch`).
- `Leads`, `Backspaces`: peers are sent only to what was agreed on, and told to
  drop a block only when no block of its height can be agreed on (`Dead`), or by a
  serving master. This is where two branches of the code meet: a block that was
  chosen is never `Dead` (`AgreedOn`).
- `Quorums`: the quorum of the persisted block exists twice. `Safe` are
  the peers that hold it and are not told to go below it; `Wit` those that hold
  it and whose answer, given or under way, shows it. The first gives
  `QuorumKept`; the second makes every agreed block the persisted one or one
  behind it.
- `Answering`, `Dropping`, `OutKept`: once the node serves, it packs blocks of the
  same height as those that peers were told to drop. A late answer with such a
  block still counts, and a peer may have got the new block while the order to
  drop the old one is on its way; these clauses say that it is then not
  registered, so it does not count for persisting the new one.
- `Low` and `Closed` say how long answers matter: until the node serves and
  nobody is left to answer. `"lateAnswer"` opens exactly this clause.

`StaysUp` adds `UpInv`: until the node serves, every peer that is led anywhere
is led to what was agreed on and registers with it (`Led`), so a registered peer
with the target exists for CPS 649 unless all of them leave. `alive` at CPS 888
follows from `Dead`: the block the peers drop is behind the persisted one, and
the node has no block behind that.

There is one lemma per action and branch (`...Safe`, `Up...`). A step disturbs
the invariant of one peer, and the others are kept by `Frame` and `OnePeer`.

### BlockCodecProofs

For any growth of the tree, any payload and block sizes, largest count, number
of serial numbers, channel and number of submissions and restarts, under
`Protected == Exposed = {}`:

| Theorem | Statement |
|---|---|
| `PackedBlocksDecode` | `Protected /\ Spec => []BlocksDecode` |
| `DamageStaysRefused` | `Protected /\ Spec => DamageIsRefused` |

`BlocksDecode` speaks of the packed block only; what that is made of lies in the
buffer, the tree and the count of the current block. So `IInv` (`Invariant`) says of
both blocks that they are the encoding of a list of transactions:

- `CurrentHolds`: the buffer begins with the bytes of `told`, one transaction
  after the other (`Written`, with the places of `Ends`), the tree begins with
  their leaves (`Leaves`), the count is their number and below the largest.
  What lies behind is arbitrary: junk of the allocation, of a block
  rolled back, or of an earlier tree.
- `PackedHolds`: the packed block is exactly these bytes, their number, and the
  root of their leaves.
- `SerialTyped`: the serial number is one, so that what `CombineSequenceNumber`
  makes of it has the type the decoder reads off.

Three arguments carry it:

- *The root stands for the leaves.* `Above` overwrites the array it reads; before
  node *k* is written, the nodes from *2k - 1* on are still those of the level
  below. `LevelsAgree`: two levels computed so agree exactly when the ones below
  them do, also when the last node is its own partner. By the rounds of
  `BuildLevels`, two trees *of as many leaves* have the same root exactly when they
  have the same leaves (`RootsAgree`, `RootTells`). Trees of different
  numbers of leaves can have the same root (three leaves, and the same with the
  last one repeated); that they are told apart here is due to the count in the header.
- *Encoding.* `EncodeAll` keeps `Written` and `Leaves` and moves on to the next
  place; `Room` keeps them although the buffer is another one.
- *Decoding.* `PackDecodes` follows the loop of the decoder along the places of
  the transactions. `DamageFound` is more than `DamageIsRefused` needs: *any*
  bytes of the same length that are not refused are the bytes packed.

That digests of different data differ is how the model has them, and the one
thing about the hash function that is taken for granted.

### VbfsProofs

For every finite set of file types, any number of devices of any size, any block
of the index and all bounds, under `Protected`: `Exposed = {}`, and an
uninitialised `m_nStartFreePhyFileIdx` is no valid place:

| Theorem | Statement |
|---|---|
| `TypeCorrect` | `Spec => []TypeOK` |
| `CountsSafe` | `Spec => []CountsMatchDisk` |
| `CallsSafe` | `Spec => []CallsSucceed` |
| `Refinement` | `Spec => KeepsPlaces` |

`IInv` (`FilesInvariant`) has a part for each kind of device and one for the
list of them:

- `RawSound`: the places before the first free one are divided among the types
  in increasing order, and the *i*-th place of a type holds the entry of file
  *i*, or none if its write failed. That a place is never less than the number of
  its file keeps a restart's numbering the same when the index has no hole.
- `BufferSound`: the block of the index in memory has *all* entries of its
  block, those whose write failed included, and nothing behind them. So the next
  write repairs what an earlier one left; without this `CountsMatchDisk` is
  not inductive.
- `FsSound`: a directory has the counted names, and at most one more per type.
- `Sound`: the open devices are sound, all but the last of them are full, and
  those behind are untouched.
- The tables count as many files of a type as the devices (`Ahead`), or one
  less on raw devices, where a file is counted before its entry is written.

`DeviceAllocates`, `DeviceReopens` and `DeviceIsNew` state what the operations do
to one device; `Replaced` and `Added` carry this to the list, where
`AllocatesNext` (a call) and `RestartOpens` (a restart) give the step lemmas
(`...Keeps`). Each also says that `Locate` is the same before and after for the
counted files (`PlaceKept`), which with `FilesApart`, that two files never share
a place, is the refinement. A restart's case rests on `DiskIsTidy`: the place
of the last counted file has its entry, so the device counts it again
(`RawReopens`, with `PrefixExists`: in an increasing list the places below a
bound come first).

### OrderTableProofs

For any number of records, records per page and page objects (more than there
are pages: the code allocates them), any cache limits, versions, queue and
number of faults, under `Protected == Exposed = {}`:

| Theorem | Statement |
|---|---|
| `Types` | `Protected /\ Spec => []TypeOK` |
| `CacheStaysConsistent` | `Protected /\ Spec => []CacheConsistent` |
| `PackagesStayWithBlocks` | `Protected /\ Spec => []PackagesMatchBlocks` |
| `RestartKeepsLastID` | `Protected /\ Spec => []RestartFindsLastID` |
| `Implements` | `Protected /\ Spec => ImplementsPackedTable` |

The windows `Protected` closes are those section 2 lists: in each of them but
`"update"` one of these properties does fail. Faults outside them, failing reads and
page writes, crashes also between the page writes of own and fetched blocks, rollbacks, role changes and other
masters, are all in `Spec`.

The proof goes up in layers, each of which hides the one below:

- *The links of the queue agree* (`Linked`): each operation of `UniteDqueue` keeps
  them consistent and adds or removes only its node (`PushBackKeepsLinks`,
  `PushFrontKeepsLinks`, `PopFrontKeepsLinks`, `PopBackKeepsLinks`,
  `InsertKeepsLinks`, `EraseKeepsLinks`), under the preconditions the class leaves
  to its callers; `CacheConsistent` says that the cache meets them.
- *The queue is one sequence* (`Strung`): the operations of `UniteDqueue` that
  the cache uses do to its links what appending and removing do to a sequence.
- *The cache is a set of page objects* (`Cache(c, E, H)`, `Whole`): the queue
  strings the objects `E`, the map finds each of them under its page, the counter
  counts them, and all but the ones in hand (`H`) are free. Between the statements of
  `GetPage` the evicted object is in hand. With it come what a page that
  is found holds and which page is lost (`Parted`); a page that is dirty never is.
- *The table is one function of pages* (`Sound`, `Newest`): a clean cached page
  is the newest packed copy of it, or else the device's; the list of dirty pages
  has each marked object once. So evicting and loading change no answer
  (`Stays`), a rollback leaves the packed records, and packing moves them.
- *The node* (`IInv`, theorem `Invariant`): `Queued` and `OnDevice` say that
  packages, queue and device are blocks of one history whose records are
  contiguous (`UpTo`); `Shown` that the node's last id is that of the records it
  answers with; `Logged` that, while the flag is set, replaying the log gives
  the last block; `Broken` and `Asked` where a torn write and a request for a
  block may be; `Resting` that only a serving master has changes of its own.

`RestartFindsLastID` needs `OnDevice` for a device at rest, `Logged` while the flag
is set, and `Queued` for the block that is written next; none is about ids alone,
which is why the whole table is in the invariant. What the handlers do item by
item is a recursive function over the ids, about which the proofs reason by the
least id for which a claim would fail (`Chains`).

*Refinement.* `SubmitAppend` and `SubmitUpdate` are a `Change` of the abstract table,
`PackBlock` is `Pack`, `SubmitFails` is `Rollback`, `SyncRsp` and `CrashInSync` are
`Fetch`; `Persist`, or the first page of a write that breaks off, is the abstract
`Persist`; `Crash` and `CrashInPersist` are `Restart`; every other step is unseen.

### Left to TLC

Liveness (`PackedIsPersisted`, `SyncEnds`) is beyond the prover. The properties of `PeerTables`
are model-checked only. What is proved of the links, the queue and the cache in
`OrderTableProofs` is about `RecordTable`, which these tables use as well; that the log and the
half-written pages of an update or append table restore what they should at every moment is
not proved.

## 5. Findings

Three runs show the code doing other than what it or its comments say; each is
quoted in `PROJECT.json`:

- the CPS of a leader that steps down stays a master: `==` where an
  assignment is meant (CPS 482, `FollowerKeepsServing.cfg`);
- the answers of peers that dropped a block are taken for repeats, and the
  master never serves (CPS 808, `StartupStalls.cfg`);
- the log of an append table is mapped from its config file, so that nothing is
  rolled back (`vbh_append_table.cpp:72`, `AppendRollback.cfg`).

Five more have no configuration of their own; a change of one line in that of a
passing run shows each:

| Finding | Comment it contradicts | To see it |
|---|---|---|
| a block is persisted between a peer's answer and its handling, and the assertion that the order's block is behind the highest fails (CPS 888) | CPS 887: it must be | `MasterStartup.cfg`, `"lateAnswer"` in `Exposed`, `MaxFault = 0`: `OrderStaysUp` |
| the message for a peer that is behind goes to another one, or the index lies behind the list (CPS 922) | CPS 890: those behind are told to synchronise | `MasterStartup.cfg` with `BehindAreSynced` as a property; with `"wildIndex"` `OrderStaysUp` |
| a fetched block whose storing failed once conflicts with itself on each retry (CPS 1035) | CPS 1017: the next request triggers the storing again | `OrderTable.cfg` with `RetryCanStore` as an invariant and `"update"` or `"store"` in `Exposed` |
| a synchronised master packs under the ids of its process start (CPS 1064): the config goes back and record ids are given out again | `order_base_channel_process_service.h:41`: the config has the current height, and what was given out | `MasterStartup.cfg`, `"staleCurrent"`, `MaxFault = 0`: `ServesPersisted`; `OrderTable.cfg`, `"staleCurrent"`: `RestartFindsLastID` |
| each start sets the serial number back, and keys of an earlier run are answered again (CPS 136) | `order_base_channel_process_service.h:37`: it is never taken back | `BlockCodec.cfg` with `KeysDiffer` as an invariant |

## 6. Not modelled, and why

- *Two connections of one peer* (CPS 557): `BlockDistribution` and
  `MasterStartup` let a peer come back only after its old connection was seen to
  break. What the refused peer then does is in code the repository does not have.
- *Sends that fail* (CPS 334): the loop that retries at once never leaves its
  handler, so there is no state to check; submissions whose answer cannot be
  sent are in `BlockCodec`.
- *The second line of `EraseHandler`* (CPS 1657) depends on what
  `CDscTypeArray`, which is not in the repository, leaves at an erased index.
- *The follower's synchronisation* (`CSlaveSyncVersionTableCsCpsRsp`): its handler
  is bound to no message, and it expects a session that nothing starts.
- *Queue and timers of CPS under the agent's thread*: a role change is one step
  in `MasterStartup`. The container's timer and queue classes, on which the
  outcome depends, are not in the repository.
- *Close* of tables and devices, and the formatting tool: they run when the
  process ends, or apart from it. The one call of `Close` while the process goes
  on, when the next device does not open (`vbfs.cpp:264`), is `NextDeviceFails`.
- *Committer router, plugin, factories, application start, messages, key
  encoding, encryption*: configuration, pure conversions around a library, or
  no state of the protocol. The router has no user in the order node.
