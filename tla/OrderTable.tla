----------------------------- MODULE OrderTable -----------------------------
(***************************************************************************)
(* The version table in the hands of CChannelProcessService: filled by the *)
(* blocks a master fetches from a peer (CMasterSyncVersionTableCsCpsRsp),  *)
(* changed by the transactions it packs, persisted block by block,         *)
(* replayed after a crash.                                                 *)
(*                                                                         *)
(* A handler is one action.  Where one of its steps fails, or the process  *)
(* dies between two of its writes, an action of its own says what it       *)
(* leaves behind.                                                          *)
(***************************************************************************)
EXTENDS VersionTable

CONSTANTS MaxVersion, \* bound: versions of a record
          MaxQueue,   \* m_nMaxCacheBlockCount
          MaxBehind,  \* bound: blocks the peers are ahead
          MaxFaults,  \* bound: failing reads and writes, crashes
          Exposed     \* the windows the run lets faults fall into

ASSUME OrderTableAssumption ==
  /\ MaxVersion \in Nat /\ MaxQueue \in Nat \ {0}
  /\ MaxBehind \in Nat /\ MaxFaults \in Nat
  /\ NULL \notin [Slots -> 0..MaxVersion \cup {NULL}]
  /\ Exposed \subseteq {"update", "store", "updateOnly", "staleCurrent",
                        "stepDown", "tornCrash"}

VARIABLES table,   \* m_wsVersionTable and its files
          config,  \* m_pConfig: last = m_nLastAlocWsID, flag = m_nModifyStorageState
          cfgLog,  \* m_pCfgLog's m_nLastAlocWsID
          cur,     \* m_pCurBlockInfo's m_nLastAlocWsID, NULL without one
          queue,   \* m_queueBlockInfo: the m_nLastAlocWsID of each block
          state,   \* m_nCpsState ("follower" up to the choice), or "down"
          behind,  \* blocks the peers have beyond m_pConfig's
          fetched, \* the next of them, NULL until it is asked for
          torn,    \* Persistence wrote a part of the oldest package
          faults

node == <<config, cfgLog, cur, queue, state>>
peer == <<behind, fetched>>
vars == <<table, node, peer, torn, faults>>

Versions == 0..MaxVersion

\* The device before the first start: the records 1..n of version 0.
Formatted(n) ==
  [p \in PageIDs |-> [s \in Slots |->
     IF p * PageRecords + s \in 1..n THEN 0 ELSE NULL]]

Init ==
  \E n \in 0..MaxID, b \in 0..MaxBehind :
    /\ table = OpenTable(EmptyLog, Formatted(n))
    /\ config = [last |-> n, flag |-> FALSE] /\ cfgLog = n
    /\ cur = n /\ queue = << >> /\ state = "follower"
    /\ behind = b /\ fetched = NULL
    /\ torn = FALSE /\ faults = 0

Fault == faults < MaxFaults /\ faults' = faults + 1
NoFault == UNCHANGED faults
-----------------------------------------------------------------------------
(***************************************************************************)
(* Blocks of the peers: versions for some ids, 0 for the ids they add.     *)
(***************************************************************************)
Known == {id \in IDs : RecordsOn(table.device)[id] # NULL}

Lists == UNION {[ids -> Versions] : ids \in (SUBSET IDs) \ {{}}}

Blocks ==
  {b \in Lists :
     /\ \A id \in DOMAIN b :
          b[id] = IF id \in Known THEN RecordsOn(table.device)[id] + 1 ELSE 0
     /\ \A id \in DOMAIN b \ Known : id > 1 => id - 1 \in Known \cup DOMAIN b}

\* What a peer in a wrong state may answer.
WrongBlocks == {b \in Lists : DOMAIN b \subseteq Known /\ 0 \notin {b[id] : id \in DOMAIN b}}

\* The ids a block raises; its items are handled in the order of the ids.
Raised(b) == {id \in DOMAIN b : b[id] # 0}

\* The check of the versions reads the records the block raises, here those up
\* to the id n.
CheckItem(t, b, id) == IF id \in Raised(b) THEN ReadRecord(t, id, FALSE) ELSE t

CheckReads(b, n) ==
  LET read[id \in 0..n] == IF id = 0 THEN table ELSE CheckItem(read[id - 1], b, id)
  IN  read[n]

Conflicts(b) == {id \in Raised(b) : Answer(table, id) + 1 # b[id]}

\* Update or Append of the items up to the id n, after all versions were checked.
StoreItem(t, b, id, deviceFails) ==
  IF b[id] # 0 THEN UpdateRecord(t, id, b[id], deviceFails)
               ELSE AppendRecord(t, id, 0, deviceFails)

StoresItem(t, b, id, deviceFails) ==
  IF b[id] # 0 THEN UpdateSucceeds(t, id, deviceFails) ELSE AppendSucceeds(t, id, deviceFails)

ApplyItem(t, b, id) == IF id \in DOMAIN b THEN StoreItem(t, b, id, FALSE) ELSE t

Applied(b, n) ==
  LET stored[id \in 0..n] ==
        IF id = 0 THEN CheckReads(b, MaxID) ELSE ApplyItem(stored[id - 1], b, id)
  IN  stored[n]

Stored(b) == PackModify(Applied(b, MaxID))

\* nMaxAlocWsID: the largest id of this block.
MaxAlocWsID(b) == Max(DOMAIN b)

\* The answer with the next block; asked for again, it is the same block.
Requested == state = "sync" /\ behind > 0
NextBlocks == IF fetched = NULL THEN Blocks ELSE {fetched}

\* At the target the master turns normal and starts the pack timer; the
\* current block stays as it is.
AfterFetch(left) == IF left = 0 THEN "normal" ELSE state

\* The block's largest id becomes the last one, also when it adds no record.
SetsLastID(b) == MaxAlocWsID(b) < config.last => "updateOnly" \in Exposed

\* The block is checked, applied, packed, logged and written.
SyncRsp(b) ==
  /\ Conflicts(b) = {} /\ SetsLastID(b)
  /\ table' = CommitteTransaction(Persistence(SaveToLog(Stored(b)),
                                              DOMAIN Head(Stored(b).packages)))
  /\ cfgLog' = MaxAlocWsID(b)
  /\ config' = [last |-> MaxAlocWsID(b), flag |-> FALSE]
  /\ behind' = behind - 1 /\ fetched' = NULL
  /\ state' = AfterFetch(behind')
  /\ torn' = FALSE
  /\ NoFault /\ UNCHANGED <<cur, queue>>

\* What the handler leaves in the table when it fails at one of its steps: a
\* read of the check, an Update or Append, SaveToLog or the write of a page.
\* Neither the changed pages nor the package are taken back.
LeftByCheck(b) ==
  {ReadRecord(CheckReads(b, id - 1), id, TRUE) :
     id \in {i \in Raised(b) : ~GetsTablePage(CheckReads(b, i - 1), GetPageID(i), TRUE)}}

LeftByUpdate(b) ==
  {StoreItem(Applied(b, id - 1), b, id, TRUE) :
     id \in {i \in DOMAIN b : ~StoresItem(Applied(b, i - 1), b, i, TRUE)}}

LeftByStore(b) ==
  LET t == Stored(b)
      pages == DOMAIN Head(t.packages)
  IN  {t} \cup {Persistence(SaveToLog(t), written) : written \in (SUBSET pages) \ {pages}}

LeftBy(b, step) ==
  CASE step = "check"  -> LeftByCheck(b)
    [] step = "update" -> LeftByUpdate(b)
    [] step = "store"  -> LeftByStore(b)

\* The node asks for the same block again.
SyncFails(b) ==
  /\ Conflicts(b) = {}
  /\ \E step \in {"check", "update", "store"} :
       /\ step = "check" \/ step \in Exposed
       /\ table' \in LeftBy(b, step)
       /\ IF step = "store" /\ table' # Stored(b)
          THEN cfgLog' = MaxAlocWsID(b) /\ config' = [config EXCEPT !.flag = FALSE]
          ELSE UNCHANGED <<cfgLog, config>>
  /\ torn' = (torn \/ table'.device # table.device)
  /\ fetched' = b
  /\ Fault /\ UNCHANGED <<cur, queue, state, behind>>

\* A version does not follow the one in the table: the peer is in a wrong
\* state, or the table is.  The node asks again.
SyncConflict(b) ==
  /\ Conflicts(b) # {}
  /\ table' = CheckReads(b, Min(Conflicts(b)))
  /\ IF b = fetched THEN NoFault ELSE Fault
  /\ UNCHANGED <<node, peer, torn>>

\* A node that was elected and did not step down since; it may not have chosen yet.
Leads == state \in {"sync", "normal"} /\ cur # NULL

\* The peers persist a block of another master.
PeersAdvance ==
  /\ state # "down" /\ ~Leads /\ behind < MaxBehind
  /\ behind' = behind + 1
  /\ NoFault /\ UNCHANGED <<table, node, fetched, torn>>

\* The election makes the node master; it synchronises first when it is behind.
BecomeMaster ==
  /\ state # "down" /\ ~Leads
  /\ state' = IF behind > 0 THEN "sync" ELSE "normal"
  /\ NoFault /\ UNCHANGED <<table, config, cfgLog, cur, queue, peer, torn>>
-----------------------------------------------------------------------------
(***************************************************************************)
(* A normal master.                                                        *)
(***************************************************************************)
\* m_nLastAlocWsID of the newest packed block, or of the config.
LastPacked == IF queue = << >> THEN config.last ELSE Last(queue)

\* A normal master takes transactions into its current block, whatever id that
\* ends with: the id may lie below the blocks the node fetched.  Without a
\* current block a submission ends the process (Crash).
Serving == /\ state = "normal" /\ cur # NULL
           /\ cur < LastPacked => "staleCurrent" \in Exposed

SubmitAppend ==
  /\ Serving /\ cur < MaxID
  /\ table' = AppendRecord(table, cur + 1, 0, FALSE)
  /\ cur' = cur + 1
  /\ NoFault /\ UNCHANGED <<config, cfgLog, queue, state, peer, torn>>

SubmitUpdate(id) ==
  /\ Serving /\ id <= cur /\ Answer(table, id) \in 0..MaxVersion - 1
  /\ table' = UpdateRecord(table, id, Answer(table, id) + 1, FALSE)
  /\ NoFault /\ UNCHANGED <<node, peer, torn>>

\* Mutant: the ids of the transactions that are dropped stay allocated.
SubmitFailsKeepingIds(id) ==
  /\ Serving /\ id <= Min({cur + 1, MaxID})
  /\ IF id <= cur THEN ~UpdateSucceeds(table, id, TRUE) ELSE ~AppendSucceeds(table, id, TRUE)
  /\ table' = RollbackUnpackCache(UpdateRecord(table, id, 0, TRUE))
  /\ Fault /\ UNCHANGED <<node, peer, torn>>

\* The page of an Update or Append cannot be loaded: RollbackPartBlock.
SubmitFails(id) ==
  /\ Serving /\ id <= Min({cur + 1, MaxID})
  /\ IF id <= cur THEN ~UpdateSucceeds(table, id, TRUE) ELSE ~AppendSucceeds(table, id, TRUE)
  /\ table' = RollbackUnpackCache(UpdateRecord(table, id, 0, TRUE))
  /\ cur' = LastPacked
  /\ Fault /\ UNCHANGED <<config, cfgLog, queue, state, peer, torn>>

\* CheckWsItemVersion reads a record; its page moves to the end of the queue.
CheckVersion(id) ==
  /\ Serving /\ id <= cur
  /\ table' = ReadRecord(table, id, FALSE)
  /\ NoFault /\ UNCHANGED <<node, peer, torn>>

\* Mutant: the limit of waiting blocks is not looked at.
PackBlockUnbounded ==
  /\ Serving /\ table.dirty # << >> /\ Len(queue) <= MaxQueue
  /\ table' = PackModify(table)
  /\ queue' = Append(queue, cur)
  /\ NoFault /\ UNCHANGED <<config, cfgLog, cur, state, peer, torn>>

PackBlock ==
  /\ Serving /\ table.dirty # << >> /\ Len(queue) < MaxQueue
  /\ table' = PackModify(table)
  /\ queue' = Append(queue, cur)
  /\ NoFault /\ UNCHANGED <<config, cfgLog, cur, state, peer, torn>>

\* PersistentBlockQueueHeader.
Persist ==
  /\ state = "normal" /\ queue # << >>
  /\ table' = CommitteTransaction(Persistence(SaveToLog(table),
                                              DOMAIN Head(table.packages)))
  /\ cfgLog' = Head(queue)
  /\ config' = [last |-> Head(queue), flag |-> FALSE]
  /\ queue' = Tail(queue) /\ torn' = FALSE
  /\ NoFault /\ UNCHANGED <<cur, state, peer>>

\* A page write fails; the block is persisted again later.
PersistFails ==
  /\ state = "normal" /\ queue # << >>
  /\ \E written \in (SUBSET DOMAIN Head(table.packages)) \ {DOMAIN Head(table.packages)} :
       /\ table' = Persistence(SaveToLog(table), written)
       /\ torn' = (torn \/ written # {})
  /\ cfgLog' = Head(queue) /\ config' = [config EXCEPT !.flag = FALSE]
  /\ Fault /\ UNCHANGED <<cur, queue, state, peer>>

\* ChangeCpsToFollowerState drops the blocks and the current one.  The table
\* keeps its packages and its dirty pages, and line 482 compares the state
\* where it should set it.
StepDown ==
  /\ state # "down" /\ cur # NULL
  /\ table.packages # << >> \/ table.dirty # << >> => "stepDown" \in Exposed
  /\ queue' = << >> /\ cur' = NULL
  /\ NoFault /\ UNCHANGED <<table, config, cfgLog, state, peer, torn>>
-----------------------------------------------------------------------------
(***************************************************************************)
(* Crash and restart.                                                      *)
(***************************************************************************)
Lost(device, log) == OpenTable(log, device)

Down(t) ==
  /\ table' = Lost(t.device, t.log)
  /\ queue' = << >> /\ state' = "down" /\ torn' = FALSE
  /\ UNCHANGED cur

Crash ==
  /\ state # "down"
  /\ torn => "tornCrash" \in Exposed
  /\ Down(table)
  /\ Fault /\ UNCHANGED <<config, cfgLog, peer>>

\* The node crashes while Persistence writes: the flag is set, the log holds
\* the package.
CrashInPersist ==
  /\ state = "normal" /\ queue # << >>
  /\ \E written \in SUBSET DOMAIN Head(table.packages) :
       Down(Persistence(SaveToLog(table), written))
  /\ cfgLog' = Head(queue) /\ config' = [config EXCEPT !.flag = TRUE]
  /\ Fault /\ UNCHANGED peer

\* It crashes while Persistence writes a block that it fetched.
CrashInSync(b) ==
  /\ Conflicts(b) = {} /\ SetsLastID(b)
  /\ \E written \in SUBSET DOMAIN Head(Stored(b).packages) :
       Down(Persistence(SaveToLog(Stored(b)), written))
  /\ cfgLog' = MaxAlocWsID(b) /\ config' = [config EXCEPT !.flag = TRUE]
  /\ behind' = behind - 1 /\ fetched' = NULL
  /\ Fault

\* Mutant: the replay leaves the config as it was.
OnInitTableOnly ==
  /\ state = "down"
  /\ table' = IF config.flag THEN RedoByLog(table) ELSE table
  /\ cur' = config.last /\ state' = "follower"
  /\ NoFault /\ UNCHANGED <<config, cfgLog, queue, peer, torn>>

\* OnInit replays the log when the flag is set, and sets the flag again.
OnInit ==
  /\ state = "down"
  /\ IF config.flag
     THEN table' = RedoByLog(table) /\ config' = [config EXCEPT !.last = cfgLog]
     ELSE UNCHANGED <<table, config>>
  /\ cur' = config'.last /\ state' = "follower"
  /\ NoFault /\ UNCHANGED <<cfgLog, queue, peer, torn>>

Fetch ==
  /\ Requested
  /\ \/ \E b \in NextBlocks : SyncRsp(b) \/ SyncFails(b) \/ CrashInSync(b)
     \/ \E b \in NextBlocks \cup WrongBlocks : SyncConflict(b)

Next ==
  \/ Fetch
  \/ PeersAdvance \/ BecomeMaster
  \/ SubmitAppend \/ \E id \in IDs : SubmitUpdate(id) \/ SubmitFails(id) \/ CheckVersion(id)
  \/ PackBlock \/ Persist \/ PersistFails \/ StepDown
  \/ Crash \/ CrashInPersist \/ OnInit

Spec == Init /\ [][Next]_vars
-----------------------------------------------------------------------------
TypeOK ==
  /\ DOMAIN table = {"cache", "dirty", "packages", "log", "device"}
  /\ table.cache.queue \in Dqueue!DqueueType
  /\ table.cache.num \in Nat /\ table.cache.limit \in Nat
  /\ table.device \in [PageIDs -> [Slots -> Versions \cup {NULL}]]
  /\ config \in [last : 0..MaxID, flag : BOOLEAN]
  /\ cfgLog \in 0..MaxID /\ cur \in 0..MaxID \cup {NULL} /\ torn \in BOOLEAN
  /\ queue \in Seq(0..MaxID) /\ Len(queue) <= MaxQueue
  /\ state \in {"down", "follower", "sync", "normal"}
  /\ behind \in 0..MaxBehind /\ faults \in 0..MaxFaults

\* The cache stays one cache through evictions, rollbacks and failed reads,
\* and the list of dirty pages names exactly the dirty ones among the cached:
\* a page missing in it would never be packed, a page freed in it would be
\* packed with what took its place (GetPage, InsertPage, RollbackUnpackCache).
CacheConsistent ==
  LET c == table.cache
  IN  /\ CacheSound(c)
      /\ \A f \in Frames :
           /\ (\E i \in DOMAIN table.dirty : table.dirty[i] = f) <=> c.frame[f].dirty
           /\ c.frame[f].id # NULL <=> f \in CachedFrames(c)
      /\ \A i, j \in DOMAIN table.dirty : i # j => table.dirty[i] # table.dirty[j]

\* Each queued block has its package, and the package holds the records up to
\* the block's last id: persisting the front writes the block it belongs to.
PackagesMatchBlocks ==
  /\ Len(table.packages) = Len(queue)
  /\ \A i \in DOMAIN queue : \A id \in IDs :
       AfterPackages(table, i)[id] # NULL <=> id <= queue[i]

\* What OnInit would find if the process ended now, and the last id it would
\* go on from.
FoundRecords == RecordsOn(IF config.flag THEN RedoByLog(table).device ELSE table.device)
FoundLast    == IF config.flag THEN cfgLog ELSE config.last

\* Whatever block was stored last, one of the node's own or one it fetched, and
\* wherever it crashed: a restart goes on from the last record there is.  From
\* a smaller id the next Append would overwrite a record, from a larger one it
\* would leave a gap.
RestartFindsLastID == ~torn => \A id \in IDs : FoundRecords[id] # NULL <=> id <= FoundLast

\* "If storing fails, the next request triggers it again" (comment, line 1017):
\* a block that is asked for again passes the check of the versions.  It does
\* not once an Update or a store of it has failed ("update", "store").
RetryCanStore == fetched # NULL => Conflicts(fetched) = {}

\* Between a torn write and its repetition, and after a crash under the flag,
\* the oldest package counts as stored.
Begun == IF torn /\ table.packages # << >> THEN 1 ELSE 0

\* What of the table survives a restart, what waits, what is shown.
StoredRecords ==
  IF state = "down" /\ config.flag THEN RecordsOn(RedoByLog(table).device) ELSE AfterPackages(table, Begun)

PackedRecords == [i \in 1..Len(table.packages) - Begun |-> AfterPackages(table, i + Begun)]

ShownRecords ==
  IF state = "down" /\ config.flag THEN RecordsOn(RedoByLog(table).device) ELSE Answers(table)

Abstract == INSTANCE PackedTable WITH
  stored <- StoredRecords, packed <- PackedRecords, view <- ShownRecords

\* Through cache, packages, device, log and restarts the table is the one
\* function of ids that PackedTable describes (CVbhMultiUpdateTable).
ImplementsPackedTable == Abstract!Spec
=============================================================================
