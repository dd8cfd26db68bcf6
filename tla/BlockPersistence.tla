-------------------------- MODULE BlockPersistence --------------------------
(***************************************************************************)
(* How an order node makes a packed block durable and how it recovers      *)
(* after a crash: CChannelProcessService::PersistentBlockQueueHeader and   *)
(* the recovery in OnInit, over the redo log of CVbhMultiUpdateTable.      *)
(*                                                                         *)
(* The config, its log and the table's log are memory-mapped files: every  *)
(* assignment to them is a step of its own and survives a crash of the     *)
(* process in program order.  A page write to the device is one step.      *)
(* A block hash is a digest over the whole chain, so it is modelled by     *)
(* what it determines: the height and the content of every page.           *)
(***************************************************************************)
EXTENDS Integers, Sequences, FiniteSets

CONSTANTS Pages,       \* page ids of the write-set-version table
          Content,     \* what a page can hold
          MaxBlock,    \* bound: no block above this height is packed
          MaxQueue,    \* bound: m_nMaxCacheBlockNum, packed blocks waiting
          RiskyCrash   \* the unprotected windows a crash may fall into

ASSUME PersistAssumption ==
    /\ IsFiniteSet(Pages)
    /\ Content # {}
    /\ MaxBlock \in Nat /\ MaxQueue \in Nat
    /\ RiskyCrash \subseteq {"staleFlag", "failedWrite"}

VARIABLES queue,     \* m_queueBlockInfo with the modify package of each block
          config,    \* m_pConfig: state flag, block id, block hash
          cfgLog,    \* m_pCfgLog: block id, block hash
          log,       \* m_pLogBuf: page count and encoded pages
          device,    \* the pages as the vbfs device holds them
          pc,        \* where the node is in PersistentBlockQueueHeader / OnInit
          k,         \* next page of the loop it is in
          failed     \* a page write failed and the block is not yet persisted

vars == <<queue, config, cfgLog, log, device, pc, k, failed>>

BEGIN == 1   \* EN_BEGIN_MODIFY_STORAGE
END   == 0   \* EN_END_MODIFY_STORAGE

Hash == [height : Nat, table : [Pages -> Content]]

\* CModifyPackage: the dirty pages of a block, each once, in the order its
\* map iterates.
Entry   == [page : Pages, content : Content]
Slots   == 1..Cardinality(Pages)
Package ==
    {pkg \in UNION {[1..n -> Entry] : n \in 0..Cardinality(Pages)} :
        \A i, j \in DOMAIN pkg : pkg[i].page = pkg[j].page => i = j}

\* A place of the log buffer nothing was ever encoded to: it does not decode.
Blank == [page |-> "none", content |-> "none"]

\* Where saving the log may be interrupted before the flag says BEGIN.
Saving  == {"log", "cfglog", "begin"}
PCs == Saving \cup {"idle", "pages", "config", "end", "down", "redo", "redocfg"}

PagesOf(pkg) == {pkg[i].page : i \in 1..Len(pkg)}

\* The pages of pkg carry what table says, the other pages are as in prev.
Applies(pkg, prev, table) ==
    /\ \A i \in 1..Len(pkg) : table[pkg[i].page] = pkg[i].content
    /\ \A p \in Pages \ PagesOf(pkg) : table[p] = prev[p]

\* Hash of the block a newly packed one follows: queue back, else config.
LastHash == IF queue = <<>> THEN config.hash ELSE queue[Len(queue)].hash

Init ==
    /\ queue = <<>>
    /\ device \in [Pages -> Content]
    /\ config = [flag |-> END, blockID |-> 0,
                 hash |-> [height |-> 0, table |-> device]]
    /\ cfgLog = [blockID |-> 0, hash |-> config.hash]
    /\ log = [count |-> 0, pages |-> [s \in Slots |-> Blank]]
    /\ pc = "idle"
    /\ k = 1
    /\ failed = FALSE
-----------------------------------------------------------------------------
(* The blocks to persist *)

\* OnTimePackBlock as far as storage sees it: a block that follows the last
\* one, with the dirty pages PackModify copies.
Pack(pkg) ==
    /\ pc = "idle"
    /\ Len(queue) < MaxQueue
    /\ LastHash.height < MaxBlock
    /\ \E table \in [Pages -> Content] :
         /\ Applies(pkg, LastHash.table, table)
         /\ queue' = Append(queue,
                [hash |-> [height |-> LastHash.height + 1, table |-> table],
                 pkg  |-> pkg])
    /\ UNCHANGED <<config, cfgLog, log, device, pc, k, failed>>
-----------------------------------------------------------------------------
(* PersistentBlockQueueHeader, one durable write at a time *)

\* Mutant: the count is one more than the pages that follow.
SaveToLogCountsOneMore ==
    /\ pc = "idle" /\ queue # <<>>
    /\ log' = [log EXCEPT !.count = Len(queue[1].pkg) + 1]
    /\ pc' = "log" /\ k' = 1
    /\ UNCHANGED <<queue, config, cfgLog, device, failed>>

\* SaveToLog: the page count is encoded first.
SaveToLog ==
    /\ pc = "idle" /\ queue # <<>>
    /\ log' = [log EXCEPT !.count = Len(queue[1].pkg)]
    /\ pc' = "log" /\ k' = 1
    /\ UNCHANGED <<queue, config, cfgLog, device, failed>>

\* SaveToLog: a page is encoded over what the buffer held at its place.
EncodePage ==
    /\ pc = "log" /\ k <= log.count
    /\ log' = [log EXCEPT !.pages[k] = queue[1].pkg[k]]
    /\ k' = k + 1
    /\ UNCHANGED <<queue, config, cfgLog, device, pc, failed>>

\* The config log gets the block id ...
LogBlockID ==
    /\ pc = "log" /\ k > log.count
    /\ cfgLog' = [cfgLog EXCEPT !.blockID = queue[1].hash.height]
    /\ pc' = "cfglog"
    /\ UNCHANGED <<queue, config, log, device, k, failed>>

\* Mutant: the hash is left as it was.
LogBlockHashForgotten ==
    /\ pc = "cfglog"
    /\ pc' = "begin"
    /\ UNCHANGED <<queue, config, cfgLog, log, device, k, failed>>

\* ... and then the block hash.
LogBlockHash ==
    /\ pc = "cfglog"
    /\ cfgLog' = [cfgLog EXCEPT !.hash = queue[1].hash]
    /\ pc' = "begin"
    /\ UNCHANGED <<queue, config, log, device, k, failed>>

\* Mutant: pages are written without the flag.
BeginModifyUnflagged ==
    /\ pc = "begin"
    /\ pc' = "pages" /\ k' = 1
    /\ UNCHANGED <<queue, config, cfgLog, log, device, failed>>

BeginModify ==
    /\ pc = "begin"
    /\ config' = [config EXCEPT !.flag = BEGIN]
    /\ pc' = "pages" /\ k' = 1
    /\ UNCHANGED <<queue, cfgLog, log, device, failed>>

\* Persistence: WritePage succeeds.
PersistPage ==
    /\ pc = "pages" /\ k <= Len(queue[1].pkg)
    /\ device' = [device EXCEPT ![queue[1].pkg[k].page] = queue[1].pkg[k].content]
    /\ k' = k + 1
    /\ UNCHANGED <<queue, config, cfgLog, log, pc, failed>>

\* Persistence: WritePage fails; the flag is cleared and the block stays
\* queued for OnTimeRepersistence.
PersistFail ==
    /\ pc = "pages" /\ k <= Len(queue[1].pkg)
    /\ config' = [config EXCEPT !.flag = END]
    /\ failed' = TRUE
    /\ pc' = "idle"
    /\ UNCHANGED <<queue, cfgLog, log, device, k>>

\* Mutant: the id of the newest packed block is taken.
SetBlockIDOfBack ==
    /\ pc = "pages" /\ k > Len(queue[1].pkg)
    /\ config' = [config EXCEPT !.blockID = queue[Len(queue)].hash.height]
    /\ pc' = "config"
    /\ UNCHANGED <<queue, cfgLog, log, device, k, failed>>

SetBlockID ==
    /\ pc = "pages" /\ k > Len(queue[1].pkg)
    /\ config' = [config EXCEPT !.blockID = cfgLog.blockID]
    /\ pc' = "config"
    /\ UNCHANGED <<queue, cfgLog, log, device, k, failed>>

SetBlockHash ==
    /\ pc = "config"
    /\ config' = [config EXCEPT !.hash = cfgLog.hash]
    /\ pc' = "end"
    /\ UNCHANGED <<queue, cfgLog, log, device, k, failed>>

\* The flag is cleared; CommitteTransaction and PopFront only touch memory.
EndModify ==
    /\ pc = "end"
    /\ config' = [config EXCEPT !.flag = END]
    /\ queue' = Tail(queue)
    /\ failed' = FALSE
    /\ pc' = "idle"
    /\ UNCHANGED <<cfgLog, log, device, k>>
-----------------------------------------------------------------------------
(* Crash and restart *)

\* The flag is still BEGIN from the last recovery and a new log is being
\* written, so the log and the config log may not belong together.
StaleFlag == config.flag = BEGIN /\ pc \in Saving

\* A write failed, some pages are new, and the flag says END.
TornUnflagged == failed /\ config.flag = END

\* The process dies.  Memory is lost, files and device stay.
Crash ==
    /\ pc # "down"
    /\ StaleFlag => "staleFlag" \in RiskyCrash
    /\ TornUnflagged => "failedWrite" \in RiskyCrash
    /\ queue' = <<>>
    /\ failed' = FALSE
    /\ pc' = "down"
    /\ UNCHANGED <<config, cfgLog, log, device, k>>

\* OnInit: the flag decides whether the log is replayed.
Restart ==
    /\ pc = "down"
    /\ pc' = IF config.flag = BEGIN THEN "redo" ELSE "idle"
    /\ k' = 1
    /\ UNCHANGED <<queue, config, cfgLog, log, device, failed>>

\* RedoByLog writes the logged pages.
RedoPage ==
    /\ pc = "redo" /\ k <= log.count /\ log.pages[k] \in Entry
    /\ device' = [device EXCEPT ![log.pages[k].page] = log.pages[k].content]
    /\ k' = k + 1
    /\ UNCHANGED <<queue, config, cfgLog, log, pc, failed>>

\* RedoByLog fails: OnInit returns -1 and the node does not start.
RedoFail ==
    /\ pc = "redo" /\ k <= log.count
    /\ pc' = "down"
    /\ UNCHANGED <<queue, config, cfgLog, log, device, k, failed>>

\* Mutant: the loop over the logged pages ends one page early.
RedoBlockIDOnePageEarly ==
    /\ pc = "redo" /\ k >= log.count
    /\ config' = [config EXCEPT !.blockID = cfgLog.blockID]
    /\ pc' = "redocfg"
    /\ UNCHANGED <<queue, cfgLog, log, device, k, failed>>

RedoBlockID ==
    /\ pc = "redo" /\ k > log.count
    /\ config' = [config EXCEPT !.blockID = cfgLog.blockID]
    /\ pc' = "redocfg"
    /\ UNCHANGED <<queue, cfgLog, log, device, k, failed>>

\* OnInit sets the flag to BEGIN again, where END would be expected.
RedoBlockHash ==
    /\ pc = "redocfg"
    /\ config' = [config EXCEPT !.hash = cfgLog.hash, !.flag = BEGIN]
    /\ pc' = "idle"
    /\ UNCHANGED <<queue, cfgLog, log, device, k, failed>>
-----------------------------------------------------------------------------
Persist == \/ SaveToLog \/ EncodePage \/ LogBlockID \/ LogBlockHash
           \/ BeginModify \/ PersistPage \/ PersistFail
           \/ SetBlockID \/ SetBlockHash \/ EndModify

Recover == Restart \/ RedoPage \/ RedoFail \/ RedoBlockID \/ RedoBlockHash

Next == (\E pkg \in Package : Pack(pkg)) \/ Persist \/ Crash \/ Recover

Spec == Init /\ [][Next]_vars
-----------------------------------------------------------------------------
TypeOK ==
    /\ queue \in Seq([hash : Hash, pkg : Package])
    /\ config \in [flag : {BEGIN, END}, blockID : Nat, hash : Hash]
    /\ cfgLog \in [blockID : Nat, hash : Hash]
    /\ log \in [count : 0..Cardinality(Pages),
                pages : [Slots -> Entry \cup {Blank}]]
    /\ device \in [Pages -> Content]
    /\ pc \in PCs
    /\ k \in Nat
    /\ failed \in BOOLEAN

\* When the node serves and no write is half done, the device holds exactly
\* the pages of the block the config names: whatever crashes came before
\* (PersistentBlockQueueHeader, OnInit).
CrashConsistent ==
    pc = "idle" /\ ~failed =>
        /\ config.blockID = config.hash.height
        /\ device = config.hash.table

\* What the log makes of the device: RedoByLog run to its end.
Replayed(table) ==
    /\ \A i \in 1..log.count :
          log.pages[i] \in Entry /\ table[log.pages[i].page] = log.pages[i].content
    /\ \A p \in Pages \ {log.pages[i].page : i \in 1..log.count} : table[p] = device[p]

\* Whenever the node is down, the files it restarts from are enough: with
\* the flag set the log and the config log belong to the same block, with the
\* flag clear the device needs no repair (OnInit, RedoByLog).
Recoverable ==
    pc = "down" =>
        IF config.flag = BEGIN
        THEN Replayed(cfgLog.hash.table) /\ cfgLog.blockID = cfgLog.hash.height
        ELSE device = config.hash.table /\ config.blockID = config.hash.height

\* No step, crash or recovery takes the height back or over a block.
HeightAdvancesByOne ==
    [][config.blockID' \in {config.blockID, config.blockID + 1}]_vars

\* The log decides what a restart finds from the moment the flag is set; a
\* failed write is outstanding until the retry sets the flag again.
LogDecides == (config.flag = BEGIN /\ pc \notin Saving) \/ failed

\* Height and pages a restart at this moment would end with.
RestartHeight == IF LogDecides THEN cfgLog.blockID ELSE config.blockID
RestartTable ==
    [p \in Pages |->
        IF LogDecides /\ \E i \in 1..log.count : log.pages[i].page = p
        THEN log.pages[CHOOSE i \in 1..log.count : log.pages[i].page = p].content
        ELSE device[p]]

DT == INSTANCE DurableTable WITH height <- RestartHeight, table <- RestartTable

\* Crashes, failed writes and recoveries together look like one table and one
\* height that change at once, block by block.
ImplementsDurableTable == DT!Spec
=============================================================================
