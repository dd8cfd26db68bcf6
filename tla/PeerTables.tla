----------------------------- MODULE PeerTables -----------------------------
(***************************************************************************)
(* One transaction after the other on a table of a peer, CVbhUpdateTable   *)
(* or CVbhAppendTable.  The peers' own code is not in the repository; the  *)
(* order of the calls is the one the two headers ask for:                  *)
(*                                                                         *)
(*   open       Append, Update, PopBack, read; RollbackCache               *)
(*   logged     after SaveToLog: Persistence                               *)
(*   persisted  after Persistence: CommitteTransaction                     *)
(*                                                                         *)
(* RollbackTransaction ends a transaction that is logged or persisted, a   *)
(* restart, with RecoverFromLog, one that never ended.                     *)
(***************************************************************************)
EXTENDS PageTable, SequencesExt

CONSTANTS Values,     \* values of a record
          MaxChanges, \* bound: changes of a transaction
          MaxFaults,  \* bound: failing reads and writes, restarts
          Exposed     \* the windows the run lets calls fall into

ASSUME PeerTablesAssumption ==
  /\ MaxChanges \in Nat /\ MaxFaults \in Nat /\ NULL \notin Values
  /\ Exposed \subseteq {"updatedTwice", "recoveryFails", "appendPersisted", "pageKept"}

VARIABLES kind,      \* the class of the table
          t,         \* the table
          phase,     \* where the transaction is, or "failed"
          committed, \* the records when the transaction began: 1 is the first id
          expected,  \* the records with the changes of the transaction
          changed,   \* the number of changes
          faults

vars == <<kind, t, phase, committed, expected, changed, faults>>

U == INSTANCE UpdateTable
A == INSTANCE AppendTable

Init ==
  /\ kind \in {"update", "append"}
  /\ LET device == [p \in PageIDs |-> BlankPage]
     IN  t = IF kind = "update" THEN U!OpenTable(<< >>, device) ELSE A!OpenTable(1, device)
  /\ phase = "open" /\ committed = << >> /\ expected = << >>
  /\ changed = 0 /\ faults = 0

Fault == faults < MaxFaults /\ faults' = faults + 1

\* A fault or none: fails is whether it happened.
MayFail(fails) == IF fails THEN Fault ELSE UNCHANGED faults

NextID == Len(expected) + 1

\* The frame an append table goes on filling is not marked after a rollback.
PageKept == kind = "append" /\ t.page # NULL /\ ~t.cache.frame[t.page].dirty

Change == phase = "open" /\ changed < MaxChanges /\ changed' = changed + 1
-----------------------------------------------------------------------------
AppendRecord(value, fails) ==
  /\ Change /\ NextID <= MaxID /\ MayFail(fails)
  /\ PageKept => "pageKept" \in Exposed
  /\ LET succeeds == IF kind = "update" THEN U!AppendSucceeds(t, NextID, fails)
                                        ELSE A!AppendSucceeds(t, fails)
     IN  expected' = IF succeeds THEN Append(expected, value) ELSE expected
  /\ t' = IF kind = "update" THEN U!AppendRecord(t, NextID, value, fails)
                             ELSE A!AppendRecord(t, value, fails)
  /\ UNCHANGED <<kind, phase, committed>>

\* Only a record of an earlier transaction is updated, which Update asserts.
UpdateRecord(id, value, fails) ==
  /\ kind = "update" /\ Change /\ MayFail(fails)
  /\ id \in DOMAIN committed
  /\ (\E i \in DOMAIN t.changes : t.changes[i].id = id) => "updatedTwice" \in Exposed
  /\ t' = U!UpdateRecord(t, id, value, fails)
  /\ expected' = IF U!UpdateSucceeds(t, id, fails) THEN [expected EXCEPT ![id] = value]
                                                   ELSE expected
  /\ UNCHANGED <<kind, phase, committed>>

PopBack ==
  /\ kind = "append" /\ Change
  /\ Len(expected) > Len(committed)
  /\ t' = A!PopBack(t) /\ expected' = Front(expected)
  /\ UNCHANGED <<kind, phase, committed, faults>>

\* A record is read: a page may be loaded, and another evicted for it.
Read(id) ==
  /\ phase = "open" /\ id \in DOMAIN expected
  /\ FindPage(t.cache, GetPageID(id)) = NULL
  /\ t' = LoadPage(t, GetPageID(id), FALSE)
  /\ UNCHANGED <<kind, phase, committed, expected, changed, faults>>

SaveToLog ==
  /\ phase = "open" /\ phase' = "logged"
  /\ t' = IF kind = "update" THEN U!SaveToLog(t) ELSE A!SaveToLog(t)
  /\ UNCHANGED <<kind, committed, expected, changed, faults>>

\* All pages are written, or the first n.
Persistence ==
  /\ phase = "logged"
  /\ LET all == IF kind = "update" THEN U!AllPages(t) ELSE A!AllPages(t)
     IN  \E n \in 0..all :
           /\ MayFail(n < all)
           /\ t' = IF kind = "update" THEN U!Persistence(t, n) ELSE A!Persistence(t, n)
           /\ phase' = IF n = all THEN "persisted" ELSE "logged"
  /\ UNCHANGED <<kind, committed, expected, changed>>

CommitteTransaction ==
  /\ phase = "persisted" /\ phase' = "open"
  /\ t' = IF kind = "update" THEN U!CommitteTransaction(t) ELSE A!CommitteTransaction(t)
  /\ committed' = expected /\ changed' = 0
  /\ UNCHANGED <<kind, expected, faults>>

\* The records are those from before the transaction again.
RolledBack == expected' = committed /\ changed' = 0 /\ UNCHANGED <<kind, committed>>

RollbackCache ==
  /\ phase = "open" /\ changed > 0
  /\ t' = IF kind = "update" THEN U!RollbackCache(t) ELSE A!RollbackCache(t)
  /\ RolledBack /\ UNCHANGED <<phase, faults>>

\* A persisted append table has nothing left to roll back with.
AppendPersisted == kind = "append" /\ phase = "persisted"

\* A rollback whose writes fail is called again.
RollbackTransaction ==
  /\ phase \in {"logged", "persisted", "failed"}
  /\ AppendPersisted => "appendPersisted" \in Exposed
  /\ IF kind = "append"
     THEN t' = A!RollbackTransaction(t) /\ phase' = "open" /\ UNCHANGED faults
     ELSE LET all == U!PagesToRestore(U!RollbackCache(t))
          IN  \E n \in 0..all :
                /\ n < all => Fault /\ "recoveryFails" \in Exposed
                /\ n = all => UNCHANGED faults
                /\ t' = U!RollbackTransaction(t, n)
                /\ phase' = IF n = all THEN "open" ELSE "failed"
  /\ RolledBack

\* The table as a restart leaves it.
Restarted ==
  IF kind = "append" THEN A!RecoverFromLog(A!OpenTable(t.cfg, t.device))
  ELSE LET r == U!OpenTable(t.log, t.device) IN U!RecoverFromLog(r, U!PagesToRestore(r))

Restart ==
  /\ Fault
  /\ AppendPersisted => "appendPersisted" \in Exposed
  /\ t' = Restarted /\ phase' = "open"
  /\ RolledBack

Next ==
  \/ \E value \in Values, fails \in BOOLEAN :
       \/ AppendRecord(value, fails)
       \/ \E id \in 1..MaxID : UpdateRecord(id, value, fails)
  \/ \E id \in 1..MaxID : Read(id)
  \/ PopBack \/ SaveToLog \/ Persistence \/ CommitteTransaction
  \/ RollbackCache \/ RollbackTransaction \/ Restart

Spec == Init /\ [][Next]_vars
-----------------------------------------------------------------------------
\* The frames the transaction will write.
Marked == IF kind = "update" THEN t.dirty ELSE A!Filled(t)

TypeOK ==
  /\ kind \in {"update", "append"} /\ CacheSound(t.cache)
  /\ phase \in {"open", "logged", "persisted", "failed"}
  /\ kind = "append" => t.last = NextID /\ t.cfg \in 1..t.last
  /\ committed \in UNION {[1..n -> Values] : n \in 0..MaxID}
  /\ changed \in 0..MaxChanges /\ faults \in 0..MaxFaults

\* Whatever page is evicted, a record reads as the transaction left it.
ReadsOwnChanges == \A id \in DOMAIN expected : ReadRecord(t, id) = expected[id]

\* A page that is changed is one the transaction writes: the mark keeps it in
\* the cache, the list brings it to the disk (vbh_record_table.cpp GetPage).
MarkedIsListed ==
  \/ PageKept /\ changed = 0
  \/ {f \in Frames : t.cache.frame[f].dirty} = {Marked[i] : i \in DOMAIN Marked}

\* The records as a restart would bring them back.
Recovers ==
  /\ \A id \in DOMAIN committed : DeviceRecord(Restarted, id) = committed[id]
  /\ kind = "append" => Restarted.last = Len(committed) + 1

\* At every moment of a transaction the log and the pages that got to the disk
\* together still give the records from before it.
LogRestores == AppendPersisted \/ Recovers

\* RecoverFromLog rolls back what was abnormal at the start
\* (vbh_append_table.h:43), also between Persistence and CommitteTransaction.
RecoveryRollsBack == Recovers
=============================================================================
