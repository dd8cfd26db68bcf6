---------------------------- MODULE UpdateTable ----------------------------
(***************************************************************************)
(* CVbhUpdateTable: records are changed in their cached pages; the old     *)
(* value of each updated record is kept, and saved to a log file before    *)
(* the pages are written, for a rollback at run time or at the next start. *)
(*                                                                         *)
(*   cache, device  as in PageTable                                        *)
(*   dirty          m_lstDirtyPage, frames in the order they became dirty  *)
(*   changes        m_modifyMemLog: frame, id and old value per update     *)
(*   log            the changes in the memory mapped log file              *)
(***************************************************************************)
EXTENDS PageTable, SequencesExt

OpenTable(log, device) ==
  [cache |-> OpenCache, device |-> device, dirty |-> << >>, changes |-> << >>, log |-> log]

MarkDirty(t, f) ==
  [t EXCEPT !.cache.frame[f].dirty = TRUE,
            !.dirty = IF t.cache.frame[f].dirty THEN @ ELSE Append(@, f)]

\* The page of the record is cached.
Put(t, id, record) ==
  MarkDirty([t EXCEPT !.cache = PutRecord(@, id, record)], FindPage(t.cache, GetPageID(id)))

\* Append of the next id, which starts a new page or has its page loaded.
AppendSucceeds(t, id, deviceFails) ==
  GetPageRecord(id) = 0 \/ Loads(t, GetPageID(id), deviceFails)

AppendRecord(t, id, record, deviceFails) ==
  LET p == GetPageID(id)
      c == InsertNewPage(t.cache, p)
      loaded == LoadPage(t, p, deviceFails)
  IN  CASE GetPageRecord(id) = 0 ->
             [t EXCEPT !.cache = PutRecord(c, id, record), !.dirty = Append(@, FindPage(c, p))]
        [] GetPageRecord(id) # 0 /\ Loads(t, p, deviceFails) -> Put(loaded, id, record)
        [] OTHER -> loaded

UpdateSucceeds(t, id, deviceFails) == Loads(t, GetPageID(id), deviceFails)

UpdateRecord(t, id, record, deviceFails) ==
  LET loaded == LoadPage(t, GetPageID(id), deviceFails)
      change == [frame |-> FindPage(loaded.cache, GetPageID(id)), id |-> id,
                 old |-> GetRecord(loaded.cache, id)]
  IN  IF UpdateSucceeds(t, id, deviceFails)
      THEN Put([loaded EXCEPT !.changes = Append(@, change)], id, record)
      ELSE loaded

SaveToLog(t) ==
  [t EXCEPT !.log = [i \in DOMAIN t.changes |->
                      [id |-> t.changes[i].id, old |-> t.changes[i].old]]]

\* Persistence; it gets to the first n of the pages.
AllPages(t)       == Len(t.dirty)
Persistence(t, n) == WriteFrames(t, SubSeq(t.dirty, 1, n))

Unmark(t) ==
  [t EXCEPT !.dirty = << >>,
            !.cache.frame = [f \in Frames |->
               IF \E i \in DOMAIN t.dirty : t.dirty[i] = f
               THEN [@[f] EXCEPT !.dirty = FALSE, !.isnew = FALSE] ELSE @[f]]]

\* Mutant: the log keeps the changes of the transaction.
CommitteKeepsLog(t) == [Unmark(t) EXCEPT !.changes = << >>]

\* The log is written again, now without changes.
CommitteTransaction(t) == SaveToLog([Unmark(t) EXCEPT !.changes = << >>])

\* Mutant: the old values are thrown away.
RestoreNothing(t) == t

\* The old values go back into their pages, the first change first.
RestoreChanges(t) ==
  FoldLeft(LAMBDA u, c : [u EXCEPT !.cache.frame[c.frame].content[GetPageRecord(c.id)] = c.old],
           t, t.changes)

\* RollbackCache: after that the new pages leave the cache, the others stay
\* and are clean.
RollbackCache(t) ==
  LET new == SelectSeq(t.dirty, LAMBDA f : t.cache.frame[f].isnew)
      old == SelectSeq(t.dirty, LAMBDA f : ~t.cache.frame[f].isnew)
  IN  [Unmark([RestoreChanges(t) EXCEPT !.dirty = old]) EXCEPT
         !.changes = << >>, !.cache = FoldLeft(ReleasePage, @, new)]

(***************************************************************************)
(* RecoverFromLog: the old values of the log are put into their pages, the *)
(* first change first, and the pages written.  It gets to the first n of   *)
(* them; the others stay marked, in a list nobody keeps.  The page is not  *)
(* checked for null: a page that cannot be read ends the process, which is *)
(* a restart before the first write.                                       *)
(***************************************************************************)
Restored(t) ==
  FoldLeft(LAMBDA u, c : Put(LoadPage(u, GetPageID(c.id), FALSE), c.id, c.old),
           [t EXCEPT !.dirty = << >>], t.log)

PagesToRestore(t) == Len(Restored(t).dirty)

RecoverFromLog(t, n) ==
  LET r       == Restored(t)
      written == SubSeq(r.dirty, 1, n)
  IN  [Unmark([WriteFrames(r, written) EXCEPT !.dirty = written]) EXCEPT !.dirty = t.dirty]

\* Both halves; n pages of the second are written.
RollbackTransaction(t, n) == RecoverFromLog(RollbackCache(t), n)
=============================================================================
