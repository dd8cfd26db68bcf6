---------------------------- MODULE AppendTable ----------------------------
(***************************************************************************)
(* CVbhAppendTable: records are added at the end, in pages that stay apart *)
(* from the cache's eviction while they are filled.                        *)
(*                                                                         *)
(*   cache, device  as in PageTable                                        *)
(*   queue          m_queueAppendPage: the frames that are full            *)
(*   page           m_pAppendPage: the frame that is filled, or NULL       *)
(*   last           m_nLastRecordID: the next id                           *)
(*   cfg            m_pCfg's m_nLastRecordID, in a memory mapped file      *)
(*                                                                         *)
(* The log has no field of its own: Open maps m_pLog, too, from the config *)
(* file, so that what is written to the one is read in the other.          *)
(***************************************************************************)
EXTENDS PageTable, SequencesExt

OpenTable(cfg, device) ==
  [cache |-> OpenCache, device |-> device, queue |-> << >>, page |-> NULL,
   last |-> cfg, cfg |-> cfg]

LogOf(t) == t.cfg

\* The record goes into the frame that is filled, whatever page it holds.
PutInPage(t, record) ==
  [t EXCEPT !.cache.frame[t.page].content[GetPageRecord(t.last)] = record, !.last = @ + 1]

NewPage(t) ==
  LET p == GetPageID(t.last)
      c == InsertNewPage(t.cache, p)
  IN  [t EXCEPT !.cache = c, !.page = FindPage(c, p)]

\* A page is loaded only when none is being filled.
AppendSucceeds(t, deviceFails) ==
  t.page # NULL \/ GetPageRecord(t.last) = 0 \/ Loads(t, GetPageID(t.last), deviceFails)

\* Mutant: the page that was loaded is not marked.
FillUnmarked(t, f) == [t EXCEPT !.page = f]

\* A page that was loaded is filled from now on.
Fill(t, f) ==
  [t EXCEPT !.page = f, !.cache.frame[f].isnew = FALSE, !.cache.frame[f].dirty = TRUE]

AppendRecord(t, record, deviceFails) ==
  LET p == GetPageID(t.last)
      loaded == LoadPage(t, p, deviceFails)
      f == FindPage(loaded.cache, p)
  IN  CASE t.page # NULL /\ p # t.cache.frame[t.page].id ->
             PutInPage(NewPage([t EXCEPT !.queue = Append(@, t.page)]), record)
        [] t.page # NULL /\ p = t.cache.frame[t.page].id -> PutInPage(t, record)
        [] t.page = NULL /\ GetPageRecord(t.last) = 0 -> PutInPage(NewPage(t), record)
        [] t.page = NULL /\ GetPageRecord(t.last) # 0 /\ f # NULL ->
             PutInPage(Fill(loaded, f), record)
        [] OTHER -> loaded

\* Mutant: its page stays.
PopBackKeepsPage(t) == [t EXCEPT !.last = @ - 1]

\* The last record is taken back, with its page when it was the first there.
PopBack(t) ==
  IF GetPageRecord(t.last - 1) = 0 /\ t.page # NULL
  THEN [t EXCEPT !.last = @ - 1, !.cache = ReleasePage(@, t.page),
                 !.page = IF t.queue = << >> THEN NULL ELSE t.queue[Len(t.queue)],
                 !.queue = IF @ = << >> THEN @ ELSE Front(@)]
  ELSE [t EXCEPT !.last = @ - 1]

\* The value m_pLog is given is the one it has.
SaveToLog(t) == [t EXCEPT !.cfg = LogOf(t)]

\* Persistence; it gets to the first n of the pages.
Filled(t)   == IF t.page = NULL THEN t.queue ELSE Append(t.queue, t.page)
AllPages(t) == IF t.last > t.cfg THEN Len(Filled(t)) ELSE 0

Persistence(t, n) ==
  LET written == WriteFrames(t, SubSeq(Filled(t), 1, n))
  IN  IF n = AllPages(t) THEN [written EXCEPT !.cfg = t.last] ELSE written

Clean(t, fs) ==
  [t EXCEPT !.cache.frame = [f \in Frames |-> [@[f] EXCEPT !.dirty = @ /\ f \notin fs]]]

CommitteTransaction(t) ==
  LET clean == Clean(t, {f \in Frames : \E i \in DOMAIN Filled(t) : Filled(t)[i] = f})
  IN  [IF t.page = NULL THEN clean ELSE [clean EXCEPT !.cache.frame[t.page].isnew = FALSE]
       EXCEPT !.queue = << >>, !.page = NULL]

\* A page that is not new is only unmarked, and goes on being filled.
RollbackCache(t) ==
  LET new == SelectSeq(Filled(t), LAMBDA f : t.cache.frame[f].isnew)
      old == {f \in Frames : ~t.cache.frame[f].isnew /\ \E i \in DOMAIN Filled(t) : Filled(t)[i] = f}
  IN  IF t.last > t.cfg
      THEN [Clean(t, old) EXCEPT
              !.cache = FoldLeft(ReleasePage, @, new), !.queue = << >>, !.last = t.cfg,
              !.page = IF t.cache.frame[@].isnew THEN NULL ELSE @]
      ELSE [t EXCEPT !.last = t.cfg]

RollbackTransaction(t) == LET r == RollbackCache(t) IN [r EXCEPT !.cfg = LogOf(r)]

RecoverFromLog(t) == [t EXCEPT !.cfg = LogOf(t), !.last = LogOf(t)]
=============================================================================
