---------------------------- MODULE VersionTable ----------------------------
(***************************************************************************)
(* CVbhMultiUpdateTable, the write-set version table of an order node: the *)
(* cache of RecordTable over the queued modify packages over the device.   *)
(* A table is a record, every operation a function of it.                  *)
(*                                                                         *)
(*   cache     the page cache                                              *)
(*   dirty     m_lstCurDirtyPage, frames in the order they became dirty    *)
(*   packages  m_queueModifyPackage: per package a function from the ids   *)
(*             of its pages to their copies                                *)
(*   log       the package in the memory mapped log file                   *)
(*   device    the pages in the table's files                              *)
(***************************************************************************)
EXTENDS RecordTable

EmptyLog == [p \in {} |-> << >>]

\* Open of a table whose files were formatted, or written by an earlier run.
OpenTable(log, device) ==
  [cache |-> OpenCache, dirty |-> << >>, packages |-> << >>, log |-> log, device |-> device]

\* The packages among the n oldest that have a copy of the page, and the page
\* once these n are written: the newest copy, or what the device has.
Holders(t, n, p) == {i \in 1..n : p \in DOMAIN t.packages[i]}

PageAfter(t, n, p) ==
  IF Holders(t, n, p) = {} THEN t.device[p] ELSE t.packages[Max(Holders(t, n, p))][p].content

\* Mutant: the packages are searched from the oldest on.
ReadOldestPage(t, p, deviceFails) ==
  LET holders == Holders(t, Len(t.packages), p)
  IN  CASE holders # {} -> t.packages[Min(holders)][p].content
        [] holders = {} /\ ~deviceFails -> t.device[p]
        [] OTHER -> NULL

\* ReadPage: the copy in the newest package that has the page, or the device,
\* which may fail to deliver it.
ReadPage(t, p, deviceFails) ==
  CASE Holders(t, Len(t.packages), p) # {} -> PageAfter(t, Len(t.packages), p)
    [] Holders(t, Len(t.packages), p) = {} /\ ~deviceFails -> t.device[p]
    [] OTHER -> NULL

GetTablePage(t, p, deviceFails) ==
  [t EXCEPT !.cache = GetPage(@, p, ReadPage(t, p, deviceFails))]

GetsTablePage(t, p, deviceFails) == Gets(t.cache, p, ReadPage(t, p, deviceFails))

\* Encode a record into its cached page and mark the page.
PutDirty(t, id, record) ==
  LET f == FindPage(t.cache, GetPageID(id))
  IN  [t EXCEPT !.cache = [PutRecord(@, id, record) EXCEPT !.frame[f].dirty = TRUE],
                !.dirty = IF t.cache.frame[f].dirty THEN @ ELSE Append(@, f)]

\* Read, Update and Append of one record; each has a predicate for success.
\* Any of them may load a page and evict another, also when it fails.
ReadRecord(t, id, deviceFails) == GetTablePage(t, GetPageID(id), deviceFails)

UpdateSucceeds(t, id, deviceFails) == GetsTablePage(t, GetPageID(id), deviceFails)

UpdateRecord(t, id, record, deviceFails) ==
  IF UpdateSucceeds(t, id, deviceFails)
  THEN PutDirty(GetTablePage(t, GetPageID(id), deviceFails), id, record)
  ELSE GetTablePage(t, GetPageID(id), deviceFails)

AppendSucceeds(t, id, deviceFails) ==
  GetPageRecord(id) # 0 => GetsTablePage(t, GetPageID(id), deviceFails)

AppendRecord(t, id, record, deviceFails) ==
  IF GetPageRecord(id) # 0
  THEN UpdateRecord(t, id, record, deviceFails)
  ELSE LET c == InsertNewPage(t.cache, GetPageID(id))
       IN  [t EXCEPT !.cache = PutRecord(c, id, record),
                     !.dirty = Append(@, FindPage(c, GetPageID(id)))]

RollbackUnpackCache(t) ==
  LET released[n \in 0..Len(t.dirty)] ==
        IF n = 0 THEN t.cache ELSE ReleasePage(released[n - 1], t.dirty[n])
  IN  [t EXCEPT !.cache = released[Len(t.dirty)], !.dirty = << >>]

\* PackModify copies the dirty pages and clears their marks; of two dirty
\* frames of one page the first is copied (insert).
PackModify(t) ==
  LET Of(p)   == {i \in DOMAIN t.dirty : t.cache.frame[t.dirty[i]].id = p}
      pages   == {p \in PageIDs : Of(p) # {}}
      Copy(f) == [isnew |-> t.cache.frame[f].isnew, content |-> t.cache.frame[f].content]
      copies  == [p \in pages |-> Copy(t.dirty[Min(Of(p))])]
      clean == [f \in Frames |->
                 IF \E i \in DOMAIN t.dirty : t.dirty[i] = f
                 THEN [t.cache.frame[f] EXCEPT !.dirty = FALSE, !.isnew = FALSE]
                 ELSE t.cache.frame[f]]
  IN  [t EXCEPT !.packages = Append(@, copies), !.dirty = << >>, !.cache.frame = clean]

\* SaveToLog writes the oldest package over the log.
SaveToLog(t) == [t EXCEPT !.log = Head(t.packages)]

\* The pages of a package on the device; a new page allocates its file first.
WritePages(device, package, written) ==
  [p \in PageIDs |-> IF p \in written THEN package[p].content ELSE device[p]]

\* Persistence writes the oldest package; written are the pages it got to
\* before a write failed, all of them when none does.
Persistence(t, written) ==
  [t EXCEPT !.device = WritePages(@, Head(t.packages), written)]

CommitteTransaction(t) == [t EXCEPT !.packages = Tail(@)]

RedoByLog(t) == [t EXCEPT !.device = WritePages(@, t.log, DOMAIN t.log)]
-----------------------------------------------------------------------------
IDs == 1..MaxID

\* The records below the queued packages: those on the device, and those
\* after the n oldest packages.
RecordsOn(device) == [id \in IDs |-> device[GetPageID(id)][GetPageRecord(id)]]

AfterPackages(t, n) == RecordsOn([p \in PageIDs |-> PageAfter(t, n, p)])

\* The answer Read gives for a record: from the cache, or what it would load.
Answer(t, id) ==
  IF FindPage(t.cache, GetPageID(id)) # NULL
  THEN GetRecord(t.cache, id)
  ELSE ReadPage(t, GetPageID(id), FALSE)[GetPageRecord(id)]

Answers(t) == [id \in IDs |-> Answer(t, id)]
=============================================================================
