----------------------------- MODULE PageTable -----------------------------
(***************************************************************************)
(* The cache of RecordTable over the pages of the table's files            *)
(* (CVbhPageTable), without packages between: what CVbhUpdateTable and     *)
(* CVbhAppendTable have in common.  A table is a record with the fields    *)
(* cache and device, every operation a function of it.                     *)
(***************************************************************************)
EXTENDS RecordTable

ReadPage(t, p, deviceFails) == IF deviceFails THEN NULL ELSE t.device[p]

LoadPage(t, p, deviceFails) == [t EXCEPT !.cache = GetPage(@, p, ReadPage(t, p, deviceFails))]
Loads(t, p, deviceFails)    == Gets(t.cache, p, ReadPage(t, p, deviceFails))

\* WritePage of a sequence of frames, one after the other.
WriteFrames(t, frames) ==
  [t EXCEPT !.device = [p \in PageIDs |->
     LET of == SelectSeq(frames, LAMBDA f : t.cache.frame[f].id = p)
     IN  IF of = << >> THEN @[p] ELSE t.cache.frame[of[Len(of)]].content]]

DeviceRecord(t, id) == t.device[GetPageID(id)][GetPageRecord(id)]

\* What Read answers: from the cache, or from the page it would load.
ReadRecord(t, id) ==
  IF FindPage(t.cache, GetPageID(id)) # NULL THEN GetRecord(t.cache, id)
  ELSE DeviceRecord(t, id)
=============================================================================
