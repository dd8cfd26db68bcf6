---------------------------- MODULE RecordTable ----------------------------
(***************************************************************************)
(* CVbhRecordTable: the page cache all tables share.  Pages live in page   *)
(* objects, here frames; m_mapPage finds the frame of a page id, and       *)
(* m_queuePage orders the frames from the least to the most recently used. *)
(* The cache is a record, every operation a function of it.                *)
(*                                                                         *)
(*   queue  m_queuePage, a CVbhUniteDqueue of frames                       *)
(*   map    m_mapPage: for each page id the frames inserted under it, the  *)
(*          newest first, which is the one Find returns                    *)
(*   frame  what a CPage holds; a free frame has the id NULL               *)
(*   num    m_nMapPageNum                                                  *)
(*   limit  m_nMaxPageCacheNum                                             *)
(***************************************************************************)
EXTENDS Integers, Sequences, FiniteSets, FiniteSetsExt, SequencesExt

CONSTANTS Frames,      \* the page objects the model has, a set of numbers
          NULL,        \* no frame, no page, no record
          MaxID,       \* the largest record id
          PageRecords, \* m_nPageRecordNum
          CachePages,  \* the configured page cache, PAGE_CACHE_COUNT
          StepEnlarge  \* EN_STEP_ENLARGE_CACHE_PAGE_NUM

ASSUME RecordTableAssumption ==
  /\ PageRecords \in Nat \ {0} /\ CachePages \in Nat
  /\ StepEnlarge \in Nat \ {0} /\ MaxID \in Nat
  /\ Frames \subseteq Nat /\ IsFiniteSet(Frames) /\ Cardinality(Frames) > MaxID \div PageRecords
  /\ NULL \notin Nat

Dqueue == INSTANCE UniteDqueue WITH Nodes <- Frames

GetPageID(id)     == id \div PageRecords
GetPageRecord(id) == id % PageRecords

PageIDs == 0..GetPageID(MaxID)
Slots   == 0..PageRecords - 1

\* The content of a page that was allocated and not yet written: what the
\* memory held is never read, since records are read below the last id only.
BlankPage == [s \in Slots |-> NULL]

FreeFrame == [id |-> NULL, dirty |-> FALSE, isnew |-> FALSE, content |-> BlankPage]

\* Open: nothing is cached.
OpenCache ==
  [queue |-> Dqueue!EmptyDqueue, map |-> [p \in PageIDs |-> << >>],
   frame |-> [f \in Frames |-> FreeFrame], num |-> 0, limit |-> CachePages]

FindPage(c, p) == IF c.map[p] = << >> THEN NULL ELSE Head(c.map[p])

\* AllocPage takes a page object of its own.
FreeFrames(c) == {f \in Frames : c.frame[f].id = NULL}
AllocFrame(c) == CHOOSE f \in FreeFrames(c) : \A g \in FreeFrames(c) : f <= g

\* Take the frame out of the queue and of the map; the object stays.
Detach(c, f) ==
  [c EXCEPT !.queue = Dqueue!Erase(@, f),
            !.map[c.frame[f].id] = RemoveAt(@, CHOOSE i \in DOMAIN @ : @[i] = f),
            !.num = @ - 1]

\* Put the frame, which carries the page p, into the map and behind the queue.
Attach(c, f, p) ==
  [c EXCEPT !.queue = Dqueue!PushBack(@, f), !.map[p] = <<f>> \o @,
            !.frame[f].id = p, !.num = @ + 1]

FreePage(c, f)    == [c EXCEPT !.frame[f] = FreeFrame]
\* Mutant: the page is freed and stays in the map and in the queue.
ReleaseAttached(c, f) == FreePage(c, f)

ReleasePage(c, f) == FreePage(Detach(c, f), f)

\* The frame to give up when the cache is full: the least recently used one
\* that is not dirty, NULL when all are dirty.
Victim(c) ==
  LET order == Dqueue!Contents(c.queue)
      clean == {i \in DOMAIN order : ~c.frame[order[i]].dirty}
  IN  IF clean = {} THEN NULL ELSE order[Min(clean)]

IsFull(c)  == c.num > c.limit
Enlarge(c) == [c EXCEPT !.limit = @ + StepEnlarge]

(***************************************************************************)
(* GetPage(p).  A page that is not cached is read into the frame of the    *)
(* victim, whose flags stay as they are, or into a new frame.  stored is   *)
(* what ReadPage delivers, NULL when it fails: then the frame is freed.    *)
(***************************************************************************)
GetPage(c, p, stored) ==
  IF FindPage(c, p) # NULL
  THEN LET f == FindPage(c, p)
       IN  [c EXCEPT !.queue = Dqueue!PushBack(Dqueue!Erase(@, f), f)]
  ELSE LET reused == IF IsFull(c) THEN Victim(c) ELSE NULL
           room   == CASE reused # NULL -> Detach(c, reused)
                       [] IsFull(c) /\ reused = NULL -> Enlarge(c)
                       [] OTHER -> c
           f == IF reused # NULL THEN reused ELSE AllocFrame(c)
       IN  IF stored = NULL
           THEN FreePage(room, f)
           ELSE Attach([room EXCEPT !.frame[f].content = stored], f, p)

\* Whether GetPage returns a page.
Gets(c, p, stored) == FindPage(c, p) # NULL \/ stored # NULL

\* InsertPage of a new page, allocated before the cache makes room for it.
InsertNewPage(c, p) ==
  LET f == AllocFrame(c)
      held == [c EXCEPT !.frame[f] =
                 [id |-> p, dirty |-> TRUE, isnew |-> TRUE, content |-> BlankPage]]
      room == CASE IsFull(c) /\ Victim(c) # NULL -> ReleasePage(held, Victim(c))
                [] IsFull(c) /\ Victim(c) = NULL -> Enlarge(held)
                [] OTHER -> held
  IN  Attach(room, f, p)

\* Encode a record into its page, which is cached.
PutRecord(c, id, record) ==
  [c EXCEPT !.frame[FindPage(c, GetPageID(id))].content[GetPageRecord(id)] = record]

GetRecord(c, id) == c.frame[FindPage(c, GetPageID(id))].content[GetPageRecord(id)]

CachedFrames(c) == {f \in Frames : \E p \in PageIDs : \E i \in DOMAIN c.map[p] : c.map[p][i] = f}

(***************************************************************************)
(* What the two containers of the cache and its counter owe each other: a  *)
(* page is cached once, the queue holds each cached frame once and its     *)
(* links agree in both directions, so that an eviction meets every page.   *)
(***************************************************************************)
CacheSound(c) ==
  LET order == Dqueue!Contents(c.queue)
  IN  /\ \A p \in PageIDs : \/ c.map[p] = << >>
                            \/ Len(c.map[p]) = 1 /\ c.frame[c.map[p][1]].id = p
      /\ {order[i] : i \in DOMAIN order} = CachedFrames(c)
      /\ Len(order) = c.num /\ Cardinality(CachedFrames(c)) = c.num
      /\ \A i \in 1..Len(order) - 1 : c.queue.prev[order[i + 1]] = order[i]
      /\ c.num > 0 => c.queue.back = order[Len(order)]
=============================================================================
