----------------------------- MODULE PackedTable -----------------------------
(***************************************************************************)
(* What the version table promises the order node: one function from the   *)
(* ids of write-sets to their versions, of which the node sees three       *)
(* states at once.  stored survives a restart; packed are the snapshots of *)
(* the blocks that wait for their persistence, the oldest first; view is   *)
(* the newest state, with the block being packed.  Neither pages nor       *)
(* caches nor logs show.                                                   *)
(***************************************************************************)
EXTENDS Integers, Sequences, SequencesExt

CONSTANTS MaxID, MaxVersion, NULL

VARIABLES stored, packed, view

vars == <<stored, packed, view>>

IDs     == 1..MaxID
Records == [IDs -> 0..MaxVersion \cup {NULL}]

\* What view goes back to when the block being packed is dropped.
Newest == IF packed = << >> THEN stored ELSE Last(packed)

\* Ids are given out one after another; a record never disappears.
Extends(new, old) == \A id \in IDs : old[id] # NULL => new[id] # NULL /\ new[id] >= old[id]

Contiguous(records) == \A id \in IDs \ {1} : records[id] # NULL => records[id - 1] # NULL

Init ==
  /\ stored \in Records /\ Contiguous(stored)
  /\ packed = << >> /\ view = stored

\* A transaction adds records and raises versions.
Change ==
  /\ view' \in Records /\ Extends(view', view) /\ Contiguous(view')
  /\ UNCHANGED <<stored, packed>>

Rollback == view' = Newest /\ UNCHANGED <<stored, packed>>

Pack == packed' = Append(packed, view) /\ UNCHANGED <<stored, view>>

Persist ==
  /\ packed # << >>
  /\ stored' = Head(packed) /\ packed' = Tail(packed) /\ UNCHANGED view

\* A block fetched from a peer is stored as a whole, on top of what is stored.
Fetch ==
  /\ packed = << >> /\ view = stored
  /\ stored' \in Records /\ Extends(stored', stored) /\ Contiguous(stored')
  /\ view' = stored' /\ UNCHANGED packed

\* A restart keeps what is stored, with the block whose persistence it
\* interrupts or without it.
Restart ==
  /\ \/ stored' = stored
     \/ packed # << >> /\ stored' = Head(packed)
  /\ view' = stored' /\ packed' = << >>

Next == Change \/ Rollback \/ Pack \/ Persist \/ Fetch \/ Restart

Spec == Init /\ [][Next]_vars
=============================================================================
