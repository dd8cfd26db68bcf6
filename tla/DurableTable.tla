---------------------------- MODULE DurableTable ----------------------------
(***************************************************************************)
(* What the order node promises about its durable state: one table of      *)
(* pages and one block height that only ever change together, one block    *)
(* at a time.  BlockPersistence implements it with a redo log, a config    *)
(* file and a page-by-page write that a crash may interrupt anywhere.      *)
(***************************************************************************)
EXTENDS Naturals

CONSTANTS Pages,    \* pages of the write-set-version table
          Content   \* what a page can hold

VARIABLES height,   \* height of the last block whose modification is durable
          table     \* content of every page once that block is applied

vars == <<height, table>>

Init == /\ height = 0
        /\ table \in [Pages -> Content]

\* One block becomes durable, with all of its pages, in one step.
Commit == /\ height' = height + 1
          /\ table' \in [Pages -> Content]

Spec == Init /\ [][Commit]_vars
=============================================================================
