------------------------- MODULE MCBlockPersistence -------------------------
(* Small instances of BlockPersistence. *)
EXTENDS BlockPersistence, TLC
=============================================================================
