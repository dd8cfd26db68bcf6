------------------------ MODULE MCBlockDistribution ------------------------
(* Small instances of BlockDistribution. *)
EXTENDS BlockDistribution, TLC
=============================================================================
