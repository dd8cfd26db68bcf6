------------------------ MODULE MCTransactionPacking ------------------------
(* Small instances of TransactionPacking. *)
EXTENDS TransactionPacking, TLC
=============================================================================
