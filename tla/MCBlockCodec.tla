---------------------------- MODULE MCBlockCodec ----------------------------
(* The tree grows twice in a block of three transactions, and the serial   *)
(* number wraps within five submissions.                                   *)
EXTENDS BlockCodec
=============================================================================
