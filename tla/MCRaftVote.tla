----------------------------- MODULE MCRaftVote -----------------------------
(* Small instances of RaftVote. *)
EXTENDS RaftVote, TLC

\* The servers are interchangeable, and no liveness is checked.
Symmetry == Permutations(Server)
=============================================================================
