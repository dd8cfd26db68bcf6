------------------------------ MODULE FileStore ------------------------------
(***************************************************************************)
(* What the tables need of the virtual file system: the logical file id of *)
(* type t, once allocated, is at one place for ever, and no two files      *)
(* share a place.                                                          *)
(***************************************************************************)
EXTENDS Functions

VARIABLE place \* a function from the allocated <<type, id>> to their places

Files == DOMAIN place

Init == Files = {}

Alloc ==
  /\ \E f \in Files' : Files = Files' \ {f}
  /\ IsInjective(place')
  /\ Restrict(place', Files) = place

Spec == Init /\ [][Alloc]_place
=============================================================================
