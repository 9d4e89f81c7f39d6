------------------------------ MODULE MCFreezer ------------------------------
(* Instances of Freezer for TLC.                                            *)
EXTENDS Freezer

CONSTANTS p1, p2, fixed, pointer

Procs   == {p1, p2}
Entries == {fixed, pointer}
=============================================================================
