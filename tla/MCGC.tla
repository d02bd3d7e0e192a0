-------------------------------- MODULE MCGC --------------------------------
(* An instance of GC for TLC: a page of two cells and a page of one.       *)
EXTENDS GC

TwoPages == [p \in Page |-> IF p = heap0 THEN {1, 2} ELSE {3}]
=============================================================================
