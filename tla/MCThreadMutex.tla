---------------------------- MODULE MCThreadMutex ----------------------------
(* Instances of ThreadMutex for TLC. *)
EXTENDS ThreadMutex, TLC

Symmetry == Permutations(Thread \ {main_thread})
=============================================================================
