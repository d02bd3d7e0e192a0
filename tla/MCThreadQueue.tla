---------------------------- MODULE MCThreadQueue ----------------------------
(* Instances of ThreadQueue for TLC. *)
EXTENDS ThreadQueue

One == {1}
OneTwo == {1, 2}
=============================================================================
