---- MODULE MCRubyThread ----
(* Instances of RubyThread for TLC. *)
EXTENDS RubyThread, TLC

Symmetry == Permutations(Thread \ {main_thread})
Equal == {0}
Two == {0, 1}
=============================================================================
