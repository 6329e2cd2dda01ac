-------------------------- MODULE MCObjectHandler --------------------------
(* Two client sessions, and two providers that differ in nothing. *)
EXTENDS ObjectHandler, TLC

Symmetry == Permutations(Providers)
=============================================================================
