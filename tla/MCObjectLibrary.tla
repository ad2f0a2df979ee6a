-------------------------- MODULE MCObjectLibrary --------------------------
(* Two interchangeable clients of the older generation. *)
EXTENDS ObjectLibrary, TLC

Symmetry == Permutations(Clients)
=============================================================================
