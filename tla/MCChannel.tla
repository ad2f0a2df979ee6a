----------------------------- MODULE MCChannel -----------------------------
(* The demonstration program with its million iterations cut to MaxSends. *)
EXTENDS Channel
=============================================================================
