----------------------------- MODULE MCUaNested -----------------------------
(* Every callback may call and terminate every server, its own included. *)
EXTENDS UaNested
=============================================================================
