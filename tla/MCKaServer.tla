----------------------------- MODULE MCKaServer -----------------------------
(* The kernel-mode server on its own: no client is needed for its worker. *)
EXTENDS KaServer
=============================================================================
