--------------------------- MODULE MCFirstLibrary ---------------------------
(* Two clients of the first generation. *)
EXTENDS FirstLibrary
=============================================================================
