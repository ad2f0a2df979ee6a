---------------------------- MODULE MCUaMessage ----------------------------
(* The lengths around the boundaries of a USHORT and of the maximum. *)
EXTENDS UaMessage

Boundaries == (0..50) \cup (65440..65535)
=============================================================================
