----------------------------- MODULE MCUaSystem -----------------------------
(***************************************************************************)
(* Small instances of UaSystem for TLC.                                    *)
(***************************************************************************)
EXTENDS UaRpc, TLC

\* The clients are interchangeable in every safety property.
Symmetry == Permutations(Clients)
=============================================================================
