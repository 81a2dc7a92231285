-------------------------- MODULE MCP2PConnection --------------------------
(***************************************************************************)
(* Small instances of P2PConnection for TLC.                               *)
(***************************************************************************)
EXTENDS P2PConnection

\* A path is only ever compared with another one.  For the safety runs.
MCSymmetry == Permutations(Paths)
=============================================================================
