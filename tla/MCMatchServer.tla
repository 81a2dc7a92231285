--------------------------- MODULE MCMatchServer ---------------------------
(***************************************************************************)
(* Small instances of MatchServer for TLC.                                 *)
(***************************************************************************)
EXTENDS ServerLobby

\* The demo client only ever sends CREATE:2,2 (ServerConnection::CreateGame).
MCLimits == {[min |-> 2, max |-> 2]}

\* No action reads sent, so states that differ only in it have the same future.
MCView == <<link, state, name, games>>

MCSymmetry == Permutations(Peers) \cup Permutations(Names)
=============================================================================
