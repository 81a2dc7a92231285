------------------------------- MODULE Lobby -------------------------------
(***************************************************************************)
(* What the matchmaking server promises about games, with no messages,     *)
(* names, connections or lists of games: every user is in at most one      *)
(* room, its own or one whose host it asked to join, and a game is called  *)
(* when a host has admitted exactly one player.                            *)
(***************************************************************************)
EXTENDS FiniteSets

CONSTANTS
    Users,
    Nobody    \* the host of those who are in no room; no user

VARIABLES
    host,      \* host[u]: whose room u is in; a host is in its own
    waiting,   \* the users who asked to join and were not admitted yet
    called     \* who was told to start a game in this step

lobbyVars == <<host, waiting, called>>

Guests(h) == {u \in Users \ {h} : host[u] = h}
Admitted(h) == Guests(h) \ waiting

\* S leave the rooms they are in.
Release(S) ==
    /\ host' = [u \in Users |-> IF u \in S THEN Nobody ELSE host[u]]
    /\ waiting' = waiting \ S
-----------------------------------------------------------------------------
LobbyInit ==
    /\ host = [u \in Users |-> Nobody]
    /\ waiting = {}
    /\ called = {}

Open(h) ==
    /\ host[h] = Nobody
    /\ host' = [host EXCEPT ![h] = h]
    /\ called' = {}
    /\ UNCHANGED waiting

Ask(u, h) ==
    /\ host[u] = Nobody /\ host[h] = h
    /\ host' = [host EXCEPT ![u] = h]
    /\ waiting' = waiting \cup {u}
    /\ called' = {}

Admit(u) ==
    /\ u \in waiting
    /\ waiting' = waiting \ {u}
    /\ called' = {}
    /\ UNCHANGED host

\* A guest leaves, is refused or is lost.
Go(u) ==
    /\ host[u] \notin {u, Nobody}
    /\ Release({u})
    /\ called' = {}

\* The host leaves or is lost: nobody stays behind in its room.
Close(h) ==
    /\ host[h] = h
    /\ Release({h} \cup Guests(h))
    /\ called' = {}

\* Those of the two who can still be told are told, in the step that closes the room.
Start(h) ==
    /\ host[h] = h
    /\ \E v \in Users : Admitted(h) = {v}
    /\ Release({h} \cup Guests(h))
    /\ called' \in SUBSET ({h} \cup Admitted(h))

\* Anything that happens outside the rooms.
Rest == called' = {} /\ UNCHANGED <<host, waiting>>

LobbyNext ==
    \/ Rest
    \/ \E u \in Users : Open(u) \/ Admit(u) \/ Go(u) \/ Close(u) \/ Start(u)
    \/ \E u, h \in Users : Ask(u, h)

LobbySpec == LobbyInit /\ [][LobbyNext]_lobbyVars
=============================================================================
