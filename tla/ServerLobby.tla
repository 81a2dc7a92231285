---------------------------- MODULE ServerLobby ----------------------------
(***************************************************************************)
(* MatchServer implements Lobby.  A room is an element of m_games; the     *)
(* order of the list, the states of the users, names, links and all        *)
(* messages but START are forgotten.  A user who was kicked off is a user  *)
(* like any other until its disconnect event.                              *)
(***************************************************************************)
EXTENDS MatchServer

CONSTANT Nobody

ASSUME NobodyAssumption == Nobody \notin Peers

RoomOf(p) == {i \in DOMAIN games : p \in Players(games[i])}

HostOf == [p \in Peers |-> IF RoomOf(p) = {} THEN Nobody ELSE games[Min(RoomOf(p))].creator]

Waiting == UNION {games[i].pending : i \in DOMAIN games}

Called == {p \in Peers : \E k \in DOMAIN sent[p] : sent[p][k].type = "Start"}

Abstract == INSTANCE Lobby WITH Users <- Peers, Nobody <- Nobody,
                                host <- HostOf, waiting <- Waiting, called <- Called

\* Whatever the clients send and whenever they vanish, each event of the server is one
\* step of the lobby: nobody is in a room without having asked, is admitted without
\* waiting, stays in a room whose host has gone, or is started with anyone but the host
\* of its room.
ImplementsLobby == Abstract!LobbySpec
=============================================================================
