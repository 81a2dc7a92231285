----------------------------- MODULE MatchViews -----------------------------
(***************************************************************************)
(* What the clients of MatchServer know: ServerConnection::Update receives *)
(* the server's messages over one reliable ordered channel and hands them  *)
(* to the ServerCallbacks.  told[p] is what the callbacks of the client at *)
(* slot p have said once it has received everything queued for it so far:  *)
(* the players, the open games and the room it is in.                      *)
(*                                                                         *)
(* told is a history of sent and restricts nothing the server does.        *)
(***************************************************************************)
EXTENDS MatchServer

VARIABLE told    \* told[p]: the last word of each callback at the client of slot p

viewVars == <<vars, told>>

NoRoom == [creator |-> NoName, joined |-> {}, pending |-> {}]

\* A ServerConnection that has just connected.
Fresh == [players |-> {}, games |-> <<>>, room |-> NoRoom, left |-> FALSE]

Views == [players : SUBSET Names, games : Seq(Names), left : BOOLEAN,
          room : [creator : Names \cup {NoName}, joined : SUBSET Names, pending : SUBSET Names]]

-----------------------------------------------------------------------------
(***************************************************************************)
(* One message received.  n is the client's own name.                      *)
(***************************************************************************)
\* START calls enet_peer_disconnect, which empties the queues of the peer: the
\* messages behind it are never delivered and the client goes on to the P2P lobby.
Hear(n, v, m) ==
    IF v.left THEN v
    ELSE CASE m.type = "Start"         -> [Fresh EXCEPT !.left = TRUE]
           [] m.type = "PlayersActive" -> [v EXCEPT !.players = m.list]
           [] m.type = "GamesOpen"     -> [v EXCEPT !.games = m.list]
           [] m.type = "Create"        -> [v EXCEPT !.room = [NoRoom EXCEPT !.creator = n]]
           [] m.type = "GameInfo"      -> [v EXCEPT !.room = m.info]
           [] m.type \in {"Leave", "Eject"} -> [v EXCEPT !.room = NoRoom]
           [] OTHER                    -> v

\* The messages in order.
HearAll(n, v, msgs) ==
    LET heard[k \in 0..Len(msgs)] == IF k = 0 THEN v ELSE Hear(n, heard[k - 1], msgs[k])
    IN  heard[Len(msgs)]

ViewInit == Init /\ told = [p \in Peers |-> Fresh]

\* Nothing more is queued for a slot that is closing, and one that is free again has
\* forgotten its client.
ViewNext ==
    /\ Next
    /\ told' = [p \in Peers |-> IF link'[p] = "up" THEN HearAll(name'[p], told[p], sent'[p])
                                ELSE Fresh]

ViewSpec == ViewInit /\ [][ViewNext]_viewVars

-----------------------------------------------------------------------------
\* Every view is made of names the users logged in with.
ViewTypeOK == told \in [Peers -> Views]

\* The clients still listening: logged in, connected and not gone to a P2P lobby.
Listening == {p \in ActivePlayers(state) : link[p] = "up" /\ ~told[p].left}

\* No broadcast is missed, early or out of order: each logged in client has the current
\* list of open games, whoever opened, started, left or lost one, and the current list
\* of players, up to those kicked off whose disconnect has not come yet.
ListsCurrent ==
    \A p \in Listening :
        /\ told[p].games = [i \in DOMAIN games |-> name[games[i].creator]]
        /\ told[p].players \ {name[q] : q \in {r \in Peers : link[r] = "closing"}}
             = {name[q] : q \in {r \in ActivePlayers(state) : link[r] = "up"}}

\* The room a client shows is the room the server has it in: who hosts, who joined, who
\* waits.  GAMEINFO, CREATE, LEAVE and EJECT are sent by five different functions.
RoomCurrent ==
    \A p \in Listening :
        told[p].room = IF \E i \in DOMAIN games : p \in Players(games[i])
                       THEN FullInfo(games[CHOOSE i \in DOMAIN games : p \in Players(games[i])])
                       ELSE NoRoom
=============================================================================
