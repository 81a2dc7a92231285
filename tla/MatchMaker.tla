---------------------------- MODULE MatchMaker ----------------------------
(***************************************************************************)
(* The demo client: what MatchMaker::setCallbacks makes of the callbacks   *)
(* of MatchViews.  menu[p] is what the process at slot p shows and         *)
(* remembers once it has received everything queued for it.  The menu is a *)
(* second copy of the room a client is in, kept in mode, requestedJoiners, *)
(* joined and userRemoved, and its commands are built from that copy.      *)
(*                                                                         *)
(* menu is a history of sent: what the server does depends on the messages *)
(* that arrive, and these are not constrained.                             *)
(***************************************************************************)
EXTENDS MatchViews

CONSTANTS
    Process,  \* Process[p]: the name of the one process that ever connects from slot p;
              \* NoName when each connection is a new process
    Unclean   \* a name typed with a ',' or a ':' in it: no name the server knows is equal to it

ASSUME ProcessAssumption == Process \in [Peers -> Names \cup {NoName}]
ASSUME UncleanAssumption == Unclean \notin Names \cup {NoName}

VARIABLE menu

menuVars == <<viewVars, menu>>

\* loggedPlayerName, menuMode, openGames, requestedJoiners, joined and userRemoved.
Menus == [logged : Names \cup {NoName, Unclean},
          mode : {"not_connected", "default", "wait_to_join", "requested_to_join",
                  "allow_deny_leave", "lobby"},
          open : Seq(Names), asked : SUBSET Names, joined : SUBSET Names, removed : BOOLEAN]

NewMenu(typed) == [logged |-> typed, mode |-> "not_connected", open |-> <<>>,
                   asked |-> {}, joined |-> {}, removed |-> FALSE]
-----------------------------------------------------------------------------
(***************************************************************************)
(* The callbacks.  v.logged is loggedPlayerName, as it was typed; n is     *)
(* m_userName, the same without ',' and ':', which the server knows.       *)
(***************************************************************************)
\* The mode goes by the list: somebody hosts, the client does, or the client has asked.
ShowGames(v, list) ==
    LET shown == [v EXCEPT !.open = list]
    IN  CASE list = <<>>              -> [shown EXCEPT !.mode = "default", !.removed = FALSE]
          [] v.logged \in ToSet(list) -> [shown EXCEPT !.mode = "wait_to_join"]
          [] OTHER -> [shown EXCEPT !.mode = IF v.logged \in v.asked /\ ~v.removed
                                            THEN "requested_to_join" ELSE "default"]

\* Mutant: a host that is asked does not keep the question on the screen.
OnOpenGames_Always(v, list) == ShowGames(v, list)

\* A question to the host is not wiped away by a new list, which is not even stored.
OnOpenGames(v, list) ==
    IF v.mode = "allow_deny_leave" /\ v.asked # {} THEN v ELSE ShowGames(v, list)

\* JOIN comes back to whoever asked and goes to the host: the name tells which it is.
OnJoinRequest(n, v, who) ==
    IF who # n THEN [v EXCEPT !.mode = "allow_deny_leave"]
    ELSE IF v.removed THEN v ELSE [v EXCEPT !.mode = "requested_to_join"]

\* Mutant: the joiners of the game that was left are remembered.
OnRemoved_Remembers(v) == [v EXCEPT !.removed = TRUE]

\* LeftGameOK and RemovedFromGame.  joined stays as it was.
OnRemoved(v) == [v EXCEPT !.removed = TRUE, !.asked = {}]

\* Mutant: joined is only ever added to.
OnGameInfo_Collects(v, room) ==
    [v EXCEPT !.asked = room.pending, !.joined = @ \cup room.joined, !.removed = FALSE]

OnGameInfo(v, room) ==
    [v EXCEPT !.asked = room.pending, !.joined = room.joined, !.removed = FALSE]

React(n, v, m) ==
    CASE m.type = "Join"               -> OnJoinRequest(n, v, m.who)
      [] m.type = "Start"              -> [v EXCEPT !.mode = "lobby"]
      [] m.type \in {"Leave", "Eject"} -> OnRemoved(v)
      [] m.type = "GamesOpen"          -> OnOpenGames(v, m.list)
      [] m.type = "GameInfo"           -> OnGameInfo(v, m.info)
      [] OTHER                         -> v

\* Nothing is received behind a START.
ReactAll(n, view, v, msgs) ==
    LET client[k \in 0..Len(msgs)] ==
            IF k = 0 THEN [view |-> view, menu |-> v]
            ELSE [view |-> Hear(n, client[k - 1].view, msgs[k]),
                  menu |-> IF client[k - 1].view.left THEN client[k - 1].menu
                           ELSE React(n, client[k - 1].menu, msgs[k])]
    IN  client[Len(msgs)].menu
-----------------------------------------------------------------------------
(***************************************************************************)
(* processServerCommands.                                                  *)
(***************************************************************************)
\* The keys 1 to 9.
Joins(v) == [type : {"Join"}, who : ToSet(v.open)]

\* The keys y, Y, n and N.
Answers(v) == [type : {"Approve", "Eject"}, who : v.asked]

\* The key k.
Kicks(v) == [type : {"Eject"}, who : v.joined]
-----------------------------------------------------------------------------
MenuInit == ViewInit /\ menu = [p \in Peers |-> NewMenu(Process[p])]

\* The new processes whose LOGIN this step accepts.
LoggingIn == {p \in Peers : Process[p] = NoName /\ name'[p] \notin {NoName, name[p]}}

\* The menu of slot p before the messages of this step.  What the user of a new process
\* typed counts from its LOGIN on: it is the name the server has, unless it was cleaned.
MenuBefore(p, cleaned) ==
    IF p \in LoggingIn
    THEN [menu[p] EXCEPT !.logged = IF p \in cleaned THEN Unclean ELSE name'[p]]
    ELSE menu[p]

MenuNext ==
    /\ ViewNext
    /\ \A p \in Peers : Process[p] # NoName => name'[p] \in {NoName, Process[p]}
    /\ \E cleaned \in SUBSET LoggingIn :
         menu' = [p \in Peers |->
             IF link'[p] = "up" THEN ReactAll(name'[p], told[p], MenuBefore(p, cleaned), sent'[p])
             ELSE IF Process[p] = NoName THEN NewMenu(NoName) ELSE menu[p]]

MenuSpec == MenuInit /\ [][MenuNext]_menuVars
-----------------------------------------------------------------------------
(***************************************************************************)
(* Properties.                                                             *)
(***************************************************************************)
Hosting(p) == \E i \in DOMAIN games : games[i].creator = p
PendingFor(p) == UNION {games[i].pending : i \in CreatedBy(p)}
Pending(p) == \E i \in DOMAIN games : p \in games[i].pending
Joined(p) == \E i \in DOMAIN games : p \in games[i].joined

JoinedTo(p) == UNION {games[i].joined : i \in CreatedBy(p)}

\* The menu of a user whose name needed no cleaning (any other is never found in a list of
\* games, so its host stays in the default mode) offers what it can do where the server
\* has it, although the callbacks that set the mode come in a different order from each
\* handler: KillGame even sends the list of games before it says that the player was
\* removed.  A host that has approved and a player that was approved keep the mode they
\* had until the next list.
MenuFits ==
    \A p \in {q \in Listening : menu[q].logged = name[q]} :
        menu[p].mode \in
            CASE PendingFor(p) # {} -> {"allow_deny_leave"}
              [] Hosting(p) /\ PendingFor(p) = {} -> {"wait_to_join", "allow_deny_leave"}
              [] Pending(p) -> {"requested_to_join"}
              [] Joined(p)  -> {"requested_to_join", "default"}
              [] OTHER      -> {"default"}

\* A command is built from the lists the menu holds, and finds what it names: who asks to
\* join asks the host of an open game, who answers answers a player that waits, and who
\* kicks while somebody is in the game or waits for it kicks a player that has joined.
\* Before the first GAMEINFO of a game joined is that of the game before, which nothing
\* clears, and the key names its players.
CommandsLand ==
    \A p \in Listening :
        /\ state[p] = "LoggedIn" => \A m \in Joins(menu[p]) : CreatedByName(m.who) # {}
        /\ state[p] = "OpenedGame" =>
             /\ \A m \in Answers(menu[p]) : \E q \in PendingFor(p) : name[q] = m.who
             /\ PendingFor(p) \cup JoinedTo(p) # {}
                  => \A m \in Kicks(menu[p]) : \E q \in JoinedTo(p) : name[q] = m.who
-----------------------------------------------------------------------------
(***************************************************************************)
(* What a comment of the repository says and the code does not do.         *)
(***************************************************************************)
\* clientMain.h:74, of the menu in mode MMM_3_ALLOW_DENY_LEAVE: "PLAYER2 WANTS TO JOIN"; and
\* ServerConnection.h:62: "You are hosting a game and a player has asked to join".  A host
\* that disconnects and connects again still has the old joiners and no list gets through.
AskedIsHosting == \A p \in Listening : menu[p].mode = "allow_deny_leave" => Hosting(p)
=============================================================================
