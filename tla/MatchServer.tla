---------------------------- MODULE MatchServer ----------------------------
(***************************************************************************)
(* The matchmaking server: Server/main.cpp (the event loop), Connections   *)
(* (users and open games), User and its per-user state machine (States),   *)
(* and Game.                                                               *)
(*                                                                         *)
(* The server is one thread.  enet_host_service hands it one event at a    *)
(* time and the handler of that event runs to its end, so every action     *)
(* below is one whole event: Connect, LostConnection or ReceiveMessage.    *)
(* What the clients do is not constrained: any message may arrive in any   *)
(* state of the user it comes from.                                        *)
(*                                                                         *)
(* Left out: the texts of INFO messages and of the console (they only get  *)
(* displayed), versions, IP addresses and user data (stored, never tested  *)
(* after they are accepted).                                               *)
(***************************************************************************)
EXTENDS Naturals, FiniteSets, SequencesExt

CONSTANTS
    Peers,    \* the ENetPeer slots of the host: the keys of m_users
    Names,    \* the names users log in with
    NoName,   \* the empty string: m_name before login
    Limits    \* the (min, max) pairs a CREATE message can carry

ASSUME PeersAssumption == IsFiniteSet(Peers)
ASSUME NoNameAssumption == NoName \notin Names
ASSUME LimitsAssumption == Limits \subseteq [min : Nat, max : Nat]

VARIABLES
    link,     \* link[p]: what ENet knows of slot p
    state,    \* state[p]: m_fsm of the User at key p; "NoUser" when there is no key p
    name,     \* name[p]: User::m_name
    games,    \* Connections::m_games, in order
    sent      \* sent[p]: what the last handler queued for p, in order

vars == <<link, state, name, games, sent>>

HandshakeStates == {"WaitingForVersion", "WaitingForLocalIP", "WaitingForLogin"}
ActiveStates == {"LoggedIn", "OpenedGame", "PendingJoin", "JoinedOpenGame"}
UserStates == HandshakeStates \cup ActiveStates \cup {"KickedOff"}

\* "up" is ENET_PEER_STATE_CONNECTED.  "closing" follows enet_peer_disconnect_later:
\* nothing more can be queued, what the peer already sent may still be delivered.
LinkStates == {"free", "up", "closing"}

Game == [creator : Peers, joined : SUBSET Peers, pending : SUBSET Peers, limits : Limits]

(***************************************************************************)
(* What arrives.  Message::Parse keeps the type by the header; "Malformed" *)
(* is input no header matches, "Other" a header no server state handles.   *)
(* ok says whether the content parses (a version that is not empty, a list *)
(* of addresses, two numbers).                                             *)
(***************************************************************************)
ClientMsgs ==
         [type : {"Version", "Info"}, ok : BOOLEAN]
    \cup [type : {"Login", "Join", "Eject", "Approve"}, who : Names \cup {NoName}]
    \cup [type : {"Create"}, ok : {TRUE}, limits : Limits]
    \cup [type : {"Create"}, ok : {FALSE}]
    \cup [type : {"Leave", "Start", "Other", "Malformed"}]

\* The message types each state's ReceiveMessage acts on.
Handled(s) ==
    CASE s = "WaitingForVersion" -> {"Version"}
      [] s = "WaitingForLocalIP" -> {"Info"}
      [] s = "WaitingForLogin"   -> {"Login"}
      [] s = "LoggedIn"          -> {"Create", "Join"}
      [] s = "OpenedGame"        -> {"Leave", "Eject", "Approve", "Start"}
      [] s = "JoinedOpenGame"    -> {"Leave"}
      [] s = "PendingJoin"       -> {"Leave"}
      [] s = "KickedOff"         -> {}

-----------------------------------------------------------------------------
(***************************************************************************)
(* What is sent.  An outbox gives each peer the sequence of messages one   *)
(* handler queues for it; a ++ b is a followed by b.                       *)
(***************************************************************************)
Quiet == [p \in Peers |-> <<>>]

a ++ b == [p \in Peers |-> a[p] \o b[p]]

\* enet_peer_send refuses a peer that is not connected.
SendTo(S, m) == [p \in Peers |-> IF p \in S /\ link[p] = "up" THEN <<m>> ELSE <<>>]

\* Mutant: IsUserActive forgets the three handshake states and KickedOff.
ActivePlayers_Everyone(st) == {p \in Peers : st[p] # "NoUser"}

ActivePlayers(st) == {p \in Peers : st[p] \in ActiveStates}

BroadcastOpenGames(st, gs) ==
    SendTo(ActivePlayers(st),
           [type |-> "GamesOpen", list |-> [i \in DOMAIN gs |-> name[gs[i].creator]]])

\* Mutant: BroadcastActiveUsers without its last call.
BroadcastActiveUsers_NoGames(st, nm, gs) ==
    SendTo(ActivePlayers(st),
           [type |-> "PlayersActive", list |-> {nm[p] : p \in ActivePlayers(st)}])

BroadcastActiveUsers(st, nm, gs) ==
    SendTo(ActivePlayers(st),
           [type |-> "PlayersActive", list |-> {nm[p] : p \in ActivePlayers(st)}])
    ++ BroadcastOpenGames(st, gs)

Players(g) == {g.creator} \cup g.joined \cup g.pending

FullInfo(g) == [creator |-> name[g.creator],
                joined  |-> {name[p] : p \in g.joined},
                pending |-> {name[p] : p \in g.pending}]

\* Mutant: the loop over m_joined is missing.
SendInfoToAll_NotJoined(g) ==
    SendTo(Players(g) \ g.joined, [type |-> "GameInfo", info |-> FullInfo(g)])

SendInfoToAll(g) == SendTo(Players(g), [type |-> "GameInfo", info |-> FullInfo(g)])

-----------------------------------------------------------------------------
(***************************************************************************)
(* Game and the searches of m_games.                                       *)
(***************************************************************************)
CreatedBy(p) == {i \in DOMAIN games : games[i].creator = p}
CreatedByName(n) == {i \in DOMAIN games : name[games[i].creator] = n}
Entered(p) == {i \in DOMAIN games : p \in games[i].pending \cup games[i].joined}

\* Mutant: only m_pending is searched.
RemoveJoinedOrPending_PendingOnly(g, p) == [g EXCEPT !.pending = @ \ {p}]

RemoveJoinedOrPending(g, p) ==
    IF p \in g.pending THEN [g EXCEPT !.pending = @ \ {p}]
                       ELSE [g EXCEPT !.joined = @ \ {p}]

\* Mutant: KillGame tells the players and leaves their states alone.
LogInAll_NoChange(st, S) == st

LogInAll(st, S) == [q \in Peers |-> IF q \in S THEN "LoggedIn" ELSE st[q]]

\* std::set<User*> is ordered by address: any order of the pending, then of the joined.
KillOrders(g) == {s \o t : s \in SetToSeqs(g.pending), t \in SetToSeqs(g.joined)}

\* Each player becomes LoggedIn, which broadcasts the lists, and is then told EJECT.
\* The game is still in m_games while its players are released.
KillGame(g, order) ==
    LET after(k) == LogInAll(state, {order[j] : j \in 1..k})
        release(k) == BroadcastActiveUsers(after(k), name, games)
                      ++ SendTo({order[k]}, [type |-> "Eject", who |-> name[g.creator]])
        out[k \in 0..Len(order)] == IF k = 0 THEN Quiet ELSE out[k - 1] ++ release(k)
    IN  out[Len(order)]

RemovalOrders(p) ==
    IF CreatedBy(p) # {} THEN KillOrders(games[Min(CreatedBy(p))]) ELSE {<<>>}

\* Mutant: a user is removed from the game it created only.
RemoveUserFromAnyGames_OwnOnly(p, order) ==
    IF CreatedBy(p) # {}
    THEN LET i == Min(CreatedBy(p))
         IN  [games |-> RemoveAt(games, i),
              state |-> LogInAll(state, games[i].joined \cup games[i].pending),
              out   |-> KillGame(games[i], order) ++ SendTo({p}, [type |-> "Leave"])]
    ELSE [games |-> games, state |-> state, out |-> Quiet]

\* The m_games, the states and the messages RemoveUserFromAnyGames(p) leaves.
RemoveUserFromAnyGames(p, order) ==
    IF CreatedBy(p) # {}
    THEN LET i == Min(CreatedBy(p))
         IN  [games |-> RemoveAt(games, i),
              state |-> LogInAll(state, games[i].joined \cup games[i].pending),
              out   |-> KillGame(games[i], order) ++ SendTo({p}, [type |-> "Leave"])]
    ELSE IF Entered(p) # {}
    THEN LET i == Min(Entered(p))
             g == RemoveJoinedOrPending(games[i], p)
         IN  [games |-> [games EXCEPT ![i] = g],
              state |-> state,
              out   |-> SendInfoToAll(g) ++ SendTo({p}, [type |-> "Leave"])]
    ELSE [games |-> games, state |-> state, out |-> Quiet]

-----------------------------------------------------------------------------
(***************************************************************************)
(* ENet's connect and disconnect events.                                   *)
(***************************************************************************)
NewConnection(p) ==
    /\ link[p] = "free"
    /\ link' = [link EXCEPT ![p] = "up"]
    /\ state' = [state EXCEPT ![p] = IF @ = "NoUser" THEN "WaitingForVersion" ELSE @]
    /\ sent' = Quiet
    /\ UNCHANGED <<name, games>>

\* The client disconnected, timed out, or a disconnect asked for here completed.
\* The peer's own slot is already disconnected, so nothing is queued for it.
LostConnection(p) ==
    /\ link[p] # "free"
    /\ state[p] # "NoUser"
    /\ link' = [link EXCEPT ![p] = "free"]
    /\ name' = [name EXCEPT ![p] = NoName]
    /\ \E order \in RemovalOrders(p) :
         LET gone == RemoveUserFromAnyGames(p, order)
             out  == gone.out ++ BroadcastActiveUsers(state', name', games')
         IN  /\ games' = gone.games
             /\ state' = [gone.state EXCEPT ![p] = "NoUser"]
             /\ sent' = [out EXCEPT ![p] = <<>>]

-----------------------------------------------------------------------------
(***************************************************************************)
(* ReceiveMessage, state by state.                                         *)
(***************************************************************************)
\* Mutant: the name is overwritten with a mark that is no name.
DisconnectUser_MarksName(p) ==
    /\ state' = [state EXCEPT ![p] = "KickedOff"]
    /\ link' = [link EXCEPT ![p] = "closing"]
    /\ name' = [name EXCEPT ![p] = "kicked"]
    /\ sent' = Quiet
    /\ UNCHANGED games

\* Mutant: enet_peer_disconnect_later is not called.
DisconnectUser_StateOnly(p) ==
    /\ state' = [state EXCEPT ![p] = "KickedOff"]
    /\ sent' = Quiet
    /\ UNCHANGED <<link, name, games>>

\* The user stays in its games until the disconnect event arrives.
DisconnectUser(p) ==
    /\ state' = [state EXCEPT ![p] = "KickedOff"]
    /\ link' = [link EXCEPT ![p] = "closing"]
    /\ sent' = Quiet
    /\ UNCHANGED <<name, games>>

\* BadMessageException: no header matches, or the handshake expects another type.
BadMessage(p, m) ==
    /\ \/ m.type = "Malformed"
       \/ state[p] \in HandshakeStates /\ m.type \notin Handled(state[p])
    /\ DisconnectUser(p)

Ignored(p, m) ==
    /\ m.type # "Malformed"
    /\ state[p] \notin HandshakeStates
    /\ m.type \notin Handled(state[p])
    /\ sent' = Quiet
    /\ UNCHANGED <<link, state, name, games>>

OnVersion(p, m) ==
    /\ state[p] = "WaitingForVersion" /\ m.type = "Version"
    /\ IF m.ok
       THEN /\ state' = [state EXCEPT ![p] = "WaitingForLocalIP"]
            /\ sent' = Quiet
            /\ UNCHANGED <<link, name, games>>
       ELSE DisconnectUser(p)

\* A list that does not parse is not an error: the user stays where it is.
OnLocalIP(p, m) ==
    /\ state[p] = "WaitingForLocalIP" /\ m.type = "Info"
    /\ state' = [state EXCEPT ![p] = IF m.ok THEN "WaitingForLogin" ELSE @]
    /\ sent' = Quiet
    /\ UNCHANGED <<link, name, games>>

\* Mutant: only active users are compared.
VerifyName_ActiveOnly(n) == \A q \in ActivePlayers(state) : name[q] # n

\* Over all of m_users, p itself and those kicked off included.
VerifyName(n) == \A q \in Peers : state[q] # "NoUser" => name[q] # n

OnLogin(p, m) ==
    /\ state[p] = "WaitingForLogin" /\ m.type = "Login"
    /\ IF VerifyName(m.who)
       THEN /\ name' = [name EXCEPT ![p] = m.who]
            /\ state' = [state EXCEPT ![p] = "LoggedIn"]
            /\ sent' = SendTo({p}, [type |-> "Login", who |-> m.who])
                       ++ BroadcastActiveUsers(state', name', games)
            /\ UNCHANGED <<link, games>>
       ELSE DisconnectUser(p)

OnCreate(p, m) ==
    /\ state[p] = "LoggedIn" /\ m.type = "Create"
    /\ IF m.ok
       THEN /\ games' = Append(games, [creator |-> p, joined |-> {}, pending |-> {},
                                       limits |-> m.limits])
            /\ state' = [state EXCEPT ![p] = "OpenedGame"]
            /\ sent' = SendTo({p}, [type |-> "Create"]) ++ BroadcastOpenGames(state, games')
            /\ UNCHANGED <<link, name>>
       ELSE DisconnectUser(p)

OnJoin(p, m) ==
    /\ state[p] = "LoggedIn" /\ m.type = "Join"
    /\ LET i == Min(CreatedByName(m.who))
           g == [games[i] EXCEPT !.pending = @ \cup {p}]
           told == [type |-> "Join", who |-> name[p]]
       IN  IF CreatedByName(m.who) # {} /\ p \notin games[i].pending \cup games[i].joined
           THEN /\ games' = [games EXCEPT ![i] = g]
                /\ state' = [state EXCEPT ![p] = "PendingJoin"]
                /\ sent' = SendInfoToAll(g) ++ SendTo({g.creator}, told) ++ SendTo({p}, told)
           ELSE sent' = Quiet /\ UNCHANGED <<games, state>>
    /\ UNCHANGED <<link, name>>

\* The same code in three states: OpenedGame, JoinedOpenGame and PendingJoin.
OnLeave(p, m) ==
    /\ m.type = "Leave" /\ "Leave" \in Handled(state[p])
    /\ \E order \in RemovalOrders(p) :
         LET gone == RemoveUserFromAnyGames(p, order)
         IN  /\ games' = gone.games
             /\ state' = [gone.state EXCEPT ![p] = "LoggedIn"]
             /\ sent' = gone.out ++ BroadcastActiveUsers(state', name, games')
    /\ UNCHANGED <<link, name>>

OnEject(p, m) ==
    /\ state[p] = "OpenedGame" /\ m.type = "Eject"
    /\ LET i == Min(CreatedBy(p))
           called == {q \in ActivePlayers(state) : name[q] = m.who}
       IN  IF called # {} /\ CreatedBy(p) # {}
           THEN \E q \in called :
                  IF q \in games[i].pending \cup games[i].joined
                  THEN LET g == RemoveJoinedOrPending(games[i], q)
                       IN  /\ games' = [games EXCEPT ![i] = g]
                           /\ state' = [state EXCEPT ![q] = "LoggedIn"]
                           /\ sent' = SendInfoToAll(g)
                                ++ SendTo({q}, [type |-> "Eject", who |-> name[p]])
                                ++ BroadcastActiveUsers(state', name, games')
                  ELSE sent' = Quiet /\ UNCHANGED <<games, state>>
           ELSE sent' = Quiet /\ UNCHANGED <<games, state>>
    /\ UNCHANGED <<link, name>>

\* The name is looked up among the pending users whatever state they are in.
OnApprove(p, m) ==
    /\ state[p] = "OpenedGame" /\ m.type = "Approve"
    /\ LET i == Min(CreatedBy(p))
           called == {q \in games[i].pending : name[q] = m.who}
       IN  IF CreatedBy(p) # {} /\ called # {}
           THEN \E q \in called :
                  LET g == [games[i] EXCEPT !.pending = @ \ {q}, !.joined = @ \cup {q}]
                  IN  /\ games' = [games EXCEPT ![i] = g]
                      /\ state' = [state EXCEPT ![q] = "JoinedOpenGame"]
                      /\ sent' = SendInfoToAll(g)
                                 ++ SendTo({p}, [type |-> "Approve", who |-> m.who])
           ELSE sent' = Quiet /\ UNCHANGED <<games, state>>
    /\ UNCHANGED <<link, name>>

\* Mutant: any number of joined players will do.
CanStart_AtLeastOne(g) == g.joined # {}

CanStart(g) == Cardinality(g.joined) = 1

\* The owner's state does not change: it stays OpenedGame without a game.
OnStart(p, m) ==
    /\ state[p] = "OpenedGame" /\ m.type = "Start"
    /\ LET i == Min(CreatedBy(p))
       IN  IF CreatedBy(p) # {} /\ CanStart(games[i])
           THEN \E order \in RemovalOrders(p), q \in games[i].joined :
                  LET gone == RemoveUserFromAnyGames(p, order)
                  IN  /\ games' = gone.games
                      /\ state' = gone.state
                      /\ sent' = SendTo({p}, [type |-> "Start", number |-> 1, peer |-> name[q]])
                           ++ SendTo({q}, [type |-> "Start", number |-> 2, peer |-> name[p]])
                           ++ gone.out
                           ++ BroadcastOpenGames(state', games')
           ELSE sent' = Quiet /\ UNCHANGED <<games, state>>
    /\ UNCHANGED <<link, name>>

ReceiveMessage(p, m) ==
    /\ link[p] # "free"
    /\ state[p] # "NoUser"
    /\ \/ BadMessage(p, m)
       \/ Ignored(p, m)
       \/ OnVersion(p, m)
       \/ OnLocalIP(p, m)
       \/ OnLogin(p, m)
       \/ OnCreate(p, m)
       \/ OnJoin(p, m)
       \/ OnLeave(p, m)
       \/ OnEject(p, m)
       \/ OnApprove(p, m)
       \/ OnStart(p, m)

-----------------------------------------------------------------------------
Init ==
    /\ link = [p \in Peers |-> "free"]
    /\ state = [p \in Peers |-> "NoUser"]
    /\ name = [p \in Peers |-> NoName]
    /\ games = <<>>
    /\ sent = Quiet

Next ==
    \E p \in Peers :
        \/ NewConnection(p)
        \/ LostConnection(p)
        \/ \E m \in ClientMsgs : ReceiveMessage(p, m)

Spec == Init /\ [][Next]_vars
-----------------------------------------------------------------------------
(***************************************************************************)
(* Properties.                                                             *)
(***************************************************************************)
\* Every slot, user and game has the type its declaration gives it.
TypeOK ==
    /\ link \in [Peers -> LinkStates]
    /\ state \in [Peers -> UserStates \cup {"NoUser"}]
    /\ name \in [Peers -> Names \cup {NoName}]
    /\ games \in Seq(Game)
    /\ DOMAIN sent = Peers

\* A Game holds raw User* (its creator, joined and pending players) and m_users
\* owns the objects: no game may keep a pointer to a user LostConnection erased,
\* although it only visits the first game it finds.
NoDanglingUser ==
    \A i \in DOMAIN games : \A p \in Players(games[i]) : state[p] # "NoUser"

\* A user has one role in one game at most.  find_if and the loop of
\* RemoveUserFromAnyGames stop at the first match, which is right only because of this.
OneRole ==
    /\ \A i \in DOMAIN games :
          /\ games[i].creator \notin games[i].joined \cup games[i].pending
          /\ games[i].joined \cap games[i].pending = {}
    /\ \A i, j \in DOMAIN games : i # j => Players(games[i]) \cap Players(games[j]) = {}

\* The two copies of the truth agree: the user's own state machine, which decides
\* the messages it may send, and the sets of the game it is in.  Only being kicked
\* off separates them, and only a started game leaves OpenedGame without a game.
RoleMatchesState ==
    /\ \A i \in DOMAIN games :
          /\ state[games[i].creator] \in {"OpenedGame", "KickedOff"}
          /\ \A p \in games[i].joined : state[p] \in {"JoinedOpenGame", "KickedOff"}
          /\ \A p \in games[i].pending : state[p] \in {"PendingJoin", "KickedOff"}
    /\ \A p \in Peers :
          /\ state[p] = "JoinedOpenGame" => \E i \in DOMAIN games : p \in games[i].joined
          /\ state[p] = "PendingJoin" => \E i \in DOMAIN games : p \in games[i].pending

\* JOIN, EJECT and APPROVE name their target: no two users may have one name, also
\* while one of them is kicked off and waits for its disconnect, and every user in
\* a game or past its login has a name.
NamesUnique ==
    /\ \A p, q \in Peers : name[p] = name[q] /\ name[p] # NoName => p = q
    /\ \A p \in Peers : state[p] \in ActiveStates => name[p] # NoName
    /\ \A i \in DOMAIN games : \A p \in Players(games[i]) : name[p] # NoName

StartMsg(k, p) == [type |-> "Start", number |-> k, peer |-> name[p]]

\* Of this step: whoever is told START, and the game it is about.
Mutual ==
    \A p \in Peers : \A k \in DOMAIN sent'[p] :
        sent'[p][k].type = "Start" =>
           \E i \in DOMAIN games : \E q \in Players(games[i]) \ {p} :
              /\ {p, q} = {games[i].creator} \cup games[i].joined
              /\ sent'[p][k] = StartMsg(IF p = games[i].creator THEN 1 ELSE 2, q)
              /\ link[q] = "up" => \E l \in DOMAIN sent'[q] :
                    sent'[q][l] = StartMsg(IF q = games[i].creator THEN 1 ELSE 2, p)
              /\ \A j \in DOMAIN games' : games'[j].creator # games[i].creator

\* START pairs the creator of one game with its only joined player, each is told the
\* other's name (if it can still be told anything), and that game is closed by it.
StartIsMutual == [][Mutual]_vars

-----------------------------------------------------------------------------
(***************************************************************************)
(* What comments of the repository say and the code does not do.           *)
(***************************************************************************)
\* States.h:5: "Zombie state - user has been kicked off, can no longer do anything".
\* A user kicked off while pending is approved, or its game is closed, and is back
\* in a state that handles messages.
ZombieIsInert ==
    [][\A p \in Peers : state[p] = "KickedOff" => state'[p] \in {"KickedOff", "NoUser"}]_vars
=============================================================================
