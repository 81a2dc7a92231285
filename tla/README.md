# SimpleMatchmaker in TLA+

TLA+ models of SimpleMatchmaker: a matchmaking server, the client library that talks to it,
and the peer-to-peer lobby two players meet in before their game starts. TLC checks the
models on small instances; TLAPS proves, for every value of the constants, the server's state
invariants, the pairing at START, that the server implements an abstract lobby, the
handshake of its clients, that every client shows what the server has, that the demo client's
menu fits it, and what two P2P objects agree on: one link, who is ready, and who starts.
`PROJECT.json` lists the
runs, maps every definition to the lines it stands for, and holds the hazards, the findings and
the theorems.

```
tlc -workers 2 -config MCMatchServer.cfg MCMatchServer.tla
for m in *Proofs.tla SequenceLemmas.tla; do tlapm $m; done
```

## The system

| part | code | state it keeps | operations |
|---|---|---|---|
| Server | `Server/main.cpp`, `Connections`, `User`, `States`, `Game`, `UserChangedStateVisitor` | users by `ENetPeer*`, each with a name and a state machine; a vector of open games, each with raw pointers to its creator, joined and pending players | connect, disconnect, one handler per message and user state |
| Messages | `common/Message`, `Sender` | none | a header picks the type, the rest is content; `SendTo` queues one reliable packet |
| ServerConnection | `ServerConnection.cpp/.h` | `Idle`, `Connecting`, `Connected`; address lists; the name | Connect, Disconnect, the requests, `Update` which turns messages into `ServerCallbacks` |
| P2PConnection | `P2PConnection.cpp/.h` | candidate addresses, outgoing attempts, connected peers; flags for ready, start, cancel and primary link; ping state | ready, start, cancel, user message, ping, `Update`, destructor |
| clientDemo | `clientDemo/*` | lists of players and games, menu mode, page | console menus over both libraries |
| ENet | git submodule, not in the repository | peers, queues, channels | external |

**How they interact.** The server is one thread over one `enet_host`: the loop in `main`
takes an event and runs its handler to the end. A client owns a `ServerConnection`; each
message it receives becomes one callback, made from inside `Update`. On `START` the client
disconnects from the server and is given the addresses of its opponent; it then
builds a `P2PConnection`, whose constructor connects to *every* address of the other side.
The two objects agree on one of the links that come up, on being ready, and on starting or
cancelling; the game starts, or the client goes back to the server, when that link closes.

**What is hard.**

* *Two copies of one fact on the server.* A user's state machine decides which messages it
  may send, the sets of its game decide what happens to it. Different functions change
  them, in different orders, each broadcasting as it goes. Games keep raw pointers to
  objects another map owns.
* *Being kicked off is half of leaving.* `DisconnectUser` sets the state and asks ENet for
  a disconnect; the game is left only when the event arrives, with the other users, and
  what the kicked user had already sent, in between.
* *Broadcasts in the middle of changes.* A client's view is whatever list came last, and
  five functions write the room it shows.
* *Up to four links between two P2P objects*, coming up in an order each side sees
  differently, each side resetting the ones it finds redundant without telling the other.
* *Crossing requests in the lobby.* Start, cancel, ready and unready are sent by both
  players at any moment, and every ending is told apart from another only by flags when the
  last link goes.

* *A client is a second state machine with its own copies.* It says hello without waiting for
  answers, answers APPROVE by itself, keeps a menu built from the last callbacks, and goes
  through a slot of the server that another client may just have left.
* *Texts.* Names, sizes and data of arbitrary bytes share a text with the delimiters.

**What makes each part correct.**

* Server: no game refers to an erased user; a user has one role in one game; state and role
  agree; names of the users present are unique; START pairs exactly the two players of
  one game and closes it; a kicked owner's game is closed in the end.
* ServerConnection: its callbacks tell the client what the server really holds; its
  handshake is never refused; every connection is answered; whoever is sent START and is not
  kicked off before it hears of it gets StartP2P and not Disconnected unless its user disconnects; no user outlives its client.
* P2PConnection: both sides use the same link and the same address; a start is only agreed
  between ready players; nobody starts a game the other one is sent away from; and if one
  object ends, the other one gets its last callback too. The last two hold in part only: see
  *Seen while modelling* for what a cancel and a second address do to them.
* Messages: what is written is what is parsed back.
* clientDemo: its menu fits the room the client is in, and its commands name what exists; both
  with exceptions, listed there too.

## Modules

| module | models | built on |
|---|---|---|
| `MatchServer` | the server, and ENet's side of it | |
| `MatchServerProofs` | theorems about `MatchServer` | extends `MatchServer` |
| `Lobby` | abstract: rooms, their hosts and guests, and who is called to start | |
| `ServerLobby` | the refinement mapping from `MatchServer` to `Lobby` | extends `MatchServer`, instantiates `Lobby` |
| `ServerLobbyProofs` | `StartIsMutual` and the refinement, as theorems | extends `ServerLobby`, `MatchServerProofs` |
| `MatchSystem` | one `ServerConnection` per client and the FIFO connections to the server | extends `MatchServer` |
| `MatchSystemProofs` | theorems about `MatchSystem` | extends `MatchSystem`, `MatchServerProofs` |
| `MatchViews` | what `ServerConnection::Update` tells each client | extends `MatchServer` |
| `MatchViewsProofs` | theorems about what the clients show | extends `MatchViews`, `ServerLobbyProofs` |
| `MatchMaker` | the menu of the demo client | extends `MatchViews` |
| `MatchMakerProofs` | theorems about that menu | extends `MatchMaker`, `MatchViewsProofs` |
| `Wire` | the texts inside the messages, from one program to another | |
| `P2PConnection` | two `P2PConnection` objects and the links between them | |
| `SequenceLemmas` | facts about finite sequences and sets | |
| `P2PConnectionProofs` | theorems about lists, links and flags of `P2PConnection`, what player 1 starts, and the path both use | extends `P2PConnection`, `SequenceLemmas` |
| `P2PPrimaryProofs` | theorems about the link both objects keep, and what depends on it | extends `P2PConnectionProofs` |
| `MC...` | values of the constants, symmetries and views for TLC | |

### MatchServer

An action is one whole event: `NewConnection`, `LostConnection`, and for each message one of
`BadMessage`, `Ignored`, `OnVersion`, `OnLocalIP`, `OnLogin`, `OnCreate`, `OnJoin`,
`OnLeave`, `OnEject`, `OnApprove`, `OnStart`. Clients are not constrained: any message may
come from any user in any state.

| variable | code |
|---|---|
| `link[p]` | ENet's state of the peer slot: free, up, or closing after `enet_peer_disconnect_later` |
| `state[p]` | `User::m_fsm`; `NoUser` when `m_users` has no such key |
| `name[p]` | `User::m_name` |
| `games` | `Connections::m_games`, in order |
| `sent[p]` | what the last handler queued for `p`, in order |

Messages are records with the fields the handlers test; whether a content parses is a field
`ok`. Handlers are translated with the order of their changes: where the code broadcasts
between two changes, the outbox is computed from the states in between (`KillGame`,
`RemoveUserFromAnyGames`). `std::set<User*>` has no order a reader can know, so `KillGame`
may release the players in any order, and `OnEject` and `OnApprove` may pick any user of a
name (`NamesUnique` shows there is one at most).

A user kicked off keeps its link in `closing`: what it sent before may still be delivered
and handled, nothing can be queued for it.

### Lobby and ServerLobby

`Lobby` is what the server promises about games with everything else forgotten: each user is in
no room, in its own, or in one whose host it asked; waiting or admitted; and the two that are
called to start are a host and its only admitted guest, in the step that closes the room.
`ServerLobby` maps `m_games` to it (`HostOf`, `Waiting`) and the START messages of a step to
`called`. `ImplementsLobby` says that each event of the server is one step of `Lobby`: a
handler that goes through several functions, each changing some of the sets, never shows a
half-done room, and a user is not moved by anything else.

### MatchSystem

The clients are no longer arbitrary: each is a `ServerConnection` and the user who drives it.

| variable | code |
|---|---|
| `slot[c]` | `m_server`, as the slot of the server it is connected to |
| `conn[c]` | `m_state`; `disconnecting` is Connected after `enet_peer_disconnect` |
| `started[c]` | whether `m_startGameInfo` is set |
| `ended[c]` | which of Timeout, Disconnected, StartP2P ended the last connection |
| `up[s]`, `down[s]` | what travels between slot `s` and its client |

The user's actions are `Connect`, `Ask` (any request) and `Disconnect`; one event of `Update` is
`ConnectEvent`, `Timeout`, `Receive` or `DisconnectEvent`; `Serve(s)` is the next event of
slot `s` in the server's loop and is the very action of `MatchServer`. Only APPROVE, START
and the disconnect travel down, the other messages change no member of a
`ServerConnection`. A connection that ends, from either side, loses what was queued: the
server may still serve a prefix of it. `ReceiveMessage` of a malformed message is how a
client comes to be kicked; a name in use is another way.

### MatchViews

`told[p]` is the last word of each callback at client `p`: players, open games, room. It is a
history variable over `MatchServer`: each step folds what was sent to `p` through `Hear`,
one message of `ServerConnection::Update`. The channel is reliable and ordered, so judging the
view after everything queued has arrived is judging it at the moments the client has caught
up.

### MatchMaker

`menu[p]` holds `loggedPlayerName`, `menuMode`, `openGames`, `requestedJoiners`, `joined` and
`userRemoved` of the demo client, and each callback changes them as `setCallbacks` does, in the order the
messages come. `Joins`, `Answers` and `Kicks` are what its keys 1 to 9, y Y n N and k would send.
`Process[p]` says who sits at slot `p`: a new process at each connection, or one process that connects
again and brings its old menu.

There are two names. The menu compares the lists it is given with `loggedPlayerName`, the name as it
was typed; the server knows `m_userName`, from which `ServerConnection::Connect` has removed every comma and
colon. A user whose name needed no cleaning has one name (`menu[p].logged = name[p]`); any other has
`Unclean`, which is in no list. Which of the two a new process is, is chosen when its login is
accepted. `JoinRequestFromOtherPlayer` and `JoinRequestOK` are told apart by `ServerConnection`, by
`m_userName`; `OpenGames` by the demo client, by `loggedPlayerName`. `joined` is set by GAMEINFO and cleared by
nothing.

### Wire

`Wire` composes writer and reader of each text: `CleanName` and LOGIN, the list of addresses in
INFO, PLAYERSACTIVE, GAMESOPEN, GAMEINFO and START. A text is a sequence of tokens. `typed[i]` is
what a client was given, `users[i]` what the server made of it. `Content` is a C string and ends
at the first NUL, the payload does not; `stringSplit` drops what is empty at the end;
`ParsePlayerInfo` counts.

### P2PConnection

Two objects, player 1 and player 2. A link is one connection attempt: who made it and over
which path (LAN address, external address). Each link has two ends, `end[l][p]`, and two
queues, `wire[l][p]`. ENet is modelled from its use: the initiator is told of a connection
first; delivery is reliable and in order; `enet_peer_reset` drops the link here and tells
nobody; `enet_peer_disconnect_later` drains, then closes; every end that did not reset gets
one disconnect event. An end whose other end is dead times out.

`Update` is split where other things can come between: `Update(p)` is what it does before its
loop (`CleanRedundantConnections`), `Event(p, l)` one event of the loop. `looping[p]` is set
while events belong to that call; any command of the user ends the call. The commands are
`SendReady` (both directions, `ToggleReady` is one of them), `TryStart`, `TryCancel` and the
destructor `Leave`. `outcome[p]` is the callback an object ended with. `Update` may also send a
ping when its time has come (`Ping`); `Pings` says whether pongs come in time or too late.

## Runs

| run | what it shows | distinct states |
|---|---|---|
| `server` | the state invariants, `StartIsMutual` and the refinement of `Lobby`, for four clients that send anything | 6 562 (up to symmetry) |
| `menus` | the callbacks tell the truth, the menu follows them, its commands find what they name | 44 932 (up to symmetry) |
| `zombie` | violation: a kicked off user becomes active again | |
| `menu_stale` | violation: a menu is stuck in a question after a reconnect | |
| `system` | handshake, answers, approval to START to the callback, no ghosts; under fairness | 16 305 |
| `approved_starts` | violation: two approvals, no start | |
| `wire` | what is written is what is read | 4 081 |
| `p2p_paths` | with up to four links and all commands, once connected: lists match links, a start is only agreed between ready players, both sides choose one link, start over the same path and know who is ready; with pings | 824 107 (up to symmetry) |
| `p2p_end` | with one path and users that cancel: no StartGame against CancelGame, and both objects end; under fairness | 42 828 |
| `p2p_leave` | with up to four links and users that start and leave but do not cancel: no StartGame against any other callback, and both objects end, but for those stranded; under fairness | 52 854 |
| `p2p_confirm` | violation: two players confirm each other for ever | |
| `p2p_ping` | violation: one dropped pong ends all pings | |

Deadlock is checked in the server runs, where somebody can always connect or send. The P2P
runs switch it off: two objects that have made their last callback have nothing left to do;
so does `wire`, which ends when everybody has logged in.

### What each property is about

* `NoDanglingUser`, `OneRole`, `RoleMatchesState`, `NamesUnique`: `LostConnection` cleans one
  game, in one role, and then frees the user. That is enough only because no sequence of
  messages, kicks and disconnects gives a user a second role. `RoleMatchesState` says how far
  state and sets may part: a kicked off user keeps its role, and the owner of a started game
  stays in `OpenedGame` without one.
* `StartIsMutual`: in the step that sends START, the two players of one game are named to
  each other with numbers 1 and 2, each is told if it can be told anything, and the game is
  gone afterwards, although the same handler closes it through the function that ejects them.
* `ListsCurrent`, `RoomCurrent`: no handler forgets a broadcast or sends it before the
  change. Two exceptions are part of the statement: the list of players still names a user
  who was kicked off until its disconnect comes (nothing is broadcast at the kick), and a
  client that received START listens no more.
* `ImplementsLobby`: above.
* `MenuFits`, `CommandsLand`: the menu is derived from callbacks that come in a different order
  from each handler, with one early return and one flag to tell the orders apart. `MenuFits` is about
  menus whose name needed no cleaning: a name that did is in no list, and its host is not shown that it hosts. In
  `CommandsLand` the key k is judged while somebody is in the game hosted now or waits for it: then a
  GAMEINFO of this game has come and replaced `joined`. Before, it holds the players of the last game.
* `NeverBogus`: the comment in `ReceiveMessage` says a bad message "should never happen if the
  client works properly". The three messages of the handshake go out together.
* `LoginAnswered`: whoever tries to connect is logged in or told that it failed; a name held by a
  ghost of the same client is the case to think of.
* `ApprovalStarts`, `StartArrives`: APPROVE, START and the StartP2P callback are three steps of
  three parties, any of whom may go in between. `StartArrives` asks that whoever is sent START gets StartP2P
  and not Disconnected, and excuses nothing but a kick on its way, which may overtake the START, and a
  Disconnect of the user's own, which `system` allows the guest and not the host.
* `GhostsGo`, `KickedOwnersGameCloses`: the cleaning that `UserChangedStateVisitor` leaves out
  happens at the disconnect, and every way a client goes leads to one.
* `RosterArrives`, `RoomsArrive`, `AddressesArrive`: two or three texts in a row, end to end.
* `ListenersListed`: every link ENet will report events for is in `peerConnections`, and
  nothing else is. It covers the branch the code marks "this should never happen", and the
  existence of `peerConnections[0]` wherever a reply is sent.
* `CommittedIsReady`: four handlers and two commands change the four flags.
* `AgreeOnPrimary`, `SamePath`, `ReadyKnown`: each side keeps the first link of its own list
  and resets the others.
* `NeverMixed`: whoever starts its game does not leave the other one with CancelGame, Disconncted or
  Timeout. Player 1 commits on the confirmation, player 2 when it sends it, and the link is closed
  in between. It holds while nobody cancels (`p2p_leave`) and fails when player 1 cancels a start it has asked
  for. `NeverContrary` is what is left then: never StartGame against CancelGame.
* `OneStartsWithTwo`: player 1 only starts with a player 2 that has committed itself.
* `BothEnd`: whichever way one object ends, the other one gets a last callback, unless it is `Stranded`:
  a candidate address was given up, no link is left, and what is still counted are attempts it has binned itself, or
  nothing. With one address nobody is ever stranded, and `p2p_end` checks the plain claim; with two,
  `p2p_leave` shows that this is the only way to be left behind. It does happen.
* `StartEnds`, `CancelEnds`: a confirmation or a cancel on its way leads to the end of both.

### Bounds, and why they are enough

* *Server, four clients and four names.* A game takes a creator and one player per set,
  which is three clients; the fourth is the second game, the second pending player, the
  outsider that sees the broadcasts, or the newcomer that takes a name. Names are as many
  as clients, so that neither collisions nor their absence are forced. No queue is bounded:
  an action is a whole event. `menus` has three clients, with one list each. The only
  `Limits` is `(2, 2)`, what `ServerConnection::CreateGame` sends.
* *Views and symmetry.* `sent` is left out of TLC's view: no guard reads it, and
  the properties that speak of it are about the step. Clients are interchangeable, and so
  are names; symmetry is used in safety runs only.
* *System.* A host, a guest who may hang up or fail to connect at any moment (`Flaky`) and
  wants a name a ghost of its own may still hold, two slots, and one request of a user under way at a
  time (`MaxQueued`; what the clients send by themselves is not bounded). The host may be
  kicked off. `approved_starts` needs a third client and two requests.
* *`OneUnclean`.* In `menus` one user at a time has a name that needed cleaning. A menu depends on the
  messages and on nothing in another menu, and what the server does depends on no menu, so a second such user
  shows nothing the first does not. The theorems do not assume it.
* *`Process`.* In `menus` each connection is a new process with a fresh menu; in `menu_stale` two
  processes connect again and again with the menu they had.
* *Wire.* Two users, names with delimiters in front, behind and inside, one that is nothing once
  cleaned; data that is empty, a NUL, or looks like the text around it; one or two local
  addresses, the public one among them or not. Whoever hosts, joined or waits is
  quantified over in `RoomsArrive`.
* *P2P.* One path gives two links, one from each side, which is enough for a redundant
  link, and for everything that one link decides; two paths give the four links that can differ in address,
  which `p2p_paths` and `p2p_leave` need. Four links with every command under fairness
  are too many states: `p2p_leave` has ready, start and leave, and crossing cancels are in `p2p_end`. `MaxInFlight` bounds
  when a *user* acts: never when more than one message already travels. Replies are
  not bounded. Two messages are enough for every pair of requests to cross.
* `Patient` (p2p_paths, p2p_confirm, p2p_ping): users wait for the `Connected` callback before they ask
  for anything. The demo client does not make them wait, and without it `ReadyKnown`
  fails: a ready status set earlier is kept but never sent, or goes with a link that is
  reset. The other runs do not assume it, and `p2p_end` checks `AgreeOnPrimary` too.
* `Lossy`: a link that is up may break by itself. The runs leave it out; the theorems about lists, flags, paths
  and what player 1 starts, which do not assume `Lossy = FALSE`, cover links that break.
* `Pings`: pongs in time and late in `p2p_paths`, in time in `p2p_ping`, no pings elsewhere: they
  change nothing the other properties speak of and one more message per link multiplies
  the states. A ping is not counted by `MaxInFlight`.

### Fairness

* System: weak fairness of `Serve` (the loop in `main` serves every event), and of a client's
  `Receive`, `DisconnectEvent` and the end of an attempt, by `ConnectEvent` or `Timeout` (its program
  calls `Update` for ever, and ENet acknowledges or gives up). Nothing is assumed of the
  users: they need not connect, ask for anything or disconnect.
* P2P: weak fairness of `Update` (the main loop calls it for ever) and of `Flush` (ENet
  acknowledges or gives up); strong fairness of each link's events (`enet_host_service` reports
  a pending event in one of the calls, but calls of the user come between and make the
  action disabled for a while). No fairness is given to the users, and none to a link that
  only the other end knows to be connected.

## Proofs

### The server

`MatchServerProofs` and `ServerLobbyProofs` prove, for any finite set of peers (ENet has a fixed
number of slots, `Connections.cpp:14`), any names and limits (assuming that the empty
name is not in `Names` and that limits are pairs of naturals):

| theorem | says |
|---|---|
| `Fitting` | the inductive invariant `IInv` holds |
| `TypeCorrect` | `TypeOK` |
| `OneRoleHolds` | `OneRole` |
| `RoleMatchesStateHolds` | `RoleMatchesState` |
| `NoDanglingUserHolds` | `NoDanglingUser` |
| `NamesUniqueHolds` | `NamesUnique` |
| `StartIsMutualHolds` | `StartIsMutual` |
| `ImplementsLobbyHolds` | `ImplementsLobby` |

*Why a strengthening.* None of the four state invariants is inductive alone. That a join gives no
second role needs that a `LoggedIn` user is in no game, which is part of neither `OneRole` nor
`RoleMatchesState`; that erasing a user leaves no pointer needs that the first game found is
the only one, which is `OneRole`; that a name is free at login needs that users without a
key have no name. `IInv` is therefore one predicate `Fit(games, state, name)` of the whole
data: types, roles, the state of each player, names, and that users outside every game are in
the states that allow it.

*How it is kept.* The handlers change `games`, `state` and `name` in five ways only: a game is
closed (`CloseGame`), replaced by one with a player added, moved or removed (`ReplaceGame`),
appended (`OpenGame`), a user changes state with the games left alone (`ChangeStateAlone`), or
a user without a role disappears (`Vanish`). Each is a lemma about `Fit`, and the proof that a
step keeps `IInv` has one step per action that reduces it to one of them. Messages
are not part of the invariant.

*START.* `StartIsMutual` speaks of the outboxes of one step. Each outbox operator has a lemma that
says which START it adds: only `StartsWith` does, and `KillGame`, which sends EJECT to every player
it releases in an order nobody knows, adds none, by induction over how many were released
(`KillGameIsSilent`). Every other handler is silent (`OthersAreSilent`). `IInv` makes the two players
of the game different users, and gives them no other game.

*The refinement.* The abstract variables are read off the sets of the games (`HostFacts`,
`GuestFacts`). The five ways a handler can change the games map to five moves of the abstract
rooms: closing one (`CloseMaps`), opening one (`OpenMaps`), replacing its guests
(`ReplaceMaps`), or nothing. One lemma per action of `Lobby` (`AsRelease`, `AsGo`, `AsRemoval`,
`AsOpen`, `AsAsk`, `AsAdmit`, `AsStart`, and `AsRest` for stuttering) turns such a move into a
step of it, `AsMessage` goes through the handlers, and `LobbyStep` through the events. The case that
needs `IInv` most is `OnStart`: the two called are a host and its only admitted guest because the
game found by creator is the only one, and the joined set has one member.

### The clients

`MatchSystemProofs` proves, for any number of clients and slots and whatever the users ask for
(`ClientsAssumption`):

| theorem | says |
|---|---|
| `WellConnected` | the inductive invariant `SysInv` holds |
| `SystemTypeCorrect` | `SystemTypeOK` |
| `SystemImplementsServer` | every behaviour of `MatchSystem` is one of `MatchServer` |
| `SystemKeepsServer` | so `NoDanglingUser`, `OneRole` and `NamesUnique` hold with the clients attached |
| `HandshakeHolds` | the inductive invariant `HandshakeInv` holds |
| `NeverBogusHolds` | `NeverBogus` |

`SysInv` says that a client has a slot exactly while it is connected, that no two have the same,
and that only CONNECT, DISCONNECT and messages of `ClientMsgs` travel to the server. The first
two are needed for each other and for `up` to be written at a slot at all; the third makes `Serve` a
step of `MatchServer`.

`NeverBogus` looks at the next message of a slot only. `HandshakeInv` looks at everything on the way:
what a slot's user has been served, which its state tells, followed by what still travels, is
CONNECT, VERSION, INFO, LOGIN in that order and then requests, cut short only by a DISCONNECT at the
end; a slot whose client is gone has the DISCONNECT in its queue, and a new client gets the slot
only once that was served. So no client's hello ever meets the user of the one before.

### What the clients show

`MatchViewsProofs` proves, for any number of clients and names:

| theorem | says |
|---|---|
| `ViewsStayRight` | the inductive invariant `IInv /\ ViewInv` holds |
| `ViewTypeCorrect` | `ViewTypeOK` |
| `ListsCurrentHolds` | `ListsCurrent` |
| `RoomCurrentHolds` | `RoomCurrent` |

*The invariant.* `ViewInv` says of each connected client that it shows nothing before its login and
everything right (`Current`) from then to its START. "Nothing before" is not in `ListsCurrent` and is
needed at the login, where the lists are sent and the room is not. `Linked` adds that
a user who was kicked off has no open link, so the names the list of players has too many are those
of closing links, and those only.

*The outboxes.* `Sees(n, c, v, out)` is what client `c` makes of an outbox. What it makes of `a ++ b` is
what it makes of `b` after `a` (`SeesBoth`), so each handler is followed in the order it sends:
`SeesGames`, `SeesLists`, `SeesInfo`, `ByeSeen` for the four things that are sent to many, `KillGameSeen`
for as many releases as a game has players. The lists `KillGame` sends on the way name
players as logged in that the server has not all released yet, and show a game that is about to
go: `ReleaseSeen` says what is right about them, and the broadcast that ends the handler puts the rest
right.

*The rooms.* `RoomFor(c, games, name)` is the room the server has `c` in; `RoomWith`, `RoomWithout` and
`RoomOpened` say how it changes with a game, which needs `Apart` before and after: `IInv` again. With
these there is one lemma per handler, `...Seen`, and `ViewsKept` puts them together.

### What the menu offers

`MatchMakerProofs` proves, for any number of clients and names, when each connection is a new
process (`\A p \in Peers : Process[p] = NoName`, as in the run `menus`), whatever name its user typed:

| theorem | says |
|---|---|
| `MenuStaysRight` | the inductive invariant `IInv /\ ViewInv /\ MenuInv` holds |
| `MenuFitsHolds` | `MenuFits`, of the menus whose name needed no cleaning |
| `CommandsLandHolds` | `CommandsLand` |

The hypothesis is needed: `menu_stale` shows a process that connects again with its old menu and
never gets out of a question.

*The invariant.* `MenuInv` says that the menu of a connected client is new until its login and
right (`Settled`) for the room it shows from then to its START. A view can be judged by the last
message of each kind; a menu cannot, because its mode is set by several callbacks and one of them
ignores what comes while a question is open. So view and menu are followed together, message by
message (`Follows`, `Reacts`).

*Ready and settled.* Between two messages of one handler a menu need not be right. `Ready` says that
the next list of games will put it right: the joiners are those of the room shown, a guest is not
taken for removed, a host with somebody waiting has the question open. The lemma all
handlers share is that a list of games that agrees with the room shown (`Agrees`) settles a ready
menu. `Agrees` speaks of the list on its way, because `KillGame` sends lists that show a
game its players have just been told to leave. Each handler is then shown to leave the menu ready before its
last list (`KillGame` once more by how many players were released). A request to join and
an approval end with no list of games; for these the menu is shown to be settled directly: GAMEINFO brings
the joiners the question is about, and the JOIN behind it opens the question at the host and sets the mode of
whoever asked.

*The two names.* Only the mode depends on the name that was typed, so the parts of `Ready` and `Settled`
that are about the mode carry the hypothesis `logged = name`; lists, joiners and `joined` do not, and so
`CommandsLand` holds for every name. `joined` is right from the first GAMEINFO of a room to the last, and
`Settled` says nothing of it when nobody is in the room or waits for it.

*What it gives.* With `ViewInv` the room shown is the server's room, so `MenuFits` and `CommandsLand` are
read off `Settled`. They speak of a client that has heard everything queued for it; a key pressed before
that names what the client was last told, and the server ignores what does not exist any more.

### The lobby of two players

`P2PConnectionProofs` and `P2PPrimaryProofs` prove, for any finite set of paths
(`PathsAssumption`: an object counts its attempts, and START brings finitely many addresses), any subset
of the commands, users that wait or do not, any bound on the messages under way, and pings of any kind:

| theorem | says | hypothesis |
|---|---|---|
| `LinksAlwaysFit` | the inductive invariant `LinksFit` holds | |
| `LobbyTypeCorrect` | `TypeOK` | |
| `ListenersListedHolds` | `ListenersListed` | |
| `CommittedIsReadyHolds` | `CommittedIsReady` | |
| `EndsAsFlaggedHolds` | the last callback is the one the flags stand for, and they stay | |
| `StartsAreConfirmed` | the inductive invariant `StartsConfirmed` holds | no unready |
| `OneStartsWithTwoHolds` | `OneStartsWithTwo` | no unready |
| `ListsHaveOnePath` | the inductive invariant `PathsFit` holds | |
| `PrimaryComesFirst` | the inductive invariant `UndecidedFit` holds | no link breaks |
| `SamePathHolds` | `SamePath` | no link breaks |
| `LobbyFits` | the facts `Fits` about ends, attempts, flags and queues | no link breaks |
| `PrimaryIsHome` | the inductive invariant `HomeFit` holds | no link breaks; `Patient` or no unready |
| `AgreeOnPrimaryHolds` | `AgreeOnPrimary` | the same |
| `ReadyKnownHolds` | `ReadyKnown` | no link breaks; `Patient` |
| `TwoStartsWithOne` | player 2 only starts a game player 1 has committed to, or player 1 was destroyed | no link breaks; no unready |
| `NeverContraryHolds` | `NeverContrary` | the same |
| `OneNeverStartsAlone` | once player 1 plays, StartGame is the only callback player 2 can still get | no unready, no cancel |
| `NeverMixedHolds` | `NeverMixed` | no link breaks; no unready, no cancel |

*Lists.* `ListenersListed` needs to know what a link can still do: an attempt is in `out` of the
object that made it and its other end is not yet listed (`AttemptsApart`, `AttemptsFresh`), or its
connection event could list it twice. *Flags.* `CommittedIsReady` is nearly inductive: it needs the
types, and that Start is only acted on by an object that is ready.

*Starts.* Player 1 starts when it is sent Start and has asked for it. `StartsConfirmed` follows that
word back: a Start on its way to player 1 was sent by a player 2 whose `start` is set, and player 2
never clears it as long as it does not take its ready back. The hypothesis
`"unready" \notin Commands` is needed: with it taken back, player 1's Start can be answered twice and
a cancel cross it, which is what `p2p_confirm` and the list of things seen below are about.

*Paths.* `PathsFit` says that the first link that connects fixes the path for every later one, that
PRIMARY carries player 1's path, and that the primary paths of both agree; that holds with links
that break too. That both *have* one when they start does not: PRIMARY can be lost with its
link. `UndecidedFit` says that until player 2 knows the primary link nothing is decided, and every Start
and Cancel of player 1 has a PRIMARY ahead of it in its queue. `Lossy = FALSE` says that no link
breaks by itself; links the two objects reset or hang up themselves are covered.

*The primary link.* `AgreeOnPrimary`, `ReadyKnown`, `NeverContrary` and `NeverMixed` rest on one invariant. `HomeFit` says that
from the time player 1 has put a link first over a path player 2 knows, and until the two part, there is a
link that is home (`Home`):

* player 1 keeps its end, or has hung up because a cancel was confirmed (`Ends`), and then the Cancel is
  ahead of the DISCONNECT in the queue (`Cancels`);
* player 2 keeps its end, and from PRIMARY on as the first of its list; nothing but this link
  brings it a PRIMARY, and it hangs up nothing (`Stays`);
* with users that wait, player 2 has reset the other links it started before a Start
  of its own is under way, so that no link is left to come up later (`Tidy`);
* with users that wait, the last ready message under way is what its sender is, and all of them
  travel over this link (`Echo`).

The two part (`Gone`) when an object is destroyed, when player 2 ends before PRIMARY came, when player 2 has a
cancel confirmed, or when player 1 is committed to the start (`Over`). None of this is inductive without
the rest: that player 2 keeps the link needs that what it resets is never the home link, which needs that
PRIMARY came over it and over no other; that it hears of a cancel before its last link goes
needs the order in its queue; and that player 1 can hang up only with everything else done needs
`out[1] = {}`, which is where the attempts under way are counted. The proof is one lemma per
conjunct over the kinds of things that can happen to an end (`EndStep`), a queue (`WireStep`) and a flag,
instead of one per action.

`NeverContrary` and `NeverMixed` follow in two halves. When player 1 started, player 2 has committed itself
(`StartsConfirmed`). When player 2 started, player 1 has, or was destroyed (`TwoStartsWithOne`): player 2
has no end left, so no link is home, so the two had parted, and that is the only way left. Whoever has
committed itself is never told CancelGame (`EndsAsFlagged`), which is `NeverContrary`; and if there is no
cancel at all (`NoCancel`), it is told nothing but StartGame (`CommittedStarts`), which is `NeverMixed`. That
last step is where a cancel breaks it: with both flags set an object ends in Disconncted. `ReadyKnown` is
`Echo` with empty queues.

`Patient \/ "unready" \notin Commands` is what the argument needs: an object whose users neither wait nor stay ready
can commit itself to a start while links are still coming up, and hang up some of them but not others.
`p2p_end` and `p2p_paths` check `AgreeOnPrimary` on instances of the two cases. Without either it is not
proved; TLC finds no violation when `"unready"` is added to the commands of `p2p_end`, with one path or two.

*Induction.* The library's induction theorems cannot be instantiated here. Where a proof needs one,
over the players `KillGame` releases or over a finite set, it takes the least counterexample
(`LeastElement`, `SetInduction` of `SequenceLemmas`) and derives a contradiction.

*How the models were written for it.* `KillGame` is a recursive function of how many players were
released, `HearAll` and `ReactAll` of how many messages were heard, lists are changed with the operators `SequenceLemmas` has facts about, and `StartIsMutual`
is the action `Mutual` boxed. None of these changes what is modelled.

### Only model-checked

* What a process that connects again with its old menu shows (see *What the menu offers*), but for the
  violation of `AskedIsHosting`.
* `BothEnd` and the other liveness properties (below), `Stranded` with them.
* `AgreeOnPrimary` for users who neither wait for `Connected` nor stay ready (see *The primary link*).
* `RosterArrives`, `RoomsArrive`, `AddressesArrive`: what recursive parsers compute is induction over
  data, and the bounded inputs include the cases that could go wrong.
* All liveness properties, the fairness they rest on, and ENABLED are out of the prover's reach.

## Findings

* **A zombie acts again** (`zombie`). `States.h:5` says a kicked off user "can no longer do
  anything". `Game::Approve` and `Game::KillGame` change the state of whoever is in
  their sets. A user kicked off while pending is `JoinedOpenGame` or `LoggedIn` again, and
  what it had sent is acted on until its disconnect completes. It is still in
  the sets because `UserChangedStateVisitor.cpp:42`, where users kicked off should leave their
  games, is a comment.
* **Two approvals, no game** (`approved_starts`). `ServerConnection.cpp:431` says "as soon as a
  player is approved, we start the game". A host that approves two players before it
  hears of the first has two joined players when its START arrives; `CanStart` wants one, START
  is ignored, and no other one is sent. `User.cpp:110` documents a maximum of players that
  `Game` stores and never reads.
* **A question that stays** (`menu_stale`). A host that disconnects while it is asked to let a
  player in keeps `MMM_3_ALLOW_DENY_LEAVE` and `requestedJoiners`. Connected again, it hosts nothing,
  and `OpenGames` returns early on every list it is sent.
* **Two players confirm each other for ever** (`p2p_confirm`). Player 2 takes its ready back
  and gives it again while Start is on its way: player 1 no longer waits for a confirmation,
  so it answers player 2's, player 2 answers that, and nobody disconnects.
* **One dropped pong ends all pings** (`p2p_ping`). The ping is "taken three a second"
  (`P2PConnection.h:40`). A pong that comes while `CanSend` is false, because the player is ready or
  because a redundant link has just come up, is dropped with `m_bPingSent` set, and
  `PingHandler::Update` waits for it for ever. One that is late has the same effect.

Seen while modelling, and not given a run of their own:

* A host that is not shown as one. The demo client looks for the name its user typed in lists from which
  `ServerConnection.cpp:237` has removed commas and colons. A host called "a,b" is not found and stays in
  `MMM_0_DEFAULT`: `MenuFits` is about the other names.
* Kicked from another game. `LeftGameOK` and `RemovedFromGame` do not clear `joined`, and a new game gets no
  GAMEINFO before somebody asks to join it. The key k of its host (`clientMain.cpp:485`) sends EJECT for a
  player of the game the host was in before: `CommandsLand` judges k from the first GAMEINFO on.
* One starts, the other is disconnected. Player 1 may cancel a start it has asked for: `TryCancel` does not look at
  `m_TryStart`. The confirmation makes it start its game; its cancel meets a player 2 that has confirmed, and
  with both flags set neither `ReadyToStart` nor `ReadyToCancel` holds. `NeverMixed` is false when `"cancel"`
  is added to the commands of `p2p_leave`.
* A binned attempt is pending for ever. An outgoing link that connects over a path no longer wanted is reset
  ("bin it", `P2PConnection.cpp:338`) but stays in `outGoingPeerCandidates`. If the kept link ends before a
  primary one is agreed on, the object waits for an attempt no event comes for, and makes no last
  callback: one of the two ways to be `Stranded`.
* `CleanRedundantConnections` drops the attempts that are left also when the primary link has just gone. Then
  nothing is left that an event could come for, and no last callback is made: the other way to be
  `Stranded`.
* A redundant link that comes up after `disconnect_later` was called is never closed, and
  with start or cancel set nothing more is sent. `StartEnds` and `CancelEnds` are stated for
  the moment the redundant links are gone.
* With links that break, or a ready taken back while start and cancel cross, one player
  can start and the other go back by CancelGame: `NeverContrary` is checked without these.
* The creator of a game whose player was kicked off just before START is called to start with somebody who is
  told nothing; `StartIsMutual` exempts a player whose connection is going.
* Over a link that breaks PRIMARY can be lost and Start still be accepted.
* The callbacks that end a `ServerConnection` run before `m_state` is Idle: a Connect made inside
  one is refused and changes nothing.
* The demo client's current page goes to the last one when a list grows and stays beyond the
  end when it shrinks.

## Not modelled

* Texts of INFO messages, logging and console output: only displayed.
* Versions and the game's name in them: stored by the server, never tested once accepted. Addresses
  and user data are in `Wire` only: no state machine depends on them.
* How a `ServerConnection` finds its local addresses: operating system calls.
* User messages in the lobby and the average of the pings: they change no state the two objects
  act on.
* The demo client's pages, keyboard and console, and `clientMainTest.cpp`, which only calls it. The
  keys of the lobby are the user commands of `P2PConnection`.
* A hand-over from `MatchSystem` to `P2PConnection`: the one passes the addresses `AddressesArrive`
  speaks of, the other starts from any two ways to connect.
* A list of addresses that does not parse: the server models the refusal, but no
  `ServerConnection` writes one (`AddressesArrive`).
* ENet itself: external, from its use.

## What is left

All modules of the table are written. Every state and action property the passing runs check is stated by a
theorem, except those under *Only model-checked*. Worth trying next:

1. `AgreeOnPrimary` for users who neither wait for `Connected` nor stay ready: nothing TLC has seen speaks against
   it, and `HomeFit` would have to follow links that come up after a start was agreed on.
2. A hand-over from `MatchSystem` to `P2PConnection`, so that both players of a START are followed into one lobby.
