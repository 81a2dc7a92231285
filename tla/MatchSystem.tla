---------------------------- MODULE MatchSystem ----------------------------
(***************************************************************************)
(* The server with its clients: MatchServer composed with one              *)
(* ServerConnection per client, over the two reliable, ordered directions  *)
(* of an ENet connection.                                                  *)
(*                                                                         *)
(* A ServerConnection introduces itself in three messages, then sends what *)
(* its user asks for, answers APPROVE with START by itself, and ends with  *)
(* one of the callbacks Timeout, Disconnected and StartP2P.  The messages  *)
(* that only go to other callbacks are dropped here: MatchViews has them.  *)
(*                                                                         *)
(* A connection that ends loses what was queued and not served, in both    *)
(* directions, and both ends are told, each in its own time.               *)
(***************************************************************************)
EXTENDS MatchServer

CONSTANTS
    Clients,
    NoSlot,     \* m_server when it is nullptr
    LoginAs,    \* LoginAs[c]: m_userName; two clients may want one name
    Asks,       \* Asks[c]: the requests the user of c may make
    Flaky,      \* the clients who may disconnect or fail to connect for no reason
    MaxQueued   \* bound: a user asks for something only while fewer messages travel

ASSUME ClientsAssumption ==
    /\ NoSlot \notin Peers
    /\ LoginAs \in [Clients -> Names]
    /\ Asks \in [Clients -> SUBSET ClientMsgs]
    /\ Flaky \subseteq Clients
    /\ MaxQueued \in Nat

VARIABLES
    slot,    \* slot[c]: m_server, as the server's slot it is connected to
    conn,    \* conn[c]: m_state, and whether enet_peer_disconnect was called
    started, \* started[c]: whether m_startGameInfo is set
    ended,   \* ended[c]: the callback that ended c's last connection
    up,      \* up[s]: what travels to the server from slot s
    down     \* down[s]: what travels to the client at slot s

serverVars == <<link, state, name, games, sent>>
clientVars == <<slot, conn, started, ended>>
systemVars == <<serverVars, clientVars, up, down>>

\* Idle, Connecting, Connected, and Connected with a disconnect under way.
ConnStates == {"idle", "connecting", "connected", "disconnecting"}

Callbacks == {"none", "Timeout", "Disconnected", "StartP2P"}

CONNECT == [type |-> "CONNECT"]
DISCONNECT == [type |-> "DISCONNECT"]

ClientAt(s) == {c \in Clients : slot[c] = s}
Reaches(s) == \E c \in ClientAt(s) : conn[c] = "connected"
-----------------------------------------------------------------------------
(***************************************************************************)
(* What the user of a ServerConnection does.                               *)
(***************************************************************************)
Connect(c) ==
    /\ conn[c] = "idle"
    /\ conn' = [conn EXCEPT ![c] = "connecting"]
    /\ started' = [started EXCEPT ![c] = FALSE]
    /\ ended' = [ended EXCEPT ![c] = "none"]
    /\ UNCHANGED <<serverVars, slot, up, down>>

\* CreateGame, RequestToJoinGame, ApproveJoinRequest, EjectPlayer, LeaveGame, StartGame.
\* enet_peer_send refuses while connecting or disconnecting.
Ask(c) ==
    /\ conn[c] = "connected"
    /\ Len(up[slot[c]]) + Len(down[slot[c]]) < MaxQueued
    /\ \E m \in Asks[c] : up' = [up EXCEPT ![slot[c]] = Append(@, m)]
    /\ UNCHANGED <<serverVars, clientVars, down>>

\* Mutant: enet_peer_reset, which tells the server nothing.
HangUp_Silent(c) ==
    /\ conn' = [conn EXCEPT ![c] = "disconnecting"]
    /\ up' = [up EXCEPT ![slot[c]] = <<>>]
    /\ down' = [down EXCEPT ![slot[c]] = <<>>]

\* enet_peer_disconnect: the queues are emptied, some of it was already on its way.
HangUp(c) ==
    /\ conn' = [conn EXCEPT ![c] = "disconnecting"]
    /\ \E kept \in 0..Len(up[slot[c]]) :
         up' = [up EXCEPT ![slot[c]] = Append(SubSeq(@, 1, kept), DISCONNECT)]
    /\ down' = [down EXCEPT ![slot[c]] = <<>>]

Disconnect(c) ==
    /\ c \in Flaky
    /\ conn[c] = "connected"
    /\ HangUp(c)
    /\ UNCHANGED <<serverVars, slot, started, ended>>
-----------------------------------------------------------------------------
(***************************************************************************)
(* Update: one event.                                                      *)
(***************************************************************************)
FreeSlots == {s \in Peers : link[s] = "free" /\ up[s] = <<>> /\ ClientAt(s) = {}}

\* Mutant: the client logs in before it has said where it can be reached.
Hello_LoginFirst(c) ==
    <<[type |-> "Version", ok |-> TRUE], [type |-> "Login", who |-> LoginAs[c]],
      [type |-> "Info", ok |-> TRUE]>>

\* The list of addresses always parses: ToString wrote it.
Hello(c) ==
    <<[type |-> "Version", ok |-> TRUE], [type |-> "Info", ok |-> TRUE],
      [type |-> "Login", who |-> LoginAs[c]]>>

\* The client is told first, the server by the first message it serves for the slot.
ConnectEvent(c) ==
    /\ conn[c] = "connecting"
    /\ FreeSlots # {}
    /\ LET s == CHOOSE t \in FreeSlots : TRUE
       IN  /\ slot' = [slot EXCEPT ![c] = s]
           /\ up' = [up EXCEPT ![s] = <<CONNECT>> \o Hello(c)]
    /\ conn' = [conn EXCEPT ![c] = "connected"]
    /\ UNCHANGED <<serverVars, started, ended, down>>

\* Mutant: m_server still points to the slot that is gone.
Finish_KeepsServer(c, callback) ==
    /\ conn' = [conn EXCEPT ![c] = "idle"]
    /\ started' = [started EXCEPT ![c] = FALSE]
    /\ ended' = [ended EXCEPT ![c] = callback]
    /\ UNCHANGED slot

Finish(c, callback) ==
    /\ slot' = [slot EXCEPT ![c] = NoSlot]
    /\ conn' = [conn EXCEPT ![c] = "idle"]
    /\ started' = [started EXCEPT ![c] = FALSE]
    /\ ended' = [ended EXCEPT ![c] = callback]

\* The attempt fails: no answer, or the server has no slot left.
Timeout(c) ==
    /\ conn[c] = "connecting"
    /\ c \in Flaky \/ FreeSlots = {}
    /\ Finish(c, "Timeout")
    /\ UNCHANGED <<serverVars, up, down>>

\* Mutant: the client approves and waits for its user to start.
OnApproved_Waits(c) == UNCHANGED up

OnApproved(c) == up' = [up EXCEPT ![slot[c]] = Append(@, [type |-> "Start"])]

\* Mutant: the client hangs up without having taken the details.
OnStarted_NoInfo(c) ==
    /\ UNCHANGED started
    /\ HangUp(c)

\* The callback waits for the disconnect event.
OnStarted(c) ==
    /\ started' = [started EXCEPT ![c] = TRUE]
    /\ HangUp(c)

Receive(c) ==
    /\ conn[c] = "connected"
    /\ down[slot[c]] # <<>>
    /\ \/ /\ Head(down[slot[c]]).type = "Approve"
          /\ OnApproved(c)
          /\ down' = [down EXCEPT ![slot[c]] = Tail(@)]
          /\ UNCHANGED <<conn, started>>
       \/ Head(down[slot[c]]).type = "Start" /\ OnStarted(c)
    /\ UNCHANGED <<serverVars, slot, ended>>

\* Its own disconnect is acknowledged, or the server has disconnected: what came before and
\* was not received yet may be gone.
DisconnectEvent(c) ==
    /\ \/ conn[c] = "disconnecting" /\ UNCHANGED <<up, down>>
       \/ /\ conn[c] = "connected"
          /\ DISCONNECT \in ToSet(down[slot[c]])
          /\ up' = [up EXCEPT ![slot[c]] = Append(@, DISCONNECT)]
          /\ down' = [down EXCEPT ![slot[c]] = <<>>]
    /\ Finish(c, IF started[c] THEN "StartP2P" ELSE "Disconnected")
    /\ UNCHANGED serverVars
-----------------------------------------------------------------------------
(***************************************************************************)
(* The loop of the server: the next event of slot s.                       *)
(***************************************************************************)
Delivered(s) ==
    down[s]
    \o SelectSeq(sent'[s], LAMBDA m : m.type \in {"Approve", "Start"})
    \o (IF link[s] = "up" /\ link'[s] = "closing" THEN <<DISCONNECT>> ELSE <<>>)

Serve(s) ==
    /\ up[s] # <<>>
    /\ LET m == Head(up[s])
       IN  CASE m = CONNECT    -> NewConnection(s)
             [] m = DISCONNECT -> IF link[s] = "free" THEN UNCHANGED serverVars
                                                      ELSE LostConnection(s)
             [] OTHER          -> ReceiveMessage(s, m)
    /\ up' = [up EXCEPT ![s] = Tail(@)]
    /\ down' = [t \in Peers |-> IF Reaches(t) THEN Delivered(t) ELSE <<>>]
    /\ UNCHANGED clientVars
-----------------------------------------------------------------------------
SystemInit ==
    /\ Init
    /\ slot = [c \in Clients |-> NoSlot]
    /\ conn = [c \in Clients |-> "idle"]
    /\ started = [c \in Clients |-> FALSE]
    /\ ended = [c \in Clients |-> "none"]
    /\ up = [s \in Peers |-> <<>>]
    /\ down = [s \in Peers |-> <<>>]

SystemNext ==
    \/ \E c \in Clients :
         \/ Connect(c) \/ Ask(c) \/ Disconnect(c)
         \/ ConnectEvent(c) \/ Timeout(c) \/ Receive(c) \/ DisconnectEvent(c)
    \/ \E s \in Peers : Serve(s)

\* Both loops run for ever and ENet answers or gives up; users need not do anything.
SystemSpec ==
    /\ SystemInit /\ [][SystemNext]_systemVars
    /\ \A s \in Peers : WF_systemVars(Serve(s))
    /\ \A c \in Clients :
          /\ WF_systemVars(ConnectEvent(c) \/ Timeout(c))
          /\ WF_systemVars(Receive(c))
          /\ WF_systemVars(DisconnectEvent(c))
-----------------------------------------------------------------------------
(***************************************************************************)
(* Properties.                                                             *)
(***************************************************************************)
\* The members of every ServerConnection keep their types; m_server is set while there is a
\* connection and no longer, and no two clients share a slot.
SystemTypeOK ==
    /\ slot \in [Clients -> Peers \cup {NoSlot}]
    /\ conn \in [Clients -> ConnStates]
    /\ started \in [Clients -> BOOLEAN]
    /\ ended \in [Clients -> Callbacks]
    /\ \A c \in Clients : slot[c] = NoSlot <=> conn[c] \in {"idle", "connecting"}
    /\ \A s \in Peers : Cardinality(ClientAt(s)) <= 1

\* Connections.cpp:84, on the message that gets a user kicked: "Should never happen if the
\* client works properly".  The handshake needs no answer between its messages, and the
\* server meets them in the states that wait for them, whatever became of the slot before.
NeverBogus ==
    \A s \in Peers :
        up[s] # <<>> /\ link[s] = "up" /\ state[s] \in HandshakeStates
            => \/ Head(up[s]) = DISCONNECT
               \/ Head(up[s]).type \in Handled(state[s])

\* Whoever tries to connect is logged in or is told that it failed: by Timeout, or by the
\* disconnect that follows a name in use.
LoginAnswered ==
    \A c \in Clients :
        conn[c] \in {"connecting", "connected"}
            ~> \/ ended[c] # "none"
               \/ slot[c] # NoSlot /\ state[slot[c]] \in ActiveStates
               \/ conn[c] = "disconnecting"

Says(msgs, t) == \E k \in DOMAIN msgs : msgs[k].type = t
Hosts(c) == slot[c] # NoSlot /\ CreatedBy(slot[c]) # {}
JoinedAt(c) == UNION {games[i].joined : i \in CreatedBy(slot[c])}

\* START follows APPROVE: when a host hears of its only approved player the game starts and
\* is closed by it, unless that player goes or a second one is approved first.
ApprovalStarts ==
    \A c \in Clients :
        Hosts(c) /\ Cardinality(JoinedAt(c)) = 1 /\ Says(down[slot[c]], "Approve")
            ~> ~(Hosts(c) /\ Cardinality(JoinedAt(c)) = 1)

\* Who is sent START gets its StartP2P callback, and no Disconnected instead, although the
\* callback waits for the disconnect that START itself asks for.  Only a kick that is on its
\* way may come first, or a Disconnect of its own, which only a Flaky client calls.
StartArrives ==
    \A c \in Clients :
        slot[c] # NoSlot /\ Says(down[slot[c]], "Start")
            ~> \/ ended[c] = "StartP2P"
               \/ slot[c] # NoSlot /\ DISCONNECT \in ToSet(down[slot[c]])
               \/ c \in Flaky /\ conn[c] = "disconnecting" /\ ~started[c]

\* Becoming KickedOff leaves no game (UserChangedStateVisitor::Visit(const KickedOffState&)
\* is empty): the disconnect event alone closes what a kicked off user hosts, and it comes.
KickedOwnersGameCloses ==
    \A p \in Peers : (state[p] = "KickedOff" /\ CreatedBy(p) # {}) ~> (CreatedBy(p) = {})

\* No user outlives its client, however it went: kicked off, hung up, started.
GhostsGo == \A s \in Peers : link[s] # "free" /\ ClientAt(s) = {} ~> link[s] = "free"
-----------------------------------------------------------------------------
(***************************************************************************)
(* What comments of the repository say and the code does not do.           *)
(***************************************************************************)
\* ServerConnection.cpp:431: "For now, as soon as a player is approved, we start the game":
\* while a player is joined, START is on its way or about to be.  With two approvals under
\* way neither START finds exactly one joined player, and no other one follows.
ApprovedIsStarted ==
    \A c \in Clients :
        conn[c] = "connected" /\ link[slot[c]] = "up" /\ Hosts(c) /\ JoinedAt(c) # {}
            => Says(down[slot[c]], "Approve") \/ Says(up[slot[c]], "Start")
=============================================================================
