------------------------- MODULE MatchSystemProofs -------------------------
(***************************************************************************)
(* Proofs about MatchSystem, for any number of clients, slots and names    *)
(* and any wishes of the users.                                            *)
(*                                                                         *)
(* MatchServer lets any message come from any slot at any time.  Here it   *)
(* is shown that this covers the server with its clients: each step of the *)
(* system is a step of MatchServer or leaves the server alone, because     *)
(* what travels to the server are events and messages it knows.  All that  *)
(* was proved of MatchServer then holds of the system.                     *)
(***************************************************************************)
EXTENDS MatchSystem, MatchServerProofs, FiniteSetTheorems

Travelling == ClientMsgs \cup {CONNECT, DISCONNECT}

\* The members of each ServerConnection, and its slot: none while there is no connection,
\* one of its own otherwise.
ClientsTyped ==
    /\ slot \in [Clients -> Peers \cup {NoSlot}]
    /\ conn \in [Clients -> ConnStates]
    /\ started \in [Clients -> BOOLEAN]
    /\ ended \in [Clients -> Callbacks]
    /\ \A c \in Clients : slot[c] = NoSlot <=> conn[c] \in {"idle", "connecting"}

SlotsApart ==
    \A c, d \in Clients : slot[c] = slot[d] /\ slot[c] # NoSlot => c = d

WiresTyped == up \in [Peers -> Seq(Travelling)]

SysInv == ClientsTyped /\ SlotsApart /\ WiresTyped
-----------------------------------------------------------------------------
(***************************************************************************)
(* What is put on the way to the server is known to it.                    *)
(***************************************************************************)
\* A connected client has a slot of the server.
LEMMA HasSlot ==
  ASSUME ClientsTyped, NEW c \in Clients, conn[c] \in {"connected", "disconnecting"}
  PROVE  slot[c] \in Peers
  BY DEF ClientsTyped

\* START, which follows an approval, and the three messages of the handshake.
LEMMA KnownMsgs ==
  ASSUME NEW c \in Clients
  PROVE  /\ [type |-> "Start"] \in Travelling
         /\ Hello(c) \in Seq(Travelling)
         /\ <<CONNECT>> \o Hello(c) \in Seq(Travelling)
<1>1. [type |-> "Start"] \in Travelling
  BY DEF Travelling, ClientMsgs
<1>2. [type |-> "Version", ok |-> TRUE] \in Travelling
  BY DEF Travelling, ClientMsgs
<1>3. [type |-> "Info", ok |-> TRUE] \in Travelling
  BY DEF Travelling, ClientMsgs
<1>4. [type |-> "Login", who |-> LoginAs[c]] \in Travelling
  BY ClientsAssumption DEF Travelling, ClientMsgs
<1>5. Hello(c) \in Seq(Travelling)
  BY <1>2, <1>3, <1>4 DEF Hello
<1>6. <<CONNECT>> \in Seq(Travelling)
  BY DEF Travelling
<1>7. QED
  BY <1>1, <1>5, <1>6, ConcatProperties

\* enet_peer_disconnect leaves a part of the queue and adds the event.
LEMMA HangUpKeepsWires ==
  ASSUME SysInv, NEW c \in Clients, conn[c] = "connected", HangUp(c)
  PROVE  WiresTyped'
<1> DEFINE s == slot[c]
<1>1. s \in Peers
  BY HasSlot DEF SysInv
<1>2. PICK kept \in 0..Len(up[s]) :
         up' = [up EXCEPT ![s] = Append(SubSeq(@, 1, kept), DISCONNECT)]
  BY DEF HangUp
<1>3. up[s] \in Seq(Travelling)
  BY <1>1 DEF SysInv, WiresTyped
<1>4. SubSeq(up[s], 1, kept) \in Seq(Travelling)
  <2>1. kept \in Int /\ \A i \in 1..kept : up[s][i] \in Travelling
    BY <1>3
  <2>2. QED BY <2>1, SubSeqProperties
<1>5. Append(SubSeq(up[s], 1, kept), DISCONNECT) \in Seq(Travelling)
  BY <1>4, AppendProperties DEF Travelling
<1>6. QED BY <1>1, <1>2, <1>5 DEF SysInv, WiresTyped

\* One more message behind the others.
LEMMA SentUp ==
  ASSUME SysInv, NEW s \in Peers, NEW m \in Travelling,
         up' = [up EXCEPT ![s] = Append(@, m)]
  PROVE  WiresTyped'
<1>1. Append(up[s], m) \in Seq(Travelling)
  BY AppendProperties DEF SysInv, WiresTyped
<1>2. QED BY <1>1 DEF SysInv, WiresTyped
-----------------------------------------------------------------------------
(***************************************************************************)
(* Every step preserves SysInv.                                            *)
(***************************************************************************)
LEMMA SystemInitTyped == SystemInit => SysInv
  BY DEF SystemInit, SysInv, ClientsTyped, SlotsApart, WiresTyped, ConnStates, Callbacks

\* A client that comes to another state, with the slot that goes with it.
LEMMA MovesClient ==
  ASSUME ClientsTyped, NEW c \in Clients, NEW k \in ConnStates, NEW s \in Peers \cup {NoSlot},
         s = NoSlot <=> k \in {"idle", "connecting"},
         conn' = [conn EXCEPT ![c] = k], slot' = [slot EXCEPT ![c] = s],
         started' \in [Clients -> BOOLEAN], ended' \in [Clients -> Callbacks]
  PROVE  ClientsTyped'
<1>1. slot' \in [Clients -> Peers \cup {NoSlot}] /\ conn' \in [Clients -> ConnStates]
  BY DEF ClientsTyped
<1>2. ASSUME NEW d \in Clients
      PROVE  slot'[d] = NoSlot <=> conn'[d] \in {"idle", "connecting"}
  <2>1. CASE d = c
    <3>1. slot'[d] = s /\ conn'[d] = k
      BY <2>1 DEF ClientsTyped
    <3>2. QED BY <3>1
  <2>2. CASE d # c
    <3>1. slot'[d] = slot[d] /\ conn'[d] = conn[d]
      BY <2>2 DEF ClientsTyped
    <3>2. QED BY <3>1 DEF ClientsTyped
  <2>3. QED BY <2>1, <2>2
<1>3. QED BY <1>1, <1>2 DEF ClientsTyped

\* A client that hangs up keeps its slot until the event.
LEMMA HangsUp ==
  ASSUME ClientsTyped, NEW c \in Clients, conn[c] = "connected", HangUp(c), UNCHANGED slot,
         started' \in [Clients -> BOOLEAN], UNCHANGED ended
  PROVE  ClientsTyped'
<1>1. slot[c] \in Peers /\ slot[c] # NoSlot /\ slot' = [slot EXCEPT ![c] = slot[c]]
  BY DEF ClientsTyped
<1>2. "disconnecting" \in ConnStates /\ conn' = [conn EXCEPT ![c] = "disconnecting"]
  BY DEF HangUp, ConnStates
<1>3. ended' \in [Clients -> Callbacks]
  BY DEF ClientsTyped
<1>4. QED BY <1>1, <1>2, <1>3, MovesClient

\* The user's actions change no slot.
LEMMA UserKeepsSysInv ==
  ASSUME SysInv, NEW c \in Clients, Connect(c) \/ Ask(c) \/ Disconnect(c)
  PROVE  SysInv'
<1>1. CASE Connect(c)
  <2>1. ClientsTyped'
    <3>1. slot[c] = NoSlot /\ slot' = [slot EXCEPT ![c] = NoSlot]
      BY <1>1 DEF Connect, SysInv, ClientsTyped
    <3>2. started' \in [Clients -> BOOLEAN] /\ ended' \in [Clients -> Callbacks]
      BY <1>1 DEF Connect, SysInv, ClientsTyped, Callbacks
    <3>3. "connecting" \in ConnStates /\ conn' = [conn EXCEPT ![c] = "connecting"]
      BY <1>1 DEF Connect, ConnStates
    <3>4. QED BY <3>1, <3>2, <3>3, MovesClient DEF SysInv
  <2>2. SlotsApart' /\ WiresTyped'
    BY <1>1 DEF Connect, SysInv, SlotsApart, WiresTyped
  <2>3. QED BY <2>1, <2>2 DEF SysInv
<1>2. CASE Ask(c)
  <2>1. slot[c] \in Peers
    BY <1>2, HasSlot DEF Ask, SysInv
  <2>2. PICK m \in Asks[c] : up' = [up EXCEPT ![slot[c]] = Append(@, m)]
    BY <1>2 DEF Ask
  <2>3. m \in Travelling
    BY ClientsAssumption DEF Travelling
  <2>4. WiresTyped'
    BY <2>1, <2>2, <2>3, SentUp
  <2>5. QED BY <1>2, <2>4 DEF Ask, clientVars, SysInv, ClientsTyped, SlotsApart
<1>3. CASE Disconnect(c)
  <2>1. WiresTyped'
    BY <1>3, HangUpKeepsWires DEF Disconnect
  <2>2. ClientsTyped'
    <3>1. started' \in [Clients -> BOOLEAN] /\ conn[c] = "connected" /\ HangUp(c)
          /\ UNCHANGED <<slot, ended>>
      BY <1>3 DEF Disconnect, SysInv, ClientsTyped
    <3>2. QED BY <3>1, HangsUp DEF SysInv
  <2>3. SlotsApart'
    BY <1>3 DEF Disconnect, SysInv, SlotsApart
  <2>4. QED BY <2>1, <2>2, <2>3 DEF SysInv
<1>4. QED BY <1>1, <1>2, <1>3

\* A client is given a slot nobody has.
LEMMA ConnectEventKeepsSysInv ==
  ASSUME SysInv, NEW c \in Clients, ConnectEvent(c)
  PROVE  SysInv'
<1>1. PICK s \in FreeSlots :
         /\ slot' = [slot EXCEPT ![c] = s]
         /\ up' = [up EXCEPT ![s] = <<CONNECT>> \o Hello(c)]
  BY DEF ConnectEvent
<1>2. s \in Peers /\ s # NoSlot /\ \A d \in Clients : slot[d] # s
  BY ClientsAssumption DEF FreeSlots, ClientAt
<1>3. ClientsTyped'
  <2>1. "connected" \in ConnStates /\ conn' = [conn EXCEPT ![c] = "connected"]
    BY DEF ConnectEvent, ConnStates
  <2>2. started' \in [Clients -> BOOLEAN] /\ ended' \in [Clients -> Callbacks]
    BY DEF ConnectEvent, SysInv, ClientsTyped
  <2>3. QED BY <1>1, <1>2, <2>1, <2>2, MovesClient DEF SysInv
<1>4. SlotsApart'
  BY <1>1, <1>2 DEF SysInv, ClientsTyped, SlotsApart
<1>5. WiresTyped'
  BY <1>1, <1>2, KnownMsgs DEF SysInv, WiresTyped
<1>6. QED BY <1>3, <1>4, <1>5 DEF SysInv

\* A connection that ends takes its slot from the client.
LEMMA FinishKeepsSlots ==
  ASSUME SysInv, NEW c \in Clients, NEW callback \in Callbacks, Finish(c, callback)
  PROVE  ClientsTyped' /\ SlotsApart'
<1>1. ClientsTyped'
  <2>1. "idle" \in ConnStates /\ conn' = [conn EXCEPT ![c] = "idle"]
    BY DEF Finish, ConnStates
  <2>2. slot' = [slot EXCEPT ![c] = NoSlot]
    BY DEF Finish
  <2>3. started' \in [Clients -> BOOLEAN] /\ ended' \in [Clients -> Callbacks]
    BY DEF Finish, SysInv, ClientsTyped
  <2>4. QED BY <2>1, <2>2, <2>3, MovesClient DEF SysInv
<1>2. SlotsApart'
  BY DEF Finish, SysInv, ClientsTyped, SlotsApart
<1>3. QED BY <1>1, <1>2

LEMMA EndKeepsSysInv ==
  ASSUME SysInv, NEW c \in Clients, Timeout(c) \/ DisconnectEvent(c)
  PROVE  SysInv'
<1>1. CASE Timeout(c)
  <2>1. ClientsTyped' /\ SlotsApart'
    BY <1>1, FinishKeepsSlots DEF Timeout, Callbacks
  <2>2. QED BY <1>1, <2>1 DEF Timeout, SysInv, WiresTyped
<1>2. CASE DisconnectEvent(c)
  <2>1. ClientsTyped' /\ SlotsApart'
    <3>1. (IF started[c] THEN "StartP2P" ELSE "Disconnected") \in Callbacks
      BY DEF Callbacks
    <3>2. QED BY <1>2, <3>1, FinishKeepsSlots DEF DisconnectEvent
  <2>2. WiresTyped'
    <3>1. CASE UNCHANGED up
      BY <3>1 DEF SysInv, WiresTyped
    <3>2. CASE conn[c] = "connected" /\ up' = [up EXCEPT ![slot[c]] = Append(@, DISCONNECT)]
      <4>1. slot[c] \in Peers
        BY <3>2, HasSlot DEF SysInv
      <4>2. DISCONNECT \in Travelling
        BY DEF Travelling
      <4>3. QED BY <3>2, <4>1, <4>2, SentUp
    <3>3. QED BY <1>2, <3>1, <3>2 DEF DisconnectEvent
  <2>3. QED BY <2>1, <2>2 DEF SysInv
<1>3. QED BY <1>1, <1>2

LEMMA ReceiveKeepsSysInv ==
  ASSUME SysInv, NEW c \in Clients, Receive(c)
  PROVE  SysInv'
<1>1. conn[c] = "connected" /\ slot[c] \in Peers
  BY HasSlot DEF Receive, SysInv
<1>2. CASE OnApproved(c) /\ UNCHANGED <<conn, started, slot, ended>>
  <2>1. WiresTyped'
    BY <1>1, <1>2, KnownMsgs, SentUp DEF OnApproved
  <2>2. QED BY <1>2, <2>1 DEF SysInv, ClientsTyped, SlotsApart
<1>3. CASE OnStarted(c) /\ UNCHANGED <<slot, ended>>
  <2>1. WiresTyped'
    BY <1>1, <1>3, HangUpKeepsWires DEF OnStarted
  <2>2. ClientsTyped'
    <3>1. started' \in [Clients -> BOOLEAN] /\ HangUp(c)
      BY <1>3 DEF OnStarted, SysInv, ClientsTyped
    <3>2. QED BY <1>1, <1>3, <3>1, HangsUp DEF SysInv
  <2>3. SlotsApart'
    BY <1>3 DEF SysInv, SlotsApart
  <2>4. QED BY <2>1, <2>2, <2>3 DEF SysInv
<1>4. QED BY <1>2, <1>3 DEF Receive

LEMMA ServeKeepsSysInv ==
  ASSUME SysInv, NEW s \in Peers, Serve(s)
  PROVE  SysInv'
<1>1. Tail(up[s]) \in Seq(Travelling)
  BY HeadTailProperties DEF Serve, SysInv, WiresTyped
<1>2. WiresTyped'
  BY <1>1 DEF Serve, SysInv, WiresTyped
<1>3. QED BY <1>2 DEF Serve, clientVars, SysInv, ClientsTyped, SlotsApart

LEMMA SystemNextTyped == SysInv /\ [SystemNext]_systemVars => SysInv'
<1> SUFFICES ASSUME SysInv, [SystemNext]_systemVars PROVE SysInv'
  OBVIOUS
<1>1. CASE UNCHANGED systemVars
  BY <1>1 DEF systemVars, clientVars, SysInv, ClientsTyped, SlotsApart, WiresTyped
<1>2. CASE SystemNext
  BY <1>2, UserKeepsSysInv, ConnectEventKeepsSysInv, EndKeepsSysInv, ReceiveKeepsSysInv,
     ServeKeepsSysInv DEF SystemNext
<1>3. QED BY <1>1, <1>2
-----------------------------------------------------------------------------
(***************************************************************************)
(* Every step is a step of the server or leaves it alone.                  *)
(***************************************************************************)
LEMMA ServeIsServerStep ==
  ASSUME SysInv, NEW s \in Peers, Serve(s)
  PROVE  [Next]_vars
<1> DEFINE m == Head(up[s])
<1>1. m \in Travelling
  BY HeadTailProperties DEF Serve, SysInv, WiresTyped
<1>2. CASE m = CONNECT
  <2>1. CONNECT # DISCONNECT
    BY DEF CONNECT, DISCONNECT
  <2>2. NewConnection(s)
    BY <1>2, <2>1 DEF Serve
  <2>3. QED BY <2>2 DEF Next
<1>3. CASE m # CONNECT /\ m = DISCONNECT
  BY <1>3 DEF Serve, Next, serverVars, vars
<1>4. CASE m # CONNECT /\ m # DISCONNECT
  <2>1. m \in ClientMsgs
    BY <1>1, <1>4 DEF Travelling
  <2>2. ReceiveMessage(s, m)
    BY <1>4 DEF Serve
  <2>3. QED BY <2>1, <2>2 DEF Next
<1>5. QED BY <1>2, <1>3, <1>4

LEMMA SystemStepIsServerStep == SysInv /\ [SystemNext]_systemVars => [Next]_vars
<1> SUFFICES ASSUME SysInv, [SystemNext]_systemVars PROVE [Next]_vars
  OBVIOUS
<1>1. CASE UNCHANGED serverVars
  BY <1>1 DEF serverVars, vars
<1>2. CASE \E s \in Peers : Serve(s)
  BY <1>2, ServeIsServerStep
<1>3. ASSUME NEW c \in Clients,
             \/ Connect(c) \/ Ask(c) \/ Disconnect(c)
             \/ ConnectEvent(c) \/ Timeout(c) \/ Receive(c) \/ DisconnectEvent(c)
      PROVE  UNCHANGED serverVars
  BY <1>3 DEF Connect, Ask, Disconnect, ConnectEvent, Timeout, Receive, DisconnectEvent
<1>4. CASE UNCHANGED systemVars
  BY <1>1, <1>4 DEF systemVars
<1>5. QED
  BY <1>1, <1>2, <1>3, <1>4 DEF SystemNext
-----------------------------------------------------------------------------
(***************************************************************************)
(* The handshake of a connection and the progress the server has made in   *)
(* it.  What is still to be served for a slot begins with the rest of the  *)
(* handshake, cut off by a disconnect at most.                             *)
(***************************************************************************)
Steps == <<"CONNECT", "Version", "Info", "Login">>

Past == ActiveStates \cup {"KickedOff"}

\* How many of the steps the server has behind it with a user in state st.
Done(st) ==
    CASE st = "NoUser"            -> 0
      [] st = "WaitingForVersion" -> 1
      [] st = "WaitingForLocalIP" -> 2
      [] st = "WaitingForLogin"   -> 3
      [] OTHER                    -> 4

Matches(m, t) == m.type = t /\ (t \in {"Version", "Info"} => m.ok)

\* The messages q continue a handshake of which n steps are done.
Follows(q, n) ==
    \A k \in 1..Len(q) :
        /\ q[k] = DISCONNECT => k = Len(q)
        /\ k + n <= 4 /\ q[k] # DISCONNECT => Matches(q[k], Steps[k + n])

\* They hold all of the rest, and the client has not hung up.
Whole(q, n) == Len(q) + n >= 4 /\ \A k \in 1..Len(q) : q[k] # DISCONNECT

SlotsUsed == \A s \in Peers : link[s] = "free" <=> state[s] = "NoUser"
InOrder == \A s \in Peers : Follows(up[s], Done(state[s]))
WholeHello ==
    \A c \in Clients : conn[c] = "connected" => Whole(up[slot[c]], Done(state[slot[c]]))

HandshakeInv == SlotsUsed /\ InOrder /\ WholeHello

LEMMA DoneFacts ==
  /\ \A st : Done(st) \in 0..4
  /\ \A st \in UserStates \cup {"NoUser"} : /\ Done(st) = 0 <=> st = "NoUser"
                                            /\ Done(st) = 4 <=> st \in Past
                                            /\ Done(st) \in 1..3 <=> st \in HandshakeStates
  BY DEF Done, UserStates, HandshakeStates, ActiveStates, Past
-----------------------------------------------------------------------------
(***************************************************************************)
(* What a handler does to the handshakes: nothing to those of the other    *)
(* slots, one step or the end of it to its own.                            *)
(***************************************************************************)
\* A user keeps its state or moves between states past the login.
Stays(st, st2, t) == st2[t] = st[t] \/ (st[t] \in Past /\ st2[t] \in Past)

LEMMA RemovalStays ==
  ASSUME IInv, NEW p \in Peers, NEW order, NEW t \in Peers
  PROVE  Stays(state, RemoveUserFromAnyGames(p, order).state, t)
<1> DEFINE gone == RemoveUserFromAnyGames(p, order)
<1>1. CASE CreatedBy(p) # {}
  <2> DEFINE i == Min(CreatedBy(p))
             S == games[i].joined \cup games[i].pending
  <2>1. i \in DOMAIN games
    BY <1>1, FindCreated DEF IInv
  <2>2. gone.state = LogInAll(state, S)
    BY <1>1 DEF RemoveUserFromAnyGames
  <2>3. S \subseteq Players(games[i])
    BY DEF Players
  <2> HIDE DEF gone, i, S
  <2>4. t \in S => state[t] \in Past
    BY <2>1, <2>3, PlayerFacts DEF IInv, Past, ActiveStates
  <2>5. gone.state[t] = IF t \in S THEN "LoggedIn" ELSE state[t]
    BY <2>2 DEF LogInAll
  <2>6. QED BY <2>4, <2>5 DEF Stays, Past, ActiveStates, gone
<1>2. CASE CreatedBy(p) = {}
  BY <1>2 DEF RemoveUserFromAnyGames, Stays
<1>3. QED BY <1>1, <1>2

\* The handlers of users in or out of games leave everyone where the handshake is concerned.
LEMMA GamesStay ==
  ASSUME IInv, NEW p \in Peers, NEW m \in ClientMsgs,
         OnCreate(p, m) \/ OnJoin(p, m) \/ OnEject(p, m) \/ OnApprove(p, m) \/ OnStart(p, m)
  PROVE  \A t \in Peers : Stays(state, state', t)
<1> USE DEF IInv
<1>1. state \in [Peers -> UserStates \cup {"NoUser"}]
  BY DEF Fit, Typed
<1>2. ASSUME NEW q \in Peers, NEW s \in Past, state[q] \in Past, state' = [state EXCEPT ![q] = s]
      PROVE  \A t \in Peers : Stays(state, state', t)
  BY <1>1, <1>2 DEF Stays
<1>3. ASSUME UNCHANGED state PROVE \A t \in Peers : Stays(state, state', t)
  BY <1>3 DEF Stays
<1>4. {"LoggedIn", "OpenedGame", "PendingJoin", "JoinedOpenGame", "KickedOff"} \subseteq Past
  BY DEF Past, ActiveStates
<1>5. CASE OnCreate(p, m)
  <2>1. /\ state[p] = "LoggedIn"
        /\ \/ state' = [state EXCEPT ![p] = "OpenedGame"]
           \/ state' = [state EXCEPT ![p] = "KickedOff"]
    BY <1>5 DEF OnCreate, DisconnectUser
  <2>2. QED BY <1>2, <1>4, <2>1
<1>6. CASE OnJoin(p, m)
  <2>1. /\ state[p] = "LoggedIn"
        /\ state' = [state EXCEPT ![p] = "PendingJoin"] \/ UNCHANGED state
    BY <1>6 DEF OnJoin
  <2>2. QED BY <1>2, <1>3, <1>4, <2>1
<1>7. CASE OnEject(p, m)
  <2>1. \/ UNCHANGED state
        \/ \E q \in ActivePlayers(state) : state' = [state EXCEPT ![q] = "LoggedIn"]
    BY <1>7 DEF OnEject
  <2>2. \A q \in ActivePlayers(state) : q \in Peers /\ state[q] \in Past
    BY DEF ActivePlayers, Past
  <2>3. QED BY <1>2, <1>3, <1>4, <2>1, <2>2
<1>8. CASE OnApprove(p, m)
  <2>1. \/ UNCHANGED state
        \/ /\ CreatedBy(p) # {}
           /\ \E q \in games[Min(CreatedBy(p))].pending :
                 state' = [state EXCEPT ![q] = "JoinedOpenGame"]
    BY <1>8 DEF OnApprove
  <2>2. CreatedBy(p) # {} => \A q \in games[Min(CreatedBy(p))].pending : q \in Peers /\ state[q] \in Past
    <3>1. SUFFICES ASSUME CreatedBy(p) # {}, NEW q \in games[Min(CreatedBy(p))].pending
                   PROVE  q \in Peers /\ state[q] \in Past
      OBVIOUS
    <3>2. Min(CreatedBy(p)) \in DOMAIN games
      BY <3>1, FindCreated
    <3>3. q \in Players(games[Min(CreatedBy(p))])
      BY <3>1 DEF Players
    <3>4. QED BY <1>4, <3>2, <3>3, PlayerFacts
  <2>3. QED BY <1>2, <1>3, <1>4, <2>1, <2>2
<1>9. CASE OnStart(p, m)
  <2>1. UNCHANGED state \/ \E order : state' = RemoveUserFromAnyGames(p, order).state
    BY <1>9 DEF OnStart
  <2>2. QED BY <1>3, <2>1, RemovalStays
<1>10. QED BY <1>5, <1>6, <1>7, <1>8, <1>9
\* A connect event ends the first step.
LEMMA NewProgress ==
  ASSUME IInv, SlotsUsed, NEW p \in Peers, NewConnection(p)
  PROVE  /\ SlotsUsed'
         /\ Done(state[p]) = 0 /\ Done(state'[p]) = 1
         /\ \A t \in Peers \ {p} : Done(state'[t]) = Done(state[t])
<1>1. link \in [Peers -> LinkStates] /\ state \in [Peers -> UserStates \cup {"NoUser"}]
  BY DEF IInv, Fit, Typed
<1>2. state[p] = "NoUser" /\ link' = [link EXCEPT ![p] = "up"]
      /\ state' = [state EXCEPT ![p] = "WaitingForVersion"]
  BY <1>1 DEF NewConnection, SlotsUsed
<1>3. QED BY <1>1, <1>2 DEF SlotsUsed, Done

\* A disconnect event takes the slot back to the start.
LEMMA LostProgress ==
  ASSUME IInv, SlotsUsed, NEW p \in Peers, LostConnection(p)
  PROVE  /\ SlotsUsed'
         /\ \A t \in Peers \ {p} : Done(state'[t]) = Done(state[t])
<1>1. link \in [Peers -> LinkStates] /\ state \in [Peers -> UserStates \cup {"NoUser"}]
  BY DEF IInv, Fit, Typed
<1>2. PICK order : state' = [RemoveUserFromAnyGames(p, order).state EXCEPT ![p] = "NoUser"]
  BY DEF LostConnection
<1> DEFINE st == RemoveUserFromAnyGames(p, order).state
<1>3. \A t \in Peers : Stays(state, st, t)
  BY RemovalStays
<1>4. DOMAIN st = Peers
  BY <1>1 DEF RemoveUserFromAnyGames, LogInAll
<1> HIDE DEF st
<1>5. state' = [st EXCEPT ![p] = "NoUser"]
  BY <1>2 DEF st
<1>6. /\ state'[p] = "NoUser" /\ link'[p] = "free"
      /\ \A t \in Peers \ {p} : Stays(state, state', t) /\ link'[t] = link[t]
  BY <1>1, <1>3, <1>4, <1>5 DEF LostConnection, Stays
<1>7. QED BY <1>6 DEF SlotsUsed, Stays, Done, Past, ActiveStates

\* The message the handshake has next ends a step, or the whole of it with the login or
\* with a disconnect; after the handshake no message leads back to it.
LEMMA ReceiveProgress ==
  ASSUME IInv, SlotsUsed, NEW p \in Peers, NEW m \in ClientMsgs, ReceiveMessage(p, m)
  PROVE  /\ SlotsUsed'
         /\ Done(state[p]) \in 1..4
         /\ Done(state[p]) = 4 => Done(state'[p]) = 4
         /\ Done(state[p]) < 4 /\ Matches(m, Steps[1 + Done(state[p])])
               => Done(state'[p]) \in {1 + Done(state[p]), 4}
         /\ \A t \in Peers \ {p} : Done(state'[t]) = Done(state[t])
<1>1. /\ link \in [Peers -> LinkStates] /\ state \in [Peers -> UserStates \cup {"NoUser"}]
      /\ link[p] # "free" /\ state[p] # "NoUser"
  BY DEF IInv, Fit, Typed, ReceiveMessage
<1>2. UNCHANGED link \/ link' = [link EXCEPT ![p] = "closing"]
  BY DEF ReceiveMessage, BadMessage, Ignored, OnVersion, OnLocalIP, OnLogin, OnCreate, OnJoin,
         OnLeave, OnEject, OnApprove, OnStart, DisconnectUser
<1>3. \A t \in Peers : link'[t] = "free" <=> link[t] = "free"
  BY <1>1, <1>2
<1>4. ASSUME \A t \in Peers \ {p} : Stays(state, state', t), state'[p] # "NoUser"
      PROVE  SlotsUsed' /\ \A t \in Peers \ {p} : Done(state'[t]) = Done(state[t])
  BY <1>1, <1>3, <1>4 DEF SlotsUsed, Stays, Done, Past, ActiveStates
<1>5. Done(state[p]) \in 1..4 /\ (Done(state[p]) = 4 <=> state[p] \in Past)
  BY <1>1, DoneFacts
<1>6. CASE OnCreate(p, m) \/ OnJoin(p, m) \/ OnEject(p, m) \/ OnApprove(p, m) \/ OnStart(p, m)
  <2>1. \A t \in Peers : Stays(state, state', t)
    BY <1>6, GamesStay
  <2>2. state[p] \in Past
    BY <1>6 DEF OnCreate, OnJoin, OnEject, OnApprove, OnStart, Past, ActiveStates
  <2>3. state'[p] \in Past /\ state'[p] # "NoUser"
    BY <2>1, <2>2 DEF Stays, Past, ActiveStates
  <2>4. Done(state'[p]) = 4 /\ Done(state[p]) = 4
    BY <2>2, <2>3 DEF Done, Past, ActiveStates
  <2>5. QED BY <1>4, <1>5, <2>1, <2>3, <2>4
<1>7. CASE OnLeave(p, m)
  <2>1. PICK order : state' = [RemoveUserFromAnyGames(p, order).state EXCEPT ![p] = "LoggedIn"]
    BY <1>7 DEF OnLeave
  <2> DEFINE st == RemoveUserFromAnyGames(p, order).state
  <2>2. \A t \in Peers : Stays(state, st, t)
    BY RemovalStays
  <2>3. DOMAIN st = Peers
    BY <1>1 DEF RemoveUserFromAnyGames, LogInAll
  <2> HIDE DEF st
  <2>4. state' = [st EXCEPT ![p] = "LoggedIn"]
    BY <2>1 DEF st
  <2>5. state'[p] = "LoggedIn" /\ \A t \in Peers \ {p} : Stays(state, state', t)
    BY <2>2, <2>3, <2>4 DEF Stays
  <2>6. state[p] \in Past
    BY <1>1, <1>7 DEF OnLeave, Handled, UserStates, HandshakeStates, Past
  <2>7. Done(state'[p]) = 4 /\ Done(state[p]) = 4
    BY <2>5, <2>6 DEF Done, Past, ActiveStates
  <2>8. QED BY <1>4, <1>5, <2>5, <2>7
<1>8. CASE \/ BadMessage(p, m) \/ Ignored(p, m) \/ OnVersion(p, m)
           \/ OnLocalIP(p, m) \/ OnLogin(p, m)
  <2>1. \/ state' = state
        \/ \E s \in UserStates : state' = [state EXCEPT ![p] = s]
    BY <1>1, <1>8 DEF BadMessage, Ignored, OnVersion, OnLocalIP, OnLogin, DisconnectUser,
                      UserStates, HandshakeStates, ActiveStates
  <2>2. state'[p] # "NoUser" /\ \A t \in Peers \ {p} : Stays(state, state', t)
    BY <1>1, <2>1 DEF Stays, UserStates, HandshakeStates, ActiveStates
  <2>3. CASE state[p] \in Past
    <3>1. state[p] \notin HandshakeStates
      BY <2>3 DEF Past, ActiveStates, HandshakeStates
    <3>2. state'[p] = state[p] \/ state'[p] = "KickedOff"
      BY <1>1, <1>8, <3>1 DEF BadMessage, Ignored, OnVersion, OnLocalIP, OnLogin, DisconnectUser,
                              HandshakeStates
    <3>3. Done(state'[p]) = 4 /\ Done(state[p]) = 4
      BY <2>3, <3>2 DEF Done, Past, ActiveStates
    <3>4. QED BY <1>4, <1>5, <2>2, <3>3
  <2>4. CASE state[p] \in HandshakeStates
    <3>1. ASSUME Matches(m, Steps[1 + Done(state[p])])
          PROVE  Done(state'[p]) \in {1 + Done(state[p]), 4}
      <4>1. CASE state[p] = "WaitingForVersion"
        <5>1. m.type = "Version" /\ m.ok
          BY <3>1, <4>1 DEF Matches, Steps, Done
        <5>2. state'[p] = "WaitingForLocalIP"
          BY <1>1, <1>8, <4>1, <5>1 DEF BadMessage, Ignored, OnVersion, OnLocalIP, OnLogin,
                                        HandshakeStates, Handled
        <5>3. QED BY <4>1, <5>2 DEF Done
      <4>2. CASE state[p] = "WaitingForLocalIP"
        <5>1. m.type = "Info" /\ m.ok
          BY <3>1, <4>2 DEF Matches, Steps, Done
        <5>2. state'[p] = "WaitingForLogin"
          BY <1>1, <1>8, <4>2, <5>1 DEF BadMessage, Ignored, OnVersion, OnLocalIP, OnLogin,
                                        HandshakeStates, Handled
        <5>3. QED BY <4>2, <5>2 DEF Done
      <4>3. CASE state[p] = "WaitingForLogin"
        <5>1. m.type = "Login"
          BY <3>1, <4>3 DEF Matches, Steps, Done
        <5>2. state'[p] \in {"LoggedIn", "KickedOff"}
          BY <1>1, <1>8, <4>3, <5>1 DEF BadMessage, Ignored, OnVersion, OnLocalIP, OnLogin,
                                        HandshakeStates, Handled, DisconnectUser
        <5>3. QED BY <5>2 DEF Done
      <4>4. QED BY <2>4, <4>1, <4>2, <4>3 DEF HandshakeStates
    <3>2. Done(state[p]) # 4
      BY <2>4 DEF Done, HandshakeStates
    <3>3. QED BY <1>4, <1>5, <2>2, <3>1, <3>2
  <2>5. QED BY <1>1, <2>3, <2>4 DEF UserStates, Past
<1>9. QED BY <1>6, <1>7, <1>8 DEF ReceiveMessage
-----------------------------------------------------------------------------
(***************************************************************************)
(* What is still to be served, when a message is added, cut off or served. *)
(***************************************************************************)
LEMMA MsgIsNoEvent == \A m \in ClientMsgs : m # DISCONNECT /\ m # CONNECT
<1>1. DISCONNECT.type = "DISCONNECT" /\ CONNECT.type = "CONNECT"
  BY DEF DISCONNECT, CONNECT
<1>2. \A m \in ClientMsgs : m.type # "DISCONNECT" /\ m.type # "CONNECT"
  BY DEF ClientMsgs
<1>3. QED BY <1>1, <1>2

LEMMA OneMoreFollows ==
  ASSUME NEW q \in Seq(Travelling), NEW n \in 0..4, Follows(q, n), Whole(q, n),
         NEW m \in ClientMsgs
  PROVE  Follows(Append(q, m), n) /\ Whole(Append(q, m), n)
<1> DEFINE r == Append(q, m)
<1>1. Len(q) \in Nat /\ Len(r) = Len(q) + 1
  BY AppendProperties, LenProperties
<1>2. r[Len(q) + 1] = m /\ \A k \in 1..Len(q) : r[k] = q[k]
  BY AppendProperties
<1>3. m # DISCONNECT
  BY MsgIsNoEvent
<1> HIDE DEF r
<1>4. \A k \in 1..Len(r) : r[k] # DISCONNECT
  BY <1>1, <1>2, <1>3 DEF Whole
<1>5. ASSUME NEW k \in 1..Len(r), k + n <= 4 PROVE Matches(r[k], Steps[k + n])
  <2>1. k \in 1..Len(q)
    BY <1>1, <1>5 DEF Whole
  <2>2. QED BY <1>2, <1>5, <2>1 DEF Follows, Whole
<1>6. QED BY <1>1, <1>4, <1>5 DEF Follows, Whole, r

\* A part of q from its start, and a disconnect.
IsCutOff(r, q) ==
    \E kept \in 0..Len(q) :
        /\ Len(r) = kept + 1 /\ r[kept + 1] = DISCONNECT
        /\ \A k \in 1..kept : r[k] = q[k]

LEMMA CutOffFollows ==
  ASSUME NEW q \in Seq(Travelling), NEW n \in 0..4, Follows(q, n), Whole(q, n),
         NEW r, IsCutOff(r, q)
  PROVE  Follows(r, n)
<1> PICK kept \in 0..Len(q) : /\ Len(r) = kept + 1 /\ r[kept + 1] = DISCONNECT
                              /\ \A k \in 1..kept : r[k] = q[k]
  BY DEF IsCutOff
<1>1. Len(q) \in Nat /\ kept \in Nat /\ 1..kept \subseteq 1..Len(q)
  BY LenProperties
<1>2. ASSUME NEW k \in 1..kept PROVE r[k] # DISCONNECT /\ (k + n <= 4 => Matches(r[k], Steps[k + n]))
  BY <1>1, <1>2 DEF Follows, Whole
<1>3. \A k \in 1..Len(r) : k \in 1..kept \/ k = Len(r)
  BY <1>1
<1>4. QED BY <1>1, <1>2, <1>3 DEF Follows

LEMMA ServedFollows ==
  ASSUME NEW q \in Seq(Travelling), q # <<>>, NEW n \in 0..4, Follows(q, n),
         NEW k \in 0..4, k = n + 1 \/ k = 4
  PROVE  Follows(Tail(q), k) /\ (Whole(q, n) => Whole(Tail(q), k))
<1> DEFINE r == Tail(q)
<1>1. Len(q) \in Nat \ {0} /\ Len(r) = Len(q) - 1
  BY HeadTailProperties, EmptySeq, LenProperties
<1>2. \A j \in 1..Len(r) : r[j] = q[j + 1]
  BY <1>1, HeadTailProperties
<1> HIDE DEF r
<1>3. ASSUME NEW j \in 1..Len(r)
      PROVE  /\ r[j] = DISCONNECT => j = Len(r)
             /\ j + k <= 4 /\ r[j] # DISCONNECT => Matches(r[j], Steps[j + k])
             /\ Whole(q, n) => r[j] # DISCONNECT
  <2>1. j + 1 \in 1..Len(q) /\ r[j] = q[j + 1]
    BY <1>1, <1>2
  <2>2. r[j] = DISCONNECT => j + 1 = Len(q)
    BY <2>1 DEF Follows
  <2>3. ASSUME j + k <= 4, r[j] # DISCONNECT PROVE Matches(r[j], Steps[j + k])
    <3>1. k = n + 1 /\ (j + 1) + n = j + k /\ (j + 1) + n <= 4
      BY <1>1, <2>3
    <3>2. Matches(q[j + 1], Steps[(j + 1) + n])
      BY <2>1, <2>3, <3>1 DEF Follows
    <3>3. QED BY <2>1, <3>1, <3>2
  <2>4. QED BY <1>1, <2>1, <2>2, <2>3 DEF Whole
<1>4. Follows(r, k)
  BY <1>3 DEF Follows
<1>5. ASSUME Whole(q, n) PROVE Whole(r, k)
  <2>1. Len(q) + n >= 4 /\ Len(r) >= 0
    BY <1>1, <1>5 DEF Whole
  <2>2. Len(r) + k >= 4
    BY <1>1, <2>1
  <2>3. QED BY <1>3, <1>5, <2>2 DEF Whole
<1>6. QED BY <1>4, <1>5 DEF r

\* A disconnect is the last there is.
LEMMA NothingAfterDisconnect ==
  ASSUME NEW q \in Seq(Travelling), q # <<>>, NEW n, Follows(q, n), Head(q) = DISCONNECT
  PROVE  /\ \A k : Follows(Tail(q), k)
         /\ ~Whole(q, n)
<1>1. Len(q) \in Nat \ {0} /\ Len(Tail(q)) = Len(q) - 1 /\ q[1] = DISCONNECT /\ 1 \in 1..Len(q)
  BY HeadTailProperties, EmptySeq, LenProperties
<1>2. Len(q) = 1
  BY <1>1 DEF Follows
<1>3. QED BY <1>1, <1>2 DEF Follows, Whole

LEMMA HelloFollows ==
  ASSUME NEW c \in Clients
  PROVE  /\ Follows(<<CONNECT>> \o Hello(c), 0)
         /\ Whole(<<CONNECT>> \o Hello(c), 0)
<1> DEFINE v == [type |-> "Version", ok |-> TRUE]
           i == [type |-> "Info", ok |-> TRUE]
           l == [type |-> "Login", who |-> LoginAs[c]]
           h == Hello(c)
           q == <<CONNECT>> \o h
<1>1. h \in Seq(Travelling) /\ Len(h) = 3 /\ h[1] = v /\ h[2] = i /\ h[3] = l
  BY KnownMsgs DEF Hello
<1>2. Matches(CONNECT, "CONNECT") /\ Matches(v, "Version") /\ Matches(i, "Info") /\ Matches(l, "Login")
  BY DEF Matches, CONNECT
<1>3. CONNECT # DISCONNECT /\ v # DISCONNECT /\ i # DISCONNECT /\ l # DISCONNECT
  BY DEF CONNECT, DISCONNECT
<1> HIDE DEF v, i, l, h
<1>4. Len(q) = 4 /\ q[1] = CONNECT /\ q[2] = v /\ q[3] = i /\ q[4] = l
  <2> DEFINE a == <<CONNECT>>
  <2>1. a \in Seq(Travelling) /\ Len(a) = 1 /\ a[1] = CONNECT /\ q = a \o h
    BY DEF Travelling
  <2> HIDE DEF a, q
  <2>2. Len(q) = Len(a) + Len(h)
    BY <1>1, <2>1, ConcatProperties
  <2>3. \A k \in 1..(Len(a) + Len(h)) : q[k] = IF k <= Len(a) THEN a[k] ELSE h[k - Len(a)]
    BY <1>1, <2>1, ConcatProperties
  <2>4. Len(a) = 1 /\ Len(h) = 3
    BY <1>1, <2>1
  <2>5. q[1] = a[1] /\ q[2] = h[1] /\ q[3] = h[2] /\ q[4] = h[3]
    BY <2>3, <2>4
  <2>6. QED BY <1>1, <2>1, <2>2, <2>4, <2>5
<1>5. Steps[1] = "CONNECT" /\ Steps[2] = "Version" /\ Steps[3] = "Info" /\ Steps[4] = "Login"
  BY DEF Steps
<1> HIDE DEF q
<1>6. \A k \in 1..Len(q) : k = 1 \/ k = 2 \/ k = 3 \/ k = 4
  BY <1>4
<1>7. \A k \in 1..Len(q) : q[k] # DISCONNECT /\ Matches(q[k], Steps[k + 0])
  BY <1>2, <1>3, <1>4, <1>5, <1>6
<1>8. Follows(q, 0) /\ Whole(q, 0)
  BY <1>4, <1>7 DEF Follows, Whole
<1>9. QED BY <1>8 DEF q, h
-----------------------------------------------------------------------------
(***************************************************************************)
(* Every step preserves the handshakes.                                    *)
(***************************************************************************)
\* A step of a client changes what travels from one slot at most.
LEMMA ClientKeepsHandshake ==
  ASSUME SysInv, HandshakeInv, UNCHANGED <<link, state>>,
         NEW s \in Peers, NEW q, up' = [up EXCEPT ![s] = q], Follows(q, Done(state[s])),
         \A d \in Clients : conn'[d] = "connected" =>
            \/ slot'[d] = s /\ Whole(q, Done(state[s]))
            \/ conn[d] = "connected" /\ slot'[d] = slot[d] /\ slot[d] # s
  PROVE  HandshakeInv'
<1>1. up'[s] = q /\ \A t \in Peers \ {s} : up'[t] = up[t]
  BY DEF SysInv, WiresTyped
<1>2. SlotsUsed' /\ InOrder'
  BY <1>1 DEF HandshakeInv, SlotsUsed, InOrder
<1>3. \A d \in Clients : conn[d] = "connected" => slot[d] \in Peers
  BY HasSlot DEF SysInv
<1>4. WholeHello'
  BY <1>1, <1>3 DEF HandshakeInv, WholeHello
<1>5. QED BY <1>2, <1>4 DEF HandshakeInv

\* A step of a client that puts nothing on the way and connects nobody.
LEMMA IdleKeepsHandshake ==
  ASSUME HandshakeInv, UNCHANGED <<link, state, up>>,
         \A d \in Clients : conn'[d] = "connected" => conn[d] = "connected" /\ slot'[d] = slot[d]
  PROVE  HandshakeInv'
  BY DEF HandshakeInv, SlotsUsed, InOrder, WholeHello

\* What a connected client has on the way, and nobody else.
LEMMA OwnWire ==
  ASSUME SysInv, HandshakeInv, NEW c \in Clients, conn[c] = "connected"
  PROVE  /\ slot[c] \in Peers /\ up[slot[c]] \in Seq(Travelling)
         /\ Done(state[slot[c]]) \in 0..4
         /\ Follows(up[slot[c]], Done(state[slot[c]]))
         /\ Whole(up[slot[c]], Done(state[slot[c]]))
         /\ \A d \in Clients \ {c} : conn[d] = "connected" => slot[d] # slot[c]
<1>1. slot[c] \in Peers /\ slot[c] # NoSlot
  BY HasSlot, ClientsAssumption DEF SysInv
<1>2. QED
  BY <1>1, DoneFacts DEF SysInv, WiresTyped, HandshakeInv, InOrder, WholeHello, SlotsApart

LEMMA SentKeepsHandshake ==
  ASSUME SysInv, HandshakeInv, NEW c \in Clients, conn[c] = "connected",
         UNCHANGED <<link, state, conn, slot>>,
         NEW m \in ClientMsgs, up' = [up EXCEPT ![slot[c]] = Append(@, m)]
  PROVE  HandshakeInv'
<1> DEFINE s == slot[c]
           q == Append(up[s], m)
<1>1. /\ s \in Peers /\ up' = [up EXCEPT ![s] = q]
      /\ Follows(q, Done(state[s])) /\ Whole(q, Done(state[s]))
  BY OwnWire, OneMoreFollows
<1>2. \A d \in Clients \ {c} : conn[d] = "connected" => slot[d] # s
  BY OwnWire
<1>3. slot'[c] = s
  OBVIOUS
<1> HIDE DEF s, q
<1>4. \A d \in Clients : conn'[d] = "connected" =>
         \/ slot'[d] = s /\ Whole(q, Done(state[s]))
         \/ conn[d] = "connected" /\ slot'[d] = slot[d] /\ slot[d] # s
  BY <1>1, <1>2, <1>3
<1>5. QED BY <1>1, <1>4, ClientKeepsHandshake

\* c is connected no longer; what it leaves behind is cut off by its disconnect.
LEMMA LeftKeepsHandshake ==
  ASSUME SysInv, HandshakeInv, NEW c \in Clients, conn[c] = "connected",
         UNCHANGED <<link, state>>, NEW q, up' = [up EXCEPT ![slot[c]] = q],
         IsCutOff(q, up[slot[c]]),
         conn'[c] # "connected",
         \A d \in Clients \ {c} : conn'[d] = conn[d] /\ slot'[d] = slot[d]
  PROVE  HandshakeInv'
<1>1. slot[c] \in Peers /\ Follows(q, Done(state[slot[c]]))
  BY OwnWire, CutOffFollows
<1>2. \A d \in Clients : conn'[d] = "connected" =>
         conn[d] = "connected" /\ slot'[d] = slot[d] /\ slot[d] # slot[c]
  BY OwnWire
<1>3. QED BY <1>1, <1>2, ClientKeepsHandshake

LEMMA HangUpKeepsHandshake ==
  ASSUME SysInv, HandshakeInv, NEW c \in Clients, conn[c] = "connected",
         HangUp(c), UNCHANGED <<link, state, slot>>
  PROVE  HandshakeInv'
<1>1. PICK kept \in 0..Len(up[slot[c]]) :
         up' = [up EXCEPT ![slot[c]] = Append(SubSeq(@, 1, kept), DISCONNECT)]
  BY DEF HangUp
<1> DEFINE u == up[slot[c]]
           r == SubSeq(u, 1, kept)
           q == Append(r, DISCONNECT)
<1>2. u \in Seq(Travelling) /\ Len(u) \in Nat
  BY OwnWire, LenProperties
<1>3. up' = [up EXCEPT ![slot[c]] = q]
  BY <1>1
<1>4. kept \in Int /\ kept \in Nat /\ kept <= Len(u) /\ \A i \in 1..kept : u[i] \in Travelling
  BY <1>2, ElementOfSeq
<1>5. r \in Seq(Travelling) /\ Len(r) = kept /\ \A k \in 1..kept : r[k] = u[k]
  <2>1. r \in Seq(Travelling) /\ Len(r) = IF kept < 1 THEN 0 ELSE (kept - 1) + 1
    BY <1>4, SubSeqProperties
  <2>2. \A k \in 1..(kept - 1 + 1) : r[k] = u[1 + k - 1]
    BY <1>4, SubSeqProperties
  <2>3. QED BY <1>4, <2>1, <2>2
<1> HIDE DEF r
<1>6. /\ Len(q) = kept + 1 /\ q[kept + 1] = DISCONNECT
      /\ \A k \in 1..kept : q[k] = u[k]
  <2>1. DISCONNECT \in Travelling
    BY DEF Travelling
  <2>2. QED BY <1>5, <2>1, AppendProperties
<1>7. /\ conn'[c] # "connected"
      /\ \A d \in Clients \ {c} : conn'[d] = conn[d] /\ slot'[d] = slot[d]
  BY DEF HangUp, SysInv, ClientsTyped
<1> HIDE DEF q
<1>8. IsCutOff(q, up[slot[c]])
  BY <1>6 DEF IsCutOff
<1>9. QED BY <1>3, <1>7, <1>8, LeftKeepsHandshake
LEMMA UserKeepsHandshake ==
  ASSUME SysInv, HandshakeInv, NEW c \in Clients, Connect(c) \/ Ask(c) \/ Disconnect(c)
  PROVE  HandshakeInv'
<1>1. CASE Connect(c)
  <2>1. /\ UNCHANGED <<link, state, up>>
        /\ \A d \in Clients : conn'[d] = "connected" => conn[d] = "connected" /\ slot'[d] = slot[d]
    BY <1>1 DEF Connect, serverVars, SysInv, ClientsTyped
  <2>2. QED BY <2>1, IdleKeepsHandshake
<1>2. CASE Ask(c)
  <2>1. PICK m \in Asks[c] : up' = [up EXCEPT ![slot[c]] = Append(@, m)]
    BY <1>2 DEF Ask
  <2>2. conn[c] = "connected" /\ m \in ClientMsgs /\ UNCHANGED <<link, state, conn, slot>>
    BY <1>2, ClientsAssumption DEF Ask, serverVars, clientVars
  <2>3. QED BY <2>1, <2>2, SentKeepsHandshake
<1>3. CASE Disconnect(c)
  BY <1>3, HangUpKeepsHandshake DEF Disconnect, serverVars
<1>4. QED BY <1>1, <1>2, <1>3

\* The slot is free and nothing is left on its way: the whole handshake is.
LEMMA ConnectEventKeepsHandshake ==
  ASSUME SysInv, HandshakeInv, NEW c \in Clients, ConnectEvent(c)
  PROVE  HandshakeInv'
<1> DEFINE q == <<CONNECT>> \o Hello(c)
<1>1. PICK s \in FreeSlots : slot' = [slot EXCEPT ![c] = s] /\ up' = [up EXCEPT ![s] = q]
  BY DEF ConnectEvent
<1>2. s \in Peers /\ link[s] = "free" /\ \A d \in Clients : slot[d] # s
  BY DEF FreeSlots, ClientAt
<1>3. Done(state[s]) = 0
  BY <1>2 DEF HandshakeInv, SlotsUsed, Done
<1>4. Follows(q, 0) /\ Whole(q, 0)
  BY HelloFollows
<1> HIDE DEF q
<1>5. UNCHANGED <<link, state>> /\ conn' = [conn EXCEPT ![c] = "connected"]
  BY DEF ConnectEvent, serverVars
<1>6. ASSUME NEW d \in Clients, conn'[d] = "connected"
      PROVE  \/ slot'[d] = s /\ Whole(q, Done(state[s]))
             \/ conn[d] = "connected" /\ slot'[d] = slot[d] /\ slot[d] # s
  <2>1. CASE d = c
    BY <1>1, <1>3, <1>4, <2>1 DEF SysInv, ClientsTyped
  <2>2. CASE d # c
    BY <1>1, <1>2, <1>5, <1>6, <2>2 DEF SysInv, ClientsTyped
  <2>3. QED BY <2>1, <2>2
<1>7. QED BY <1>1, <1>2, <1>3, <1>4, <1>5, <1>6, ClientKeepsHandshake

LEMMA EndKeepsHandshake ==
  ASSUME SysInv, HandshakeInv, NEW c \in Clients, Timeout(c) \/ DisconnectEvent(c)
  PROVE  HandshakeInv'
<1>1. /\ UNCHANGED <<link, state>> /\ conn'[c] # "connected"
      /\ \A d \in Clients \ {c} : conn'[d] = conn[d] /\ slot'[d] = slot[d]
  BY DEF Timeout, DisconnectEvent, Finish, serverVars, SysInv, ClientsTyped
<1>2. CASE UNCHANGED up
  BY <1>1, <1>2, IdleKeepsHandshake
<1>3. CASE conn[c] = "connected" /\ up' = [up EXCEPT ![slot[c]] = Append(@, DISCONNECT)]
  <2> DEFINE u == up[slot[c]]
             q == Append(u, DISCONNECT)
  <2>1. u \in Seq(Travelling) /\ DISCONNECT \in Travelling
    BY <1>3, OwnWire DEF Travelling
  <2>2. /\ Len(u) \in Nat /\ Len(q) = Len(u) + 1 /\ q[Len(u) + 1] = DISCONNECT
        /\ \A k \in 1..Len(u) : q[k] = u[k]
    BY <2>1, AppendProperties, LenProperties
  <2>3. up' = [up EXCEPT ![slot[c]] = q]
    BY <1>3
  <2> HIDE DEF q
  <2>4. Len(u) \in 0..Len(u)
    BY <2>2
  <2>5. IsCutOff(q, up[slot[c]])
    BY <2>2, <2>4 DEF IsCutOff
  <2>6. QED BY <1>1, <1>3, <2>3, <2>5, LeftKeepsHandshake
<1>4. QED BY <1>2, <1>3 DEF Timeout, DisconnectEvent

LEMMA ReceiveKeepsHandshake ==
  ASSUME SysInv, HandshakeInv, NEW c \in Clients, Receive(c)
  PROVE  HandshakeInv'
<1>1. conn[c] = "connected" /\ UNCHANGED <<link, state, slot>>
  BY DEF Receive, serverVars
<1>2. CASE OnApproved(c) /\ UNCHANGED conn
  <2>1. [type |-> "Start"] \in ClientMsgs
    BY DEF ClientMsgs
  <2>2. QED BY <1>1, <1>2, <2>1, SentKeepsHandshake DEF OnApproved
<1>3. CASE OnStarted(c)
  BY <1>1, <1>3, HangUpKeepsHandshake DEF OnStarted
<1>4. QED BY <1>2, <1>3 DEF Receive

\* The server takes the next message of slot s.
LEMMA ServeKeepsHandshake ==
  ASSUME IInv, SysInv, HandshakeInv, NEW s \in Peers, Serve(s)
  PROVE  HandshakeInv'
<1> DEFINE q == up[s]
           m == Head(q)
           n == Done(state[s])
<1>1. /\ q \in Seq(Travelling) /\ q # <<>> /\ n \in 0..4 /\ Follows(q, n)
      /\ m \in Travelling /\ m = q[1] /\ Len(q) \in Nat /\ 1 \in 1..Len(q)
  <2>1. q \in Seq(Travelling) /\ q # <<>>
    BY DEF Serve, SysInv, WiresTyped
  <2>2. m \in Travelling /\ m = q[1] /\ Len(q) \in Nat /\ Len(q) # 0
    BY <2>1, HeadTailProperties, EmptySeq, LenProperties
  <2>3. QED BY <2>1, <2>2, DoneFacts DEF HandshakeInv, InOrder
<1>2. /\ up' = [up EXCEPT ![s] = Tail(q)] /\ UNCHANGED <<conn, slot>>
      /\ \A c \in Clients : conn[c] = "connected" => slot[c] \in Peers
  BY HasSlot DEF Serve, clientVars, SysInv
<1> DEFINE k == Done(state'[s])
<1>3. ASSUME SlotsUsed', \A t \in Peers \ {s} : Done(state'[t]) = Done(state[t]),
             Follows(Tail(q), k), Whole(q, n) => Whole(Tail(q), k)
      PROVE  HandshakeInv'
  <2>1. up'[s] = Tail(q) /\ \A t \in Peers \ {s} : up'[t] = up[t]
    BY <1>2 DEF SysInv, WiresTyped
  <2>2. InOrder'
    BY <1>3, <2>1 DEF HandshakeInv, InOrder
  <2>3. WholeHello'
    BY <1>2, <1>3, <2>1 DEF HandshakeInv, WholeHello
  <2>4. QED BY <1>3, <2>2, <2>3 DEF HandshakeInv
<1>4. k \in 0..4 /\ SlotsUsed
  BY DoneFacts DEF HandshakeInv
<1> HIDE DEF q, n, k
<1>5. CASE m = CONNECT
  <2>1. NewConnection(s)
    BY <1>5 DEF Serve, CONNECT, DISCONNECT, q
  <2>2. SlotsUsed' /\ n = 0 /\ k = 1 /\ \A t \in Peers \ {s} : Done(state'[t]) = Done(state[t])
    BY <1>4, <2>1, NewProgress DEF n, k
  <2>3. QED BY <1>1, <1>3, <1>4, <2>2, ServedFollows
<1>6. CASE m = DISCONNECT
  <2>1. SlotsUsed' /\ \A t \in Peers \ {s} : Done(state'[t]) = Done(state[t])
    <3>1. CASE UNCHANGED serverVars
      BY <1>4, <3>1 DEF serverVars, SlotsUsed
    <3>2. CASE LostConnection(s)
      BY <1>4, <3>2, LostProgress
    <3>3. QED BY <1>6, <3>1, <3>2 DEF Serve, CONNECT, DISCONNECT, q
  <2>2. QED BY <1>1, <1>3, <1>6, <2>1, NothingAfterDisconnect
<1>7. CASE m # CONNECT /\ m # DISCONNECT
  <2>1. m \in ClientMsgs /\ ReceiveMessage(s, m)
    BY <1>1, <1>7 DEF Serve, Travelling, q
  <2>2. /\ SlotsUsed' /\ n \in 1..4 /\ \A t \in Peers \ {s} : Done(state'[t]) = Done(state[t])
        /\ n = 4 => k = 4
        /\ n < 4 /\ Matches(m, Steps[1 + n]) => k \in {1 + n, 4}
    BY <1>4, <2>1, ReceiveProgress DEF n, k
  <2>3. n < 4 => Matches(m, Steps[1 + n])
    BY <1>1, <1>7, <2>2 DEF Follows
  <2>4. k = n + 1 \/ k = 4
    BY <1>1, <2>2, <2>3
  <2>5. QED BY <1>1, <1>3, <1>4, <2>2, <2>4, ServedFollows
<1>8. QED BY <1>5, <1>6, <1>7

LEMMA HandshakeNext == IInv /\ SysInv /\ HandshakeInv /\ [SystemNext]_systemVars => HandshakeInv'
<1> SUFFICES ASSUME IInv, SysInv, HandshakeInv, [SystemNext]_systemVars PROVE HandshakeInv'
  OBVIOUS
<1>1. CASE UNCHANGED systemVars
  BY <1>1, IdleKeepsHandshake DEF systemVars, serverVars, clientVars
<1>2. CASE SystemNext
  BY <1>2, UserKeepsHandshake, ConnectEventKeepsHandshake, EndKeepsHandshake,
     ReceiveKeepsHandshake, ServeKeepsHandshake DEF SystemNext
<1>3. QED BY <1>1, <1>2

LEMMA HandshakeInit == SystemInit => HandshakeInv
<1> SUFFICES ASSUME SystemInit PROVE HandshakeInv
  OBVIOUS
<1>1. \A s \in Peers : up[s] = <<>> /\ Len(up[s]) = 0
  BY DEF SystemInit
<1>2. SlotsUsed
  BY DEF SystemInit, Init, SlotsUsed
<1>3. InOrder
  BY <1>1 DEF InOrder, Follows
<1>4. WholeHello
  BY DEF SystemInit, WholeHello
<1>5. QED BY <1>2, <1>3, <1>4 DEF HandshakeInv
-----------------------------------------------------------------------------
(***************************************************************************)
(* The theorems.                                                           *)
(***************************************************************************)
\* What travels to the server are events and messages it knows, and each connected client
\* has a slot of its own.
THEOREM WellConnected == SystemSpec => []SysInv
<1>1. QED BY SystemInitTyped, SystemNextTyped, PTL DEF SystemSpec

\* The members of every ServerConnection keep their types; m_server is set while there is
\* a connection and no longer, and no two clients share a slot of the server.
THEOREM SystemTypeCorrect == SystemSpec => []SystemTypeOK
<1>1. SysInv => SystemTypeOK
  <2> SUFFICES ASSUME SysInv PROVE SystemTypeOK
    OBVIOUS
  <2>1. ASSUME NEW s \in Peers PROVE Cardinality(ClientAt(s)) <= 1
    <3>1. CASE ClientAt(s) = {}
      BY <3>1, FS_EmptySet
    <3>2. CASE \E c \in Clients : ClientAt(s) = {c}
      <4>1. PICK c \in Clients : ClientAt(s) = {c}
        BY <3>2
      <4>2. Cardinality({c}) = 1
        BY FS_Singleton
      <4>3. QED BY <4>1, <4>2
    <3>3. \A c, d \in ClientAt(s) : c = d
      BY ClientsAssumption DEF ClientAt, SysInv, SlotsApart
    <3>4. QED
      <4>1. ASSUME NEW c \in ClientAt(s) PROVE ClientAt(s) = {c} /\ c \in Clients
        BY <3>3 DEF ClientAt
      <4>2. QED BY <3>1, <3>2, <4>1
  <2>2. QED BY <2>1 DEF SysInv, ClientsTyped, SystemTypeOK
<1>2. QED BY <1>1, WellConnected, PTL

\* The server behind its clients behaves as MatchServer says, whatever they ask for.
THEOREM SystemImplementsServer == SystemSpec => Spec
<1>1. SystemInit => Init
  BY DEF SystemInit
<1>2. QED BY <1>1, WellConnected, SystemStepIsServerStep, PTL DEF SystemSpec, Spec

\* So with the clients attached no game keeps an erased user, each user has one role, and
\* a name belongs to one user.
THEOREM SystemKeepsServer == SystemSpec => [](NoDanglingUser /\ OneRole /\ NamesUnique)
<1>1. QED
  BY SystemImplementsServer, NoDanglingUserHolds, OneRoleHolds, NamesUniqueHolds, PTL

\* Served or on their way, the messages of a handshake come in order and whole, whatever
\* became of the slot before.
THEOREM HandshakeHolds == SystemSpec => []HandshakeInv
<1>1. SystemInit => Init
  BY DEF SystemInit
<1>2. QED
  BY HandshakeInit, HandshakeNext, WellConnected, SystemImplementsServer, Fitting,
     PTL DEF SystemSpec

\* Connections.cpp:84: the message that gets a user kicked does not come from a client that
\* works properly, in the handshake at least.
THEOREM NeverBogusHolds == SystemSpec => []NeverBogus
<1>1. IInv /\ SysInv /\ HandshakeInv => NeverBogus
  <2> SUFFICES ASSUME IInv, SysInv, HandshakeInv, NEW s \in Peers,
                      up[s] # <<>>, state[s] \in HandshakeStates, Head(up[s]) # DISCONNECT
               PROVE  Head(up[s]).type \in Handled(state[s])
    BY DEF NeverBogus
  <2> DEFINE q == up[s]
             n == Done(state[s])
  <2>1. q \in Seq(Travelling) /\ q # <<>>
    BY DEF SysInv, WiresTyped
  <2>2. Head(q) = q[1] /\ 1 \in 1..Len(q)
    BY <2>1, HeadTailProperties, EmptySeq, LenProperties
  <2>3. Follows(q, n)
    BY DEF HandshakeInv, InOrder
  <2>4. n \in 1..3
    BY DoneFacts DEF UserStates
  <2>5. Matches(Head(q), Steps[1 + n])
    BY <2>2, <2>3, <2>4 DEF Follows
  <2>6. QED BY <2>5 DEF HandshakeStates, Done, Steps, Matches, Handled
<1>2. QED BY <1>1, HandshakeHolds, WellConnected, SystemImplementsServer, Fitting, PTL
=============================================================================
