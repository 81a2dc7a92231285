--------------------------- MODULE P2PConnection ---------------------------
(***************************************************************************)
(* Two P2PConnection objects facing each other: the lobby two players meet *)
(* in after the server has sent both of them START.                        *)
(*                                                                         *)
(* Each constructor connects to every address the server gave for the      *)
(* other, and accepts what the other connects to: between the two there    *)
(* are several links, one per initiator and path.  Player 1 picks one as   *)
(* the primary link, the others are reset.  Over the primary link the two  *)
(* agree to start or to cancel; the game begins when it is closed.         *)
(*                                                                         *)
(* ENet is modelled from how it is used: a link connects at its initiator  *)
(* first, delivers reliably and in order to an end that listens, loses     *)
(* what is queued when it is reset or torn down, and ends with a           *)
(* disconnect event at each end that did not reset it.                     *)
(*                                                                         *)
(* Left out: user messages (they change nothing here), the average of the  *)
(* pings, logging.                                                         *)
(***************************************************************************)
EXTENDS Naturals, FiniteSets, SequencesExt

CONSTANTS
    Paths,        \* the ways to reach the other: a LAN address, the external address
    NoPath,       \* m_PrimaryConnection before it is set
    Commands,     \* what the users may ask for
    MaxInFlight,  \* bound: a user asks for something only while fewer messages travel
    Patient,      \* whether users wait for the Connected callback before they ask for anything
    Lossy,        \* whether a link that is up may break by itself
    Pings         \* the pongs there may be: "prompt", "late"; empty when no ping is ever due

Players == {1, 2}
Other(p) == 3 - p

\* The connection attempts: each constructor makes one per address it was given.
Links == [from : Players, path : Paths]

ASSUME PathsAssumption == IsFiniteSet(Paths) /\ NoPath \notin Paths
ASSUME CommandsAssumption == Commands \subseteq {"ready", "unready", "start", "cancel", "leave"}
ASSUME BoundsAssumption == MaxInFlight \in Nat /\ Lossy \in BOOLEAN /\ Patient \in BOOLEAN
ASSUME PingsAssumption == Pings \subseteq {"prompt", "late"}

VARIABLES
    side,     \* side[p]: the flags of p's object
    cands,    \* cands[p]: peerCandidateAddresses
    out,      \* out[p]: outGoingPeerCandidates
    peers,    \* peers[p]: peerConnections, the primary one first
    end,      \* end[l][p]: the state of p's ENetPeer for link l
    wire,     \* wire[l][p]: what travels to p on link l
    looping,  \* looping[p]: p is in Update's loop over events, past what Update does first
    outcome   \* outcome[p]: the last callback p's object made; "lobby" while it lives

vars == <<side, cands, out, peers, end, wire, looping, outcome>>

Side == [meReady : BOOLEAN, otherReady : BOOLEAN, tryStart : BOOLEAN, start : BOOLEAN,
         tryCancel : BOOLEAN, cancel : BOOLEAN, primary : BOOLEAN, pingSent : BOOLEAN,
         primaryPath : Paths \cup {NoPath}]

\* "accepting": the initiator has connected, this end has not been told yet.
\* "later" and "closing" follow enet_peer_disconnect_later: the queue drains, then the
\* disconnect is on its way.  "dead": reset, or its disconnect event has been served.
EndStates == {"none", "connecting", "accepting", "up", "later", "closing", "dead"}
Listening == {"up", "later"}

Outcomes == {"lobby", "StartGame", "CancelGame", "Disconncted", "Timeout", "left"}
PingMsgs == {"Ping", "Pong"}
Msgs == {"PRIMARY", "Ready1", "Ready0", "Start", "Cancel", "DISCONNECT"} \cup PingMsgs
-----------------------------------------------------------------------------
(***************************************************************************)
(* enet_peer_send, and the members Update is written with.                 *)
(***************************************************************************)
\* Refused unless this end is up; lost unless the other end listens or is about to.
Send(w, p, l, m) ==
    IF end[l][p] = "up" /\ end[l][Other(p)] \in Listening \cup {"accepting"}
    THEN [w EXCEPT ![l][Other(p)] = Append(@, m)]
    ELSE w

InFlight ==
    FoldFunction(LAMBDA w, n : Len(SelectSeq(w[1] \o w[2], LAMBDA m : m \notin PingMsgs)) + n,
                 0, wire)

\* Mutant: losing ready takes back m_Start but not m_TryStart.
OnReadyChange_KeepsTry(s) ==
    IF s.meReady /\ s.otherReady THEN s ELSE [s EXCEPT !.start = FALSE]

\* Losing ready on either side takes back a start that has begun.
OnReadyChange(s) ==
    IF s.meReady /\ s.otherReady THEN s ELSE [s EXCEPT !.start = FALSE, !.tryStart = FALSE]

Alone(ps, o) == Len(ps) + Cardinality(o) = 0

\* Mutant: ReadyToStart does not look at m_Cancel.
Ending_StartFirst(s) ==
    CASE s.start               -> "StartGame"
      [] ~s.start /\ s.cancel -> "CancelGame"
      [] OTHER                -> IF s.primary THEN "Disconncted" ELSE "Timeout"

\* ReadyToStart, ReadyToCancel and the rest of the disconnect event.
Ending(s) ==
    CASE s.start /\ ~s.cancel -> "StartGame"
      [] ~s.start /\ s.cancel -> "CancelGame"
      [] OTHER                -> IF s.primary THEN "Disconncted" ELSE "Timeout"
-----------------------------------------------------------------------------
(***************************************************************************)
(* What the users ask for.                                                 *)
(***************************************************************************)
May(c, p) ==
    /\ c \in Commands
    /\ outcome[p] = "lobby"
    /\ InFlight < MaxInFlight
    /\ Patient => side[p].primary

\* Mutant: the newest link is used instead of peerConnections[0].
SendReady_Newest(p, b) ==
    /\ May(IF b THEN "ready" ELSE "unready", p)
    /\ ~side[p].start /\ ~side[p].tryStart
    /\ LET s == [side[p] EXCEPT !.meReady = b]
       IN  IF peers[p] # <<>>
           THEN /\ side' = [side EXCEPT ![p] = OnReadyChange(s)]
                /\ wire' = Send(wire, p, Last(peers[p]), IF b THEN "Ready1" ELSE "Ready0")
           ELSE side' = [side EXCEPT ![p] = s] /\ UNCHANGED wire
    /\ looping' = [looping EXCEPT ![p] = FALSE]
    /\ UNCHANGED <<cands, out, peers, end, outcome>>

\* ToggleReady is SendReady of the opposite.  Without a link nothing is sent, then or later.
SendReady(p, b) ==
    /\ May(IF b THEN "ready" ELSE "unready", p)
    /\ ~side[p].start /\ ~side[p].tryStart
    /\ LET s == [side[p] EXCEPT !.meReady = b]
       IN  IF peers[p] # <<>>
           THEN /\ side' = [side EXCEPT ![p] = OnReadyChange(s)]
                /\ wire' = Send(wire, p, peers[p][1], IF b THEN "Ready1" ELSE "Ready0")
           ELSE side' = [side EXCEPT ![p] = s] /\ UNCHANGED wire
    /\ looping' = [looping EXCEPT ![p] = FALSE]
    /\ UNCHANGED <<cands, out, peers, end, outcome>>

\* Mutant: player 1 commits when it asks, before player 2 has confirmed.
TryStart_Commits(p) ==
    /\ May("start", p)
    /\ p = 1
    /\ side[p].meReady /\ side[p].otherReady
    /\ ~side[p].start /\ ~side[p].tryStart
    /\ peers[p] # <<>> /\ side[p].primary
    /\ side' = [side EXCEPT ![p].tryStart = TRUE, ![p].start = TRUE]
    /\ wire' = Send(wire, p, peers[p][1], "Start")
    /\ looping' = [looping EXCEPT ![p] = FALSE]
    /\ UNCHANGED <<cands, out, peers, end, outcome>>

TryStart(p) ==
    /\ May("start", p)
    /\ p = 1
    /\ side[p].meReady /\ side[p].otherReady
    /\ ~side[p].start /\ ~side[p].tryStart
    /\ peers[p] # <<>> /\ side[p].primary
    /\ side' = [side EXCEPT ![p].tryStart = TRUE]
    /\ wire' = Send(wire, p, peers[p][1], "Start")
    /\ looping' = [looping EXCEPT ![p] = FALSE]
    /\ UNCHANGED <<cands, out, peers, end, outcome>>

TryCancel(p) ==
    /\ May("cancel", p)
    /\ ~side[p].cancel /\ ~side[p].tryCancel
    /\ peers[p] # <<>> /\ side[p].primary
    /\ side' = [side EXCEPT ![p].tryCancel = TRUE]
    /\ wire' = Send(wire, p, peers[p][1], "Cancel")
    /\ looping' = [looping EXCEPT ![p] = FALSE]
    /\ UNCHANGED <<cands, out, peers, end, outcome>>

\* enet_peer_disconnect drops what is queued but for the n messages that have arrived.
HangUp(p, l, n) ==
    IF /\ l \in ToSet(peers[p]) /\ end[l][p] \in Listening
       /\ end[l][Other(p)] \in Listening \cup {"accepting"}
    THEN [wire[l] EXCEPT ![p] = <<>>, ![Other(p)] = Append(SubSeq(@, 1, n), "DISCONNECT")]
    ELSE [wire[l] EXCEPT ![p] = <<>>]

Longest == Max({Len(wire[l][q]) : l \in Links, q \in Players})

\* The destructor: the host goes away with every link of it.
Leave(p) ==
    /\ May("leave", p)
    /\ outcome' = [outcome EXCEPT ![p] = "left"]
    /\ end' = [l \in Links |-> [end[l] EXCEPT ![p] = "dead"]]
    /\ \E kept \in [Links -> 0..Longest] :
          /\ \A l \in Links : kept[l] <= Len(wire[l][Other(p)])
          /\ wire' = [l \in Links |-> HangUp(p, l, kept[l])]
    /\ looping' = [looping EXCEPT ![p] = FALSE]
    /\ UNCHANGED <<side, cands, out, peers>>
-----------------------------------------------------------------------------
(***************************************************************************)
(* Update: what it does first, and one event of its loop.                  *)
(***************************************************************************)
\* What the first link of the list makes redundant: every other one and every attempt.  With
\* no link left the code forms a reference to peerConnections[0] that nothing reads.
Redundant(p) ==
    IF side[p].primary /\ Len(peers[p]) + Cardinality(out[p]) > 1
    THEN out[p] \cup {l \in ToSet(peers[p]) : l # peers[p][1]}
    ELSE {}

\* Mutant: the lists are cut without resetting the peers they held.
Reset_Nothing(f, p, v) == f

\* enet_peer_reset tells the other end nothing.
Reset(f, p, v) ==
    [l \in Links |-> IF l \in Redundant(p) THEN [f[l] EXCEPT ![p] = v] ELSE f[l]]

CleanRedundantConnections(p) ==
    /\ end' = Reset(end, p, "dead")
    /\ peers' = [peers EXCEPT ![p] = IF Redundant(p) = {} \/ @ = <<>> THEN @ ELSE <<@[1]>>]
    /\ out' = [out EXCEPT ![p] = @ \ Redundant(p)]

CanSend(p, ps) ==
    /\ side[p].primary /\ Len(ps) = 1
    /\ ~(side[p].meReady \/ side[p].start \/ side[p].tryStart
                         \/ side[p].cancel \/ side[p].tryCancel)

\* PingHandler::Update: one ping at a time, when its time has come.
Ping(p, w) ==
    \/ /\ Pings # {} /\ CanSend(p, peers'[p]) /\ ~side[p].pingSent
       /\ side' = [side EXCEPT ![p].pingSent = TRUE]
       /\ wire' = Send(w, p, peers'[p][1], "Ping")
    \/ UNCHANGED side /\ wire' = w

\* A call of Update begins: the loop of the call before it found no event.
Update(p) ==
    /\ outcome[p] = "lobby"
    /\ CleanRedundantConnections(p)
    /\ Ping(p, Reset(wire, p, <<>>))
    /\ looping' = [looping EXCEPT ![p] = TRUE]
    /\ UNCHANGED <<cands, outcome>>

\* A link over a path that is a candidate is kept, and its path is from then on the only
\* candidate.  One over another path is binned, but stays in out.
OnConnect(p, l) ==
    /\ outcome[p] = "lobby" /\ looping[p]
    /\ \/ l.from = p /\ end[l][p] = "connecting" /\ outcome[Other(p)] = "lobby"
       \/ l.from # p /\ end[l][p] = "accepting"
    /\ IF l.path \in cands[p]
       THEN /\ cands' = [cands EXCEPT ![p] = {l.path}]
            /\ peers' = [peers EXCEPT ![p] = Append(@, l)]
            /\ out' = [out EXCEPT ![p] = @ \ {l}]
            /\ end' = [end EXCEPT ![l] = IF l.from = p
                                         THEN [@ EXCEPT ![p] = "up", ![Other(p)] = "accepting"]
                                         ELSE [@ EXCEPT ![p] = "up"]]
            /\ IF peers[p] = <<>> /\ p = 1
               THEN /\ side' = [side EXCEPT ![p].primary = TRUE, ![p].primaryPath = l.path]
                    /\ wire' = IF end[l][2] \in {"closing", "dead"} THEN wire
                               ELSE [wire EXCEPT ![l][2] = Append(@, "PRIMARY")]
               ELSE UNCHANGED <<side, wire>>
       ELSE /\ end' = [end EXCEPT ![l][p] = "dead"]
            /\ wire' = [wire EXCEPT ![l][p] = <<>>]
            /\ UNCHANGED <<side, cands, out, peers>>
    /\ UNCHANGED outcome

\* The messages that reach their end of a link, in order.
Received(p, l, m) ==
    /\ outcome[p] = "lobby" /\ looping[p]
    /\ end[l][p] \in Listening
    /\ wire[l][p] # <<>> /\ Head(wire[l][p]) = m

Consumed(p, l) == [wire EXCEPT ![l][p] = Tail(@)]

DisconnectLater(p) ==
    [l \in Links |-> IF l \in ToSet(peers[p]) /\ end[l][p] = "up"
                     THEN [end[l] EXCEPT ![p] = "later"] ELSE end[l]]

\* Mutant: player 2 keeps its own first link.
OnPrimary_NoSwap(p, l) ==
    /\ Received(p, l, "PRIMARY")
    /\ side' = [side EXCEPT ![p].primary = TRUE, ![p].primaryPath = peers[p][1].path]
    /\ wire' = Consumed(p, l)
    /\ UNCHANGED <<cands, out, peers, end, outcome>>

\* Mutant: the link is put first but not exchanged with what stood there.
OnPrimary_Overwrites(p, l) ==
    /\ Received(p, l, "PRIMARY")
    /\ peers' = [peers EXCEPT ![p][1] = l]
    /\ side' = [side EXCEPT ![p].primary = TRUE, ![p].primaryPath = l.path]
    /\ wire' = Consumed(p, l)
    /\ UNCHANGED <<cands, out, end, outcome>>

\* Mutant: m_PrimaryConnection is not set.
OnPrimary_NoAddress(p, l) ==
    /\ Received(p, l, "PRIMARY")
    /\ LET at(ps) == SelectInSeq(ps, LAMBDA k : k = l)
       IN  peers' = [peers EXCEPT ![p] = IF at(@) = 0 THEN @
                                         ELSE [@ EXCEPT ![1] = l, ![at(@)] = peers[p][1]]]
    /\ side' = [side EXCEPT ![p].primary = TRUE]
    /\ wire' = Consumed(p, l)
    /\ UNCHANGED <<cands, out, end, outcome>>

OnPrimary(p, l) ==
    /\ Received(p, l, "PRIMARY")
    /\ LET at == SelectInSeq(peers[p], LAMBDA k : k = l)
           ps == IF at = 0 THEN peers[p]
                 ELSE [peers[p] EXCEPT ![1] = l, ![at] = peers[p][1]]
       IN  /\ peers' = [peers EXCEPT ![p] = ps]
           /\ side' = [side EXCEPT ![p].primary = TRUE, ![p].primaryPath = ps[1].path]
    /\ wire' = Consumed(p, l)
    /\ UNCHANGED <<cands, out, end, outcome>>

OnReady(p, l) ==
    /\ \E b \in BOOLEAN :
         /\ Received(p, l, IF b THEN "Ready1" ELSE "Ready0")
         /\ side' = [side EXCEPT ![p] = OnReadyChange([@ EXCEPT !.otherReady = b])]
    /\ wire' = Consumed(p, l)
    /\ UNCHANGED <<cands, out, peers, end, outcome>>

\* Mutant: the confirmation arrives and nobody disconnects.
OnStart_NoDisconnect(p, l) ==
    /\ Received(p, l, "Start")
    /\ IF side[p].tryStart
       THEN /\ side' = [side EXCEPT ![p].start = TRUE]
            /\ wire' = Consumed(p, l)
       ELSE IF side[p].meReady /\ side[p].otherReady
       THEN /\ side' = [side EXCEPT ![p].start = TRUE]
            /\ wire' = Send(Consumed(p, l), p, peers[p][1], "Start")
       ELSE wire' = Consumed(p, l) /\ UNCHANGED side
    /\ UNCHANGED <<cands, out, peers, end, outcome>>

\* Mutant: player 2 confirms without committing itself.
OnStart_ConfirmsOnly(p, l) ==
    /\ Received(p, l, "Start")
    /\ IF side[p].tryStart
       THEN /\ side' = [side EXCEPT ![p].start = TRUE]
            /\ end' = DisconnectLater(p)
            /\ wire' = Consumed(p, l)
       ELSE /\ wire' = IF side[p].meReady /\ side[p].otherReady
                       THEN Send(Consumed(p, l), p, peers[p][1], "Start") ELSE Consumed(p, l)
            /\ UNCHANGED <<side, end>>
    /\ UNCHANGED <<cands, out, peers, outcome>>

\* Whoever waits for the confirmation disconnects; whoever does not, confirms.
OnStart(p, l) ==
    /\ Received(p, l, "Start")
    /\ IF side[p].tryStart
       THEN /\ side' = [side EXCEPT ![p].start = TRUE]
            /\ end' = DisconnectLater(p)
            /\ wire' = Consumed(p, l)
       ELSE IF side[p].meReady /\ side[p].otherReady
       THEN /\ side' = [side EXCEPT ![p].start = TRUE]
            /\ wire' = Send(Consumed(p, l), p, peers[p][1], "Start")
            /\ UNCHANGED end
       ELSE wire' = Consumed(p, l) /\ UNCHANGED <<side, end>>
    /\ UNCHANGED <<cands, out, peers, outcome>>

\* Mutant: a cancel is taken over without being confirmed.
OnCancel_NoReply(p, l) ==
    /\ Received(p, l, "Cancel")
    /\ side' = [side EXCEPT ![p].cancel = TRUE]
    /\ end' = IF side[p].tryCancel THEN DisconnectLater(p) ELSE end
    /\ wire' = Consumed(p, l)
    /\ UNCHANGED <<cands, out, peers, outcome>>

OnCancel(p, l) ==
    /\ Received(p, l, "Cancel")
    /\ side' = [side EXCEPT ![p].cancel = TRUE]
    /\ IF side[p].tryCancel
       THEN end' = DisconnectLater(p) /\ wire' = Consumed(p, l)
       ELSE wire' = Send(Consumed(p, l), p, peers[p][1], "Cancel") /\ UNCHANGED end
    /\ UNCHANGED <<cands, out, peers, outcome>>

OnPing(p, l) ==
    /\ Received(p, l, "Ping")
    /\ wire' = Send(Consumed(p, l), p, l, "Pong")
    /\ UNCHANGED <<side, cands, out, peers, end, outcome>>

\* A pong is dropped while nothing may be sent, and so is one of more than two seconds: then
\* m_bPingSent stays set.
OnPong(p, l) ==
    /\ Received(p, l, "Pong")
    /\ \E pong \in Pings :
         side' = [side EXCEPT ![p].pingSent = @ /\ ~(CanSend(p, peers[p]) /\ pong = "prompt")]
    /\ wire' = Consumed(p, l)
    /\ UNCHANGED <<cands, out, peers, end, outcome>>

\* What p sent has been acknowledged: its disconnect follows, and p hears no more.
Flush(p, l) ==
    /\ end[l][p] = "later"
    /\ end' = [end EXCEPT ![l][p] = "closing"]
    /\ wire' = [wire EXCEPT ![l][p] = <<>>,
                            ![l][Other(p)] = IF end[l][Other(p)] \in Listening \cup {"accepting"}
                                             THEN Append(@, "DISCONNECT") ELSE @]
    /\ UNCHANGED <<side, cands, out, peers, looping, outcome>>

\* When the disconnect event of link l comes: the attempt fails, the other end closed, this
\* end's own disconnect completed, or the other end fell silent.
Disconnects(p, l) ==
    \/ end[l][p] = "connecting"
    \/ Received(p, l, "DISCONNECT")
    \/ end[l][p] = "closing"
    \/ /\ end[l][p] \in Listening
       /\ Lossy \/ end[l][Other(p)] = "dead"
       /\ wire[l][p] # <<>> => Last(wire[l][p]) # "DISCONNECT"

\* Mutant: an attempt that fails stays in outGoingPeerCandidates.
OnDisconnect_KeepsAttempt(p, l) ==
    /\ outcome[p] = "lobby" /\ looping[p]
    /\ Disconnects(p, l)
    /\ peers' = [peers EXCEPT ![p] = RemoveFirst(@, l)]
    /\ IF Alone(peers'[p], out[p])
       THEN /\ outcome' = [outcome EXCEPT ![p] = Ending(side[p])]
            /\ end' = [k \in Links |-> [end[k] EXCEPT ![p] = "dead"]]
            /\ wire' = [k \in Links |-> [wire[k] EXCEPT ![p] = <<>>]]
       ELSE /\ end' = [end EXCEPT ![l][p] = "dead"]
            /\ wire' = [wire EXCEPT ![l][p] = <<>>]
            /\ UNCHANGED outcome
    /\ UNCHANGED <<side, cands, out>>

OnDisconnect(p, l) ==
    /\ outcome[p] = "lobby" /\ looping[p]
    /\ Disconnects(p, l)
    /\ peers' = [peers EXCEPT ![p] = RemoveFirst(@, l)]
    /\ out' = IF l \in ToSet(peers[p]) THEN out ELSE [out EXCEPT ![p] = @ \ {l}]
    /\ IF Alone(peers'[p], out'[p])
       THEN /\ outcome' = [outcome EXCEPT ![p] = Ending(side[p])]
            /\ end' = [k \in Links |-> [end[k] EXCEPT ![p] = "dead"]]
            /\ wire' = [k \in Links |-> [wire[k] EXCEPT ![p] = <<>>]]
       ELSE /\ end' = [end EXCEPT ![l][p] = "dead"]
            /\ wire' = [wire EXCEPT ![l][p] = <<>>]
            /\ UNCHANGED outcome
    /\ UNCHANGED <<side, cands>>
-----------------------------------------------------------------------------
Init ==
    /\ side = [p \in Players |->
                [meReady |-> FALSE, otherReady |-> FALSE, tryStart |-> FALSE, start |-> FALSE,
                 tryCancel |-> FALSE, cancel |-> FALSE, primary |-> FALSE, pingSent |-> FALSE,
                 primaryPath |-> NoPath]]
    /\ cands = [p \in Players |-> Paths]
    /\ out = [p \in Players |-> {l \in Links : l.from = p}]
    /\ peers = [p \in Players |-> <<>>]
    /\ end = [l \in Links |-> [p \in Players |-> IF l.from = p THEN "connecting" ELSE "none"]]
    /\ wire = [l \in Links |-> [p \in Players |-> <<>>]]
    /\ looping = [p \in Players |-> FALSE]
    /\ outcome = [p \in Players |-> "lobby"]

UserCommand(p) ==
    \/ \E b \in BOOLEAN : SendReady(p, b)
    \/ TryStart(p)
    \/ TryCancel(p)
    \/ Leave(p)

Event(p, l) ==
    /\ \/ OnConnect(p, l)
       \/ OnPrimary(p, l)
       \/ OnReady(p, l)
       \/ OnStart(p, l)
       \/ OnCancel(p, l)
       \/ OnPing(p, l)
       \/ OnPong(p, l)
       \/ OnDisconnect(p, l)
    /\ UNCHANGED looping

Next ==
    \E p \in Players :
        \/ UserCommand(p)
        \/ Update(p)
        \/ \E l \in Links : Event(p, l) \/ Flush(p, l)

Spec == Init /\ [][Next]_vars

\* ENet reports what happens to a link and main loops call Update for ever; a link that
\* only the other end knows to be connected may stay that way.
Served(p, l) == end[l][p] # "accepting" /\ Event(p, l)

FairSpec ==
    /\ Spec
    /\ \A p \in Players : WF_vars(Update(p))
    /\ \A p \in Players, l \in Links : SF_vars(Served(p, l)) /\ WF_vars(Flush(p, l))
-----------------------------------------------------------------------------
(***************************************************************************)
(* Properties.                                                             *)
(***************************************************************************)
\* The members of both objects keep their types, and no link is listed twice.
TypeOK ==
    /\ side \in [Players -> Side]
    /\ cands \in [Players -> SUBSET Paths]
    /\ out \in [Players -> SUBSET Links]
    /\ peers \in [Players -> Seq(Links)]
    /\ \A p \in Players : IsInjective(peers[p])
    /\ end \in [Links -> [Players -> EndStates]]
    /\ wire \in [Links -> [Players -> Seq(Msgs)]]
    /\ looping \in [Players -> BOOLEAN]
    /\ outcome \in [Players -> Outcomes]

\* "Player 1's primary connection is not even present for us.. this should never happen":
\* what listens is listed, so PRIMARY finds its link, and peerConnections[0], which every
\* reply and PRIMARY itself dereference, exists.
ListenersListed ==
    \A p \in Players, l \in Links :
        outcome[p] = "lobby" =>
            (end[l][p] \in {"up", "later", "closing"} <=> l \in ToSet(peers[p]))

\* Nobody starts half: whoever has asked for or confirmed the start still takes both
\* players for ready, whichever of the four handlers changed a flag last.
CommittedIsReady ==
    \A p \in Players :
        side[p].tryStart \/ side[p].start => side[p].meReady /\ side[p].otherReady

\* Both objects live, both were told they are connected, and no end has been agreed on.
InLobby ==
    \A p \in Players :
        /\ outcome[p] = "lobby" /\ side[p].primary /\ peers[p] # <<>>
        /\ ~side[p].start /\ ~side[p].cancel

Connected(l) == end[l] = [p \in Players |-> "up"]

\* Both sides reset what is redundant on their own: they must have chosen the same link,
\* although each saw the links connect in an order of its own.
AgreeOnPrimary == InLobby /\ Connected(peers[1][1]) => peers[2][1] = peers[1][1]

\* Two games that start were given each other's address: m_PrimaryConnection is set on
\* both sides and belongs to one path.
SamePath ==
    (\A p \in Players : outcome[p] = "StartGame")
        => /\ side[1].primaryPath = side[2].primaryPath
           /\ \A p \in Players : side[p].primary

\* A ready status sent once connected is not lost with a redundant link: when nothing is
\* on its way each side shows the other what the other is.
ReadyKnown ==
    InLobby /\ Connected(peers[1][1]) /\ (\A l \in Links : wire[l] = [p \in Players |-> <<>>])
        => \A p \in Players : side[p].otherReady = side[Other(p)].meReady

\* Nobody starts a game that the other one is sent away from: not to the server by
\* CancelGame, and not by Disconncted or Timeout either.  Player 2 is committed as soon as it
\* confirms, player 1 when it hears of that, and each learns from a disconnect of its own
\* that the other one went.  It holds while no one cancels or takes ready back: TryCancel does
\* not look at m_TryStart, so player 1 may cancel the start it has asked for, start on the
\* confirmation, and leave player 2 with both flags set, for which there is only Disconncted.
NeverMixed ==
    \A p \in Players :
        outcome[p] = "StartGame" => outcome[Other(p)] \notin {"CancelGame", "Disconncted", "Timeout"}

\* What is left of it when users cancel as well: a start and a cancel that cross may send one
\* player to the game and the other one to Disconncted, but never to CancelGame.
NeverContrary ==
    \A p \in Players : ~(outcome[p] = "StartGame" /\ outcome[Other(p)] = "CancelGame")

\* Player 1, who gets the confirmation, never starts a game player 2 has not committed to.
OneStartsWithTwo == outcome[1] = "StartGame" => side[2].start

AllEnded == \A p \in Players : outcome[p] # "lobby"

\* With some of several addresses given up, what p still counts is nothing but attempts it
\* has binned itself, or nothing at all since it dropped them with its last link: ENet has no
\* event left for it, and without one no callback is made.
Stranded(p) ==
    /\ outcome[p] = "lobby" /\ cands[p] # Paths /\ peers[p] = <<>>
    /\ \A l \in out[p] : end[l][p] = "dead" /\ l.path \notin cands[p]

\* However one object ends, by a callback or its destructor, the other one gets a last
\* callback as well, Disconncted, Timeout, StartGame or CancelGame, if it is not stranded.
BothEnd == \A p \in Players : outcome[p] # "lobby" ~> AllEnded \/ Stranded(Other(p))

\* The redundant links and attempts are gone: l is what the two talk over.
OnlyLink(l) ==
    /\ \A p \in Players : outcome[p] = "lobby" /\ peers[p] = <<l>> /\ out[p] = {}
    /\ \A k \in Links \ {l} : \E p \in Players : end[k][p] = "dead"

\* P2PConnection.cpp:418: "If we are player 2, and we can start, send a response to confirm,
\* then wait for diconnection".  The wait ends: a confirmation on its way to player 1
\* leads to the end of both objects, unless the start is taken back.
StartEnds ==
    (\E l \in Links : OnlyLink(l) /\ side[2].start /\ "Start" \in ToSet(wire[l][1]))
        ~> (AllEnded \/ ~side[2].start)

\* A cancel on its way to either player leads to the end of both objects.
CancelEnds ==
    (\E l \in Links, p \in Players : OnlyLink(l) /\ "Cancel" \in ToSet(wire[l][p]))
        ~> AllEnded
-----------------------------------------------------------------------------
(***************************************************************************)
(* What a comment of the repository says and the code does not do.         *)
(* StartEnds is another one when a ready may be taken back.                *)
(***************************************************************************)
\* P2PConnection.h:40: "Exponential moving average, taken three a second".  While a side may
\* send, it does not wait for ever for one pong before it sends the next ping.  A pong that
\* comes while it may not, because it is ready or a redundant link has just come up, is
\* dropped, and then it does.
PingsGoOn ==
    \A p \in Players :
        []<>~(/\ outcome[p] = "lobby" /\ side[p].pingSent
              /\ CanSend(p, peers[p]) /\ Connected(peers[p][1]))
=============================================================================
