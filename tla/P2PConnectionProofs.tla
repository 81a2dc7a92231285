------------------------- MODULE P2PConnectionProofs -------------------------
(***************************************************************************)
(* Proofs about P2PConnection, for any set of paths and whatever the users *)
(* ask for.                                                                *)
(*                                                                         *)
(* First what an ENet end may do and what the object lists, which must     *)
(* agree: the lists are what the object sends over, the ends are what it   *)
(* hears on.  Then what travels: which handler puts which message on which *)
(* wire, and so who starts with whom.  A start player 1 receives was sent  *)
(* by player 2 as it committed.  Last, which path two games are given.     *)
(***************************************************************************)
EXTENDS P2PConnection, SequenceLemmas

\* An attempt leaves out[p] when it comes up: nothing is both attempted and listed.
AttemptsApart == \A p \in Players : out[p] \cap ToSet(peers[p]) = {}

\* While an attempt is under way the other end knows nothing of it, or is gone.
AttemptsFresh ==
    \A l \in Links :
        /\ end[l][Other(l.from)] # "connecting"
        /\ end[l][l.from] = "connecting" => end[l][Other(l.from)] \in {"none", "dead"}

LinksFit == TypeOK /\ ListenersListed /\ AttemptsApart /\ AttemptsFresh

WiresTyped(w) == w \in [Links -> [Players -> Seq(Msgs)]]
EndsTyped(f) == f \in [Links -> [Players -> EndStates]]
-----------------------------------------------------------------------------
(***************************************************************************)
(* The players, sending and receiving.                                     *)
(***************************************************************************)
LEMMA OtherFacts ==
  ASSUME NEW p \in Players
  PROVE  Other(p) \in Players /\ Other(p) # p /\ Other(Other(p)) = p
         /\ \A q \in Players : q = p \/ q = Other(p)
  BY DEF Players, Other

LEMMA SendTyped ==
  ASSUME NEW w, WiresTyped(w), NEW p \in Players, NEW l \in Links, NEW m \in Msgs
  PROVE  WiresTyped(Send(w, p, l, m))
<1> DEFINE v == [w EXCEPT ![l][Other(p)] = Append(@, m)]
<1>1. Append(w[l][Other(p)], m) \in Seq(Msgs)
  BY AppendFacts, OtherFacts DEF WiresTyped
<1>2. WiresTyped(v)
  BY <1>1, OtherFacts DEF WiresTyped
<1>3. Send(w, p, l, m) = v \/ Send(w, p, l, m) = w
  BY DEF Send
<1>4. QED BY <1>2, <1>3

LEMMA ConsumedTyped ==
  ASSUME TypeOK, NEW p \in Players, NEW l \in Links, NEW m, Received(p, l, m)
  PROVE  WiresTyped(Consumed(p, l)) /\ m \in ToSet(wire[l][p])
<1>1. WiresTyped(wire) /\ wire[l][p] \in Seq(Msgs)
  BY DEF TypeOK, WiresTyped
<1>2. Tail(wire[l][p]) \in Seq(Msgs) /\ Head(wire[l][p]) \in ToSet(wire[l][p])
  BY <1>1, TailFacts DEF Received
<1>3. WiresTyped([wire EXCEPT ![l][p] = Tail(@)])
  BY <1>1, <1>2 DEF WiresTyped
<1>4. QED BY <1>2, <1>3 DEF Consumed, Received

\* A received message reaches a listed link.
LEMMA ReceivedListed ==
  ASSUME LinksFit, NEW p \in Players, NEW l \in Links, NEW m, Received(p, l, m)
  PROVE  /\ l \in ToSet(peers[p]) /\ peers[p] # <<>> /\ peers[p][1] \in Links
         /\ peers[p][1] \in ToSet(peers[p])
<1>1. l \in ToSet(peers[p])
  BY DEF LinksFit, ListenersListed, Received, Listening
<1>2. peers[p] \in Seq(Links) /\ peers[p] # <<>>
  BY <1>1 DEF LinksFit, TypeOK, ToSet
<1>3. QED BY <1>1, <1>2, ToSetFacts
-----------------------------------------------------------------------------
(***************************************************************************)
(* The lists and the ends go on agreeing.                                  *)
(***************************************************************************)
\* What a step that neither connects nor disconnects has to show.
LEMMA QuietStep ==
  ASSUME LinksFit, side' \in [Players -> Side], WiresTyped(wire'),
         looping' \in [Players -> BOOLEAN], UNCHANGED <<cands, out, peers, end, outcome>>
  PROVE  LinksFit'
  BY DEF LinksFit, TypeOK, ListenersListed, AttemptsApart, AttemptsFresh, WiresTyped

\* EXCEPT on a flag of side[p].
LEMMA SideExcept ==
  ASSUME TypeOK, NEW p \in Players, NEW s \in Side
  PROVE  [side EXCEPT ![p] = s] \in [Players -> Side]
  BY DEF TypeOK

LEMMA SideTyped == ASSUME TypeOK, NEW p \in Players PROVE side[p] \in Side
  BY DEF TypeOK

LEMMA ReadyChangeTyped ==
  ASSUME NEW s \in Side
  PROVE  /\ OnReadyChange(s) \in Side
         /\ OnReadyChange(s).meReady = s.meReady /\ OnReadyChange(s).otherReady = s.otherReady
         /\ OnReadyChange(s).start => s.start /\ s.meReady /\ s.otherReady
         /\ OnReadyChange(s).tryStart => s.tryStart /\ s.meReady /\ s.otherReady
         /\ s.meReady /\ s.otherReady => OnReadyChange(s) = s
  BY DEF OnReadyChange, Side

LEMMA LoopingTyped ==
  ASSUME TypeOK, NEW p \in Players, NEW b \in BOOLEAN
  PROVE  [looping EXCEPT ![p] = b] \in [Players -> BOOLEAN]
  BY DEF TypeOK

\* What a user asks for, the destructor apart.
LEMMA CommandKeepsFit ==
  ASSUME LinksFit, NEW p \in Players,
         (\E b \in BOOLEAN : SendReady(p, b)) \/ TryStart(p) \/ TryCancel(p)
  PROVE  LinksFit'
<1>1. TypeOK /\ side[p] \in Side /\ WiresTyped(wire)
  BY SideTyped DEF LinksFit, TypeOK, WiresTyped
<1>2. looping' \in [Players -> BOOLEAN]
  BY <1>1, LoopingTyped DEF SendReady, TryStart, TryCancel
<1>3. UNCHANGED <<cands, out, peers, end, outcome>>
  BY DEF SendReady, TryStart, TryCancel
<1>4. peers[p] # <<>> => peers[p][1] \in Links
  BY <1>1, ToSetFacts DEF TypeOK
<1>5. CASE \E b \in BOOLEAN : SendReady(p, b)
  <2>1. PICK b \in BOOLEAN : SendReady(p, b)
    BY <1>5
  <2> DEFINE s == [side[p] EXCEPT !.meReady = b]
  <2>2. s \in Side
    BY <1>1 DEF Side
  <2>3. OnReadyChange(s) \in Side
    BY <2>2, ReadyChangeTyped
  <2>4. side' \in [Players -> Side]
    BY <2>1, <2>2, <2>3, <1>1, SideExcept DEF SendReady
  <2>5. (IF b THEN "Ready1" ELSE "Ready0") \in Msgs
    BY DEF Msgs
  <2>6. WiresTyped(wire')
    BY <2>1, <2>5, <1>1, <1>4, SendTyped DEF SendReady
  <2>7. QED BY <2>4, <2>6, <1>2, <1>3, QuietStep
<1>6. CASE TryStart(p)
  <2>1. [side[p] EXCEPT !.tryStart = TRUE] \in Side
    BY <1>1 DEF Side
  <2>2. side' \in [Players -> Side]
    BY <1>6, <2>1, <1>1, SideExcept DEF TryStart
  <2>3. WiresTyped(wire')
    BY <1>6, <1>1, <1>4, SendTyped DEF TryStart, Msgs
  <2>4. QED BY <2>2, <2>3, <1>2, <1>3, QuietStep
<1>7. CASE TryCancel(p)
  <2>1. [side[p] EXCEPT !.tryCancel = TRUE] \in Side
    BY <1>1 DEF Side
  <2>2. side' \in [Players -> Side]
    BY <1>7, <2>1, <1>1, SideExcept DEF TryCancel
  <2>3. WiresTyped(wire')
    BY <1>7, <1>1, <1>4, SendTyped DEF TryCancel, Msgs
  <2>4. QED BY <2>2, <2>3, <1>2, <1>3, QuietStep
<1>8. QED BY <1>5, <1>6, <1>7

\* The messages that leave lists and ends alone.
LEMMA TalkKeepsFit ==
  ASSUME LinksFit, NEW p \in Players, NEW l \in Links, UNCHANGED looping,
         OnReady(p, l) \/ OnPing(p, l) \/ OnPong(p, l)
  PROVE  LinksFit'
<1>1. TypeOK /\ side[p] \in Side
  BY SideTyped DEF LinksFit
<1>2. looping' \in [Players -> BOOLEAN] /\ UNCHANGED <<cands, out, peers, end, outcome>>
  BY <1>1 DEF OnReady, OnPing, OnPong, TypeOK
<1>3. WiresTyped(Consumed(p, l))
  BY <1>1, ConsumedTyped DEF OnReady, OnPing, OnPong
<1>4. CASE OnReady(p, l)
  <2>1. PICK b \in BOOLEAN :
           side' = [side EXCEPT ![p] = OnReadyChange([@ EXCEPT !.otherReady = b])]
    BY <1>4 DEF OnReady
  <2> DEFINE s == [side[p] EXCEPT !.otherReady = b]
  <2>2. s \in Side
    BY <1>1 DEF Side
  <2>3. OnReadyChange(s) \in Side
    BY <2>2, ReadyChangeTyped
  <2>4. side' \in [Players -> Side]
    BY <2>1, <2>3, <1>1, SideExcept
  <2>5. WiresTyped(wire')
    BY <1>3, <1>4 DEF OnReady
  <2>6. QED BY <2>4, <2>5, <1>2, QuietStep
<1>5. CASE OnPing(p, l)
  <2>1. WiresTyped(wire') /\ side' = side
    BY <1>3, <1>5, SendTyped DEF OnPing, Msgs, PingMsgs
  <2>2. QED BY <2>1, <1>1, <1>2, QuietStep DEF TypeOK
<1>6. CASE OnPong(p, l)
  <2>1. PICK b \in BOOLEAN : side' = [side EXCEPT ![p].pingSent = b]
    BY <1>6, <1>1 DEF OnPong, Side
  <2>2. [side[p] EXCEPT !.pingSent = b] \in Side
    BY <1>1 DEF Side
  <2>3. side' \in [Players -> Side]
    BY <2>1, <2>2, <1>1, SideExcept
  <2>4. WiresTyped(wire')
    BY <1>3, <1>6 DEF OnPong
  <2>5. QED BY <2>3, <2>4, <1>2, QuietStep
<1>7. QED BY <1>4, <1>5, <1>6

\* PRIMARY exchanges the place of its link with the first one.
LEMMA PrimaryStep ==
  ASSUME TypeOK, NEW p \in Players, NEW l \in ToSet(peers[p]), OnPrimary(p, l)
  PROVE  /\ peers'[p] \in Seq(Links) /\ IsInjective(peers'[p])
         /\ ToSet(peers'[p]) = ToSet(peers[p]) /\ peers'[p] # <<>> /\ peers'[p][1] = l
         /\ peers' = [peers EXCEPT ![p] = peers'[p]]
         /\ side' = [side EXCEPT ![p].primary = TRUE, ![p].primaryPath = l.path]
<1> DEFINE i == SelectInSeq(peers[p], LAMBDA k : k = l)
           ps == IF i = 0 THEN peers[p] ELSE [peers[p] EXCEPT ![1] = l, ![i] = peers[p][1]]
<1>1. peers[p] \in Seq(Links) /\ IsInjective(peers[p]) /\ peers \in [Players -> Seq(Links)]
  BY DEF TypeOK
<1>2. i \in 1..Len(peers[p]) /\ peers[p][i] = l
  BY <1>1, FindFacts
<1>3. /\ peers' = [peers EXCEPT ![p] = ps]
      /\ side' = [side EXCEPT ![p].primary = TRUE, ![p].primaryPath = ps[1].path]
  BY DEF OnPrimary
<1> HIDE DEF i
<1>4. ps = [peers[p] EXCEPT ![1] = peers[p][i], ![i] = peers[p][1]]
  BY <1>1, <1>2
<1> HIDE DEF ps
<1>5. /\ ps \in Seq(Links) /\ ps # <<>> /\ ToSet(ps) = ToSet(peers[p])
      /\ IsInjective(ps) /\ ps[1] = l
  <2>1. DOMAIN peers[p] = 1..Len(peers[p]) /\ Len(peers[p]) \in Nat
    BY <1>1, LenProperties
  <2>2. /\ ps \in [1..Len(peers[p]) -> Links]
        /\ \A j \in 1..Len(peers[p]) :
              ps[j] = IF j = i THEN peers[p][1] ELSE IF j = 1 THEN peers[p][i] ELSE peers[p][j]
    BY <2>1, <1>1, <1>2, <1>4, ElementOfSeq
  <2>3. QED BY <1>1, <1>2, <2>2, SwapFacts
<1>6. peers'[p] = ps
  BY <1>1, <1>3
<1>7. QED BY <1>3, <1>5, <1>6

LEMMA PrimaryKeepsFit ==
  ASSUME LinksFit, NEW p \in Players, NEW l \in Links, OnPrimary(p, l), UNCHANGED looping
  PROVE  LinksFit'
<1>1. TypeOK /\ side[p] \in Side /\ l \in ToSet(peers[p]) /\ l.path \in Paths
  BY SideTyped, ReceivedListed DEF LinksFit, OnPrimary, Links
<1>2. /\ peers'[p] \in Seq(Links) /\ IsInjective(peers'[p])
      /\ ToSet(peers'[p]) = ToSet(peers[p])
      /\ peers' = [peers EXCEPT ![p] = peers'[p]]
      /\ side' = [side EXCEPT ![p].primary = TRUE, ![p].primaryPath = l.path]
  BY <1>1, PrimaryStep
<1>3. [side[p] EXCEPT !.primary = TRUE, !.primaryPath = l.path] \in Side
  BY <1>1 DEF Side
<1>4. side' \in [Players -> Side]
  <2>1. side' = [side EXCEPT ![p] = [@ EXCEPT !.primary = TRUE, !.primaryPath = l.path]]
    BY <1>1, <1>2 DEF TypeOK
  <2>2. QED BY <1>1, <1>3, <2>1, SideExcept
<1>5. WiresTyped(wire') /\ UNCHANGED <<cands, out, end, outcome>>
  BY <1>1, ConsumedTyped DEF OnPrimary
<1>6. /\ peers' \in [Players -> Seq(Links)]
      /\ \A q \in Players : IsInjective(peers'[q]) /\ ToSet(peers'[q]) = ToSet(peers[q])
  BY <1>1, <1>2 DEF TypeOK
<1>7. QED BY <1>1, <1>4, <1>5, <1>6
          DEF LinksFit, TypeOK, ListenersListed, AttemptsApart, AttemptsFresh, WiresTyped

\* enet_peer_disconnect_later on every listed link: they are still listed.
LEMMA LaterKeepsFit ==
  ASSUME LinksFit, NEW p \in Players, NEW l \in Links, UNCHANGED looping,
         OnStart(p, l) \/ OnCancel(p, l)
  PROVE  LinksFit'
<1>1. TypeOK /\ side[p] \in Side /\ peers[p][1] \in Links
  BY SideTyped, ReceivedListed DEF LinksFit, OnStart, OnCancel
<1>2. UNCHANGED <<cands, out, peers, outcome>>
  BY DEF OnStart, OnCancel
<1>3. WiresTyped(Consumed(p, l))
  BY <1>1, ConsumedTyped DEF OnStart, OnCancel
<1>4. "Start" \in Msgs /\ "Cancel" \in Msgs
  BY DEF Msgs
<1>5. WiresTyped(wire')
  BY <1>1, <1>3, <1>4, SendTyped DEF OnStart, OnCancel
<1>6. /\ [side[p] EXCEPT !.start = TRUE] \in Side
      /\ [side[p] EXCEPT !.cancel = TRUE] \in Side
  BY <1>1 DEF Side
<1>7. side' \in [Players -> Side]
  <2>1. side \in [Players -> Side]
    BY <1>1 DEF TypeOK
  <2>2. \/ side' = side
        \/ side' = [side EXCEPT ![p] = [@ EXCEPT !.start = TRUE]]
        \/ side' = [side EXCEPT ![p] = [@ EXCEPT !.cancel = TRUE]]
    BY DEF OnStart, OnCancel
  <2>3. QED BY <1>1, <1>6, <2>1, <2>2, SideExcept
<1>8. end' = end \/ end' = DisconnectLater(p)
  BY DEF OnStart, OnCancel
<1>9. CASE end' = end
  BY <1>1, <1>2, <1>5, <1>7, <1>9, QuietStep DEF TypeOK
<1>10. CASE end' = DisconnectLater(p)
  <2>1. /\ EndsTyped(end')
        /\ \A k \in Links, q \in Players :
              end'[k][q] = IF q = p /\ k \in ToSet(peers[p]) /\ end[k][p] = "up"
                           THEN "later" ELSE end[k][q]
    BY <1>1, <1>10 DEF DisconnectLater, TypeOK, EndsTyped, EndStates
  <2>2. TypeOK'
    BY <1>1, <1>2, <1>5, <1>7, <2>1 DEF TypeOK, WiresTyped, EndsTyped
  <2>3. ListenersListed'
    BY <2>1, <1>2 DEF LinksFit, ListenersListed
  <2>4. AttemptsFresh'
    <3>1. \A k \in Links : k.from \in Players /\ Other(k.from) \in Players
      BY OtherFacts DEF Links
    <3>2. QED BY <2>1, <3>1 DEF LinksFit, AttemptsFresh
  <2>5. QED BY <2>2, <2>3, <2>4, <1>2 DEF LinksFit, AttemptsApart
<1>11. QED BY <1>8, <1>9, <1>10

\* A link that comes up was not listed, and its other end was not told before.
LEMMA ConnectKeepsFit ==
  ASSUME LinksFit, NEW p \in Players, NEW l \in Links, OnConnect(p, l), UNCHANGED looping
  PROVE  LinksFit'
<1>1. TypeOK /\ side[p] \in Side /\ l.path \in Paths /\ l.from \in Players
  BY SideTyped DEF LinksFit, Links
<1>2. outcome[p] = "lobby" /\ UNCHANGED <<outcome, looping>>
  BY DEF OnConnect
<1>3. /\ end[l][p] \in {"connecting", "accepting"}
      /\ l \notin ToSet(peers[p])
      /\ l.from = p => end[l][p] = "connecting" /\ outcome[Other(p)] = "lobby"
      /\ l.from # p => end[l][p] = "accepting"
  BY DEF OnConnect, LinksFit, ListenersListed
<1>4. CASE l.path \in cands[p]
  <2>1. /\ cands' = [cands EXCEPT ![p] = {l.path}]
        /\ peers' = [peers EXCEPT ![p] = Append(@, l)]
        /\ out' = [out EXCEPT ![p] = @ \ {l}]
        /\ end' = [end EXCEPT ![l] = IF l.from = p
                                     THEN [@ EXCEPT ![p] = "up", ![Other(p)] = "accepting"]
                                     ELSE [@ EXCEPT ![p] = "up"]]
    BY <1>4 DEF OnConnect
  <2>2. \A k \in Links, q \in Players :
           end'[k][q] = IF k = l /\ q = p THEN "up"
                        ELSE IF k = l /\ l.from = p THEN "accepting" ELSE end[k][q]
    BY <2>1, <1>1, OtherFacts DEF TypeOK
  <2>3. EndsTyped(end')
    BY <2>1, <1>1, OtherFacts DEF TypeOK, EndsTyped, EndStates
  <2>4. /\ Append(peers[p], l) \in Seq(Links) /\ IsInjective(Append(peers[p], l))
        /\ ToSet(Append(peers[p], l)) = ToSet(peers[p]) \cup {l}
    BY <1>1, <1>3, AppendFacts DEF TypeOK
  <2>5. /\ peers' \in [Players -> Seq(Links)]
        /\ \A q \in Players :
              /\ IsInjective(peers'[q])
              /\ ToSet(peers'[q]) = IF q = p THEN ToSet(peers[p]) \cup {l} ELSE ToSet(peers[q])
    BY <2>1, <2>4, <1>1 DEF TypeOK
  <2>6. side' \in [Players -> Side]
    <3>1. [side[p] EXCEPT !.primary = TRUE, !.primaryPath = l.path] \in Side
      BY <1>1 DEF Side
    <3>2. \/ side' = side
          \/ side' = [side EXCEPT ![p].primary = TRUE, ![p].primaryPath = l.path]
      BY <1>4 DEF OnConnect
    <3>3. side' = side
          \/ side' = [side EXCEPT ![p] = [@ EXCEPT !.primary = TRUE, !.primaryPath = l.path]]
      BY <3>2, <1>1 DEF TypeOK
    <3>4. QED BY <3>1, <3>3, <1>1, SideExcept DEF TypeOK
  <2>7. WiresTyped(wire')
    <3>1. "PRIMARY" \in Msgs /\ 2 \in Players
      BY DEF Msgs, Players
    <3>2. Append(wire[l][2], "PRIMARY") \in Seq(Msgs)
      BY <3>1, <1>1, AppendFacts DEF TypeOK
    <3>3. wire' = wire \/ wire' = [wire EXCEPT ![l][2] = Append(wire[l][2], "PRIMARY")]
      BY <1>4 DEF OnConnect
    <3>4. WiresTyped(wire)
      BY <1>1 DEF TypeOK, WiresTyped
    <3>5. WiresTyped([wire EXCEPT ![l][2] = Append(wire[l][2], "PRIMARY")])
      BY <3>1, <3>2, <3>4 DEF WiresTyped
    <3>6. QED BY <3>3, <3>4, <3>5
  <2>8. TypeOK'
    BY <2>1, <2>3, <2>5, <2>6, <2>7, <1>1, <1>2 DEF TypeOK, EndsTyped, WiresTyped
  <2>9. ListenersListed'
    <3> SUFFICES ASSUME NEW q \in Players, NEW k \in Links, outcome[q] = "lobby"
                 PROVE  end'[k][q] \in {"up", "later", "closing"} <=> k \in ToSet(peers'[q])
      BY <1>2 DEF ListenersListed
    <3>1. end[k][q] \in {"up", "later", "closing"} <=> k \in ToSet(peers[q])
      BY DEF LinksFit, ListenersListed
    <3>2. k = l /\ q # p /\ l.from = p => end[k][q] \in {"none", "dead"}
      BY <1>3, OtherFacts DEF LinksFit, AttemptsFresh
    <3>3. QED BY <3>1, <3>2, <2>2, <2>5
  <2>10. AttemptsApart'
    BY <2>1, <2>5, <1>1 DEF LinksFit, AttemptsApart, TypeOK
  <2>11. AttemptsFresh'
    <3>1. \A k \in Links : k.from \in Players /\ Other(k.from) \in Players
      BY OtherFacts DEF Links
    <3>2. QED BY <2>2, <3>1, <1>1, <1>3, OtherFacts DEF LinksFit, AttemptsFresh
  <2>12. QED BY <2>8, <2>9, <2>10, <2>11 DEF LinksFit
<1>5. CASE l.path \notin cands[p]
  <2>1. /\ end' = [end EXCEPT ![l][p] = "dead"]
        /\ wire' = [wire EXCEPT ![l][p] = <<>>]
        /\ UNCHANGED <<side, cands, out, peers>>
    BY <1>5 DEF OnConnect
  <2>2. \A k \in Links, q \in Players :
           end'[k][q] = IF k = l /\ q = p THEN "dead" ELSE end[k][q]
    BY <2>1, <1>1 DEF TypeOK
  <2>3. EndsTyped(end')
    BY <2>1, <1>1 DEF TypeOK, EndsTyped, EndStates
  <2>4. WiresTyped(wire')
    BY <2>1, <1>1, EmptySeq DEF TypeOK, WiresTyped
  <2>5. TypeOK'
    BY <2>1, <2>3, <2>4, <1>1, <1>2 DEF TypeOK, EndsTyped, WiresTyped
  <2>6. ListenersListed'
    BY <2>1, <2>2, <1>2, <1>3 DEF LinksFit, ListenersListed
  <2>7. AttemptsFresh'
    <3>1. \A k \in Links : k.from \in Players /\ Other(k.from) \in Players
      BY OtherFacts DEF Links
    <3>2. QED BY <2>2, <3>1 DEF LinksFit, AttemptsFresh
  <2>8. QED BY <2>1, <2>5, <2>6, <2>7 DEF LinksFit, AttemptsApart
<1>6. QED BY <1>4, <1>5

LEMMA FlushKeepsFit ==
  ASSUME LinksFit, NEW p \in Players, NEW l \in Links, Flush(p, l)
  PROVE  LinksFit'
<1>1. TypeOK /\ l.from \in Players /\ Other(p) \in Players
  BY OtherFacts DEF LinksFit, Links
<1>2. /\ end[l][p] = "later" /\ end' = [end EXCEPT ![l][p] = "closing"]
      /\ UNCHANGED <<side, cands, out, peers, looping, outcome>>
  BY DEF Flush
<1>3. \A k \in Links, q \in Players :
         end'[k][q] = IF k = l /\ q = p THEN "closing" ELSE end[k][q]
  BY <1>1, <1>2 DEF TypeOK
<1>4. EndsTyped(end')
  BY <1>1, <1>2 DEF TypeOK, EndsTyped, EndStates
<1>5. WiresTyped(wire')
  <2>1. Append(wire[l][Other(p)], "DISCONNECT") \in Seq(Msgs) /\ <<>> \in Seq(Msgs)
    BY <1>1, AppendFacts, EmptySeq DEF TypeOK, Msgs
  <2>2. WiresTyped(wire) /\ wire[l][Other(p)] \in Seq(Msgs)
    BY <1>1 DEF TypeOK, WiresTyped
  <2>3. PICK s \in Seq(Msgs) : wire' = [wire EXCEPT ![l][p] = <<>>, ![l][Other(p)] = s]
    BY <2>1, <2>2, <1>1, OtherFacts DEF Flush, WiresTyped
  <2>4. WiresTyped([wire EXCEPT ![l][p] = <<>>, ![l][Other(p)] = s])
    BY <2>1, <2>2, <1>1 DEF WiresTyped
  <2>5. QED BY <2>3, <2>4
<1>6. TypeOK'
  BY <1>1, <1>2, <1>4, <1>5 DEF TypeOK, EndsTyped, WiresTyped
<1>7. ListenersListed'
  BY <1>2, <1>3 DEF LinksFit, ListenersListed
<1>8. AttemptsFresh'
  <2>1. \A k \in Links : k.from \in Players /\ Other(k.from) \in Players
    BY OtherFacts DEF Links
  <2>2. end[l][Other(l.from)] = "later" => end[l][l.from] # "connecting"
    BY DEF LinksFit, AttemptsFresh
  <2>3. QED BY <1>2, <1>3, <2>1, <2>2 DEF LinksFit, AttemptsFresh
<1>9. QED BY <1>2, <1>6, <1>7, <1>8 DEF LinksFit, AttemptsApart

\* The link leaves the list or the attempts, and all of them die with the host.
LEMMA DisconnectKeepsFit ==
  ASSUME LinksFit, NEW p \in Players, NEW l \in Links, OnDisconnect(p, l), UNCHANGED looping
  PROVE  LinksFit'
<1>1. TypeOK /\ side[p] \in Side /\ WiresTyped(wire)
  BY SideTyped DEF LinksFit, TypeOK, WiresTyped
<1>2. /\ peers' = [peers EXCEPT ![p] = RemoveFirst(@, l)]
      /\ out' = out \/ out' = [out EXCEPT ![p] = @ \ {l}]
      /\ UNCHANGED <<side, cands>>
  BY DEF OnDisconnect
<1>3. /\ RemoveFirst(peers[p], l) \in Seq(Links) /\ IsInjective(RemoveFirst(peers[p], l))
      /\ ToSet(RemoveFirst(peers[p], l)) = ToSet(peers[p]) \ {l}
  BY <1>1, RemoveFirstFacts DEF TypeOK
<1>4. /\ peers' \in [Players -> Seq(Links)]
      /\ \A q \in Players :
            /\ IsInjective(peers'[q])
            /\ ToSet(peers'[q]) = IF q = p THEN ToSet(peers[p]) \ {l} ELSE ToSet(peers[q])
  BY <1>1, <1>2, <1>3 DEF TypeOK
<1>5. /\ out' \in [Players -> SUBSET Links]
      /\ \A q \in Players : out'[q] \subseteq out[q]
  BY <1>1, <1>2 DEF TypeOK
<1>6. AttemptsApart'
  BY <1>4, <1>5 DEF LinksFit, AttemptsApart
<1>7. \A k \in Links : k.from \in Players /\ Other(k.from) \in Players
  BY OtherFacts DEF Links
<1>8. CASE Alone(peers'[p], out'[p])
  <2>1. /\ outcome' = [outcome EXCEPT ![p] = Ending(side[p])]
        /\ end' = [k \in Links |-> [end[k] EXCEPT ![p] = "dead"]]
        /\ wire' = [k \in Links |-> [wire[k] EXCEPT ![p] = <<>>]]
    BY <1>8 DEF OnDisconnect
  <2>2. Ending(side[p]) \in Outcomes \ {"lobby"}
    BY DEF Ending, Outcomes
  <2>3. outcome' \in [Players -> Outcomes]
        /\ \A q \in Players : outcome'[q] = "lobby" => q # p /\ outcome[q] = "lobby"
    BY <2>1, <2>2, <1>1 DEF TypeOK
  <2>4. /\ EndsTyped(end')
        /\ \A k \in Links, q \in Players : end'[k][q] = IF q = p THEN "dead" ELSE end[k][q]
    BY <2>1, <1>1 DEF TypeOK, EndsTyped, EndStates
  <2>5. WiresTyped(wire')
    BY <2>1, <1>1, EmptySeq DEF WiresTyped
  <2>6. TypeOK'
    BY <2>3, <2>4, <2>5, <1>1, <1>2, <1>4, <1>5 DEF TypeOK, EndsTyped, WiresTyped
  <2>7. ListenersListed'
    BY <2>3, <2>4, <1>4 DEF LinksFit, ListenersListed
  <2>8. AttemptsFresh'
    BY <2>4, <1>7 DEF LinksFit, AttemptsFresh
  <2>9. QED BY <2>6, <2>7, <2>8, <1>6 DEF LinksFit
<1>9. CASE ~Alone(peers'[p], out'[p])
  <2>1. /\ end' = [end EXCEPT ![l][p] = "dead"]
        /\ wire' = [wire EXCEPT ![l][p] = <<>>]
        /\ UNCHANGED outcome
    BY <1>9 DEF OnDisconnect
  <2>2. /\ EndsTyped(end')
        /\ \A k \in Links, q \in Players :
              end'[k][q] = IF k = l /\ q = p THEN "dead" ELSE end[k][q]
    BY <2>1, <1>1 DEF TypeOK, EndsTyped, EndStates
  <2>3. WiresTyped(wire')
    BY <2>1, <1>1, EmptySeq DEF WiresTyped
  <2>4. TypeOK'
    BY <2>1, <2>2, <2>3, <1>1, <1>2, <1>4, <1>5 DEF TypeOK, EndsTyped, WiresTyped
  <2>5. ListenersListed'
    BY <2>1, <2>2, <1>4 DEF LinksFit, ListenersListed
  <2>6. AttemptsFresh'
    BY <2>2, <1>7 DEF LinksFit, AttemptsFresh
  <2>7. QED BY <2>4, <2>5, <2>6, <1>6 DEF LinksFit
<1>10. QED BY <1>8, <1>9

\* What the cleaning leaves of the list, in every case.
LEMMA CleanStep ==
  ASSUME LinksFit, NEW p \in Players, CleanRedundantConnections(p)
  PROVE  /\ peers' \in [Players -> Seq(Links)]
         /\ \A q \in Players :
               /\ IsInjective(peers'[q])
               /\ ToSet(peers'[q]) = IF q = p THEN ToSet(peers[p]) \ Redundant(p)
                                     ELSE ToSet(peers[q])
         /\ peers[p] # <<>> => peers'[p] # <<>> /\ peers'[p][1] = peers[p][1]
         /\ Redundant(p) \subseteq Links
<1>1. peers \in [Players -> Seq(Links)] /\ peers[p] \in Seq(Links) /\ IsInjective(peers[p])
  BY DEF LinksFit, TypeOK
<1>2. peers' = [peers EXCEPT ![p] = IF Redundant(p) = {} \/ peers[p] = <<>>
                                    THEN peers[p] ELSE <<peers[p][1]>>]
  BY DEF CleanRedundantConnections
<1>3. /\ Redundant(p) = {} \/ Redundant(p) = out[p] \cup {k \in ToSet(peers[p]) : k # peers[p][1]}
      /\ out[p] \cap ToSet(peers[p]) = {}
      /\ out[p] \subseteq Links /\ ToSet(peers[p]) \subseteq Links
  BY <1>1, ToSetFacts DEF Redundant, LinksFit, TypeOK, AttemptsApart
<1>4. CASE Redundant(p) = {} \/ peers[p] = <<>>
  <2>1. peers' = peers
    BY <1>1, <1>2, <1>4
  <2>2. ToSet(peers[p]) \ Redundant(p) = ToSet(peers[p])
    BY <1>4 DEF ToSet
  <2>3. QED BY <2>1, <2>2, <1>1, <1>3 DEF LinksFit, TypeOK
<1>5. CASE Redundant(p) # {} /\ peers[p] # <<>>
  <2> DEFINE h == peers[p][1]
  <2>1. h \in Links /\ h \in ToSet(peers[p])
    BY <1>1, <1>5, ToSetFacts
  <2>2. peers'[p] = <<h>> /\ peers' = [peers EXCEPT ![p] = <<h>>]
    BY <1>1, <1>2, <1>5
  <2>3. /\ <<h>> \in Seq(Links) /\ <<h>> # <<>> /\ <<h>>[1] = h
        /\ IsInjective(<<h>>) /\ ToSet(<<h>>) = {h}
    BY <2>1 DEF IsInjective, ToSet
  <2>4. ToSet(peers[p]) \ Redundant(p) = {h}
    BY <2>1, <1>3, <1>5
  <2> HIDE DEF h
  <2>5. QED BY <2>2, <2>3, <2>4, <1>1, <1>3 DEF LinksFit, TypeOK, h
<1>6. QED BY <1>4, <1>5

LEMMA UpdateKeepsFit ==
  ASSUME LinksFit, NEW p \in Players, Update(p)
  PROVE  LinksFit'
<1>1. TypeOK /\ side[p] \in Side /\ WiresTyped(wire)
  BY SideTyped DEF LinksFit, TypeOK, WiresTyped
<1>2. /\ CleanRedundantConnections(p) /\ Ping(p, Reset(wire, p, <<>>))
      /\ end' = Reset(end, p, "dead")
      /\ out' = [out EXCEPT ![p] = @ \ Redundant(p)]
      /\ UNCHANGED <<cands, outcome>>
  BY DEF Update, CleanRedundantConnections
<1>3. looping' \in [Players -> BOOLEAN]
  BY <1>1, LoopingTyped DEF Update
<1>4. /\ peers' \in [Players -> Seq(Links)]
      /\ \A q \in Players :
            /\ IsInjective(peers'[q])
            /\ ToSet(peers'[q]) = IF q = p THEN ToSet(peers[p]) \ Redundant(p)
                                  ELSE ToSet(peers[q])
      /\ Redundant(p) \subseteq Links
  BY <1>2, CleanStep
<1>5. /\ EndsTyped(end')
      /\ \A k \in Links, q \in Players :
            end'[k][q] = IF q = p /\ k \in Redundant(p) THEN "dead" ELSE end[k][q]
  BY <1>1, <1>2 DEF TypeOK, Reset, EndsTyped, EndStates
<1>6. WiresTyped(Reset(wire, p, <<>>))
  BY <1>1, EmptySeq DEF Reset, WiresTyped
<1>7. side' \in [Players -> Side] /\ WiresTyped(wire')
  <2>1. CASE side' = side /\ wire' = Reset(wire, p, <<>>)
    BY <2>1, <1>1, <1>6 DEF TypeOK
  <2>2. CASE /\ CanSend(p, peers'[p])
             /\ side' = [side EXCEPT ![p].pingSent = TRUE]
             /\ wire' = Send(Reset(wire, p, <<>>), p, peers'[p][1], "Ping")
    <3>1. peers'[p] \in Seq(Links) /\ Len(peers'[p]) = 1
      BY <2>2, <1>4 DEF CanSend
    <3>2. peers'[p][1] \in Links
      BY <3>1, ElementOfSeq
    <3>3. [side[p] EXCEPT !.pingSent = TRUE] \in Side
      BY <1>1 DEF Side
    <3>4. side' \in [Players -> Side]
      BY <3>3, <2>2, <1>1, SideExcept
    <3>5. "Ping" \in Msgs
      BY DEF Msgs, PingMsgs
    <3>6. QED BY <2>2, <3>2, <3>4, <3>5, <1>6, SendTyped
  <2>3. QED BY <2>1, <2>2, <1>2 DEF Ping
<1>8. out' \in [Players -> SUBSET Links]
      /\ \A q \in Players : out'[q] \subseteq out[q]
  BY <1>1, <1>2 DEF TypeOK
<1>9. TypeOK'
  BY <1>1, <1>2, <1>3, <1>4, <1>5, <1>7, <1>8 DEF TypeOK, EndsTyped, WiresTyped
<1>10. ListenersListed'
  BY <1>2, <1>4, <1>5 DEF LinksFit, ListenersListed
<1>11. AttemptsApart'
  BY <1>4, <1>8 DEF LinksFit, AttemptsApart
<1>12. AttemptsFresh'
  <2>1. \A k \in Links : k.from \in Players /\ Other(k.from) \in Players
    BY OtherFacts DEF Links
  <2>2. QED BY <2>1, <1>5 DEF LinksFit, AttemptsFresh
<1>13. QED BY <1>9, <1>10, <1>11, <1>12 DEF LinksFit

\* The destructor: what is left of a queue, and the event after it.
LEMMA LeaveStep ==
  ASSUME TypeOK, NEW p \in Players, Leave(p)
  PROVE  /\ WiresTyped(wire')
         /\ \A k \in Links :
               /\ wire'[k][p] = <<>>
               /\ \/ wire'[k][Other(p)] = wire[k][Other(p)]
                  \/ \E n \in 0..Len(wire[k][Other(p)]) :
                        wire'[k][Other(p)] = Append(SubSeq(wire[k][Other(p)], 1, n), "DISCONNECT")
<1>1. WiresTyped(wire) /\ Other(p) \in Players /\ Other(p) # p /\ "DISCONNECT" \in Msgs
  BY OtherFacts DEF TypeOK, WiresTyped, Msgs
<1>2. PICK kept \in [Links -> 0..Longest] :
         /\ \A k \in Links : kept[k] <= Len(wire[k][Other(p)])
         /\ wire' = [k \in Links |-> HangUp(p, k, kept[k])]
  BY DEF Leave
<1>3. ASSUME NEW k \in Links
      PROVE  /\ wire'[k] \in [Players -> Seq(Msgs)] /\ wire'[k][p] = <<>>
             /\ \/ wire'[k][Other(p)] = wire[k][Other(p)]
                \/ \E n \in 0..Len(wire[k][Other(p)]) :
                      wire'[k][Other(p)] = Append(SubSeq(wire[k][Other(p)], 1, n), "DISCONNECT")
  <2> DEFINE cut == Append(SubSeq(wire[k][Other(p)], 1, kept[k]), "DISCONNECT")
  <2>1. wire[k][Other(p)] \in Seq(Msgs) /\ Len(wire[k][Other(p)]) \in Nat
    BY <1>1 DEF WiresTyped
  <2>2. kept[k] \in Int /\ 0 <= kept[k]
    BY <1>2
  <2>3. kept[k] \in 0..Len(wire[k][Other(p)])
    BY <1>2, <2>1, <2>2
  <2>4. cut \in Seq(Msgs)
    BY <1>1, <2>1, <2>3, PrefixFacts, AppendProperties
  <2>5. \/ wire'[k] = [wire[k] EXCEPT ![p] = <<>>, ![Other(p)] = cut]
        \/ wire'[k] = [wire[k] EXCEPT ![p] = <<>>]
    BY <1>2 DEF HangUp
  <2>6. wire[k] \in [Players -> Seq(Msgs)] /\ <<>> \in Seq(Msgs)
    BY <1>1, EmptySeq DEF WiresTyped
  <2> HIDE DEF cut
  <2>7. /\ wire'[k] \in [Players -> Seq(Msgs)] /\ wire'[k][p] = <<>>
        /\ wire'[k][Other(p)] \in {cut, wire[k][Other(p)]}
    BY <1>1, <2>4, <2>5, <2>6
  <2>8. QED BY <2>3, <2>7 DEF cut
<1>4. WiresTyped(wire')
  BY <1>2, <1>3 DEF WiresTyped
<1>5. QED BY <1>3, <1>4

LEMMA LeaveKeepsFit ==
  ASSUME LinksFit, NEW p \in Players, Leave(p)
  PROVE  LinksFit'
<1>1. TypeOK
  BY DEF LinksFit
<1>2. /\ outcome' = [outcome EXCEPT ![p] = "left"]
      /\ end' = [l \in Links |-> [end[l] EXCEPT ![p] = "dead"]]
      /\ UNCHANGED <<side, cands, out, peers>>
  BY DEF Leave
<1>3. /\ outcome' \in [Players -> Outcomes]
      /\ \A q \in Players : outcome'[q] = "lobby" => q # p /\ outcome[q] = "lobby"
  BY <1>1, <1>2 DEF TypeOK, Outcomes
<1>4. /\ EndsTyped(end')
      /\ \A k \in Links, q \in Players : end'[k][q] = IF q = p THEN "dead" ELSE end[k][q]
  BY <1>1, <1>2 DEF TypeOK, EndsTyped, EndStates
<1>5. WiresTyped(wire')
  BY <1>1, LeaveStep
<1>6. looping' \in [Players -> BOOLEAN]
  BY <1>1, LoopingTyped DEF Leave
<1>7. TypeOK'
  BY <1>1, <1>2, <1>3, <1>4, <1>5, <1>6 DEF TypeOK, EndsTyped, WiresTyped
<1>8. ListenersListed'
  BY <1>2, <1>3, <1>4 DEF LinksFit, ListenersListed
<1>9. AttemptsFresh'
  <2>1. \A k \in Links : k.from \in Players /\ Other(k.from) \in Players
    BY OtherFacts DEF Links
  <2>2. QED BY <2>1, <1>4 DEF LinksFit, AttemptsFresh
<1>10. QED BY <1>2, <1>7, <1>8, <1>9 DEF LinksFit, AttemptsApart

\* A step is one player's, and most of them are events of a link.
LEMMA NextCases ==
  ASSUME Next
  PROVE  \E p \in Players :
            \/ (\E b \in BOOLEAN : SendReady(p, b)) \/ TryStart(p) \/ TryCancel(p)
            \/ Leave(p)
            \/ Update(p)
            \/ \E l \in Links :
                  \/ Flush(p, l)
                  \/ /\ UNCHANGED looping
                     /\ \/ OnConnect(p, l) \/ OnDisconnect(p, l) \/ OnPrimary(p, l)
                        \/ OnStart(p, l) \/ OnCancel(p, l)
                        \/ OnReady(p, l) \/ OnPing(p, l) \/ OnPong(p, l)
  BY DEF Next, UserCommand, Event

LEMMA StepKeepsFit ==
  ASSUME LinksFit, [Next]_vars
  PROVE  LinksFit'
<1>1. CASE UNCHANGED vars
  BY <1>1 DEF vars, LinksFit, TypeOK, ListenersListed, AttemptsApart, AttemptsFresh
<1>2. CASE Next
  BY <1>2, NextCases, CommandKeepsFit, LeaveKeepsFit, UpdateKeepsFit, FlushKeepsFit,
     ConnectKeepsFit, DisconnectKeepsFit, PrimaryKeepsFit, LaterKeepsFit, TalkKeepsFit
<1>3. QED BY <1>1, <1>2

LEMMA InitFits == Init => LinksFit
<1> SUFFICES ASSUME Init PROVE LinksFit
  OBVIOUS
<1>1. <<>> \in Seq(Links) /\ <<>> \in Seq(Msgs) /\ ToSet(<<>>) = {} /\ IsInjective(<<>>)
  BY EmptySeq DEF ToSet, IsInjective
<1>2. side \in [Players -> Side]
  BY DEF Init, Side
<1>3. /\ cands \in [Players -> SUBSET Paths] /\ out \in [Players -> SUBSET Links]
      /\ looping \in [Players -> BOOLEAN] /\ outcome \in [Players -> Outcomes]
  BY DEF Init, Outcomes
<1>4. peers \in [Players -> Seq(Links)] /\ \A p \in Players : peers[p] = <<>>
  BY <1>1 DEF Init
<1>5. /\ end \in [Links -> [Players -> EndStates]]
      /\ \A l \in Links, p \in Players :
            end[l][p] = IF l.from = p THEN "connecting" ELSE "none"
  BY DEF Init, EndStates
<1>6. wire \in [Links -> [Players -> Seq(Msgs)]]
  BY <1>1 DEF Init
<1>7. TypeOK
  BY <1>1, <1>2, <1>3, <1>4, <1>5, <1>6 DEF TypeOK
<1>8. ListenersListed /\ AttemptsApart
  BY <1>1, <1>4, <1>5 DEF ListenersListed, AttemptsApart
<1>9. AttemptsFresh
  <2>1. \A k \in Links : k.from \in Players /\ Other(k.from) \in Players /\ Other(k.from) # k.from
    BY OtherFacts DEF Links
  <2>2. QED BY <1>5, <2>1 DEF AttemptsFresh
<1>10. QED BY <1>7, <1>8, <1>9 DEF LinksFit

\* The inductive invariant of the lists and the ends.
THEOREM LinksAlwaysFit == Spec => []LinksFit
  BY InitFits, StepKeepsFit, PTL DEF Spec

\* Every member of both objects keeps its type, and no link is listed twice.
THEOREM LobbyTypeCorrect == Spec => []TypeOK
<1>1. LinksFit => TypeOK
  BY DEF LinksFit
<1>2. QED BY <1>1, LinksAlwaysFit, PTL

\* What listens is listed: P2PConnection.cpp's "this should never happen" never does.
THEOREM ListenersListedHolds == Spec => []ListenersListed
<1>1. LinksFit => ListenersListed
  BY DEF LinksFit
<1>2. QED BY <1>1, LinksAlwaysFit, PTL
-----------------------------------------------------------------------------
(***************************************************************************)
(* Commitment: m_Start and m_TryStart against the two ready flags.         *)
(***************************************************************************)
\* The flags of the start change in four handlers only.
LEMMA FlagsStep ==
  ASSUME LinksFit, Next
  PROVE  \/ \A q \in Players :
               /\ side'[q].start = side[q].start /\ side'[q].tryStart = side[q].tryStart
               /\ side'[q].meReady = side[q].meReady
               /\ side'[q].otherReady = side[q].otherReady
         \/ \E p \in Players :
               \/ \E b \in BOOLEAN : SendReady(p, b)
               \/ TryStart(p)
               \/ \E l \in Links : OnReady(p, l) \/ OnStart(p, l)
<1> DEFINE Same == \A q \in Players :
                      /\ side'[q].start = side[q].start /\ side'[q].tryStart = side[q].tryStart
                      /\ side'[q].meReady = side[q].meReady
                      /\ side'[q].otherReady = side[q].otherReady
<1>1. TypeOK /\ side \in [Players -> Side]
  BY DEF LinksFit, TypeOK
<1>2. PICK p \in Players :
         \/ (\E b \in BOOLEAN : SendReady(p, b)) \/ TryStart(p) \/ TryCancel(p)
         \/ Leave(p) \/ Update(p)
         \/ \E l \in Links :
               \/ Flush(p, l)
               \/ /\ UNCHANGED looping
                  /\ \/ OnConnect(p, l) \/ OnDisconnect(p, l) \/ OnPrimary(p, l)
                     \/ OnStart(p, l) \/ OnCancel(p, l)
                     \/ OnReady(p, l) \/ OnPing(p, l) \/ OnPong(p, l)
  BY NextCases
<1>3. ASSUME side' = side PROVE Same
  BY <1>3
<1>4. ASSUME TryCancel(p) PROVE Same
  BY <1>4, <1>1 DEF TryCancel, Side
<1>5. ASSUME NEW l \in Links, OnCancel(p, l) PROVE Same
  BY <1>5, <1>1 DEF OnCancel, Side
<1>6. ASSUME NEW b \in BOOLEAN, side' = [side EXCEPT ![p].pingSent = b] PROVE Same
  BY <1>6, <1>1 DEF Side
<1>7. ASSUME NEW v \in Paths,
             side' = [side EXCEPT ![p].primary = TRUE, ![p].primaryPath = v] PROVE Same
  BY <1>7, <1>1 DEF Side
<1> HIDE DEF Same
<1>8. ASSUME Update(p) PROVE Same
  BY <1>8, <1>3, <1>6 DEF Update, Ping
<1>9. ASSUME NEW l \in Links, OnPong(p, l) PROVE Same
  <2>1. PICK b \in BOOLEAN : side' = [side EXCEPT ![p].pingSent = b]
    BY <1>9, <1>1 DEF OnPong, Side
  <2>2. QED BY <2>1, <1>6
<1>10. ASSUME NEW l \in Links, OnConnect(p, l) PROVE Same
  <2>1. l.path \in Paths
    BY DEF Links
  <2>2. side' = side \/ side' = [side EXCEPT ![p].primary = TRUE, ![p].primaryPath = l.path]
    BY <1>10 DEF OnConnect
  <2>3. QED BY <2>1, <2>2, <1>3, <1>7
<1>11. ASSUME NEW l \in Links, OnPrimary(p, l) PROVE Same
  <2>1. l.path \in Paths /\ l \in ToSet(peers[p])
    BY <1>11, ReceivedListed DEF Links, OnPrimary
  <2>2. QED BY <2>1, <1>1, <1>7, <1>11, PrimaryStep
<1>12. ASSUME NEW l \in Links,
              Leave(p) \/ Flush(p, l) \/ OnDisconnect(p, l) \/ OnPing(p, l) PROVE Same
  BY <1>3, <1>12 DEF Leave, Flush, OnDisconnect, OnPing
<1>13. ASSUME Leave(p) PROVE Same
  BY <1>3, <1>13 DEF Leave
<1>14. QED BY <1>2, <1>4, <1>5, <1>8, <1>9, <1>10, <1>11, <1>12, <1>13 DEF Same

LEMMA StepKeepsCommitment ==
  ASSUME LinksFit, CommittedIsReady, [Next]_vars
  PROVE  CommittedIsReady'
<1>1. side \in [Players -> Side]
  BY DEF LinksFit, TypeOK
<1>2. CASE UNCHANGED vars
  BY <1>2 DEF vars, CommittedIsReady
<1>3. CASE \A q \in Players :
             /\ side'[q].start = side[q].start /\ side'[q].tryStart = side[q].tryStart
             /\ side'[q].meReady = side[q].meReady
             /\ side'[q].otherReady = side[q].otherReady
  BY <1>3 DEF CommittedIsReady
<1>4. ASSUME NEW p \in Players, NEW s \in Side, side' = [side EXCEPT ![p] = s],
             s.tryStart \/ s.start => s.meReady /\ s.otherReady
      PROVE  CommittedIsReady'
  BY <1>1, <1>4 DEF CommittedIsReady
<1>5. ASSUME NEW p \in Players, NEW b \in BOOLEAN, SendReady(p, b)
      PROVE  CommittedIsReady'
  <2> DEFINE s == [side[p] EXCEPT !.meReady = b]
  <2>1. s \in Side /\ ~s.start /\ ~s.tryStart
    BY <1>1, <1>5 DEF Side, SendReady
  <2>2. side' = [side EXCEPT ![p] = s] \/ side' = [side EXCEPT ![p] = OnReadyChange(s)]
    BY <1>5 DEF SendReady
  <2> HIDE DEF s
  <2>3. QED BY <2>1, <2>2, <1>4, ReadyChangeTyped
<1>6. ASSUME NEW p \in Players, TryStart(p)
      PROVE  CommittedIsReady'
  <2> DEFINE s == [side[p] EXCEPT !.tryStart = TRUE]
  <2>1. s \in Side /\ s.meReady /\ s.otherReady
    BY <1>1, <1>6 DEF Side, TryStart
  <2>2. side' = [side EXCEPT ![p] = s]
    BY <1>6 DEF TryStart
  <2> HIDE DEF s
  <2>3. QED BY <2>1, <2>2, <1>4
<1>7. ASSUME NEW p \in Players, NEW l \in Links, OnReady(p, l)
      PROVE  CommittedIsReady'
  <2>1. PICK b \in BOOLEAN :
           side' = [side EXCEPT ![p] = OnReadyChange([@ EXCEPT !.otherReady = b])]
    BY <1>7 DEF OnReady
  <2> DEFINE s == [side[p] EXCEPT !.otherReady = b]
  <2>2. s \in Side
    BY <1>1 DEF Side
  <2>3. side' = [side EXCEPT ![p] = OnReadyChange(s)]
    BY <2>1
  <2> HIDE DEF s
  <2>4. QED BY <2>2, <2>3, <1>4, ReadyChangeTyped
<1>8. ASSUME NEW p \in Players, NEW l \in Links, OnStart(p, l)
      PROVE  CommittedIsReady'
  <2> DEFINE s == [side[p] EXCEPT !.start = TRUE]
  <2>1. CASE side' = side
    BY <2>1 DEF CommittedIsReady
  <2>2. CASE (side[p].tryStart \/ (side[p].meReady /\ side[p].otherReady))
             /\ side' = [side EXCEPT ![p] = s]
    <3>1. s \in Side /\ s.meReady /\ s.otherReady
      BY <2>2, <1>1 DEF Side, CommittedIsReady
    <3> HIDE DEF s
    <3>2. QED BY <2>2, <3>1, <1>4
  <2>3. \/ side' = side
        \/ /\ side[p].tryStart \/ (side[p].meReady /\ side[p].otherReady)
           /\ side' = [side EXCEPT ![p] = s]
    BY <1>8 DEF OnStart
  <2>4. QED BY <2>1, <2>2, <2>3
<1>9. QED BY <1>2, <1>3, <1>5, <1>6, <1>7, <1>8, FlagsStep

\* Nobody starts half: m_TryStart and m_Start are only set while both players are ready, and
\* every handler that takes a ready away takes them back.
THEOREM CommittedIsReadyHolds == Spec => []CommittedIsReady
<1>1. Init => CommittedIsReady
  BY DEF Init, CommittedIsReady
<1>2. QED BY <1>1, LinksAlwaysFit, StepKeepsCommitment, PTL DEF Spec
-----------------------------------------------------------------------------
\* Nothing takes a ready back, and a start player 1 has heard of is player 2's commitment.
NoUnready == \A l \in Links, p \in Players : "Ready0" \notin ToSet(wire[l][p])

StartsConfirmed ==
    /\ \A l \in Links : "Start" \in ToSet(wire[l][1]) => side[2].start
    /\ side[1].start => side[2].start
    /\ outcome[1] = "StartGame" => side[1].start

-----------------------------------------------------------------------------
(***************************************************************************)
(* What a step of p does to the wires: its own lose their first message,   *)
(* or all of them with the end, and one other one gets one more.           *)
(***************************************************************************)
Drained(w, p) ==
    \A l \in Links : \/ w[l][p] = wire[l][p]
                     \/ w[l][p] = <<>> /\ end'[l][p] \in {"closing", "dead"}
                     \/ /\ wire[l][p] # <<>> /\ w[l][p] = Tail(wire[l][p])
                        /\ Head(wire[l][p]) = "PRIMARY" => side'[p].primary

Still(w, p) == Drained(w, p) /\ \A l \in Links : w[l][Other(p)] = wire[l][Other(p)]

\* Nothing but m is sent, and over x.
Moves(w, p, x, m) ==
    /\ Drained(w, p)
    /\ \A l \in Links : \/ w[l][Other(p)] = wire[l][Other(p)]
                        \/ l = x /\ w[l][Other(p)] = Append(wire[l][Other(p)], m)

LEMMA SendMoves ==
  ASSUME NEW w, WiresTyped(w), NEW p \in Players, Still(w, p), NEW x \in Links, NEW m \in Msgs
  PROVE  Moves(Send(w, p, x, m), p, x, m)
<1> DEFINE v == [w EXCEPT ![x][Other(p)] = Append(@, m)]
<1>1. Send(w, p, x, m) = v \/ Send(w, p, x, m) = w
  BY DEF Send
<1>2. ASSUME NEW l \in Links
      PROVE  v[l][p] = w[l][p] /\ v[l][Other(p)] = IF l = x THEN Append(w[l][Other(p)], m)
                                                   ELSE w[l][Other(p)]
  BY OtherFacts DEF WiresTyped
<1> HIDE DEF v
<1>3. Moves(v, p, x, m)
  BY <1>2 DEF Still, Moves, Drained
<1>4. Moves(w, p, x, m)
  BY DEF Still, Moves
<1>5. QED BY <1>1, <1>3, <1>4

LEMMA ConsumedStill ==
  ASSUME TypeOK, NEW p \in Players, NEW l \in Links, NEW m, Received(p, l, m),
         m = "PRIMARY" => side'[p].primary
  PROVE  /\ Still(Consumed(p, l), p) /\ WiresTyped(Consumed(p, l))
         /\ wire[l][p] # <<>> /\ Head(wire[l][p]) = m /\ Consumed(p, l)[l][p] = Tail(wire[l][p])
<1> DEFINE v == [wire EXCEPT ![l][p] = Tail(@)]
<1>1. WiresTyped(wire)
  BY DEF TypeOK, WiresTyped
<1>2. \A k \in Links : /\ v[k][p] = IF k = l THEN Tail(wire[k][p]) ELSE wire[k][p]
                       /\ v[k][Other(p)] = wire[k][Other(p)]
  BY <1>1, OtherFacts DEF WiresTyped
<1>3. v = Consumed(p, l)
  BY DEF Consumed
<1> HIDE DEF v
<1>4. Still(v, p)
  BY <1>2 DEF Still, Drained, Received
<1>5. QED BY <1>2, <1>3, <1>4, ConsumedTyped DEF Received

\* What each handler but the destructor sends, and over which link.
LEMMA WireTable ==
  ASSUME LinksFit, NEW p \in Players
  PROVE  /\ \A b \in BOOLEAN : SendReady(p, b) =>
               Moves(wire', p, peers[p][1], IF b THEN "Ready1" ELSE "Ready0")
         /\ TryStart(p) => Moves(wire', p, peers[p][1], "Start")
         /\ TryCancel(p) => Moves(wire', p, peers[p][1], "Cancel")
         /\ Update(p) => Still(wire', p) \/ \E x \in Links : Moves(wire', p, x, "Ping")
         /\ \A l \in Links :
               /\ Flush(p, l) => Moves(wire', p, l, "DISCONNECT")
               /\ OnConnect(p, l) => Moves(wire', p, l, "PRIMARY") /\ (p # 1 => Still(wire', p))
               /\ OnDisconnect(p, l) => Still(wire', p)
               /\ OnPrimary(p, l) \/ OnReady(p, l) \/ OnPong(p, l) => Still(wire', p)
               /\ OnPing(p, l) => Moves(wire', p, l, "Pong")
               /\ OnStart(p, l) => Moves(wire', p, peers[p][1], "Start")
               /\ OnCancel(p, l) => Moves(wire', p, peers[p][1], "Cancel")
<1>1. TypeOK /\ WiresTyped(wire) /\ Other(p) \in Players /\ Other(p) # p
  BY OtherFacts DEF LinksFit, TypeOK, WiresTyped
<1>2. Still(wire, p)
  BY DEF Still, Drained
<1>3. \A w, x, m : Still(w, p) => Moves(w, p, x, m)
  BY DEF Still, Moves
<1>4. peers[p] # <<>> => peers[p][1] \in Links
  BY <1>1, ToSetFacts DEF TypeOK
<1>5. /\ "Start" \in Msgs /\ "Cancel" \in Msgs /\ "PRIMARY" \in Msgs /\ "Ping" \in Msgs
      /\ "Pong" \in Msgs /\ "Ready1" \in Msgs /\ "Ready0" \in Msgs
  BY DEF Msgs, PingMsgs
<1>6. ASSUME NEW b \in BOOLEAN, SendReady(p, b)
      PROVE  Moves(wire', p, peers[p][1], IF b THEN "Ready1" ELSE "Ready0")
  <2> DEFINE m == IF b THEN "Ready1" ELSE "Ready0"
  <2>1. m \in Msgs
    BY <1>5
  <2>2. wire' = wire \/ (peers[p] # <<>> /\ wire' = Send(wire, p, peers[p][1], m))
    BY <1>6 DEF SendReady
  <2> HIDE DEF m
  <2>3. Moves(wire', p, peers[p][1], m)
    BY <2>1, <2>2, <1>1, <1>2, <1>3, <1>4, SendMoves
  <2>4. QED BY <2>3 DEF m
<1>7. ASSUME TryStart(p) PROVE Moves(wire', p, peers[p][1], "Start")
  BY <1>7, <1>1, <1>2, <1>4, <1>5, SendMoves DEF TryStart
<1>8. ASSUME TryCancel(p) PROVE Moves(wire', p, peers[p][1], "Cancel")
  BY <1>8, <1>1, <1>2, <1>4, <1>5, SendMoves DEF TryCancel
<1>9. ASSUME Update(p) PROVE Still(wire', p) \/ \E x \in Links : Moves(wire', p, x, "Ping")
  <2> DEFINE w == Reset(wire, p, <<>>)
  <2>1. WiresTyped(w) /\ \A l \in Links : /\ w[l][p] \in {wire[l][p], <<>>}
                                          /\ w[l][Other(p)] = wire[l][Other(p)]
    BY <1>1, EmptySeq DEF Reset, WiresTyped
  <2>2. \A l \in Links : w[l][p] = wire[l][p] \/ end'[l][p] = "dead"
    <3>1. end' = Reset(end, p, "dead")
      BY <1>9 DEF Update, CleanRedundantConnections
    <3>2. QED BY <3>1, <1>1 DEF Reset, TypeOK
  <2> HIDE DEF w
  <2>3. Still(w, p)
    BY <2>1, <2>2 DEF Still, Drained
  <2>4. Ping(p, w)
    BY <1>9 DEF Update, w
  <2>5. CASE wire' = w
    BY <2>3, <2>5
  <2>6. CASE CanSend(p, peers'[p]) /\ wire' = Send(w, p, peers'[p][1], "Ping")
    <3>1. LinksFit'
      BY <1>9, UpdateKeepsFit
    <3>2. peers'[p] \in Seq(Links) /\ Len(peers'[p]) = 1
      BY <2>6, <3>1 DEF CanSend, LinksFit, TypeOK
    <3>3. peers'[p][1] \in Links
      BY <3>2, ElementOfSeq
    <3>4. QED BY <2>1, <2>3, <2>6, <3>3, <1>5, SendMoves
  <2>7. QED BY <2>4, <2>5, <2>6 DEF Ping
<1>10. ASSUME NEW l \in Links, Flush(p, l) PROVE Moves(wire', p, l, "DISCONNECT")
  <2> DEFINE s == IF end[l][Other(p)] \in Listening \cup {"accepting"}
                  THEN Append(wire[l][Other(p)], "DISCONNECT") ELSE wire[l][Other(p)]
  <2>1. wire' = [wire EXCEPT ![l][p] = <<>>, ![l][Other(p)] = s]
    BY <1>1, <1>10 DEF Flush, WiresTyped
  <2>2. s \in {Append(wire[l][Other(p)], "DISCONNECT"), wire[l][Other(p)]}
    OBVIOUS
  <2> HIDE DEF s
  <2>3. \A k \in Links : /\ wire'[k][p] = IF k = l THEN <<>> ELSE wire[k][p]
                         /\ wire'[k][Other(p)] = IF k = l THEN s ELSE wire[k][Other(p)]
    BY <1>1, <2>1 DEF WiresTyped
  <2>4. end'[l][p] = "closing"
    BY <1>1, <1>10 DEF Flush, TypeOK
  <2>5. QED BY <2>2, <2>3, <2>4 DEF Moves, Drained
<1>11. ASSUME NEW l \in Links, OnConnect(p, l)
       PROVE  Moves(wire', p, l, "PRIMARY") /\ (p # 1 => Still(wire', p))
  <2>1. CASE wire' = wire
    BY <2>1, <1>2, <1>3
  <2>2. CASE wire' = [wire EXCEPT ![l][p] = <<>>] /\ end' = [end EXCEPT ![l][p] = "dead"]
    <3>1. \A k \in Links : /\ wire'[k][p] = IF k = l THEN <<>> ELSE wire[k][p]
                           /\ wire'[k][Other(p)] = wire[k][Other(p)]
      BY <1>1, <2>2 DEF WiresTyped
    <3>2. end'[l][p] = "dead"
      BY <1>1, <2>2 DEF TypeOK
    <3>3. Still(wire', p)
      BY <3>1, <3>2 DEF Still, Drained
    <3>4. QED BY <3>3, <1>3
  <2>3. CASE p = 1 /\ wire' = [wire EXCEPT ![l][2] = Append(@, "PRIMARY")]
    <3>1. Other(p) = 2
      BY <2>3 DEF Other
    <3>2. wire' = [wire EXCEPT ![l][Other(p)] = Append(@, "PRIMARY")]
      BY <2>3, <3>1
    <3>3. \A k \in Links : /\ wire'[k][p] = wire[k][p]
                           /\ wire'[k][Other(p)] = IF k = l THEN Append(wire[k][Other(p)], "PRIMARY")
                                                   ELSE wire[k][Other(p)]
      BY <1>1, <3>2 DEF WiresTyped
    <3>4. QED BY <2>3, <3>3 DEF Moves, Drained
  <2>4. QED BY <1>11, <2>1, <2>2, <2>3 DEF OnConnect
<1>12. ASSUME NEW l \in Links, OnDisconnect(p, l) PROVE Still(wire', p)
  <2>1. \A k \in Links : /\ \/ wire'[k][p] = wire[k][p]
                            \/ wire'[k][p] = <<>> /\ end'[k][p] = "dead"
                         /\ wire'[k][Other(p)] = wire[k][Other(p)]
    <3>1. CASE /\ wire' = [k \in Links |-> [wire[k] EXCEPT ![p] = <<>>]]
               /\ end' = [k \in Links |-> [end[k] EXCEPT ![p] = "dead"]]
      BY <3>1, <1>1 DEF WiresTyped, TypeOK
    <3>2. CASE /\ wire' = [wire EXCEPT ![l][p] = <<>>]
               /\ end' = [end EXCEPT ![l][p] = "dead"]
      BY <3>2, <1>1 DEF WiresTyped, TypeOK
    <3>3. QED BY <3>1, <3>2, <1>12 DEF OnDisconnect
  <2>2. QED BY <2>1 DEF Still, Drained
<1>13. ASSUME NEW l \in Links, OnPrimary(p, l) \/ OnReady(p, l) \/ OnPong(p, l)
       PROVE  Still(wire', p)
  <2>1. CASE OnPrimary(p, l)
    <3>1. l \in ToSet(peers[p])
      BY <2>1, ReceivedListed DEF OnPrimary
    <3>2. side' = [side EXCEPT ![p].primary = TRUE, ![p].primaryPath = l.path]
      BY <2>1, <3>1, <1>1, PrimaryStep
    <3>3. side'[p].primary
      BY <3>2, <1>1 DEF TypeOK, Side
    <3>4. QED BY <2>1, <3>3, <1>1, ConsumedStill DEF OnPrimary
  <2>2. CASE OnReady(p, l) \/ OnPong(p, l)
    BY <1>1, <2>2, ConsumedStill DEF OnReady, OnPong
  <2>3. QED BY <1>13, <2>1, <2>2
<1>14. ASSUME NEW l \in Links, OnPing(p, l) PROVE Moves(wire', p, l, "Pong")
  BY <1>1, <1>5, <1>14, ConsumedStill, SendMoves DEF OnPing
<1>15. ASSUME NEW l \in Links, OnStart(p, l) PROVE Moves(wire', p, peers[p][1], "Start")
  <2>1. peers[p][1] \in Links
    BY <1>15, ReceivedListed DEF OnStart
  <2>2. Still(Consumed(p, l), p) /\ WiresTyped(Consumed(p, l))
    BY <1>1, <1>15, ConsumedStill DEF OnStart
  <2>3. wire' = Consumed(p, l) \/ wire' = Send(Consumed(p, l), p, peers[p][1], "Start")
    BY <1>15 DEF OnStart
  <2>4. QED BY <2>1, <2>2, <2>3, <1>3, <1>5, SendMoves
<1>16. ASSUME NEW l \in Links, OnCancel(p, l) PROVE Moves(wire', p, peers[p][1], "Cancel")
  <2>1. peers[p][1] \in Links
    BY <1>16, ReceivedListed DEF OnCancel
  <2>2. Still(Consumed(p, l), p) /\ WiresTyped(Consumed(p, l))
    BY <1>1, <1>16, ConsumedStill DEF OnCancel
  <2>3. wire' = Consumed(p, l) \/ wire' = Send(Consumed(p, l), p, peers[p][1], "Cancel")
    BY <1>16 DEF OnCancel
  <2>4. QED BY <2>1, <2>2, <2>3, <1>3, <1>5, SendMoves
<1>17. QED BY <1>6, <1>7, <1>8, <1>9, <1>10, <1>11, <1>12, <1>13, <1>14, <1>15, <1>16

\* The same in terms of what is on the wires.
LEMMA MovesContents ==
  ASSUME LinksFit, NEW p \in Players, NEW x, NEW m, Moves(wire', p, x, m), NEW l \in Links
  PROVE  /\ ToSet(wire'[l][p]) \subseteq ToSet(wire[l][p])
         /\ ToSet(wire'[l][Other(p)]) \subseteq ToSet(wire[l][Other(p)]) \cup {m}
         /\ l # x => ToSet(wire'[l][Other(p)]) = ToSet(wire[l][Other(p)])
<1>1. wire[l][p] \in Seq(Msgs) /\ wire[l][Other(p)] \in Seq(Msgs)
  BY OtherFacts DEF LinksFit, TypeOK
<1>2. ToSet(<<>>) = {}
  BY DEF ToSet
<1>3. ToSet(wire'[l][p]) \subseteq ToSet(wire[l][p])
  BY <1>1, <1>2, TailFacts DEF Moves, Drained
<1>4. ToSet(Append(wire[l][Other(p)], m)) = ToSet(wire[l][Other(p)]) \cup {m}
  BY <1>1, AppendContents
<1>5. QED BY <1>3, <1>4 DEF Moves

LEMMA StillContents ==
  ASSUME LinksFit, NEW p \in Players, Still(wire', p), NEW l \in Links
  PROVE  /\ ToSet(wire'[l][p]) \subseteq ToSet(wire[l][p])
         /\ ToSet(wire'[l][Other(p)]) = ToSet(wire[l][Other(p)])
<1>1. Moves(wire', p, 0, 0) /\ wire'[l][Other(p)] = wire[l][Other(p)]
  BY DEF Still, Moves
<1>2. QED BY <1>1, MovesContents

LEMMA LeaveContents ==
  ASSUME LinksFit, NEW p \in Players, Leave(p), NEW l \in Links
  PROVE  /\ ToSet(wire'[l][p]) = {}
         /\ ToSet(wire'[l][Other(p)]) \subseteq ToSet(wire[l][Other(p)]) \cup {"DISCONNECT"}
<1>1. wire[l][Other(p)] \in Seq(Msgs)
  BY OtherFacts DEF LinksFit, TypeOK
<1>2. /\ wire'[l][p] = <<>>
      /\ \/ wire'[l][Other(p)] = wire[l][Other(p)]
         \/ \E n \in 0..Len(wire[l][Other(p)]) :
               wire'[l][Other(p)] = Append(SubSeq(wire[l][Other(p)], 1, n), "DISCONNECT")
  BY LeaveStep DEF LinksFit
<1>3. ASSUME NEW n \in 0..Len(wire[l][Other(p)])
      PROVE  ToSet(Append(SubSeq(wire[l][Other(p)], 1, n), "DISCONNECT"))
                \subseteq ToSet(wire[l][Other(p)]) \cup {"DISCONNECT"}
  <2> DEFINE t == SubSeq(wire[l][Other(p)], 1, n)
  <2>1. t \in Seq(Msgs) /\ ToSet(t) \subseteq ToSet(wire[l][Other(p)])
    BY <1>1, PrefixFacts
  <2> HIDE DEF t
  <2>2. ToSet(Append(t, "DISCONNECT")) = ToSet(t) \cup {"DISCONNECT"}
    BY <2>1, AppendContents
  <2>3. QED BY <2>1, <2>2 DEF t
<1>4. ToSet(<<>>) = {}
  BY DEF ToSet
<1>5. QED BY <1>2, <1>3, <1>4

\* Where a message comes from.
LEMMA NewMessage ==
  ASSUME LinksFit, Next, NEW l \in Links, NEW q \in Players,
         NEW m \in ToSet(wire'[l][q]), m \notin ToSet(wire[l][q])
  PROVE  LET p == Other(q)
         IN  /\ m = "Ready0" => SendReady(p, FALSE)
             /\ m = "Start" => \/ TryStart(p)
                               \/ \E k \in Links : OnStart(p, k) /\ side'[p].start
             /\ m = "Cancel" => TryCancel(p) \/ \E k \in Links : OnCancel(p, k)
             /\ m = "PRIMARY" => OnConnect(p, l) /\ p = 1
             /\ m = "DISCONNECT" => Flush(p, l) \/ Leave(p)
<1>1. PICK p \in Players :
         \/ (\E b \in BOOLEAN : SendReady(p, b)) \/ TryStart(p) \/ TryCancel(p)
         \/ Leave(p) \/ Update(p)
         \/ \E k \in Links :
               \/ Flush(p, k)
               \/ /\ UNCHANGED looping
                  /\ \/ OnConnect(p, k) \/ OnDisconnect(p, k) \/ OnPrimary(p, k)
                     \/ OnStart(p, k) \/ OnCancel(p, k)
                     \/ OnReady(p, k) \/ OnPing(p, k) \/ OnPong(p, k)
  BY NextCases
<1>2. ASSUME Still(wire', p) PROVE FALSE
  BY <1>2, StillContents, OtherFacts
<1>3. ASSUME NEW x, NEW n, Moves(wire', p, x, n) PROVE p = Other(q) /\ m = n /\ l = x
  <2>1. p # q
    BY <1>3, MovesContents
  <2>2. q = Other(p) /\ p = Other(q)
    BY <2>1, OtherFacts
  <2>3. QED BY <2>2, <1>3, MovesContents
<1>4. CASE \E b \in BOOLEAN : SendReady(p, b)
  <2>1. PICK b \in BOOLEAN : SendReady(p, b)
    BY <1>4
  <2>2. p = Other(q) /\ m = IF b THEN "Ready1" ELSE "Ready0"
    BY <2>1, <1>3, WireTable
  <2>3. QED BY <2>1, <2>2
<1>5. CASE TryStart(p)
  <2>1. p = Other(q) /\ m = "Start"
    BY <1>3, <1>5, WireTable
  <2>2. QED BY <2>1, <1>5
<1>6. CASE TryCancel(p)
  <2>1. p = Other(q) /\ m = "Cancel"
    BY <1>3, <1>6, WireTable
  <2>2. QED BY <2>1, <1>6
<1>7. CASE Leave(p)
  <2>1. p # q
    BY <1>7, LeaveContents
  <2>2. q = Other(p) /\ p = Other(q)
    BY <2>1, OtherFacts
  <2>3. m = "DISCONNECT"
    BY <2>2, <1>7, LeaveContents
  <2>4. QED BY <2>2, <2>3, <1>7
<1>8. CASE Update(p)
  <2>1. p = Other(q) /\ m = "Ping"
    BY <1>2, <1>3, <1>8, WireTable
  <2>2. QED BY <2>1
<1>9. ASSUME NEW k \in Links, Flush(p, k) PROVE p = Other(q) /\ m = "DISCONNECT" /\ k = l
  BY <1>3, <1>9, WireTable
<1>10. ASSUME NEW k \in Links, OnConnect(p, k)
       PROVE  p = Other(q) /\ m = "PRIMARY" /\ k = l /\ p = 1
  BY <1>2, <1>3, <1>10, WireTable
<1>11. ASSUME NEW k \in Links,
              OnDisconnect(p, k) \/ OnPrimary(p, k) \/ OnReady(p, k) \/ OnPong(p, k)
       PROVE  FALSE
  BY <1>2, <1>11, WireTable
<1>12. ASSUME NEW k \in Links, OnPing(p, k) PROVE p = Other(q) /\ m = "Pong"
  BY <1>3, <1>12, WireTable
<1>13. ASSUME NEW k \in Links, OnCancel(p, k) PROVE p = Other(q) /\ m = "Cancel"
  BY <1>3, <1>13, WireTable
<1>14. ASSUME NEW k \in Links, OnStart(p, k)
       PROVE  p = Other(q) /\ m = "Start" /\ side'[p].start
  <2>1. p = Other(q) /\ m = "Start"
    BY <1>3, <1>14, WireTable
  <2>2. CASE side' = [side EXCEPT ![p].start = TRUE]
    <3>1. side'[p].start
      BY <2>2 DEF LinksFit, TypeOK, Side
    <3>2. QED BY <2>1, <3>1
  <2>3. CASE wire' = Consumed(p, k)
    BY <2>3, <1>2, <1>14, ConsumedStill DEF OnStart, LinksFit
  <2>4. QED BY <2>2, <2>3, <1>14 DEF OnStart
<1>15. CASE \E k \in Links :
               \/ Flush(p, k)
               \/ OnConnect(p, k) \/ OnDisconnect(p, k) \/ OnPrimary(p, k)
               \/ OnStart(p, k) \/ OnCancel(p, k)
               \/ OnReady(p, k) \/ OnPing(p, k) \/ OnPong(p, k)
  <2>1. PICK k \in Links :
               \/ Flush(p, k)
               \/ OnConnect(p, k) \/ OnDisconnect(p, k) \/ OnPrimary(p, k)
               \/ OnStart(p, k) \/ OnCancel(p, k)
               \/ OnReady(p, k) \/ OnPing(p, k) \/ OnPong(p, k)
    BY <1>15
  <2>2. CASE Flush(p, k)
    BY <2>2, <1>9
  <2>3. CASE OnConnect(p, k)
    BY <2>3, <1>10
  <2>4. CASE OnStart(p, k)
    BY <2>4, <1>14
  <2>5. CASE OnCancel(p, k)
    BY <2>5, <1>13
  <2>6. CASE OnPing(p, k)
    BY <2>6, <1>12
  <2>7. QED BY <2>1, <2>2, <2>3, <2>4, <2>5, <2>6, <1>11
<1>16. QED BY <1>1, <1>4, <1>5, <1>6, <1>7, <1>8, <1>15
-----------------------------------------------------------------------------
(***************************************************************************)
(* How an object ends.                                                     *)
(***************************************************************************)
\* The last callback says what the flags said, and they stay.
EndsAsFlagged ==
    \A p \in Players :
        /\ outcome[p] = "StartGame" => side[p].start /\ ~side[p].cancel
        /\ outcome[p] = "CancelGame" => ~side[p].start /\ side[p].cancel
        /\ outcome[p] \notin {"lobby", "left"} => outcome[p] = Ending(side[p])

\* Only its own steps change an object, and none after its last callback.
LEMMA OwnSteps ==
  ASSUME LinksFit, Next, NEW q \in Players
  PROVE  /\ outcome[q] # "lobby" => UNCHANGED <<side[q], outcome[q], cands[q], peers[q]>>
         /\ outcome'[q] # outcome[q] =>
               /\ side'[q] = side[q]
               /\ outcome'[q] = "left" \/ outcome'[q] = Ending(side[q])
<1> DEFINE Frozen == UNCHANGED <<side[q], outcome[q], cands[q], peers[q]>>
<1>1. PICK p \in Players :
         \/ (\E b \in BOOLEAN : SendReady(p, b)) \/ TryStart(p) \/ TryCancel(p)
         \/ Leave(p) \/ Update(p)
         \/ \E k \in Links :
               \/ Flush(p, k)
               \/ /\ UNCHANGED looping
                  /\ \/ OnConnect(p, k) \/ OnDisconnect(p, k) \/ OnPrimary(p, k)
                     \/ OnStart(p, k) \/ OnCancel(p, k)
                     \/ OnReady(p, k) \/ OnPing(p, k) \/ OnPong(p, k)
  BY NextCases
<1>2. /\ side \in [Players -> Side] /\ outcome \in [Players -> Outcomes]
      /\ cands \in [Players -> SUBSET Paths] /\ peers \in [Players -> Seq(Links)]
  BY DEF LinksFit, TypeOK
<1>3. CASE q # p
  <2>1. ASSUME NEW k \in Links, OnPrimary(p, k) PROVE Frozen
    <3>1. k \in ToSet(peers[p])
      BY <2>1, ReceivedListed DEF OnPrimary
    <3>2. peers' = [peers EXCEPT ![p] = peers'[p]]
          /\ side' = [side EXCEPT ![p].primary = TRUE, ![p].primaryPath = k.path]
      BY <2>1, <3>1, PrimaryStep DEF LinksFit
    <3>3. UNCHANGED <<cands, outcome>>
      BY <2>1 DEF OnPrimary
    <3>4. QED BY <1>2, <1>3, <3>2, <3>3
  <2>2. ASSUME Update(p) PROVE Frozen
    BY <1>2, <1>3, <2>2 DEF Update, Ping, CleanRedundantConnections
  <2>3. ASSUME NEW k \in Links, OnConnect(p, k) PROVE Frozen
    BY <1>2, <1>3, <2>3 DEF OnConnect
  <2>4. ASSUME NEW k \in Links, OnDisconnect(p, k) PROVE Frozen
    BY <1>2, <1>3, <2>4 DEF OnDisconnect
  <2>5. ASSUME NEW b \in BOOLEAN, SendReady(p, b) PROVE Frozen
    BY <1>2, <1>3, <2>5 DEF SendReady
  <2>6. CASE TryStart(p) \/ TryCancel(p) \/ Leave(p)
    BY <1>2, <1>3, <2>6 DEF TryStart, TryCancel, Leave
  <2>7. ASSUME NEW k \in Links,
               \/ Flush(p, k) \/ OnStart(p, k) \/ OnCancel(p, k)
               \/ OnReady(p, k) \/ OnPing(p, k) \/ OnPong(p, k)
        PROVE  Frozen
    BY <1>2, <1>3, <2>7 DEF Flush, OnStart, OnCancel, OnReady, OnPing, OnPong
  <2>8. QED BY <1>1, <2>1, <2>2, <2>3, <2>4, <2>5, <2>6, <2>7
<1>4. CASE q = p
  <2>1. CASE \/ (\E b \in BOOLEAN : SendReady(p, b)) \/ TryStart(p) \/ TryCancel(p)
             \/ Update(p)
    <3>1. outcome[p] = "lobby" /\ outcome' = outcome
      BY <2>1 DEF SendReady, TryStart, TryCancel, Update, May
    <3>2. QED BY <3>1, <1>4
  <2>2. CASE Leave(p)
    <3>1. outcome[p] = "lobby" /\ outcome'[p] = "left" /\ side' = side
      BY <2>2, <1>2 DEF Leave, May
    <3>2. QED BY <3>1, <1>4
  <2>3. ASSUME NEW k \in Links, Flush(p, k) PROVE Frozen
    BY <2>3 DEF Flush
  <2>4. ASSUME NEW k \in Links, OnDisconnect(p, k)
        PROVE  /\ outcome[p] = "lobby" /\ side' = side
               /\ outcome'[p] # outcome[p] => outcome'[p] = Ending(side[p])
    BY <2>4, <1>2 DEF OnDisconnect
  <2>5. ASSUME NEW k \in Links,
               \/ OnConnect(p, k) \/ OnPrimary(p, k) \/ OnStart(p, k) \/ OnCancel(p, k)
               \/ OnReady(p, k) \/ OnPing(p, k) \/ OnPong(p, k)
        PROVE  outcome[p] = "lobby" /\ outcome' = outcome
    BY <2>5 DEF OnConnect, OnPrimary, OnStart, OnCancel, OnReady, OnPing, OnPong, Received
  <2>6. QED BY <1>1, <1>4, <2>1, <2>2, <2>3, <2>4, <2>5
<1>5. QED BY <1>3, <1>4

LEMMA StepKeepsEndsAsFlagged ==
  ASSUME LinksFit, EndsAsFlagged, [Next]_vars
  PROVE  EndsAsFlagged'
<1>1. CASE UNCHANGED vars
  BY <1>1 DEF vars, EndsAsFlagged
<1>2. CASE Next
  <2> SUFFICES ASSUME NEW p \in Players
               PROVE  /\ outcome'[p] = "StartGame" => side'[p].start /\ ~side'[p].cancel
                      /\ outcome'[p] = "CancelGame" => ~side'[p].start /\ side'[p].cancel
                      /\ outcome'[p] \notin {"lobby", "left"} => outcome'[p] = Ending(side'[p])
    BY DEF EndsAsFlagged
  <2>1. CASE outcome'[p] # outcome[p]
    <3>1. side'[p] = side[p] /\ (outcome'[p] = "left" \/ outcome'[p] = Ending(side[p]))
      BY <1>2, <2>1, OwnSteps
    <3>2. QED BY <3>1 DEF Ending
  <2>2. CASE outcome'[p] = outcome[p] /\ outcome[p] # "lobby"
    BY <1>2, <2>2, OwnSteps DEF EndsAsFlagged
  <2>3. QED BY <2>1, <2>2
<1>3. QED BY <1>1, <1>2

\* StartGame, CancelGame, Disconncted and Timeout are what the flags stand for when they are
\* called, and the flags stay.
THEOREM EndsAsFlaggedHolds == Spec => []EndsAsFlagged
<1>1. Init => EndsAsFlagged
  BY DEF Init, EndsAsFlagged
<1>2. QED BY <1>1, LinksAlwaysFit, StepKeepsEndsAsFlagged, PTL DEF Spec
-----------------------------------------------------------------------------
(***************************************************************************)
(* Player 1 starts with player 2, when nothing takes a ready back.         *)
(***************************************************************************)
\* The only ways m_Start is set or taken back.
LEMMA StartFlagStep ==
  ASSUME LinksFit, Next, NEW q \in Players
  PROVE  /\ side'[q].start /\ ~side[q].start => \E l \in Links : OnStart(q, l)
         /\ side[q].start /\ ~side'[q].start =>
               (side[q].meReady /\ side[q].otherReady =>
                   \E l \in Links : "Ready0" \in ToSet(wire[l][q]))
<1>1. side \in [Players -> Side] /\ TypeOK
  BY DEF LinksFit, TypeOK
<1>2. CASE side'[q].start = side[q].start
  BY <1>2
<1>3. ASSUME NEW p \in Players, NEW b \in BOOLEAN, SendReady(p, b)
      PROVE  side'[q].start = side[q].start
  <2> DEFINE s == [side[p] EXCEPT !.meReady = b]
  <2>1. s \in Side /\ s.start = side[p].start /\ ~side[p].start
    BY <1>1, <1>3 DEF Side, SendReady
  <2>2. side' = [side EXCEPT ![p] = s] \/ side' = [side EXCEPT ![p] = OnReadyChange(s)]
    BY <1>3 DEF SendReady
  <2>3. OnReadyChange(s) \in Side /\ (OnReadyChange(s).start => s.start)
    BY <2>1, ReadyChangeTyped
  <2> HIDE DEF s
  <2>4. side'[q].start \in BOOLEAN /\ side[q].start \in BOOLEAN
    BY <2>1, <2>2, <2>3, <1>1 DEF Side
  <2>5. OnReadyChange(s).start = FALSE /\ s.start = FALSE /\ side[p].start = FALSE
    BY <2>1, <2>3, <1>1 DEF Side
  <2>6. QED BY <2>2, <2>5, <1>1
<1>4. ASSUME NEW p \in Players, TryStart(p)
      PROVE  side'[q].start = side[q].start
  BY <1>1, <1>4 DEF TryStart, Side
<1>5. ASSUME NEW p \in Players, NEW l \in Links, OnReady(p, l)
      PROVE  /\ side'[q].start => side[q].start
             /\ side[q].start /\ ~side'[q].start =>
                   (side[q].meReady /\ side[q].otherReady => "Ready0" \in ToSet(wire[l][q]))
  <2>1. PICK b \in BOOLEAN :
           /\ Received(p, l, IF b THEN "Ready1" ELSE "Ready0")
           /\ side' = [side EXCEPT ![p] = OnReadyChange([@ EXCEPT !.otherReady = b])]
    BY <1>5 DEF OnReady
  <2> DEFINE s == [side[p] EXCEPT !.otherReady = b]
  <2>2. s \in Side /\ s.start = side[p].start /\ s.meReady = side[p].meReady /\ s.otherReady = b
    BY <1>1 DEF Side
  <2>3. side' = [side EXCEPT ![p] = OnReadyChange(s)]
    BY <2>1
  <2> HIDE DEF s
  <2>4. OnReadyChange(s).start => s.start
    BY <2>2, ReadyChangeTyped
  <2>5. CASE q # p
    BY <2>3, <2>5, <1>1
  <2>6. CASE q = p /\ b
    <3>1. side'[q] = OnReadyChange(s)
      BY <2>3, <2>6, <1>1
    <3>2. side[q].meReady /\ side[q].otherReady => OnReadyChange(s) = s
      BY <2>2, <2>6, ReadyChangeTyped
    <3>3. QED BY <2>2, <2>4, <2>6, <3>1, <3>2
  <2>7. CASE q = p /\ ~b
    <3>1. side'[q] = OnReadyChange(s)
      BY <2>3, <2>7, <1>1
    <3>2. "Ready0" \in ToSet(wire[l][q])
      BY <2>1, <2>7, <1>1, ConsumedTyped
    <3>3. QED BY <2>2, <2>4, <2>7, <3>1, <3>2
  <2>8. QED BY <2>5, <2>6, <2>7
<1>6. ASSUME NEW p \in Players, NEW l \in Links, OnStart(p, l)
      PROVE  (side'[q].start /\ ~side[q].start => q = p) /\ (side[q].start => side'[q].start)
  <2>1. side' = side \/ side' = [side EXCEPT ![p].start = TRUE]
    BY <1>6 DEF OnStart
  <2>2. QED BY <2>1, <1>1 DEF Side
<1>7. QED BY <1>2, <1>3, <1>4, <1>5, <1>6, FlagsStep

LEMMA StepKeepsNoUnready ==
  ASSUME "unready" \notin Commands, LinksFit, NoUnready, [Next]_vars
  PROVE  NoUnready'
<1>1. CASE UNCHANGED vars
  BY <1>1 DEF vars, NoUnready
<1>2. CASE Next
  <2> SUFFICES ASSUME NEW l \in Links, NEW q \in Players, "Ready0" \in ToSet(wire'[l][q])
               PROVE  FALSE
    BY DEF NoUnready
  <2>1. "Ready0" \notin ToSet(wire[l][q])
    BY DEF NoUnready
  <2>2. SendReady(Other(q), FALSE)
    BY <1>2, <2>1, NewMessage
  <2>3. QED BY <2>2 DEF SendReady, May
<1>3. QED BY <1>1, <1>2

LEMMA StepKeepsConfirmation ==
  ASSUME LinksFit, CommittedIsReady, EndsAsFlagged, NoUnready, StartsConfirmed, [Next]_vars
  PROVE  StartsConfirmed'
<1>1. CASE UNCHANGED vars
  BY <1>1 DEF vars, StartsConfirmed
<1>2. CASE Next
  <2>1. 1 \in Players /\ 2 \in Players /\ Other(1) = 2
    BY DEF Players, Other
  <2>2. side[2].start => side'[2].start
    <3>1. side[2].start => side[2].meReady /\ side[2].otherReady
      BY <2>1 DEF CommittedIsReady
    <3>2. QED BY <3>1, <1>2, <2>1, StartFlagStep DEF NoUnready
  <2>3. ASSUME NEW l \in Links, "Start" \in ToSet(wire'[l][1]) PROVE side'[2].start
    <3>1. CASE "Start" \in ToSet(wire[l][1])
      BY <2>2, <3>1 DEF StartsConfirmed
    <3>2. CASE "Start" \notin ToSet(wire[l][1])
      <4>1. TryStart(2) \/ \E k \in Links : OnStart(2, k) /\ side'[2].start
        BY <1>2, <2>1, <2>3, <3>2, NewMessage
      <4>2. QED BY <4>1 DEF TryStart
    <3>3. QED BY <3>1, <3>2
  <2>4. ASSUME side'[1].start PROVE side'[2].start
    <3>1. CASE side[1].start
      BY <2>2, <3>1 DEF StartsConfirmed
    <3>2. CASE ~side[1].start
      <4>1. PICK l \in Links : OnStart(1, l)
        BY <1>2, <2>1, <2>4, <3>2, StartFlagStep
      <4>2. "Start" \in ToSet(wire[l][1])
        BY <2>1, <4>1, ConsumedTyped DEF OnStart, LinksFit
      <4>3. QED BY <2>2, <4>2 DEF StartsConfirmed
    <3>3. QED BY <3>1, <3>2
  <2>5. outcome'[1] = "StartGame" => side'[1].start
    BY <1>2, <2>1, StepKeepsEndsAsFlagged DEF EndsAsFlagged
  <2>6. QED BY <2>3, <2>4, <2>5 DEF StartsConfirmed
<1>3. QED BY <1>1, <1>2

LEMMA InitConfirmed == Init => NoUnready /\ StartsConfirmed
<1> SUFFICES ASSUME Init PROVE NoUnready /\ StartsConfirmed
  OBVIOUS
<1>1. \A l \in Links, p \in Players : ToSet(wire[l][p]) = {}
  BY DEF Init, ToSet
<1>2. 1 \in Players /\ 2 \in Players
  BY DEF Players
<1>3. QED BY <1>1, <1>2 DEF Init, NoUnready, StartsConfirmed

\* The inductive invariant of a start: what player 1 hears of one is player 2's word.
THEOREM StartsAreConfirmed ==
  ASSUME "unready" \notin Commands
  PROVE  Spec => [](NoUnready /\ StartsConfirmed)
  BY InitConfirmed, LinksAlwaysFit, CommittedIsReadyHolds, EndsAsFlaggedHolds,
     StepKeepsNoUnready, StepKeepsConfirmation, PTL DEF Spec

\* Player 1, who gets the confirmation, never starts a game player 2 has not committed to,
\* whether links break or not, as long as nobody takes a ready back.
THEOREM OneStartsWithTwoHolds ==
  ASSUME "unready" \notin Commands
  PROVE  Spec => []OneStartsWithTwo
<1>1. StartsConfirmed => OneStartsWithTwo
  BY DEF StartsConfirmed, OneStartsWithTwo
<1>2. QED BY <1>1, StartsAreConfirmed, PTL
-----------------------------------------------------------------------------
(***************************************************************************)
(* Two games that start are given the same path, the one of the primary    *)
(* link.                                                                   *)
(*                                                                         *)
(* Player 1's first link decides.  Player 2 accepts a start over any link, *)
(* and only PRIMARY tells it which one to keep: the path could differ, or  *)
(* not be set, if a decision of player 1 could reach it without PRIMARY.   *)
(***************************************************************************)
\* The links of a list have one path, the primary links of both sides the same.
PathsFit ==
    /\ \A p \in Players : \A l \in ToSet(peers[p]) : cands[p] = {l.path}
    /\ peers[1] # <<>> => side[1].primary
    /\ side[1].primary => cands[1] = {side[1].primaryPath}
    /\ \A l \in Links : /\ "PRIMARY" \notin ToSet(wire[l][1])
                        /\ "PRIMARY" \in ToSet(wire[l][2])
                              => side[1].primary /\ side[1].primaryPath = l.path
    /\ side[2].primary => side[1].primary /\ side[1].primaryPath = side[2].primaryPath
    /\ side[1].start => side[1].primary

Decisions == {"Start", "Cancel"}

\* Each start and cancel comes after a PRIMARY.
Announced(s) ==
    \A i \in 1..Len(s) : s[i] \in Decisions => \E j \in 1..(i - 1) : s[j] = "PRIMARY"

\* Player 2 does not know the primary link yet.
Undecided == outcome[2] = "lobby" /\ ~side[2].primary

NothingDecided ==
    /\ ~side[2].start /\ ~side[2].cancel /\ ~side[2].tryCancel /\ ~side[2].tryStart
    /\ ~side[1].start /\ ~side[1].cancel
    /\ \A l \in Links : /\ \A p \in Players : end[l][p] \notin {"later", "closing"}
                        /\ ToSet(wire[l][1]) \cap (Decisions \cup {"DISCONNECT"}) = {}
                        /\ outcome[1] = "lobby" => "DISCONNECT" \notin ToSet(wire[l][2])

\* What player 1 uses reaches player 2, and PRIMARY does first, or its path is no candidate.
PrimaryFirst ==
    /\ \A l \in Links : Announced(wire[l][2]) \/ l.path \notin cands[2]
    /\ outcome[1] = "lobby" =>
          /\ \A l \in Links : end[l][1] \in {"accepting", "up"}
                                 => end[l][2] # "dead" \/ l.path \notin cands[2]
          /\ peers[1] # <<>> => \/ "PRIMARY" \in ToSet(wire[peers[1][1]][2])
                                \/ peers[1][1].path \notin cands[2]

UndecidedFit == Undecided => NothingDecided /\ PrimaryFirst
StartIsPrimary == side[2].start => side[2].primary
-----------------------------------------------------------------------------
(***************************************************************************)
(* What a step of p does to the ends.                                      *)
(***************************************************************************)
\* Dead(p, S): p's ends of the links in S die, and no other end changes.
Dead(p, S) ==
    \A k \in Links, q \in Players :
        end'[k][q] = IF q = p /\ k \in S THEN "dead" ELSE end[k][q]

\* m_Start and m_Cancel aside, which call enet_peer_disconnect_later.
LEMMA EndTable ==
  ASSUME LinksFit, NEW p \in Players
  PROVE  /\ (\E b \in BOOLEAN : SendReady(p, b)) \/ TryStart(p) \/ TryCancel(p) => end' = end
         /\ Update(p) => Dead(p, Redundant(p))
         /\ Leave(p) => Dead(p, Links) /\ outcome'[p] # "lobby"
         /\ \A l \in Links :
               /\ OnPrimary(p, l) \/ OnReady(p, l) \/ OnPing(p, l) \/ OnPong(p, l) => end' = end
               /\ Flush(p, l) => end[l][p] = "later"
               /\ OnConnect(p, l) =>
                     \/ l.path \notin cands[p] /\ Dead(p, {l}) /\ end[l][p] # "none"
                     \/ /\ l.path \in cands[p]
                        /\ l.from = p => end[l][p] = "connecting" /\ outcome[Other(p)] = "lobby"
                        /\ l.from # p => end[l][p] = "accepting"
                        /\ \A k \in Links, q \in Players :
                              end'[k][q] = IF k = l /\ q = p THEN "up"
                                           ELSE IF k = l /\ l.from = p THEN "accepting"
                                           ELSE end[k][q]
               /\ OnDisconnect(p, l) =>
                     \/ Dead(p, {l}) /\ Disconnects(p, l)
                     \/ Dead(p, Links) /\ outcome'[p] # "lobby"
<1>1. TypeOK /\ Other(p) \in Players /\ Other(p) # p /\ end \in [Links -> [Players -> EndStates]]
  BY OtherFacts DEF LinksFit, TypeOK
<1>2. ASSUME NEW l \in Links, end' = [end EXCEPT ![l][p] = "dead"] PROVE Dead(p, {l})
  BY <1>1, <1>2 DEF Dead
<1>3. ASSUME end' = [l \in Links |-> [end[l] EXCEPT ![p] = "dead"]] PROVE Dead(p, Links)
  BY <1>1, <1>3 DEF Dead
<1>4. ASSUME (\E b \in BOOLEAN : SendReady(p, b)) \/ TryStart(p) \/ TryCancel(p)
      PROVE  end' = end
  BY <1>4 DEF SendReady, TryStart, TryCancel
<1>5. ASSUME Update(p) PROVE Dead(p, Redundant(p))
  <2>1. end' = Reset(end, p, "dead")
    BY <1>5 DEF Update, CleanRedundantConnections
  <2>2. QED BY <2>1, <1>1 DEF Reset, Dead
<1>6. ASSUME Leave(p) PROVE Dead(p, Links) /\ outcome'[p] # "lobby"
  <2>1. /\ end' = [l \in Links |-> [end[l] EXCEPT ![p] = "dead"]]
        /\ outcome' = [outcome EXCEPT ![p] = "left"]
    BY <1>6 DEF Leave
  <2>2. QED BY <2>1, <1>1, <1>3 DEF TypeOK
<1>7. ASSUME NEW l \in Links,
             OnPrimary(p, l) \/ OnReady(p, l) \/ OnPing(p, l) \/ OnPong(p, l)
      PROVE  end' = end
  BY <1>7 DEF OnPrimary, OnReady, OnPing, OnPong
<1>8. ASSUME NEW l \in Links, Flush(p, l) PROVE end[l][p] = "later"
  BY <1>8 DEF Flush
<1>9. ASSUME NEW l \in Links, OnConnect(p, l), l.path \notin cands[p]
      PROVE  Dead(p, {l}) /\ end[l][p] # "none"
  BY <1>2, <1>9 DEF OnConnect
<1>10. ASSUME NEW l \in Links, OnConnect(p, l), l.path \in cands[p]
       PROVE  /\ l.from = p => end[l][p] = "connecting" /\ outcome[Other(p)] = "lobby"
              /\ l.from # p => end[l][p] = "accepting"
              /\ \A k \in Links, q \in Players :
                    end'[k][q] = IF k = l /\ q = p THEN "up"
                                 ELSE IF k = l /\ l.from = p THEN "accepting"
                                 ELSE end[k][q]
  <2>1. end' = [end EXCEPT ![l] = IF l.from = p
                                  THEN [@ EXCEPT ![p] = "up", ![Other(p)] = "accepting"]
                                  ELSE [@ EXCEPT ![p] = "up"]]
    BY <1>10 DEF OnConnect
  <2>2. QED BY <2>1, <1>1, <1>10, OtherFacts DEF OnConnect
<1>11. ASSUME NEW l \in Links, OnDisconnect(p, l)
       PROVE  \/ Dead(p, {l}) /\ Disconnects(p, l)
              \/ Dead(p, Links) /\ outcome'[p] # "lobby"
  <2>1. CASE end' = [end EXCEPT ![l][p] = "dead"]
    BY <2>1, <1>2, <1>11 DEF OnDisconnect
  <2>2. CASE /\ end' = [k \in Links |-> [end[k] EXCEPT ![p] = "dead"]]
             /\ outcome' = [outcome EXCEPT ![p] = Ending(side[p])]
    <3>1. Ending(side[p]) # "lobby"
      BY DEF Ending
    <3>2. QED BY <3>1, <2>2, <1>1, <1>3 DEF TypeOK
  <2>3. QED BY <1>11, <2>1, <2>2 DEF OnDisconnect
<1>12. QED BY <1>4, <1>5, <1>6, <1>7, <1>8, <1>9, <1>10, <1>11

\* The attempts are the object's own, and its partner has not heard of them.
AttemptsUnknown ==
    /\ \A p \in Players : \A l \in out[p] : l.from = p
    /\ \A l \in Links :
          end[l][l.from] = "connecting" /\ outcome[Other(l.from)] = "lobby"
             => end[l][Other(l.from)] = "none"

LEMMA StepKeepsUnknown ==
  ASSUME LinksFit, AttemptsUnknown, [Next]_vars
  PROVE  AttemptsUnknown'
<1>1. CASE UNCHANGED vars
  BY <1>1 DEF vars, AttemptsUnknown
<1>2. CASE Next
  <2>1. PICK p \in Players :
         \/ (\E b \in BOOLEAN : SendReady(p, b)) \/ TryStart(p) \/ TryCancel(p)
         \/ Leave(p) \/ Update(p)
         \/ \E k \in Links :
               \/ Flush(p, k)
               \/ /\ UNCHANGED looping
                  /\ \/ OnConnect(p, k) \/ OnDisconnect(p, k) \/ OnPrimary(p, k)
                     \/ OnStart(p, k) \/ OnCancel(p, k)
                     \/ OnReady(p, k) \/ OnPing(p, k) \/ OnPong(p, k)
    BY <1>2, NextCases
  <2>2. \A q \in Players : out'[q] \subseteq out[q]
    <3>1. \/ out' = out
          \/ out' = [out EXCEPT ![p] = @ \ Redundant(p)]
          \/ \E k \in Links : out' = [out EXCEPT ![p] = @ \ {k}]
      BY <2>1 DEF SendReady, TryStart, TryCancel, Leave, Update, Flush, OnConnect, OnDisconnect,
         OnPrimary, OnStart, OnCancel, OnReady, OnPing, OnPong, CleanRedundantConnections
    <3>2. QED BY <3>1 DEF LinksFit, TypeOK
  <2>3. \A k \in Links : k.from \in Players /\ Other(k.from) \in Players /\ Other(k.from) # k.from
    BY OtherFacts DEF Links
  <2> DEFINE Unknown(k) == end[k][k.from] = "connecting" /\ outcome[Other(k.from)] = "lobby"
                              => end[k][Other(k.from)] = "none"
  <2>4. ASSUME NEW k \in Links PROVE Unknown(k)'
    <3>1. Unknown(k)
      BY DEF AttemptsUnknown
    <3>2. outcome'[Other(k.from)] = "lobby" => outcome[Other(k.from)] = "lobby"
      BY <1>2, <2>3, OwnSteps
    <3>3. CASE end' = end
      BY <3>1, <3>2, <3>3
    <3>4. CASE Update(p)
      <4>1. k \in Redundant(p) => k \in out[p] \/ k \in ToSet(peers[p])
        BY DEF Redundant
      <4>2. k \in out[p] => k.from = p
        BY DEF AttemptsUnknown
      <4>3. k \in ToSet(peers[p]) /\ outcome[p] = "lobby" => end[k][p] # "none"
        BY DEF LinksFit, ListenersListed
      <4>4. outcome[p] = "lobby" /\ Dead(p, Redundant(p))
        BY <3>4, EndTable DEF Update
      <4>5. QED BY <3>1, <3>2, <4>1, <4>2, <4>3, <4>4, <2>3, OtherFacts DEF Dead
    <3>5. CASE Dead(p, Links) /\ outcome'[p] # "lobby"
      BY <3>1, <3>2, <3>5, <2>3, OtherFacts DEF Dead
    <3>6. ASSUME NEW l \in Links, Dead(p, {l}), end[l][p] # "none" PROVE Unknown(k)'
      BY <3>1, <3>2, <3>6, <2>3, OtherFacts DEF Dead
    <3>7. ASSUME NEW l \in Links, Flush(p, l) PROVE Unknown(k)'
      <4>1. end[l][p] = "later" /\ end' = [end EXCEPT ![l][p] = "closing"]
        BY <3>7 DEF Flush
      <4>2. \A q \in Players : end'[k][q] = IF k = l /\ q = p THEN "closing" ELSE end[k][q]
        BY <4>1 DEF LinksFit, TypeOK
      <4>3. QED BY <3>1, <3>2, <4>1, <4>2, <2>3
    <3>8. ASSUME NEW l \in Links, OnStart(p, l) \/ OnCancel(p, l) PROVE Unknown(k)'
      <4>1. end' = end \/ end' = DisconnectLater(p)
        BY <3>8 DEF OnStart, OnCancel
      <4>2. CASE end' = DisconnectLater(p)
        <5>1. \A q \in Players :
                 end'[k][q] = IF q = p /\ k \in ToSet(peers[p]) /\ end[k][p] = "up"
                              THEN "later" ELSE end[k][q]
          BY <4>2 DEF DisconnectLater, LinksFit, TypeOK
        <5>2. QED BY <3>1, <3>2, <5>1, <2>3
      <4>3. QED BY <4>1, <4>2, <3>3
    <3>9. ASSUME NEW l \in Links, OnConnect(p, l) PROVE Unknown(k)'
      <4>1. CASE Dead(p, {l}) /\ end[l][p] # "none"
        BY <3>6, <4>1
      <4>2. CASE \A j \in Links, q \in Players :
                    end'[j][q] = IF j = l /\ q = p THEN "up"
                                 ELSE IF j = l /\ l.from = p THEN "accepting"
                                 ELSE end[j][q]
        <5>1. l.from # p => end[l][p] = "accepting"
          BY <3>9 DEF OnConnect
        <5>2. QED BY <3>1, <3>2, <4>2, <5>1, <2>3, OtherFacts
      <4>3. QED BY <4>1, <4>2, <3>9, EndTable
    <3>10. ASSUME NEW l \in Links, OnDisconnect(p, l) PROVE Unknown(k)'
      <4>1. Disconnects(p, l) => end[l][p] # "none"
        BY DEF Disconnects, Received, Listening
      <4>2. QED BY <3>10, <4>1, <3>5, <3>6, EndTable
    <3> HIDE DEF Unknown
    <3>11. QED BY <2>1, <3>3, <3>4, <3>5, <3>7, <3>8, <3>9, <3>10, EndTable
  <2>5. QED BY <2>2, <2>4 DEF AttemptsUnknown
<1>3. QED BY <1>1, <1>2
-----------------------------------------------------------------------------
(***************************************************************************)
(* The lists have one path.                                                *)
(***************************************************************************)
\* A list grows with a link that connects, and only then are there fewer candidates; only
\* PRIMARY and the first link set m_PrimaryConnection.
LEMMA PathStep ==
  ASSUME LinksFit, Next, NEW q \in Players
  PROVE  \/ \E l \in Links : OnConnect(q, l) \/ OnPrimary(q, l)
         \/ /\ cands'[q] = cands[q] /\ ToSet(peers'[q]) \subseteq ToSet(peers[q])
            /\ side'[q].primary = side[q].primary
            /\ side'[q].primaryPath = side[q].primaryPath
<1>1. PICK p \in Players :
         \/ (\E b \in BOOLEAN : SendReady(p, b)) \/ TryStart(p) \/ TryCancel(p)
         \/ Leave(p) \/ Update(p)
         \/ \E k \in Links :
               \/ Flush(p, k)
               \/ /\ UNCHANGED looping
                  /\ \/ OnConnect(p, k) \/ OnDisconnect(p, k) \/ OnPrimary(p, k)
                     \/ OnStart(p, k) \/ OnCancel(p, k)
                     \/ OnReady(p, k) \/ OnPing(p, k) \/ OnPong(p, k)
  BY NextCases
<1>2. side \in [Players -> Side] /\ peers \in [Players -> Seq(Links)]
  BY DEF LinksFit, TypeOK
<1> DEFINE Same == /\ side'[q].primary = side[q].primary
                   /\ side'[q].primaryPath = side[q].primaryPath
<1>3. ASSUME NEW s \in Side, s.primary = side[p].primary, s.primaryPath = side[p].primaryPath,
             side' = [side EXCEPT ![p] = s]
      PROVE  Same
  BY <1>2, <1>3
<1>4. ASSUME side' = side PROVE Same
  BY <1>4
<1> HIDE DEF Same
<1>5. ASSUME NEW s \in Side
      PROVE  OnReadyChange(s) \in Side /\ OnReadyChange(s).primary = s.primary
             /\ OnReadyChange(s).primaryPath = s.primaryPath
  BY DEF OnReadyChange, Side
<1>6. ASSUME NEW b \in BOOLEAN, SendReady(p, b)
      PROVE  Same /\ cands' = cands /\ peers' = peers
  <2> DEFINE s == [side[p] EXCEPT !.meReady = b]
  <2>1. s \in Side /\ s.primary = side[p].primary /\ s.primaryPath = side[p].primaryPath
    BY <1>2 DEF Side
  <2>2. side' = [side EXCEPT ![p] = s] \/ side' = [side EXCEPT ![p] = OnReadyChange(s)]
    BY <1>6 DEF SendReady
  <2> HIDE DEF s
  <2>3. Same
    BY <2>1, <2>2, <1>3, <1>5
  <2>4. QED BY <2>3, <1>6 DEF SendReady
<1>7. ASSUME NEW k \in Links, OnReady(p, k)
      PROVE  Same /\ cands' = cands /\ peers' = peers
  <2>1. PICK b \in BOOLEAN :
           side' = [side EXCEPT ![p] = OnReadyChange([@ EXCEPT !.otherReady = b])]
    BY <1>7 DEF OnReady
  <2> DEFINE s == [side[p] EXCEPT !.otherReady = b]
  <2>2. s \in Side /\ s.primary = side[p].primary /\ s.primaryPath = side[p].primaryPath
    BY <1>2 DEF Side
  <2>3. side' = [side EXCEPT ![p] = OnReadyChange(s)]
    BY <2>1
  <2> HIDE DEF s
  <2>4. Same
    BY <2>2, <2>3, <1>3, <1>5
  <2>5. QED BY <2>4, <1>7 DEF OnReady
<1>8. ASSUME NEW k \in Links, OnStart(p, k) \/ OnCancel(p, k) \/ OnPong(p, k)
      PROVE  Same /\ cands' = cands /\ peers' = peers
  <2>1. ASSUME side' = [side EXCEPT ![p] = [@ EXCEPT !.start = TRUE]] PROVE Same
    <3>1. [side[p] EXCEPT !.start = TRUE] \in Side
      BY <1>2 DEF Side
    <3>2. QED BY <3>1, <2>1, <1>2, <1>3 DEF Side
  <2>2. ASSUME side' = [side EXCEPT ![p] = [@ EXCEPT !.cancel = TRUE]] PROVE Same
    <3>1. [side[p] EXCEPT !.cancel = TRUE] \in Side
      BY <1>2 DEF Side
    <3>2. QED BY <3>1, <2>2, <1>2, <1>3 DEF Side
  <2>3. ASSUME NEW b \in BOOLEAN, side' = [side EXCEPT ![p] = [@ EXCEPT !.pingSent = b]]
        PROVE  Same
    <3>1. [side[p] EXCEPT !.pingSent = b] \in Side
      BY <1>2 DEF Side
    <3>2. QED BY <3>1, <2>3, <1>2, <1>3 DEF Side
  <2>4. \/ side' = side
        \/ side' = [side EXCEPT ![p] = [@ EXCEPT !.start = TRUE]]
        \/ side' = [side EXCEPT ![p] = [@ EXCEPT !.cancel = TRUE]]
        \/ \E b \in BOOLEAN : side' = [side EXCEPT ![p] = [@ EXCEPT !.pingSent = b]]
    BY <1>8, <1>2 DEF OnStart, OnCancel, OnPong, Side
  <2>5. Same
    BY <2>1, <2>2, <2>3, <2>4, <1>4
  <2>6. QED BY <2>5, <1>8 DEF OnStart, OnCancel, OnPong
<1>9. ASSUME Update(p)
      PROVE  Same /\ cands' = cands /\ ToSet(peers'[q]) \subseteq ToSet(peers[q])
  <2>1. side' = side \/ side' = [side EXCEPT ![p] = [@ EXCEPT !.pingSent = TRUE]]
    BY <1>9 DEF Update, Ping
  <2>2. [side[p] EXCEPT !.pingSent = TRUE] \in Side
    BY <1>2 DEF Side
  <2>3. Same
    BY <2>1, <2>2, <1>2, <1>3, <1>4 DEF Side
  <2>4. ToSet(peers'[q]) \subseteq ToSet(peers[q])
    BY <1>9, CleanStep DEF Update
  <2>5. QED BY <2>3, <2>4, <1>9 DEF Update
<1>10. ASSUME NEW k \in Links, OnDisconnect(p, k)
       PROVE  Same /\ cands' = cands /\ ToSet(peers'[q]) \subseteq ToSet(peers[q])
  <2>1. peers' = [peers EXCEPT ![p] = RemoveFirst(@, k)] /\ side' = side /\ cands' = cands
    BY <1>10 DEF OnDisconnect
  <2>2. ToSet(RemoveFirst(peers[p], k)) \subseteq ToSet(peers[p])
    BY <1>2, RemoveFirstFacts DEF LinksFit, TypeOK
  <2>3. QED BY <2>1, <2>2, <1>2, <1>4
<1>11. ASSUME NEW k \in Links, Flush(p, k) \/ OnPing(p, k)
       PROVE  Same /\ cands' = cands /\ peers' = peers
  BY <1>4, <1>11 DEF Flush, OnPing
<1>12. ASSUME Leave(p)
       PROVE  Same /\ cands' = cands /\ peers' = peers
  BY <1>4, <1>12 DEF Leave
<1>13. ASSUME TryStart(p) \/ TryCancel(p)
       PROVE  Same /\ cands' = cands /\ peers' = peers
  <2>1. /\ [side[p] EXCEPT !.tryStart = TRUE] \in Side
        /\ [side[p] EXCEPT !.tryCancel = TRUE] \in Side
    BY <1>2 DEF Side
  <2>2. \/ side' = [side EXCEPT ![p] = [@ EXCEPT !.tryStart = TRUE]]
        \/ side' = [side EXCEPT ![p] = [@ EXCEPT !.tryCancel = TRUE]]
    BY <1>13 DEF TryStart, TryCancel
  <2>3. Same
    BY <2>1, <2>2, <1>2, <1>3 DEF Side
  <2>4. QED BY <2>3, <1>13 DEF TryStart, TryCancel
<1>14. CASE \E k \in Links : OnConnect(p, k) \/ OnPrimary(p, k)
  <2>1. PICK k \in Links : OnConnect(p, k) \/ OnPrimary(p, k)
    BY <1>14
  <2>2. CASE q = p
    BY <2>1, <2>2
  <2>3. CASE q # p /\ OnConnect(p, k)
    <3>1. cands'[q] = cands[q] /\ peers'[q] = peers[q] /\ side'[q] = side[q]
      BY <2>3, <1>2 DEF OnConnect, LinksFit, TypeOK
    <3>2. QED BY <3>1
  <2>4. CASE q # p /\ OnPrimary(p, k)
    <3>1. k \in ToSet(peers[p])
      BY <2>4, ReceivedListed DEF OnPrimary
    <3>2. peers' = [peers EXCEPT ![p] = peers'[p]]
          /\ side' = [side EXCEPT ![p].primary = TRUE, ![p].primaryPath = k.path]
      BY <2>4, <3>1, PrimaryStep DEF LinksFit
    <3>3. peers'[q] = peers[q] /\ side'[q] = side[q]
      BY <2>4, <3>2, <1>2
    <3>4. QED BY <2>4, <3>3 DEF OnPrimary
  <2>5. QED BY <2>1, <2>2, <2>3, <2>4
<1>15. QED BY <1>1, <1>6, <1>7, <1>8, <1>9, <1>10, <1>11, <1>12, <1>13, <1>14 DEF Same

\* The object a link connects to.
LEMMA ConnectStep ==
  ASSUME LinksFit, NEW p \in Players, NEW l \in Links, OnConnect(p, l)
  PROVE  /\ \/ /\ l.path \in cands[p] /\ cands'[p] = {l.path}
               /\ ToSet(peers'[p]) = ToSet(peers[p]) \cup {l}
               /\ peers'[p] # <<>> /\ peers'[p] = Append(peers[p], l)
               /\ peers[p] = <<>> => peers'[p][1] = l
               /\ peers[p] # <<>> => peers'[p][1] = peers[p][1]
            \/ /\ l.path \notin cands[p] /\ UNCHANGED <<cands, peers, side>>
               /\ wire' = [wire EXCEPT ![l][p] = <<>>]
         /\ \/ /\ l.path \in cands[p] /\ peers[p] = <<>> /\ p = 1
               /\ side'[p].primary /\ side'[p].primaryPath = l.path
               /\ side' = [side EXCEPT ![p].primary = TRUE, ![p].primaryPath = l.path]
               /\ wire' = IF end[l][2] \in {"closing", "dead"} THEN wire
                          ELSE [wire EXCEPT ![l][2] = Append(@, "PRIMARY")]
            \/ /\ side' = side /\ ~(l.path \in cands[p] /\ peers[p] = <<>> /\ p = 1)
               /\ wire' = wire \/ wire' = [wire EXCEPT ![l][p] = <<>>]
<1>1. /\ peers \in [Players -> Seq(Links)] /\ cands \in [Players -> SUBSET Paths]
      /\ side \in [Players -> Side] /\ peers[p] \in Seq(Links)
  BY DEF LinksFit, TypeOK
<1>2. CASE l.path \in cands[p]
  <2>1. cands'[p] = {l.path} /\ peers'[p] = Append(peers[p], l)
    BY <1>1, <1>2 DEF OnConnect
  <2>2. /\ ToSet(Append(peers[p], l)) = ToSet(peers[p]) \cup {l} /\ Append(peers[p], l) # <<>>
        /\ peers[p] = <<>> => Append(peers[p], l)[1] = l
        /\ peers[p] # <<>> => Append(peers[p], l)[1] = peers[p][1]
    <3>1. ToSet(Append(peers[p], l)) = ToSet(peers[p]) \cup {l} /\ Append(peers[p], l) # <<>>
      BY <1>1, AppendFacts
    <3>2. /\ Append(peers[p], l)[Len(peers[p]) + 1] = l
          /\ \A j \in 1..Len(peers[p]) : Append(peers[p], l)[j] = peers[p][j]
      BY <1>1, AppendProperties
    <3>3. peers[p] = <<>> => Len(peers[p]) = 0
      BY EmptySeq
    <3>4. peers[p] # <<>> => 1 \in 1..Len(peers[p])
      BY <1>1, ToSetFacts
    <3>5. QED BY <3>1, <3>2, <3>3, <3>4
  <2>3. CASE peers[p] = <<>> /\ p = 1
    <3>1. /\ side' = [side EXCEPT ![p].primary = TRUE, ![p].primaryPath = l.path]
          /\ wire' = IF end[l][2] \in {"closing", "dead"} THEN wire
                     ELSE [wire EXCEPT ![l][2] = Append(@, "PRIMARY")]
      BY <1>2, <2>3 DEF OnConnect
    <3>2. side'[p].primary /\ side'[p].primaryPath = l.path
      BY <3>1, <1>1 DEF Side
    <3>3. QED BY <2>1, <2>2, <2>3, <3>1, <3>2, <1>2
  <2>4. CASE ~(peers[p] = <<>> /\ p = 1)
    <3>1. UNCHANGED <<side, wire>>
      BY <1>2, <2>4 DEF OnConnect
    <3>2. QED BY <2>1, <2>2, <2>4, <3>1, <1>2
  <2>5. QED BY <2>3, <2>4
<1>3. CASE l.path \notin cands[p]
  BY <1>3 DEF OnConnect
<1>4. QED BY <1>2, <1>3

LEMMA PlayerFacts == 1 \in Players /\ 2 \in Players /\ Other(1) = 2 /\ Other(2) = 1
  BY DEF Players, Other

LEMMA StepKeepsPaths ==
  ASSUME LinksFit, PathsFit, [Next]_vars
  PROVE  PathsFit'
<1>1. CASE UNCHANGED vars
  BY <1>1 DEF vars, PathsFit
<1>2. CASE Next
  <2>1. /\ LinksFit' /\ side \in [Players -> Side]
        /\ peers[1] \in Seq(Links) /\ peers'[1] \in Seq(Links)
    BY <1>2, StepKeepsFit, PlayerFacts DEF LinksFit, TypeOK
  <2>2. ASSUME NEW p \in Players, NEW l \in ToSet(peers'[p]) PROVE cands'[p] = {l.path}
    <3>1. CASE \E k \in Links : OnConnect(p, k)
      <4>1. PICK k \in Links : OnConnect(p, k)
        BY <3>1
      <4>2. CASE UNCHANGED <<cands, peers, side>>
        BY <4>2 DEF PathsFit
      <4>3. CASE /\ k.path \in cands[p] /\ cands'[p] = {k.path}
                 /\ ToSet(peers'[p]) = ToSet(peers[p]) \cup {k}
        <5>1. l = k \/ cands[p] = {l.path}
          BY <4>3 DEF PathsFit
        <5>2. l.path = k.path
          BY <4>3, <5>1
        <5>3. QED BY <4>3, <5>2
      <4>4. QED BY <4>1, <4>2, <4>3, ConnectStep
    <3>2. CASE \E k \in Links : OnPrimary(p, k)
      <4>1. PICK k \in Links : OnPrimary(p, k)
        BY <3>2
      <4>2. k \in ToSet(peers[p])
        BY <4>1, ReceivedListed DEF OnPrimary
      <4>3. ToSet(peers'[p]) = ToSet(peers[p]) /\ cands' = cands
        BY <4>1, <4>2, PrimaryStep DEF LinksFit, OnPrimary
      <4>4. QED BY <4>3 DEF PathsFit
    <3>3. QED BY <1>2, <3>1, <3>2, PathStep DEF PathsFit
  <2>3. ASSUME NEW l \in Links, OnPrimary(1, l) PROVE FALSE
    BY <2>3, PlayerFacts, ConsumedTyped DEF OnPrimary, PathsFit, LinksFit
  <2>4. ASSUME side[1].primary
        PROVE  side'[1].primary /\ side'[1].primaryPath = side[1].primaryPath
    <3>1. CASE \E k \in Links : OnConnect(1, k)
      <4>1. PICK k \in Links : OnConnect(1, k)
        BY <3>1
      <4>2. cands[1] = {side[1].primaryPath}
        BY <2>4 DEF PathsFit
      <4>3. CASE side' = side
        BY <2>4, <4>3
      <4>4. CASE k.path \in cands[1] /\ side'[1].primary /\ side'[1].primaryPath = k.path
        BY <4>2, <4>4
      <4>5. QED BY <4>1, <4>3, <4>4, PlayerFacts, ConnectStep
    <3>2. QED BY <1>2, <2>3, <2>4, <3>1, PlayerFacts, PathStep
  <2>5. ASSUME peers'[1] # <<>> PROVE side'[1].primary
    <3>1. CASE \E k \in Links : OnConnect(1, k)
      BY <2>4, <2>5, <3>1, PlayerFacts, ConnectStep DEF PathsFit
    <3>2. CASE ToSet(peers'[1]) \subseteq ToSet(peers[1])
      <4>1. peers[1] # <<>>
        <5>1. peers'[1][1] \in ToSet(peers'[1])
          BY <2>1, <2>5, ToSetFacts
        <5>2. peers[1] = <<>> => ToSet(peers[1]) = {}
          BY DEF ToSet
        <5>3. QED BY <3>2, <5>1, <5>2
      <4>2. QED BY <2>4, <4>1 DEF PathsFit
    <3>3. QED BY <1>2, <2>3, <3>1, <3>2, PlayerFacts, PathStep
  <2>6. ASSUME side'[1].primary PROVE cands'[1] = {side'[1].primaryPath}
    <3>1. CASE \E k \in Links : OnConnect(1, k)
      <4>1. PICK k \in Links : OnConnect(1, k)
        BY <3>1
      <4>2. CASE UNCHANGED <<cands, peers, side>>
        BY <2>6, <4>2 DEF PathsFit
      <4>3. CASE /\ k.path \in cands[1] /\ cands'[1] = {k.path}
                 /\ side'[1].primaryPath = k.path
        BY <4>3
      <4>4. CASE k.path \in cands[1] /\ cands'[1] = {k.path} /\ side' = side
        BY <2>6, <4>4 DEF PathsFit
      <4>5. QED BY <4>1, <4>2, <4>3, <4>4, PlayerFacts, ConnectStep
    <3>2. QED BY <1>2, <2>3, <2>6, <3>1, PlayerFacts, PathStep DEF PathsFit
  <2>7. ASSUME NEW l \in Links PROVE "PRIMARY" \notin ToSet(wire'[l][1])
    <3>1. "PRIMARY" \notin ToSet(wire[l][1])
      BY DEF PathsFit
    <3>2. ASSUME "PRIMARY" \in ToSet(wire'[l][1]) PROVE Other(1) = 1
      BY <1>2, <3>1, <3>2, PlayerFacts, NewMessage
    <3>3. QED BY <3>2, PlayerFacts
  <2>8. ASSUME NEW l \in Links, "PRIMARY" \in ToSet(wire'[l][2])
        PROVE  side'[1].primary /\ side'[1].primaryPath = l.path
    <3>1. CASE "PRIMARY" \in ToSet(wire[l][2])
      BY <2>4, <3>1 DEF PathsFit
    <3>2. CASE "PRIMARY" \notin ToSet(wire[l][2])
      <4>1. OnConnect(1, l)
        BY <1>2, <2>8, <3>2, PlayerFacts, NewMessage
      <4>2. wire' # wire /\ wire' # [wire EXCEPT ![l][1] = <<>>]
        <5>1. wire'[l][2] # wire[l][2]
          BY <2>8, <3>2
        <5>2. [wire EXCEPT ![l][1] = <<>>][l][2] = wire[l][2]
          BY PlayerFacts DEF LinksFit, TypeOK
        <5>3. QED BY <5>1, <5>2
      <4>3. QED BY <4>1, <4>2, PlayerFacts, ConnectStep
    <3>3. QED BY <3>1, <3>2
  <2>9. ASSUME side'[2].primary
        PROVE  side'[1].primary /\ side'[1].primaryPath = side'[2].primaryPath
    <3>1. CASE \E k \in Links : OnConnect(2, k)
      BY <2>4, <2>9, <3>1, PlayerFacts, ConnectStep DEF PathsFit
    <3>2. CASE \E k \in Links : OnPrimary(2, k)
      <4>1. PICK k \in Links : OnPrimary(2, k)
        BY <3>2
      <4>2. k \in ToSet(peers[2]) /\ "PRIMARY" \in ToSet(wire[k][2])
        BY <4>1, PlayerFacts, ReceivedListed, ConsumedTyped DEF OnPrimary, LinksFit
      <4>3. side' = [side EXCEPT ![2].primary = TRUE, ![2].primaryPath = k.path]
        BY <4>1, <4>2, PlayerFacts, PrimaryStep DEF LinksFit
      <4>4. side'[2].primaryPath = k.path
        BY <2>1, <4>3, PlayerFacts DEF Side
      <4>5. QED BY <2>4, <4>2, <4>4 DEF PathsFit
    <3>3. QED BY <1>2, <2>4, <2>9, <3>1, <3>2, PlayerFacts, PathStep DEF PathsFit
  <2>10. ASSUME side'[1].start PROVE side'[1].primary
    <3>1. CASE side[1].start
      BY <2>4, <3>1 DEF PathsFit
    <3>2. CASE ~side[1].start
      <4>1. PICK l \in Links : OnStart(1, l)
        BY <1>2, <2>10, <3>2, PlayerFacts, StartFlagStep
      <4>2. peers[1] # <<>>
        BY <4>1, PlayerFacts, ReceivedListed DEF OnStart
      <4>3. QED BY <2>4, <4>2 DEF PathsFit
    <3>3. QED BY <3>1, <3>2
  <2>11. QED BY <2>2, <2>5, <2>6, <2>7, <2>8, <2>9, <2>10 DEF PathsFit
<1>3. QED BY <1>1, <1>2

LEMMA InitPaths == Init => PathsFit
<1> SUFFICES ASSUME Init PROVE PathsFit
  OBVIOUS
<1>1. /\ \A l \in Links, p \in Players : ToSet(wire[l][p]) = {}
      /\ \A p \in Players : peers[p] = <<>> /\ ToSet(peers[p]) = {}
  BY DEF Init, ToSet
<1>2. QED BY <1>1, PlayerFacts DEF Init, PathsFit

\* The lists of both objects hold links over one path each, from the first that connects, and
\* what both take for the primary connection is one path, even when links break.
THEOREM ListsHaveOnePath == Spec => []PathsFit
  BY InitPaths, LinksAlwaysFit, StepKeepsPaths, PTL DEF Spec
-----------------------------------------------------------------------------
(***************************************************************************)
(* PRIMARY comes first.                                                    *)
(***************************************************************************)
\* A queue in which each decision comes after a PRIMARY stays one.
LEMMA AnnouncedFacts ==
  ASSUME NEW s \in Seq(Msgs), Announced(s)
  PROVE  /\ s # <<>> => /\ Head(s) \notin Decisions
                        /\ Head(s) # "PRIMARY" => Announced(Tail(s))
         /\ \A m \in Msgs : m \notin Decisions \/ "PRIMARY" \in ToSet(s)
                              => Announced(Append(s, m))
         /\ \A n \in 0..Len(s) : Announced(Append(SubSeq(s, 1, n), "DISCONNECT"))
<1>1. Len(s) \in Nat
  BY LenProperties
<1>2. ASSUME s # <<>>, Head(s) \in Decisions PROVE FALSE
  <2>1. 1 \in 1..Len(s) /\ Head(s) = s[1]
    BY <1>2, ToSetFacts, HeadTailProperties
  <2>2. \E j \in 1..(1 - 1) : s[j] = "PRIMARY"
    BY <1>2, <2>1 DEF Announced
  <2>3. QED BY <2>2
<1>3. ASSUME s # <<>>, Head(s) # "PRIMARY" PROVE Announced(Tail(s))
  <2> DEFINE t == Tail(s)
  <2>1. /\ s[1] # "PRIMARY" /\ t \in Seq(Msgs) /\ Len(t) = Len(s) - 1
        /\ \A i \in 1..Len(t) : t[i] = s[i + 1]
    BY <1>3, HeadTailProperties
  <2> HIDE DEF t
  <2> SUFFICES ASSUME NEW i \in 1..Len(t), t[i] \in Decisions
               PROVE  \E j \in 1..(i - 1) : t[j] = "PRIMARY"
    BY DEF Announced, t
  <2>2. i + 1 \in 1..Len(s) /\ s[i + 1] \in Decisions
    BY <1>1, <2>1
  <2>3. PICK j \in 1..((i + 1) - 1) : s[j] = "PRIMARY"
    BY <2>2 DEF Announced
  <2>4. j - 1 \in 1..(i - 1) /\ j - 1 \in 1..Len(t) /\ (j - 1) + 1 = j
    BY <1>1, <2>1, <2>3
  <2>5. QED BY <2>1, <2>3, <2>4
<1>4. ASSUME NEW m \in Msgs, m \notin Decisions \/ "PRIMARY" \in ToSet(s)
      PROVE  Announced(Append(s, m))
  <2> DEFINE t == Append(s, m)
  <2>1. /\ Len(t) = Len(s) + 1 /\ t[Len(s) + 1] = m
        /\ \A i \in 1..Len(s) : t[i] = s[i]
    BY AppendProperties
  <2> HIDE DEF t
  <2> SUFFICES ASSUME NEW i \in 1..Len(t), t[i] \in Decisions
               PROVE  \E j \in 1..(i - 1) : t[j] = "PRIMARY"
    BY DEF Announced, t
  <2>2. CASE i = Len(s) + 1
    <3>1. "PRIMARY" \in ToSet(s)
      BY <1>4, <2>1, <2>2
    <3>2. PICK j \in 1..Len(s) : s[j] = "PRIMARY"
      BY <3>1, ToSetFacts
    <3>3. j \in 1..(i - 1) /\ t[j] = "PRIMARY"
      BY <1>1, <2>1, <2>2, <3>2
    <3>4. QED BY <3>3
  <2>3. CASE i \in 1..Len(s)
    <3>1. PICK j \in 1..(i - 1) : s[j] = "PRIMARY"
      BY <2>1, <2>3 DEF Announced
    <3>2. j \in 1..Len(s)
      BY <1>1, <2>3
    <3>3. QED BY <2>1, <3>1, <3>2
  <2>4. QED BY <1>1, <2>1, <2>2, <2>3
<1>5. ASSUME NEW n \in 0..Len(s) PROVE Announced(Append(SubSeq(s, 1, n), "DISCONNECT"))
  <2> DEFINE u == SubSeq(s, 1, n)
             t == Append(u, "DISCONNECT")
  <2>1. u \in Seq(Msgs) /\ Len(u) = n /\ \A i \in 1..n : u[i] = s[i]
    BY <1>1, SubSeqProperties
  <2> HIDE DEF u
  <2>2. /\ Len(t) = n + 1 /\ t[n + 1] = "DISCONNECT"
        /\ \A i \in 1..n : t[i] = s[i]
    <3>1. "DISCONNECT" \in Msgs
      BY DEF Msgs
    <3>2. QED BY <2>1, <3>1, AppendProperties
  <2> HIDE DEF t
  <2> SUFFICES ASSUME NEW i \in 1..Len(t), t[i] \in Decisions
               PROVE  \E j \in 1..(i - 1) : t[j] = "PRIMARY"
    BY DEF Announced, t, u
  <2>3. i \in 1..n
    BY <1>1, <2>2 DEF Decisions
  <2>4. i \in 1..Len(s) /\ s[i] \in Decisions
    BY <1>1, <2>2, <2>3
  <2>5. PICK j \in 1..(i - 1) : s[j] = "PRIMARY"
    BY <2>4 DEF Announced
  <2>6. j \in 1..n
    BY <1>1, <2>3
  <2>7. QED BY <2>2, <2>5, <2>6
<1>6. QED BY <1>2, <1>3, <1>4, <1>5

\* The flags of a cancel, and the one of a start that waits, are only set where one is tried
\* or received.
LEMMA TryFlagStep ==
  ASSUME LinksFit, Next, NEW q \in Players
  PROVE  /\ side'[q].cancel /\ ~side[q].cancel => \E l \in Links : OnCancel(q, l)
         /\ side'[q].tryCancel /\ ~side[q].tryCancel => TryCancel(q)
         /\ side'[q].tryStart /\ ~side[q].tryStart => TryStart(q)
<1>1. PICK p \in Players :
         \/ (\E b \in BOOLEAN : SendReady(p, b)) \/ TryStart(p) \/ TryCancel(p)
         \/ Leave(p) \/ Update(p)
         \/ \E k \in Links :
               \/ Flush(p, k)
               \/ /\ UNCHANGED looping
                  /\ \/ OnConnect(p, k) \/ OnDisconnect(p, k) \/ OnPrimary(p, k)
                     \/ OnStart(p, k) \/ OnCancel(p, k)
                     \/ OnReady(p, k) \/ OnPing(p, k) \/ OnPong(p, k)
  BY NextCases
<1>2. side \in [Players -> Side] /\ side[p] \in Side
  BY DEF LinksFit, TypeOK
<1> DEFINE Same(s, t) == /\ t.cancel => s.cancel
                         /\ t.tryCancel => s.tryCancel
                         /\ t.tryStart => s.tryStart
<1>3. ASSUME NEW s \in Side
      PROVE  OnReadyChange(s) \in Side /\ Same(s, OnReadyChange(s))
  BY DEF OnReadyChange, Side
<1>4. ASSUME NEW s \in Side, side' = [side EXCEPT ![p] = s], Same(side[p], s)
      PROVE  Same(side[q], side'[q])
  BY <1>2, <1>4
<1>5. ASSUME side' = side PROVE Same(side[q], side'[q])
  BY <1>5
<1>6. ASSUME NEW b \in BOOLEAN, SendReady(p, b) PROVE Same(side[q], side'[q])
  <2> DEFINE s == [side[p] EXCEPT !.meReady = b]
  <2>1. s \in Side /\ Same(side[p], s)
    BY <1>2 DEF Side
  <2>2. side' = [side EXCEPT ![p] = s] \/ side' = [side EXCEPT ![p] = OnReadyChange(s)]
    BY <1>6 DEF SendReady
  <2> HIDE DEF s
  <2>3. Same(side[p], OnReadyChange(s))
    BY <2>1, <1>3
  <2> HIDE DEF Same
  <2>4. QED BY <2>1, <2>2, <2>3, <1>3, <1>4
<1>7. ASSUME NEW k \in Links, OnReady(p, k) PROVE Same(side[q], side'[q])
  <2>1. PICK b \in BOOLEAN :
           side' = [side EXCEPT ![p] = OnReadyChange([@ EXCEPT !.otherReady = b])]
    BY <1>7 DEF OnReady
  <2> DEFINE s == [side[p] EXCEPT !.otherReady = b]
  <2>2. s \in Side /\ Same(side[p], s) /\ side' = [side EXCEPT ![p] = OnReadyChange(s)]
    BY <2>1, <1>2 DEF Side
  <2> HIDE DEF s
  <2>3. Same(side[p], OnReadyChange(s))
    BY <2>2, <1>3
  <2> HIDE DEF Same
  <2>4. QED BY <2>2, <2>3, <1>3, <1>4
<1>8. ASSUME \/ Update(p)
             \/ \E k \in Links :
                   OnConnect(p, k) \/ OnPrimary(p, k) \/ OnStart(p, k) \/ OnPong(p, k)
      PROVE  Same(side[q], side'[q])
  <2>1. \/ side' = side
        \/ side' = [side EXCEPT ![p].start = TRUE]
        \/ \E b \in BOOLEAN : side' = [side EXCEPT ![p].pingSent = b]
        \/ \E x : side' = [side EXCEPT ![p].primary = TRUE, ![p].primaryPath = x]
    BY <1>8, <1>2 DEF Update, Ping, OnConnect, OnPrimary, OnStart, OnPong, Side
  <2>2. QED BY <2>1, <1>2 DEF Side
<1>9. ASSUME NEW k \in Links, OnCancel(p, k)
      PROVE  \/ Same(side[q], side'[q])
             \/ q = p /\ (side'[q].tryCancel => side[q].tryCancel)
                      /\ (side'[q].tryStart => side[q].tryStart)
  <2>1. side' = [side EXCEPT ![p].cancel = TRUE]
    BY <1>9 DEF OnCancel
  <2>2. QED BY <2>1, <1>2 DEF Side
<1>10. ASSUME TryStart(p)
       PROVE  \/ Same(side[q], side'[q])
              \/ q = p /\ (side'[q].cancel => side[q].cancel)
                       /\ (side'[q].tryCancel => side[q].tryCancel)
  <2>1. side' = [side EXCEPT ![p].tryStart = TRUE]
    BY <1>10 DEF TryStart
  <2>2. QED BY <2>1, <1>2 DEF Side
<1>11. ASSUME TryCancel(p)
       PROVE  \/ Same(side[q], side'[q])
              \/ q = p /\ (side'[q].cancel => side[q].cancel)
                       /\ (side'[q].tryStart => side[q].tryStart)
  <2>1. side' = [side EXCEPT ![p].tryCancel = TRUE]
    BY <1>11 DEF TryCancel
  <2>2. QED BY <2>1, <1>2 DEF Side
<1>12. ASSUME \/ Leave(p)
              \/ \E k \in Links : Flush(p, k) \/ OnDisconnect(p, k) \/ OnPing(p, k)
       PROVE  Same(side[q], side'[q])
  BY <1>12, <1>5 DEF Leave, Flush, OnDisconnect, OnPing
<1>13. QED BY <1>1, <1>6, <1>7, <1>8, <1>9, <1>10, <1>11, <1>12
-----------------------------------------------------------------------------
(***************************************************************************)
(* While player 2 does not know the primary link, nobody decides.          *)
(***************************************************************************)
\* The steps that leave player 2 without it.
LEMMA UndecidedCases ==
  ASSUME LinksFit, PathsFit, UndecidedFit, Next, Undecided'
  PROVE  /\ Undecided /\ NothingDecided /\ PrimaryFirst
         /\ \A p \in Players, l \in Links :
               ~OnStart(p, l) /\ ~OnCancel(p, l) /\ ~OnPrimary(p, l) /\ ~Flush(p, l)
         /\ ~TryStart(2) /\ ~TryCancel(2) /\ ~Leave(2)
<1>1. side \in [Players -> Side] /\ outcome \in [Players -> Outcomes] /\ TypeOK
  BY DEF LinksFit, TypeOK
<1>2. ASSUME NEW l \in Links, OnPrimary(2, l) PROVE FALSE
  <2>1. l \in ToSet(peers[2])
    BY <1>2, PlayerFacts, ReceivedListed DEF OnPrimary
  <2>2. side' = [side EXCEPT ![2].primary = TRUE, ![2].primaryPath = l.path]
    BY <1>2, <2>1, PlayerFacts, PrimaryStep DEF LinksFit
  <2>3. side'[2].primary
    BY <1>1, <2>2, PlayerFacts DEF Side
  <2>4. QED BY <2>3 DEF Undecided
<1>3. ASSUME NEW l \in Links, OnPrimary(1, l) PROVE FALSE
  BY <1>3, <1>1, PlayerFacts, ConsumedTyped DEF OnPrimary, PathsFit
<1>4. Undecided
  <2>1. outcome[2] = "lobby"
    BY PlayerFacts, OwnSteps DEF Undecided
  <2>2. side'[2].primary = side[2].primary
    <3>1. ASSUME NEW l \in Links, OnConnect(2, l) PROVE side'[2] = side[2]
      BY <3>1 DEF OnConnect
    <3>2. QED BY <1>2, <3>1, PlayerFacts, PathStep
  <2>3. QED BY <2>1, <2>2 DEF Undecided
<1>5. NothingDecided /\ PrimaryFirst
  BY <1>4 DEF UndecidedFit
<1>6. ASSUME NEW p \in Players, NEW l \in Links, OnStart(p, l) \/ OnCancel(p, l) PROVE FALSE
  <2>1. PICK m \in Decisions : Received(p, l, m)
    BY <1>6 DEF OnStart, OnCancel, Decisions
  <2>2. m \in ToSet(wire[l][p]) /\ l \in ToSet(peers[p])
    BY <1>1, <2>1, ConsumedTyped, ReceivedListed
  <2>3. CASE p = 1
    BY <1>5, <2>2, <2>3 DEF NothingDecided
  <2>4. CASE p = 2
    <3>1. cands[2] = {l.path}
      BY <2>2, <2>4, PlayerFacts DEF PathsFit
    <3>2. Announced(wire[l][2])
      BY <1>5, <3>1 DEF PrimaryFirst
    <3>3. wire[l][2] \in Seq(Msgs) /\ wire[l][2] # <<>> /\ Head(wire[l][2]) = m
      BY <2>1, <2>4, <1>1 DEF Received, TypeOK
    <3>4. QED BY <3>2, <3>3, <2>1, AnnouncedFacts
  <2>5. QED BY <2>3, <2>4 DEF Players
<1>7. ~TryStart(2) /\ ~TryCancel(2)
  BY <1>4 DEF TryStart, TryCancel, Undecided
<1>8. ASSUME Leave(2) PROVE FALSE
  BY <1>8, <1>1, PlayerFacts DEF Leave, Undecided
<1>9. ASSUME NEW p \in Players, NEW l \in Links, Flush(p, l) PROVE FALSE
  BY <1>5, <1>9 DEF Flush, NothingDecided
<1>10. ASSUME NEW p \in Players, NEW l \in Links, OnPrimary(p, l) PROVE FALSE
  BY <1>2, <1>3, <1>10 DEF Players
<1>11. QED BY <1>4, <1>5, <1>6, <1>7, <1>8, <1>9, <1>10

\* So the ends only connect, or die.
LEMMA UndecidedEnds ==
  ASSUME LinksFit, PathsFit, UndecidedFit, Next, Undecided', NEW l \in Links, NEW q \in Players
  PROVE  end'[l][q] \in {end[l][q], "dead", "up", "accepting"}
<1>1. PICK p \in Players :
         \/ (\E b \in BOOLEAN : SendReady(p, b)) \/ TryStart(p) \/ TryCancel(p)
         \/ Leave(p) \/ Update(p)
         \/ \E k \in Links :
               OnConnect(p, k) \/ OnDisconnect(p, k) \/ OnReady(p, k) \/ OnPing(p, k) \/ OnPong(p, k)
  BY NextCases, UndecidedCases
<1>2. ASSUME NEW S, Dead(p, S) PROVE end'[l][q] \in {end[l][q], "dead"}
  BY <1>2 DEF Dead
<1>3. CASE Leave(p)
  BY <1>2, <1>3, EndTable
<1>4. CASE Update(p)
  BY <1>2, <1>4, EndTable
<1>5. ASSUME NEW k \in Links, OnDisconnect(p, k) PROVE end'[l][q] \in {end[l][q], "dead"}
  BY <1>2, <1>5, EndTable
<1>6. ASSUME NEW k \in Links, OnConnect(p, k)
      PROVE  end'[l][q] \in {end[l][q], "dead", "up", "accepting"}
  <2>1. CASE Dead(p, {k})
    BY <1>2, <2>1
  <2>2. CASE \A j \in Links, r \in Players :
                end'[j][r] = IF j = k /\ r = p THEN "up"
                             ELSE IF j = k /\ k.from = p THEN "accepting"
                             ELSE end[j][r]
    BY <2>2
  <2>3. QED BY <1>6, <2>1, <2>2, EndTable
<1>7. CASE (\E b \in BOOLEAN : SendReady(p, b)) \/ TryStart(p) \/ TryCancel(p)
  BY <1>7, EndTable
<1>8. ASSUME NEW k \in Links, OnReady(p, k) \/ OnPing(p, k) \/ OnPong(p, k)
      PROVE  end'[l][q] = end[l][q]
  BY <1>8, EndTable
<1>9. QED BY <1>1, <1>3, <1>4, <1>5, <1>6, <1>7, <1>8

LEMMA StepDecidesNothing ==
  ASSUME LinksFit, PathsFit, UndecidedFit, Next, Undecided'
  PROVE  NothingDecided'
<1>1. Undecided /\ NothingDecided /\ PrimaryFirst
  BY UndecidedCases
<1>2. ~side'[2].start /\ ~side'[2].cancel /\ ~side'[2].tryCancel /\ ~side'[2].tryStart
  BY <1>1, PlayerFacts, UndecidedCases, StartFlagStep, TryFlagStep DEF NothingDecided
<1>3. ~side'[1].start /\ ~side'[1].cancel
  BY <1>1, PlayerFacts, UndecidedCases, StartFlagStep, TryFlagStep DEF NothingDecided
<1>4. ASSUME NEW l \in Links, NEW p \in Players PROVE end'[l][p] \notin {"later", "closing"}
  BY <1>1, UndecidedEnds DEF NothingDecided
<1>5. ASSUME NEW l \in Links, NEW m \in Decisions \cup {"DISCONNECT"}
      PROVE  m \notin ToSet(wire'[l][1])
  <2>1. m \notin ToSet(wire[l][1])
    BY <1>1 DEF NothingDecided
  <2>2. SUFFICES ASSUME m \in ToSet(wire'[l][1]) PROVE FALSE
    OBVIOUS
  <2>3. /\ m = "Start" => TryStart(2) \/ \E k \in Links : OnStart(2, k)
        /\ m = "Cancel" => TryCancel(2) \/ \E k \in Links : OnCancel(2, k)
        /\ m = "DISCONNECT" => Flush(2, l) \/ Leave(2)
    BY <2>1, <2>2, PlayerFacts, NewMessage
  <2>4. QED BY <2>3, PlayerFacts, UndecidedCases DEF Decisions
<1>6. ASSUME NEW l \in Links, outcome'[1] = "lobby" PROVE "DISCONNECT" \notin ToSet(wire'[l][2])
  <2>1. outcome[1] = "lobby"
    BY <1>6, PlayerFacts, OwnSteps
  <2>2. "DISCONNECT" \notin ToSet(wire[l][2])
    BY <1>1, <2>1 DEF NothingDecided
  <2>3. SUFFICES ASSUME "DISCONNECT" \in ToSet(wire'[l][2]) PROVE FALSE
    OBVIOUS
  <2>4. Flush(1, l) \/ Leave(1)
    BY <2>2, <2>3, PlayerFacts, NewMessage
  <2>5. QED BY <1>6, <2>4, PlayerFacts, UndecidedCases, EndTable
<1>7. QED BY <1>2, <1>3, <1>4, <1>5, <1>6 DEF NothingDecided

\* What player 1 decides over a link player 2 may still choose comes after PRIMARY.
LEMMA StepAnnounces ==
  ASSUME LinksFit, PathsFit, UndecidedFit, Next, Undecided',
         NEW l \in Links, Announced(wire[l][2]), l.path \in cands[2]
  PROVE  Announced(wire'[l][2])
<1> DEFINE s == wire[l][2]
           Fine == Announced(wire'[l][2])
<1>1. /\ s \in Seq(Msgs) /\ Announced(s) /\ Announced(<<>>) /\ TypeOK
      /\ Undecided /\ NothingDecided /\ PrimaryFirst
  BY PlayerFacts, UndecidedCases, EmptySeq DEF LinksFit, TypeOK, Announced
<1>2. PICK p \in Players :
         \/ (\E b \in BOOLEAN : SendReady(p, b)) \/ TryStart(p) \/ TryCancel(p)
         \/ Leave(p) \/ Update(p)
         \/ \E k \in Links :
               OnConnect(p, k) \/ OnDisconnect(p, k) \/ OnReady(p, k) \/ OnPing(p, k) \/ OnPong(p, k)
  BY NextCases, UndecidedCases
<1>3. ASSUME Drained(wire', 2) PROVE Fine
  <2>1. CASE wire'[l][2] = s
    BY <1>1, <2>1
  <2>2. CASE wire'[l][2] = <<>>
    BY <1>1, <2>2
  <2>3. CASE s # <<>> /\ wire'[l][2] = Tail(s) /\ Head(s) # "PRIMARY"
    BY <1>1, <2>3, AnnouncedFacts
  <2>4. ~side'[2].primary
    BY DEF Undecided
  <2>5. QED BY <1>3, <2>1, <2>2, <2>3, <2>4 DEF Drained
<1>4. ASSUME p = 1, NEW x, NEW m \in Msgs, Moves(wire', p, x, m),
             m \notin Decisions \/ (l = x => "PRIMARY" \in ToSet(s))
      PROVE  Fine
  <2>1. wire'[l][2] = s \/ (l = x /\ wire'[l][2] = Append(s, m))
    BY <1>4, PlayerFacts DEF Moves
  <2>2. QED BY <1>1, <1>4, <2>1, AnnouncedFacts
<1>5. \A w : Still(w, p) => Moves(w, p, 0, "Ping")
  BY DEF Still, Moves
<1>6. \A w, x, m : Moves(w, p, x, m) => Drained(w, p)
  BY DEF Moves
<1>7. ASSUME NEW x, NEW m \in Msgs, m \notin Decisions, Moves(wire', p, x, m) PROVE Fine
  <2>1. CASE p = 1
    BY <1>4, <1>7, <2>1
  <2>2. CASE p = 2
    BY <1>3, <1>6, <1>7, <2>2
  <2>3. QED BY <2>1, <2>2 DEF Players
<1>8. /\ \A m \in {"Ready1", "Ready0", "Ping", "Pong", "PRIMARY"} : m \in Msgs /\ m \notin Decisions
      /\ "Start" \in Msgs /\ "Cancel" \in Msgs
  BY DEF Msgs, PingMsgs, Decisions
<1>9. ASSUME TryStart(p) \/ TryCancel(p) PROVE Fine
  <2>1. p = 1 /\ outcome[1] = "lobby" /\ peers[1] # <<>>
    BY <1>9, UndecidedCases DEF Players, TryStart, TryCancel, May
  <2>2. l = peers[p][1] => "PRIMARY" \in ToSet(s)
    BY <1>1, <2>1 DEF PrimaryFirst
  <2>3. \E m \in Msgs : Moves(wire', p, peers[p][1], m)
    BY <1>8, <1>9, WireTable
  <2>4. QED BY <1>4, <2>1, <2>2, <2>3
<1>10. ASSUME Leave(p) PROVE Fine
  <2>1. p = 1
    BY <1>10, UndecidedCases DEF Players
  <2>2. \/ wire'[l][2] = s
        \/ \E n \in 0..Len(s) : wire'[l][2] = Append(SubSeq(s, 1, n), "DISCONNECT")
    BY <1>1, <1>10, <2>1, PlayerFacts, LeaveStep
  <2>3. QED BY <1>1, <2>2, AnnouncedFacts
<1>11. ASSUME NEW b \in BOOLEAN, SendReady(p, b) PROVE Fine
  <2>1. Moves(wire', p, peers[p][1], IF b THEN "Ready1" ELSE "Ready0")
    BY <1>11, WireTable
  <2>2. CASE b
    BY <1>7, <1>8, <2>1, <2>2
  <2>3. CASE ~b
    BY <1>7, <1>8, <2>1, <2>3
  <2>4. QED BY <2>2, <2>3
<1>12. ASSUME Update(p) PROVE Fine
  BY <1>5, <1>7, <1>8, <1>12, WireTable
<1>13. ASSUME NEW k \in Links, OnConnect(p, k) PROVE Fine
  BY <1>7, <1>8, <1>13, WireTable
<1>14. ASSUME NEW k \in Links, OnDisconnect(p, k) \/ OnReady(p, k) \/ OnPong(p, k) PROVE Fine
  BY <1>5, <1>7, <1>8, <1>14, WireTable
<1>15. ASSUME NEW k \in Links, OnPing(p, k) PROVE Fine
  BY <1>7, <1>8, <1>15, WireTable
<1> HIDE DEF Fine, s
<1>16. Fine
  BY <1>2, <1>9, <1>10, <1>11, <1>12, <1>13, <1>14, <1>15
<1>17. QED BY <1>16 DEF Fine

LEMMA CandidatesShrink ==
  ASSUME LinksFit, Next, NEW q \in Players
  PROVE  cands'[q] \subseteq cands[q]
<1>1. ASSUME NEW k \in Links, OnConnect(q, k) PROVE cands'[q] \subseteq cands[q]
  <2>1. CASE cands' = cands
    BY <2>1
  <2>2. CASE k.path \in cands[q] /\ cands'[q] = {k.path}
    BY <2>2
  <2>3. QED BY <1>1, <2>1, <2>2, ConnectStep
<1>2. ASSUME NEW k \in Links, OnPrimary(q, k) PROVE cands'[q] \subseteq cands[q]
  BY <1>2 DEF OnPrimary
<1>3. QED BY <1>1, <1>2, PathStep

\* No link breaks: an end that dies was told so, or the other one is dead.
LEMMA UndecidedDisconnect ==
  ASSUME Lossy = FALSE, LinksFit, AttemptsUnknown, Undecided, NothingDecided,
         NEW p \in Players, NEW l \in Links, Disconnects(p, l),
         outcome[1] = "lobby"
  PROVE  \/ end[l][p] = "connecting" /\ end[l][Other(p)] = "none"
         \/ end[l][p] \in Listening /\ end[l][Other(p)] = "dead"
<1>1. CASE end[l][p] = "connecting"
  <2>1. l.from = p
    BY <1>1, OtherFacts DEF LinksFit, AttemptsFresh, Links
  <2>2. outcome[Other(p)] = "lobby"
    BY PlayerFacts, OtherFacts DEF Undecided, Players
  <2>3. QED BY <1>1, <2>1, <2>2 DEF AttemptsUnknown
<1>2. CASE Received(p, l, "DISCONNECT")
  <2>1. "DISCONNECT" \in ToSet(wire[l][p])
    BY <1>2, ConsumedTyped DEF LinksFit
  <2>2. QED BY <2>1 DEF NothingDecided, Players
<1>3. CASE end[l][p] = "closing"
  BY <1>3 DEF NothingDecided
<1>4. QED BY <1>1, <1>2, <1>3 DEF Disconnects

\* What player 1 has or is about to list does not die at player 2, unless it is no candidate.
LEMMA StepKeepsCandidates ==
  ASSUME Lossy = FALSE, LinksFit, PathsFit, AttemptsUnknown, UndecidedFit, Next, Undecided',
         outcome'[1] = "lobby",
         NEW l \in Links, end'[l][1] \in {"accepting", "up"}, end'[l][2] = "dead"
  PROVE  l.path \notin cands'[2]
<1>1. /\ Undecided /\ NothingDecided /\ PrimaryFirst /\ outcome[1] = "lobby"
      /\ cands'[2] \subseteq cands[2]
  BY PlayerFacts, UndecidedCases, OwnSteps, CandidatesShrink
<1>2. SUFFICES ASSUME l.path \in cands[2] PROVE FALSE
  BY <1>1
<1>3. ASSUME end[l][1] \in {"accepting", "up"}, end[l][2] = "dead" PROVE FALSE
  BY <1>1, <1>2, <1>3 DEF PrimaryFirst
<1>4. PICK p \in Players :
         \/ (\E b \in BOOLEAN : SendReady(p, b)) \/ TryStart(p) \/ TryCancel(p)
         \/ Leave(p) \/ Update(p)
         \/ \E k \in Links :
               OnConnect(p, k) \/ OnDisconnect(p, k) \/ OnReady(p, k) \/ OnPing(p, k) \/ OnPong(p, k)
  BY NextCases, UndecidedCases
<1>5. ASSUME end' = end PROVE FALSE
  BY <1>3, <1>5
<1>6. ASSUME NEW S, Dead(p, S) PROVE p = 2 /\ l \in S /\ end[l][1] \in {"accepting", "up"}
  BY <1>3, <1>6, PlayerFacts DEF Dead
<1>7. ASSUME Update(p) PROVE FALSE
  <2>1. p = 2 /\ l \in Redundant(2)
    BY <1>6, <1>7, EndTable
  <2>2. QED BY <1>1, <2>1 DEF Redundant, Undecided
<1>8. ASSUME NEW S, Dead(p, S), outcome'[p] # "lobby" PROVE FALSE
  BY <1>6, <1>8 DEF Undecided
<1>9. ASSUME NEW k \in Links, OnConnect(p, k) PROVE FALSE
  <2>1. CASE k.path \notin cands[p] /\ Dead(p, {k})
    BY <1>2, <1>6, <2>1
  <2>2. CASE /\ k.from # p => end[k][p] = "accepting"
             /\ \A j \in Links, q \in Players :
                   end'[j][q] = IF j = k /\ q = p THEN "up"
                                ELSE IF j = k /\ k.from = p THEN "accepting"
                                ELSE end[j][q]
    <3>1. CASE k = l
      <4>1. p = 1 /\ k.from # 1 /\ end[l][2] = "dead"
        BY <2>2, <3>1, PlayerFacts DEF Players
      <4>2. QED BY <1>3, <2>2, <3>1, <4>1
    <3>2. CASE k # l
      BY <1>3, <2>2, <3>2, PlayerFacts
    <3>3. QED BY <3>1, <3>2
  <2>3. QED BY <1>9, <2>1, <2>2, EndTable
<1>10. ASSUME NEW k \in Links, OnDisconnect(p, k) PROVE FALSE
  <2>1. CASE Dead(p, {k}) /\ Disconnects(p, k)
    <3>1. Disconnects(2, l) /\ end[l][1] \in {"accepting", "up"}
      BY <1>6, <2>1
    <3>2. QED BY <1>1, <3>1, PlayerFacts, UndecidedDisconnect
  <2>2. QED BY <1>8, <1>10, <2>1, EndTable
<1>11. ASSUME Leave(p) PROVE FALSE
  BY <1>8, <1>11, EndTable
<1>12. ASSUME (\E b \in BOOLEAN : SendReady(p, b)) \/ TryStart(p) \/ TryCancel(p) PROVE FALSE
  BY <1>5, <1>12, EndTable
<1>13. ASSUME NEW k \in Links, OnReady(p, k) \/ OnPing(p, k) \/ OnPong(p, k) PROVE FALSE
  BY <1>5, <1>13, EndTable
<1>14. QED BY <1>4, <1>7, <1>9, <1>10, <1>11, <1>12, <1>13

\* Every handler but the destructor sends one message at most.
LEMMA SendsOne ==
  ASSUME LinksFit, NEW p \in Players,
         \/ (\E b \in BOOLEAN : SendReady(p, b)) \/ TryStart(p) \/ TryCancel(p) \/ Update(p)
         \/ \E k \in Links :
               OnConnect(p, k) \/ OnDisconnect(p, k) \/ OnReady(p, k) \/ OnPing(p, k) \/ OnPong(p, k)
  PROVE  \E x, m : Moves(wire', p, x, m)
<1>1. \A w : Still(w, p) => Moves(w, p, 0, 0)
  BY DEF Still, Moves
<1>2. CASE (\E b \in BOOLEAN : SendReady(p, b)) \/ TryStart(p) \/ TryCancel(p)
  BY <1>2, WireTable
<1>3. CASE Update(p)
  BY <1>1, <1>3, WireTable
<1>4. ASSUME NEW k \in Links, OnConnect(p, k) \/ OnPing(p, k)
      PROVE  \E x, m : Moves(wire', p, x, m)
  BY <1>4, WireTable
<1>5. ASSUME NEW k \in Links, OnDisconnect(p, k) \/ OnReady(p, k) \/ OnPong(p, k)
      PROVE  \E x, m : Moves(wire', p, x, m)
  BY <1>1, <1>5, WireTable
<1>6. QED BY <1>2, <1>3, <1>4, <1>5

\* PRIMARY is on its way over the link player 1 has put first, unless that is no candidate.
LEMMA StepKeepsPrimaryComing ==
  ASSUME Lossy = FALSE, LinksFit, PathsFit, AttemptsUnknown, UndecidedFit, Next, Undecided',
         outcome'[1] = "lobby", peers'[1] # <<>>
  PROVE  \/ "PRIMARY" \in ToSet(wire'[peers'[1][1]][2])
         \/ peers'[1][1].path \notin cands'[2]
<1> DEFINE f == peers'[1][1]
           Goal == "PRIMARY" \in ToSet(wire'[f][2]) \/ f.path \notin cands'[2]
<1>1. /\ Undecided /\ NothingDecided /\ PrimaryFirst /\ outcome[1] = "lobby"
      /\ cands'[2] \subseteq cands[2] /\ LinksFit' /\ NothingDecided'
  BY PlayerFacts, UndecidedCases, OwnSteps, CandidatesShrink, StepKeepsFit, StepDecidesNothing
<1>2. f \in Links /\ f \in ToSet(peers'[1]) /\ TypeOK /\ peers[1] \in Seq(Links)
  BY <1>1, PlayerFacts, ToSetFacts DEF LinksFit, TypeOK
<1>3. ASSUME end'[f][2] = "dead" PROVE Goal
  <2>1. end'[f][1] \in {"up", "later", "closing"}
    BY <1>1, <1>2, PlayerFacts DEF LinksFit, ListenersListed
  <2>2. end'[f][1] = "up"
    BY <1>1, <1>2, <2>1, PlayerFacts DEF NothingDecided
  <2>3. QED BY <1>2, <1>3, <2>2, StepKeepsCandidates
<1> HIDE DEF f
<1>4. PICK p \in Players :
         \/ (\E b \in BOOLEAN : SendReady(p, b)) \/ TryStart(p) \/ TryCancel(p)
         \/ Leave(p) \/ Update(p)
         \/ \E k \in Links :
               OnConnect(p, k) \/ OnDisconnect(p, k) \/ OnReady(p, k) \/ OnPing(p, k) \/ OnPong(p, k)
  BY NextCases, UndecidedCases
<1>5. ~Leave(p)
  BY EndTable DEF Undecided, Players
<1>6. PICK x, m : Moves(wire', p, x, m)
  BY <1>4, <1>5, SendsOne
<1>7. ASSUME "PRIMARY" \in ToSet(wire[f][2]) PROVE Goal
  <2> DEFINE s == wire[f][2]
  <2>1. s \in Seq(Msgs)
    BY <1>2, PlayerFacts DEF TypeOK
  <2>2. CASE p = 1
    <3>1. wire'[f][2] = s \/ wire'[f][2] = Append(s, m)
      BY <1>2, <1>6, <2>2, PlayerFacts DEF Moves
    <3>2. ToSet(Append(s, m)) = ToSet(s) \cup {m}
      BY <2>1, AppendContents
    <3>3. QED BY <1>7, <3>1, <3>2
  <2>3. CASE p = 2
    <3>1. ~side'[2].primary /\ end'[f][2] # "closing"
      BY <1>1, <1>2, PlayerFacts DEF Undecided, NothingDecided
    <3>2. \/ wire'[f][2] = s \/ end'[f][2] = "dead"
          \/ s # <<>> /\ wire'[f][2] = Tail(s) /\ Head(s) # "PRIMARY"
      BY <1>2, <1>6, <2>3, <3>1 DEF Moves, Drained
    <3>3. QED BY <1>3, <1>7, <2>1, <3>2, TailKeeps
  <2>4. QED BY <2>2, <2>3 DEF Players
<1>8. ASSUME peers[1] # <<>>, f = peers[1][1] PROVE Goal
  BY <1>1, <1>7, <1>8 DEF PrimaryFirst
<1>9. ASSUME peers'[1] = peers[1] PROVE Goal
  BY <1>8, <1>9 DEF f
<1> HIDE DEF Goal
<1>10. ASSUME p = 1, Update(p) PROVE Goal
  <2>1. /\ ToSet(peers'[1]) \subseteq ToSet(peers[1])
        /\ peers[1] # <<>> => peers'[1][1] = peers[1][1]
    BY <1>10, CleanStep DEF Update
  <2>2. peers[1] = <<>> => ToSet(peers[1]) = {}
    BY DEF ToSet
  <2>3. QED BY <1>2, <1>8, <2>1, <2>2 DEF f
<1>11. ASSUME p = 1, NEW k \in Links, OnConnect(1, k) PROVE Goal
  <2>1. CASE peers' = peers
    BY <1>9, <2>1
  <2>2. CASE peers[1] # <<>> /\ peers'[1][1] = peers[1][1]
    BY <1>8, <2>2 DEF f
  <2>3. CASE peers[1] = <<>> /\ peers'[1][1] = k /\ k.path \in cands[1]
    <3>1. f = k
      BY <2>3 DEF f
    <3>2. CASE end[k][2] = "dead"
      <4>1. /\ k.from = 1 => end[k][1] = "connecting"
            /\ k.from # 1 => end[k][1] = "accepting"
        BY <1>11 DEF OnConnect
      <4>2. k.from # 1
        BY <1>1, <3>2, <4>1, PlayerFacts DEF AttemptsUnknown, Undecided
      <4>3. k.path \notin cands[2]
        BY <1>1, <3>2, <4>1, <4>2 DEF PrimaryFirst
      <4>4. QED BY <1>1, <3>1, <4>3 DEF Goal
    <3>3. CASE end[k][2] # "dead"
      <4>1. end[k][2] \notin {"closing", "dead"}
        BY <1>1, <3>3, PlayerFacts DEF NothingDecided
      <4>2. wire' = [wire EXCEPT ![k][2] = Append(@, "PRIMARY")]
        BY <1>11, <2>3, <4>1 DEF OnConnect
      <4>3. wire[k][2] \in Seq(Msgs) /\ wire'[k][2] = Append(wire[k][2], "PRIMARY")
        BY <1>2, <4>2, PlayerFacts DEF TypeOK
      <4>4. QED BY <3>1, <4>3, AppendContents DEF Goal
    <3>4. QED BY <3>2, <3>3
  <2>4. QED BY <1>11, <2>1, <2>2, <2>3, PlayerFacts, ConnectStep
<1>12. ASSUME p = 1, NEW k \in Links, OnDisconnect(1, k) PROVE Goal
  <2>1. /\ peers' = [peers EXCEPT ![1] = RemoveFirst(@, k)]
        /\ IsInjective(peers[1]) /\ peers \in [Players -> Seq(Links)]
    BY <1>2, <1>12, PlayerFacts DEF OnDisconnect, TypeOK
  <2>2. CASE k \notin ToSet(peers[1])
    <3>1. RemoveFirst(peers[1], k) = peers[1]
      BY <2>2, <1>2 DEF RemoveFirst, ToSet
    <3>2. QED BY <1>9, <2>1, <3>1, PlayerFacts
  <2>3. CASE k \in ToSet(peers[1])
    <3>1. Disconnects(1, k)
      BY <1>12, EndTable, PlayerFacts DEF OnDisconnect
    <3>2. end[k][1] \in {"up", "later", "closing"}
      BY <1>1, <2>3, PlayerFacts DEF LinksFit, ListenersListed
    <3>3. end[k][1] = "up" /\ end[k][2] = "dead"
      BY <1>1, <3>1, <3>2, PlayerFacts, UndecidedDisconnect DEF NothingDecided
    <3>4. k.path \notin cands[2]
      BY <1>1, <3>3 DEF PrimaryFirst
    <3>5. f \in ToSet(peers[1])
      <4>1. ToSet(RemoveFirst(peers[1], k)) \subseteq ToSet(peers[1])
        BY <1>2, <2>1, RemoveFirstFacts
      <4>2. QED BY <1>2, <2>1, <4>1, PlayerFacts
    <3>6. cands[1] = {k.path} /\ cands[1] = {f.path}
      BY <2>3, <3>5, PlayerFacts DEF PathsFit
    <3>7. f.path = k.path
      BY <3>6
    <3>8. QED BY <1>1, <3>4, <3>7 DEF Goal
  <2>4. QED BY <2>2, <2>3
<1>13. ASSUME p = 2, \/ Update(2) \/ \E k \in Links : OnConnect(2, k) \/ OnDisconnect(2, k)
       PROVE  Goal
  <2>1. \E t : peers' = [peers EXCEPT ![2] = t] \/ peers' = peers
    BY <1>13 DEF Update, CleanRedundantConnections, OnConnect, OnDisconnect
  <2>2. peers'[1] = peers[1]
    BY <1>2, <2>1, PlayerFacts DEF TypeOK
  <2>3. QED BY <1>9, <2>2
<1>14. ASSUME \/ (\E b \in BOOLEAN : SendReady(p, b)) \/ TryStart(p) \/ TryCancel(p)
              \/ \E k \in Links : OnReady(p, k) \/ OnPing(p, k) \/ OnPong(p, k)
       PROVE  Goal
  BY <1>9, <1>14 DEF SendReady, TryStart, TryCancel, OnReady, OnPing, OnPong
<1>15. Goal
  BY <1>4, <1>5, <1>10, <1>11, <1>12, <1>13, <1>14 DEF Players
<1>16. QED BY <1>15 DEF Goal, f

LEMMA StepKeepsUndecidedFit ==
  ASSUME Lossy = FALSE, LinksFit, PathsFit, AttemptsUnknown, UndecidedFit, [Next]_vars
  PROVE  UndecidedFit'
<1>1. CASE UNCHANGED vars
  BY <1>1 DEF vars, UndecidedFit, Undecided, NothingDecided, PrimaryFirst
<1>2. CASE Next /\ Undecided'
  <2>1. PrimaryFirst /\ cands'[2] \subseteq cands[2]
    BY <1>2, PlayerFacts, UndecidedCases, CandidatesShrink
  <2>2. ASSUME NEW l \in Links PROVE Announced(wire'[l][2]) \/ l.path \notin cands'[2]
    BY <1>2, <2>1, StepAnnounces DEF PrimaryFirst
  <2>3. ASSUME outcome'[1] = "lobby", NEW l \in Links, end'[l][1] \in {"accepting", "up"}
        PROVE  end'[l][2] # "dead" \/ l.path \notin cands'[2]
    BY <1>2, <2>3, StepKeepsCandidates
  <2>4. ASSUME outcome'[1] = "lobby", peers'[1] # <<>>
        PROVE  \/ "PRIMARY" \in ToSet(wire'[peers'[1][1]][2])
               \/ peers'[1][1].path \notin cands'[2]
    BY <1>2, <2>4, StepKeepsPrimaryComing
  <2>5. PrimaryFirst'
    BY <2>2, <2>3, <2>4 DEF PrimaryFirst
  <2>6. QED BY <1>2, <2>5, StepDecidesNothing DEF UndecidedFit
<1>3. CASE ~Undecided'
  BY <1>3 DEF UndecidedFit
<1>4. QED BY <1>1, <1>2, <1>3

\* Player 2 only confirms a start when it knows the primary link.
LEMMA StepKeepsStartIsPrimary ==
  ASSUME LinksFit, PathsFit, UndecidedFit, StartIsPrimary, [Next]_vars
  PROVE  StartIsPrimary'
<1>1. CASE UNCHANGED vars
  BY <1>1 DEF vars, StartIsPrimary
<1>2. CASE Next /\ Undecided'
  BY <1>2, StepDecidesNothing DEF NothingDecided, StartIsPrimary
<1>3. CASE Next /\ ~Undecided'
  <2>1. SUFFICES ASSUME side'[2].start, ~side'[2].primary PROVE FALSE
    BY DEF StartIsPrimary
  <2>2. outcome'[2] # "lobby"
    BY <1>3, <2>1 DEF Undecided
  <2>3. side'[2] = side[2]
    <3>1. outcome[2] # "lobby" \/ outcome'[2] # outcome[2]
      BY <2>2
    <3>2. QED BY <1>3, <3>1, PlayerFacts, OwnSteps
  <2>4. QED BY <2>1, <2>3 DEF StartIsPrimary
<1>4. QED BY <1>1, <1>2, <1>3

LEMMA InitUndecided == Init => AttemptsUnknown /\ UndecidedFit /\ StartIsPrimary
<1> SUFFICES ASSUME Init PROVE AttemptsUnknown /\ UndecidedFit /\ StartIsPrimary
  OBVIOUS
<1>1. /\ \A l \in Links, p \in Players : /\ wire[l][p] = <<>> /\ ToSet(wire[l][p]) = {}
                                         /\ end[l][p] = IF l.from = p THEN "connecting" ELSE "none"
      /\ \A p \in Players : /\ peers[p] = <<>> /\ outcome[p] = "lobby"
                            /\ out[p] = {l \in Links : l.from = p}
                            /\ ~side[p].start /\ ~side[p].cancel /\ ~side[p].tryCancel
                            /\ ~side[p].tryStart
  BY DEF Init, ToSet
<1>2. \A l \in Links : l.from \in Players
  BY DEF Links
<1>3. AttemptsUnknown
  BY <1>1, <1>2, OtherFacts DEF AttemptsUnknown
<1>4. NothingDecided
  BY <1>1, PlayerFacts DEF NothingDecided
<1>5. PrimaryFirst
  BY <1>1, PlayerFacts, EmptySeq DEF PrimaryFirst, Announced
<1>6. QED BY <1>1, <1>3, <1>4, <1>5, PlayerFacts DEF UndecidedFit, StartIsPrimary

\* The inductive invariant of the path: until player 2 knows the primary link, nothing has
\* been decided, and PRIMARY is ahead of whatever player 1 will decide.
THEOREM PrimaryComesFirst ==
  ASSUME Lossy = FALSE
  PROVE  Spec => [](UndecidedFit /\ StartIsPrimary)
<1>1. Spec => []AttemptsUnknown
  BY InitUndecided, LinksAlwaysFit, StepKeepsUnknown, PTL DEF Spec
<1>2. LinksFit /\ PathsFit /\ AttemptsUnknown /\ UndecidedFit /\ StartIsPrimary /\ [Next]_vars
        => UndecidedFit' /\ StartIsPrimary'
  BY StepKeepsUndecidedFit, StepKeepsStartIsPrimary
<1>3. QED
  BY <1>1, <1>2, InitUndecided, LinksAlwaysFit, ListsHaveOnePath, PTL DEF Spec

\* Two games that start were given each other's address, and it is the one of the primary
\* link, as long as no link breaks by itself.
THEOREM SamePathHolds ==
  ASSUME Lossy = FALSE
  PROVE  Spec => []SamePath
<1>1. PathsFit /\ StartIsPrimary /\ EndsAsFlagged => SamePath
  <2> SUFFICES ASSUME PathsFit, StartIsPrimary, EndsAsFlagged,
                      \A p \in Players : outcome[p] = "StartGame"
               PROVE  /\ side[1].primaryPath = side[2].primaryPath
                      /\ \A p \in Players : side[p].primary
    BY DEF SamePath
  <2>1. side[2].start /\ side[2].primary
    BY PlayerFacts DEF StartIsPrimary, EndsAsFlagged
  <2>2. QED BY <2>1 DEF PathsFit, Players
<1>2. QED BY <1>1, PrimaryComesFirst, ListsHaveOnePath, EndsAsFlaggedHolds, PTL
=============================================================================
