-------------------------- MODULE P2PPrimaryProofs --------------------------
(***************************************************************************)
(* The proof that both objects of P2PConnection keep the same link, and    *)
(* what follows from it: no ready status is lost, and a start and a cancel *)
(* that cross do not part the players.                                     *)
(*                                                                         *)
(* Player 1 has put a link first.  As long as the two have not parted,     *)
(* player 2 keeps its end of that link, and whatever player 1 decides goes *)
(* over it: a cancel is always ahead of the disconnect that follows it, so *)
(* that player 2 hears of it before its last link goes.  It can only be    *)
(* lost when player 1 leaves, or has all it needs to end at once.          *)
(***************************************************************************)
EXTENDS P2PConnectionProofs, FiniteSetTheorems

-----------------------------------------------------------------------------
(***************************************************************************)
(* Where an end's state and a message come from.                           *)
(***************************************************************************)
\* How the end of q comes to be dead.
Kills(q, l) ==
    \/ Leave(q)
    \/ Update(q) /\ l \in Redundant(q)
    \/ OnConnect(q, l) /\ l.path \notin cands[q]
    \/ OnDisconnect(q, l)
    \/ outcome'[q] # "lobby" /\ \E k \in Links : OnDisconnect(q, k)

\* enet_peer_disconnect_later on all links.
Finishes(q) ==
    \E k \in Links : \/ OnStart(q, k) /\ side[q].tryStart
                     \/ OnCancel(q, k) /\ side[q].tryCancel

LEMMA EndStep ==
  ASSUME LinksFit, Next, NEW l \in Links, NEW q \in Players
  PROVE  \/ end'[l][q] = end[l][q]
         \/ end'[l][q] = "dead" /\ Kills(q, l)
         \/ end'[l][q] = "up" /\ OnConnect(q, l) /\ l.path \in cands[q]
         \/ /\ end'[l][q] = "accepting" /\ l.from # q /\ OnConnect(Other(q), l)
            /\ end[l][Other(q)] = "connecting" /\ outcome[q] = "lobby"
         \/ end'[l][q] = "later" /\ end[l][q] = "up" /\ Finishes(q)
         \/ end'[l][q] = "closing" /\ Flush(q, l)
<1> DEFINE Goal ==
         \/ end'[l][q] = end[l][q]
         \/ end'[l][q] = "dead" /\ Kills(q, l)
         \/ end'[l][q] = "up" /\ OnConnect(q, l) /\ l.path \in cands[q]
         \/ /\ end'[l][q] = "accepting" /\ l.from # q /\ OnConnect(Other(q), l)
            /\ end[l][Other(q)] = "connecting" /\ outcome[q] = "lobby"
         \/ end'[l][q] = "later" /\ end[l][q] = "up" /\ Finishes(q)
         \/ end'[l][q] = "closing" /\ Flush(q, l)
<1>1. PICK p \in Players :
         \/ (\E b \in BOOLEAN : SendReady(p, b)) \/ TryStart(p) \/ TryCancel(p)
         \/ Leave(p) \/ Update(p)
         \/ \E k \in Links :
               \/ Flush(p, k)
               \/ /\ UNCHANGED looping
                  /\ \/ OnConnect(p, k) \/ OnDisconnect(p, k) \/ OnPrimary(p, k)
                     \/ OnStart(p, k) \/ OnCancel(p, k)
                     \/ OnReady(p, k) \/ OnPing(p, k) \/ OnPong(p, k)
  BY NextCases
<1>2. ASSUME NEW S, Dead(p, S) PROVE end'[l][q] = end[l][q] \/ (q = p /\ l \in S /\ end'[l][q] = "dead")
  BY <1>2 DEF Dead
<1>3. end \in [Links -> [Players -> EndStates]]
  BY DEF LinksFit, TypeOK
<1>4. CASE (\E b \in BOOLEAN : SendReady(p, b)) \/ TryStart(p) \/ TryCancel(p)
  BY <1>4, EndTable
<1>5. CASE Leave(p)
  BY <1>2, <1>5, EndTable DEF Kills
<1>6. CASE Update(p)
  BY <1>2, <1>6, EndTable DEF Kills
<1>7. ASSUME NEW k \in Links, Flush(p, k) PROVE Goal
  <2>1. end' = [end EXCEPT ![k][p] = "closing"]
    BY <1>7 DEF Flush
  <2>2. end'[l][q] = end[l][q] \/ (q = p /\ l = k /\ end'[l][q] = "closing")
    BY <1>3, <2>1
  <2>3. QED BY <1>7, <2>2
<1>8. ASSUME NEW k \in Links, OnConnect(p, k) PROVE Goal
  <2>1. CASE k.path \notin cands[p] /\ Dead(p, {k})
    BY <1>2, <1>8, <2>1 DEF Kills
  <2>2. CASE /\ k.path \in cands[p]
             /\ k.from = p => end[k][p] = "connecting" /\ outcome[Other(p)] = "lobby"
             /\ \A j \in Links, r \in Players :
                   end'[j][r] = IF j = k /\ r = p THEN "up"
                                ELSE IF j = k /\ k.from = p THEN "accepting"
                                ELSE end[j][r]
    <3>1. CASE q = p
      BY <1>8, <2>2, <3>1
    <3>2. CASE q = Other(p)
      BY <1>8, <2>2, <3>2, OtherFacts
    <3>3. QED BY <3>1, <3>2, OtherFacts
  <2>3. QED BY <1>8, <2>1, <2>2, EndTable
<1>9. ASSUME NEW k \in Links, OnDisconnect(p, k) PROVE Goal
  BY <1>2, <1>9, EndTable DEF Kills
<1>10. ASSUME NEW k \in Links, OnStart(p, k) \/ OnCancel(p, k) PROVE Goal
  <2>1. end' = end \/ (end' = DisconnectLater(p) /\ Finishes(p))
    BY <1>10 DEF OnStart, OnCancel, Finishes
  <2>2. CASE end' = DisconnectLater(p) /\ Finishes(p)
    <3>1. end'[l][q] = end[l][q] \/ (q = p /\ end[l][q] = "up" /\ end'[l][q] = "later")
      BY <1>3, <2>2 DEF DisconnectLater
    <3>2. QED BY <2>2, <3>1
  <2>3. QED BY <2>1, <2>2
<1>11. ASSUME NEW k \in Links,
              OnPrimary(p, k) \/ OnReady(p, k) \/ OnPing(p, k) \/ OnPong(p, k)
       PROVE  Goal
  BY <1>11, EndTable
<1> HIDE DEF Goal
<1>12. Goal
  BY <1>1, <1>4, <1>5, <1>6, <1>7, <1>8, <1>9, <1>10, <1>11 DEF Goal
<1>13. QED BY <1>12 DEF Goal

\* What p sends over l, and what makes it.
Sends(p, l, m) ==
    \/ m \in {"Ready1", "Ready0"} /\ SendReady(p, m = "Ready1") /\ peers[p] # <<>> /\ l = peers[p][1]
    \/ /\ m = "Start" /\ l = peers[p][1]
       /\ \/ TryStart(p)
          \/ \E k \in Links : OnStart(p, k) /\ side[p].meReady
    \/ /\ m = "Cancel" /\ l = peers[p][1]
       /\ TryCancel(p) \/ \E k \in Links : OnCancel(p, k)
    \/ m = "Ping" /\ Update(p)
    \/ m = "Pong" /\ OnPing(p, l)

\* The handler of a message that reached q over l.
Hears(q, l) ==
    \/ OnPrimary(q, l) \/ OnReady(q, l) \/ OnStart(q, l) \/ OnCancel(q, l)
    \/ OnPing(q, l) \/ OnPong(q, l)

LEMMA SendCases ==
  ASSUME NEW w, WiresTyped(w), NEW p \in Players, NEW x \in Links, NEW m, NEW l \in Links
  PROVE  /\ Send(w, p, x, m)[l][p] = w[l][p]
         /\ \/ Send(w, p, x, m)[l][Other(p)] = w[l][Other(p)]
            \/ /\ l = x /\ end[l][p] = "up"
               /\ Send(w, p, x, m)[l][Other(p)] = Append(w[l][Other(p)], m)
         /\ end[x][p] = "up" /\ end[x][Other(p)] \in Listening \cup {"accepting"}
               => Send(w, p, x, m)[x][Other(p)] = Append(w[x][Other(p)], m)
<1> DEFINE v == [w EXCEPT ![x][Other(p)] = Append(@, m)]
<1>1. Send(w, p, x, m) = IF end[x][p] = "up" /\ end[x][Other(p)] \in Listening \cup {"accepting"}
                         THEN v ELSE w
  BY DEF Send
<1>2. \A k \in Links : v[k][p] = w[k][p] /\ v[k][Other(p)] = IF k = x THEN Append(w[k][Other(p)], m)
                                                   ELSE w[k][Other(p)]
  BY OtherFacts DEF WiresTyped
<1> HIDE DEF v
<1>3. QED BY <1>1, <1>2

LEMMA WireStep ==
  ASSUME LinksFit, Next, NEW l \in Links, NEW q \in Players
  PROVE  LET p == Other(q)
             s == wire[l][q]
             t == wire'[l][q]
         IN  \/ t = s
             \/ t = <<>> /\ end'[l][q] \in {"closing", "dead"}
             \/ s # <<>> /\ t = Tail(s) /\ Hears(q, l)
             \/ \E m : t = Append(s, m) /\ Sends(p, l, m) /\ end[l][p] = "up"
             \/ t = Append(s, "PRIMARY") /\ p = 1 /\ OnConnect(p, l) /\ peers[p] = <<>> /\ l.path \in cands[p]
             \/ t = Append(s, "DISCONNECT") /\ Flush(p, l)
             \/ Leave(p)
<1> DEFINE Goal ==
             \/ wire'[l][q] = wire[l][q]
             \/ wire'[l][q] = <<>> /\ end'[l][q] \in {"closing", "dead"}
             \/ wire[l][q] # <<>> /\ wire'[l][q] = Tail(wire[l][q]) /\ Hears(q, l)
             \/ \E m : /\ wire'[l][q] = Append(wire[l][q], m)
                       /\ Sends(Other(q), l, m) /\ end[l][Other(q)] = "up"
             \/ /\ wire'[l][q] = Append(wire[l][q], "PRIMARY") /\ Other(q) = 1
                /\ OnConnect(Other(q), l) /\ peers[Other(q)] = <<>> /\ l.path \in cands[Other(q)]
             \/ wire'[l][q] = Append(wire[l][q], "DISCONNECT") /\ Flush(Other(q), l)
             \/ Leave(Other(q))
<1>1. PICK p \in Players :
         \/ (\E b \in BOOLEAN : SendReady(p, b)) \/ TryStart(p) \/ TryCancel(p)
         \/ Leave(p) \/ Update(p)
         \/ \E k \in Links :
               \/ Flush(p, k)
               \/ /\ UNCHANGED looping
                  /\ \/ OnConnect(p, k) \/ OnDisconnect(p, k) \/ OnPrimary(p, k)
                     \/ OnStart(p, k) \/ OnCancel(p, k)
                     \/ OnReady(p, k) \/ OnPing(p, k) \/ OnPong(p, k)
  BY NextCases
<1>2. TypeOK /\ WiresTyped(wire) /\ Other(p) \in Players /\ Other(p) # p /\ (q = p \/ (q = Other(p) /\ Other(q) = p))
  BY OtherFacts DEF LinksFit, TypeOK, WiresTyped
<1>3. peers[p] # <<>> => peers[p][1] \in Links
  BY <1>2, ToSetFacts DEF TypeOK
<1>4. ASSUME NEW w, WiresTyped(w), w[l][q] = wire[l][q], NEW x \in Links, NEW m,
             wire' = Send(w, p, x, m), l = x => Sends(p, l, m)
      PROVE  Goal
  <2>1. CASE q = p
    BY <1>4, <2>1, SendCases
  <2>2. CASE q = Other(p)
    <3>1. Other(q) = p
      BY <1>2, <2>2
    <3>2. wire'[l][q] = wire[l][q] \/ (l = x /\ end[l][p] = "up" /\ wire'[l][q] = Append(wire[l][q], m))
      <4>1. \/ Send(w, p, x, m)[l][Other(p)] = w[l][Other(p)]
            \/ /\ l = x /\ end[l][p] = "up"
               /\ Send(w, p, x, m)[l][Other(p)] = Append(w[l][Other(p)], m)
        BY <1>4, SendCases
      <4>2. QED BY <1>4, <2>2, <4>1
    <3>3. QED BY <1>4, <3>1, <3>2
  <2>3. QED BY <1>2, <2>1, <2>2
<1>5. ASSUME NEW k \in Links, NEW m, Received(p, k, m), Hears(p, k)
      PROVE  /\ WiresTyped(Consumed(p, k))
             /\ \/ Consumed(p, k)[l][q] = wire[l][q]
                \/ q = p /\ l = k /\ wire[l][q] # <<>> /\ Consumed(p, k)[l][q] = Tail(wire[l][q])
             /\ Consumed(p, k)[l][Other(p)] = wire[l][Other(p)]
  <2>1. WiresTyped(Consumed(p, k))
    BY <1>2, <1>5, ConsumedTyped
  <2>2. QED BY <1>2, <1>5, <2>1 DEF Consumed, Received, WiresTyped
<1>6. ASSUME NEW k \in Links, NEW m, Received(p, k, m), Hears(p, k), wire' = Consumed(p, k)
      PROVE  Goal
  BY <1>5, <1>6
<1>7. ASSUME NEW k \in Links, NEW m, Received(p, k, m), Hears(p, k), NEW x \in Links, NEW n,
             wire' = Send(Consumed(p, k), p, x, n), l = x => Sends(p, l, n)
      PROVE  Goal
  <2>1. CASE q = p
    <3>1. wire'[l][q] = Consumed(p, k)[l][q]
      BY <1>5, <1>7, <2>1, SendCases
    <3>2. QED BY <1>5, <1>7, <2>1, <3>1
  <2>2. CASE q = Other(p)
    <3>1. Consumed(p, k)[l][q] = wire[l][q] /\ WiresTyped(Consumed(p, k))
      BY <1>5, <1>7, <2>2
    <3>2. QED BY <1>4, <1>7, <3>1
  <2>3. QED BY <1>2, <2>1, <2>2
<1>8. ASSUME wire' = wire PROVE Goal
  BY <1>8
<1>9. ASSUME NEW b \in BOOLEAN, SendReady(p, b) PROVE Goal
  <2> DEFINE m == IF b THEN "Ready1" ELSE "Ready0"
  <2>1. wire' = wire \/ (peers[p] # <<>> /\ wire' = Send(wire, p, peers[p][1], m))
    BY <1>9 DEF SendReady
  <2>2. (m = "Ready1") = b /\ m \in {"Ready1", "Ready0"}
    OBVIOUS
  <2>3. peers[p] # <<>> /\ l = peers[p][1] => Sends(p, l, m)
    BY <1>9, <2>2 DEF Sends
  <2> HIDE DEF m
  <2>4. QED BY <1>2, <1>3, <1>4, <1>8, <2>1, <2>3
<1>10. CASE TryStart(p)
  BY <1>2, <1>3, <1>4, <1>10 DEF TryStart, Sends
<1>11. CASE TryCancel(p)
  BY <1>2, <1>3, <1>4, <1>11 DEF TryCancel, Sends
<1>12. CASE Leave(p)
  <2>1. CASE q = p
    <3>1. /\ wire'[l][p] = <<>> /\ end'[l][p] = "dead"
      BY <1>2, <1>12, LeaveStep, EndTable DEF Dead
    <3>2. QED BY <2>1, <3>1
  <2>2. QED BY <1>2, <1>12, <2>1
<1>13. CASE Update(p)
  <2> DEFINE w == Reset(wire, p, <<>>)
  <2>1. WiresTyped(w) /\ w[l][p] \in {wire[l][p], <<>>} /\ w[l][Other(p)] = wire[l][Other(p)]
    BY <1>2, EmptySeq DEF Reset, WiresTyped
  <2>2. w[l][p] = wire[l][p] \/ end'[l][p] = "dead"
    <3>1. end' = Reset(end, p, "dead")
      BY <1>13 DEF Update, CleanRedundantConnections
    <3>2. QED BY <3>1, <1>2 DEF Reset, TypeOK
  <2> HIDE DEF w
  <2>3. Ping(p, w)
    BY <1>13 DEF Update, w
  <2>4. CASE wire' = w
    BY <1>2, <2>1, <2>2, <2>4
  <2>5. CASE CanSend(p, peers'[p]) /\ wire' = Send(w, p, peers'[p][1], "Ping")
    <3>1. LinksFit'
      BY <1>13, UpdateKeepsFit
    <3>2. peers'[p] \in Seq(Links) /\ Len(peers'[p]) = 1
      BY <2>5, <3>1 DEF CanSend, LinksFit, TypeOK
    <3>3. peers'[p][1] \in Links
      BY <3>2, ElementOfSeq
    <3>4. CASE q = p
      <4>1. wire'[l][q] = w[l][q]
        BY <2>1, <2>5, <3>3, <3>4, SendCases
      <4>2. QED BY <2>1, <2>2, <3>4, <4>1
    <3>5. CASE q = Other(p)
      <4>1. Sends(p, l, "Ping")
        BY <1>13 DEF Sends
      <4>2. QED BY <1>4, <2>1, <2>5, <3>3, <3>5, <4>1
    <3>6. QED BY <1>2, <3>4, <3>5
  <2>6. QED BY <2>3, <2>4, <2>5 DEF Ping
<1>14. ASSUME NEW k \in Links, Flush(p, k) PROVE Goal
  <2> DEFINE s == IF end[k][Other(p)] \in Listening \cup {"accepting"}
                  THEN Append(wire[k][Other(p)], "DISCONNECT") ELSE wire[k][Other(p)]
  <2>1. wire' = [wire EXCEPT ![k][p] = <<>>, ![k][Other(p)] = s]
    BY <1>2, <1>14 DEF Flush, WiresTyped
  <2>2. s \in {Append(wire[k][Other(p)], "DISCONNECT"), wire[k][Other(p)]}
    OBVIOUS
  <2> HIDE DEF s
  <2>3. /\ wire'[l][p] = IF l = k THEN <<>> ELSE wire[l][p]
        /\ wire'[l][Other(p)] = IF l = k THEN s ELSE wire[l][Other(p)]
    BY <1>2, <2>1 DEF WiresTyped
  <2>4. end'[k][p] = "closing"
    BY <1>2, <1>14 DEF Flush, TypeOK
  <2>5. QED BY <1>2, <1>14, <2>2, <2>3, <2>4
<1>15. ASSUME NEW k \in Links, OnConnect(p, k) PROVE Goal
  <2>1. CASE wire' = [wire EXCEPT ![k][p] = <<>>] /\ end' = [end EXCEPT ![k][p] = "dead"]
    <3>1. /\ wire'[l][p] = IF l = k THEN <<>> ELSE wire[l][p]
          /\ wire'[l][Other(p)] = wire[l][Other(p)]
      BY <1>2, <2>1 DEF WiresTyped
    <3>2. end'[k][p] = "dead"
      BY <1>2, <2>1 DEF TypeOK
    <3>3. QED BY <1>2, <3>1, <3>2
  <2>2. CASE /\ p = 1 /\ peers[p] = <<>> /\ k.path \in cands[p]
             /\ wire' = [wire EXCEPT ![k][2] = Append(@, "PRIMARY")]
    <3>1. Other(p) = 2
      BY <2>2 DEF Other
    <3>2. /\ wire'[l][p] = wire[l][p]
          /\ wire'[l][Other(p)] = IF l = k THEN Append(wire[l][Other(p)], "PRIMARY")
                                  ELSE wire[l][Other(p)]
      BY <1>2, <2>2, <3>1 DEF WiresTyped
    <3>3. QED BY <1>2, <1>15, <2>2, <3>2
  <2>3. QED BY <1>8, <1>15, <2>1, <2>2 DEF OnConnect
<1>16. ASSUME NEW k \in Links, OnDisconnect(p, k) PROVE Goal
  <2>1. /\ \/ wire'[l][p] = wire[l][p]
           \/ wire'[l][p] = <<>> /\ end'[l][p] = "dead"
        /\ wire'[l][Other(p)] = wire[l][Other(p)]
    <3>1. CASE /\ wire' = [j \in Links |-> [wire[j] EXCEPT ![p] = <<>>]]
               /\ end' = [j \in Links |-> [end[j] EXCEPT ![p] = "dead"]]
      BY <3>1, <1>2 DEF WiresTyped, TypeOK
    <3>2. CASE /\ wire' = [wire EXCEPT ![k][p] = <<>>]
               /\ end' = [end EXCEPT ![k][p] = "dead"]
      BY <3>2, <1>2 DEF WiresTyped, TypeOK
    <3>3. QED BY <3>1, <3>2, <1>16 DEF OnDisconnect
  <2>2. QED BY <1>2, <2>1
<1>17. ASSUME NEW k \in Links, OnPrimary(p, k) \/ OnReady(p, k) \/ OnPong(p, k) PROVE Goal
  <2>1. wire' = Consumed(p, k) /\ \E m : Received(p, k, m)
    BY <1>17 DEF OnPrimary, OnReady, OnPong
  <2>2. QED BY <1>6, <1>17, <2>1 DEF Hears
<1>18. ASSUME NEW k \in Links, OnPing(p, k) PROVE Goal
  <2>1. wire' = Send(Consumed(p, k), p, k, "Pong") /\ Received(p, k, "Ping") /\ Hears(p, k)
    BY <1>18 DEF OnPing, Hears
  <2>2. l = k => Sends(p, l, "Pong")
    BY <1>18 DEF Sends
  <2>3. QED BY <1>7, <2>1, <2>2
<1>19. ASSUME NEW k \in Links, OnStart(p, k) PROVE Goal
  <2>1. Received(p, k, "Start") /\ Hears(p, k) /\ peers[p][1] \in Links
    BY <1>19, ReceivedListed DEF OnStart, Hears
  <2>2. CASE wire' = Consumed(p, k)
    BY <1>6, <2>1, <2>2
  <2>3. CASE wire' = Send(Consumed(p, k), p, peers[p][1], "Start") /\ side[p].meReady
    <3>1. l = peers[p][1] => Sends(p, l, "Start")
      BY <1>19, <2>3 DEF Sends
    <3>2. QED BY <1>7, <2>1, <2>3, <3>1
  <2>4. QED BY <1>19, <2>2, <2>3 DEF OnStart
<1>20. ASSUME NEW k \in Links, OnCancel(p, k) PROVE Goal
  <2>1. Received(p, k, "Cancel") /\ Hears(p, k) /\ peers[p][1] \in Links
    BY <1>20, ReceivedListed DEF OnCancel, Hears
  <2>2. l = peers[p][1] => Sends(p, l, "Cancel")
    BY <1>20 DEF Sends
  <2>3. wire' = Consumed(p, k) \/ wire' = Send(Consumed(p, k), p, peers[p][1], "Cancel")
    BY <1>20 DEF OnCancel
  <2>4. QED BY <1>6, <1>7, <2>1, <2>2, <2>3
<1> HIDE DEF Goal
<1>21. Goal
  BY <1>1, <1>9, <1>10, <1>11, <1>12, <1>13, <1>14, <1>15, <1>16, <1>17, <1>18, <1>19, <1>20
     DEF Goal
<1>22. QED BY <1>21 DEF Goal

\* An attempt leaves the object's list with its end.
LEMMA OutStep ==
  ASSUME LinksFit, Next, NEW q \in Players
  PROVE  /\ out'[q] \subseteq out[q]
         /\ \A l \in Links : l \in out[q] /\ l \notin out'[q] => end'[l][q] \in {"up", "dead"}
         /\ Update(q) => out'[q] = out[q] \ Redundant(q)
<1>1. PICK p \in Players :
         \/ (\E b \in BOOLEAN : SendReady(p, b)) \/ TryStart(p) \/ TryCancel(p)
         \/ Leave(p) \/ Update(p)
         \/ \E k \in Links :
               \/ Flush(p, k)
               \/ /\ UNCHANGED looping
                  /\ \/ OnConnect(p, k) \/ OnDisconnect(p, k) \/ OnPrimary(p, k)
                     \/ OnStart(p, k) \/ OnCancel(p, k)
                     \/ OnReady(p, k) \/ OnPing(p, k) \/ OnPong(p, k)
  BY NextCases
<1>2. out \in [Players -> SUBSET Links]
  BY DEF LinksFit, TypeOK
<1>3. Update(q) => out'[q] = out[q] \ Redundant(q)
  BY <1>2 DEF Update, CleanRedundantConnections
<1>4. CASE out' = out
  BY <1>3, <1>4
<1>5. CASE Update(p)
  <2>1. out' = [out EXCEPT ![p] = @ \ Redundant(p)] /\ Dead(p, Redundant(p))
    BY <1>5, EndTable DEF Update, CleanRedundantConnections
  <2>2. QED BY <1>2, <1>3, <2>1 DEF Dead
<1>6. ASSUME NEW k \in Links, OnConnect(p, k) PROVE out'[q] \subseteq out[q] /\
             \A l \in Links : l \in out[q] /\ l \notin out'[q] => end'[l][q] \in {"up", "dead"}
  <2>1. out' = out \/ (out' = [out EXCEPT ![p] = @ \ {k}])
    BY <1>6 DEF OnConnect
  <2>2. CASE Dead(p, {k})
    BY <1>2, <2>1, <2>2 DEF Dead
  <2>3. CASE \A j \in Links, r \in Players :
                end'[j][r] = IF j = k /\ r = p THEN "up"
                             ELSE IF j = k /\ k.from = p THEN "accepting"
                             ELSE end[j][r]
    BY <1>2, <2>1, <2>3
  <2>4. QED BY <1>6, <2>2, <2>3, EndTable
<1>7. ASSUME NEW k \in Links, OnDisconnect(p, k) PROVE out'[q] \subseteq out[q] /\
             \A l \in Links : l \in out[q] /\ l \notin out'[q] => end'[l][q] \in {"up", "dead"}
  <2>1. out' = out \/ (out' = [out EXCEPT ![p] = @ \ {k}])
    BY <1>7 DEF OnDisconnect
  <2>2. Dead(p, {k}) \/ Dead(p, Links)
    BY <1>7, EndTable
  <2>3. QED BY <1>2, <2>1, <2>2 DEF Dead
<1>8. CASE \/ (\E b \in BOOLEAN : SendReady(p, b)) \/ TryStart(p) \/ TryCancel(p) \/ Leave(p)
           \/ \E k \in Links : \/ Flush(p, k) \/ OnPrimary(p, k) \/ OnStart(p, k) \/ OnCancel(p, k)
                               \/ OnReady(p, k) \/ OnPing(p, k) \/ OnPong(p, k)
  BY <1>4, <1>8 DEF SendReady, TryStart, TryCancel, Leave, Flush, OnPrimary, OnStart, OnCancel,
     OnReady, OnPing, OnPong
<1>9. QED BY <1>1, <1>3, <1>5, <1>6, <1>7, <1>8

\* An object that ends takes all its ends with it.
LEMMA EndingStep ==
  ASSUME LinksFit, Next, NEW q \in Players, outcome'[q] # outcome[q]
  PROVE  Dead(q, Links)
<1>1. PICK p \in Players :
         \/ (\E b \in BOOLEAN : SendReady(p, b)) \/ TryStart(p) \/ TryCancel(p)
         \/ Leave(p) \/ Update(p)
         \/ \E k \in Links :
               \/ Flush(p, k)
               \/ /\ UNCHANGED looping
                  /\ \/ OnConnect(p, k) \/ OnDisconnect(p, k) \/ OnPrimary(p, k)
                     \/ OnStart(p, k) \/ OnCancel(p, k)
                     \/ OnReady(p, k) \/ OnPing(p, k) \/ OnPong(p, k)
  BY NextCases
<1>2. outcome \in [Players -> Outcomes] /\ end \in [Links -> [Players -> EndStates]]
  BY DEF LinksFit, TypeOK
<1>3. CASE Leave(p)
  <2>1. q = p
    BY <1>2, <1>3 DEF Leave
  <2>2. QED BY <1>3, <2>1, EndTable
<1>4. ASSUME NEW k \in Links, OnDisconnect(p, k) PROVE Dead(q, Links)
  <2>1. /\ outcome' = [outcome EXCEPT ![p] = Ending(side[p])]
        /\ end' = [j \in Links |-> [end[j] EXCEPT ![p] = "dead"]]
    BY <1>4 DEF OnDisconnect
  <2>2. q = p
    BY <1>2, <2>1
  <2>3. QED BY <1>2, <2>1, <2>2 DEF Dead
<1>5. CASE outcome' = outcome
  BY <1>5
<1>6. QED BY <1>1, <1>3, <1>4, <1>5 DEF SendReady, TryStart, TryCancel, Update, Flush, OnConnect,
         OnPrimary, OnStart, OnCancel, OnReady, OnPing, OnPong

LEMMA PrimaryStays ==
  ASSUME LinksFit, Next, NEW q \in Players, side[q].primary
  PROVE  side'[q].primary
<1>1. ASSUME NEW l \in Links, OnConnect(q, l) PROVE side'[q].primary
  BY <1>1, ConnectStep
<1>2. ASSUME NEW l \in Links, OnPrimary(q, l) PROVE side'[q].primary
  <2>1. l \in ToSet(peers[q])
    BY <1>2, ReceivedListed DEF OnPrimary
  <2>2. side' = [side EXCEPT ![q].primary = TRUE, ![q].primaryPath = l.path]
    BY <1>2, <2>1, PrimaryStep DEF LinksFit
  <2>3. QED BY <2>2 DEF LinksFit, TypeOK, Side
<1>3. QED BY <1>1, <1>2, PathStep

Readies == {"Ready1", "Ready0"}

\* m_bMeReady and m_bOtherReady change in SendReady and with a ready message.
LEMMA ReadyFlags ==
  ASSUME LinksFit, Next, NEW q \in Players
  PROVE  /\ side'[q].meReady = side[q].meReady \/ \E b \in BOOLEAN : SendReady(q, b)
         /\ \A b \in BOOLEAN : SendReady(q, b) => side'[q].meReady = b
         /\ side'[q].otherReady = side[q].otherReady \/ \E l \in Links : OnReady(q, l)
         /\ \A l \in Links : OnReady(q, l) => /\ wire[l][q] # <<>> /\ Head(wire[l][q]) \in Readies
                                              /\ side'[q].otherReady = (Head(wire[l][q]) = "Ready1")
<1>1. side \in [Players -> Side]
  BY DEF LinksFit, TypeOK
<1>2. ASSUME NEW p \in Players, NEW b \in BOOLEAN, SendReady(p, b)
      PROVE  /\ side'[q].otherReady = side[q].otherReady
             /\ side'[q].meReady = IF q = p THEN b ELSE side[q].meReady
  <2> DEFINE s == [side[p] EXCEPT !.meReady = b]
  <2>1. s \in Side /\ s.meReady = b /\ s.otherReady = side[p].otherReady
    BY <1>1 DEF Side
  <2>2. side' = [side EXCEPT ![p] = s] \/ side' = [side EXCEPT ![p] = OnReadyChange(s)]
    BY <1>2 DEF SendReady
  <2> HIDE DEF s
  <2>3. OnReadyChange(s).meReady = b /\ OnReadyChange(s).otherReady = side[p].otherReady
    BY <2>1, ReadyChangeTyped
  <2>4. QED BY <1>1, <2>1, <2>2, <2>3
<1>3. ASSUME NEW p \in Players, NEW l \in Links, OnReady(p, l)
      PROVE  /\ side'[q].meReady = side[q].meReady
             /\ wire[l][p] # <<>> /\ Head(wire[l][p]) \in Readies
             /\ side'[q].otherReady = IF q = p THEN Head(wire[l][p]) = "Ready1"
                                      ELSE side[q].otherReady
  <2>1. PICK b \in BOOLEAN :
           /\ Received(p, l, IF b THEN "Ready1" ELSE "Ready0")
           /\ side' = [side EXCEPT ![p] = OnReadyChange([@ EXCEPT !.otherReady = b])]
    BY <1>3 DEF OnReady
  <2> DEFINE s == [side[p] EXCEPT !.otherReady = b]
  <2>2. s \in Side /\ s.meReady = side[p].meReady /\ s.otherReady = b
    BY <1>1 DEF Side
  <2>3. side' = [side EXCEPT ![p] = OnReadyChange(s)]
    BY <2>1
  <2> HIDE DEF s
  <2>4. OnReadyChange(s).meReady = side[p].meReady /\ OnReadyChange(s).otherReady = b
    BY <2>2, ReadyChangeTyped
  <2>5. wire[l][p] # <<>> /\ Head(wire[l][p]) = IF b THEN "Ready1" ELSE "Ready0"
    BY <2>1 DEF Received
  <2>6. b = (Head(wire[l][p]) = "Ready1") /\ Head(wire[l][p]) \in Readies
    BY <2>5 DEF Readies
  <2>7. side'[p] = OnReadyChange(s) /\ (q # p => side'[q] = side[q])
    BY <1>1, <2>3
  <2>8. QED BY <2>4, <2>5, <2>6, <2>7
<1>4. ASSUME NEW p \in Players, TryStart(p) \/ \E l \in Links : OnStart(p, l)
      PROVE  side'[q].meReady = side[q].meReady /\ side'[q].otherReady = side[q].otherReady
  <2>1. \/ side' = side \/ side' = [side EXCEPT ![p].start = TRUE]
        \/ side' = [side EXCEPT ![p].tryStart = TRUE]
    BY <1>4 DEF TryStart, OnStart
  <2>2. QED BY <1>1, <2>1 DEF Side
<1>5. QED
  <2>1. \/ side'[q].meReady = side[q].meReady /\ side'[q].otherReady = side[q].otherReady
        \/ \E b \in BOOLEAN : SendReady(q, b)
        \/ \E l \in Links : OnReady(q, l)
    BY <1>2, <1>3, <1>4, FlagsStep
  <2>2. \A b \in BOOLEAN : SendReady(q, b) => side'[q].meReady = b /\ side'[q].otherReady = side[q].otherReady
    BY <1>2
  <2>3. \A l \in Links : OnReady(q, l) => /\ side'[q].meReady = side[q].meReady
             /\ wire[l][q] # <<>> /\ Head(wire[l][q]) \in Readies
             /\ side'[q].otherReady = (Head(wire[l][q]) = "Ready1")
    BY <1>3
  <2>4. QED BY <2>1, <2>2, <2>3

\* A ready message comes from SendReady, and goes over the first link.
LEMMA NewReady ==
  ASSUME LinksFit, Next, NEW l \in Links, NEW q \in Players,
         NEW m \in Readies, m \in ToSet(wire'[l][q]), m \notin ToSet(wire[l][q])
  PROVE  SendReady(Other(q), m = "Ready1") /\ l = peers[Other(q)][1] /\ peers[Other(q)] # <<>>
<1> DEFINE s == wire[l][q]
           p == Other(q)
<1>1. s \in Seq(Msgs) /\ ToSet(<<>>) = {} /\ p \in Players /\ Other(p) = q
  BY OtherFacts DEF LinksFit, TypeOK, ToSet
<1>2. s # <<>> => ToSet(Tail(s)) \subseteq ToSet(s)
  BY <1>1, TailFacts
<1>3. Leave(p) => ToSet(wire'[l][q]) \subseteq ToSet(s) \cup {"DISCONNECT"}
  BY <1>1, LeaveContents
<1>4. m \notin {"PRIMARY", "DISCONNECT"}
  BY DEF Readies
<1>5. PICK n : wire'[l][q] = Append(s, n) /\ Sends(p, l, n)
  <2>1. \A n : ToSet(Append(s, n)) = ToSet(s) \cup {n}
    BY <1>1, AppendContents
  <2> HIDE DEF s
  <2>2. QED BY <1>1, <1>2, <1>3, <1>4, <2>1, WireStep DEF s
<1>6. n = m
  BY <1>1, <1>5, AppendContents
<1>7. QED BY <1>5, <1>6 DEF Sends, Readies
-----------------------------------------------------------------------------
(***************************************************************************)
(* Ends and attempts, whether links break or not.                          *)
(***************************************************************************)
\* Whoever starts a link knows of it; what is connecting is listed as attempted; and who has
\* ended has no ends.
EndsFit ==
    /\ \A l \in Links : end[l][l.from] \notin {"none", "accepting"}
    /\ \A p \in Players, l \in Links :
          /\ outcome[p] = "lobby" /\ end[l][p] = "connecting" => l \in out[p]
          /\ outcome[p] # "lobby" => end[l][p] = "dead"
    /\ ~side[2].tryStart
    /\ side[1].tryCancel \/ side[1].tryStart => side[1].primary
    /\ side[2].primary => cands[2] = {side[2].primaryPath}

LEMMA StepKeepsEndsFit ==
  ASSUME LinksFit, PathsFit, EndsFit, [Next]_vars
  PROVE  EndsFit'
<1>1. CASE UNCHANGED vars
  BY <1>1 DEF vars, EndsFit
<1>2. CASE Next
  <2>1. ASSUME NEW l \in Links PROVE end'[l][l.from] \notin {"none", "accepting"}
    <3>1. l.from \in Players /\ end[l][l.from] \notin {"none", "accepting"}
      BY DEF EndsFit, Links
    <3>2. QED BY <1>2, <3>1, EndStep
  <2>2. ASSUME NEW p \in Players, NEW l \in Links, outcome'[p] = "lobby", end'[l][p] = "connecting"
        PROVE  l \in out'[p]
    <3>1. end[l][p] = "connecting"
      BY <1>2, <2>2, EndStep
    <3>2. outcome[p] = "lobby"
      BY <1>2, <2>2, OwnSteps
    <3>3. QED BY <1>2, <2>2, <3>1, <3>2, OutStep DEF EndsFit
  <2>3. ASSUME NEW p \in Players, NEW l \in Links, outcome'[p] # "lobby"
        PROVE  end'[l][p] = "dead"
    <3>1. CASE outcome'[p] # outcome[p]
      BY <1>2, <3>1, EndingStep DEF Dead
    <3>2. CASE outcome[p] # "lobby"
      <4>1. end[l][p] = "dead"
        BY <3>2 DEF EndsFit
      <4>2. \A k \in Links : ~OnConnect(p, k) /\ (Flush(p, l) => end[l][p] = "later")
        BY <3>2 DEF OnConnect, Flush
      <4>3. QED BY <1>2, <3>2, <4>1, <4>2, EndStep
    <3>3. QED BY <2>3, <3>1, <3>2
  <2>4. ~side'[2].tryStart
    BY <1>2, PlayerFacts, TryFlagStep DEF EndsFit, TryStart
  <2>5. ASSUME side'[1].tryCancel \/ side'[1].tryStart PROVE side'[1].primary
    <3>1. side[1].primary
      BY <1>2, <2>5, PlayerFacts, TryFlagStep DEF EndsFit, TryStart, TryCancel
    <3>2. QED BY <1>2, <3>1, PlayerFacts, PrimaryStays
  <2>6. ASSUME side'[2].primary PROVE cands'[2] = {side'[2].primaryPath}
    <3>1. ASSUME NEW k \in Links, OnConnect(2, k) PROVE cands'[2] = {side'[2].primaryPath}
      <4>1. side' = side
        BY <3>1 DEF OnConnect
      <4>2. cands[2] = {side'[2].primaryPath}
        BY <2>6, <4>1 DEF EndsFit
      <4>3. QED BY <3>1, <4>2, PlayerFacts, ConnectStep
    <3>2. ASSUME NEW k \in Links, OnPrimary(2, k) PROVE cands'[2] = {side'[2].primaryPath}
      <4>1. k \in ToSet(peers[2]) /\ cands' = cands
        BY <3>2, PlayerFacts, ReceivedListed DEF OnPrimary
      <4>2. side' = [side EXCEPT ![2].primary = TRUE, ![2].primaryPath = k.path]
        BY <3>2, <4>1, PlayerFacts, PrimaryStep DEF LinksFit
      <4>3. side'[2].primaryPath = k.path
        BY <4>2, PlayerFacts DEF LinksFit, TypeOK, Side
      <4>4. QED BY <4>1, <4>3, PlayerFacts DEF PathsFit
    <3>3. QED BY <1>2, <2>6, <3>1, <3>2, PlayerFacts, PathStep DEF EndsFit
  <2>7. QED BY <2>1, <2>2, <2>3, <2>4, <2>5, <2>6 DEF EndsFit
<1>3. QED BY <1>1, <1>2

\* Users who wait for the Connected callback: nothing has been said before.
Quiet ==
    Patient => \A p \in Players :
        ~side[p].primary => /\ ~side[p].meReady /\ ~side[Other(p)].otherReady
                            /\ \A l \in Links : ToSet(wire[l][Other(p)]) \cap Readies = {}

LEMMA StepKeepsQuiet ==
  ASSUME LinksFit, Quiet, [Next]_vars
  PROVE  Quiet'
<1>1. CASE UNCHANGED vars
  BY <1>1 DEF vars, Quiet
<1>2. CASE Next
  <2> SUFFICES ASSUME Patient, NEW p \in Players, ~side'[p].primary
               PROVE  /\ ~side'[p].meReady /\ ~side'[Other(p)].otherReady
                      /\ \A l \in Links : ToSet(wire'[l][Other(p)]) \cap Readies = {}
    BY DEF Quiet
  <2>1. ~side[p].primary /\ Other(p) \in Players /\ Other(Other(p)) = p
    BY <1>2, PrimaryStays, OtherFacts
  <2>2. /\ ~side[p].meReady /\ ~side[Other(p)].otherReady
        /\ \A l \in Links : ToSet(wire[l][Other(p)]) \cap Readies = {}
    BY <2>1 DEF Quiet
  <2>3. \A b : ~SendReady(p, b)
    BY <2>1 DEF SendReady, May
  <2>4. ~side'[p].meReady
    BY <1>2, <2>2, <2>3, ReadyFlags
  <2>5. ASSUME NEW l \in Links, OnReady(Other(p), l) PROVE FALSE
    <3>1. PICK b \in BOOLEAN : Received(Other(p), l, IF b THEN "Ready1" ELSE "Ready0")
      BY <2>5 DEF OnReady
    <3>2. (IF b THEN "Ready1" ELSE "Ready0") \in ToSet(wire[l][Other(p)])
      BY <2>1, <3>1, ConsumedTyped DEF LinksFit
    <3>3. QED BY <2>2, <3>2 DEF Readies
  <2>6. ~side'[Other(p)].otherReady
    BY <1>2, <2>1, <2>2, <2>5, ReadyFlags
  <2>7. ASSUME NEW l \in Links, NEW m \in Readies, m \in ToSet(wire'[l][Other(p)]) PROVE FALSE
    BY <1>2, <2>1, <2>2, <2>3, <2>7, NewReady
  <2>8. QED BY <2>4, <2>6, <2>7
<1>3. QED BY <1>1, <1>2
-----------------------------------------------------------------------------
(***************************************************************************)
(* The lists, and what their steps are.                                    *)
(***************************************************************************)
\* The lists are finite: an object is alone when both are empty, and what the first link makes
\* redundant is everything else.
LEMMA LinksFinite == IsFiniteSet(Links)
<1>1. ASSUME NEW p \in Players PROVE IsFiniteSet({l \in Links : l.from = p})
  <2> DEFINE T == {l \in Links : l.from = p}
             f == [x \in Paths |-> [from |-> p, path |-> x]]
  <2>1. f \in [Paths -> T]
    BY DEF Links
  <2>2. \A l \in T : \E x \in Paths : f[x] = l
    BY DEF Links
  <2> HIDE DEF f
  <2>3. f \in Surjection(Paths, T)
    BY <2>1, <2>2 DEF Surjection
  <2>4. QED BY <2>3, PathsAssumption, FS_Surjection
<1>2. Links = {l \in Links : l.from = 1} \cup {l \in Links : l.from = 2}
  BY DEF Links, Players
<1>3. QED BY <1>1, <1>2, FS_Union DEF Players

LEMMA AloneFacts ==
  ASSUME NEW ps \in Seq(Links), NEW o \in SUBSET Links
  PROVE  Alone(ps, o) <=> ps = <<>> /\ o = {}
<1>1. IsFiniteSet(o)
  BY LinksFinite, FS_Subset
<1>2. Cardinality(o) \in Nat /\ (Cardinality(o) = 0 <=> o = {})
  BY <1>1, FS_CardinalityType, FS_EmptySet
<1>3. Len(ps) \in Nat /\ (Len(ps) = 0 <=> ps = <<>>)
  BY LenProperties, EmptySeq
<1>4. QED BY <1>2, <1>3 DEF Alone

LEMMA RedundantFacts ==
  ASSUME LinksFit, NEW p \in Players, side[p].primary, peers[p] # <<>>
  PROVE  Redundant(p) = out[p] \cup {l \in ToSet(peers[p]) : l # peers[p][1]}
<1>1. peers[p] \in Seq(Links) /\ out[p] \in SUBSET Links
  BY DEF LinksFit, TypeOK
<1> DEFINE m == Len(peers[p])
           n == Cardinality(out[p])
<1>2. n \in Nat /\ (n = 0 <=> out[p] = {})
  BY <1>1, LinksFinite, FS_Subset, FS_CardinalityType, FS_EmptySet
<1>3. m \in Nat /\ m > 0
  BY <1>1, LenProperties, EmptySeq
<1>4. CASE m + n > 1
  BY <1>4 DEF Redundant
<1>5. CASE ~(m + n > 1)
  <2> HIDE DEF m, n
  <2>0. n = 0 /\ m = 1
    BY <1>2, <1>3, <1>5
  <2>1. out[p] = {} /\ Len(peers[p]) = 1
    BY <1>2, <2>0 DEF m
  <2>2. ToSet(peers[p]) = {peers[p][1]}
    BY <1>1, <2>1, ToSetFacts
  <2>3. Redundant(p) = {}
    BY <1>5 DEF Redundant, m, n
  <2>4. QED BY <2>1, <2>2, <2>3
<1>6. QED BY <1>4, <1>5

LEMMA RemoveFirstHead ==
  ASSUME NEW S, NEW s \in Seq(S), s # <<>>, NEW e, e # s[1]
  PROVE  RemoveFirst(s, e) # <<>> /\ RemoveFirst(s, e)[1] = s[1]
<1> DEFINE i == SelectInSeq(s, LAMBDA v : v = e)
<1>1. Len(s) \in Nat /\ 1 \in 1..Len(s)
  BY LenProperties, ToSetFacts
<1>2. CASE e \notin ToSet(s)
  BY <1>2, ToSetFacts DEF RemoveFirst
<1>3. CASE e \in ToSet(s)
  <2>1. i \in 1..Len(s) /\ s[i] = e
    BY <1>3, FindFacts
  <2>2. RemoveFirst(s, e) = RemoveAt(s, i)
    BY <2>1 DEF RemoveFirst
  <2> HIDE DEF i
  <2> DEFINE a == SubSeq(s, 1, i - 1)
             b == SubSeq(s, i + 1, Len(s))
  <2>3. i - 1 \in 1..Len(s)
    BY <1>1, <2>1
  <2>4. /\ a \in Seq(S) /\ Len(a) = i - 1 /\ a[1] = s[1]
    BY <2>3, PrefixFacts
  <2>5. b \in Seq(S)
    <3>1. i + 1 \in 1..(Len(s) + 1)
      BY <1>1, <2>1
    <3>2. QED BY <3>1, <1>1, SubSeqProperties
  <2> HIDE DEF a, b
  <2>6. /\ Len(a \o b) = Len(a) + Len(b)
        /\ \A j \in 1..(Len(a) + Len(b)) :
              (a \o b)[j] = IF j <= Len(a) THEN a[j] ELSE b[j - Len(a)]
    BY <2>4, <2>5, ConcatProperties
  <2>7. 1 \in 1..(Len(a) + Len(b)) /\ 1 <= Len(a) /\ Len(a) + Len(b) # 0
    BY <2>3, <2>4, <2>5, LenProperties
  <2>8. (a \o b)[1] = s[1] /\ a \o b # <<>>
    BY <2>4, <2>6, <2>7, EmptySeq
  <2>9. RemoveAt(s, i) = a \o b
    BY DEF RemoveAt, a, b
  <2>10. QED BY <2>2, <2>8, <2>9
<1>4. QED BY <1>2, <1>3

\* How a list changes: what stands first stays unless it disconnects or PRIMARY replaces it.
LEMMA PeersStep ==
  ASSUME LinksFit, Next, NEW q \in Players
  PROVE  \/ peers'[q] = peers[q]
         \/ \E k \in Links : OnConnect(q, k) /\ peers'[q] = Append(peers[q], k)
         \/ \E k \in Links : OnPrimary(q, k)
         \/ Update(q) /\ (peers[q] # <<>> => peers'[q] # <<>> /\ peers'[q][1] = peers[q][1])
         \/ \E k \in Links : OnDisconnect(q, k) /\ peers'[q] = RemoveFirst(peers[q], k)
<1>1. PICK p \in Players :
         \/ (\E b \in BOOLEAN : SendReady(p, b)) \/ TryStart(p) \/ TryCancel(p)
         \/ Leave(p) \/ Update(p)
         \/ \E k \in Links :
               \/ Flush(p, k)
               \/ /\ UNCHANGED looping
                  /\ \/ OnConnect(p, k) \/ OnDisconnect(p, k) \/ OnPrimary(p, k)
                     \/ OnStart(p, k) \/ OnCancel(p, k)
                     \/ OnReady(p, k) \/ OnPing(p, k) \/ OnPong(p, k)
  BY NextCases
<1>2. peers \in [Players -> Seq(Links)]
  BY DEF LinksFit, TypeOK
<1>3. CASE Update(p)
  <2>1. CleanRedundantConnections(p)
    BY <1>3 DEF Update
  <2>2. peers' = [peers EXCEPT ![p] = IF Redundant(p) = {} \/ @ = <<>> THEN @ ELSE <<@[1]>>]
    BY <2>1 DEF CleanRedundantConnections
  <2>3. CASE q = p
    BY <1>3, <2>1, <2>3, CleanStep
  <2>4. CASE q # p
    BY <1>2, <2>2, <2>4
  <2>5. QED BY <2>3, <2>4
<1>4. ASSUME NEW k \in Links, OnConnect(p, k)
      PROVE  peers'[q] = peers[q] \/ (OnConnect(q, k) /\ peers'[q] = Append(peers[q], k))
  <2>1. peers' = peers \/ peers' = [peers EXCEPT ![p] = Append(@, k)]
    BY <1>4 DEF OnConnect
  <2>2. QED BY <1>2, <1>4, <2>1
<1>5. ASSUME NEW k \in Links, OnDisconnect(p, k)
      PROVE  peers'[q] = peers[q] \/ (OnDisconnect(q, k) /\ peers'[q] = RemoveFirst(peers[q], k))
  <2>1. peers' = [peers EXCEPT ![p] = RemoveFirst(@, k)]
    BY <1>5 DEF OnDisconnect
  <2>2. QED BY <1>2, <1>5, <2>1
<1>6. ASSUME NEW k \in Links, OnPrimary(p, k) PROVE peers'[q] = peers[q] \/ OnPrimary(q, k)
  <2>1. k \in ToSet(peers[p])
    BY <1>6, ReceivedListed DEF OnPrimary
  <2>2. peers' = [peers EXCEPT ![p] = peers'[p]]
    BY <1>6, <2>1, PrimaryStep DEF LinksFit
  <2>3. QED BY <1>2, <1>6, <2>2
<1>7. CASE peers' = peers
  BY <1>7
<1>8. QED BY <1>1, <1>3, <1>4, <1>5, <1>6, <1>7 DEF SendReady, TryStart, TryCancel, Leave, Flush,
         OnStart, OnCancel, OnReady, OnPing, OnPong

\* A user's request ends the loop of a call of Update, only the next call begins one.
LEMMA LoopingStep ==
  ASSUME LinksFit, Next, NEW q \in Players
  PROVE  /\ looping'[q] => looping[q] \/ Update(q)
         /\ (\E b \in BOOLEAN : SendReady(q, b)) \/ TryStart(q) \/ TryCancel(q) => ~looping'[q]
<1>1. PICK p \in Players :
         \/ (\E b \in BOOLEAN : SendReady(p, b)) \/ TryStart(p) \/ TryCancel(p)
         \/ Leave(p) \/ Update(p)
         \/ \E k \in Links : Flush(p, k) \/ UNCHANGED looping
  BY NextCases
<1>2. looping \in [Players -> BOOLEAN]
  BY DEF LinksFit, TypeOK
<1>3. (\E b \in BOOLEAN : SendReady(q, b)) \/ TryStart(q) \/ TryCancel(q) => ~looping'[q]
  BY <1>2 DEF SendReady, TryStart, TryCancel
<1>4. looping'[q] => looping[q] \/ Update(q)
  <2>1. CASE looping' = looping \/ looping' = [looping EXCEPT ![p] = FALSE]
    BY <1>2, <2>1
  <2>2. CASE Update(p) /\ looping' = [looping EXCEPT ![p] = TRUE]
    BY <1>2, <2>2
  <2>3. QED BY <1>1, <2>1, <2>2 DEF SendReady, TryStart, TryCancel, Leave, Flush, Update
<1>5. QED BY <1>3, <1>4

\* m_Cancel is never taken back.
LEMMA CancelStays ==
  ASSUME LinksFit, Next, NEW q \in Players, side[q].cancel
  PROVE  side'[q].cancel
<1>1. PICK p \in Players :
         \/ (\E b \in BOOLEAN : SendReady(p, b)) \/ TryStart(p) \/ TryCancel(p)
         \/ Leave(p) \/ Update(p)
         \/ \E k \in Links :
               \/ Flush(p, k)
               \/ /\ UNCHANGED looping
                  /\ \/ OnConnect(p, k) \/ OnDisconnect(p, k) \/ OnPrimary(p, k)
                     \/ OnStart(p, k) \/ OnCancel(p, k)
                     \/ OnReady(p, k) \/ OnPing(p, k) \/ OnPong(p, k)
  BY NextCases
<1>2. side \in [Players -> Side] /\ side[p] \in Side
  BY DEF LinksFit, TypeOK
<1>3. ASSUME NEW s \in Side
      PROVE  OnReadyChange(s) \in Side /\ OnReadyChange(s).cancel = s.cancel
  BY DEF OnReadyChange, Side
<1>4. ASSUME NEW s \in Side, s.cancel = side[p].cancel,
             side' = [side EXCEPT ![p] = s] \/ side' = [side EXCEPT ![p] = OnReadyChange(s)]
      PROVE  side'[q].cancel
  BY <1>2, <1>3, <1>4
<1>5. ASSUME NEW b \in BOOLEAN, SendReady(p, b) PROVE side'[q].cancel
  <2> DEFINE s == [side[p] EXCEPT !.meReady = b]
  <2>1. s \in Side /\ s.cancel = side[p].cancel
    BY <1>2 DEF Side
  <2>2. side' = [side EXCEPT ![p] = s] \/ side' = [side EXCEPT ![p] = OnReadyChange(s)]
    BY <1>5 DEF SendReady
  <2> HIDE DEF s
  <2>3. QED BY <2>1, <2>2, <1>4
<1>6. ASSUME NEW k \in Links, OnReady(p, k) PROVE side'[q].cancel
  <2>1. PICK b \in BOOLEAN :
           side' = [side EXCEPT ![p] = OnReadyChange([@ EXCEPT !.otherReady = b])]
    BY <1>6 DEF OnReady
  <2> DEFINE s == [side[p] EXCEPT !.otherReady = b]
  <2>2. s \in Side /\ s.cancel = side[p].cancel /\ side' = [side EXCEPT ![p] = OnReadyChange(s)]
    BY <2>1, <1>2 DEF Side
  <2> HIDE DEF s
  <2>3. QED BY <2>2, <1>4
<1>7. ASSUME \/ TryStart(p) \/ TryCancel(p) \/ Update(p)
             \/ \E k \in Links :
                   OnConnect(p, k) \/ OnPrimary(p, k) \/ OnStart(p, k) \/ OnCancel(p, k) \/ OnPong(p, k)
      PROVE  side'[q].cancel
  <2>1. \/ side' = side
        \/ side' = [side EXCEPT ![p].start = TRUE] \/ side' = [side EXCEPT ![p].cancel = TRUE]
        \/ side' = [side EXCEPT ![p].tryStart = TRUE]
        \/ side' = [side EXCEPT ![p].tryCancel = TRUE]
        \/ \E b \in BOOLEAN : side' = [side EXCEPT ![p].pingSent = b]
        \/ \E x : side' = [side EXCEPT ![p].primary = TRUE, ![p].primaryPath = x]
    BY <1>7, <1>2 DEF Update, Ping, OnConnect, OnPrimary, OnStart, OnCancel, OnPong, Side, TryStart,
       TryCancel
  <2>2. QED BY <2>1, <1>2 DEF Side
<1>8. ASSUME \/ Leave(p) \/ \E k \in Links : Flush(p, k) \/ OnDisconnect(p, k) \/ OnPing(p, k)
      PROVE  side'[q].cancel
  BY <1>8 DEF Leave, Flush, OnDisconnect, OnPing
<1>9. QED BY <1>1, <1>5, <1>6, <1>7, <1>8

\* The path player 1 has chosen stays.
LEMMA ChosenPathStays ==
  ASSUME LinksFit, PathsFit, Next, side[1].primary
  PROVE  side'[1].primary /\ side'[1].primaryPath = side[1].primaryPath
<1>1. ASSUME NEW k \in Links, OnPrimary(1, k) PROVE FALSE
  BY <1>1, PlayerFacts, ConsumedTyped DEF OnPrimary, PathsFit, LinksFit
<1>2. ASSUME NEW k \in Links, OnConnect(1, k)
      PROVE  side'[1].primary /\ side'[1].primaryPath = side[1].primaryPath
  <2>1. cands[1] = {side[1].primaryPath}
    BY DEF PathsFit
  <2>2. CASE side' = side
    BY <2>2
  <2>3. CASE k.path \in cands[1] /\ side'[1].primary /\ side'[1].primaryPath = k.path
    BY <2>1, <2>3
  <2>4. QED BY <1>2, <2>2, <2>3, PlayerFacts, ConnectStep
<1>3. QED BY <1>1, <1>2, PlayerFacts, PathStep
-----------------------------------------------------------------------------
(***************************************************************************)
(* The link player 1 has put first.                                        *)
(***************************************************************************)
Finished == {"later", "closing", "dead"}

\* Player 1 has committed to the start; or, when a ready may be taken back, to disconnecting.
Over ==
    IF "unready" \in Commands
    THEN \A l \in Links : \E p \in Players : end[l][p] \in Finished
    ELSE side[1].start

\* The two no longer meet: someone left, or has what it needs to end.
Gone ==
    \/ outcome[1] = "left" \/ outcome[2] = "left"
    \/ outcome[2] # "lobby" /\ ~side[2].primary
    \/ side[2].cancel
    \/ Over

\* A disconnect comes after a cancel.
Behind(s) ==
    \A i \in 1..Len(s) : s[i] = "DISCONNECT" => \E j \in 1..(i - 1) : s[j] = "Cancel"

\* Player 1's end: it keeps the link until a cancel is confirmed, and then tells player 2.
Ends(l) ==
    /\ \/ end[l][1] \in {"up", "later"}
       \/ wire[l][2] # <<>> /\ Last(wire[l][2]) = "DISCONNECT"
    /\ end[l][1] \notin {"none", "connecting", "accepting"}
    /\ end[l][1] # "up" => side[1].cancel /\ out[1] = {}
    /\ end[l][1] # "dead" => outcome[1] = "lobby" /\ peers[1] # <<>> /\ peers[1][1] = l
    /\ outcome[1] = "lobby" => peers[1] # <<>>
    /\ side[1].tryCancel /\ looping[1] => out[1] = {}

\* What player 1 cancels player 2 will hear of before the link is closed.
Cancels(l) ==
    /\ side[1].cancel \/ side[1].tryCancel => "Cancel" \in ToSet(wire[l][2])
    /\ "DISCONNECT" \in ToSet(wire[l][2]) => end[l][1] \in {"closing", "dead"}
    /\ Behind(wire[l][2])

\* Player 2's end: it keeps the link, as its first one from the time PRIMARY comes.
Stays(l) ==
    /\ outcome[2] = "lobby" /\ end[l][2] \in {"accepting", "up"}
    /\ side[2].primary => peers[2] # <<>> /\ peers[2][1] = l
    /\ \A k \in Links : /\ end[k][2] \notin {"later", "closing"}
                        /\ "DISCONNECT" \notin ToSet(wire[k][1])
                        /\ "PRIMARY" \in ToSet(wire[k][2]) => k = l

\* Player 2 has reset the other links it had started.
Cleaned(l) == \A k \in Links \ {l} : k.from = 2 => end[k][2] = "dead"

\* When users wait to be connected, nothing is left to connect once a start is on its way.
Tidy(l) ==
    Patient =>
        /\ side[1].tryStart /\ looping[1] => out[1] = {}
        /\ side[2].primary /\ side[2].meReady /\ looping[2] => Cleaned(l)
        /\ \A k \in Links : "Start" \in ToSet(wire[k][1]) => Cleaned(l)

\* The last ready message of s says what the sender is, or it is known already.
Shown(s, other, me) ==
    \/ (\A i \in 1..Len(s) : s[i] \notin Readies) /\ (other <=> me)
    \/ \E i \in 1..Len(s) : /\ s[i] \in Readies /\ (s[i] = "Ready1" <=> me)
                            /\ \A j \in (i + 1)..Len(s) : s[j] \notin Readies

\* And all of them travel over this link.
Echo(l) ==
    Patient /\ end[l][1] = "up" =>
        /\ \A p \in Players : Shown(wire[l][p], side[p].otherReady, side[Other(p)].meReady)
        /\ \A k \in Links \ {l}, p \in Players : ToSet(wire[k][p]) \cap Readies = {}

Home(l) ==
    /\ l.path = side[1].primaryPath
    /\ Ends(l) /\ Cancels(l) /\ Stays(l) /\ Tidy(l) /\ Echo(l)

Chosen == side[1].primary /\ side[1].primaryPath \in cands[2]
HomeFit == Chosen /\ ~Gone => \E l \in Links : Home(l)

\* What the steps of this argument rest on.
Fits ==
    /\ LinksFit /\ PathsFit /\ AttemptsUnknown /\ UndecidedFit /\ StartIsPrimary
    /\ EndsFit /\ Quiet /\ CommittedIsReady
    /\ "unready" \in Commands \/ NoUnready
-----------------------------------------------------------------------------
(***************************************************************************)
(* The queues.                                                             *)
(***************************************************************************)
LEMMA BehindFacts ==
  ASSUME NEW s \in Seq(Msgs), Behind(s)
  PROVE  /\ s # <<>> => /\ Head(s) # "DISCONNECT"
                        /\ Head(s) # "Cancel" => Behind(Tail(s))
         /\ \A m \in Msgs : m # "DISCONNECT" \/ "Cancel" \in ToSet(s) => Behind(Append(s, m))
<1>1. Len(s) \in Nat
  BY LenProperties
<1>2. ASSUME s # <<>>, Head(s) = "DISCONNECT" PROVE FALSE
  <2>1. 1 \in 1..Len(s) /\ Head(s) = s[1]
    BY <1>2, ToSetFacts, HeadTailProperties
  <2>2. \E j \in 1..(1 - 1) : s[j] = "Cancel"
    BY <1>2, <2>1 DEF Behind
  <2>3. QED BY <2>2
<1>3. ASSUME s # <<>>, Head(s) # "Cancel" PROVE Behind(Tail(s))
  <2> DEFINE t == Tail(s)
  <2>1. /\ s[1] # "Cancel" /\ t \in Seq(Msgs) /\ Len(t) = Len(s) - 1
        /\ \A i \in 1..Len(t) : t[i] = s[i + 1]
    BY <1>3, HeadTailProperties
  <2> HIDE DEF t
  <2> SUFFICES ASSUME NEW i \in 1..Len(t), t[i] = "DISCONNECT"
               PROVE  \E j \in 1..(i - 1) : t[j] = "Cancel"
    BY DEF Behind, t
  <2>2. i + 1 \in 1..Len(s) /\ s[i + 1] = "DISCONNECT"
    BY <1>1, <2>1
  <2>3. PICK j \in 1..((i + 1) - 1) : s[j] = "Cancel"
    BY <2>2 DEF Behind
  <2>4. j - 1 \in 1..(i - 1) /\ j - 1 \in 1..Len(t) /\ (j - 1) + 1 = j
    BY <1>1, <2>1, <2>3
  <2>5. QED BY <2>1, <2>3, <2>4
<1>4. ASSUME NEW m \in Msgs, m # "DISCONNECT" \/ "Cancel" \in ToSet(s)
      PROVE  Behind(Append(s, m))
  <2> DEFINE t == Append(s, m)
  <2>1. /\ Len(t) = Len(s) + 1 /\ t[Len(s) + 1] = m
        /\ \A i \in 1..Len(s) : t[i] = s[i]
    BY AppendProperties
  <2> HIDE DEF t
  <2> SUFFICES ASSUME NEW i \in 1..Len(t), t[i] = "DISCONNECT"
               PROVE  \E j \in 1..(i - 1) : t[j] = "Cancel"
    BY DEF Behind, t
  <2>2. CASE i = Len(s) + 1
    <3>1. "Cancel" \in ToSet(s)
      BY <1>4, <2>1, <2>2
    <3>2. PICK j \in 1..Len(s) : s[j] = "Cancel"
      BY <3>1, ToSetFacts
    <3>3. j \in 1..(i - 1) /\ t[j] = "Cancel"
      BY <1>1, <2>1, <2>2, <3>2
    <3>4. QED BY <3>3
  <2>3. CASE i \in 1..Len(s)
    <3>1. PICK j \in 1..(i - 1) : s[j] = "Cancel"
      BY <2>1, <2>3 DEF Behind
    <3>2. j \in 1..Len(s)
      BY <1>1, <2>3
    <3>3. QED BY <2>1, <3>1, <3>2
  <2>4. QED BY <1>1, <2>1, <2>2, <2>3
<1>5. QED BY <1>2, <1>3, <1>4

\* The last message stays last until it is the only one.
LEMMA LastFacts ==
  ASSUME NEW s \in Seq(Msgs)
  PROVE  /\ \A m : Append(s, m) # <<>> /\ Last(Append(s, m)) = m
         /\ s # <<>> /\ Head(s) # Last(s) => Tail(s) # <<>> /\ Last(Tail(s)) = Last(s)
         /\ s # <<>> => Last(s) \in ToSet(s)
<1>1. Len(s) \in Nat
  BY LenProperties
<1>2. ASSUME NEW m PROVE Append(s, m) # <<>> /\ Last(Append(s, m)) = m
  <2>1. Len(Append(s, m)) = Len(s) + 1 /\ Append(s, m)[Len(s) + 1] = m
    BY <1>1
  <2>2. Len(Append(s, m)) # 0
    BY <1>1, <2>1
  <2>3. QED BY <2>1, <2>2, EmptySeq DEF Last
<1>3. ASSUME s # <<>>, Head(s) # Last(s) PROVE Tail(s) # <<>> /\ Last(Tail(s)) = Last(s)
  <2> DEFINE t == Tail(s)
  <2>1. /\ Head(s) = s[1] /\ t \in Seq(Msgs) /\ Len(t) = Len(s) - 1
        /\ \A i \in 1..Len(t) : t[i] = s[i + 1]
    BY <1>3, HeadTailProperties
  <2> HIDE DEF t
  <2>2. 1 \in 1..Len(s)
    BY <1>3, ToSetFacts
  <2>3. Len(s) # 1
    BY <1>3, <2>1 DEF Last
  <2>4. Len(t) \in 1..Len(t) /\ Len(t) + 1 = Len(s) /\ Len(t) # 0
    BY <1>1, <2>1, <2>2, <2>3
  <2>5. Last(t) = Last(s) /\ t # <<>>
    BY <2>1, <2>4, EmptySeq DEF Last
  <2>6. QED BY <2>5 DEF t
<1>4. ASSUME s # <<>> PROVE Last(s) \in ToSet(s)
  <2>1. 1 \in 1..Len(s)
    BY <1>4, ToSetFacts
  <2>2. Len(s) \in 1..Len(s)
    BY <1>1, <2>1
  <2>3. QED BY <2>2, ToSetFacts DEF Last
<1>5. QED BY <1>2, <1>3, <1>4

LEMMA ShownFacts ==
  ASSUME NEW s \in Seq(Msgs), NEW o, NEW me, Shown(s, o, me)
  PROVE  /\ s = <<>> => (o <=> me)
         /\ s # <<>> /\ Head(s) \notin Readies => Shown(Tail(s), o, me)
         /\ s # <<>> /\ Head(s) \in Readies => Shown(Tail(s), Head(s) = "Ready1", me)
         /\ \A m \in Msgs \ Readies : Shown(Append(s, m), o, me)
<1>1. Len(s) \in Nat
  BY LenProperties
<1>2. ASSUME s = <<>> PROVE o <=> me
  <2>1. Len(s) = 0
    BY <1>2
  <2>2. QED BY <2>1 DEF Shown
<1>3. ASSUME s # <<>>
      PROVE  Shown(Tail(s), IF Head(s) \in Readies THEN Head(s) = "Ready1" ELSE o, me)
  <2> DEFINE t == Tail(s)
  <2>1. /\ Head(s) = s[1] /\ t \in Seq(Msgs) /\ Len(t) = Len(s) - 1
        /\ \A i \in 1..Len(t) : t[i] = s[i + 1]
    BY <1>3, HeadTailProperties
  <2> HIDE DEF t
  <2>2. 1 \in 1..Len(s)
    BY <1>3, ToSetFacts
  <2>3. \A i \in 1..Len(t) : i + 1 \in 1..Len(s)
    BY <1>1, <2>1
  <2>4. CASE (\A i \in 1..Len(s) : s[i] \notin Readies) /\ (o <=> me)
    <3>1. (\A i \in 1..Len(t) : t[i] \notin Readies) /\ Head(s) \notin Readies
      BY <2>1, <2>2, <2>3, <2>4
    <3>2. QED BY <2>4, <3>1 DEF Shown, t
  <2>5. ASSUME NEW i \in 1..Len(s), s[i] \in Readies, s[i] = "Ready1" <=> me,
               \A j \in (i + 1)..Len(s) : s[j] \notin Readies
        PROVE  Shown(t, IF Head(s) \in Readies THEN Head(s) = "Ready1" ELSE o, me)
    <3>1. CASE i = 1
      <4>1. \A j \in 1..Len(t) : j + 1 \in (i + 1)..Len(s)
        BY <1>1, <2>1, <3>1
      <4>2. \A j \in 1..Len(t) : t[j] \notin Readies
        BY <2>1, <2>5, <4>1
      <4>3. QED BY <2>1, <2>5, <3>1, <4>2 DEF Shown
    <3>2. CASE i # 1
      <4>1. i - 1 \in 1..Len(t) /\ t[i - 1] = s[i]
        <5>1. i - 1 \in 1..Len(t) /\ (i - 1) + 1 = i
          BY <1>1, <2>1, <3>2
        <5>2. QED BY <2>1, <5>1
      <4>2. ASSUME NEW j \in ((i - 1) + 1)..Len(t) PROVE t[j] \notin Readies
        <5>1. j \in 1..Len(t) /\ j + 1 \in (i + 1)..Len(s)
          BY <1>1, <2>1
        <5>2. QED BY <2>1, <2>5, <5>1
      <4>3. QED BY <2>5, <4>1, <4>2 DEF Shown
    <3>3. QED BY <3>1, <3>2
  <2>6. QED BY <2>4, <2>5 DEF Shown, t
<1>4. ASSUME NEW m \in Msgs \ Readies PROVE Shown(Append(s, m), o, me)
  <2> DEFINE t == Append(s, m)
  <2>1. /\ Len(t) = Len(s) + 1 /\ t[Len(s) + 1] = m
        /\ \A i \in 1..Len(s) : t[i] = s[i]
    BY AppendProperties
  <2> HIDE DEF t
  <2>2. \A i \in 1..Len(t) : i = Len(s) + 1 \/ i \in 1..Len(s)
    BY <1>1, <2>1
  <2>3. CASE (\A i \in 1..Len(s) : s[i] \notin Readies) /\ (o <=> me)
    <3>1. \A i \in 1..Len(t) : t[i] \notin Readies
      BY <2>1, <2>2, <2>3
    <3>2. QED BY <2>3, <3>1 DEF Shown, t
  <2>4. ASSUME NEW i \in 1..Len(s), s[i] \in Readies, s[i] = "Ready1" <=> me,
               \A j \in (i + 1)..Len(s) : s[j] \notin Readies
        PROVE  Shown(t, o, me)
    <3>1. i \in 1..Len(t) /\ t[i] = s[i]
      BY <1>1, <2>1
    <3>2. ASSUME NEW j \in (i + 1)..Len(t) PROVE t[j] \notin Readies
      <4>1. j \in 1..Len(t) /\ (j \in 1..Len(s) => j \in (i + 1)..Len(s))
        BY <1>1, <2>1
      <4>2. QED BY <2>1, <2>2, <2>4, <4>1
    <3>3. QED BY <2>4, <3>1, <3>2 DEF Shown
  <2>5. QED BY <2>3, <2>4 DEF Shown, t
<1>5. QED BY <1>2, <1>3, <1>4

\* A ready message just sent.
LEMMA ShownNew ==
  ASSUME NEW s \in Seq(Msgs), NEW o, NEW m \in Readies
  PROVE  Shown(Append(s, m), o, m = "Ready1")
<1> DEFINE t == Append(s, m)
<1>1. m \in Msgs /\ Len(s) \in Nat
  BY LenProperties DEF Readies, Msgs
<1>2. Len(t) = Len(s) + 1 /\ t[Len(s) + 1] = m
  BY <1>1, AppendProperties
<1> HIDE DEF t
<1>3. Len(s) + 1 \in 1..Len(t) /\ (((Len(s) + 1) + 1)..Len(t)) = {}
  BY <1>1, <1>2
<1>4. QED BY <1>2, <1>3 DEF Shown, t
-----------------------------------------------------------------------------
(***************************************************************************)
(* Who has parted stays so.                                                *)
(***************************************************************************)
LEMMA FinishedStays ==
  ASSUME LinksFit, AttemptsUnknown, Next, NEW l \in Links, NEW q \in Players,
         end[l][q] \in Finished
  PROVE  end'[l][q] \in Finished
<1>1. ASSUME OnConnect(q, l), l.path \in cands[q] PROVE FALSE
  BY <1>1 DEF OnConnect, Finished
<1>2. ASSUME l.from # q, end[l][Other(q)] = "connecting", outcome[q] = "lobby" PROVE FALSE
  <2>1. l.from = Other(q) /\ Other(Other(q)) = q
    BY <1>2, OtherFacts DEF Links
  <2>2. end[l][q] = "none"
    BY <1>2, <2>1 DEF AttemptsUnknown
  <2>3. QED BY <2>2 DEF Finished
<1>3. QED BY <1>1, <1>2, EndStep DEF Finished

LEMMA StartStays ==
  ASSUME Fits, Next, "unready" \notin Commands, NEW q \in Players, side[q].start
  PROVE  side'[q].start
<1>1. side[q].meReady /\ side[q].otherReady
  BY DEF Fits, CommittedIsReady
<1>2. QED BY <1>1, StartFlagStep DEF Fits, NoUnready

LEMMA GoneStays ==
  ASSUME Fits, Next, Gone
  PROVE  Gone'
<1>1. LinksFit /\ AttemptsUnknown
  BY DEF Fits
<1>2. ASSUME NEW p \in Players, outcome[p] # "lobby"
      PROVE  outcome'[p] = outcome[p] /\ side'[p] = side[p]
  BY <1>1, <1>2, OwnSteps
<1>3. CASE outcome[1] = "left" \/ outcome[2] = "left"
  BY <1>2, <1>3, PlayerFacts DEF Gone
<1>4. CASE outcome[2] # "lobby" /\ ~side[2].primary
  BY <1>2, <1>4, PlayerFacts DEF Gone
<1>5. CASE side[2].cancel
  BY <1>1, <1>5, PlayerFacts, CancelStays DEF Gone
<1>6. CASE Over
  <2>1. CASE "unready" \in Commands
    <3>1. \A l \in Links : \E p \in Players : end'[l][p] \in Finished
      BY <1>1, <1>6, <2>1, FinishedStays DEF Over
    <3>2. QED BY <2>1, <3>1 DEF Gone, Over
  <2>2. CASE "unready" \notin Commands
    BY <1>6, <2>2, PlayerFacts, StartStays DEF Gone, Over
  <2>3. QED BY <2>1, <2>2
<1>7. QED BY <1>3, <1>4, <1>5, <1>6 DEF Gone
-----------------------------------------------------------------------------
(***************************************************************************)
(* The ends and the lists of the link player 1 has put first.              *)
(***************************************************************************)
HomeStep(l) ==
    /\ l \in Links /\ Home(l)
    /\ Fits /\ Chosen /\ ~Gone
    /\ Next
    /\ Chosen' /\ ~Gone'

LEMMA HomeFacts ==
  ASSUME NEW l \in Links, HomeStep(l)
  PROVE  /\ Next /\ LinksFit /\ LinksFit' /\ PathsFit /\ EndsFit /\ AttemptsUnknown /\ TypeOK
         /\ side[1].primary /\ l.path \in cands[2]
         /\ Ends(l) /\ Cancels(l) /\ Stays(l) /\ Tidy(l) /\ Echo(l)
         /\ outcome[1] = "lobby" => peers[1] # <<>>
         /\ \A k \in Links : wire[k][1] \in Seq(Msgs) /\ wire[k][2] \in Seq(Msgs)
<1>1. Next /\ LinksFit /\ PathsFit /\ EndsFit /\ AttemptsUnknown /\ TypeOK
  BY DEF HomeStep, Fits, LinksFit
<1>2. LinksFit'
  BY <1>1, StepKeepsFit
<1>3. QED BY <1>1, <1>2, PlayerFacts DEF HomeStep, Home, Ends, Chosen, TypeOK

\* What may no longer happen.
LEMMA NobodyLeaves ==
  ASSUME NEW l \in Links, HomeStep(l)
  PROVE  /\ \A p \in Players : ~Leave(p)
         /\ \A k \in Links : ~OnCancel(2, k) /\ ~Flush(2, k)
<1>1. TypeOK /\ Stays(l) /\ ~Gone'
  BY HomeFacts DEF HomeStep
<1>2. ASSUME NEW p \in Players, Leave(p) PROVE FALSE
  <2>1. outcome'[p] = "left"
    BY <1>1, <1>2 DEF Leave, TypeOK
  <2>2. QED BY <1>1, <2>1 DEF Gone, Players
<1>3. ASSUME NEW k \in Links, OnCancel(2, k) PROVE FALSE
  <2>1. side'[2].cancel
    BY <1>1, <1>3, PlayerFacts DEF OnCancel, TypeOK, Side
  <2>2. QED BY <1>1, <2>1 DEF Gone
<1>4. ASSUME NEW k \in Links, Flush(2, k) PROVE FALSE
  BY <1>1, <1>4 DEF Flush, Stays
<1>5. QED BY <1>2, <1>3, <1>4

\* No link breaks: player 2 is not told to disconnect before it has heard of the cancel, and
\* player 1 only disconnects itself.
LEMMA HomeDisconnects ==
  ASSUME Lossy = FALSE, NEW l \in Links, HomeStep(l)
  PROVE  ~OnDisconnect(2, l) /\ (OnDisconnect(1, l) => end[l][1] = "closing")
<1>1. /\ TypeOK /\ LinksFit /\ Stays(l) /\ Ends(l) /\ Behind(wire[l][2])
      /\ wire[l][2] \in Seq(Msgs)
  BY HomeFacts DEF Cancels
<1>2. ASSUME OnDisconnect(2, l) PROVE FALSE
  <2>1. Disconnects(2, l)
    BY <1>2 DEF OnDisconnect
  <2>2. end[l][2] \in {"accepting", "up"}
    BY <1>1 DEF Stays
  <2>3. CASE Received(2, l, "DISCONNECT")
    BY <1>1, <2>3, BehindFacts DEF Received
  <2>4. CASE end[l][1] = "dead" /\ (wire[l][2] # <<>> => Last(wire[l][2]) # "DISCONNECT")
    BY <1>1, <2>4 DEF Ends
  <2>5. QED BY <2>1, <2>2, <2>3, <2>4, PlayerFacts DEF Disconnects
<1>3. ASSUME OnDisconnect(1, l), end[l][1] # "closing" PROVE FALSE
  <2>1. Disconnects(1, l)
    BY <1>3 DEF OnDisconnect
  <2>2. end[l][1] \notin {"none", "connecting", "accepting"} /\ end[l][2] \in {"accepting", "up"}
    BY <1>1 DEF Stays, Ends
  <2>3. ASSUME Received(1, l, "DISCONNECT") PROVE FALSE
    BY <1>1, <2>3, PlayerFacts, ConsumedTyped DEF Stays
  <2>4. QED BY <1>3, <2>1, <2>2, <2>3, PlayerFacts DEF Disconnects
<1>4. QED BY <1>2, <1>3

\* Player 1 would have all it needs to end.
LEMMA NoConfirmation ==
  ASSUME Patient \/ "unready" \notin Commands, NEW l \in Links, HomeStep(l),
         NEW k \in Links, OnStart(1, k)
  PROVE  ~side[1].tryStart
<1> SUFFICES ASSUME side[1].tryStart PROVE FALSE
  OBVIOUS
<1>1. TypeOK /\ LinksFit /\ EndsFit /\ Ends(l) /\ Tidy(l) /\ ~Gone'
  BY HomeFacts DEF HomeStep
<1>2. /\ Received(1, k, "Start") /\ "Start" \in ToSet(wire[k][1])
      /\ side' = [side EXCEPT ![1].start = TRUE] /\ end' = DisconnectLater(1)
  BY <1>1, PlayerFacts, ConsumedTyped DEF OnStart
<1>3. CASE "unready" \notin Commands
  <2>1. side'[1].start
    BY <1>1, <1>2, PlayerFacts DEF TypeOK, Side
  <2>2. QED BY <1>1, <1>3, <2>1 DEF Gone, Over
<1>4. CASE "unready" \in Commands
  <2>1. /\ outcome[1] = "lobby" /\ looping[1] /\ Patient
    BY <1>2, <1>4 DEF Received
  <2>2. out[1] = {} /\ Cleaned(l)
    BY <1>1, <1>2, <2>1 DEF Tidy
  <2>3. ASSUME NEW j \in Links PROVE \E p \in Players : end'[j][p] \in Finished
    <3>1. \A p \in Players :
             end'[j][p] = IF p = 1 /\ j \in ToSet(peers[1]) /\ end[j][1] = "up"
                          THEN "later" ELSE end[j][p]
      BY <1>1, <1>2, PlayerFacts DEF DisconnectLater, TypeOK
    <3>2. CASE end[j][1] \in {"up", "later", "closing"}
      <4>1. j \in ToSet(peers[1])
        BY <1>1, <2>1, <3>2, PlayerFacts DEF LinksFit, ListenersListed
      <4>2. QED BY <3>1, <3>2, <4>1, PlayerFacts DEF Finished
    <3>3. CASE end[j][1] = "dead"
      BY <3>1, <3>3, PlayerFacts DEF Finished
    <3>4. CASE end[j][1] = "connecting"
      BY <1>1, <2>1, <2>2, <3>4, PlayerFacts DEF EndsFit
    <3>5. CASE end[j][1] \in {"none", "accepting"}
      <4>1. j.from = 2
        BY <1>1, <3>5 DEF EndsFit, Links, Players
      <4>2. j # l
        BY <1>1, <3>5 DEF Ends
      <4>3. end[j][2] = "dead"
        BY <2>2, <4>1, <4>2 DEF Cleaned
      <4>4. QED BY <3>1, <4>3, PlayerFacts DEF Finished
    <3>6. end[j][1] \in EndStates
      BY <1>1, PlayerFacts DEF TypeOK
    <3>7. QED BY <3>2, <3>3, <3>4, <3>5, <3>6 DEF EndStates
  <2>4. QED BY <1>1, <1>4, <2>3 DEF Gone, Over
<1>5. QED BY <1>3, <1>4

\* An object with a link left does not end.
LEMMA ListedStays ==
  ASSUME LinksFit, NEW q \in Players, NEW k \in Links, OnDisconnect(q, k), peers[q] # <<>>,
         peers[q][1] # k
  PROVE  outcome'[q] = outcome[q] /\ peers'[q] # <<>> /\ peers'[q][1] = peers[q][1]
<1>1. /\ peers \in [Players -> Seq(Links)] /\ peers[q] \in Seq(Links) /\ IsInjective(peers[q])
      /\ out[q] \in SUBSET Links /\ out \in [Players -> SUBSET Links]
  BY DEF LinksFit, TypeOK
<1>2. peers' = [peers EXCEPT ![q] = RemoveFirst(@, k)]
  BY DEF OnDisconnect
<1>3. /\ peers'[q] = RemoveFirst(peers[q], k)
      /\ peers'[q] # <<>> /\ peers'[q][1] = peers[q][1]
  BY <1>1, <1>2, RemoveFirstHead
<1>4. peers'[q] \in Seq(Links) /\ out'[q] \in SUBSET Links
  <2>1. out' = out \/ out' = [out EXCEPT ![q] = @ \ {k}]
    BY DEF OnDisconnect
  <2>2. QED BY <1>1, <1>3, <2>1, RemoveFirstFacts
<1>5. ~Alone(peers'[q], out'[q])
  BY <1>3, <1>4, AloneFacts
<1>6. outcome' = outcome
  BY <1>5 DEF OnDisconnect
<1>7. QED BY <1>3, <1>6

\* Who ends: the last link of its list disconnects.
LEMMA EndingCases ==
  ASSUME LinksFit, Next, NEW q \in Players, outcome'[q] # outcome[q]
  PROVE  Leave(q) \/ \E k \in Links : OnDisconnect(q, k)
<1>1. PICK p \in Players :
         \/ (\E b \in BOOLEAN : SendReady(p, b)) \/ TryStart(p) \/ TryCancel(p)
         \/ Leave(p) \/ Update(p)
         \/ \E k \in Links :
               \/ Flush(p, k)
               \/ /\ UNCHANGED looping
                  /\ \/ OnConnect(p, k) \/ OnDisconnect(p, k) \/ OnPrimary(p, k)
                     \/ OnStart(p, k) \/ OnCancel(p, k)
                     \/ OnReady(p, k) \/ OnPing(p, k) \/ OnPong(p, k)
  BY NextCases
<1>2. outcome \in [Players -> Outcomes]
  BY DEF LinksFit, TypeOK
<1>3. CASE Leave(p)
  BY <1>2, <1>3 DEF Leave
<1>4. ASSUME NEW k \in Links, OnDisconnect(p, k) PROVE OnDisconnect(q, k)
  <2>1. outcome' = [outcome EXCEPT ![p] = Ending(side[p])]
    BY <1>4 DEF OnDisconnect
  <2>2. QED BY <1>2, <1>4, <2>1
<1>5. CASE outcome' = outcome
  BY <1>5
<1>6. QED BY <1>1, <1>3, <1>4, <1>5 DEF SendReady, TryStart, TryCancel, Update, Flush, OnConnect,
         OnPrimary, OnStart, OnCancel, OnReady, OnPing, OnPong

LEMMA TwoStays ==
  ASSUME Lossy = FALSE, NEW l \in Links, HomeStep(l)
  PROVE  outcome'[2] = "lobby"
<1>1. LinksFit /\ Next /\ Stays(l) /\ ~Gone' /\ outcome[2] = "lobby"
  BY HomeFacts DEF HomeStep, Stays
<1> SUFFICES ASSUME outcome'[2] # "lobby" PROVE FALSE
  OBVIOUS
<1>2. PICK k \in Links : OnDisconnect(2, k)
  BY <1>1, PlayerFacts, EndingCases, NobodyLeaves
<1>3. side' = side
  BY <1>2 DEF OnDisconnect
<1>4. side[2].primary
  BY <1>1, <1>3 DEF Gone
<1>5. k # l /\ peers[2] # <<>> /\ peers[2][1] = l
  BY <1>1, <1>2, <1>4, HomeDisconnects DEF Stays
<1>6. QED BY <1>1, <1>2, <1>5, PlayerFacts, ListedStays

\* What becomes of player 1's end.
LEMMA HomeEndOne ==
  ASSUME Lossy = FALSE, Patient \/ "unready" \notin Commands, NEW l \in Links, HomeStep(l)
  PROVE  \/ end'[l][1] = end[l][1]
         \/ /\ end[l][1] = "up" /\ end'[l][1] = "later"
            /\ side[1].tryCancel /\ \E k \in Links : OnCancel(1, k)
         \/ end[l][1] = "later" /\ end'[l][1] = "closing" /\ Flush(1, l)
         \/ end[l][1] = "closing" /\ end'[l][1] = "dead"
<1>1. Next /\ LinksFit /\ TypeOK /\ Ends(l) /\ Stays(l)
  BY HomeFacts
<1>2. l.path \in cands[1] \/ end[l][1] \notin {"connecting", "accepting"}
  BY <1>1 DEF Ends
<1>3. ASSUME Kills(1, l), end[l][1] # "dead", end[l][1] # "closing" PROVE FALSE
  <2>1. outcome[1] = "lobby" /\ peers[1] # <<>> /\ peers[1][1] = l /\ l \in ToSet(peers[1])
    BY <1>1, <1>3, PlayerFacts, ToSetFacts DEF Ends, TypeOK
  <2>2. CASE l \in Redundant(1)
    <3>1. l \notin out[1]
      BY <1>1, <2>1, PlayerFacts DEF LinksFit, AttemptsApart
    <3>2. QED BY <2>1, <2>2, <3>1 DEF Redundant
  <2>3. ASSUME OnConnect(1, l) PROVE FALSE
    BY <1>1, <2>3 DEF OnConnect, Ends
  <2>4. ASSUME outcome'[1] # "lobby", NEW k \in Links, OnDisconnect(1, k) PROVE FALSE
    <3>1. k # l
      BY <1>3, <2>4, HomeDisconnects
    <3>2. QED BY <1>1, <2>1, <2>4, <3>1, PlayerFacts, ListedStays
  <2>5. QED BY <1>3, <2>2, <2>3, <2>4, PlayerFacts, NobodyLeaves, HomeDisconnects DEF Kills
<1>4. ASSUME OnConnect(1, l) PROVE FALSE
  BY <1>1, <1>4 DEF OnConnect, Ends
<1>5. end[l][2] # "connecting"
  BY <1>1 DEF Stays
<1>6. ASSUME Finishes(1) PROVE side[1].tryCancel /\ \E k \in Links : OnCancel(1, k)
  BY <1>6, NoConfirmation DEF Finishes
<1>7. Flush(1, l) => end[l][1] = "later"
  BY DEF Flush
<1>8. QED BY <1>1, <1>3, <1>4, <1>5, <1>6, <1>7, PlayerFacts, EndStep

\* And of player 2's.
LEMMA HomeEndTwo ==
  ASSUME Lossy = FALSE, NEW l \in Links, HomeStep(l)
  PROVE  /\ end'[l][2] \in {end[l][2], "up"}
         /\ \A k \in Links : /\ end'[k][2] \notin {"later", "closing"}
                             /\ k.from = 2 /\ end[k][2] = "dead" => end'[k][2] = "dead"
<1>1. Next /\ LinksFit /\ TypeOK /\ Ends(l) /\ Stays(l) /\ EndsFit /\ l.path \in cands[2]
  BY HomeFacts
<1>2. ~Finishes(2)
  BY <1>1, NobodyLeaves DEF Finishes, EndsFit
<1>3. ASSUME NEW k \in Links PROVE end'[k][2] \notin {"later", "closing"}
  BY <1>1, <1>2, <1>3, PlayerFacts, EndStep, NobodyLeaves DEF Stays
<1>4. ASSUME NEW k \in Links, k.from = 2, end[k][2] = "dead" PROVE end'[k][2] = "dead"
  <2>1. ~OnConnect(2, k)
    BY <1>4 DEF OnConnect
  <2>2. QED BY <1>1, <1>2, <1>4, <2>1, PlayerFacts, EndStep, NobodyLeaves
<1>5. ASSUME Kills(2, l) PROVE FALSE
  <2>1. CASE Update(2) /\ l \in Redundant(2)
    <3>1. side[2].primary
      BY <2>1 DEF Redundant
    <3>2. peers[2] # <<>> /\ peers[2][1] = l /\ l \in ToSet(peers[2])
      BY <1>1, <3>1, PlayerFacts, ToSetFacts DEF Stays, TypeOK
    <3>3. l \notin out[2]
      BY <1>1, <3>2, PlayerFacts DEF LinksFit, AttemptsApart
    <3>4. QED BY <2>1, <3>2, <3>3 DEF Redundant
  <2>2. QED BY <1>1, <1>5, <2>1, PlayerFacts, NobodyLeaves, HomeDisconnects, TwoStays DEF Kills
<1>6. end[l][1] # "connecting"
  BY <1>1 DEF Ends
<1>7. end'[l][2] \in {end[l][2], "up"}
  BY <1>1, <1>2, <1>5, <1>6, PlayerFacts, EndStep, NobodyLeaves
<1>8. QED BY <1>3, <1>4, <1>7

\* The lists of player 1.
LEMMA HomeListOne ==
  ASSUME Lossy = FALSE, Patient \/ "unready" \notin Commands, NEW l \in Links, HomeStep(l)
  PROVE  /\ end'[l][1] # "dead" => outcome'[1] = "lobby" /\ peers'[1] # <<>> /\ peers'[1][1] = l
         /\ outcome'[1] = "lobby" => peers'[1] # <<>>
         /\ \A k \in Links : ~(OnConnect(1, k) /\ peers[1] = <<>>)
<1>1. /\ Next /\ LinksFit /\ LinksFit' /\ TypeOK /\ Ends(l) /\ Stays(l) /\ PathsFit
      /\ outcome[1] = "lobby" => peers[1] # <<>>
  BY HomeFacts
<1>2. ASSUME NEW k \in Links, OnConnect(1, k) PROVE peers[1] # <<>>
  BY <1>1, <1>2 DEF OnConnect
<1>3. ASSUME NEW k \in Links, OnPrimary(1, k) PROVE FALSE
  BY <1>1, <1>3, PlayerFacts, ConsumedTyped DEF OnPrimary, PathsFit
<1>4. ASSUME end'[l][1] # "dead"
      PROVE  outcome'[1] = "lobby" /\ peers'[1] # <<>> /\ peers'[1][1] = l
  <2>1. end[l][1] # "dead"
    BY <1>4, HomeEndOne
  <2>2. outcome[1] = "lobby" /\ peers[1] # <<>> /\ peers[1][1] = l
    BY <1>1, <2>1 DEF Ends
  <2>3. ASSUME NEW k \in Links, OnDisconnect(1, k), k = l PROVE FALSE
    <3>1. Kills(1, l)
      BY <2>3 DEF Kills
    <3>2. end'[l][1] = "dead"
      BY <1>1, <2>3, PlayerFacts, EndTable DEF Dead
    <3>3. QED BY <1>4, <3>2
  <2>4. ASSUME NEW k \in Links, OnDisconnect(1, k)
        PROVE  outcome'[1] = "lobby" /\ peers'[1] # <<>> /\ peers'[1][1] = l
    BY <1>1, <2>2, <2>3, <2>4, PlayerFacts, ListedStays
  <2>5. outcome'[1] = "lobby"
    BY <1>1, <2>2, <2>4, PlayerFacts, EndingCases, NobodyLeaves
  <2>6. ASSUME NEW k \in Links, OnConnect(1, k) PROVE peers'[1] # <<>> /\ peers'[1][1] = l
    BY <1>1, <2>2, <2>6, PlayerFacts, ConnectStep
  <2>7. peers'[1] # <<>> /\ peers'[1][1] = l
    BY <1>1, <1>3, <2>2, <2>4, <2>6, PlayerFacts, PeersStep
  <2>8. QED BY <2>5, <2>7
<1>5. ASSUME outcome'[1] = "lobby" PROVE peers'[1] # <<>>
  <2>1. outcome[1] = "lobby" /\ peers[1] # <<>>
    BY <1>1, <1>5, PlayerFacts, OwnSteps
  <2>2. CASE end'[l][1] # "dead"
    BY <1>4, <2>2
  <2>3. CASE end'[l][1] = "dead"
    <3>1. out[1] = {}
      BY <1>1, <2>3, HomeEndOne DEF Ends
    <3>2. ASSUME NEW k \in Links, OnDisconnect(1, k) PROVE peers'[1] # <<>>
      <4>1. ~Alone(peers'[1], out'[1])
        <5>1. ASSUME Alone(peers'[1], out'[1]) PROVE FALSE
          <6>1. outcome' = [outcome EXCEPT ![1] = Ending(side[1])]
            BY <3>2, <5>1 DEF OnDisconnect
          <6>2. outcome'[1] # "lobby"
            BY <1>1, <6>1, PlayerFacts DEF TypeOK, Ending
          <6>3. QED BY <1>5, <6>2
        <5>2. QED BY <5>1
      <4>2. out'[1] = {} /\ peers'[1] \in Seq(Links)
        BY <1>1, <3>1, PlayerFacts, OutStep DEF LinksFit, TypeOK
      <4>3. QED BY <4>1, <4>2, AloneFacts
    <3>3. ASSUME NEW k \in Links, OnConnect(1, k) PROVE peers'[1] # <<>>
      BY <1>1, <2>1, <3>3, PlayerFacts, ConnectStep
    <3>4. QED BY <1>1, <1>3, <2>1, <3>2, <3>3, PlayerFacts, PeersStep
  <2>4. QED BY <2>2, <2>3
<1>6. QED BY <1>2, <1>4, <1>5

\* Nothing but the first link is left after Update has cleaned up.
LEMMA HomeCleans ==
  ASSUME NEW l \in Links, HomeStep(l)
  PROVE  /\ Update(1) => out'[1] = {}
         /\ Update(2) /\ side[2].primary => Cleaned(l)'
<1>1. /\ Next /\ LinksFit /\ TypeOK /\ Ends(l) /\ Stays(l) /\ side[1].primary /\ EndsFit
      /\ outcome[1] = "lobby" => peers[1] # <<>>
  BY HomeFacts
<1>2. ASSUME Update(1) PROVE out'[1] = {}
  <2>1. peers[1] # <<>>
    BY <1>1, <1>2 DEF Update
  <2>2. out[1] \subseteq Redundant(1)
    BY <1>1, <2>1, PlayerFacts, RedundantFacts
  <2>3. QED BY <1>1, <1>2, <2>2, PlayerFacts, OutStep
<1>3. ASSUME Update(2), side[2].primary PROVE Cleaned(l)'
  <2>1. peers[2] # <<>> /\ peers[2][1] = l /\ outcome[2] = "lobby"
    BY <1>1, <1>3 DEF Stays
  <2>2. Redundant(2) = out[2] \cup {k \in ToSet(peers[2]) : k # l}
    BY <1>1, <1>3, <2>1, PlayerFacts, RedundantFacts
  <2>3. ASSUME NEW k \in Links \ {l}, k.from = 2 PROVE end'[k][2] = "dead"
    <3>1. k \in Redundant(2) \/ end[k][2] = "dead"
      <4>1. end[k][2] \notin {"none", "accepting"}
        BY <1>1, <2>3 DEF EndsFit
      <4>2. end[k][2] \in {"up", "later", "closing"} => k \in ToSet(peers[2])
        BY <1>1, <2>1, <2>3, PlayerFacts DEF LinksFit, ListenersListed
      <4>3. end[k][2] = "connecting" => k \in out[2]
        BY <1>1, <2>1, <2>3, PlayerFacts DEF EndsFit
      <4>4. end[k][2] \in EndStates
        BY <1>1, <2>3, PlayerFacts DEF TypeOK
      <4>5. QED BY <2>2, <2>3, <4>1, <4>2, <4>3, <4>4 DEF EndStates
    <3>2. Dead(2, Redundant(2))
      BY <1>1, <1>3, PlayerFacts, EndTable
    <3>3. QED BY <2>3, <3>1, <3>2, PlayerFacts DEF Dead
  <2>4. QED BY <2>3 DEF Cleaned
<1>4. QED BY <1>2, <1>3

\* What travels over it: nothing is lost on the way to player 2.
LEMMA HomeWires ==
  ASSUME Lossy = FALSE, NEW l \in Links, HomeStep(l)
  PROVE  /\ LET s == wire[l][2]
                t == wire'[l][2]
            IN  \/ t = s
                \/ s # <<>> /\ t = Tail(s) /\ Hears(2, l) /\ Head(s) \notin {"Cancel", "DISCONNECT"}
                \/ \E m : t = Append(s, m) /\ Sends(1, l, m) /\ end[l][1] = "up"
                \/ t = Append(s, "DISCONNECT") /\ Flush(1, l)
         /\ LET s == wire[l][1]
                t == wire'[l][1]
            IN  \/ t = s
                \/ t = <<>> /\ end'[l][1] \in {"closing", "dead"}
                \/ s # <<>> /\ t = Tail(s) /\ Hears(1, l)
                \/ \E m : t = Append(s, m) /\ Sends(2, l, m) /\ end[l][2] = "up"
<1>1. Next /\ LinksFit /\ TypeOK /\ Stays(l) /\ (outcome[1] = "lobby" => peers[1] # <<>>)
  BY HomeFacts
<1>2. end'[l][2] \notin {"closing", "dead"}
  BY <1>1, HomeEndTwo DEF Stays
<1>3. ASSUME Hears(2, l) PROVE Head(wire[l][2]) \notin {"Cancel", "DISCONNECT"}
  <2>1. ~OnCancel(2, l)
    BY NobodyLeaves
  <2>2. \E m \in Msgs \ {"Cancel", "DISCONNECT"} : Received(2, l, m)
    BY <1>3, <2>1 DEF Hears, OnPrimary, OnReady, OnStart, OnPing, OnPong, Msgs, PingMsgs
  <2>3. QED BY <2>2 DEF Received
<1>4. ~(OnConnect(1, l) /\ peers[1] = <<>>)
  BY <1>1 DEF OnConnect
<1>5. ~Leave(1) /\ ~Leave(2) /\ ~Flush(2, l)
  BY NobodyLeaves, PlayerFacts
<1>6. QED BY <1>1, <1>2, <1>3, <1>4, <1>5, PlayerFacts, WireStep

LEMMA HomeKeepsEnds ==
  ASSUME Lossy = FALSE, Patient \/ "unready" \notin Commands, NEW l \in Links, HomeStep(l)
  PROVE  Ends(l)'
<1>1. /\ Next /\ LinksFit /\ TypeOK /\ Ends(l) /\ Stays(l) /\ Behind(wire[l][2])
      /\ wire[l][2] \in Seq(Msgs)
  BY HomeFacts DEF Cancels
<1> DEFINE s == wire[l][2]
           t == wire'[l][2]
<1>2. \/ end'[l][1] \in {"up", "later"}
      \/ t # <<>> /\ Last(t) = "DISCONNECT"
  <2>1. CASE Flush(1, l)
    <3>1. t = Append(s, "DISCONNECT")
      BY <1>1, <2>1, PlayerFacts DEF Flush, Stays, Listening, TypeOK
    <3>2. QED BY <1>1, <3>1, LastFacts
  <2>2. CASE ~Flush(1, l) /\ end[l][1] \in {"up", "later"}
    BY <2>2, HomeEndOne
  <2>3. CASE ~Flush(1, l) /\ end[l][1] \notin {"up", "later"}
    <3>1. s # <<>> /\ Last(s) = "DISCONNECT"
      BY <1>1, <2>3 DEF Ends
    <3>2. t = s \/ (t = Tail(s) /\ Head(s) # "DISCONNECT")
      BY <2>3, HomeWires
    <3>3. QED BY <1>1, <3>1, <3>2, LastFacts
  <2>4. QED BY <2>1, <2>2, <2>3
<1>3. end'[l][1] \notin {"none", "connecting", "accepting"}
  BY <1>1, HomeEndOne DEF Ends
<1>4. out'[1] \subseteq out[1]
  BY <1>1, PlayerFacts, OutStep
<1>5. ASSUME end'[l][1] # "up" PROVE side'[1].cancel /\ out'[1] = {}
  <2>1. CASE end[l][1] # "up"
    BY <1>1, <1>4, <2>1, PlayerFacts, CancelStays DEF Ends
  <2>2. CASE end[l][1] = "up"
    <3>1. side[1].tryCancel /\ \E k \in Links : OnCancel(1, k)
      BY <1>5, <2>2, HomeEndOne
    <3>2. looping[1] /\ side' = [side EXCEPT ![1].cancel = TRUE]
      BY <3>1 DEF OnCancel, Received
    <3>3. out[1] = {}
      BY <1>1, <3>1, <3>2 DEF Ends
    <3>4. side'[1].cancel
      BY <1>1, <3>2, PlayerFacts DEF TypeOK, Side
    <3>5. QED BY <1>4, <3>3, <3>4
  <2>3. QED BY <2>1, <2>2
<1>6. ASSUME side'[1].tryCancel, looping'[1] PROVE out'[1] = {}
  <2>1. side[1].tryCancel
    BY <1>1, <1>6, PlayerFacts, TryFlagStep, LoopingStep
  <2>2. looping[1] \/ Update(1)
    BY <1>1, <1>6, PlayerFacts, LoopingStep
  <2>3. QED BY <1>1, <1>4, <2>1, <2>2, HomeCleans DEF Ends
<1>7. QED BY <1>2, <1>3, <1>5, <1>6, HomeListOne DEF Ends

LEMMA HomeKeepsCancels ==
  ASSUME Lossy = FALSE, Patient \/ "unready" \notin Commands, NEW l \in Links, HomeStep(l)
  PROVE  Cancels(l)'
<1>1. /\ Next /\ LinksFit /\ TypeOK /\ Ends(l) /\ Stays(l) /\ Cancels(l)
      /\ wire[l][2] \in Seq(Msgs)
  BY HomeFacts
<1> DEFINE s == wire[l][2]
           t == wire'[l][2]
<1>2. ASSUME side'[1].cancel \/ side'[1].tryCancel PROVE "Cancel" \in ToSet(t)
  <2>1. CASE side[1].cancel \/ side[1].tryCancel
    <3>1. "Cancel" \in ToSet(s)
      BY <1>1, <2>1 DEF Cancels
    <3>2. \/ t = s \/ (s # <<>> /\ t = Tail(s) /\ Head(s) # "Cancel") \/ \E m : t = Append(s, m)
      BY HomeWires
    <3> HIDE DEF s, t
    <3>3. s \in Seq(Msgs)
      BY <1>1 DEF s
    <3>4. QED BY <3>1, <3>2, <3>3, TailKeeps, AppendContents
  <2>2. CASE ~side[1].cancel /\ ~side[1].tryCancel
    <3>1. end[l][1] = "up" /\ peers[1][1] = l /\ end[l][2] \in Listening \cup {"accepting"}
      BY <1>1, <2>2 DEF Ends, Stays, Listening
    <3>2. TryCancel(1) \/ \E k \in Links : OnCancel(1, k)
      BY <1>1, <1>2, <2>2, PlayerFacts, TryFlagStep
    <3>3. PICK w : WiresTyped(w) /\ w[l][2] = s /\ wire' = Send(w, 1, l, "Cancel")
      <4>1. CASE TryCancel(1)
        BY <1>1, <3>1, <4>1 DEF TryCancel, WiresTyped, TypeOK
      <4>2. ASSUME NEW k \in Links, OnCancel(1, k)
            PROVE  /\ WiresTyped(Consumed(1, k)) /\ Consumed(1, k)[l][2] = s
                   /\ wire' = Send(Consumed(1, k), 1, l, "Cancel")
        <5>1. WiresTyped(Consumed(1, k))
          BY <1>1, <4>2, PlayerFacts, ConsumedTyped DEF OnCancel
        <5>2. wire' = Send(Consumed(1, k), 1, l, "Cancel")
          BY <2>2, <3>1, <4>2 DEF OnCancel
        <5>3. Consumed(1, k)[l][2] = s
          BY <1>1, PlayerFacts DEF Consumed, TypeOK
        <5>4. QED BY <5>1, <5>2, <5>3
      <4>3. QED BY <3>2, <4>1, <4>2
    <3>4. t = Append(s, "Cancel")
      <4>1. end[l][1] = "up" /\ end[l][Other(1)] \in Listening \cup {"accepting"}
               => Send(w, 1, l, "Cancel")[l][Other(1)] = Append(w[l][Other(1)], "Cancel")
        BY <3>3, PlayerFacts, SendCases
      <4>2. QED BY <3>1, <3>3, <4>1, PlayerFacts
    <3>5. QED BY <1>1, <3>4, AppendContents
  <2>3. QED BY <2>1, <2>2
<1>3. ASSUME "DISCONNECT" \in ToSet(t) PROVE end'[l][1] \in {"closing", "dead"}
  <2>1. CASE "DISCONNECT" \in ToSet(s)
    BY <1>1, <2>1, HomeEndOne DEF Cancels
  <2>2. CASE "DISCONNECT" \notin ToSet(s)
    <3>1. Flush(1, l) \/ Leave(1)
      BY <1>1, <1>3, <2>2, PlayerFacts, NewMessage
    <3>2. QED BY <1>1, <3>1, PlayerFacts, NobodyLeaves DEF Flush, TypeOK
  <2>3. QED BY <2>1, <2>2
<1>4. Behind(t)
  <2>1. Behind(s)
    BY <1>1 DEF Cancels
  <2>2. CASE s # <<>> /\ t = Tail(s) /\ Head(s) # "Cancel"
    BY <1>1, <2>1, <2>2, BehindFacts
  <2>3. ASSUME NEW m, t = Append(s, m), Sends(1, l, m) PROVE Behind(t)
    <3>1. m \in Msgs /\ m # "DISCONNECT"
      BY <2>3 DEF Sends, Msgs, PingMsgs
    <3>2. QED BY <1>1, <2>1, <2>3, <3>1, BehindFacts
  <2>4. CASE t = Append(s, "DISCONNECT") /\ Flush(1, l)
    <3>1. end[l][1] = "later"
      BY <2>4 DEF Flush
    <3>2. "Cancel" \in ToSet(s)
      BY <1>1, <3>1 DEF Ends, Cancels
    <3>3. "DISCONNECT" \in Msgs
      BY DEF Msgs
    <3>4. QED BY <1>1, <2>1, <2>4, <3>2, <3>3, BehindFacts
  <2>5. t = s \/ (s # <<>> /\ t = Tail(s) /\ Head(s) # "Cancel")
        \/ (\E m : t = Append(s, m) /\ Sends(1, l, m)) \/ (t = Append(s, "DISCONNECT") /\ Flush(1, l))
    BY HomeWires
  <2>6. QED BY <2>1, <2>2, <2>3, <2>4, <2>5
<1>5. QED BY <1>2, <1>3, <1>4 DEF Cancels

LEMMA HomeKeepsStays ==
  ASSUME Lossy = FALSE, Patient \/ "unready" \notin Commands, NEW l \in Links, HomeStep(l)
  PROVE  Stays(l)'
<1>1. Next /\ LinksFit /\ TypeOK /\ Stays(l) /\ LinksFit'
  BY HomeFacts
<1>2. outcome'[2] = "lobby" /\ end'[l][2] \in {"accepting", "up"}
  BY <1>1, TwoStays, HomeEndTwo DEF Stays
<1>3. ASSUME NEW k \in Links PROVE "DISCONNECT" \notin ToSet(wire'[k][1])
  <2>1. "DISCONNECT" \notin ToSet(wire[k][1])
    BY <1>1 DEF Stays
  <2>2. ~Flush(2, k) /\ ~Leave(2)
    BY PlayerFacts, NobodyLeaves
  <2>3. QED BY <1>1, <2>1, <2>2, PlayerFacts, NewMessage
<1>4. ASSUME NEW k \in Links, "PRIMARY" \in ToSet(wire'[k][2]) PROVE k = l
  <2>1. CASE "PRIMARY" \in ToSet(wire[k][2])
    BY <1>1, <2>1 DEF Stays
  <2>2. CASE "PRIMARY" \notin ToSet(wire[k][2])
    <3>1. OnConnect(1, k)
      BY <1>1, <1>4, <2>2, PlayerFacts, NewMessage
    <3>2. peers[1] # <<>>
      BY <3>1, HomeListOne
    <3>3. wire' = wire \/ wire' = [wire EXCEPT ![k][1] = <<>>]
      BY <1>1, <3>1, <3>2, PlayerFacts, ConnectStep
    <3>4. wire'[k][2] = wire[k][2]
      BY <1>1, <3>3, PlayerFacts DEF TypeOK
    <3>5. QED BY <1>4, <2>2, <3>4
  <2>3. QED BY <2>1, <2>2
<1>5. ASSUME side'[2].primary PROVE peers'[2] # <<>> /\ peers'[2][1] = l
  <2>1. ASSUME NEW k \in Links, OnPrimary(2, k) PROVE peers'[2] # <<>> /\ peers'[2][1] = l
    <3>1. k \in ToSet(peers[2]) /\ "PRIMARY" \in ToSet(wire[k][2])
      BY <1>1, <2>1, PlayerFacts, ReceivedListed, ConsumedTyped DEF OnPrimary
    <3>2. k = l
      BY <1>1, <3>1 DEF Stays
    <3>3. QED BY <1>1, <2>1, <3>1, <3>2, PlayerFacts, PrimaryStep
  <2>2. ASSUME \A k \in Links : ~OnPrimary(2, k) PROVE peers'[2] # <<>> /\ peers'[2][1] = l
    <3>1. \A k \in Links : OnConnect(2, k) => side' = side
      BY DEF OnConnect
    <3>2. side[2].primary
      BY <1>1, <1>5, <2>2, <3>1, PlayerFacts, PathStep
    <3>3. peers[2] # <<>> /\ peers[2][1] = l
      BY <1>1, <3>2 DEF Stays
    <3>4. ASSUME NEW k \in Links, OnConnect(2, k) PROVE peers'[2] # <<>> /\ peers'[2][1] = l
      BY <1>1, <3>3, <3>4, PlayerFacts, ConnectStep
    <3>5. ASSUME NEW k \in Links, OnDisconnect(2, k) PROVE peers'[2] # <<>> /\ peers'[2][1] = l
      <4>1. k # l
        BY <3>5, HomeDisconnects
      <4>2. QED BY <1>1, <3>3, <3>5, <4>1, PlayerFacts, ListedStays
    <3>6. QED BY <1>1, <2>2, <3>3, <3>4, <3>5, PlayerFacts, PeersStep
  <2>3. QED BY <2>1, <2>2
<1>6. \A k \in Links : end'[k][2] \notin {"later", "closing"}
  BY HomeEndTwo
<1>7. QED BY <1>2, <1>3, <1>4, <1>5, <1>6 DEF Stays

LEMMA CleanedStays ==
  ASSUME Lossy = FALSE, NEW l \in Links, HomeStep(l), Cleaned(l)
  PROVE  Cleaned(l)'
  BY HomeEndTwo DEF Cleaned

LEMMA HomeKeepsTidy ==
  ASSUME Lossy = FALSE, Patient \/ "unready" \notin Commands, NEW l \in Links, HomeStep(l)
  PROVE  Tidy(l)'
<1> SUFFICES ASSUME Patient PROVE Tidy(l)'
  BY DEF Tidy
<1>1. /\ Next /\ LinksFit /\ PathsFit /\ TypeOK /\ Stays(l) /\ Tidy(l) /\ EndsFit
      /\ Quiet /\ UndecidedFit /\ CommittedIsReady /\ out'[1] \subseteq out[1]
  BY PlayerFacts, HomeFacts, OutStep DEF HomeStep, Fits
<1>2. ASSUME side'[1].tryStart, looping'[1] PROVE out'[1] = {}
  <2>1. side[1].tryStart
    BY <1>1, <1>2, PlayerFacts, TryFlagStep, LoopingStep
  <2>2. looping[1] \/ Update(1)
    BY <1>1, <1>2, PlayerFacts, LoopingStep
  <2>3. QED BY <1>1, <2>1, <2>2, HomeCleans DEF Tidy
<1>3. ASSUME side'[2].primary, side'[2].meReady, looping'[2] PROVE Cleaned(l)'
  <2>1. side[2].meReady
    BY <1>1, <1>3, PlayerFacts, ReadyFlags, LoopingStep
  <2>2. side[2].primary
    BY <1>1, <2>1, PlayerFacts DEF Quiet
  <2>3. looping[2] \/ Update(2)
    BY <1>1, <1>3, PlayerFacts, LoopingStep
  <2>4. CASE looping[2]
    BY <1>1, <2>1, <2>2, <2>4, CleanedStays DEF Tidy
  <2>5. CASE Update(2)
    BY <2>2, <2>5, HomeCleans
  <2>6. QED BY <2>3, <2>4, <2>5
<1>4. ASSUME NEW k \in Links, "Start" \in ToSet(wire'[k][1]) PROVE Cleaned(l)'
  <2>1. CASE "Start" \in ToSet(wire[k][1])
    BY <1>1, <2>1, CleanedStays DEF Tidy
  <2>2. CASE "Start" \notin ToSet(wire[k][1])
    <3>1. TryStart(2) \/ \E j \in Links : OnStart(2, j) /\ side'[2].start
      BY <1>1, <1>4, <2>2, PlayerFacts, NewMessage
    <3>2. PICK j \in Links : OnStart(2, j) /\ side'[2].start
      BY <3>1 DEF TryStart
    <3>3. side[2].meReady
      BY <1>1, <3>2, PlayerFacts DEF OnStart, EndsFit, CommittedIsReady
    <3>4. looping[2] /\ outcome[2] = "lobby" /\ outcome' = outcome
      BY <3>2 DEF OnStart, Received
    <3>5. side[2].primary
      <4>1. side'[2].primary = side[2].primary
        <5>1. side' = side \/ side' = [side EXCEPT ![2].start = TRUE]
          BY <3>2 DEF OnStart
        <5>2. QED BY <1>1, <5>1, PlayerFacts DEF TypeOK, Side
      <4>2. ~Undecided'
        BY <1>1, <3>2, PlayerFacts, UndecidedCases
      <4>3. QED BY <3>4, <4>1, <4>2 DEF Undecided
    <3>6. QED BY <1>1, <3>3, <3>4, <3>5, CleanedStays DEF Tidy
  <2>3. QED BY <2>1, <2>2
<1>5. QED BY <1>2, <1>3, <1>4 DEF Tidy

\* A user who waits to be connected speaks over the link both have put first.
LEMMA HomeTalk ==
  ASSUME Patient, NEW l \in Links, HomeStep(l), end[l][1] = "up",
         NEW q \in Players, NEW b \in BOOLEAN, SendReady(q, b)
  PROVE  /\ peers[q] # <<>> /\ peers[q][1] = l
         /\ wire'[l][Other(q)] = Append(wire[l][Other(q)], IF b THEN "Ready1" ELSE "Ready0")
         /\ side'[q].meReady = b
<1>1. Next /\ LinksFit /\ TypeOK /\ Stays(l) /\ Ends(l)
  BY HomeFacts
<1>2. side[q].primary /\ outcome[q] = "lobby"
  BY DEF SendReady, May
<1>3. peers[q] # <<>> /\ peers[q][1] = l
  BY <1>1, <1>2 DEF Stays, Ends, Players
<1>4. end[l][q] = "up"
  <2>1. l \in ToSet(peers[q])
    BY <1>1, <1>3, ToSetFacts DEF TypeOK
  <2>2. end[l][q] \in {"up", "later", "closing"}
    BY <1>1, <1>2, <2>1 DEF LinksFit, ListenersListed
  <2>3. QED BY <1>1, <2>2 DEF Stays, Players
<1>5. end[l][Other(q)] \in Listening \cup {"accepting"}
  BY <1>1, PlayerFacts DEF Stays, Listening, Players
<1>6. WiresTyped(wire)
  BY <1>1 DEF TypeOK, WiresTyped
<1> DEFINE m == IF b THEN "Ready1" ELSE "Ready0"
<1>7. wire' = Send(wire, q, l, m)
  BY <1>3 DEF SendReady
<1> HIDE DEF m
<1>8. wire'[l][Other(q)] = Append(wire[l][Other(q)], m)
  BY <1>4, <1>5, <1>6, <1>7, SendCases
<1>9. QED BY <1>1, <1>3, <1>8, ReadyFlags DEF m

LEMMA HomeKeepsEcho ==
  ASSUME Lossy = FALSE, Patient \/ "unready" \notin Commands, NEW l \in Links, HomeStep(l)
  PROVE  Echo(l)'
<1> SUFFICES ASSUME Patient, end'[l][1] = "up" PROVE Echo(l)'
  BY DEF Echo
<1>1. Next /\ LinksFit /\ TypeOK /\ Stays(l) /\ Ends(l) /\ end[l][1] = "up"
  BY HomeFacts, HomeEndOne
<1>2. /\ \A p \in Players : Shown(wire[l][p], side[p].otherReady, side[Other(p)].meReady)
      /\ \A k \in Links \ {l}, p \in Players : ToSet(wire[k][p]) \cap Readies = {}
  BY <1>1, HomeFacts DEF Echo
<1>3. ASSUME NEW p \in Players
      PROVE  Shown(wire'[l][p], side'[p].otherReady, side'[Other(p)].meReady)
  <2> DEFINE q == Other(p)
             s == wire[l][p]
             t == wire'[l][p]
             o == side[p].otherReady
             me == side[q].meReady
  <2>1. q \in Players /\ Other(q) = p /\ s \in Seq(Msgs) /\ Shown(s, o, me)
    BY <1>1, <1>2, OtherFacts DEF TypeOK
  <2>2. \/ t = s
        \/ s # <<>> /\ t = Tail(s) /\ Hears(p, l)
        \/ \E m : t = Append(s, m) /\ Sends(q, l, m)
    <3>1. ~Flush(1, l)
      BY <1>1 DEF Flush
    <3>2. QED BY <3>1, PlayerFacts, HomeWires DEF Players
  <2>3. ASSUME NEW b \in BOOLEAN, SendReady(q, b) PROVE Shown(t, side'[p].otherReady, side'[q].meReady)
    <3> DEFINE m == IF b THEN "Ready1" ELSE "Ready0"
    <3>1. t = Append(s, m) /\ side'[q].meReady = b
      BY <1>1, <2>1, <2>3, HomeTalk
    <3>2. m \in Readies /\ (m = "Ready1") = b
      BY DEF Readies
    <3> HIDE DEF m, s, t, q
    <3>3. Shown(Append(s, m), side'[p].otherReady, m = "Ready1")
      BY <2>1, <3>2, ShownNew
    <3>4. QED BY <3>1, <3>2, <3>3
  <2>4. ASSUME \A b \in BOOLEAN : ~SendReady(q, b)
        PROVE  Shown(t, side'[p].otherReady, side'[q].meReady)
    <3>1. side'[q].meReady = me
      BY <1>1, <2>1, <2>4, ReadyFlags
    <3>2. ASSUME NEW k \in Links, OnReady(p, k)
          PROVE  Shown(t, side'[p].otherReady, me)
      <4>1. /\ wire[k][p] # <<>> /\ Head(wire[k][p]) \in Readies
            /\ side'[p].otherReady = (Head(wire[k][p]) = "Ready1")
        BY <1>1, <3>2, ReadyFlags
      <4>2. Head(wire[k][p]) \in ToSet(wire[k][p])
        BY <1>1, <4>1, TailFacts DEF TypeOK
      <4>3. k = l
        BY <1>2, <4>1, <4>2
      <4>4. t = Tail(s)
        BY <1>1, <3>2, <4>3 DEF OnReady, Consumed, TypeOK
      <4> HIDE DEF t, s, q, me, o
      <4>5. s # <<>> /\ Head(s) \in Readies /\ side'[p].otherReady = (Head(s) = "Ready1")
        BY <4>1, <4>3 DEF s
      <4>6. QED BY <2>1, <4>4, <4>5, ShownFacts
    <3>3. ASSUME \A k \in Links : ~OnReady(p, k)
          PROVE  Shown(t, side'[p].otherReady, me)
      <4>1. side'[p].otherReady = o
        BY <1>1, <3>3, ReadyFlags
      <4>2. ASSUME s # <<>>, t = Tail(s), Hears(p, l) PROVE Shown(t, o, me)
        <5>1. \E m \in Msgs \ Readies : Received(p, l, m)
          BY <3>3, <4>2 DEF Hears, OnPrimary, OnStart, OnCancel, OnPing, OnPong, Msgs, PingMsgs,
             Readies
        <5>2. Head(s) \notin Readies
          BY <5>1 DEF Received
        <5> HIDE DEF s, t, o, me
        <5>3. QED BY <2>1, <4>2, <5>2, ShownFacts
      <4>3. ASSUME NEW m, t = Append(s, m), Sends(q, l, m) PROVE Shown(t, o, me)
        <5>1. m \in Msgs \ Readies
          BY <2>4, <4>3 DEF Sends, Msgs, PingMsgs, Readies
        <5> HIDE DEF s, t, o, me
        <5>2. QED BY <2>1, <4>3, <5>1, ShownFacts
      <4>4. QED BY <2>1, <2>2, <4>1, <4>2, <4>3
    <3>4. QED BY <3>1, <3>2, <3>3
  <2>5. QED BY <2>3, <2>4
<1>4. ASSUME NEW k \in Links \ {l}, NEW p \in Players, NEW m \in Readies, m \in ToSet(wire'[k][p])
      PROVE  FALSE
  <2>1. m \notin ToSet(wire[k][p]) /\ Other(p) \in Players
    BY <1>2, OtherFacts
  <2>2. SendReady(Other(p), m = "Ready1") /\ k = peers[Other(p)][1]
    BY <1>1, <1>4, <2>1, NewReady
  <2>3. QED BY <1>1, <2>1, <2>2, HomeTalk
<1>5. QED BY <1>3, <1>4 DEF Echo

LEMMA StepKeepsHome ==
  ASSUME Lossy = FALSE, Patient \/ "unready" \notin Commands, NEW l \in Links, HomeStep(l)
  PROVE  Home(l)'
<1>1. l.path = side'[1].primaryPath
  BY ChosenPathStays DEF HomeStep, Home, Fits, Chosen
<1>2. QED BY <1>1, HomeKeepsEnds, HomeKeepsCancels, HomeKeepsStays, HomeKeepsTidy, HomeKeepsEcho
         DEF Home

\* Player 1 puts a link first: nothing has been decided over it, or said.
LEMMA NewHome ==
  ASSUME Fits, Next, ~side[1].primary, Chosen', ~Gone'
  PROVE  \E l \in Links : Home(l)'
<1>1. LinksFit /\ PathsFit /\ UndecidedFit /\ EndsFit /\ AttemptsUnknown /\ Quiet /\ TypeOK
  BY DEF Fits, LinksFit
<1>2. ASSUME NEW k \in Links, OnPrimary(1, k) PROVE FALSE
  BY <1>1, <1>2, PlayerFacts, ConsumedTyped DEF OnPrimary, PathsFit
<1>3. PICK l \in Links : OnConnect(1, l)
  BY <1>1, <1>2, PlayerFacts, PathStep DEF Chosen
<1>4. /\ l.path \in cands[1] /\ peers[1] = <<>>
      /\ side'[1].primaryPath = l.path
      /\ side' = [side EXCEPT ![1].primary = TRUE, ![1].primaryPath = l.path]
      /\ wire' = IF end[l][2] \in {"closing", "dead"} THEN wire
                 ELSE [wire EXCEPT ![l][2] = Append(@, "PRIMARY")]
      /\ peers'[1] # <<>> /\ peers'[1][1] = l
  <2>1. side' # side
    BY DEF Chosen
  <2>2. /\ l.path \in cands[1] /\ peers[1] = <<>> /\ side'[1].primaryPath = l.path
        /\ side' = [side EXCEPT ![1].primary = TRUE, ![1].primaryPath = l.path]
        /\ wire' = IF end[l][2] \in {"closing", "dead"} THEN wire
                   ELSE [wire EXCEPT ![l][2] = Append(@, "PRIMARY")]
    BY <1>1, <1>3, <2>1, PlayerFacts, ConnectStep
  <2>3. peers'[1] # <<>> /\ peers'[1][1] = l
    BY <1>1, <1>3, <2>2, PlayerFacts, ConnectStep
  <2>4. QED BY <2>2, <2>3
<1>5. /\ side'[2] = side[2] /\ side'[1].tryCancel = side[1].tryCancel
      /\ side'[1].tryStart = side[1].tryStart
      /\ \A p \in Players : /\ side'[p].meReady = side[p].meReady
                            /\ side'[p].otherReady = side[p].otherReady
  BY <1>1, <1>4, PlayerFacts DEF TypeOK, Side
<1>6. outcome' = outcome /\ outcome[1] = "lobby"
  BY <1>3 DEF OnConnect
<1>7. ~side[2].primary /\ Undecided /\ Undecided'
  BY <1>1, <1>5, <1>6 DEF PathsFit, Undecided, Gone
<1>8. NothingDecided /\ PrimaryFirst /\ NothingDecided'
  BY <1>1, <1>7, StepDecidesNothing DEF UndecidedFit
<1>9. l.path \in cands[2]
  BY <1>1, <1>4, PlayerFacts, CandidatesShrink DEF Chosen
<1>10. end'[l][1] = "up" /\ end'[l][2] \in {"accepting", "up"}
  <2>1. /\ end'[l][1] = "up"
        /\ l.from = 1 => end'[l][2] = "accepting"
        /\ l.from # 1 => end[l][1] = "accepting" /\ end'[l][2] = end[l][2]
    <3>1. /\ l.from # 1 => end[l][1] = "accepting"
          /\ \A k \in Links, q \in Players :
                end'[k][q] = IF k = l /\ q = 1 THEN "up"
                             ELSE IF k = l /\ l.from = 1 THEN "accepting"
                             ELSE end[k][q]
      BY <1>1, <1>3, <1>4, PlayerFacts, EndTable
    <3>2. QED BY <3>1, PlayerFacts
  <2>2. ASSUME l.from = 2 PROVE end[l][2] = "up"
    <3>1. end[l][1] = "accepting"
      BY <2>1, <2>2
    <3>2. end[l][2] # "dead"
      BY <1>6, <1>8, <1>9, <3>1 DEF PrimaryFirst
    <3>3. end[l][2] \notin {"none", "accepting"}
      BY <1>1, <2>2 DEF EndsFit
    <3>4. end[l][2] # "connecting"
      BY <1>1, <1>6, <2>2, <3>1, PlayerFacts DEF AttemptsUnknown
    <3>5. end[l][2] \notin {"later", "closing"}
      BY <1>8, PlayerFacts DEF NothingDecided
    <3>6. end[l][2] \in EndStates
      BY <1>1, PlayerFacts DEF TypeOK
    <3>7. QED BY <3>2, <3>3, <3>4, <3>5, <3>6 DEF EndStates
  <2>3. l.from \in {1, 2}
    BY DEF Links, Players
  <2>4. QED BY <2>1, <2>2, <2>3
<1>11. ASSUME NEW k \in Links, NEW p \in Players
       PROVE  /\ ToSet(wire'[k][p]) \subseteq ToSet(wire[k][p]) \cup {"PRIMARY"}
              /\ k # l => wire'[k][p] = wire[k][p]
              /\ wire'[k][p] \in Seq(Msgs)
  <2>1. wire[k][p] \in Seq(Msgs) /\ "PRIMARY" \in Msgs
    BY <1>1 DEF TypeOK, Msgs
  <2>2. wire'[k][p] = wire[k][p] \/ (k = l /\ wire'[k][p] = Append(wire[k][p], "PRIMARY"))
    BY <1>1, <1>4, PlayerFacts DEF TypeOK
  <2>3. Append(wire[k][p], "PRIMARY") \in Seq(Msgs)
        /\ ToSet(Append(wire[k][p], "PRIMARY")) = ToSet(wire[k][p]) \cup {"PRIMARY"}
    BY <2>1, AppendFacts
  <2>4. QED BY <2>1, <2>2, <2>3
<1>12. Ends(l)'
  BY <1>1, <1>4, <1>5, <1>6, <1>10 DEF Ends, EndsFit
<1>13. Cancels(l)'
  <2>1. ~side'[1].cancel /\ ~side'[1].tryCancel /\ "DISCONNECT" \notin ToSet(wire'[l][2])
    BY <1>1, <1>5, <1>6, <1>8 DEF NothingDecided, EndsFit
  <2>2. Behind(wire'[l][2])
    BY <1>11, <2>1, PlayerFacts, ToSetFacts DEF Behind
  <2>3. QED BY <2>1, <2>2 DEF Cancels
<1>14. Stays(l)'
  <2>1. \A k \in Links : "PRIMARY" \in ToSet(wire'[k][2]) => k = l
    BY <1>1, <1>11, PlayerFacts DEF PathsFit
  <2>2. QED BY <1>5, <1>7, <1>8, <1>10, <2>1, PlayerFacts DEF Stays, NothingDecided, Undecided
<1>15. Tidy(l)'
  BY <1>1, <1>5, <1>7, <1>8 DEF Tidy, NothingDecided, EndsFit, Decisions
<1>16. Echo(l)'
  <2> SUFFICES ASSUME Patient PROVE Echo(l)'
    BY DEF Echo
  <2>1. ASSUME NEW p \in Players
        PROVE  /\ ~side'[p].meReady /\ ~side'[p].otherReady
               /\ \A k \in Links : ToSet(wire'[k][p]) \cap Readies = {}
    <3>1. /\ ~side[p].meReady /\ ~side[p].otherReady
          /\ \A k \in Links : ToSet(wire[k][p]) \cap Readies = {}
      BY <1>1, <1>7, PlayerFacts DEF Quiet, Players
    <3>2. QED BY <1>5, <1>11, <3>1 DEF Readies
  <2>2. ASSUME NEW p \in Players
        PROVE  Shown(wire'[l][p], side'[p].otherReady, side'[Other(p)].meReady)
    <3>1. \A i \in 1..Len(wire'[l][p]) : wire'[l][p][i] \notin Readies
      BY <1>11, <2>1, ToSetFacts
    <3>2. QED BY <2>1, <3>1, OtherFacts DEF Shown
  <2>3. QED BY <2>1, <2>2 DEF Echo
<1>17. Home(l)'
  BY <1>4, <1>12, <1>13, <1>14, <1>15, <1>16 DEF Home
<1>18. QED BY <1>17

LEMMA StepKeepsHomeFit ==
  ASSUME Lossy = FALSE, Patient \/ "unready" \notin Commands, Fits, HomeFit, [Next]_vars
  PROVE  HomeFit'
<1>1. CASE UNCHANGED vars
  <2>1. \A l \in Links : Home(l) => Home(l)'
    BY <1>1 DEF vars, Home, Ends, Cancels, Stays, Tidy, Cleaned, Echo
  <2>2. (Chosen' <=> Chosen) /\ (Gone' <=> Gone)
    BY <1>1 DEF vars, Chosen, Gone, Over
  <2>3. QED BY <2>1, <2>2 DEF HomeFit
<1>2. CASE Next
  <2> SUFFICES ASSUME Chosen', ~Gone' PROVE \E l \in Links : Home(l)'
    BY DEF HomeFit
  <2>1. CASE ~side[1].primary
    BY <1>2, <2>1, NewHome
  <2>2. CASE side[1].primary
    <3>1. side'[1].primaryPath = side[1].primaryPath /\ cands'[2] \subseteq cands[2]
      BY <1>2, <2>2, PlayerFacts, ChosenPathStays, CandidatesShrink DEF Fits
    <3>2. Chosen
      BY <2>2, <3>1 DEF Chosen
    <3>3. ~Gone
      BY <1>2, GoneStays
    <3>4. PICK l \in Links : Home(l)
      BY <3>2, <3>3 DEF HomeFit
    <3>5. HomeStep(l)
      BY <1>2, <3>2, <3>3, <3>4 DEF HomeStep
    <3>6. QED BY <3>5, StepKeepsHome
  <2>3. QED BY <2>1, <2>2
<1>3. QED BY <1>1, <1>2
-----------------------------------------------------------------------------
(***************************************************************************)
(* The theorems.                                                           *)
(***************************************************************************)
LEMMA InitHome == Init => EndsFit /\ Quiet /\ HomeFit
<1> SUFFICES ASSUME Init PROVE EndsFit /\ Quiet /\ HomeFit
  OBVIOUS
<1>1. /\ \A l \in Links, p \in Players : /\ ToSet(wire[l][p]) = {}
                                         /\ end[l][p] = IF l.from = p THEN "connecting" ELSE "none"
      /\ \A p \in Players : /\ outcome[p] = "lobby" /\ out[p] = {l \in Links : l.from = p}
                            /\ ~side[p].primary /\ ~side[p].tryCancel /\ ~side[p].tryStart
                            /\ ~side[p].meReady /\ ~side[p].otherReady
  BY DEF Init, ToSet
<1>2. \A l \in Links : l.from \in Players
  BY DEF Links
<1>3. EndsFit
  BY <1>1, <1>2, PlayerFacts DEF EndsFit
<1>4. Quiet
  BY <1>1, OtherFacts DEF Quiet
<1>5. HomeFit
  BY <1>1, PlayerFacts DEF HomeFit, Chosen
<1>6. QED BY <1>3, <1>4, <1>5

\* What the argument rests on holds, whatever the users ask for.
THEOREM LobbyFits ==
  ASSUME Lossy = FALSE
  PROVE  Spec => []Fits
<1>1. Spec => []AttemptsUnknown
  BY InitUndecided, LinksAlwaysFit, StepKeepsUnknown, PTL DEF Spec
<1>2. Spec => []EndsFit
  BY InitHome, LinksAlwaysFit, ListsHaveOnePath, StepKeepsEndsFit, PTL DEF Spec
<1>3. Spec => []Quiet
  BY InitHome, LinksAlwaysFit, StepKeepsQuiet, PTL DEF Spec
<1>4. Spec => []("unready" \in Commands \/ NoUnready)
  <2>1. CASE "unready" \in Commands
    <3>1. TRUE => ("unready" \in Commands \/ NoUnready)
      BY <2>1
    <3>2. QED BY <3>1, PTL
  <2>2. CASE "unready" \notin Commands
    <3>1. Spec => []NoUnready
      BY <2>2, StartsAreConfirmed, PTL
    <3>2. NoUnready => ("unready" \in Commands \/ NoUnready)
      OBVIOUS
    <3>3. QED BY <3>1, <3>2, PTL
  <2>3. QED BY <2>1, <2>2
<1>5. LinksFit /\ PathsFit /\ AttemptsUnknown /\ UndecidedFit /\ StartIsPrimary /\ EndsFit /\ Quiet
        /\ CommittedIsReady /\ ("unready" \in Commands \/ NoUnready) => Fits
  BY DEF Fits
<1>6. QED BY <1>1, <1>2, <1>3, <1>4, <1>5, LinksAlwaysFit, ListsHaveOnePath, PrimaryComesFirst,
             CommittedIsReadyHolds, PTL

\* The inductive invariant of the primary link: from the time player 1 puts a link first, and
\* until the two part or player 1 has what it needs to end, player 2 keeps it as well, and all
\* that player 1 decides reaches player 2 over it.
THEOREM PrimaryIsHome ==
  ASSUME Lossy = FALSE, Patient \/ "unready" \notin Commands
  PROVE  Spec => []HomeFit
  BY LobbyFits, InitHome, StepKeepsHomeFit, PTL DEF Spec

\* Both objects live and are connected: the link of PrimaryIsHome is the one they talk over.
LEMMA HomeIsFirst ==
  ASSUME Fits, HomeFit, InLobby, Connected(peers[1][1])
  PROVE  \E l \in Links : Home(l) /\ end[l][1] = "up" /\ peers[1][1] = l /\ peers[2][1] = l
<1>1. TypeOK /\ PathsFit /\ EndsFit
  BY DEF Fits, LinksFit
<1>2. \A p \in Players : /\ outcome[p] = "lobby" /\ side[p].primary /\ peers[p] # <<>>
                         /\ ~side[p].start /\ ~side[p].cancel
  BY DEF InLobby
<1>3. Chosen
  BY <1>1, <1>2, PlayerFacts DEF PathsFit, EndsFit, Chosen
<1>4. ~Over
  <2>1. peers[1][1] \in Links
    BY <1>1, <1>2, PlayerFacts, ToSetFacts DEF TypeOK
  <2>2. \A p \in Players : end[peers[1][1]][p] = "up"
    BY DEF Connected
  <2>3. QED BY <1>2, <2>1, <2>2, PlayerFacts DEF Over, Finished
<1>5. ~Gone
  BY <1>2, <1>4, PlayerFacts DEF Gone
<1>6. PICK l \in Links : Home(l)
  BY <1>3, <1>5 DEF HomeFit
<1>7. end[l][1] = "up" /\ peers[1][1] = l /\ peers[2][1] = l
  BY <1>2, <1>6, PlayerFacts DEF Home, Ends, Stays
<1>8. QED BY <1>6, <1>7

\* Both sides have put the same link first, although each saw the links connect in an order of
\* its own: neither resets what the other talks over.
THEOREM AgreeOnPrimaryHolds ==
  ASSUME Lossy = FALSE, Patient \/ "unready" \notin Commands
  PROVE  Spec => []AgreeOnPrimary
<1>1. Fits /\ HomeFit => AgreeOnPrimary
  BY HomeIsFirst DEF AgreeOnPrimary
<1>2. QED BY <1>1, LobbyFits, PrimaryIsHome, PTL

\* A ready status sent once connected is not lost with a redundant link.
THEOREM ReadyKnownHolds ==
  ASSUME Lossy = FALSE, Patient
  PROVE  Spec => []ReadyKnown
<1>1. Fits /\ HomeFit => ReadyKnown
  <2> SUFFICES ASSUME Fits, HomeFit, InLobby, Connected(peers[1][1]),
                      \A l \in Links : wire[l] = [p \in Players |-> <<>>],
                      NEW p \in Players
               PROVE  side[p].otherReady = side[Other(p)].meReady
    BY DEF ReadyKnown
  <2>1. PICK l \in Links : Home(l) /\ end[l][1] = "up"
    BY HomeIsFirst
  <2>2. Shown(wire[l][p], side[p].otherReady, side[Other(p)].meReady)
    BY <2>1 DEF Home, Echo
  <2>3. wire[l][p] = <<>> /\ wire[l][p] \in Seq(Msgs)
    BY DEF Fits, LinksFit, TypeOK
  <2> DEFINE o == side[p].otherReady
             me == side[Other(p)].meReady
  <2>4. o <=> me
    <3>1. Shown(wire[l][p], o, me)
      BY <2>2
    <3>2. Len(wire[l][p]) = 0
      BY <2>3
    <3> HIDE DEF o, me
    <3>3. QED BY <3>1, <3>2 DEF Shown
  <2>5. side[p].otherReady \in BOOLEAN /\ side[Other(p)].meReady \in BOOLEAN
    BY OtherFacts DEF Fits, LinksFit, TypeOK, Side
  <2>6. QED BY <2>4, <2>5
<1>2. QED BY <1>1, LobbyFits, PrimaryIsHome, PTL

\* Player 2 only starts a game player 1 has committed to, unless player 1 was destroyed.
TwoStarts == outcome[2] = "StartGame" => side[1].start \/ outcome[1] = "left"

\* When player 1 closes the link to cancel, player 2 has heard of the cancel before: it does not
\* take the end of that link for the start it has asked for.
THEOREM TwoStartsWithOne ==
  ASSUME Lossy = FALSE, "unready" \notin Commands
  PROVE  Spec => []TwoStarts
<1>1. Fits /\ HomeFit /\ EndsAsFlagged => TwoStarts
  <2> SUFFICES ASSUME Fits, HomeFit, EndsAsFlagged, outcome[2] = "StartGame"
               PROVE  side[1].start \/ outcome[1] = "left"
    BY DEF TwoStarts
  <2>1. side[2].start /\ ~side[2].cancel /\ side[2].primary
    BY PlayerFacts DEF EndsAsFlagged, Fits, StartIsPrimary
  <2>2. Chosen
    BY <2>1 DEF Fits, PathsFit, EndsFit, Chosen
  <2>3. \A l \in Links : ~Home(l)
    BY DEF Home, Stays
  <2>4. Gone
    BY <2>2, <2>3 DEF HomeFit
  <2>5. QED BY <2>1, <2>4 DEF Gone, Over
<1>2. QED BY <1>1, LobbyFits, PrimaryIsHome, EndsAsFlaggedHolds, PTL

\* A start and a cancel that cross never send one player to the game and the other one back
\* to the server by CancelGame, as long as nobody takes a ready back and no link breaks.
THEOREM NeverContraryHolds ==
  ASSUME Lossy = FALSE, "unready" \notin Commands
  PROVE  Spec => []NeverContrary
<1>1. TwoStarts /\ StartsConfirmed /\ EndsAsFlagged => NeverContrary
  <2> SUFFICES ASSUME TwoStarts, StartsConfirmed, EndsAsFlagged,
                      NEW p \in Players, outcome[p] = "StartGame", outcome[Other(p)] = "CancelGame"
               PROVE  FALSE
    BY DEF NeverContrary
  <2>1. ~side[Other(p)].start
    BY OtherFacts DEF EndsAsFlagged
  <2>2. CASE p = 1
    BY <2>1, <2>2, PlayerFacts DEF StartsConfirmed
  <2>3. CASE p = 2
    BY <2>1, <2>3, PlayerFacts DEF TwoStarts
  <2>4. QED BY <2>2, <2>3 DEF Players
<1>2. QED BY <1>1, TwoStartsWithOne, StartsAreConfirmed, EndsAsFlaggedHolds, PTL
-----------------------------------------------------------------------------
(***************************************************************************)
(* Nobody starts alone, when nobody cancels.                               *)
(***************************************************************************)
NoCancel ==
    /\ \A l \in Links, p \in Players : "Cancel" \notin ToSet(wire[l][p])
    /\ \A p \in Players : ~side[p].cancel

\* A cancel begins with a user: without one, nobody hears of any.
LEMMA StepKeepsNoCancel ==
  ASSUME "cancel" \notin Commands, LinksFit, NoCancel, [Next]_vars
  PROVE  NoCancel'
<1>1. CASE UNCHANGED vars
  BY <1>1 DEF vars, NoCancel
<1>2. CASE Next
  <2>1. ASSUME NEW p \in Players, NEW k \in Links, OnCancel(p, k) PROVE FALSE
    BY <2>1, ConsumedTyped DEF OnCancel, LinksFit, NoCancel
  <2>2. ASSUME NEW l \in Links, NEW q \in Players, "Cancel" \in ToSet(wire'[l][q]) PROVE FALSE
    <3>1. "Cancel" \notin ToSet(wire[l][q])
      BY DEF NoCancel
    <3>2. TryCancel(Other(q)) \/ \E k \in Links : OnCancel(Other(q), k)
      BY <1>2, <2>2, <3>1, NewMessage
    <3>3. QED BY <2>1, <3>2, OtherFacts DEF TryCancel, May
  <2>3. ASSUME NEW p \in Players, side'[p].cancel PROVE FALSE
    BY <1>2, <2>1, <2>3, TryFlagStep DEF NoCancel
  <2>4. QED BY <2>2, <2>3 DEF NoCancel
<1>3. QED BY <1>1, <1>2

LEMMA CancelNeedsUser ==
  ASSUME "cancel" \notin Commands
  PROVE  Spec => []NoCancel
<1>1. Init => NoCancel
  <2> SUFFICES ASSUME Init PROVE NoCancel
    OBVIOUS
  <2>1. \A l \in Links, p \in Players : ToSet(wire[l][p]) = {}
    BY DEF Init, ToSet
  <2>2. QED BY <2>1 DEF Init, NoCancel
<1>2. QED BY <1>1, LinksAlwaysFit, StepKeepsNoCancel, PTL DEF Spec

\* Whose start is set has a last callback that says so, or was destroyed before it came.
LEMMA CommittedStarts ==
  ASSUME NoCancel, EndsAsFlagged, NEW p \in Players, side[p].start
  PROVE  outcome[p] \in {"lobby", "left", "StartGame"}
  BY DEF NoCancel, EndsAsFlagged, Ending

\* Player 1 never plays without player 2, whether links break or not: the only callback that
\* player 2 still gets is StartGame.
THEOREM OneNeverStartsAlone ==
  ASSUME "unready" \notin Commands, "cancel" \notin Commands
  PROVE  Spec => [](outcome[1] = "StartGame" => outcome[2] \in {"lobby", "left", "StartGame"})
<1>1. StartsConfirmed /\ NoCancel /\ EndsAsFlagged
        => (outcome[1] = "StartGame" => outcome[2] \in {"lobby", "left", "StartGame"})
  BY CommittedStarts, PlayerFacts DEF StartsConfirmed
<1>2. QED BY <1>1, StartsAreConfirmed, CancelNeedsUser, EndsAsFlaggedHolds, PTL

\* Neither player starts a game that the other one is sent away from, by CancelGame,
\* Disconncted or Timeout, as long as nobody cancels or takes a ready back and no link breaks.
THEOREM NeverMixedHolds ==
  ASSUME Lossy = FALSE, "unready" \notin Commands, "cancel" \notin Commands
  PROVE  Spec => []NeverMixed
<1>1. TwoStarts /\ StartsConfirmed /\ NoCancel /\ EndsAsFlagged => NeverMixed
  <2> SUFFICES ASSUME TwoStarts, StartsConfirmed, NoCancel, EndsAsFlagged,
                      NEW p \in Players, outcome[p] = "StartGame"
               PROVE  outcome[Other(p)] \in {"lobby", "left", "StartGame"}
    BY DEF NeverMixed
  <2>1. CASE p = 1
    <3>1. side[2].start
      BY <2>1 DEF StartsConfirmed
    <3>2. QED BY <2>1, <3>1, CommittedStarts, PlayerFacts
  <2>2. CASE p = 2
    <3>1. side[1].start \/ outcome[1] = "left"
      BY <2>2 DEF TwoStarts
    <3>2. QED BY <2>2, <3>1, CommittedStarts, PlayerFacts
  <2>3. QED BY <2>1, <2>2 DEF Players
<1>2. QED BY <1>1, TwoStartsWithOne, StartsAreConfirmed, CancelNeedsUser, EndsAsFlaggedHolds, PTL
=============================================================================
