------------------------- MODULE ServerLobbyProofs -------------------------
(***************************************************************************)
(* Proofs about the games of MatchServer: that START pairs the host of a   *)
(* game with its only joined player, and that the server implements Lobby. *)
(*                                                                         *)
(* Both rest on what the handlers queue: of all of them only OnStart tells *)
(* anyone START, whatever KillGame and the broadcasts put before and after *)
(* it.                                                                     *)
(***************************************************************************)
EXTENDS ServerLobby, MatchServerProofs, FiniteSetTheorems

\* A sequence of messages for each peer.
Outbox(a) == DOMAIN a = Peers /\ \A p \in Peers : a[p] \in Seq(ToSet(a[p]))

\* Nobody is told START.
Silent(a) == \A p \in Peers : \A m \in ToSet(a[p]) : m.type # "Start"

SilentBox(a) == Outbox(a) /\ Silent(a)
-----------------------------------------------------------------------------
(***************************************************************************)
(* What is in an outbox.                                                   *)
(***************************************************************************)
LEMMA OwnElements == ASSUME NEW S, NEW s \in Seq(S) PROVE s \in Seq(ToSet(s))
<1>1. s \in [1..Len(s) -> S] /\ Len(s) \in Nat
  BY LenProperties
<1>2. \A i \in 1..Len(s) : s[i] \in ToSet(s)
  BY ToSetFacts
<1>3. s \in [1..Len(s) -> ToSet(s)]
  BY <1>1, <1>2
<1>4. QED BY <1>1, <1>3, SeqDef

LEMMA ConcatContents ==
  ASSUME NEW s, s \in Seq(ToSet(s)), NEW t, t \in Seq(ToSet(t))
  PROVE  /\ s \o t \in Seq(ToSet(s \o t))
         /\ ToSet(s \o t) = ToSet(s) \cup ToSet(t)
<1> DEFINE S == ToSet(s) \cup ToSet(t)
           u == s \o t
<1>1. s \in Seq(S) /\ t \in Seq(S)
  BY SeqMonotonic
<1>2. /\ Len(s) \in Nat /\ Len(t) \in Nat
      /\ ToSet(s) = {s[i] : i \in 1..Len(s)} /\ ToSet(t) = {t[i] : i \in 1..Len(t)}
  BY LenProperties, ToSetFacts
<1> HIDE DEF S
<1>3. /\ u \in Seq(S) /\ Len(u) = Len(s) + Len(t)
      /\ \A i \in 1..Len(s) + Len(t) : u[i] = IF i <= Len(s) THEN s[i] ELSE t[i - Len(s)]
  BY <1>1, ConcatProperties
<1> HIDE DEF u
<1>4. ToSet(u) = {u[i] : i \in 1..Len(u)}
  BY <1>3, ToSetFacts
<1>5. ASSUME NEW i \in 1..Len(s) PROVE s[i] \in ToSet(u)
  <2>1. i \in 1..Len(u) /\ u[i] = s[i]
    BY <1>2, <1>3
  <2>2. QED BY <1>4, <2>1
<1>6. ASSUME NEW i \in 1..Len(t) PROVE t[i] \in ToSet(u)
  <2>1. /\ i + Len(s) \in 1..Len(s) + Len(t) /\ (i + Len(s)) - Len(s) = i
        /\ ~(i + Len(s) <= Len(s))
    BY <1>2
  <2>2. u[i + Len(s)] = t[i]
    BY <1>3, <2>1
  <2>3. QED BY <1>3, <1>4, <2>1, <2>2
<1>7. ASSUME NEW i \in 1..Len(u) PROVE u[i] \in ToSet(s) \cup ToSet(t)
  <2>1. CASE i <= Len(s)
    BY <1>2, <1>3, <2>1
  <2>2. CASE ~(i <= Len(s))
    <3>1. i - Len(s) \in 1..Len(t) /\ u[i] = t[i - Len(s)]
      BY <1>2, <1>3, <2>2
    <3>2. QED BY <1>2, <3>1
  <2>3. QED BY <2>1, <2>2
<1>8. ToSet(u) = ToSet(s) \cup ToSet(t)
  BY <1>2, <1>4, <1>5, <1>6, <1>7
<1>9. u \in Seq(ToSet(u))
  BY <1>3, OwnElements
<1>10. QED BY <1>8, <1>9 DEF u

LEMMA JoinFacts ==
  ASSUME NEW a, Outbox(a), NEW b, Outbox(b)
  PROVE  /\ Outbox(a ++ b)
         /\ \A p \in Peers : ToSet((a ++ b)[p]) = ToSet(a[p]) \cup ToSet(b[p])
         /\ Silent(a) /\ Silent(b) => Silent(a ++ b)
<1>1. DOMAIN (a ++ b) = Peers /\ \A p \in Peers : (a ++ b)[p] = a[p] \o b[p]
  BY DEF ++
<1>2. ASSUME NEW p \in Peers
      PROVE  /\ (a ++ b)[p] \in Seq(ToSet((a ++ b)[p]))
             /\ ToSet((a ++ b)[p]) = ToSet(a[p]) \cup ToSet(b[p])
  <2> DEFINE s == a[p]
             t == b[p]
  <2>1. s \in Seq(ToSet(s)) /\ t \in Seq(ToSet(t)) /\ (a ++ b)[p] = s \o t
    BY <1>1 DEF Outbox
  <2> HIDE DEF s, t
  <2>2. s \o t \in Seq(ToSet(s \o t)) /\ ToSet(s \o t) = ToSet(s) \cup ToSet(t)
    BY <2>1, ConcatContents
  <2>3. QED BY <2>1, <2>2 DEF s, t
<1>3. Outbox(a ++ b)
  BY <1>1, <1>2 DEF Outbox
<1>4. QED BY <1>2, <1>3 DEF Silent

LEMMA SendFacts ==
  ASSUME NEW S, NEW m
  PROVE  /\ Outbox(SendTo(S, m))
         /\ \A p \in Peers :
               ToSet(SendTo(S, m)[p]) = IF p \in S /\ link[p] = "up" THEN {m} ELSE {}
         /\ m.type # "Start" => Silent(SendTo(S, m))
<1>1. <<m>> \in Seq({m}) /\ ToSet(<<m>>) = {m} /\ <<>> \in Seq({}) /\ ToSet(<<>>) = {}
  BY EmptySeq DEF ToSet
<1>2. /\ DOMAIN SendTo(S, m) = Peers
      /\ \A p \in Peers : SendTo(S, m)[p] = IF p \in S /\ link[p] = "up" THEN <<m>> ELSE <<>>
  BY DEF SendTo
<1>3. \A p \in Peers : ToSet(SendTo(S, m)[p]) = IF p \in S /\ link[p] = "up" THEN {m} ELSE {}
  BY <1>1, <1>2
<1>4. Outbox(SendTo(S, m))
  BY <1>1, <1>2 DEF Outbox
<1>5. QED BY <1>3, <1>4 DEF Silent

LEMMA QuietIsSilent == SilentBox(Quiet)
<1>1. <<>> \in Seq({}) /\ ToSet(<<>>) = {}
  BY EmptySeq DEF ToSet
<1>2. QED BY <1>1 DEF SilentBox, Outbox, Silent, Quiet

LEMMA SilentJoin ==
  ASSUME NEW a, SilentBox(a), NEW b, SilentBox(b)
  PROVE  SilentBox(a ++ b)
  BY JoinFacts DEF SilentBox

LEMMA SilentSend ==
  ASSUME NEW S, NEW m, m.type # "Start"
  PROVE  SilentBox(SendTo(S, m))
  BY SendFacts DEF SilentBox

LEMMA BroadcastsAreSilent ==
  ASSUME NEW st, NEW nm, NEW gs
  PROVE  /\ SilentBox(BroadcastOpenGames(st, gs))
         /\ SilentBox(BroadcastActiveUsers(st, nm, gs))
<1>1. SilentBox(BroadcastOpenGames(st, gs))
  <2> DEFINE m == [type |-> "GamesOpen", list |-> [i \in DOMAIN gs |-> name[gs[i].creator]]]
  <2>1. m.type # "Start"
    OBVIOUS
  <2> HIDE DEF m
  <2>2. SilentBox(SendTo(ActivePlayers(st), m))
    BY <2>1, SilentSend
  <2>3. QED BY <2>2 DEF BroadcastOpenGames, m
<1>2. SilentBox(SendTo(ActivePlayers(st),
                       [type |-> "PlayersActive", list |-> {nm[p] : p \in ActivePlayers(st)}]))
  <2> DEFINE m == [type |-> "PlayersActive", list |-> {nm[p] : p \in ActivePlayers(st)}]
  <2>1. m.type # "Start"
    OBVIOUS
  <2> HIDE DEF m
  <2>2. SilentBox(SendTo(ActivePlayers(st), m))
    BY <2>1, SilentSend
  <2>3. QED BY <2>2 DEF m
<1>3. QED BY <1>1, <1>2, SilentJoin DEF BroadcastActiveUsers

LEMMA InfoIsSilent == ASSUME NEW g PROVE SilentBox(SendInfoToAll(g))
<1> DEFINE m == [type |-> "GameInfo", info |-> FullInfo(g)]
<1>1. m.type # "Start"
  OBVIOUS
<1> HIDE DEF m
<1>2. SilentBox(SendTo(Players(g), m))
  BY <1>1, SilentSend
<1>3. QED BY <1>2 DEF SendInfoToAll, m

\* KillGame player by player: the states when the k-th is released, and what is sent then.
Released(order, k) == LogInAll(state, {order[j] : j \in 1..k})

Release(g, order, k) ==
    BroadcastActiveUsers(Released(order, k), name, games)
    ++ SendTo({order[k]}, [type |-> "Eject", who |-> name[g.creator]])

LEMMA KillGameSteps ==
  ASSUME NEW g, NEW order, Len(order) \in Nat
  PROVE  \E out : /\ KillGame(g, order) = out[Len(order)]
                  /\ out[0] = Quiet
                  /\ \A k \in 1..Len(order) : out[k] = out[k - 1] ++ Release(g, order, k)
<1> DEFINE n == Len(order)
           release(k) == Release(g, order, k)
           out[k \in 0..n] == IF k = 0 THEN Quiet ELSE out[k - 1] ++ release(k)
           IsOut(f, j) == f = [k \in 0..j |-> IF k = 0 THEN Quiet ELSE f[k - 1] ++ release(k)]
<1>1. KillGame(g, order) = out[n]
  BY DEF KillGame, Release, Released
<1> HIDE DEF release
<1>2. \E f : IsOut(f, n)
  <2> DEFINE T == {j \in Nat : \E f : IsOut(f, j)}
  <2>1. 0 \in T
    <3>1. IsOut([k \in 0..0 |-> Quiet], 0)
      OBVIOUS
    <3>2. QED BY <3>1
  <2>2. ASSUME NEW j \in Nat, j \in T PROVE j + 1 \in T
    <3>1. PICK f : IsOut(f, j)
      BY <2>2
    <3> DEFINE h == [k \in 0..(j + 1) |-> IF k = j + 1 THEN f[j] ++ release(j + 1) ELSE f[k]]
    <3>2. IsOut(h, j + 1)
      <4>1. \A k \in 0..j : f[k] = IF k = 0 THEN Quiet ELSE f[k - 1] ++ release(k)
        BY <3>1
      <4>2. \A k \in 0..(j + 1) : h[k] = IF k = 0 THEN Quiet ELSE h[k - 1] ++ release(k)
        BY <4>1
      <4>3. QED BY <4>2
    <3> HIDE DEF h, IsOut
    <3>3. QED BY <3>2
  <2> HIDE DEF T
  <2>3. Nat \subseteq T
    BY <2>1, <2>2, SetInduction
  <2>4. QED BY <2>3 DEF T
<1>3. IsOut(out, n)
  <2>1. out = CHOOSE f : IsOut(f, n)
    OBVIOUS
  <2> HIDE DEF out, IsOut
  <2>2. QED BY <1>2, <2>1
<1> HIDE DEF out
<1>4. out[0] = Quiet /\ \A k \in 1..n : out[k] = out[k - 1] ++ release(k)
  <2>1. \A k \in 0..n : out[k] = IF k = 0 THEN Quiet ELSE out[k - 1] ++ release(k)
    BY <1>3
  <2>2. QED BY <2>1
<1> HIDE DEF IsOut
<1>5. QED BY <1>1, <1>4 DEF release

\* However many players a game has, KillGame tells them EJECT and the lists, and no START.
LEMMA KillGameIsSilent ==
  ASSUME NEW g, NEW order, Len(order) \in Nat
  PROVE  SilentBox(KillGame(g, order))
<1> DEFINE n == Len(order)
<1>1. PICK out : /\ KillGame(g, order) = out[n]
                 /\ out[0] = Quiet
                 /\ \A k \in 1..n : out[k] = out[k - 1] ++ Release(g, order, k)
  BY KillGameSteps
<1>2. ASSUME NEW k PROVE SilentBox(Release(g, order, k))
  <2> DEFINE m == [type |-> "Eject", who |-> name[g.creator]]
  <2>1. m.type # "Start"
    OBVIOUS
  <2> HIDE DEF m
  <2>2. SilentBox(SendTo({order[k]}, m))
    BY <2>1, SilentSend
  <2>3. SilentBox(BroadcastActiveUsers(Released(order, k), name, games) ++ SendTo({order[k]}, m))
    BY <2>2, BroadcastsAreSilent, SilentJoin
  <2>4. QED BY <2>3 DEF m, Release
<1> DEFINE T == {j \in Nat : j <= n => SilentBox(out[j])}
<1>3. 0 \in T
  BY <1>1, QuietIsSilent
<1>4. ASSUME NEW j \in Nat, j \in T PROVE j + 1 \in T
  <2>1. CASE j + 1 <= n
    <3>1. j <= n /\ j + 1 \in 1..n /\ (j + 1) - 1 = j
      BY <2>1
    <3>2. SilentBox(out[j]) /\ out[j + 1] = out[j] ++ Release(g, order, j + 1)
      BY <1>1, <1>4, <3>1
    <3>3. SilentBox(out[j + 1])
      BY <1>2, <3>2, SilentJoin
    <3>4. QED BY <3>3
  <2>2. CASE ~(j + 1 <= n)
    BY <2>2
  <2>3. QED BY <2>1, <2>2
<1> HIDE DEF T
<1>5. Nat \subseteq T
  BY <1>3, <1>4, SetInduction
<1>6. QED BY <1>1, <1>5 DEF T
-----------------------------------------------------------------------------
(***************************************************************************)
(* What the handlers queue.                                                *)
(***************************************************************************)
\* ENet has a fixed number of slots, so a game is released player by player to the end.
LEMMA OrdersAreSequences ==
  ASSUME Fit(games, state, name), NEW p, NEW order \in RemovalOrders(p)
  PROVE  Len(order) \in Nat
<1>1. CASE CreatedBy(p) # {}
  <2> DEFINE g == games[Min(CreatedBy(p))]
  <2>1. g \in Game
    BY <1>1, FindCreated, ElementOfSeq, LenProperties DEF Fit, Typed
  <2>2. g.pending \in SUBSET Peers /\ g.joined \in SUBSET Peers
    BY <2>1 DEF Game
  <2>3. order \in KillOrders(g)
    BY <1>1 DEF RemovalOrders
  <2> HIDE DEF g
  <2>4. ASSUME NEW S \in SUBSET Peers, NEW s \in SetToSeqs(S) PROVE s \in Seq(Peers)
    <3>1. Cardinality(S) \in Nat
      BY <2>4, PeersAssumption, FS_Subset, FS_CardinalityType
    <3>2. s \in [1..Cardinality(S) -> Peers]
      BY <2>4 DEF SetToSeqs
    <3>3. QED BY <3>1, <3>2, SeqDef
  <2>5. PICK s \in SetToSeqs(g.pending), t \in SetToSeqs(g.joined) : order = s \o t
    BY <2>3 DEF KillOrders
  <2>6. s \in Seq(Peers) /\ t \in Seq(Peers)
    BY <2>2, <2>4, <2>5
  <2>7. order \in Seq(Peers)
    BY <2>5, <2>6, ConcatProperties
  <2>8. QED BY <2>7, LenProperties
<1>2. CASE CreatedBy(p) = {}
  BY <1>2, EmptySeq DEF RemovalOrders
<1>3. QED BY <1>1, <1>2

LEMMA RemovalIsSilent ==
  ASSUME Fit(games, state, name), NEW p, NEW order \in RemovalOrders(p)
  PROVE  SilentBox(RemoveUserFromAnyGames(p, order).out)
<1> DEFINE bye == SendTo({p}, [type |-> "Leave"])
<1>1. SilentBox(bye)
  BY SilentSend
<1> HIDE DEF bye
<1>2. SilentBox(Quiet) /\ \A g : SilentBox(SendInfoToAll(g) ++ bye) /\ SilentBox(KillGame(g, order) ++ bye)
  BY <1>1, OrdersAreSequences, KillGameIsSilent, InfoIsSilent, QuietIsSilent, SilentJoin
<1>3. \/ RemoveUserFromAnyGames(p, order).out = Quiet
      \/ \E g : \/ RemoveUserFromAnyGames(p, order).out = SendInfoToAll(g) ++ bye
                \/ RemoveUserFromAnyGames(p, order).out = KillGame(g, order) ++ bye
  BY DEF RemoveUserFromAnyGames, bye
<1>4. QED BY <1>2, <1>3

\* Every handler but OnStart.
LEMMA OthersAreSilent ==
  ASSUME IInv, NEW p \in Peers
  PROVE  /\ NewConnection(p) \/ LostConnection(p) => SilentBox(sent')
         /\ \A m \in ClientMsgs :
               ReceiveMessage(p, m) => OnStart(p, m) \/ SilentBox(sent')
<1> USE DEF IInv
<1>2. ASSUME LostConnection(p) PROVE SilentBox(sent')
  <2>1. PICK order \in RemovalOrders(p) :
           sent' = [RemoveUserFromAnyGames(p, order).out
                      ++ BroadcastActiveUsers(state', name', games') EXCEPT ![p] = <<>>]
    BY <1>2 DEF LostConnection
  <2> DEFINE a == RemoveUserFromAnyGames(p, order).out
                    ++ BroadcastActiveUsers(state', name', games')
  <2>2. SilentBox(a)
    BY RemovalIsSilent, BroadcastsAreSilent, SilentJoin
  <2> HIDE DEF a
  <2>3. sent' = [a EXCEPT ![p] = <<>>] /\ <<>> \in Seq({}) /\ ToSet(<<>>) = {}
    BY <2>1, EmptySeq DEF a, ToSet
  <2>4. \A q \in Peers : sent'[q] = IF q = p THEN <<>> ELSE a[q]
    BY <2>2, <2>3 DEF SilentBox, Outbox
  <2>5. QED BY <2>2, <2>3, <2>4 DEF SilentBox, Outbox, Silent
<1>3. ASSUME NEW m \in ClientMsgs, OnLogin(p, m) PROVE SilentBox(sent')
  <2> DEFINE hello == [type |-> "Login", who |-> m.who]
  <2>1. hello.type # "Start"
    OBVIOUS
  <2> HIDE DEF hello
  <2>2. SilentBox(SendTo({p}, hello) ++ BroadcastActiveUsers(state', name', games))
    BY <2>1, SilentSend, SilentJoin, BroadcastsAreSilent
  <2>3. QED BY <1>3, <2>2, QuietIsSilent DEF OnLogin, DisconnectUser, hello
<1>4. ASSUME NEW m \in ClientMsgs, OnCreate(p, m) PROVE SilentBox(sent')
  <2> DEFINE done == [type |-> "Create"]
  <2>1. done.type # "Start"
    OBVIOUS
  <2> HIDE DEF done
  <2>2. SilentBox(SendTo({p}, done) ++ BroadcastOpenGames(state, games'))
    BY <2>1, SilentSend, SilentJoin, BroadcastsAreSilent
  <2>3. QED BY <1>4, <2>2, QuietIsSilent DEF OnCreate, DisconnectUser, done
<1>5. ASSUME NEW m \in ClientMsgs, OnJoin(p, m) PROVE SilentBox(sent')
  <2> DEFINE g == [games[Min(CreatedByName(m.who))] EXCEPT !.pending = @ \cup {p}]
             told == [type |-> "Join", who |-> name[p]]
  <2>1. told.type # "Start"
    OBVIOUS
  <2>2. \/ sent' = Quiet
        \/ sent' = SendInfoToAll(g) ++ SendTo({g.creator}, told) ++ SendTo({p}, told)
    BY <1>5 DEF OnJoin
  <2> HIDE DEF told, g
  <2>3. SilentBox(SendInfoToAll(g) ++ SendTo({g.creator}, told) ++ SendTo({p}, told))
    BY <2>1, SilentSend, SilentJoin, InfoIsSilent
  <2>4. QED BY <2>2, <2>3, QuietIsSilent
<1>6. ASSUME NEW m \in ClientMsgs, OnLeave(p, m) PROVE SilentBox(sent')
  <2>1. PICK order \in RemovalOrders(p) :
           sent' = RemoveUserFromAnyGames(p, order).out ++ BroadcastActiveUsers(state', name, games')
    BY <1>6 DEF OnLeave
  <2>2. QED BY <2>1, RemovalIsSilent, BroadcastsAreSilent, SilentJoin
<1>7. ASSUME NEW m \in ClientMsgs, OnEject(p, m) PROVE SilentBox(sent')
  <2> DEFINE told == [type |-> "Eject", who |-> name[p]]
  <2>1. told.type # "Start"
    OBVIOUS
  <2>2. \/ sent' = Quiet
        \/ \E g, q : sent' = SendInfoToAll(g) ++ SendTo({q}, told)
                             ++ BroadcastActiveUsers(state', name, games')
    BY <1>7 DEF OnEject
  <2> HIDE DEF told
  <2>3. \A g, q : SilentBox(SendInfoToAll(g) ++ SendTo({q}, told)
                            ++ BroadcastActiveUsers(state', name, games'))
    BY <2>1, SilentSend, SilentJoin, InfoIsSilent, BroadcastsAreSilent
  <2>4. QED BY <2>2, <2>3, QuietIsSilent
<1>8. ASSUME NEW m \in ClientMsgs, OnApprove(p, m) PROVE SilentBox(sent')
  <2> DEFINE told == [type |-> "Approve", who |-> m.who]
  <2>1. told.type # "Start"
    OBVIOUS
  <2>2. \/ sent' = Quiet
        \/ \E g : sent' = SendInfoToAll(g) ++ SendTo({p}, told)
    BY <1>8 DEF OnApprove
  <2> HIDE DEF told
  <2>3. \A g : SilentBox(SendInfoToAll(g) ++ SendTo({p}, told))
    BY <2>1, SilentSend, SilentJoin, InfoIsSilent
  <2>4. QED BY <2>2, <2>3, QuietIsSilent
<1>9. ASSUME NEW m \in ClientMsgs,
             BadMessage(p, m) \/ Ignored(p, m) \/ OnVersion(p, m) \/ OnLocalIP(p, m)
      PROVE  SilentBox(sent')
  BY <1>9, QuietIsSilent DEF BadMessage, Ignored, OnVersion, OnLocalIP, DisconnectUser
<1>10. ASSUME NEW m \in ClientMsgs, ReceiveMessage(p, m) PROVE OnStart(p, m) \/ SilentBox(sent')
  BY <1>10, <1>3, <1>4, <1>5, <1>6, <1>7, <1>8, <1>9 DEF ReceiveMessage
<1>11. NewConnection(p) => SilentBox(sent')
  BY QuietIsSilent DEF NewConnection
<1>12. QED BY <1>2, <1>10, <1>11

\* A game starts with its only joined player: the two are told START, each with the
\* number of its side and the name of the other, if their links are up; nobody else is.
StartsWith(p, q) ==
    /\ \E i \in DOMAIN games :
          /\ games[i].creator = p /\ games[i].joined = {q}
          /\ games' = RemoveAt(games, i)
    /\ p \in Peers /\ q \in Peers /\ p # q
    /\ link' = link /\ name' = name
    /\ Outbox(sent')
    /\ \A x \in Peers : \A m \in ToSet(sent'[x]) :
          m.type = "Start" =>
             \/ x = p /\ m = StartMsg(1, q)
             \/ x = q /\ m = StartMsg(2, p)
    /\ link[p] = "up" => StartMsg(1, q) \in ToSet(sent'[p])
    /\ link[q] = "up" => StartMsg(2, p) \in ToSet(sent'[q])

LEMMA StartStep ==
  ASSUME IInv, NEW p \in Peers, NEW m \in ClientMsgs, OnStart(p, m)
  PROVE  \/ UNCHANGED games /\ SilentBox(sent')
         \/ \E q \in Peers : StartsWith(p, q)
<1> USE DEF IInv
<1> DEFINE i == Min(CreatedBy(p))
<1>1. CASE ~(CreatedBy(p) # {} /\ CanStart(games[i]))
  BY <1>1, QuietIsSilent DEF OnStart
<1>2. CASE CreatedBy(p) # {} /\ CanStart(games[i])
  <2>1. /\ i \in DOMAIN games /\ games[i].creator = p
        /\ games[i] \in Game /\ GameFits(games[i], state, name)
    BY <1>2, FindCreated, ElementOfSeq, LenProperties DEF Fit, Typed
  <2>2. PICK q : games[i].joined = {q}
    <3>1. games[i].joined \in SUBSET Peers
      BY <2>1 DEF Game
    <3>2. IsFiniteSet(games[i].joined)
      BY <3>1, PeersAssumption, FS_Subset
    <3>3. QED BY <1>2, <3>2, FS_Singleton DEF CanStart
  <2>3. q \in Peers /\ q # p
    BY <2>1, <2>2 DEF Game, GameFits
  <2> DEFINE a == SendTo({p}, StartMsg(1, q))
             b == SendTo({q}, StartMsg(2, p))
             c(order) == RemoveUserFromAnyGames(p, order).out
             d == BroadcastOpenGames(state', games')
  <2>4. PICK order \in RemovalOrders(p) :
          /\ games' = RemoveUserFromAnyGames(p, order).games
          /\ sent' = ((a ++ b) ++ c(order)) ++ d
    BY <1>2, <2>2 DEF OnStart, StartMsg
  <2>5. games' = RemoveAt(games, i)
    BY <1>2, <2>4 DEF RemoveUserFromAnyGames
  <2>6. SilentBox(c(order)) /\ SilentBox(d)
    BY RemovalIsSilent, BroadcastsAreSilent
  <2>7. /\ Outbox(a) /\ Outbox(b)
        /\ \A x \in Peers : ToSet(a[x]) = IF x = p /\ link[x] = "up" THEN {StartMsg(1, q)} ELSE {}
        /\ \A x \in Peers : ToSet(b[x]) = IF x = q /\ link[x] = "up" THEN {StartMsg(2, p)} ELSE {}
    BY SendFacts
  <2> DEFINE e == c(order)
  <2>8. SilentBox(e) /\ sent' = ((a ++ b) ++ e) ++ d
    BY <2>4, <2>6
  <2> HIDE DEF a, b, c, d, e, i
  <2>9. /\ Outbox(a ++ b)
        /\ \A x \in Peers : ToSet((a ++ b)[x]) = ToSet(a[x]) \cup ToSet(b[x])
    BY <2>7, JoinFacts
  <2>10. /\ Outbox((a ++ b) ++ e)
         /\ \A x \in Peers : ToSet(((a ++ b) ++ e)[x]) = ToSet((a ++ b)[x]) \cup ToSet(e[x])
    BY <2>8, <2>9, JoinFacts DEF SilentBox
  <2>11. /\ Outbox(((a ++ b) ++ e) ++ d)
         /\ \A x \in Peers : ToSet((((a ++ b) ++ e) ++ d)[x]) = ToSet(((a ++ b) ++ e)[x]) \cup ToSet(d[x])
    BY <2>6, <2>10, JoinFacts DEF SilentBox
  <2>12. /\ Outbox(sent')
         /\ \A x \in Peers :
               ToSet(sent'[x]) = ToSet(a[x]) \cup ToSet(b[x]) \cup ToSet(e[x]) \cup ToSet(d[x])
    BY <2>8, <2>9, <2>10, <2>11
  <2>13. \A x \in Peers : \A k \in ToSet(e[x]) \cup ToSet(d[x]) : k.type # "Start"
    BY <2>6, <2>8 DEF SilentBox, Silent
  <2>14. \A x \in Peers : \A k \in ToSet(sent'[x]) :
           k.type = "Start" => \/ x = p /\ k = StartMsg(1, q)
                               \/ x = q /\ k = StartMsg(2, p)
    BY <2>7, <2>12, <2>13
  <2>15. /\ link[p] = "up" => StartMsg(1, q) \in ToSet(sent'[p])
         /\ link[q] = "up" => StartMsg(2, p) \in ToSet(sent'[q])
    BY <2>3, <2>7, <2>12
  <2>16. link' = link /\ name' = name
    BY DEF OnStart
  <2>17. StartsWith(p, q)
    BY <2>1, <2>2, <2>3, <2>5, <2>12, <2>14, <2>15, <2>16 DEF StartsWith
  <2>18. QED BY <2>3, <2>17
<1>3. QED BY <1>1, <1>2

LEMMA InOutbox ==
  ASSUME NEW a, Outbox(a), NEW p \in Peers
  PROVE  \A m : m \in ToSet(a[p]) <=> \E k \in DOMAIN a[p] : a[p][k] = m
<1> DEFINE s == a[p]
<1>1. s \in Seq(ToSet(s))
  BY DEF Outbox
<1> HIDE DEF s
<1>2. ToSet(s) = {s[i] : i \in 1..Len(s)} /\ DOMAIN s = 1..Len(s)
  BY <1>1, ToSetFacts, LenProperties
<1>3. QED BY <1>2 DEF s

\* OnStart (States.cpp) sends START to the creator of a game and to its only joined
\* player, in the event that takes the game off the list.  Nothing else sends it.
THEOREM StartIsMutualHolds == Spec => StartIsMutual
<1> DEFINE Pairs(x, k, i, q) ==
             /\ {x, q} = {games[i].creator} \cup games[i].joined
             /\ sent'[x][k] = StartMsg(IF x = games[i].creator THEN 1 ELSE 2, q)
             /\ link[q] = "up" => \E l \in DOMAIN sent'[q] :
                   sent'[q][l] = StartMsg(IF q = games[i].creator THEN 1 ELSE 2, x)
             /\ \A j \in DOMAIN games' : games'[j].creator # games[i].creator
<1>1. ASSUME IInv, Next PROVE Mutual
  <2>1. \/ SilentBox(sent')
        \/ \E p, q \in Peers : StartsWith(p, q)
    BY <1>1, OthersAreSilent, StartStep DEF Next, ReceiveMessage
  <2>2. CASE SilentBox(sent')
    <3>1. \A x \in Peers : \A k \in DOMAIN sent'[x] : sent'[x][k].type # "Start"
      BY <2>2, InOutbox DEF SilentBox, Silent
    <3>2. QED BY <3>1 DEF Mutual
  <2>3. CASE \E p, q \in Peers : StartsWith(p, q)
    <3>1. PICK p \in Peers, q \in Peers : StartsWith(p, q)
      BY <2>3
    <3>2. PICK i \in DOMAIN games :
             /\ games[i].creator = p /\ games[i].joined = {q} /\ games' = RemoveAt(games, i)
      BY <3>1 DEF StartsWith
    <3>3. \A j \in DOMAIN games' : games'[j].creator # p
      <4>1. \A j \in DOMAIN games' : \E k \in DOMAIN games \ {i} : games'[j] = games[k]
        BY <1>1, <3>2, RemoveAtFacts DEF IInv, Fit, Typed
      <4>2. \A k \in DOMAIN games \ {i} : games[k].creator # p
        BY <1>1, <3>2, OneGame DEF IInv, Fit, Players
      <4>3. QED BY <4>1, <4>2
    <3>4. /\ p # q /\ Outbox(sent') /\ p \in Players(games[i]) /\ q \in Players(games[i])
          /\ link[p] = "up" => \E l \in DOMAIN sent'[p] : sent'[p][l] = StartMsg(1, q)
          /\ link[q] = "up" => \E l \in DOMAIN sent'[q] : sent'[q][l] = StartMsg(2, p)
      BY <3>1, <3>2, InOutbox DEF StartsWith, Players
    <3>5. ASSUME NEW x \in Peers, NEW k \in DOMAIN sent'[x], sent'[x][k].type = "Start"
          PROVE  \E r \in Players(games[i]) \ {x} : Pairs(x, k, i, r)
      <4>1. \/ x = p /\ sent'[x][k] = StartMsg(1, q)
            \/ x = q /\ sent'[x][k] = StartMsg(2, p)
        BY <3>1, <3>4, <3>5, InOutbox DEF StartsWith
      <4>2. CASE x = p /\ sent'[x][k] = StartMsg(1, q)
        <5>1. Pairs(p, k, i, q)
          BY <3>2, <3>3, <3>4, <4>2
        <5>2. QED BY <3>4, <4>2, <5>1
      <4>3. CASE x = q /\ sent'[x][k] = StartMsg(2, p)
        <5>1. Pairs(q, k, i, p)
          BY <3>2, <3>3, <3>4, <4>3
        <5>2. QED BY <3>4, <4>3, <5>1
      <4>4. QED BY <4>1, <4>2, <4>3
    <3>6. QED BY <3>5 DEF Mutual
  <2>4. QED BY <2>1, <2>2, <2>3
<1>2. IInv /\ [Next]_vars => [Mutual]_vars
  BY <1>1
<1>3. QED BY <1>2, Fitting, PTL DEF Spec, StartIsMutual
-----------------------------------------------------------------------------
(***************************************************************************)
(* The refinement mapping, for any list of games.                          *)
(***************************************************************************)
HostIn(gs) ==
    [p \in Peers |-> LET R == {i \in DOMAIN gs : p \in Players(gs[i])}
                     IN  IF R = {} THEN Nobody ELSE gs[Min(R)].creator]

WaitingIn(gs) == UNION {gs[i].pending : i \in DOMAIN gs}

\* What the mapping needs of a list of games.
Rooms(gs) ==
    /\ gs \in Seq(Game)
    /\ Apart(gs)
    /\ \A i \in DOMAIN gs : /\ gs[i].creator \notin gs[i].joined \cup gs[i].pending
                            /\ gs[i].joined \cap gs[i].pending = {}

LEMMA FitRooms == ASSUME NEW gs, NEW st, NEW nm, Fit(gs, st, nm) PROVE Rooms(gs)
  BY DEF Fit, Typed, GameFits, Rooms

LEMMA MappedByGames ==
    /\ HostOf = HostIn(games) /\ HostOf' = HostIn(games')
    /\ Waiting = WaitingIn(games) /\ Waiting' = WaitingIn(games')
  BY DEF HostOf, RoomOf, HostIn, Waiting, WaitingIn

LEMMA RoomFacts ==
  ASSUME NEW gs, Rooms(gs), NEW i \in DOMAIN gs
  PROVE  /\ gs[i] \in Game /\ gs[i].creator \in Peers /\ gs[i].creator # Nobody
         /\ gs[i].joined \subseteq Peers /\ gs[i].pending \subseteq Peers
         /\ Players(gs[i]) \subseteq Peers
         /\ gs[i].creator \in Players(gs[i])
         /\ i \in Nat
<1>1. gs[i] \in Game /\ i \in Nat
  BY ElementOfSeq, LenProperties DEF Rooms
<1>2. QED BY <1>1, NobodyAssumption DEF Game, Players

\* The host of a player is the creator of its game, and nobody if it is in none.
LEMMA HostFacts ==
  ASSUME NEW gs, Rooms(gs), NEW p \in Peers
  PROVE  /\ \A i \in DOMAIN gs : p \in Players(gs[i]) => HostIn(gs)[p] = gs[i].creator
         /\ (\A i \in DOMAIN gs : p \notin Players(gs[i])) => HostIn(gs)[p] = Nobody
<1> DEFINE R == {i \in DOMAIN gs : p \in Players(gs[i])}
<1>1. HostIn(gs)[p] = IF R = {} THEN Nobody ELSE gs[Min(R)].creator
  BY DEF HostIn
<1>2. ASSUME NEW i \in DOMAIN gs, p \in Players(gs[i]) PROVE HostIn(gs)[p] = gs[i].creator
  <2>1. R = {i}
    BY <1>2, OneGame DEF Rooms
  <2>2. Min(R) = i
    BY <2>1, RoomFacts, MinOfOne
  <2>3. QED BY <1>1, <2>1, <2>2
<1>3. QED BY <1>1, <1>2

LEMMA HostTyped ==
  ASSUME NEW gs PROVE HostIn(gs) = [p \in Peers |-> HostIn(gs)[p]]
  BY DEF HostIn

LEMMA SameHosts ==
  ASSUME NEW gs, NEW hs, \A p \in Peers : HostIn(hs)[p] = HostIn(gs)[p]
  PROVE  HostIn(hs) = HostIn(gs)
<1>1. [p \in Peers |-> HostIn(hs)[p]] = [p \in Peers |-> HostIn(gs)[p]]
  OBVIOUS
<1>2. QED BY <1>1, HostTyped

\* The guests of a host are the players of its game, those admitted the joined ones.
LEMMA GuestFacts ==
  ASSUME NEW gs, Rooms(gs), NEW i \in DOMAIN gs
  PROVE  LET h == gs[i].creator
             G == {u \in Peers \ {h} : HostIn(gs)[u] = h}
         IN  /\ HostIn(gs)[h] = h
             /\ G = gs[i].joined \cup gs[i].pending
             /\ G \ WaitingIn(gs) = gs[i].joined
             /\ {h} \cup G = Players(gs[i])
<1> DEFINE h == gs[i].creator
           G == {u \in Peers \ {h} : HostIn(gs)[u] = h}
<1>1. HostIn(gs)[h] = h
  BY RoomFacts, HostFacts
<1>2. ASSUME NEW u \in gs[i].joined \cup gs[i].pending PROVE u \in G
  BY <1>2, RoomFacts, HostFacts DEF Players, Rooms
<1>3. ASSUME NEW u \in G PROVE u \in gs[i].joined \cup gs[i].pending
  <2>1. u \in Peers /\ u # h /\ HostIn(gs)[u] = h /\ h # Nobody
    BY <1>3, RoomFacts
  <2>2. PICK j \in DOMAIN gs : u \in Players(gs[j])
    BY <2>1, HostFacts
  <2>3. gs[j].creator = h
    BY <2>1, <2>2, HostFacts
  <2>4. j = i
    BY <2>3, RoomFacts, OneGame DEF Rooms
  <2>5. QED BY <2>1, <2>2, <2>4 DEF Players
<1>4. G = gs[i].joined \cup gs[i].pending
  BY <1>2, <1>3
<1> HIDE DEF G
<1>5. G \ WaitingIn(gs) = gs[i].joined
  <2>1. gs[i].pending \subseteq WaitingIn(gs)
    BY DEF WaitingIn
  <2>2. ASSUME NEW u \in gs[i].joined PROVE u \notin WaitingIn(gs)
    <3>1. \A j \in DOMAIN gs : u \notin gs[j].pending
      BY <2>2, OneGame DEF Rooms, Players
    <3>2. QED BY <3>1 DEF WaitingIn
  <2>3. QED BY <1>4, <2>1, <2>2
<1>6. {h} \cup G = Players(gs[i])
  BY <1>4 DEF Players
<1>7. QED BY <1>1, <1>4, <1>5, <1>6 DEF G

\* Closing game i sends its players out of the room and out of those waiting.
LEMMA CloseMaps ==
  ASSUME NEW gs, Rooms(gs), NEW i \in DOMAIN gs, Rooms(RemoveAt(gs, i))
  PROVE  /\ HostIn(RemoveAt(gs, i)) =
              [u \in Peers |-> IF u \in Players(gs[i]) THEN Nobody ELSE HostIn(gs)[u]]
         /\ WaitingIn(RemoveAt(gs, i)) = WaitingIn(gs) \ Players(gs[i])
<1> DEFINE hs == RemoveAt(gs, i)
<1>0. gs \in Seq(Game)
  BY DEF Rooms
<1>1. /\ \A j \in DOMAIN hs : \E k \in DOMAIN gs \ {i} : hs[j] = gs[k]
      /\ \A k \in DOMAIN gs \ {i} : \E j \in DOMAIN hs : hs[j] = gs[k]
  BY <1>0, RemoveAtFacts
<1>2. \A k \in DOMAIN gs \ {i} : Players(gs[k]) \cap Players(gs[i]) = {}
  BY DEF Rooms, Apart
<1>3. Rooms(hs)
  OBVIOUS
<1> HIDE DEF hs
<1>4. ASSUME NEW u \in Peers
      PROVE  HostIn(hs)[u] = IF u \in Players(gs[i]) THEN Nobody ELSE HostIn(gs)[u]
  <2>1. CASE \E k \in DOMAIN gs \ {i} : u \in Players(gs[k])
    <3>1. PICK k \in DOMAIN gs \ {i} : u \in Players(gs[k])
      BY <2>1
    <3>2. PICK j \in DOMAIN hs : hs[j] = gs[k]
      BY <1>1
    <3>3. HostIn(gs)[u] = gs[k].creator
      BY <3>1, HostFacts
    <3>4. HostIn(hs)[u] = gs[k].creator
      BY <1>3, <3>1, <3>2, HostFacts
    <3>5. u \notin Players(gs[i])
      BY <1>2, <3>1
    <3>6. QED BY <3>3, <3>4, <3>5
  <2>2. CASE \A k \in DOMAIN gs \ {i} : u \notin Players(gs[k])
    <3>1. HostIn(hs)[u] = Nobody
      BY <1>1, <1>3, <2>2, HostFacts
    <3>2. u \notin Players(gs[i]) => HostIn(gs)[u] = Nobody
      BY <2>2, HostFacts
    <3>3. QED BY <3>1, <3>2
  <2>3. QED BY <2>1, <2>2
<1>5. HostIn(hs) = [u \in Peers |-> IF u \in Players(gs[i]) THEN Nobody ELSE HostIn(gs)[u]]
  BY <1>4, HostTyped
<1>6. WaitingIn(hs) = WaitingIn(gs) \ Players(gs[i])
  <2>1. gs[i].pending \subseteq Players(gs[i])
    BY DEF Players
  <2>2. \A k \in DOMAIN gs \ {i} : gs[k].pending \cap Players(gs[i]) = {}
    BY <1>2 DEF Players
  <2>3. QED BY <1>1, <2>1, <2>2 DEF WaitingIn
<1>7. QED BY <1>5, <1>6 DEF hs

\* A new game is a room with its creator alone.
LEMMA OpenMaps ==
  ASSUME NEW gs, Rooms(gs), NEW g \in Game, g.joined = {}, g.pending = {},
         Rooms(Append(gs, g))
  PROVE  /\ HostIn(Append(gs, g)) =
              [u \in Peers |-> IF u = g.creator THEN g.creator ELSE HostIn(gs)[u]]
         /\ WaitingIn(Append(gs, g)) = WaitingIn(gs)
<1> DEFINE hs == Append(gs, g)
           n == Len(gs) + 1
<1>1. /\ DOMAIN hs = DOMAIN gs \cup {n}
      /\ hs[n] = g /\ \A j \in DOMAIN gs : hs[j] = gs[j]
  <2>1. hs \in Seq(Game) /\ Len(hs) = n /\ hs[n] = g /\ \A j \in 1..Len(gs) : hs[j] = gs[j]
    BY AppendProperties DEF Rooms
  <2>2. Len(gs) \in Nat /\ DOMAIN gs = 1..Len(gs) /\ DOMAIN hs = 1..n
    BY <2>1, LenProperties DEF Rooms
  <2>3. QED BY <2>1, <2>2
<1>2. Rooms(hs) /\ Players(g) = {g.creator} /\ g.creator \in Peers
  BY DEF Players, Game
<1> HIDE DEF hs, n
<1>3. ASSUME NEW u \in Peers
      PROVE  HostIn(hs)[u] = IF u = g.creator THEN g.creator ELSE HostIn(gs)[u]
  <2>1. CASE u = g.creator
    BY <1>1, <1>2, <2>1, HostFacts
  <2>2. CASE u # g.creator /\ \E k \in DOMAIN gs : u \in Players(gs[k])
    <3>1. PICK k \in DOMAIN gs : u \in Players(gs[k])
      BY <2>2
    <3>2. HostIn(gs)[u] = gs[k].creator
      BY <3>1, HostFacts
    <3>3. HostIn(hs)[u] = gs[k].creator
      BY <1>1, <1>2, <3>1, HostFacts
    <3>4. QED BY <2>2, <3>2, <3>3
  <2>3. CASE u # g.creator /\ \A k \in DOMAIN gs : u \notin Players(gs[k])
    BY <1>1, <1>2, <2>3, HostFacts
  <2>4. QED BY <2>1, <2>2, <2>3
<1>4. HostIn(hs) = [u \in Peers |-> IF u = g.creator THEN g.creator ELSE HostIn(gs)[u]]
  BY <1>3, HostTyped
<1>5. WaitingIn(hs) = WaitingIn(gs)
  BY <1>1 DEF WaitingIn
<1>6. QED BY <1>4, <1>5 DEF hs

\* One player p of game i comes, goes or changes its place.
Moves(gs, hs, i, g, p) ==
    /\ Rooms(gs) /\ Rooms(hs)
    /\ i \in DOMAIN gs /\ g \in Game /\ p \in Peers
    /\ DOMAIN hs = DOMAIN gs /\ hs[i] = g
    /\ \A j \in DOMAIN gs \ {i} : hs[j] = gs[j]
    /\ \A j \in DOMAIN gs : p \in Players(gs[j]) => j = i
    /\ p # gs[i].creator /\ g.creator = gs[i].creator
    /\ g.joined \ {p} = gs[i].joined \ {p}
    /\ g.pending \ {p} = gs[i].pending \ {p}

\* All others keep their hosts; p is in the room now, or in none.
Moved(gs, hs, g, p) ==
    /\ \A u \in Peers \ {p} : HostIn(hs)[u] = HostIn(gs)[u]
    /\ HostIn(hs)[p] = IF p \in g.joined \cup g.pending THEN g.creator ELSE Nobody
    /\ WaitingIn(hs) = IF p \in g.pending THEN WaitingIn(gs) \cup {p}
                                          ELSE WaitingIn(gs) \ {p}

LEMMA ReplaceMaps ==
  ASSUME NEW gs, NEW hs, NEW i, NEW g, NEW p, Moves(gs, hs, i, g, p)
  PROVE  Moved(gs, hs, g, p)
<1> USE DEF Moves
<1>1. /\ Rooms(hs)
      /\ DOMAIN hs = DOMAIN gs
      /\ hs[i] = g
      /\ \A j \in DOMAIN gs \ {i} : hs[j] = gs[j]
  OBVIOUS
<1>2. \A u : u # p => \A j \in DOMAIN gs : u \in Players(hs[j]) <=> u \in Players(gs[j])
  <2>1. \A u : u # p => (u \in Players(g) <=> u \in Players(gs[i]))
    BY DEF Players
  <2>2. QED BY <1>1, <2>1
<1>3. \A j \in DOMAIN gs : hs[j].creator = gs[j].creator
  BY <1>1
<1>4. ASSUME NEW u \in Peers \ {p} PROVE HostIn(hs)[u] = HostIn(gs)[u]
  <2>1. CASE \E j \in DOMAIN gs : u \in Players(gs[j])
    <3>1. PICK j \in DOMAIN gs : u \in Players(gs[j])
      BY <2>1
    <3>2. HostIn(gs)[u] = gs[j].creator
      BY <3>1, HostFacts
    <3>3. HostIn(hs)[u] = hs[j].creator
      BY <1>1, <1>2, <3>1, HostFacts
    <3>4. QED BY <1>3, <3>2, <3>3
  <2>2. CASE \A j \in DOMAIN gs : u \notin Players(gs[j])
    BY <1>1, <1>2, <2>2, HostFacts
  <2>3. QED BY <2>1, <2>2
<1>5. HostIn(hs)[p] = IF p \in g.joined \cup g.pending THEN g.creator ELSE Nobody
  <2>1. CASE p \in g.joined \cup g.pending
    <3>1. p \in Players(hs[i])
      BY <1>1, <2>1 DEF Players
    <3>2. QED BY <1>1, <2>1, <3>1, HostFacts
  <2>2. CASE p \notin g.joined \cup g.pending
    <3>1. \A j \in DOMAIN hs : p \notin Players(hs[j])
      BY <1>1, <2>2 DEF Players
    <3>2. QED BY <1>1, <2>2, <3>1, HostFacts
  <2>3. QED BY <2>1, <2>2
<1>6. WaitingIn(hs) = IF p \in g.pending THEN WaitingIn(gs) \cup {p} ELSE WaitingIn(gs) \ {p}
  <2>1. \A u : u # p => \A j \in DOMAIN gs : u \in hs[j].pending <=> u \in gs[j].pending
    BY <1>1
  <2>2. \A u : u # p => (u \in WaitingIn(hs) <=> u \in WaitingIn(gs))
    BY <1>1, <2>1 DEF WaitingIn
  <2>3. p \in WaitingIn(hs) <=> p \in g.pending
    <3>1. \A j \in DOMAIN gs \ {i} : p \notin gs[j].pending
      BY DEF Players
    <3>2. QED BY <1>1, <3>1 DEF WaitingIn
  <2>4. QED BY <2>2, <2>3
<1>7. QED BY <1>4, <1>5, <1>6 DEF Moved
-----------------------------------------------------------------------------
(***************************************************************************)
(* Every event is a step of the lobby.                                     *)
(***************************************************************************)
LEMMA BeforeAndAfter == IInv /\ IInv' => Rooms(games) /\ Rooms(games')
  BY FitRooms DEF IInv

LEMMA NobodyCalled == ASSUME SilentBox(sent') PROVE Called' = {}
<1>1. \A p \in Peers : \A k \in DOMAIN sent'[p] : sent'[p][k].type # "Start"
  BY InOutbox DEF SilentBox, Silent
<1>2. QED BY <1>1 DEF Called

LEMMA AsRest == ASSUME UNCHANGED games, Called' = {} PROVE Abstract!Rest
<1>1. HostOf' = HostOf /\ Waiting' = Waiting
  BY MappedByGames
<1>2. QED BY <1>1 DEF Abstract!Rest

LEMMA AsRelease ==
  ASSUME IInv, IInv', NEW i \in DOMAIN games, games' = RemoveAt(games, i)
  PROVE  LET h == games[i].creator
         IN  /\ HostOf[h] = h
             /\ Abstract!Admitted(h) = games[i].joined
             /\ Abstract!Release({h} \cup Abstract!Guests(h))
<1> DEFINE h == games[i].creator
<1>1. Rooms(games) /\ Rooms(games')
  BY BeforeAndAfter
<1>2. Abstract!Guests(h) = {u \in Peers \ {h} : HostIn(games)[u] = h}
  BY MappedByGames DEF Abstract!Guests
<1>3. /\ HostOf[h] = h
      /\ Abstract!Guests(h) \ Waiting = games[i].joined
      /\ {h} \cup Abstract!Guests(h) = Players(games[i])
  BY <1>1, <1>2, GuestFacts, MappedByGames
<1> HIDE DEF h
<1>4. /\ HostOf' = [u \in Peers |-> IF u \in Players(games[i]) THEN Nobody ELSE HostOf[u]]
      /\ Waiting' = Waiting \ Players(games[i])
  BY <1>1, CloseMaps, MappedByGames
<1>5. Abstract!Release(Players(games[i]))
  BY <1>4 DEF Abstract!Release
<1>6. QED BY <1>3, <1>5 DEF Abstract!Admitted, h

LEMMA AsGo ==
  ASSUME IInv, IInv', NEW i \in DOMAIN games,
         NEW q, q \in games[i].pending \cup games[i].joined,
         games' = [games EXCEPT ![i] = RemoveJoinedOrPending(games[i], q)],
         Called' = {}
  PROVE  q \in Peers /\ Abstract!Go(q)
<1> DEFINE g == RemoveJoinedOrPending(games[i], q)
<1>1. Rooms(games) /\ Rooms(games')
  BY BeforeAndAfter
<1>2. /\ g \in Game /\ q \notin g.joined /\ q \notin g.pending
      /\ g.creator = games[i].creator /\ q # games[i].creator
      /\ g.joined \ {q} = games[i].joined \ {q}
      /\ g.pending \ {q} = games[i].pending \ {q}
  BY TakenOut DEF IInv
<1>3. /\ q \in Peers /\ q \in Players(games[i])
      /\ \A j \in DOMAIN games : q \in Players(games[j]) => j = i
  BY <1>1, RoomFacts, OneGame DEF Players, Rooms
<1>4. games' = [games EXCEPT ![i] = g]
  OBVIOUS
<1> HIDE DEF g
<1>10. /\ DOMAIN games' = DOMAIN games /\ games'[i] = g
      /\ \A j \in DOMAIN games \ {i} : games'[j] = games[j]
  BY <1>4
<1>11. Moves(games, games', i, g, q)
  BY <1>1, <1>2, <1>3, <1>10 DEF Moves
<1>12. Moved(games, games', g, q)
  BY <1>11, ReplaceMaps
<1>5. /\ \A u \in Peers \ {q} : HostIn(games')[u] = HostIn(games)[u]
      /\ HostIn(games')[q] = Nobody
      /\ WaitingIn(games') = WaitingIn(games) \ {q}
  BY <1>2, <1>4, <1>12 DEF Moved
<1>6. HostIn(games') = [u \in Peers |-> IF u \in {q} THEN Nobody ELSE HostIn(games)[u]]
  BY <1>3, <1>5, HostTyped
<1>7. Abstract!Release({q})
  BY <1>5, <1>6, MappedByGames DEF Abstract!Release
<1>8. HostOf[q] = games[i].creator /\ games[i].creator # Nobody
  BY <1>1, <1>3, RoomFacts, HostFacts, MappedByGames
<1>9. QED BY <1>2, <1>3, <1>7, <1>8 DEF Abstract!Go

\* LEAVE and a lost connection.
LEMMA AsRemoval ==
  ASSUME IInv, IInv', NEW p \in Peers, NEW order,
         games' = RemoveUserFromAnyGames(p, order).games, Called' = {}
  PROVE  Abstract!Close(p) \/ Abstract!Go(p) \/ Abstract!Rest
<1>1. CASE CreatedBy(p) # {}
  <2> DEFINE i == Min(CreatedBy(p))
  <2>1. i \in DOMAIN games /\ games[i].creator = p
    BY <1>1, FindCreated DEF IInv
  <2>2. games' = RemoveAt(games, i)
    BY <1>1 DEF RemoveUserFromAnyGames
  <2> HIDE DEF i
  <2>3. HostOf[p] = p /\ Abstract!Release({p} \cup Abstract!Guests(p))
    BY <2>1, <2>2, AsRelease
  <2>4. QED BY <2>3 DEF Abstract!Close
<1>2. CASE CreatedBy(p) = {} /\ Entered(p) # {}
  <2> DEFINE i == Min(Entered(p))
  <2>1. i \in DOMAIN games /\ p \in games[i].pending \cup games[i].joined
    BY <1>2, FindEntered DEF IInv
  <2>2. games' = [games EXCEPT ![i] = RemoveJoinedOrPending(games[i], p)]
    BY <1>2 DEF RemoveUserFromAnyGames
  <2> HIDE DEF i
  <2>3. QED BY <2>1, <2>2, AsGo
<1>3. CASE CreatedBy(p) = {} /\ Entered(p) = {}
  BY <1>3, AsRest DEF RemoveUserFromAnyGames
<1>4. QED BY <1>1, <1>2, <1>3

\* CREATE.
LEMMA AsOpen ==
  ASSUME IInv, IInv', NEW p \in Peers, state[p] = "LoggedIn", NEW g \in Game,
         g.creator = p, g.joined = {}, g.pending = {}, games' = Append(games, g), Called' = {}
  PROVE  Abstract!Open(p)
<1>1. Rooms(games) /\ Rooms(games')
  BY BeforeAndAfter
<1>2. HostOf[p] = Nobody
  <2>1. \A i \in DOMAIN games : p \notin Players(games[i])
    BY LoggedInIsFree DEF IInv
  <2>2. QED BY <1>1, <2>1, HostFacts, MappedByGames
<1>3. /\ HostOf' = [u \in Peers |-> IF u = p THEN p ELSE HostOf[u]]
      /\ Waiting' = Waiting
  BY <1>1, OpenMaps, MappedByGames
<1>4. [HostOf EXCEPT ![p] = p] = [u \in Peers |-> IF u = p THEN p ELSE HostOf[u]]
  BY DEF HostOf
<1>5. QED BY <1>2, <1>3, <1>4 DEF Abstract!Open

\* JOIN: p waits in game i.
LEMMA AsAsk ==
  ASSUME IInv, IInv', NEW p \in Peers, state[p] = "LoggedIn", NEW i \in DOMAIN games,
         games' = [games EXCEPT ![i] = [games[i] EXCEPT !.pending = @ \cup {p}]], Called' = {}
  PROVE  games[i].creator \in Peers /\ Abstract!Ask(p, games[i].creator)
<1> DEFINE g == [games[i] EXCEPT !.pending = @ \cup {p}]
           h == games[i].creator
<1>1. Rooms(games) /\ Rooms(games') /\ games' = [games EXCEPT ![i] = g]
  BY BeforeAndAfter
<1>2. \A j \in DOMAIN games : p \notin Players(games[j])
  BY LoggedInIsFree DEF IInv
<1>3. /\ g \in Game /\ g.creator = h
      /\ g.joined = games[i].joined /\ g.pending = games[i].pending \cup {p}
      /\ h \in Peers /\ h # p
  BY <1>1, <1>2, RoomFacts DEF Game
<1> HIDE DEF g
<1>10. /\ DOMAIN games' = DOMAIN games /\ games'[i] = g
      /\ \A j \in DOMAIN games \ {i} : games'[j] = games[j]
  BY <1>1
<1>11. Moves(games, games', i, g, p)
  BY <1>1, <1>2, <1>3, <1>10 DEF Moves
<1>12. Moved(games, games', g, p)
  BY <1>11, ReplaceMaps
<1>4. /\ \A u \in Peers \ {p} : HostIn(games')[u] = HostIn(games)[u]
      /\ HostIn(games')[p] = h
      /\ WaitingIn(games') = WaitingIn(games) \cup {p}
  BY <1>3, <1>12 DEF Moved
<1> HIDE DEF h
<1>5. HostOf' = [u \in Peers |-> IF u = p THEN h ELSE HostOf[u]]
  BY <1>4, HostTyped, MappedByGames
<1>6. [HostOf EXCEPT ![p] = h] = [u \in Peers |-> IF u = p THEN h ELSE HostOf[u]]
  BY DEF HostOf
<1>7. HostOf[p] = Nobody
  BY <1>1, <1>2, HostFacts, MappedByGames
<1>8. HostOf[h] = h
  BY <1>1, GuestFacts, MappedByGames DEF h
<1>9. QED BY <1>3, <1>4, <1>5, <1>6, <1>7, <1>8, MappedByGames DEF Abstract!Ask, h

\* APPROVE.
LEMMA AsAdmit ==
  ASSUME IInv, IInv', NEW i \in DOMAIN games, NEW q \in games[i].pending,
         games' = [games EXCEPT ![i] =
                     [games[i] EXCEPT !.pending = @ \ {q}, !.joined = @ \cup {q}]],
         Called' = {}
  PROVE  q \in Peers /\ Abstract!Admit(q)
<1> DEFINE g == [games[i] EXCEPT !.pending = @ \ {q}, !.joined = @ \cup {q}]
<1>1. Rooms(games) /\ Rooms(games') /\ games' = [games EXCEPT ![i] = g]
  BY BeforeAndAfter
<1>2. /\ q \in Peers /\ q \in Players(games[i])
      /\ \A j \in DOMAIN games : q \in Players(games[j]) => j = i
  BY <1>1, RoomFacts, OneGame DEF Players, Rooms
<1>3. games[i] \in Game /\ q # games[i].creator
  BY <1>1, RoomFacts DEF Rooms
<1>4. /\ g \in Game /\ g.creator = games[i].creator
      /\ g.joined = games[i].joined \cup {q} /\ g.pending = games[i].pending \ {q}
  BY <1>2, <1>3 DEF Game
<1> HIDE DEF g
<1>10. /\ DOMAIN games' = DOMAIN games /\ games'[i] = g
      /\ \A j \in DOMAIN games \ {i} : games'[j] = games[j]
  BY <1>1
<1>11. Moves(games, games', i, g, q)
  BY <1>1, <1>2, <1>3, <1>4, <1>10 DEF Moves
<1>12. Moved(games, games', g, q)
  BY <1>11, ReplaceMaps
<1>5. /\ \A u \in Peers \ {q} : HostIn(games')[u] = HostIn(games)[u]
      /\ HostIn(games')[q] = games[i].creator
      /\ WaitingIn(games') = WaitingIn(games) \ {q}
  BY <1>2, <1>4, <1>12 DEF Moved
<1>6. HostIn(games)[q] = games[i].creator
  BY <1>1, <1>2, HostFacts
<1>7. HostIn(games') = HostIn(games)
  BY <1>5, <1>6, SameHosts
<1>8. q \in Waiting
  BY DEF Waiting
<1>9. QED BY <1>2, <1>5, <1>7, <1>8, MappedByGames DEF Abstract!Admit

\* START: those told are among the host and its only admitted guest.
LEMMA AsStart ==
  ASSUME IInv, IInv', NEW p, NEW q, StartsWith(p, q)
  PROVE  p \in Peers /\ Abstract!Start(p)
<1>1. PICK i \in DOMAIN games :
         games[i].creator = p /\ games[i].joined = {q} /\ games' = RemoveAt(games, i)
  BY DEF StartsWith
<1>2. /\ HostOf[p] = p /\ Abstract!Admitted(p) = {q}
      /\ Abstract!Release({p} \cup Abstract!Guests(p))
  BY <1>1, AsRelease
<1>3. Called' \subseteq {p, q}
  <2>1. \A x \in Peers : \A k \in DOMAIN sent'[x] : sent'[x][k].type = "Start" => x = p \/ x = q
    BY InOutbox DEF StartsWith
  <2>2. QED BY <2>1 DEF Called
<1>4. QED BY <1>2, <1>3 DEF Abstract!Start, StartsWith

\* The handlers that can touch the games, one by one, when they tell nobody START.
LEMMA AsMessage ==
  ASSUME IInv, IInv', NEW p \in Peers, NEW m \in ClientMsgs, Called' = {},
         ReceiveMessage(p, m), ~OnStart(p, m)
  PROVE  Abstract!LobbyNext
<1>1. CASE UNCHANGED games
  BY <1>1, AsRest DEF Abstract!LobbyNext
<1>2. CASE OnCreate(p, m) /\ ~UNCHANGED games
  <2> DEFINE g == [creator |-> p, joined |-> {}, pending |-> {}, limits |-> m.limits]
  <2>1. state[p] = "LoggedIn" /\ m.ok /\ games' = Append(games, g)
    BY <1>2 DEF OnCreate, DisconnectUser
  <2>2. m.limits \in Limits
    BY <1>2, <2>1 DEF OnCreate, ClientMsgs
  <2>3. g \in Game /\ g.creator = p /\ g.joined = {} /\ g.pending = {}
    BY <2>2 DEF Game
  <2> HIDE DEF g
  <2>4. Abstract!Open(p)
    BY <2>1, <2>3, AsOpen
  <2>5. QED BY <2>4 DEF Abstract!LobbyNext
<1>3. CASE OnJoin(p, m) /\ ~UNCHANGED games
  <2> DEFINE i == Min(CreatedByName(m.who))
  <2>1. /\ CreatedByName(m.who) # {} /\ state[p] = "LoggedIn"
        /\ games' = [games EXCEPT ![i] = [games[i] EXCEPT !.pending = @ \cup {p}]]
    BY <1>3 DEF OnJoin
  <2>2. i \in DOMAIN games
    BY <2>1, FindCreatedByName DEF IInv
  <2> HIDE DEF i
  <2>3. games[i].creator \in Peers /\ Abstract!Ask(p, games[i].creator)
    BY <2>1, <2>2, AsAsk
  <2>4. QED BY <2>3 DEF Abstract!LobbyNext
<1>4. CASE OnLeave(p, m)
  <2>1. PICK order : games' = RemoveUserFromAnyGames(p, order).games
    BY <1>4 DEF OnLeave
  <2>2. Abstract!Close(p) \/ Abstract!Go(p) \/ Abstract!Rest
    BY <2>1, AsRemoval
  <2>3. QED BY <2>2 DEF Abstract!LobbyNext
<1>5. CASE OnEject(p, m) /\ ~UNCHANGED games
  <2> DEFINE i == Min(CreatedBy(p))
  <2>1. CreatedBy(p) # {}
    BY <1>5 DEF OnEject
  <2>2. PICK q : /\ q \in games[i].pending \cup games[i].joined
                 /\ games' = [games EXCEPT ![i] = RemoveJoinedOrPending(games[i], q)]
    BY <1>5 DEF OnEject
  <2>3. i \in DOMAIN games
    BY <2>1, FindCreated DEF IInv
  <2> HIDE DEF i
  <2>4. q \in Peers /\ Abstract!Go(q)
    BY <2>2, <2>3, AsGo
  <2>5. QED BY <2>4 DEF Abstract!LobbyNext
<1>6. CASE OnApprove(p, m) /\ ~UNCHANGED games
  <2> DEFINE i == Min(CreatedBy(p))
  <2>1. CreatedBy(p) # {}
    BY <1>6 DEF OnApprove
  <2>2. PICK q \in games[i].pending :
           games' = [games EXCEPT ![i] =
                       [games[i] EXCEPT !.pending = @ \ {q}, !.joined = @ \cup {q}]]
    BY <1>6 DEF OnApprove
  <2>3. i \in DOMAIN games
    BY <2>1, FindCreated DEF IInv
  <2> HIDE DEF i
  <2>4. q \in Peers /\ Abstract!Admit(q)
    BY <2>2, <2>3, AsAdmit
  <2>5. QED BY <2>4 DEF Abstract!LobbyNext
<1>7. CASE BadMessage(p, m) \/ Ignored(p, m) \/ OnVersion(p, m) \/ OnLocalIP(p, m) \/ OnLogin(p, m)
  <2>1. UNCHANGED games
    BY <1>7 DEF BadMessage, Ignored, OnVersion, OnLocalIP, OnLogin, DisconnectUser
  <2>2. QED BY <1>1, <2>1
<1>8. QED BY <1>1, <1>2, <1>3, <1>4, <1>5, <1>6, <1>7 DEF ReceiveMessage

LEMMA LobbyStep == IInv /\ IInv' /\ [Next]_vars => [Abstract!LobbyNext]_(Abstract!lobbyVars)
<1> SUFFICES ASSUME IInv, IInv', [Next]_vars
             PROVE  [Abstract!LobbyNext]_(Abstract!lobbyVars)
  OBVIOUS
<1>1. CASE UNCHANGED vars
  <2>1. games' = games /\ sent' = sent
    BY <1>1 DEF vars
  <2>2. HostOf' = HostOf /\ Waiting' = Waiting /\ Called' = Called
    BY <2>1, MappedByGames DEF Called
  <2>3. QED BY <2>2 DEF Abstract!lobbyVars
<1>2. ASSUME NEW p \in Peers, NewConnection(p) PROVE Abstract!LobbyNext
  <2>1. Called' = {} /\ UNCHANGED games
    BY <1>2, OthersAreSilent, NobodyCalled DEF NewConnection
  <2>2. QED BY <2>1, AsRest DEF Abstract!LobbyNext
<1>3. ASSUME NEW p \in Peers, LostConnection(p) PROVE Abstract!LobbyNext
  <2>1. Called' = {}
    BY <1>3, OthersAreSilent, NobodyCalled
  <2>2. PICK order : games' = RemoveUserFromAnyGames(p, order).games
    BY <1>3 DEF LostConnection
  <2>3. Abstract!Close(p) \/ Abstract!Go(p) \/ Abstract!Rest
    BY <2>1, <2>2, AsRemoval
  <2>4. QED BY <2>3 DEF Abstract!LobbyNext
<1>4. ASSUME NEW p \in Peers, NEW m \in ClientMsgs, ReceiveMessage(p, m)
      PROVE  Abstract!LobbyNext
  <2>1. CASE OnStart(p, m)
    <3>1. CASE UNCHANGED games /\ SilentBox(sent')
      <4>1. Called' = {}
        BY <3>1, NobodyCalled
      <4>2. QED BY <3>1, <4>1, AsRest DEF Abstract!LobbyNext
    <3>2. CASE \E q \in Peers : StartsWith(p, q)
      <4>1. Abstract!Start(p)
        BY <3>2, AsStart
      <4>2. QED BY <4>1 DEF Abstract!LobbyNext
    <3>3. QED BY <2>1, <3>1, <3>2, StartStep
  <2>2. CASE ~OnStart(p, m)
    <3>1. Called' = {}
      BY <1>4, <2>2, OthersAreSilent, NobodyCalled
    <3>2. QED BY <1>4, <2>2, <3>1, AsMessage
  <2>3. QED BY <2>1, <2>2
<1>5. QED BY <1>1, <1>2, <1>3, <1>4 DEF Next

\* Whatever the clients send and whenever they vanish, each event of the server is one
\* step of the lobby, for any number of clients.
THEOREM ImplementsLobbyHolds == Spec => ImplementsLobby
<1>1. Init => Abstract!LobbyInit
  <2> SUFFICES ASSUME Init PROVE Abstract!LobbyInit
    OBVIOUS
  <2>1. DOMAIN games = {}
    BY DEF Init
  <2>2. HostOf = [u \in Peers |-> Nobody] /\ Waiting = {}
    BY <2>1 DEF HostOf, RoomOf, Waiting
  <2>3. Called = {}
    BY DEF Called, Init, Quiet
  <2>4. QED BY <2>2, <2>3 DEF Abstract!LobbyInit
<1>2. IInv /\ [Next]_vars => IInv'
  BY NextFits
<1>3. QED BY <1>1, <1>2, InitFits, LobbyStep, PTL DEF Spec, ImplementsLobby, Abstract!LobbySpec
=============================================================================
