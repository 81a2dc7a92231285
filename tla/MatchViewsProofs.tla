-------------------------- MODULE MatchViewsProofs --------------------------
(***************************************************************************)
(* Proofs about MatchViews, for any number of clients and names: the list  *)
(* of players, the list of games and the room a client shows are what the  *)
(* server has, in every state.                                             *)
(*                                                                         *)
(* The server changes a game, a state or a name in one place and tells the *)
(* clients in others, several times in one event.  What one client makes   *)
(* of all of that is followed outbox by outbox.                            *)
(***************************************************************************)
EXTENDS MatchViews, ServerLobbyProofs

-----------------------------------------------------------------------------
(***************************************************************************)
(* Hearing one message after the other.                                    *)
(***************************************************************************)
\* h is what a client makes of s, message by message.
Hears(h, n, v, s) ==
    /\ DOMAIN h = 0..Len(s)
    /\ h[0] = v
    /\ \A k \in 1..Len(s) : h[k] = Hear(n, h[k - 1], s[k])

LEMMA HearAllFacts ==
  ASSUME NEW n, NEW v, NEW s, Len(s) \in Nat
  PROVE  \E h : Hears(h, n, v, s) /\ HearAll(n, v, s) = h[Len(s)]
<1> DEFINE l == Len(s)
           IsIt(f, j) == f = [k \in 0..j |-> IF k = 0 THEN v ELSE Hear(n, f[k - 1], s[k])]
           heard[k \in 0..l] == IF k = 0 THEN v ELSE Hear(n, heard[k - 1], s[k])
<1>1. HearAll(n, v, s) = heard[l]
  BY DEF HearAll
<1>2. \E f : IsIt(f, l)
  <2> DEFINE T == {j \in Nat : \E f : IsIt(f, j)}
  <2>1. 0 \in T
    <3>1. IsIt([k \in 0..0 |-> v], 0)
      OBVIOUS
    <3>2. QED BY <3>1
  <2>2. ASSUME NEW j \in Nat, j \in T PROVE j + 1 \in T
    <3>1. PICK f : IsIt(f, j)
      BY <2>2
    <3> DEFINE h == [k \in 0..(j + 1) |-> IF k = j + 1 THEN Hear(n, f[j], s[j + 1]) ELSE f[k]]
    <3>2. IsIt(h, j + 1)
      <4>1. \A k \in 0..j : f[k] = IF k = 0 THEN v ELSE Hear(n, f[k - 1], s[k])
        BY <3>1
      <4>2. ASSUME NEW k \in 0..(j + 1)
            PROVE  h[k] = IF k = 0 THEN v ELSE Hear(n, h[k - 1], s[k])
        <5>1. CASE k = j + 1
          <6>1. k # 0 /\ k - 1 = j /\ j \in 0..(j + 1) /\ j # j + 1
            BY <5>1
          <6>2. h[k] = Hear(n, f[j], s[j + 1]) /\ h[j] = f[j]
            BY <5>1, <6>1
          <6>3. QED BY <5>1, <6>1, <6>2
        <5>2. CASE k # j + 1
          <6>1. k \in 0..j /\ h[k] = f[k] /\ k # 0 => h[k - 1] = f[k - 1]
            BY <5>2
          <6>2. QED BY <4>1, <6>1
        <5>3. QED BY <5>1, <5>2
      <4>3. QED BY <4>2
    <3> HIDE DEF h, IsIt
    <3>3. QED BY <3>2
  <2> HIDE DEF T
  <2>3. Nat \subseteq T
    BY <2>1, <2>2, SetInduction
  <2>4. QED BY <2>3 DEF T
<1>3. IsIt(heard, l)
  <2>1. heard = CHOOSE f : IsIt(f, l)
    OBVIOUS
  <2> HIDE DEF heard, IsIt
  <2>2. QED BY <1>2, <2>1
<1> HIDE DEF heard
<1>4. /\ DOMAIN heard = 0..l /\ heard[0] = v
      /\ \A k \in 1..l : heard[k] = Hear(n, heard[k - 1], s[k])
  <2>1. \A k \in 0..l : heard[k] = IF k = 0 THEN v ELSE Hear(n, heard[k - 1], s[k])
    BY <1>3
  <2>2. DOMAIN heard = 0..l
    BY <1>3
  <2>3. QED BY <2>1, <2>2
<1> HIDE DEF IsIt
<1>5. Hears(heard, n, v, s)
  BY <1>4 DEF Hears
<1>6. QED BY <1>1, <1>5

\* It makes one thing of them.
LEMMA HearsOne ==
  ASSUME NEW n, NEW v, NEW s, Len(s) \in Nat, NEW g, Hears(g, n, v, s)
  PROVE  HearAll(n, v, s) = g[Len(s)]
<1>1. PICK h : Hears(h, n, v, s) /\ HearAll(n, v, s) = h[Len(s)]
  BY HearAllFacts
<1> DEFINE T == {j \in Nat : j <= Len(s) => g[j] = h[j]}
<1>2. 0 \in T
  BY <1>1 DEF Hears
<1>3. ASSUME NEW j \in Nat, j \in T PROVE j + 1 \in T
  <2>1. CASE j + 1 <= Len(s)
    <3>1. j + 1 \in 1..Len(s) /\ (j + 1) - 1 = j /\ g[j] = h[j]
      BY <1>3, <2>1
    <3>2. QED BY <1>1, <3>1 DEF Hears
  <2>2. QED BY <2>1
<1> HIDE DEF T
<1>4. Nat \subseteq T
  BY <1>2, <1>3, SetInduction
<1>5. QED BY <1>1, <1>4 DEF T

LEMMA HearNothing == ASSUME NEW n, NEW v PROVE HearAll(n, v, <<>>) = v
<1>1. Len(<<>>) = 0
  BY EmptySeq
<1>2. Hears([k \in 0..0 |-> v], n, v, <<>>)
  BY <1>1 DEF Hears
<1>3. QED BY <1>1, <1>2, HearsOne

LEMMA HearOne == ASSUME NEW n, NEW v, NEW m PROVE HearAll(n, v, <<m>>) = Hear(n, v, m)
<1>1. Len(<<m>>) = 1 /\ <<m>>[1] = m
  OBVIOUS
<1> DEFINE g == [k \in 0..1 |-> IF k = 0 THEN v ELSE Hear(n, v, m)]
<1>2. Hears(g, n, v, <<m>>)
  BY <1>1 DEF Hears
<1>3. QED BY <1>1, <1>2, HearsOne

LEMMA HearBoth ==
  ASSUME NEW n, NEW v, NEW S, NEW s \in Seq(S), NEW t \in Seq(S)
  PROVE  HearAll(n, v, s \o t) = HearAll(n, HearAll(n, v, s), t)
<1> DEFINE u == s \o t
           a == Len(s)
           b == Len(t)
<1>1. /\ a \in Nat /\ b \in Nat /\ Len(u) = a + b
      /\ \A i \in 1..(a + b) : u[i] = IF i <= a THEN s[i] ELSE t[i - a]
  BY LenProperties, ConcatProperties
<1>2. PICK f : Hears(f, n, v, s) /\ HearAll(n, v, s) = f[a]
  BY <1>1, HearAllFacts
<1>3. PICK g : Hears(g, n, f[a], t) /\ HearAll(n, f[a], t) = g[b]
  BY <1>1, HearAllFacts
<1> HIDE DEF u, a, b
<1> DEFINE h == [k \in 0..(a + b) |-> IF k <= a THEN f[k] ELSE g[k - a]]
<1>4. /\ DOMAIN f = 0..a /\ f[0] = v /\ \A k \in 1..a : f[k] = Hear(n, f[k - 1], s[k])
      /\ DOMAIN g = 0..b /\ g[0] = f[a] /\ \A k \in 1..b : g[k] = Hear(n, g[k - 1], t[k])
  BY <1>2, <1>3 DEF Hears, a, b
<1>5. Hears(h, n, v, u)
  <2>1. h[0] = v
    BY <1>1, <1>4
  <2>2. ASSUME NEW k \in 1..(a + b) PROVE h[k] = Hear(n, h[k - 1], u[k])
    <3>1. CASE k <= a
      <4>1. k \in 1..a /\ u[k] = s[k] /\ h[k] = f[k] /\ h[k - 1] = f[k - 1]
        BY <1>1, <3>1
      <4>2. QED BY <1>4, <4>1
    <3>2. CASE ~(k <= a)
      <4>1. k - a \in 1..b /\ u[k] = t[k - a] /\ h[k] = g[k - a]
        BY <1>1, <3>2
      <4>2. h[k - 1] = g[(k - a) - 1]
        BY <1>1, <1>4, <3>2
      <4>3. QED BY <1>4, <4>1, <4>2
    <3>3. QED BY <3>1, <3>2
  <2>3. QED BY <1>1, <2>1, <2>2 DEF Hears
<1>6. h[a + b] = g[b]
  <2>1. a + b \in 0..(a + b) /\ (a + b) - a = b /\ (a + b <= a => b = 0)
    BY <1>1
  <2>2. h[a + b] = IF a + b <= a THEN f[a + b] ELSE g[b]
    BY <2>1
  <2>3. b = 0 => a + b = a
    BY <1>1
  <2>4. QED BY <1>4, <2>1, <2>2, <2>3
<1> HIDE DEF h
<1>7. HearAll(n, v, u) = g[b]
  BY <1>1, <1>5, <1>6, HearsOne
<1>8. QED BY <1>2, <1>3, <1>7 DEF u

\* Behind a START nothing is heard.
LEMMA HearNoMore ==
  ASSUME NEW n, NEW v, v.left, NEW s, Len(s) \in Nat
  PROVE  HearAll(n, v, s) = v
<1> DEFINE g == [k \in 0..Len(s) |-> v]
<1>1. \A m : Hear(n, v, m) = v
  BY DEF Hear
<1>2. Hears(g, n, v, s)
  BY <1>1 DEF Hears
<1>3. QED BY <1>2, HearsOne
-----------------------------------------------------------------------------
(***************************************************************************)
(* Hearing an outbox.                                                      *)
(***************************************************************************)
\* What the client of slot p, of name n, makes of what is queued for it.
Sees(n, p, v, out) == HearAll(n, v, out[p])

LEMMA SeesQuiet == ASSUME NEW n, NEW p \in Peers, NEW v PROVE Sees(n, p, v, Quiet) = v
  BY HearNothing DEF Sees, Quiet

LEMMA SeesBoth ==
  ASSUME NEW n, NEW p \in Peers, NEW v, NEW a, Outbox(a), NEW b, Outbox(b)
  PROVE  Sees(n, p, v, a ++ b) = Sees(n, p, Sees(n, p, v, a), b)
<1> DEFINE s == a[p]
           t == b[p]
           S == ToSet(s) \cup ToSet(t)
<1>1. s \in Seq(ToSet(s)) /\ t \in Seq(ToSet(t)) /\ (a ++ b)[p] = s \o t
  BY DEF Outbox, ++
<1>2. s \in Seq(S) /\ t \in Seq(S)
  BY <1>1, SeqMonotonic
<1> HIDE DEF s, t, S
<1>3. HearAll(n, v, s \o t) = HearAll(n, HearAll(n, v, s), t)
  BY <1>2, HearBoth
<1>4. QED BY <1>1, <1>3 DEF Sees, s, t

LEMMA SeesOne ==
  ASSUME NEW n, NEW p \in Peers, link[p] = "up", NEW v, NEW S, NEW m
  PROVE  Sees(n, p, v, SendTo(S, m)) = IF p \in S THEN Hear(n, v, m) ELSE v
<1>1. SendTo(S, m)[p] = IF p \in S THEN <<m>> ELSE <<>>
  BY DEF SendTo
<1>2. QED BY <1>1, HearNothing, HearOne DEF Sees

LEMMA SeesNoMore ==
  ASSUME NEW n, NEW p \in Peers, NEW v, v.left, NEW a, Outbox(a)
  PROVE  Sees(n, p, v, a) = v
<1> DEFINE s == a[p]
<1>1. s \in Seq(ToSet(s))
  BY DEF Outbox
<1> HIDE DEF s
<1>2. Len(s) \in Nat
  BY <1>1, LenProperties
<1>3. HearAll(n, v, s) = v
  BY <1>2, HearNoMore
<1>4. QED BY <1>3 DEF Sees, s

GamesFor(gs, nm) == [i \in DOMAIN gs |-> nm[gs[i].creator]]
PlayersFor(st, nm) == {nm[p] : p \in ActivePlayers(st)}

LEMMA SeesGames ==
  ASSUME NEW n, NEW p \in Peers, link[p] = "up", NEW v, ~v.left, NEW st, NEW gs
  PROVE  Sees(n, p, v, BroadcastOpenGames(st, gs))
           = IF p \in ActivePlayers(st) THEN [v EXCEPT !.games = GamesFor(gs, name)] ELSE v
<1> DEFINE m == [type |-> "GamesOpen", list |-> GamesFor(gs, name)]
<1>1. m.type = "GamesOpen" /\ m.list = GamesFor(gs, name)
  OBVIOUS
<1>2. BroadcastOpenGames(st, gs) = SendTo(ActivePlayers(st), m)
  BY DEF BroadcastOpenGames, GamesFor
<1> HIDE DEF m
<1>3. Hear(n, v, m) = [v EXCEPT !.games = GamesFor(gs, name)]
  BY <1>1 DEF Hear
<1>4. QED BY <1>2, <1>3, SeesOne

Listed(v, st, nm, gs) ==
    [[v EXCEPT !.players = PlayersFor(st, nm)] EXCEPT !.games = GamesFor(gs, name)]

LEMMA SeesLists ==
  ASSUME NEW n, NEW p \in Peers, link[p] = "up", NEW v, ~v.left, NEW st, NEW nm, NEW gs
  PROVE  Sees(n, p, v, BroadcastActiveUsers(st, nm, gs))
           = IF p \in ActivePlayers(st) THEN Listed(v, st, nm, gs) ELSE v
<1> DEFINE m == [type |-> "PlayersActive", list |-> PlayersFor(st, nm)]
           w == [v EXCEPT !.players = PlayersFor(st, nm)]
           a == SendTo(ActivePlayers(st), m)
           b == BroadcastOpenGames(st, gs)
<1>1. m.type = "PlayersActive" /\ m.list = PlayersFor(st, nm)
  OBVIOUS
<1>2. BroadcastActiveUsers(st, nm, gs) = a ++ b
  BY DEF BroadcastActiveUsers, PlayersFor
<1>3. Outbox(a) /\ Outbox(b)
  BY SendFacts, BroadcastsAreSilent DEF SilentBox
<1> HIDE DEF m
<1>4. Hear(n, v, m) = w
  BY <1>1 DEF Hear
<1>5. Sees(n, p, v, a) = IF p \in ActivePlayers(st) THEN w ELSE v
  BY <1>4, SeesOne
<1>6. w.left = v.left
  OBVIOUS
<1> HIDE DEF a, b, w
<1>7. Sees(n, p, v, a ++ b) = Sees(n, p, Sees(n, p, v, a), b)
  BY <1>3, SeesBoth
<1>8. /\ Sees(n, p, v, b) = IF p \in ActivePlayers(st) THEN [v EXCEPT !.games = GamesFor(gs, name)] ELSE v
      /\ Sees(n, p, w, b) = IF p \in ActivePlayers(st) THEN [w EXCEPT !.games = GamesFor(gs, name)] ELSE w
  BY <1>6, SeesGames DEF b
<1>9. QED BY <1>2, <1>5, <1>7, <1>8 DEF w, Listed

LEMMA SeesInfo ==
  ASSUME NEW n, NEW p \in Peers, link[p] = "up", NEW v, ~v.left, NEW g
  PROVE  Sees(n, p, v, SendInfoToAll(g))
           = IF p \in Players(g) THEN [v EXCEPT !.room = FullInfo(g)] ELSE v
<1> DEFINE m == [type |-> "GameInfo", info |-> FullInfo(g)]
<1>1. m.type = "GameInfo" /\ m.info = FullInfo(g)
  OBVIOUS
<1>2. SendInfoToAll(g) = SendTo(Players(g), m)
  BY DEF SendInfoToAll
<1> HIDE DEF m
<1>3. Hear(n, v, m) = [v EXCEPT !.room = FullInfo(g)]
  BY <1>1 DEF Hear
<1>4. QED BY <1>2, <1>3, SeesOne

\* LEAVE and EJECT empty the room; JOIN, APPROVE and LOGIN change no list and no room.
LEMMA SeesOver ==
  ASSUME NEW n, NEW p \in Peers, link[p] = "up", NEW v, ~v.left, NEW S, NEW m,
         m.type \in {"Leave", "Eject"}
  PROVE  Sees(n, p, v, SendTo(S, m)) = IF p \in S THEN [v EXCEPT !.room = NoRoom] ELSE v
<1>1. Hear(n, v, m) = [v EXCEPT !.room = NoRoom]
  BY DEF Hear
<1>2. QED BY <1>1, SeesOne

LEMMA SeesNothing ==
  ASSUME NEW n, NEW p \in Peers, link[p] = "up", NEW v, NEW S, NEW m,
         m.type \in {"Join", "Approve", "Login"}
  PROVE  Sees(n, p, v, SendTo(S, m)) = v
<1>1. Hear(n, v, m) = v
  BY DEF Hear
<1>2. QED BY <1>1, SeesOne
-----------------------------------------------------------------------------
(***************************************************************************)
(* The players of a game are released each once, in any order.             *)
(***************************************************************************)
LEMMA AllInOrder ==
  ASSUME NEW S \in SUBSET Peers, NEW s \in SetToSeqs(S)
  PROVE  s \in Seq(Peers) /\ {s[j] : j \in 1..Len(s)} = S
<1> DEFINE D == 1..Cardinality(S)
           R == {s[j] : j \in D}
<1>1. IsFiniteSet(S) /\ Cardinality(S) \in Nat
  BY PeersAssumption, FS_Subset, FS_CardinalityType
<1>2. s \in [D -> S] /\ \A i, j \in D : i # j => s[i] # s[j]
  BY DEF SetToSeqs
<1>3. s \in [D -> R]
  BY <1>2
<1>4. s \in Bijection(D, R)
  BY <1>2, <1>3 DEF Bijection, Injection, Surjection, IsInjective
<1>5. Cardinality(R) = Cardinality(S)
  BY <1>1, <1>4, FS_CountingElements DEF ExistsBijection
<1>6. R \in SUBSET S
  BY <1>2
<1>7. R = S
  BY <1>1, <1>5, <1>6, FS_Subset
<1>8. s \in Seq(Peers) /\ Len(s) = Cardinality(S)
  BY <1>1, <1>2, SeqDef, LenProperties
<1>9. QED BY <1>7, <1>8

LEMMA OrderReleases ==
  ASSUME Fit(games, state, name), NEW p, CreatedBy(p) # {}, NEW order \in RemovalOrders(p)
  PROVE  LET g == games[Min(CreatedBy(p))]
         IN  Len(order) \in Nat /\ {order[j] : j \in 1..Len(order)} = g.pending \cup g.joined
<1> DEFINE g == games[Min(CreatedBy(p))]
<1>1. g \in Game
  BY FindCreated, ElementOfSeq, LenProperties DEF Fit, Typed
<1>2. g.pending \in SUBSET Peers /\ g.joined \in SUBSET Peers
  BY <1>1 DEF Game
<1>3. order \in KillOrders(g)
  BY DEF RemovalOrders
<1> HIDE DEF g
<1>4. PICK s \in SetToSeqs(g.pending), t \in SetToSeqs(g.joined) : order = s \o t
  BY <1>3 DEF KillOrders
<1>5. /\ s \in Seq(Peers) /\ {s[j] : j \in 1..Len(s)} = g.pending
      /\ t \in Seq(Peers) /\ {t[j] : j \in 1..Len(t)} = g.joined
  BY <1>2, AllInOrder
<1>6. s \in Seq(ToSet(s)) /\ t \in Seq(ToSet(t))
  BY <1>5, OwnElements
<1>7. /\ order \in Seq(ToSet(order)) /\ ToSet(order) = ToSet(s) \cup ToSet(t)
  BY <1>4, <1>6, ConcatContents
<1>8. /\ ToSet(order) = {order[j] : j \in 1..Len(order)}
      /\ ToSet(s) = {s[j] : j \in 1..Len(s)} /\ ToSet(t) = {t[j] : j \in 1..Len(t)}
  BY <1>6, <1>7, ToSetFacts
<1>9. Len(order) \in Nat
  BY <1>7, LenProperties
<1>10. QED BY <1>5, <1>7, <1>8, <1>9 DEF g
-----------------------------------------------------------------------------
(***************************************************************************)
(* What a client should show.                                              *)
(***************************************************************************)
InfoOf(g, nm) == [creator |-> nm[g.creator],
                  joined  |-> {nm[p] : p \in g.joined},
                  pending |-> {nm[p] : p \in g.pending}]

RoomFor(c, gs, nm) ==
    IF \E i \in DOMAIN gs : c \in Players(gs[i])
    THEN InfoOf(gs[CHOOSE i \in DOMAIN gs : c \in Players(gs[i])], nm)
    ELSE NoRoom

UpPlayers(lk, st, nm) == {nm[q] : q \in {r \in ActivePlayers(st) : lk[r] = "up"}}
Leaving(lk, nm) == {nm[q] : q \in {r \in Peers : lk[r] = "closing"}}

PlayersRight(v, lk, st, nm) == v.players \ Leaving(lk, nm) = UpPlayers(lk, st, nm)

\* A slot is free exactly when it has no user, and who is kicked off hears nothing any more.
Linked(lk, st) ==
    \A p \in Peers : /\ lk[p] = "free" <=> st[p] = "NoUser"
                     /\ lk[p] = "up" => st[p] # "KickedOff"

Current(c, v, lk, st, nm, gs) ==
    /\ v.games = GamesFor(gs, nm)
    /\ PlayersRight(v, lk, st, nm)
    /\ v.room = RoomFor(c, gs, nm)

\* v is what the client of slot c shows when links, states, names and games are these.
Right(c, v, lk, st, nm, gs) ==
    /\ v \in Views
    /\ st[c] \in HandshakeStates => v = Fresh
    /\ st[c] \in ActiveStates /\ ~v.left => Current(c, v, lk, st, nm, gs)

ViewInv ==
    /\ Linked(link, state)
    /\ told \in [Peers -> Views]
    /\ \A c \in Peers : IF link[c] = "up" THEN Right(c, told[c], link, state, name, games)
                        ELSE told[c] = Fresh

LEMMA FreshIsView == Fresh \in Views /\ ~Fresh.left /\ NoRoom = Fresh.room
  BY EmptySeq DEF Fresh, Views, NoRoom

LEMMA UpdatedViews ==
  ASSUME NEW v \in Views
  PROVE  /\ \A x \in SUBSET Names :
               LET w == [v EXCEPT !.players = x]
               IN  /\ w \in Views /\ w.left = v.left /\ w.games = v.games /\ w.room = v.room
                   /\ w.players = x
         /\ \A x \in Seq(Names) :
               LET w == [v EXCEPT !.games = x]
               IN  /\ w \in Views /\ w.left = v.left /\ w.players = v.players /\ w.room = v.room
                   /\ w.games = x
         /\ \A x \in [creator : Names \cup {NoName}, joined : SUBSET Names,
                      pending : SUBSET Names] :
               LET w == [v EXCEPT !.room = x]
               IN  /\ w \in Views /\ w.left = v.left /\ w.players = v.players
                   /\ w.games = v.games /\ w.room = x
  BY DEF Views

LEMMA ListedFacts ==
  ASSUME NEW v \in Views, NEW st, NEW nm, NEW gs,
         PlayersFor(st, nm) \subseteq Names, GamesFor(gs, name) \in Seq(Names)
  PROVE  LET w == Listed(v, st, nm, gs)
         IN  /\ w \in Views /\ w.left = v.left /\ w.room = v.room
             /\ w.players = PlayersFor(st, nm) /\ w.games = GamesFor(gs, name)
<1> DEFINE x == [v EXCEPT !.players = PlayersFor(st, nm)]
           y == GamesFor(gs, name)
<1>1. x \in Views /\ x.left = v.left /\ x.room = v.room /\ x.players = PlayersFor(st, nm)
  BY UpdatedViews
<1>2. Listed(v, st, nm, gs) = [x EXCEPT !.games = y]
  BY DEF Listed
<1>3. y \in Seq(Names)
  OBVIOUS
<1> HIDE DEF x, y
<1>4. LET w == [x EXCEPT !.games = y]
      IN  w \in Views /\ w.left = x.left /\ w.players = x.players /\ w.room = x.room /\ w.games = y
  BY <1>1, <1>3, UpdatedViews
<1>5. QED BY <1>1, <1>2, <1>4 DEF y

Infos == [creator : Names \cup {NoName}, joined : SUBSET Names, pending : SUBSET Names]

LEMMA InfoTyped ==
  ASSUME NEW nm \in [Peers -> Names \cup {NoName}], NEW g \in Game,
         \A q \in Players(g) : nm[q] # NoName
  PROVE  InfoOf(g, nm) \in Infos
<1>1. \A q \in g.joined \cup g.pending : q \in Peers /\ nm[q] \in Names
  BY DEF Game, Players
<1>2. g.creator \in Peers
  BY DEF Game
<1>3. {nm[q] : q \in g.joined} \subseteq Names /\ {nm[q] : q \in g.pending} \subseteq Names
  BY <1>1
<1>4. QED BY <1>2, <1>3 DEF InfoOf, Infos

LEMMA ListsTyped ==
  ASSUME NEW gs, NEW st, NEW nm, Fit(gs, st, nm)
  PROVE  GamesFor(gs, nm) \in Seq(Names) /\ PlayersFor(st, nm) \subseteq Names
<1>1. gs \in Seq(Game)
  BY DEF Fit, Typed
<1>2. DOMAIN gs = 1..Len(gs) /\ Len(gs) \in Nat
  BY <1>1, LenProperties
<1>3. \A i \in DOMAIN gs : nm[gs[i].creator] \in Names
  <2> TAKE i \in DOMAIN gs
  <2>1. gs[i].creator \in Players(gs[i])
    BY DEF Players
  <2>2. gs[i].creator \in Peers /\ nm[gs[i].creator] # NoName
    BY <2>1, PlayerFacts
  <2>3. QED BY <2>2 DEF Fit, Typed
<1>4. GamesFor(gs, nm) \in [1..Len(gs) -> Names]
  BY <1>2, <1>3 DEF GamesFor
<1>5. GamesFor(gs, nm) \in Seq(Names)
  BY <1>2, <1>4, SeqDef
<1>6. PlayersFor(st, nm) \subseteq Names
  BY DEF PlayersFor, ActivePlayers, Fit, Typed, NamesFit
<1>7. QED BY <1>5, <1>6

\* The list of all active players, but for those about to go, is that of the players up.
LEMMA PlayersSplit ==
  ASSUME NEW gs, NEW st, NEW nm, Fit(gs, st, nm), NEW lk \in [Peers -> LinkStates],
         Linked(lk, st)
  PROVE  PlayersFor(st, nm) \ Leaving(lk, nm) = UpPlayers(lk, st, nm)
<1>1. \A q \in ActivePlayers(st) : lk[q] \in {"up", "closing"}
  BY DEF ActivePlayers, ActiveStates, Linked, LinkStates
<1>2. \A q \in ActivePlayers(st) : \A r \in Peers : nm[q] = nm[r] => q = r
  BY DEF ActivePlayers, Fit, NamesFit
<1>3. QED BY <1>1, <1>2 DEF PlayersFor, Leaving, UpPlayers, ActivePlayers
-----------------------------------------------------------------------------
(***************************************************************************)
(* The room of a client.                                                   *)
(***************************************************************************)
LEMMA RoomIs ==
  ASSUME NEW gs, Apart(gs), NEW nm, NEW i \in DOMAIN gs, NEW c, c \in Players(gs[i])
  PROVE  RoomFor(c, gs, nm) = InfoOf(gs[i], nm)
<1> DEFINE k == CHOOSE j \in DOMAIN gs : c \in Players(gs[j])
<1>1. k \in DOMAIN gs /\ c \in Players(gs[k])
  OBVIOUS
<1> HIDE DEF k
<1>2. k = i
  BY <1>1, OneGame
<1>3. QED BY <1>2 DEF RoomFor, k

LEMMA NoRoomIs ==
  ASSUME NEW gs, NEW nm, NEW c, \A i \in DOMAIN gs : c \notin Players(gs[i])
  PROVE  RoomFor(c, gs, nm) = NoRoom
  BY DEF RoomFor

\* A game goes: its players have no room, the others keep theirs.
LEMMA RoomWithout ==
  ASSUME NEW gs \in Seq(Game), Apart(gs), NEW nm, NEW i \in DOMAIN gs, Apart(RemoveAt(gs, i)),
         NEW c
  PROVE  RoomFor(c, RemoveAt(gs, i), nm) =
            IF c \in Players(gs[i]) THEN NoRoom ELSE RoomFor(c, gs, nm)
<1> DEFINE hs == RemoveAt(gs, i)
<1>1. /\ \A j \in DOMAIN hs : \E k \in DOMAIN gs \ {i} : hs[j] = gs[k]
      /\ \A k \in DOMAIN gs \ {i} : \E j \in DOMAIN hs : hs[j] = gs[k]
  BY RemoveAtFacts
<1> HIDE DEF hs
<1>2. CASE c \in Players(gs[i])
  <2>1. \A j \in DOMAIN hs : c \notin Players(hs[j])
    BY <1>1, <1>2, OneGame
  <2>2. QED BY <1>2, <2>1, NoRoomIs DEF hs
<1>3. CASE c \notin Players(gs[i])
  <2>1. CASE \E k \in DOMAIN gs : c \in Players(gs[k])
    <3>1. PICK k \in DOMAIN gs \ {i} : c \in Players(gs[k])
      BY <1>3, <2>1
    <3>2. PICK j \in DOMAIN hs : hs[j] = gs[k]
      BY <1>1
    <3>3. RoomFor(c, hs, nm) = InfoOf(hs[j], nm) /\ RoomFor(c, gs, nm) = InfoOf(gs[k], nm)
      BY <3>1, <3>2, RoomIs DEF hs
    <3>4. QED BY <1>3, <3>2, <3>3 DEF hs
  <2>2. CASE \A k \in DOMAIN gs : c \notin Players(gs[k])
    <3>1. \A j \in DOMAIN hs : c \notin Players(hs[j])
      BY <1>1, <2>2
    <3>2. RoomFor(c, hs, nm) = NoRoom /\ RoomFor(c, gs, nm) = NoRoom
      BY <2>2, <3>1, NoRoomIs
    <3>3. QED BY <1>3, <3>2 DEF hs
  <2>3. QED BY <2>1, <2>2
<1>4. QED BY <1>2, <1>3

\* A game becomes g: its players have that room, who left it has none, the others keep theirs.
LEMMA RoomWith ==
  ASSUME NEW gs, Apart(gs), NEW nm, NEW i \in DOMAIN gs, NEW g, Apart([gs EXCEPT ![i] = g]),
         NEW c
  PROVE  RoomFor(c, [gs EXCEPT ![i] = g], nm) =
            IF c \in Players(g) THEN InfoOf(g, nm)
            ELSE IF c \in Players(gs[i]) THEN NoRoom ELSE RoomFor(c, gs, nm)
<1> DEFINE hs == [gs EXCEPT ![i] = g]
<1>1. DOMAIN hs = DOMAIN gs /\ hs[i] = g /\ \A k \in DOMAIN gs \ {i} : hs[k] = gs[k]
  OBVIOUS
<1> HIDE DEF hs
<1>2. CASE c \in Players(g)
  BY <1>1, <1>2, RoomIs DEF hs
<1>3. CASE c \notin Players(g) /\ c \in Players(gs[i])
  <2>1. \A j \in DOMAIN hs : c \notin Players(hs[j])
    BY <1>1, <1>3, OneGame
  <2>2. QED BY <1>3, <2>1, NoRoomIs DEF hs
<1>4. CASE c \notin Players(g) /\ c \notin Players(gs[i])
  <2>1. CASE \E k \in DOMAIN gs : c \in Players(gs[k])
    <3>1. PICK k \in DOMAIN gs \ {i} : c \in Players(gs[k])
      BY <1>4, <2>1
    <3>2. RoomFor(c, hs, nm) = InfoOf(hs[k], nm) /\ RoomFor(c, gs, nm) = InfoOf(gs[k], nm)
      BY <1>1, <3>1, RoomIs DEF hs
    <3>3. QED BY <1>1, <1>4, <3>1, <3>2 DEF hs
  <2>2. CASE \A k \in DOMAIN gs : c \notin Players(gs[k])
    <3>1. \A j \in DOMAIN hs : c \notin Players(hs[j])
      BY <1>1, <1>4, <2>2
    <3>2. RoomFor(c, hs, nm) = NoRoom /\ RoomFor(c, gs, nm) = NoRoom
      BY <2>2, <3>1, NoRoomIs
    <3>3. QED BY <1>4, <3>2 DEF hs
  <2>3. QED BY <2>1, <2>2
<1>5. QED BY <1>2, <1>3, <1>4
-----------------------------------------------------------------------------
(***************************************************************************)
(* What the outboxes of the handlers show.                                 *)
(***************************************************************************)
\* A handler that ends with both lists leaves them right.
LEMMA ListsSeen ==
  ASSUME NEW n, NEW c \in Peers, link[c] = "up", NEW v \in Views, ~v.left,
         NEW gs, NEW st, NEW nm, Fit(gs, st, nm), GamesFor(gs, name) = GamesFor(gs, nm),
         NEW lk \in [Peers -> LinkStates], Linked(lk, st),
         NEW w, w = Sees(n, c, v, BroadcastActiveUsers(st, nm, gs))
  PROVE  /\ c \notin ActivePlayers(st) => w = v
         /\ w \in Views /\ ~w.left /\ w.room = v.room
         /\ c \in ActivePlayers(st) => w.games = GamesFor(gs, nm) /\ PlayersRight(w, lk, st, nm)
<1>1. PlayersFor(st, nm) \subseteq Names /\ GamesFor(gs, name) \in Seq(Names)
  BY ListsTyped
<1>2. w = IF c \in ActivePlayers(st) THEN Listed(v, st, nm, gs) ELSE v
  BY SeesLists
<1>3. c \in ActivePlayers(st) =>
        /\ w \in Views /\ w.left = v.left /\ w.room = v.room /\ w.players = PlayersFor(st, nm)
        /\ w.games = GamesFor(gs, nm)
  BY <1>1, <1>2, ListedFacts
<1>4. PlayersFor(st, nm) \ Leaving(lk, nm) = UpPlayers(lk, st, nm)
  BY PlayersSplit
<1>5. QED BY <1>2, <1>3, <1>4 DEF PlayersRight

\* Players of a game that is closed become active, the ones kicked off with a link that closes.
LEMMA ReleasedPlayers ==
  ASSUME Fit(games, state, name), link \in [Peers -> LinkStates], Linked(link, state),
         NEW i \in DOMAIN games, NEW S, S \subseteq games[i].pending \cup games[i].joined
  PROVE  /\ \A q \in ActivePlayers(LogInAll(state, S)) : name[q] \in Names
         /\ UpPlayers(link, LogInAll(state, S), name) = UpPlayers(link, state, name)
         /\ \A q \in Peers : link[q] = "up" =>
               (q \in ActivePlayers(LogInAll(state, S)) <=> q \in ActivePlayers(state))
<1> DEFINE st == LogInAll(state, S)
<1>1. \A q \in S : /\ q \in Peers /\ name[q] \in Names
                   /\ state[q] \in ActiveStates \cup {"KickedOff"}
  <2> TAKE q \in S
  <2>1. q \in Players(games[i])
    BY DEF Players
  <2>2. QED BY <2>1, PlayerFacts DEF Fit, Typed, ActiveStates
<1>2. \A q \in Peers : st[q] = IF q \in S THEN "LoggedIn" ELSE state[q]
  BY DEF LogInAll
<1>3. \A q \in Peers : link[q] = "up" =>
               (q \in ActivePlayers(st) <=> q \in ActivePlayers(state))
  BY <1>1, <1>2 DEF Linked, ActivePlayers, ActiveStates
<1>4. \A q \in ActivePlayers(st) : name[q] \in Names
  BY <1>1, <1>2 DEF Fit, Typed, NamesFit, ActivePlayers
<1> HIDE DEF st
<1>5. UpPlayers(link, st, name) = UpPlayers(link, state, name)
  BY <1>3 DEF UpPlayers, ActivePlayers
<1>6. QED BY <1>3, <1>4, <1>5 DEF st

\* KillGame: every list on the way names the players that are up, whoever was released by then.
LEMMA ReleaseSeen ==
  ASSUME Fit(games, state, name), link \in [Peers -> LinkStates], Linked(link, state),
         NEW i \in DOMAIN games, NEW order, NEW k,
         {order[j] : j \in 1..k} \subseteq games[i].pending \cup games[i].joined,
         NEW n, NEW c \in Peers, link[c] = "up", NEW v \in Views, ~v.left,
         NEW w, w = Sees(n, c, v, Release(games[i], order, k))
  PROVE  /\ w \in Views /\ ~w.left
         /\ w.room = IF c = order[k] THEN NoRoom ELSE v.room
         /\ PlayersRight(v, link, state, name) => PlayersRight(w, link, state, name)
         /\ c \notin ActivePlayers(state) /\ c # order[k] => w = v
<1> DEFINE st == Released(order, k)
           m == [type |-> "Eject", who |-> name[games[i].creator]]
           a == BroadcastActiveUsers(st, name, games)
           b == SendTo({order[k]}, m)
           u == Sees(n, c, v, a)
<1>1. m.type \in {"Leave", "Eject"}
  OBVIOUS
<1>2. /\ \A q \in ActivePlayers(st) : name[q] \in Names
      /\ UpPlayers(link, st, name) = UpPlayers(link, state, name)
      /\ c \in ActivePlayers(st) <=> c \in ActivePlayers(state)
  BY ReleasedPlayers DEF Released
<1>3. PlayersFor(st, name) \subseteq Names /\ GamesFor(games, name) \in Seq(Names)
  BY <1>2, ListsTyped DEF PlayersFor
<1>4. u = IF c \in ActivePlayers(st) THEN Listed(v, st, name, games) ELSE v
  BY SeesLists
<1>6. /\ u \in Views /\ ~u.left /\ u.room = v.room
      /\ c \in ActivePlayers(st) => u.players = PlayersFor(st, name)
      /\ c \notin ActivePlayers(st) => u = v
  BY <1>3, <1>4, ListedFacts
<1>7. PlayersFor(st, name) \ Leaving(link, name) = UpPlayers(link, state, name)
  <2>1. \A q \in ActivePlayers(st) : link[q] \in {"up", "closing"}
    <3>1. {order[j] : j \in 1..k} \subseteq Players(games[i])
      BY DEF Players
    <3>2. \A q \in {order[j] : j \in 1..k} : state[q] # "NoUser" /\ q \in Peers
      BY <3>1, PlayerFacts
    <3>3. \A q \in ActivePlayers(st) : state[q] # "NoUser" /\ q \in Peers
      BY <3>2 DEF ActivePlayers, Released, LogInAll, ActiveStates
    <3>4. QED BY <3>3 DEF Linked, LinkStates
  <2>2. \A q \in ActivePlayers(st) : \A r \in Peers : name[q] = name[r] => q = r
    BY <1>2, NoNameAssumption DEF Fit, NamesFit, ActivePlayers
  <2>3. PlayersFor(st, name) \ Leaving(link, name) = UpPlayers(link, st, name)
    BY <2>1, <2>2 DEF PlayersFor, Leaving, UpPlayers, ActivePlayers
  <2>4. QED BY <1>2, <2>3
<1>8. PlayersRight(v, link, state, name) => PlayersRight(u, link, state, name)
  BY <1>6, <1>7 DEF PlayersRight
<1>9. Outbox(a) /\ Outbox(b) /\ Release(games[i], order, k) = a ++ b
  BY BroadcastsAreSilent, SendFacts DEF SilentBox, Release
<1> HIDE DEF m, a, b, st
<1>10. w = Sees(n, c, u, b)
  BY <1>9, SeesBoth
<1> HIDE DEF u
<1>11. w = IF c = order[k] THEN [u EXCEPT !.room = NoRoom] ELSE u
  BY <1>1, <1>6, <1>10, SeesOver DEF b
<1>12. NoRoom \in Infos
  BY DEF NoRoom, Infos
<1>13. LET y == [u EXCEPT !.room = NoRoom]
       IN  y \in Views /\ y.left = u.left /\ y.players = u.players /\ y.room = NoRoom
  BY <1>6, <1>12, UpdatedViews DEF Infos
<1>14. QED BY <1>2, <1>6, <1>8, <1>11, <1>13 DEF PlayersRight

LEMMA KillGameSeen ==
  ASSUME Fit(games, state, name), link \in [Peers -> LinkStates], Linked(link, state),
         NEW i \in DOMAIN games, NEW order, Len(order) \in Nat,
         {order[j] : j \in 1..Len(order)} = games[i].pending \cup games[i].joined,
         NEW n, NEW c \in Peers, link[c] = "up", NEW v \in Views, ~v.left,
         NEW w, w = Sees(n, c, v, KillGame(games[i], order))
  PROVE  /\ w \in Views /\ ~w.left
         /\ w.room = IF c \in games[i].pending \cup games[i].joined THEN NoRoom ELSE v.room
         /\ PlayersRight(v, link, state, name) => PlayersRight(w, link, state, name)
         /\ c \notin ActivePlayers(state) /\ c \notin games[i].pending \cup games[i].joined => w = v
<1> DEFINE l == Len(order)
           first(k) == {order[j] : j \in 1..k}
<1>1. PICK out : /\ KillGame(games[i], order) = out[l]
                 /\ out[0] = Quiet
                 /\ \A k \in 1..l : out[k] = out[k - 1] ++ Release(games[i], order, k)
  BY KillGameSteps
<1>2. \A k \in 1..l : Outbox(Release(games[i], order, k))
  BY BroadcastsAreSilent, SendFacts, JoinFacts DEF Release, SilentBox
<1> DEFINE u(k) == Sees(n, c, v, out[k])
           Good(k) ==
             /\ Outbox(out[k])
             /\ u(k) \in Views /\ ~u(k).left
             /\ u(k).room = IF c \in first(k) THEN NoRoom ELSE v.room
             /\ PlayersRight(v, link, state, name) => PlayersRight(u(k), link, state, name)
             /\ c \notin ActivePlayers(state) /\ c \notin first(k) => u(k) = v
           T == {k \in Nat : k <= l => Good(k)}
<1>3. 0 \in T
  <2>1. Outbox(out[0]) /\ u(0) = v
    BY <1>1, QuietIsSilent, SeesQuiet DEF SilentBox
  <2>2. first(0) = {}
    OBVIOUS
  <2>3. QED BY <2>1, <2>2
<1>4. ASSUME NEW k \in Nat, k \in T PROVE k + 1 \in T
  <2>1. CASE k + 1 <= l
    <3>1. k + 1 \in 1..l /\ (k + 1) - 1 = k /\ Good(k)
      BY <1>4, <2>1
    <3> HIDE DEF u
    <3>2. Outbox(out[k]) /\ out[k + 1] = out[k] ++ Release(games[i], order, k + 1)
      BY <1>1, <3>1
    <3>3. u(k + 1) = Sees(n, c, u(k), Release(games[i], order, k + 1))
      BY <1>2, <3>1, <3>2, SeesBoth DEF u
    <3>4. /\ first(k + 1) = first(k) \cup {order[k + 1]}
          /\ first(k + 1) \subseteq games[i].pending \cup games[i].joined
      <4>1. 1..(k + 1) = (1..k) \cup {k + 1}
        OBVIOUS
      <4>2. first(k + 1) \subseteq first(l)
        BY <3>1
      <4>3. QED BY <4>1, <4>2
    <3>5. Outbox(out[k + 1])
      BY <1>2, <3>1, <3>2, JoinFacts
    <3> HIDE DEF first
    <3>6. u(k) \in Views /\ ~u(k).left
      BY <3>1
    <3>7. /\ u(k + 1) \in Views /\ ~u(k + 1).left
          /\ u(k + 1).room = IF c = order[k + 1] THEN NoRoom ELSE u(k).room
          /\ PlayersRight(u(k), link, state, name) => PlayersRight(u(k + 1), link, state, name)
          /\ c \notin ActivePlayers(state) /\ c # order[k + 1] => u(k + 1) = u(k)
      BY <3>3, <3>4, <3>6, ReleaseSeen DEF first
    <3>8. Good(k + 1)
      BY <3>1, <3>4, <3>5, <3>7
    <3>9. QED BY <3>8
  <2>2. CASE ~(k + 1 <= l)
    BY <2>2
  <2>3. QED BY <2>1, <2>2
<1> HIDE DEF T
<1>5. Nat \subseteq T
  BY <1>3, <1>4, SetInduction
<1>6. Good(l)
  BY <1>5 DEF T
<1>7. u(l) = w
  BY <1>1
<1>8. QED BY <1>6, <1>7

\* The LEAVE that ends it.
LEMMA ByeSeen ==
  ASSUME NEW n, NEW c \in Peers, link[c] = "up", NEW v \in Views, ~v.left, NEW p \in Peers,
         NEW m, m.type \in {"Leave", "Eject"}
  PROVE  LET w == Sees(n, c, v, SendTo({p}, m))
         IN  /\ w \in Views /\ ~w.left /\ w.players = v.players /\ w.games = v.games
             /\ w.room = IF c = p THEN NoRoom ELSE v.room
             /\ c # p => w = v
<1>1. Sees(n, c, v, SendTo({p}, m)) = IF c \in {p} THEN [v EXCEPT !.room = NoRoom] ELSE v
  BY SeesOver
<1>2. NoRoom \in Infos
  BY DEF NoRoom, Infos
<1>3. LET y == [v EXCEPT !.room = NoRoom]
      IN  /\ y \in Views /\ y.left = v.left /\ y.players = v.players /\ y.games = v.games
          /\ y.room = NoRoom
  BY <1>2, UpdatedViews DEF Infos
<1>4. QED BY <1>1, <1>3

\* RemoveUserFromAnyGames: whoever is up shows the room it has afterwards.
LEMMA RemovalSeen ==
  ASSUME Fit(games, state, name), link \in [Peers -> LinkStates], Linked(link, state),
         NEW p \in Peers, NEW order \in RemovalOrders(p),
         Apart(RemoveUserFromAnyGames(p, order).games),
         NEW n, NEW c \in Peers, link[c] = "up", NEW v \in Views, ~v.left,
         v.room = RoomFor(c, games, name),
         NEW w, w = Sees(n, c, v, RemoveUserFromAnyGames(p, order).out)
  PROVE  /\ w \in Views /\ ~w.left
         /\ w.room = RoomFor(c, RemoveUserFromAnyGames(p, order).games, name)
         /\ CreatedBy(p) # {} /\ PlayersRight(v, link, state, name)
               => PlayersRight(w, link, state, name)
         /\ c # p /\ state[c] \in HandshakeStates => w = v
<1> DEFINE gone == RemoveUserFromAnyGames(p, order)
           m == [type |-> "Leave"]
           bye == SendTo({p}, m)
<1>1. games \in Seq(Game) /\ Apart(games) /\ NoRoom \in Infos
  BY DEF Fit, Typed, NoRoom, Infos
<1>2. Outbox(bye)
  BY SendFacts
<1>3. ASSUME NEW u \in Views, ~u.left
      PROVE  LET x == Sees(n, c, u, bye)
             IN  /\ x \in Views /\ ~x.left /\ x.players = u.players
                 /\ x.room = IF c = p THEN NoRoom ELSE u.room
                 /\ c # p => x = u
  <2>1. m.type \in {"Leave", "Eject"}
    OBVIOUS
  <2> HIDE DEF m
  <2>2. QED BY <1>3, <2>1, ByeSeen
<1> HIDE DEF bye
<1>4. \A i \in DOMAIN games : c \in Players(games[i]) => state[c] \notin HandshakeStates
  BY PlayerFacts DEF HandshakeStates
<1>5. CASE CreatedBy(p) # {}
  <2> DEFINE i == Min(CreatedBy(p))
             a == KillGame(games[i], order)
             u == Sees(n, c, v, a)
  <2>1. i \in DOMAIN games /\ games[i].creator = p
    BY <1>5, FindCreated
  <2>2. Len(order) \in Nat /\ {order[j] : j \in 1..Len(order)} = games[i].pending \cup games[i].joined
    BY <1>5, OrderReleases
  <2>3. gone.games = RemoveAt(games, i) /\ gone.out = a ++ bye
    BY <1>5 DEF RemoveUserFromAnyGames, bye
  <2> HIDE DEF i
  <2>4. /\ u \in Views /\ ~u.left
        /\ u.room = IF c \in games[i].pending \cup games[i].joined THEN NoRoom ELSE v.room
        /\ PlayersRight(v, link, state, name) => PlayersRight(u, link, state, name)
        /\ c \notin ActivePlayers(state) /\ c \notin games[i].pending \cup games[i].joined => u = v
    BY <2>1, <2>2, KillGameSeen
  <2>5. Outbox(a)
    BY <2>2, KillGameIsSilent DEF SilentBox
  <2>6. w = Sees(n, c, u, bye)
    BY <1>2, <2>3, <2>5, SeesBoth
  <2> HIDE DEF a, u
  <2>7. /\ w \in Views /\ ~w.left /\ w.players = u.players
        /\ w.room = IF c = p THEN NoRoom ELSE u.room
        /\ c # p => w = u
    BY <1>3, <2>4, <2>6
  <2>8. w.room = IF c \in Players(games[i]) THEN NoRoom ELSE v.room
    BY <2>1, <2>4, <2>7 DEF Players
  <2>9. RoomFor(c, gone.games, name) = IF c \in Players(games[i]) THEN NoRoom ELSE v.room
    BY <1>1, <2>1, <2>3, RoomWithout
  <2>10. state[c] \in HandshakeStates => c \notin ActivePlayers(state) /\ c \notin Players(games[i])
    BY <1>4, <2>1 DEF ActivePlayers, ActiveStates, HandshakeStates
  <2>11. QED BY <2>4, <2>7, <2>8, <2>9, <2>10 DEF PlayersRight, Players
<1>6. CASE CreatedBy(p) = {} /\ Entered(p) # {}
  <2> DEFINE i == Min(Entered(p))
             g == RemoveJoinedOrPending(games[i], p)
             a == SendInfoToAll(g)
             u == Sees(n, c, v, a)
  <2>1. i \in DOMAIN games /\ p \in games[i].pending \cup games[i].joined
    BY <1>6, FindEntered
  <2>2. /\ g \in Game /\ g.creator = games[i].creator /\ p # g.creator
        /\ p \notin g.joined /\ p \notin g.pending
        /\ g.joined \ {p} = games[i].joined \ {p} /\ g.pending \ {p} = games[i].pending \ {p}
    BY <2>1, TakenOut
  <2>3. gone.games = [games EXCEPT ![i] = g] /\ gone.out = a ++ bye
    BY <1>6 DEF RemoveUserFromAnyGames, bye
  <2> HIDE DEF i, g
  <2>4. Players(g) = Players(games[i]) \ {p} /\ p \in Players(games[i])
    BY <2>1, <2>2 DEF Players
  <2>5. FullInfo(g) = InfoOf(g, name)
    BY DEF FullInfo, InfoOf
  <2>6. InfoOf(g, name) \in Infos
    BY <2>1, <2>2, <2>4, PlayerFacts, InfoTyped DEF Fit, Typed
  <2>7. u = IF c \in Players(g) THEN [v EXCEPT !.room = FullInfo(g)] ELSE v
    BY SeesInfo
  <2>8. Outbox(a)
    BY InfoIsSilent DEF SilentBox
  <2>9. w = Sees(n, c, u, bye)
    BY <1>2, <2>3, <2>8, SeesBoth
  <2> HIDE DEF a, u
  <2>10. /\ u \in Views /\ ~u.left
         /\ u.room = IF c \in Players(g) THEN InfoOf(g, name) ELSE v.room
    BY <2>5, <2>6, <2>7, UpdatedViews DEF Infos
  <2>11. /\ w \in Views /\ ~w.left
         /\ w.room = IF c = p THEN NoRoom ELSE u.room
         /\ c # p => w = u
    BY <1>3, <2>9, <2>10
  <2>12. RoomFor(c, gone.games, name) = IF c \in Players(g) THEN InfoOf(g, name)
                                        ELSE IF c \in Players(games[i]) THEN NoRoom ELSE v.room
    <3>1. Apart([games EXCEPT ![i] = g])
      BY <2>3
    <3>2. RoomFor(c, [games EXCEPT ![i] = g], name)
            = IF c \in Players(g) THEN InfoOf(g, name)
              ELSE IF c \in Players(games[i]) THEN NoRoom ELSE RoomFor(c, games, name)
      BY <1>1, <2>1, <3>1, RoomWith
    <3>3. QED BY <2>3, <3>2
  <2>13. state[c] \in HandshakeStates => c \notin Players(g)
    BY <1>4, <2>1, <2>4
  <2>14. QED BY <1>6, <2>4, <2>7, <2>10, <2>11, <2>12, <2>13
<1>7. CASE CreatedBy(p) = {} /\ Entered(p) = {}
  <2>1. gone.games = games /\ gone.out = Quiet
    BY <1>7 DEF RemoveUserFromAnyGames
  <2>2. QED BY <1>7, <2>1, SeesQuiet
<1>8. QED BY <1>5, <1>6, <1>7
-----------------------------------------------------------------------------
(***************************************************************************)
(* Event by event: a client c that is up before and after it, listens and  *)
(* shows what it should, shows what it should afterwards.                  *)
(***************************************************************************)
Sound(c, v) ==
    /\ IInv /\ Linked(link, state)
    /\ c \in Peers /\ link[c] = "up" /\ ~v.left
    /\ Right(c, v, link, state, name, games)

\* The step is one from a sound state to one where games, states, names and links fit.
SoundStep(c, v) ==
    /\ Sound(c, v)
    /\ IInv' /\ Linked(link', state') /\ link'[c] = "up"

RightAfter(c, v) == Right(c, Sees(name'[c], c, v, sent'), link', state', name', games')

LEMMA QuietSeen ==
  ASSUME NEW c, NEW v, Sound(c, v), sent' = Quiet, UNCHANGED <<name, games>>,
         state'[c] \in HandshakeStates => state[c] \in HandshakeStates,
         state'[c] \in ActiveStates => state[c] \in ActiveStates,
         PlayersRight(v, link, state, name) => PlayersRight(v, link', state', name)
  PROVE  RightAfter(c, v)
<1>1. Sees(name'[c], c, v, sent') = v
  BY SeesQuiet DEF Sound
<1>2. QED BY <1>1 DEF Sound, Right, RightAfter, Current

LEMMA NewConnectionSeen ==
  ASSUME NEW c, NEW v, SoundStep(c, v), NEW p \in Peers, NewConnection(p)
  PROVE  RightAfter(c, v)
<1> USE DEF SoundStep, Sound, IInv, Fit, Typed
<1>1. /\ link[p] = "free" /\ link' = [link EXCEPT ![p] = "up"] /\ state[p] = "NoUser"
      /\ state' = [state EXCEPT ![p] = "WaitingForVersion"]
      /\ sent' = Quiet /\ UNCHANGED <<name, games>>
  BY DEF NewConnection, Linked
<1>2. c # p /\ state'[c] = state[c]
  BY <1>1
<1>3. UpPlayers(link', state', name) = UpPlayers(link, state, name)
  BY <1>1 DEF UpPlayers, ActivePlayers, ActiveStates
<1>4. Leaving(link', name) = Leaving(link, name)
  BY <1>1 DEF Leaving
<1>5. PlayersRight(v, link, state, name) => PlayersRight(v, link', state', name)
  BY <1>3, <1>4 DEF PlayersRight
<1>6. QED BY <1>1, <1>2, <1>5, QuietSeen

\* Whoever is kicked off is no longer expected in the lists, nor in the way there.
LEMMA DisconnectUserSeen ==
  ASSUME NEW c, NEW v, SoundStep(c, v), NEW p \in Peers, DisconnectUser(p)
  PROVE  RightAfter(c, v)
<1> USE DEF SoundStep, Sound, IInv, Fit, Typed
<1>1. /\ link' = [link EXCEPT ![p] = "closing"] /\ state' = [state EXCEPT ![p] = "KickedOff"]
      /\ sent' = Quiet /\ UNCHANGED <<name, games>>
  BY DEF DisconnectUser
<1>2. c # p /\ state'[c] = state[c]
  BY <1>1
<1>3. UpPlayers(link', state', name) = UpPlayers(link, state, name) \ {name[p]}
  <2>1. \A q \in Peers \ {p} : link'[q] = link[q] /\ state'[q] = state[q]
    BY <1>1
  <2>2. \A q \in ActivePlayers(state) \ {p} : name[q] # name[p]
    BY DEF ActivePlayers, NamesFit
  <2>3. p \notin ActivePlayers(state')
    BY <1>1 DEF ActivePlayers, ActiveStates
  <2>4. ActivePlayers(state') = ActivePlayers(state) \ {p}
    BY <2>1, <2>3 DEF ActivePlayers
  <2>5. QED BY <2>1, <2>2, <2>3, <2>4 DEF UpPlayers, ActivePlayers
<1>4. Leaving(link', name) = Leaving(link, name) \cup {name[p]}
  BY <1>1 DEF Leaving
<1>5. PlayersRight(v, link, state, name) => PlayersRight(v, link', state', name)
  BY <1>3, <1>4 DEF PlayersRight
<1>6. QED BY <1>1, <1>2, <1>5, QuietSeen

\* VERSION and INFO move a user that has not logged in.
LEMMA HandshakeSeen ==
  ASSUME NEW c, NEW v, SoundStep(c, v), NEW p \in Peers, state[p] \in HandshakeStates,
         NEW s \in HandshakeStates, state' = [state EXCEPT ![p] = s],
         sent' = Quiet, UNCHANGED <<link, name, games>>
  PROVE  RightAfter(c, v)
<1> USE DEF SoundStep, Sound, IInv, Fit, Typed
<1>1. s \notin ActiveStates /\ state[p] \notin ActiveStates
  BY DEF HandshakeStates, ActiveStates
<1>2. \A q \in Peers : /\ state'[q] \in ActiveStates <=> state[q] \in ActiveStates
                       /\ state'[q] \in HandshakeStates <=> state[q] \in HandshakeStates
  BY <1>1
<1>3. UpPlayers(link', state', name) = UpPlayers(link, state, name)
  BY <1>2 DEF UpPlayers, ActivePlayers
<1>4. PlayersRight(v, link, state, name) => PlayersRight(v, link', state', name)
  BY <1>3 DEF PlayersRight, Leaving
<1>5. QED BY <1>2, <1>4, QuietSeen

LEMMA NothingSeen ==
  ASSUME NEW c, NEW v, SoundStep(c, v), sent' = Quiet, UNCHANGED <<link, state, name, games>>
  PROVE  RightAfter(c, v)
  BY QuietSeen DEF SoundStep

\* The name of a user that is in no game shows in no room and no list of games.
LEMMA Renamed ==
  ASSUME NEW gs, NEW nm, NEW nm2, NEW c,
         \A i \in DOMAIN gs : \A q \in Players(gs[i]) : nm2[q] = nm[q]
  PROVE  /\ RoomFor(c, gs, nm2) = RoomFor(c, gs, nm)
         /\ GamesFor(gs, nm2) = GamesFor(gs, nm)
<1>2. \A i \in DOMAIN gs : InfoOf(gs[i], nm2) = InfoOf(gs[i], nm)
  <2> TAKE i \in DOMAIN gs
  <2>1. \A q \in {gs[i].creator} \cup gs[i].joined \cup gs[i].pending : nm2[q] = nm[q]
    BY DEF Players
  <2>2. /\ {nm2[q] : q \in gs[i].joined} = {nm[q] : q \in gs[i].joined}
        /\ {nm2[q] : q \in gs[i].pending} = {nm[q] : q \in gs[i].pending}
    BY <2>1
  <2>3. QED BY <2>1, <2>2 DEF InfoOf
<1>3. RoomFor(c, gs, nm2) = RoomFor(c, gs, nm)
  <2>1. CASE \E i \in DOMAIN gs : c \in Players(gs[i])
    <3> DEFINE k == CHOOSE j \in DOMAIN gs : c \in Players(gs[j])
    <3>1. k \in DOMAIN gs
      BY <2>1
    <3>2. RoomFor(c, gs, nm2) = InfoOf(gs[k], nm2) /\ RoomFor(c, gs, nm) = InfoOf(gs[k], nm)
      BY <2>1 DEF RoomFor
    <3> HIDE DEF k
    <3>3. QED BY <1>2, <3>1, <3>2
  <2>2. CASE ~\E i \in DOMAIN gs : c \in Players(gs[i])
    BY <2>2 DEF RoomFor
  <2>3. QED BY <2>1, <2>2
<1>4. GamesFor(gs, nm2) = GamesFor(gs, nm)
  <2>1. \A i \in DOMAIN gs : nm2[gs[i].creator] = nm[gs[i].creator]
    BY DEF Players
  <2>2. QED BY <2>1 DEF GamesFor
<1>5. QED BY <1>3, <1>4

LEMMA OnLoginSeen ==
  ASSUME NEW c, NEW v, SoundStep(c, v), NEW p \in Peers, NEW m \in ClientMsgs, OnLogin(p, m)
  PROVE  RightAfter(c, v)
<1>1. CASE VerifyName(m.who)
  <2> USE DEF SoundStep, Sound, IInv
  <2> DEFINE hello == [type |-> "Login", who |-> m.who]
             n == name'[c]
             a == SendTo({p}, hello)
             b == BroadcastActiveUsers(state', name', games)
             w == Sees(n, c, v, sent')
  <2>1. /\ state[p] = "WaitingForLogin"
        /\ name' = [name EXCEPT ![p] = m.who] /\ state' = [state EXCEPT ![p] = "LoggedIn"]
        /\ sent' = a ++ b /\ UNCHANGED <<link, games>>
    BY <1>1 DEF OnLogin
  <2>2. hello.type \in {"Join", "Approve", "Login"}
    OBVIOUS
  <2>3. Outbox(a) /\ Outbox(b)
    BY SendFacts, BroadcastsAreSilent DEF SilentBox
  <2> HIDE DEF hello
  <2>4. Sees(n, c, v, a) = v
    BY <2>2, SeesNothing
  <2>5. w = Sees(n, c, v, b)
    BY <2>1, <2>3, <2>4, SeesBoth
  <2>6. \A i \in DOMAIN games : p \notin Players(games[i])
    BY <2>1, LoggedInIsFree
  <2>7. RoomFor(c, games, name') = RoomFor(c, games, name) /\ GamesFor(games, name') = GamesFor(games, name)
    <3>1. DOMAIN name = Peers /\ name' = [name EXCEPT ![p] = m.who]
      BY <2>1 DEF Fit, Typed
    <3>2. \A i \in DOMAIN games : \A q \in Players(games[i]) : q \in Peers \ {p}
      BY <2>6, PlayerFacts
    <3>3. \A i \in DOMAIN games : \A q \in Players(games[i]) : name'[q] = name[q]
      BY <3>1, <3>2
    <3>4. QED BY <3>3, Renamed
  <2> HIDE DEF a, b, w, n
  <2>8. /\ c \notin ActivePlayers(state') => w = v
        /\ w \in Views /\ ~w.left /\ w.room = v.room
        /\ c \in ActivePlayers(state') => w.games = GamesFor(games, name')
                                          /\ PlayersRight(w, link, state', name')
    BY <2>1, <2>5, <2>7, ListsSeen DEF b, Right
  <2>9. v.room = RoomFor(c, games, name') \/ c \notin ActivePlayers(state')
    <3>1. CASE c = p
      <4>1. v.room = NoRoom
        BY <2>1, <3>1, FreshIsView DEF Right, HandshakeStates
      <4>2. QED BY <2>6, <2>7, <3>1, <4>1, NoRoomIs
    <3>2. CASE c # p
      BY <2>1, <2>7, <3>2 DEF Right, Current, ActivePlayers
    <3>3. QED BY <3>1, <3>2
  <2>10. state'[c] \in HandshakeStates => v = Fresh /\ c \notin ActivePlayers(state')
    BY <2>1 DEF Right, HandshakeStates, ActivePlayers, ActiveStates, Fit, Typed
  <2>11. Right(c, w, link, state', name', games)
    BY <2>8, <2>9, <2>10 DEF Right, Current, ActivePlayers
  <2>12. QED BY <2>1, <2>11 DEF RightAfter, w, n
<1>2. CASE ~VerifyName(m.who)
  BY <1>2, DisconnectUserSeen DEF OnLogin
<1>3. QED BY <1>1, <1>2

\* A game opens: its creator has that room, the others keep theirs.
LEMMA RoomOpened ==
  ASSUME NEW gs \in Seq(Game), Apart(gs), NEW g \in Game, g.joined = {}, g.pending = {},
         Apart(Append(gs, g)), NEW nm, NEW c
  PROVE  RoomFor(c, Append(gs, g), nm) =
            IF c = g.creator THEN InfoOf(g, nm) ELSE RoomFor(c, gs, nm)
<1> DEFINE hs == Append(gs, g)
           n == Len(gs) + 1
<1>1. /\ DOMAIN hs = DOMAIN gs \cup {n} /\ hs[n] = g
      /\ \A j \in DOMAIN gs : hs[j] = gs[j]
  <2>1. hs \in Seq(Game) /\ Len(hs) = n /\ hs[n] = g /\ \A j \in 1..Len(gs) : hs[j] = gs[j]
    BY AppendProperties
  <2>2. Len(gs) \in Nat /\ DOMAIN gs = 1..Len(gs) /\ DOMAIN hs = 1..n
    BY <2>1, LenProperties
  <2>3. QED BY <2>1, <2>2
<1>2. Players(g) = {g.creator}
  BY DEF Players
<1> HIDE DEF hs, n
<1>3. CASE c = g.creator
  <2>1. n \in DOMAIN hs /\ c \in Players(hs[n])
    BY <1>1, <1>2, <1>3
  <2>2. RoomFor(c, hs, nm) = InfoOf(hs[n], nm)
    BY <2>1, RoomIs DEF hs
  <2>3. QED BY <1>1, <1>3, <2>2 DEF hs
<1>4. CASE c # g.creator
  <2>1. CASE \E k \in DOMAIN gs : c \in Players(gs[k])
    <3>1. PICK k \in DOMAIN gs : c \in Players(gs[k])
      BY <2>1
    <3>2. RoomFor(c, hs, nm) = InfoOf(hs[k], nm) /\ RoomFor(c, gs, nm) = InfoOf(gs[k], nm)
      BY <1>1, <3>1, RoomIs DEF hs
    <3>3. QED BY <1>1, <1>4, <3>1, <3>2 DEF hs
  <2>2. CASE \A k \in DOMAIN gs : c \notin Players(gs[k])
    <3>1. \A j \in DOMAIN hs : c \notin Players(hs[j])
      BY <1>1, <1>2, <1>4, <2>2
    <3>2. RoomFor(c, hs, nm) = NoRoom /\ RoomFor(c, gs, nm) = NoRoom
      BY <2>2, <3>1, NoRoomIs
    <3>3. QED BY <1>4, <3>2 DEF hs
  <2>3. QED BY <2>1, <2>2
<1>5. QED BY <1>3, <1>4

LEMMA OnCreateSeen ==
  ASSUME NEW c, NEW v, SoundStep(c, v), NEW p \in Peers, NEW m \in ClientMsgs, OnCreate(p, m)
  PROVE  RightAfter(c, v)
<1>1. CASE m.ok
  <2> USE DEF SoundStep, Sound, IInv
  <2> DEFINE done == [type |-> "Create"]
             g == [creator |-> p, joined |-> {}, pending |-> {}, limits |-> m.limits]
             room == [NoRoom EXCEPT !.creator = name[c]]
             a == SendTo({p}, done)
             b == BroadcastOpenGames(state, games')
             u == Sees(name[c], c, v, a)
             w == Sees(name[c], c, v, sent')
  <2>1. /\ state[p] = "LoggedIn"
        /\ games' = Append(games, g) /\ state' = [state EXCEPT ![p] = "OpenedGame"]
        /\ sent' = a ++ b /\ UNCHANGED <<link, name>>
    BY <1>1 DEF OnCreate
  <2>2. done.type = "Create"
    OBVIOUS
  <2>3. Outbox(a) /\ Outbox(b)
    BY SendFacts, BroadcastsAreSilent DEF SilentBox
  <2> HIDE DEF done
  <2>4. Hear(name[c], v, done) = [v EXCEPT !.room = room]
    BY <2>2 DEF Hear
  <2>5. u = IF c = p THEN [v EXCEPT !.room = room] ELSE v
    BY <2>4, SeesOne
  <2>6. room \in Infos /\ room = [creator |-> name[c], joined |-> {}, pending |-> {}]
    <3>1. name[c] \in Names \cup {NoName}
      BY DEF Fit, Typed
    <3>2. room = [creator |-> name[c], joined |-> {}, pending |-> {}]
      BY DEF NoRoom
    <3> HIDE DEF room
    <3>3. QED BY <3>1, <3>2 DEF Infos
  <2> HIDE DEF room, a, b, g
  <2>7. u \in Views /\ ~u.left /\ u.players = v.players /\ u.room = IF c = p THEN room ELSE v.room
    BY <2>5, <2>6, UpdatedViews DEF Right, Infos
  <2> HIDE DEF u
  <2>8. w = Sees(name[c], c, u, b)
    BY <2>1, <2>3, SeesBoth DEF u
  <2>9. w = IF c \in ActivePlayers(state) THEN [u EXCEPT !.games = GamesFor(games', name)] ELSE u
    BY <2>7, <2>8, SeesGames DEF b
  <2>10. GamesFor(games', name) \in Seq(Names)
    BY <2>1, ListsTyped
  <2>11. /\ w \in Views /\ ~w.left /\ w.room = u.room /\ w.players = u.players
         /\ c \in ActivePlayers(state) => w.games = GamesFor(games', name)
         /\ c \notin ActivePlayers(state) => w = u
    BY <2>7, <2>9, <2>10, UpdatedViews
  <2> HIDE DEF w
  <2>12. \A q \in Peers : /\ state'[q] \in ActiveStates <=> state[q] \in ActiveStates
                          /\ state'[q] \in HandshakeStates <=> state[q] \in HandshakeStates
    BY <2>1 DEF ActiveStates, HandshakeStates, Fit, Typed
  <2>13. UpPlayers(link, state', name) = UpPlayers(link, state, name)
    BY <2>12 DEF UpPlayers, ActivePlayers
  <2>14. PlayersRight(v, link, state, name) => PlayersRight(w, link, state', name)
    BY <2>7, <2>11, <2>13 DEF PlayersRight
  <2>15. RoomFor(c, games', name) = IF c = p THEN room ELSE RoomFor(c, games, name)
    <3>1. /\ games \in Seq(Game) /\ Apart(games) /\ Apart(games') /\ g \in Game
          /\ g.creator = p /\ g.joined = {} /\ g.pending = {}
      <4>1. m.limits \in Limits
        BY <1>1 DEF OnCreate, ClientMsgs
      <4>2. QED BY <4>1 DEF Fit, Typed, g, Game
    <3>2. c = p => InfoOf(g, name) = room
      BY <2>6, <3>1 DEF InfoOf
    <3>3. QED BY <2>1, <3>1, <3>2, RoomOpened
  <2>16. state[c] \in HandshakeStates => w = v
    BY <2>1, <2>5, <2>11 DEF u, HandshakeStates, ActivePlayers, ActiveStates
  <2>17. Right(c, w, link, state', name, games')
    BY <2>7, <2>11, <2>12, <2>14, <2>15, <2>16 DEF Right, Current, ActivePlayers
  <2>18. QED BY <2>1, <2>17 DEF RightAfter, w
<1>2. CASE ~m.ok
  BY <1>2, DisconnectUserSeen DEF OnCreate
<1>3. QED BY <1>1, <1>2

\* Whoever is up shows the room it has, which before the login is none.
LEMMA SoundRoom ==
  ASSUME NEW c, NEW v, Sound(c, v)
  PROVE  /\ v \in Views /\ ~v.left /\ v.room = RoomFor(c, games, name)
         /\ state[c] \in ActiveStates \cup HandshakeStates
         /\ state[c] \in HandshakeStates => v = Fresh
<1> USE DEF Sound
<1>1. state[c] \in ActiveStates \cup HandshakeStates
  BY DEF Linked, IInv, Fit, Typed, UserStates
<1>2. CASE state[c] \in HandshakeStates
  <2>1. \A i \in DOMAIN games : c \notin Players(games[i])
    BY <1>2, LoggedInIsFree DEF IInv, HandshakeStates
  <2>2. RoomFor(c, games, name) = NoRoom
    BY <2>1, NoRoomIs
  <2>3. QED BY <1>1, <1>2, <2>2, FreshIsView DEF Right
<1>3. CASE state[c] \in ActiveStates
  <2>1. state[c] \notin HandshakeStates
    BY <1>3 DEF ActiveStates, HandshakeStates
  <2>2. QED BY <1>1, <1>3, <2>1 DEF Right, Current
<1>4. QED BY <1>1, <1>2, <1>3

\* GAMEINFO: its players see the game i as it has become, g.
LEMMA InfoSeen ==
  ASSUME NEW c, NEW v, Sound(c, v), NEW i \in DOMAIN games,
         NEW g \in Game, g.creator = games[i].creator, \A q \in Players(g) : name[q] # NoName,
         Apart([games EXCEPT ![i] = g]), NEW n,
         NEW w, w = Sees(n, c, v, SendInfoToAll(g))
  PROVE  /\ w \in Views /\ ~w.left /\ w.players = v.players /\ w.games = v.games
         /\ c \notin Players(games[i]) \ Players(g)
               => w.room = RoomFor(c, [games EXCEPT ![i] = g], name)
         /\ c \notin Players(g) => w = v
         /\ GamesFor([games EXCEPT ![i] = g], name) = GamesFor(games, name)
<1> DEFINE hs == [games EXCEPT ![i] = g]
<1>1. v \in Views /\ ~v.left /\ v.room = RoomFor(c, games, name)
  BY SoundRoom
<1>2. FullInfo(g) = InfoOf(g, name)
  BY DEF FullInfo, InfoOf
<1>3. name \in [Peers -> Names \cup {NoName}] /\ Apart(games)
  BY DEF Sound, IInv, Fit, Typed
<1>4. InfoOf(g, name) \in Infos
  BY <1>3, InfoTyped
<1>5. w = IF c \in Players(g) THEN [v EXCEPT !.room = FullInfo(g)] ELSE v
  BY <1>1, SeesInfo DEF Sound
<1>6. /\ w \in Views /\ ~w.left /\ w.players = v.players /\ w.games = v.games
      /\ w.room = IF c \in Players(g) THEN InfoOf(g, name) ELSE v.room
  BY <1>1, <1>2, <1>4, <1>5, UpdatedViews DEF Infos
<1>7. RoomFor(c, hs, name) = IF c \in Players(g) THEN InfoOf(g, name)
                             ELSE IF c \in Players(games[i]) THEN NoRoom
                             ELSE RoomFor(c, games, name)
  BY <1>3, RoomWith
<1>8. GamesFor(hs, name) = GamesFor(games, name)
  <2>1. DOMAIN hs = DOMAIN games /\ \A j \in DOMAIN games : hs[j].creator = games[j].creator
    OBVIOUS
  <2> HIDE DEF hs
  <2>2. QED BY <2>1 DEF GamesFor
<1> HIDE DEF hs
<1>9. QED BY <1>1, <1>5, <1>6, <1>7, <1>8 DEF hs

\* JOIN and APPROVE: a game gains a player, or moves one, and its players are told.
LEMMA RoomGrows ==
  ASSUME NEW c, NEW v, SoundStep(c, v), NEW i \in DOMAIN games,
         NEW g \in Game, g.creator = games[i].creator, Players(games[i]) \subseteq Players(g),
         games' = [games EXCEPT ![i] = g], UNCHANGED <<link, name>>,
         Sees(name[c], c, v, sent') = Sees(name[c], c, v, SendInfoToAll(g)),
         \A q \in Peers : link[q] = "up" => (state'[q] \in ActiveStates <=> state[q] \in ActiveStates)
  PROVE  RightAfter(c, v)
<1> USE DEF SoundStep
<1> DEFINE w == Sees(name[c], c, v, sent')
<1>1. Fit(games', state', name) /\ i \in DOMAIN games' /\ games'[i] = g
  BY DEF IInv
<1>2. /\ Apart([games EXCEPT ![i] = g])
      /\ \A q \in Players(g) : name[q] # NoName
  <2>1. Apart(games')
    BY <1>1 DEF Fit
  <2>2. \A q \in Players(games'[i]) : name[q] # NoName
      <3> DEFINE gs == games'
                 st == state'
      <3>1. Fit(gs, st, name) /\ i \in DOMAIN gs
        BY <1>1
      <3> HIDE DEF gs, st, SoundStep
      <3>2. \A q \in Players(gs[i]) : name[q] # NoName
        BY <3>1, PlayerFacts
      <3>3. QED BY <3>2 DEF gs
  <2>3. QED BY <1>1, <2>1, <2>2
<1>3. /\ v \in Views /\ state[c] \in ActiveStates \cup HandshakeStates
      /\ state[c] \in HandshakeStates => v = Fresh
  BY SoundRoom
<1>4. /\ w \in Views /\ ~w.left /\ w.players = v.players /\ w.games = v.games
      /\ c \notin Players(games[i]) \ Players(g) => w.room = RoomFor(c, games', name)
      /\ c \notin Players(g) => w = v
      /\ GamesFor(games', name) = GamesFor(games, name)
  <2> DEFINE u == Sees(name[c], c, v, SendInfoToAll(g))
             hs == [games EXCEPT ![i] = g]
  <2>1. Sound(c, v)
    OBVIOUS
  <2>2. /\ u \in Views /\ ~u.left /\ u.players = v.players /\ u.games = v.games
        /\ c \notin Players(games[i]) \ Players(g) => u.room = RoomFor(c, hs, name)
        /\ c \notin Players(g) => u = v
        /\ GamesFor(hs, name) = GamesFor(games, name)
    BY <1>2, <2>1, InfoSeen
  <2>3. w = u /\ hs = games'
    OBVIOUS
  <2> HIDE DEF u, w, hs
  <2>4. QED BY <2>2, <2>3
<1> HIDE DEF w
<1>5. ActiveStates \cap HandshakeStates = {}
  BY DEF ActiveStates, HandshakeStates
<1>6. state'[c] \in HandshakeStates => w = Fresh
  <2>1. ASSUME state'[c] \in HandshakeStates PROVE c \notin Players(g)
    BY <1>1, <2>1, PlayerFacts DEF HandshakeStates
  <2>2. state'[c] \in HandshakeStates => state[c] \in HandshakeStates
    BY <1>3, <1>5 DEF Sound
  <2>3. QED BY <1>3, <1>4, <2>1, <2>2
<1>7. UpPlayers(link', state', name) = UpPlayers(link, state, name)
  BY DEF UpPlayers, ActivePlayers
<1>8. PlayersRight(v, link, state, name) => PlayersRight(w, link', state', name)
  BY <1>4, <1>7 DEF PlayersRight
<1>9. state'[c] \in ActiveStates => Current(c, w, link', state', name', games')
  BY <1>4, <1>8 DEF Sound, Right, Current
<1>10. QED BY <1>4, <1>6, <1>9 DEF RightAfter, Right, w

LEMMA OnJoinSeen ==
  ASSUME NEW c, NEW v, SoundStep(c, v), NEW p \in Peers, NEW m \in ClientMsgs, OnJoin(p, m)
  PROVE  RightAfter(c, v)
<1> DEFINE i == Min(CreatedByName(m.who))
           g == [games[i] EXCEPT !.pending = @ \cup {p}]
           note == [type |-> "Join", who |-> name[p]]
           a == SendInfoToAll(g)
           b == SendTo({g.creator}, note)
           d == SendTo({p}, note)
<1>1. CASE CreatedByName(m.who) # {} /\ p \notin games[i].pending \cup games[i].joined
  <2>1. /\ games' = [games EXCEPT ![i] = g] /\ state' = [state EXCEPT ![p] = "PendingJoin"]
        /\ UNCHANGED <<link, name>> /\ state[p] = "LoggedIn" /\ sent' = (a ++ b) ++ d
    BY <1>1 DEF OnJoin
  <2>2. i \in DOMAIN games /\ games[i] \in Game
    BY <1>1, FindCreatedByName, PlayerFacts DEF SoundStep, Sound, IInv, Players
  <2>3. note.type \in {"Join", "Approve", "Login"}
    OBVIOUS
  <2> HIDE DEF i, note
  <2>4. g \in Game /\ g.creator = games[i].creator /\ Players(games[i]) \subseteq Players(g)
    BY <2>2 DEF Game, Players
  <2> HIDE DEF g
  <2>5. Outbox(a) /\ Outbox(b) /\ Outbox(d) /\ Outbox(a ++ b)
    BY SendFacts, InfoIsSilent, JoinFacts DEF SilentBox
  <2>6. \A u : Sees(name[c], c, u, b) = u /\ Sees(name[c], c, u, d) = u
    BY <2>3, SeesNothing DEF SoundStep, Sound
  <2>7. Sees(name[c], c, v, sent') = Sees(name[c], c, v, a)
    <3> HIDE DEF a, b, d
    <3>1. c \in Peers
      BY DEF SoundStep, Sound
    <3>2. QED BY <2>1, <2>5, <2>6, <3>1, SeesBoth
  <2>8. \A q \in Peers : link[q] = "up" => (state'[q] \in ActiveStates <=> state[q] \in ActiveStates)
    BY <2>1 DEF ActiveStates, SoundStep, Sound, IInv, Fit, Typed
  <2>9. QED BY <2>1, <2>2, <2>4, <2>7, <2>8, RoomGrows
<1>2. CASE ~(CreatedByName(m.who) # {} /\ p \notin games[i].pending \cup games[i].joined)
  BY <1>2, NothingSeen DEF OnJoin
<1>3. QED BY <1>1, <1>2

LEMMA OnApproveSeen ==
  ASSUME NEW c, NEW v, SoundStep(c, v), NEW p \in Peers, NEW m \in ClientMsgs, OnApprove(p, m)
  PROVE  RightAfter(c, v)
<1> DEFINE i == Min(CreatedBy(p))
           called == {q \in games[i].pending : name[q] = m.who}
           after(q) == [games[i] EXCEPT !.pending = @ \ {q}, !.joined = @ \cup {q}]
           note == [type |-> "Approve", who |-> m.who]
<1>1. CASE CreatedBy(p) # {} /\ called # {}
  <2>1. PICK q \in called :
          /\ games' = [games EXCEPT ![i] = after(q)]
          /\ state' = [state EXCEPT ![q] = "JoinedOpenGame"]
          /\ sent' = SendInfoToAll(after(q)) ++ SendTo({p}, note)
    BY <1>1 DEF OnApprove
  <2> DEFINE g == after(q)
             a == SendInfoToAll(g)
             b == SendTo({p}, note)
  <2>2. UNCHANGED <<link, name>> /\ sent' = a ++ b /\ games' = [games EXCEPT ![i] = g]
    BY <2>1 DEF OnApprove
  <2>3. i \in DOMAIN games /\ games[i] \in Game /\ GameFits(games[i], state, name)
    BY <1>1, FindCreated, PlayerFacts DEF SoundStep, Sound, IInv, Players, Fit
  <2>4. note.type \in {"Join", "Approve", "Login"}
    OBVIOUS
  <2> HIDE DEF i, note
  <2>5. q \in games[i].pending /\ q \in Peers
    BY <2>3 DEF Game
  <2>6. g \in Game /\ g.creator = games[i].creator /\ Players(games[i]) \subseteq Players(g)
    BY <2>3, <2>5 DEF Game, Players
  <2> HIDE DEF g, after, called
  <2>7. Outbox(a) /\ Outbox(b)
    BY SendFacts, InfoIsSilent DEF SilentBox
  <2>8. \A u : Sees(name[c], c, u, b) = u
    BY <2>4, SeesNothing DEF SoundStep, Sound
  <2>9. Sees(name[c], c, v, sent') = Sees(name[c], c, v, a)
    <3> HIDE DEF a, b
    <3>1. c \in Peers
      BY DEF SoundStep, Sound
    <3>2. QED BY <2>2, <2>7, <2>8, <3>1, SeesBoth
  <2>10. link[q] = "up" => state[q] = "PendingJoin"
    BY <2>3, <2>5 DEF GameFits, SoundStep, Sound, Linked
  <2>11. \A r \in Peers : link[r] = "up" => (state'[r] \in ActiveStates <=> state[r] \in ActiveStates)
    BY <2>1, <2>5, <2>10 DEF ActiveStates, SoundStep, Sound, IInv, Fit, Typed
  <2>12. QED BY <2>2, <2>3, <2>6, <2>9, <2>11, RoomGrows
<1>2. CASE ~(CreatedBy(p) # {} /\ called # {})
  BY <1>2, NothingSeen DEF OnApprove
<1>3. QED BY <1>1, <1>2

\* The tail of a handler that ends with both lists, when the rooms are right already.
LEMMA EndsWithLists ==
  ASSUME NEW c, NEW v, SoundStep(c, v), NEW u \in Views, ~u.left,
         GamesFor(games', name) = GamesFor(games', name'),
         state'[c] \in ActiveStates => u.room = RoomFor(c, games', name'),
         state'[c] \in HandshakeStates => u = Fresh,
         Sees(name'[c], c, v, sent')
            = Sees(name'[c], c, u, BroadcastActiveUsers(state', name', games'))
  PROVE  RightAfter(c, v)
<1> USE DEF SoundStep
<1> DEFINE gs == games'
           st == state'
           nm == name'
           lk == link'
           w == Sees(nm[c], c, u, BroadcastActiveUsers(st, nm, gs))
<1>1. Fit(gs, st, nm) /\ lk \in [Peers -> LinkStates] /\ Linked(lk, st)
  BY DEF IInv
<1>2. c \in Peers /\ link[c] = "up" /\ GamesFor(gs, name) = GamesFor(gs, nm)
  BY DEF Sound
<1>3. Sees(name'[c], c, v, sent') = w
  OBVIOUS
<1> HIDE DEF gs, st, nm, lk, w, SoundStep
<1>4. /\ c \notin ActivePlayers(st) => w = u
      /\ w \in Views /\ ~w.left /\ w.room = u.room
      /\ c \in ActivePlayers(st) => w.games = GamesFor(gs, nm) /\ PlayersRight(w, lk, st, nm)
  BY <1>1, <1>2, ListsSeen DEF w
<1>5. st[c] \in HandshakeStates => c \notin ActivePlayers(st)
  BY DEF HandshakeStates, ActivePlayers, ActiveStates
<1>6. st[c] \in HandshakeStates => w = Fresh
  BY <1>4, <1>5 DEF st
<1>7. st[c] \in ActiveStates => Current(c, w, lk, st, nm, gs)
  BY <1>2, <1>4 DEF Current, ActivePlayers, st, gs, nm
<1>8. Right(c, w, lk, st, nm, gs)
  BY <1>4, <1>6, <1>7 DEF Right
<1>9. QED BY <1>3, <1>8 DEF RightAfter, lk, st, nm, gs

LEMMA OnEjectSeen ==
  ASSUME NEW c, NEW v, SoundStep(c, v), NEW p \in Peers, NEW m \in ClientMsgs, OnEject(p, m)
  PROVE  RightAfter(c, v)
<1> DEFINE i == Min(CreatedBy(p))
           called == {q \in ActivePlayers(state) : name[q] = m.who}
           note == [type |-> "Eject", who |-> name[p]]
<1>1. CASE \E q \in called :
             /\ CreatedBy(p) # {} /\ q \in games[i].pending \cup games[i].joined
             /\ games' = [games EXCEPT ![i] = RemoveJoinedOrPending(games[i], q)]
             /\ state' = [state EXCEPT ![q] = "LoggedIn"]
             /\ sent' = SendInfoToAll(RemoveJoinedOrPending(games[i], q)) ++ SendTo({q}, note)
                          ++ BroadcastActiveUsers(state', name, games')
  <2>1. PICK q \in called :
             /\ CreatedBy(p) # {} /\ q \in games[i].pending \cup games[i].joined
             /\ games' = [games EXCEPT ![i] = RemoveJoinedOrPending(games[i], q)]
             /\ state' = [state EXCEPT ![q] = "LoggedIn"]
             /\ sent' = SendInfoToAll(RemoveJoinedOrPending(games[i], q)) ++ SendTo({q}, note)
                          ++ BroadcastActiveUsers(state', name, games')
    BY <1>1
  <2> DEFINE g == RemoveJoinedOrPending(games[i], q)
             a == SendInfoToAll(g)
             b == SendTo({q}, note)
             d == BroadcastActiveUsers(state', name, games')
             u == Sees(name[c], c, v, a)
             x == Sees(name[c], c, u, b)
  <2>2. /\ UNCHANGED <<link, name>> /\ sent' = (a ++ b) ++ d /\ games' = [games EXCEPT ![i] = g]
        /\ q \in Peers
    BY <2>1 DEF OnEject, ActivePlayers
  <2>3. i \in DOMAIN games /\ games[i] \in Game
    BY <2>1, FindCreated, PlayerFacts DEF SoundStep, Sound, IInv, Players
  <2>4. note.type \in {"Leave", "Eject"}
    OBVIOUS
  <2>5. Fit(games, state, name) /\ q \in games[i].pending \cup games[i].joined
    BY <2>1 DEF SoundStep, Sound, IInv
  <2> HIDE DEF i, note, called
  <2>6. /\ g \in Game /\ g.creator = games[i].creator /\ q # g.creator
        /\ q \notin g.joined /\ q \notin g.pending
        /\ g.joined \ {q} = games[i].joined \ {q} /\ g.pending \ {q} = games[i].pending \ {q}
    BY <2>3, <2>5, TakenOut
  <2> HIDE DEF g
  <2>7. Players(g) = Players(games[i]) \ {q}
    BY <2>6 DEF Players
  <2>8. Apart([games EXCEPT ![i] = g]) /\ \A r \in Players(g) : name[r] # NoName
    <3>1. Apart(games')
      BY DEF SoundStep, IInv, Fit
    <3>2. QED BY <2>2, <2>3, <2>5, <2>7, <3>1, PlayerFacts
  <2>9. Outbox(a) /\ Outbox(b) /\ Outbox(d) /\ Outbox(a ++ b)
    BY SendFacts, InfoIsSilent, BroadcastsAreSilent, JoinFacts DEF SilentBox
  <2>10. Sound(c, v) /\ c \in Peers /\ link[c] = "up"
    BY DEF SoundStep, Sound
  <2>11. /\ u \in Views /\ ~u.left /\ u.players = v.players /\ u.games = v.games
         /\ c \notin Players(games[i]) \ Players(g)
               => u.room = RoomFor(c, [games EXCEPT ![i] = g], name)
         /\ c \notin Players(g) => u = v
    BY <2>3, <2>6, <2>8, <2>10, InfoSeen
  <2> HIDE DEF a, b, d, u
  <2>12. /\ x \in Views /\ ~x.left
         /\ x.room = IF c = q THEN NoRoom ELSE u.room
         /\ c # q => x = u
    BY <2>2, <2>4, <2>10, <2>11, ByeSeen DEF b
  <2>13. Sees(name[c], c, v, sent') = Sees(name[c], c, x, d)
    BY <2>2, <2>9, <2>10, SeesBoth DEF u
  <2> HIDE DEF x
  <2>14. c = q => RoomFor(c, [games EXCEPT ![i] = g], name) = NoRoom
    <3>1. Apart(games)
      BY <2>5 DEF Fit
    <3>2. q \in Players(games[i])
      BY <2>5 DEF Players
    <3>3. QED BY <2>3, <2>7, <2>8, <3>1, <3>2, RoomWith
  <2>15. x.room = RoomFor(c, games', name)
    BY <2>2, <2>7, <2>11, <2>12, <2>14
  <2>16. state'[c] \in HandshakeStates => x = Fresh
    <3>1. SUFFICES ASSUME state'[c] \in HandshakeStates PROVE x = Fresh
      OBVIOUS
    <3>2. c # q /\ state[c] \in HandshakeStates
      BY <2>1, <2>2, <2>5, <3>1 DEF HandshakeStates, Fit, Typed
    <3>3. c \notin Players(g)
      BY <2>3, <2>5, <2>7, <3>2, PlayerFacts DEF HandshakeStates
    <3>4. v = Fresh
      BY <2>10, <3>2, SoundRoom
    <3>5. QED BY <2>11, <2>12, <3>2, <3>3, <3>4
  <2>17. QED BY <2>2, <2>12, <2>13, <2>15, <2>16, EndsWithLists DEF d
<1>2. CASE sent' = Quiet /\ UNCHANGED <<link, state, name, games>>
  BY <1>2, NothingSeen
<1>3. QED BY <1>1, <1>2 DEF OnEject

LEMMA OnLeaveSeen ==
  ASSUME NEW c, NEW v, SoundStep(c, v), NEW p \in Peers, NEW m \in ClientMsgs, OnLeave(p, m)
  PROVE  RightAfter(c, v)
<1>1. PICK order \in RemovalOrders(p) :
         LET gone == RemoveUserFromAnyGames(p, order)
         IN  /\ games' = gone.games
             /\ state' = [gone.state EXCEPT ![p] = "LoggedIn"]
             /\ sent' = gone.out ++ BroadcastActiveUsers(state', name, games')
  BY DEF OnLeave
<1> DEFINE gone == RemoveUserFromAnyGames(p, order)
           a == gone.out
           d == BroadcastActiveUsers(state', name, games')
           u == Sees(name[c], c, v, a)
<1>2. /\ games' = gone.games /\ state' = [gone.state EXCEPT ![p] = "LoggedIn"]
      /\ sent' = a ++ d /\ UNCHANGED <<link, name>>
  BY <1>1 DEF OnLeave
<1>3. /\ Fit(games, state, name) /\ link \in [Peers -> LinkStates] /\ Linked(link, state)
      /\ c \in Peers /\ link[c] = "up" /\ Sound(c, v) /\ Apart(gone.games)
  <2>1. Apart(games')
    BY DEF SoundStep, IInv, Fit
  <2>2. QED BY <1>2, <2>1 DEF SoundStep, Sound, IInv
<1>4. Outbox(a) /\ Outbox(d)
  BY <1>3, RemovalIsSilent, BroadcastsAreSilent DEF SilentBox
<1>5. v \in Views /\ ~v.left /\ v.room = RoomFor(c, games, name)
  BY <1>3, SoundRoom
<1>6. /\ u \in Views /\ ~u.left /\ u.room = RoomFor(c, gone.games, name)
      /\ c # p /\ state[c] \in HandshakeStates => u = v
  BY <1>3, <1>5, RemovalSeen
<1>7. state'[c] \in HandshakeStates => c # p /\ state[c] \in HandshakeStates
  <2>1. gone.state[c] \in {state[c], "LoggedIn"} /\ DOMAIN gone.state = Peers
    BY <1>3 DEF RemoveUserFromAnyGames, LogInAll, Fit, Typed
  <2> HIDE DEF gone
  <2>2. QED BY <1>2, <1>3, <2>1 DEF HandshakeStates
<1> HIDE DEF gone, a, d, u
<1>8. Sees(name[c], c, v, sent') = Sees(name[c], c, u, d)
  BY <1>2, <1>3, <1>4, SeesBoth DEF u
<1>9. state'[c] \in HandshakeStates => u = Fresh
  BY <1>3, <1>6, <1>7, SoundRoom
<1>10. QED BY <1>2, <1>6, <1>8, <1>9, EndsWithLists DEF d

\* Who has gone is in no game that is left.
LEMMA LostIsNowhere ==
  ASSUME Fit(games, state, name), Fit(games', state', name'), NEW p \in Peers, LostConnection(p), NEW c
  PROVE  /\ RoomFor(c, games', name') = RoomFor(c, games', name)
         /\ GamesFor(games', name') = GamesFor(games', name)
<1> DEFINE gs == games'
           st == state'
           nm == name'
<1>1. Fit(gs, st, nm) /\ nm = [name EXCEPT ![p] = NoName] /\ st[p] = "NoUser"
  BY DEF LostConnection, Fit, Typed
<1>2. GamesFor(games', name') = GamesFor(gs, nm) /\ RoomFor(c, games', name') = RoomFor(c, gs, nm)
  OBVIOUS
<1> HIDE DEF gs, st, nm
<1>3. \A i \in DOMAIN gs : \A q \in Players(gs[i]) : q \in Peers \ {p}
  BY <1>1, PlayerFacts
<1>4. \A i \in DOMAIN gs : \A q \in Players(gs[i]) : nm[q] = name[q]
  BY <1>1, <1>3 DEF Fit, Typed
<1>5. RoomFor(c, gs, nm) = RoomFor(c, gs, name) /\ GamesFor(gs, nm) = GamesFor(gs, name)
  BY <1>4, Renamed
<1>6. QED BY <1>2, <1>5 DEF gs

\* m_users.erase comes last: the lists that follow know the user no more.
LEMMA LostConnectionSeen ==
  ASSUME NEW c, NEW v, SoundStep(c, v), NEW p \in Peers, LostConnection(p)
  PROVE  RightAfter(c, v)
<1>1. PICK order \in RemovalOrders(p) :
         LET gone == RemoveUserFromAnyGames(p, order)
             out  == gone.out ++ BroadcastActiveUsers(state', name', games')
         IN  /\ games' = gone.games
             /\ state' = [gone.state EXCEPT ![p] = "NoUser"]
             /\ sent' = [out EXCEPT ![p] = <<>>]
  BY DEF LostConnection
<1> DEFINE gone == RemoveUserFromAnyGames(p, order)
           a == gone.out
           d == BroadcastActiveUsers(state', name', games')
           n == name'[c]
           u == Sees(n, c, v, a)
<1>2. /\ games' = gone.games /\ state' = [gone.state EXCEPT ![p] = "NoUser"]
      /\ sent' = [a ++ d EXCEPT ![p] = <<>>]
      /\ link' = [link EXCEPT ![p] = "free"] /\ name' = [name EXCEPT ![p] = NoName]
  BY <1>1 DEF LostConnection
<1>3. /\ Fit(games, state, name) /\ link \in [Peers -> LinkStates] /\ Linked(link, state)
      /\ c \in Peers /\ link[c] = "up" /\ Sound(c, v) /\ Apart(gone.games) /\ c # p
  <2>1. Apart(games')
    BY DEF SoundStep, IInv, Fit
  <2>2. c # p
    BY <1>2 DEF SoundStep, Sound, IInv
  <2>3. QED BY <1>2, <2>1, <2>2 DEF SoundStep, Sound, IInv
<1>4. Outbox(a) /\ Outbox(d)
  BY <1>3, RemovalIsSilent, BroadcastsAreSilent DEF SilentBox
<1>5. v \in Views /\ ~v.left /\ v.room = RoomFor(c, games, name)
  BY <1>3, SoundRoom
<1>6. /\ u \in Views /\ ~u.left /\ u.room = RoomFor(c, gone.games, name)
      /\ c # p /\ state[c] \in HandshakeStates => u = v
  <2> HIDE DEF n
  <2>1. QED BY <1>3, <1>5, RemovalSeen
<1>7. state'[c] \in HandshakeStates => state[c] \in HandshakeStates
  <2>1. gone.state[c] \in {state[c], "LoggedIn"} /\ DOMAIN gone.state = Peers
    BY <1>3 DEF RemoveUserFromAnyGames, LogInAll, Fit, Typed
  <2> HIDE DEF gone
  <2>2. QED BY <1>2, <1>3, <2>1 DEF HandshakeStates
<1>8. RoomFor(c, games', name') = RoomFor(c, games', name) /\ GamesFor(games', name') = GamesFor(games', name)
  BY LostIsNowhere DEF SoundStep, Sound, IInv
<1> HIDE DEF gone, a, d, u, n
<1>9. Sees(n, c, v, sent') = Sees(n, c, v, a ++ d)
  <2>1. DOMAIN (a ++ d) = Peers
    BY Outboxes
  <2>2. sent'[c] = (a ++ d)[c]
    BY <1>2, <1>3, <2>1
  <2>3. QED BY <2>2 DEF Sees
<1>10. Sees(n, c, v, sent') = Sees(n, c, u, d)
  BY <1>3, <1>4, <1>9, SeesBoth DEF u
<1>11. state'[c] \in HandshakeStates => u = Fresh
  BY <1>3, <1>6, <1>7, SoundRoom
<1>12. QED BY <1>2, <1>6, <1>8, <1>10, <1>11, EndsWithLists DEF d, n

\* START ends it for the two of the game; the others see it go from the list.
LEMMA OnStartSeen ==
  ASSUME NEW c, NEW v, SoundStep(c, v), NEW p \in Peers, NEW m \in ClientMsgs, OnStart(p, m)
  PROVE  RightAfter(c, v)
<1> DEFINE i == Min(CreatedBy(p))
<1>1. CASE CreatedBy(p) # {} /\ CanStart(games[i])
  <2>1. PICK order \in RemovalOrders(p), q \in games[i].joined :
          LET gone == RemoveUserFromAnyGames(p, order)
          IN  /\ games' = gone.games
              /\ state' = gone.state
              /\ sent' = SendTo({p}, StartMsg(1, q)) ++ SendTo({q}, StartMsg(2, p))
                           ++ gone.out ++ BroadcastOpenGames(state', games')
    BY <1>1 DEF OnStart, StartMsg
  <2> DEFINE gone == RemoveUserFromAnyGames(p, order)
             S == games[i].joined \cup games[i].pending
             n == name[c]
             a == SendTo({p}, StartMsg(1, q))
             b == SendTo({q}, StartMsg(2, p))
             e == gone.out
             d == BroadcastOpenGames(state', games')
             x == Sees(n, c, v, a)
             y == Sees(n, c, x, b)
             u == Sees(n, c, y, e)
             w == Sees(n, c, v, sent')
  <2>2. /\ games' = gone.games /\ state' = LogInAll(state, S)
        /\ sent' = ((a ++ b) ++ e) ++ d /\ UNCHANGED <<link, name>>
    BY <1>1, <2>1 DEF OnStart, RemoveUserFromAnyGames
  <2>3. /\ Fit(games, state, name) /\ link \in [Peers -> LinkStates] /\ Linked(link, state)
        /\ c \in Peers /\ link[c] = "up" /\ Sound(c, v) /\ Apart(gone.games)
        /\ Right(c, v, link, state, name, games)
    <3>1. Apart(games')
      BY DEF SoundStep, IInv, Fit
    <3>2. QED BY <2>2, <3>1 DEF SoundStep, Sound, IInv
  <2>4. /\ Outbox(a) /\ Outbox(b) /\ Outbox(e) /\ Outbox(d)
        /\ Outbox(a ++ b) /\ Outbox((a ++ b) ++ e)
    BY <2>3, SendFacts, RemovalIsSilent, BroadcastsAreSilent, JoinFacts DEF SilentBox
  <2>5. v \in Views /\ ~v.left /\ v.room = RoomFor(c, games, name)
    BY <2>3, SoundRoom
  <2>6. i \in DOMAIN games /\ games[i].creator = p
    BY <1>1, <2>3, FindCreated
  <2>7. \A r \in {p, q} : r \in Players(games[i]) /\ state'[r] \notin HandshakeStates
    <3>1. p \in Players(games[i]) /\ q \in Players(games[i])
      BY <2>6 DEF Players
    <3>2. \A r \in {p, q} : r \in Peers /\ state[r] \notin HandshakeStates
      BY <2>3, <2>6, <3>1, PlayerFacts DEF HandshakeStates
    <3>3. QED BY <2>2, <3>1, <3>2 DEF LogInAll, HandshakeStates
  <2> DEFINE gap == [Fresh EXCEPT !.left = TRUE]
  <2>8. gap \in Views /\ gap.left
    BY EmptySeq DEF Fresh, NoRoom, Views
  <2>9. Hear(n, v, StartMsg(1, q)) = gap /\ Hear(n, v, StartMsg(2, p)) = gap
    <3>1. StartMsg(1, q).type = "Start" /\ StartMsg(2, p).type = "Start"
      BY DEF StartMsg
    <3>2. QED BY <2>5, <3>1 DEF Hear
  <2>10. w = Sees(n, c, u, d)
    <3> HIDE DEF a, b, e, d
    <3>1. w = Sees(n, c, Sees(n, c, v, (a ++ b) ++ e), d)
      BY <2>2, <2>3, <2>4, SeesBoth
    <3>2. Sees(n, c, v, (a ++ b) ++ e) = Sees(n, c, Sees(n, c, v, a ++ b), e)
      BY <2>3, <2>4, SeesBoth
    <3>3. Sees(n, c, v, a ++ b) = y
      BY <2>3, <2>4, SeesBoth
    <3>4. QED BY <3>1, <3>2, <3>3
  <2> HIDE DEF gap, gone, i
  <2>11. CASE c \in {p, q}
    <3>1. y = gap
      <4>1. x = IF c \in {p} THEN gap ELSE v
        BY <2>3, <2>9, SeesOne
      <4>2. c = p => y = gap
        BY <2>3, <2>4, <2>8, <4>1, SeesNoMore
      <4>3. c # p => y = gap
        BY <2>3, <2>9, <2>11, <4>1, SeesOne
      <4>4. QED BY <4>2, <4>3
    <3> HIDE DEF y, e, d
    <3>2. u = gap
      BY <2>3, <2>4, <2>8, <3>1, SeesNoMore
    <3>3. w = gap
      BY <2>3, <2>4, <2>8, <2>10, <3>2, SeesNoMore
    <3>4. QED BY <2>2, <2>7, <2>8, <2>11, <3>3 DEF RightAfter, Right
  <2>12. CASE c \notin {p, q}
    <3>1. y = v
      <4>1. x = v
        BY <2>3, <2>12, SeesOne
      <4>2. QED BY <2>3, <2>12, <4>1, SeesOne
    <3> HIDE DEF y
    <3>2. /\ u \in Views /\ ~u.left /\ u.room = RoomFor(c, gone.games, name)
          /\ PlayersRight(v, link, state, name) => PlayersRight(u, link, state, name)
          /\ state[c] \in HandshakeStates => u = v
      <4>1. u = Sees(n, c, v, RemoveUserFromAnyGames(p, order).out)
        BY <3>1 DEF gone
      <4>2. c # p /\ CreatedBy(p) # {} /\ Apart(RemoveUserFromAnyGames(p, order).games)
        BY <1>1, <2>3, <2>12 DEF gone
      <4>3. /\ Fit(games, state, name) /\ link \in [Peers -> LinkStates] /\ Linked(link, state)
            /\ c \in Peers /\ link[c] = "up" /\ v \in Views /\ ~v.left
            /\ v.room = RoomFor(c, games, name)
        BY <2>3, <2>5
      <4> HIDE DEF u, n, a, b, d, x, w, S
      <4>4. /\ u \in Views /\ ~u.left
            /\ u.room = RoomFor(c, RemoveUserFromAnyGames(p, order).games, name)
            /\ CreatedBy(p) # {} /\ PlayersRight(v, link, state, name)
                  => PlayersRight(u, link, state, name)
            /\ c # p /\ state[c] \in HandshakeStates => u = v
        BY <4>1, <4>2, <4>3, RemovalSeen
      <4>5. QED BY <4>2, <4>4 DEF gone
    <3> HIDE DEF u, e
    <3>3. w = IF c \in ActivePlayers(state') THEN [u EXCEPT !.games = GamesFor(games', name)] ELSE u
      BY <2>3, <2>10, <3>2, SeesGames DEF d
    <3>4. GamesFor(games', name) \in Seq(Names)
      <4>1. Fit(games', state', name)
        BY <2>2 DEF SoundStep, IInv
      <4> DEFINE gs == games'
                 st == state'
      <4> HIDE DEF gs, st
      <4>2. Fit(gs, st, name)
        BY <4>1 DEF gs, st
      <4>3. GamesFor(gs, name) \in Seq(Names)
        BY <4>2, ListsTyped
      <4>4. QED BY <4>3 DEF gs
    <3> HIDE DEF w, d
    <3>5. /\ w \in Views /\ ~w.left /\ w.room = u.room /\ w.players = u.players
          /\ c \in ActivePlayers(state') => w.games = GamesFor(games', name)
          /\ c \notin ActivePlayers(state') => w = u
      BY <3>2, <3>3, <3>4, UpdatedViews
    <3>6. /\ UpPlayers(link, state', name) = UpPlayers(link, state, name)
          /\ c \in ActivePlayers(state') <=> c \in ActivePlayers(state)
      BY <2>2, <2>3, <2>6, ReleasedPlayers
    <3>7. PlayersRight(v, link, state, name) => PlayersRight(w, link, state', name)
      BY <3>2, <3>5, <3>6 DEF PlayersRight
    <3>8. state'[c] \in HandshakeStates => w = Fresh
      <4>1. state'[c] \in HandshakeStates => state[c] \in HandshakeStates /\ c \notin ActivePlayers(state')
        BY <2>2, <2>3 DEF LogInAll, HandshakeStates, ActivePlayers, ActiveStates
      <4>2. QED BY <2>3, <3>2, <3>5, <4>1, SoundRoom
    <3>9. state'[c] \in ActiveStates => Current(c, w, link, state', name, games')
      BY <2>2, <2>3, <2>5, <3>2, <3>5, <3>6, <3>7 DEF Right, Current, ActivePlayers
    <3>10. QED BY <2>2, <3>5, <3>8, <3>9 DEF RightAfter, Right, w, n
  <2>13. QED BY <2>11, <2>12
<1>2. CASE ~(CreatedBy(p) # {} /\ CanStart(games[i]))
  BY <1>2, NothingSeen DEF OnStart
<1>3. QED BY <1>1, <1>2
-----------------------------------------------------------------------------
(***************************************************************************)
(* Links and states.                                                       *)
(***************************************************************************)
\* Removing a user from its games logs others in, who are users, or changes no state.
LEMMA RemovalStates ==
  ASSUME Fit(games, state, name), NEW p, NEW order
  PROVE  LET st == RemoveUserFromAnyGames(p, order).state
         IN  /\ DOMAIN st = Peers
             /\ \A q \in Peers : \/ st[q] = state[q]
                                 \/ st[q] = "LoggedIn" /\ state[q] # "NoUser"
<1>1. CASE CreatedBy(p) # {}
  <2> DEFINE i == Min(CreatedBy(p))
  <2>1. i \in DOMAIN games
    BY <1>1, FindCreated
  <2>2. RemoveUserFromAnyGames(p, order).state = LogInAll(state, games[i].joined \cup games[i].pending)
    BY <1>1 DEF RemoveUserFromAnyGames
  <2> HIDE DEF i
  <2>3. \A q \in games[i].joined \cup games[i].pending : state[q] # "NoUser"
    BY <2>1, PlayerFacts DEF Players
  <2>4. QED BY <2>2, <2>3 DEF LogInAll
<1>2. CASE CreatedBy(p) = {}
  BY <1>2 DEF RemoveUserFromAnyGames, Fit, Typed
<1>3. QED BY <1>1, <1>2

\* A user whose link stays up never goes back to the handshake.
LEMMA LinkedKept ==
  ASSUME IInv, Linked(link, state), Next
  PROVE  /\ Linked(link', state')
         /\ \A c \in Peers : /\ link[c] = "up" /\ state'[c] \in HandshakeStates
                                 => state[c] \in HandshakeStates
                             /\ link[c] # "up" /\ link'[c] = "up"
                                 => state'[c] = "WaitingForVersion" /\ sent' = Quiet
<1> USE DEF IInv, Fit, Typed, Linked
<1> DEFINE Goal == /\ Linked(link', state')
                   /\ \A c \in Peers : /\ link[c] = "up" /\ state'[c] \in HandshakeStates
                                           => state[c] \in HandshakeStates
                                       /\ link[c] # "up" /\ link'[c] = "up"
                                           => state'[c] = "WaitingForVersion" /\ sent' = Quiet
<1>1. ASSUME UNCHANGED link, DOMAIN state' = Peers,
             \A q \in Peers : \/ state'[q] = state[q]
                              \/ /\ state'[q] \notin {"NoUser", "KickedOff"} /\ state[q] # "NoUser"
                                 /\ state'[q] \in HandshakeStates => state[q] \in HandshakeStates
      PROVE  Goal
  BY <1>1
<1>2. ASSUME NEW p \in Peers, NewConnection(p) PROVE Goal
  BY <1>2 DEF NewConnection
<1>3. ASSUME NEW p \in Peers, LostConnection(p) PROVE Goal
  <2>1. PICK order \in RemovalOrders(p) :
           state' = [RemoveUserFromAnyGames(p, order).state EXCEPT ![p] = "NoUser"]
    BY <1>3 DEF LostConnection
  <2> DEFINE st == RemoveUserFromAnyGames(p, order).state
  <2>2. /\ DOMAIN st = Peers
        /\ \A q \in Peers : st[q] = state[q] \/ (st[q] = "LoggedIn" /\ state[q] # "NoUser")
    BY RemovalStates
  <2>3. link' = [link EXCEPT ![p] = "free"] /\ state' = [st EXCEPT ![p] = "NoUser"]
    BY <1>3, <2>1 DEF LostConnection
  <2> HIDE DEF st
  <2>4. QED BY <2>2, <2>3 DEF HandshakeStates
<1>4. ASSUME NEW p \in Peers, state[p] # "NoUser", DisconnectUser(p) PROVE Goal
  BY <1>4 DEF DisconnectUser, HandshakeStates
<1>5. ASSUME NEW p \in Peers, NEW m \in ClientMsgs, ReceiveMessage(p, m) PROVE Goal
  <2>1. state[p] # "NoUser"
    BY <1>5 DEF ReceiveMessage
  <2>2. CASE UNCHANGED <<link, state>>
    BY <1>1, <2>2
  <2>3. CASE DisconnectUser(p)
    BY <1>4, <2>1, <2>3
  <2>4. CASE OnVersion(p, m) \/ OnLocalIP(p, m)
    <3>1. \/ DisconnectUser(p) \/ UNCHANGED <<link, state>>
          \/ /\ UNCHANGED link /\ state[p] \in HandshakeStates
             /\ state' = [state EXCEPT ![p] = "WaitingForLocalIP"]
          \/ /\ UNCHANGED link /\ state[p] \in HandshakeStates
             /\ state' = [state EXCEPT ![p] = "WaitingForLogin"]
      BY <2>4 DEF OnVersion, OnLocalIP, HandshakeStates
    <3>2. QED BY <1>1, <2>1, <2>2, <2>3, <3>1
  <2>5. ASSUME UNCHANGED link, NEW q \in Peers, state[q] # "NoUser",
               NEW s \in ActiveStates, state' = [state EXCEPT ![q] = s]
        PROVE  Goal
    BY <1>1, <2>5 DEF ActiveStates, HandshakeStates
  <2>6. CASE OnLogin(p, m)
    BY <2>1, <2>3, <2>5, <2>6 DEF OnLogin, ActiveStates
  <2>7. CASE OnCreate(p, m)
    BY <2>1, <2>3, <2>5, <2>7 DEF OnCreate, ActiveStates
  <2>8. CASE OnJoin(p, m)
    BY <2>1, <2>2, <2>5, <2>8 DEF OnJoin, ActiveStates
  <2>9. CASE OnLeave(p, m)
    <3>1. PICK order \in RemovalOrders(p) :
             state' = [RemoveUserFromAnyGames(p, order).state EXCEPT ![p] = "LoggedIn"]
      BY <2>9 DEF OnLeave
    <3> DEFINE st == RemoveUserFromAnyGames(p, order).state
    <3>2. /\ DOMAIN st = Peers
          /\ \A q \in Peers : st[q] = state[q] \/ (st[q] = "LoggedIn" /\ state[q] # "NoUser")
      BY RemovalStates
    <3>3. UNCHANGED link /\ state' = [st EXCEPT ![p] = "LoggedIn"]
      BY <2>9, <3>1 DEF OnLeave
    <3> HIDE DEF st
    <3>4. QED BY <1>1, <2>1, <3>2, <3>3 DEF HandshakeStates
  <2>10. CASE OnEject(p, m)
    <3>1. \/ UNCHANGED <<link, state>>
          \/ /\ UNCHANGED link
             /\ \E q \in ActivePlayers(state) : state' = [state EXCEPT ![q] = "LoggedIn"]
      BY <2>10 DEF OnEject
    <3>2. \A q \in ActivePlayers(state) : q \in Peers /\ state[q] # "NoUser"
      BY DEF ActivePlayers, ActiveStates
    <3>3. "LoggedIn" \in ActiveStates
      BY DEF ActiveStates
    <3>4. QED BY <2>2, <2>5, <3>1, <3>2, <3>3
  <2>11. CASE OnApprove(p, m)
    <3> DEFINE i == Min(CreatedBy(p))
    <3>1. \/ UNCHANGED <<link, state>>
          \/ /\ UNCHANGED link /\ CreatedBy(p) # {}
             /\ \E q \in games[i].pending : state' = [state EXCEPT ![q] = "JoinedOpenGame"]
      BY <2>11 DEF OnApprove
    <3>2. CreatedBy(p) # {} => i \in DOMAIN games
      BY FindCreated
    <3> HIDE DEF i
    <3>3. CreatedBy(p) # {} => \A q \in games[i].pending : q \in Peers /\ state[q] # "NoUser"
      BY <3>2, PlayerFacts DEF Players
    <3>4. "JoinedOpenGame" \in ActiveStates
      BY DEF ActiveStates
    <3>5. QED BY <2>2, <2>5, <3>1, <3>3, <3>4
  <2>12. CASE OnStart(p, m)
    <3>1. \/ UNCHANGED <<link, state>>
          \/ /\ UNCHANGED link
             /\ \E order : state' = RemoveUserFromAnyGames(p, order).state
      BY <2>12 DEF OnStart
    <3>2. ASSUME NEW order, state' = RemoveUserFromAnyGames(p, order).state, UNCHANGED link
          PROVE  Goal
      <4> DEFINE st == RemoveUserFromAnyGames(p, order).state
      <4>1. /\ DOMAIN st = Peers
            /\ \A q \in Peers : st[q] = state[q] \/ (st[q] = "LoggedIn" /\ state[q] # "NoUser")
        BY RemovalStates
      <4>2. state' = st
        BY <3>2
      <4> HIDE DEF st
      <4>3. QED BY <1>1, <3>2, <4>1, <4>2 DEF HandshakeStates
    <3>3. QED BY <2>2, <3>1, <3>2
  <2>13. CASE BadMessage(p, m)
    BY <2>3, <2>13 DEF BadMessage
  <2>14. CASE Ignored(p, m)
    BY <2>2, <2>14 DEF Ignored
  <2>15. QED
    BY <1>5, <2>4, <2>6, <2>7, <2>8, <2>9, <2>10, <2>11, <2>12, <2>13, <2>14 DEF ReceiveMessage
<1>6. Goal
  BY <1>2, <1>3, <1>5 DEF Next
<1>7. QED BY <1>6
-----------------------------------------------------------------------------
(***************************************************************************)
(* Every event keeps every client right.                                   *)
(***************************************************************************)
LEMMA HandlerSeen ==
  ASSUME NEW c, NEW v, SoundStep(c, v), NEW p \in Peers, NEW m \in ClientMsgs, ReceiveMessage(p, m)
  PROVE  RightAfter(c, v)
<1>1. CASE BadMessage(p, m)
  BY <1>1, DisconnectUserSeen DEF BadMessage
<1>2. CASE Ignored(p, m)
  BY <1>2, NothingSeen DEF Ignored
<1>3. CASE OnVersion(p, m)
  <2>1. \/ DisconnectUser(p)
        \/ /\ state' = [state EXCEPT ![p] = "WaitingForLocalIP"]
           /\ sent' = Quiet /\ UNCHANGED <<link, name, games>>
    BY <1>3 DEF OnVersion
  <2>2. state[p] \in HandshakeStates /\ "WaitingForLocalIP" \in HandshakeStates
    BY <1>3 DEF OnVersion, HandshakeStates
  <2>3. QED BY <2>1, <2>2, HandshakeSeen, DisconnectUserSeen
<1>4. CASE OnLocalIP(p, m)
  <2> DEFINE s == IF m.ok THEN "WaitingForLogin" ELSE state[p]
  <2>1. state[p] \in HandshakeStates /\ s \in HandshakeStates
    BY <1>4 DEF OnLocalIP, HandshakeStates
  <2>2. state' = [state EXCEPT ![p] = s] /\ sent' = Quiet /\ UNCHANGED <<link, name, games>>
    BY <1>4 DEF OnLocalIP
  <2> HIDE DEF s
  <2>3. QED BY <2>1, <2>2, HandshakeSeen
<1>5. CASE OnLogin(p, m)
  BY <1>5, OnLoginSeen
<1>6. CASE OnCreate(p, m)
  BY <1>6, OnCreateSeen
<1>7. CASE OnJoin(p, m)
  BY <1>7, OnJoinSeen
<1>8. CASE OnLeave(p, m)
  BY <1>8, OnLeaveSeen
<1>9. CASE OnEject(p, m)
  BY <1>9, OnEjectSeen
<1>10. CASE OnApprove(p, m)
  BY <1>10, OnApproveSeen
<1>11. CASE OnStart(p, m)
  BY <1>11, OnStartSeen
<1>12. QED
  BY <1>1, <1>2, <1>3, <1>4, <1>5, <1>6, <1>7, <1>8, <1>9, <1>10, <1>11 DEF ReceiveMessage

LEMMA SentIsOutbox == ASSUME IInv, Next PROVE Outbox(sent')
<1>1. \/ SilentBox(sent')
      \/ \E p, q \in Peers : StartsWith(p, q)
  BY OthersAreSilent, StartStep DEF Next, ReceiveMessage
<1>2. QED BY <1>1 DEF SilentBox, StartsWith

LEMMA ViewsKept ==
  ASSUME IInv, ViewInv, ViewNext
  PROVE  ViewInv'
<1>1. Next /\ Linked(link, state) /\ told \in [Peers -> Views]
  BY DEF ViewNext, ViewInv
<1>2. IInv'
  BY <1>1, NextFits
<1>3. /\ Linked(link', state')
      /\ \A c \in Peers : /\ link[c] = "up" /\ state'[c] \in HandshakeStates
                              => state[c] \in HandshakeStates
                          /\ link[c] # "up" /\ link'[c] = "up"
                              => state'[c] = "WaitingForVersion" /\ sent' = Quiet
  BY <1>1, LinkedKept
<1>4. ASSUME NEW c \in Peers, link'[c] = "up"
      PROVE  RightAfter(c, told[c])
  <2> DEFINE v == told[c]
  <2>1. CASE link[c] # "up"
    <3>1. v = Fresh /\ sent' = Quiet /\ state'[c] = "WaitingForVersion"
      BY <1>3, <1>4, <2>1 DEF ViewInv
    <3>2. Sees(name'[c], c, v, sent') = Fresh
      BY <3>1, SeesQuiet
    <3>3. QED BY <3>1, <3>2, FreshIsView DEF RightAfter, Right, ActiveStates
  <2>2. CASE link[c] = "up" /\ v.left
    <3>1. Right(c, v, link, state, name, games) /\ ~Fresh.left
      BY <2>2, FreshIsView DEF ViewInv
    <3>2. state'[c] \notin HandshakeStates /\ v \in Views
      BY <1>3, <2>2, <3>1 DEF Right
    <3>3. Outbox(sent')
      BY <1>1, SentIsOutbox
    <3> HIDE DEF v
    <3>4. Sees(name'[c], c, v, sent') = v
      BY <2>2, <3>3, SeesNoMore
    <3>5. Right(c, v, link', state', name', games')
      BY <2>2, <3>2 DEF Right
    <3>6. QED BY <3>4, <3>5 DEF RightAfter, v
  <2>3. CASE link[c] = "up" /\ ~v.left
    <3>1. SoundStep(c, v)
      BY <1>1, <1>2, <1>3, <1>4, <2>3 DEF SoundStep, Sound, ViewInv
    <3> HIDE DEF v
    <3>2. RightAfter(c, v)
      BY <1>1, <3>1, NewConnectionSeen, LostConnectionSeen, HandlerSeen DEF Next
    <3>3. QED BY <3>2 DEF v
  <2>4. QED BY <2>1, <2>2, <2>3
<1>5. told' = [c \in Peers |-> IF link'[c] = "up" THEN Sees(name'[c], c, told[c], sent')
                               ELSE Fresh]
  BY DEF ViewNext, Sees
<1>6. \A c \in Peers : IF link'[c] = "up" THEN Right(c, told'[c], link', state', name', games')
                       ELSE told'[c] = Fresh
  BY <1>4, <1>5 DEF RightAfter
<1>7. told' \in [Peers -> Views]
  BY <1>5, <1>6, FreshIsView DEF Right
<1>8. QED BY <1>3, <1>6, <1>7 DEF ViewInv

LEMMA ViewsInit == ViewInit => ViewInv
<1> SUFFICES ASSUME ViewInit PROVE ViewInv
  OBVIOUS
<1>1. Linked(link, state)
  BY DEF ViewInit, Init, Linked
<1>2. QED BY <1>1, FreshIsView DEF ViewInit, Init, ViewInv

-----------------------------------------------------------------------------
(***************************************************************************)
(* The theorems.                                                           *)
(***************************************************************************)
\* Every client that is connected shows what the server has, from its login to its
\* START, whatever the clients send and in whatever order they come and go.
THEOREM ViewsStayRight == ViewSpec => [](IInv /\ ViewInv)
<1>1. ViewInit => IInv /\ ViewInv
  BY ViewsInit, InitFits DEF ViewInit
<1>2. IInv /\ ViewInv /\ [ViewNext]_viewVars => IInv' /\ ViewInv'
  <2> SUFFICES ASSUME IInv, ViewInv, [ViewNext]_viewVars PROVE IInv' /\ ViewInv'
    OBVIOUS
  <2>1. CASE ViewNext
    <3>1. [Next]_vars
      BY <2>1 DEF ViewNext
    <3>2. QED BY <2>1, <3>1, NextFits, ViewsKept
  <2>2. CASE UNCHANGED viewVars
    BY <2>2 DEF viewVars, vars, IInv, ViewInv
  <2>3. QED BY <2>1, <2>2
<1>3. QED BY <1>1, <1>2, PTL DEF ViewSpec

\* The callbacks of ServerConnection only ever hand out names users logged in with.
THEOREM ViewTypeCorrect == ViewSpec => []ViewTypeOK
<1>1. ViewInv => ViewTypeOK
  BY DEF ViewInv, ViewTypeOK
<1>2. QED BY <1>1, ViewsStayRight, PTL

\* BroadcastActiveUsers and BroadcastOpenGames are called by every handler that has to:
\* no logged in client is left with an old list of games or of players.
THEOREM ListsCurrentHolds == ViewSpec => []ListsCurrent
<1>1. IInv /\ ViewInv => ListsCurrent
  <2> SUFFICES ASSUME ViewInv, NEW c \in Listening
               PROVE  /\ told[c].games = [i \in DOMAIN games |-> name[games[i].creator]]
                      /\ told[c].players \ {name[q] : q \in {r \in Peers : link[r] = "closing"}}
                           = {name[q] : q \in {r \in ActivePlayers(state) : link[r] = "up"}}
    BY DEF ListsCurrent
  <2>1. Current(c, told[c], link, state, name, games)
    BY DEF Listening, ActivePlayers, ViewInv, Right
  <2>2. QED BY <2>1 DEF Current, PlayersRight, GamesFor, Leaving, UpPlayers
<1>2. QED BY <1>1, ViewsStayRight, PTL

\* SendInfoToAll and the CREATE, LEAVE and EJECT messages of five handlers together keep
\* the room of every client the room its user is in.
THEOREM RoomCurrentHolds == ViewSpec => []RoomCurrent
<1>1. IInv /\ ViewInv => RoomCurrent
  <2> SUFFICES ASSUME ViewInv, NEW c \in Listening
               PROVE  told[c].room =
                        IF \E i \in DOMAIN games : c \in Players(games[i])
                        THEN FullInfo(games[CHOOSE i \in DOMAIN games : c \in Players(games[i])])
                        ELSE NoRoom
    BY DEF RoomCurrent
  <2>1. Current(c, told[c], link, state, name, games)
    BY DEF Listening, ActivePlayers, ViewInv, Right
  <2>2. \A g : FullInfo(g) = InfoOf(g, name)
    BY DEF FullInfo, InfoOf
  <2>3. told[c].room = RoomFor(c, games, name)
    BY <2>1 DEF Current
  <2>4. QED BY <2>2, <2>3 DEF RoomFor
<1>2. QED BY <1>1, ViewsStayRight, PTL
=============================================================================
