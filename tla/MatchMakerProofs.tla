-------------------------- MODULE MatchMakerProofs --------------------------
(***************************************************************************)
(* Proofs about MatchMaker, for any number of clients and names, when each *)
(* connection is a new process: the menu of a client whose name needed no  *)
(* cleaning fits the room the server has it in, and the commands of every  *)
(* client find what they name.                                             *)
(*                                                                         *)
(* A menu goes by the order of the callbacks, a view only by the last of   *)
(* each kind.  Both are followed together, message by message: a list of   *)
(* games puts a menu right when it comes to one that agrees with the room  *)
(* shown, and what the handlers send before their last list keeps that.    *)
(***************************************************************************)
EXTENDS MatchMaker, MatchViewsProofs

-----------------------------------------------------------------------------
(***************************************************************************)
(* View and menu, one message after the other.                             *)
(***************************************************************************)
Follow(n, x, m) == [view |-> Hear(n, x.view, m),
                    menu |-> IF x.view.left THEN x.menu ELSE React(n, x.menu, m)]

\* h is what a client makes of s, message by message.
Follows(h, n, v, u, s) ==
    /\ DOMAIN h = 0..Len(s)
    /\ h[0] = [view |-> v, menu |-> u]
    /\ \A k \in 1..Len(s) : h[k] = Follow(n, h[k - 1], s[k])

LEMMA ReactAllFacts ==
  ASSUME NEW n, NEW v, NEW u, NEW s, Len(s) \in Nat
  PROVE  \E h : Follows(h, n, v, u, s) /\ ReactAll(n, v, u, s) = h[Len(s)].menu
<1> DEFINE l == Len(s)
           first == [view |-> v, menu |-> u]
           IsIt(f, j) == f = [k \in 0..j |-> IF k = 0 THEN first ELSE Follow(n, f[k - 1], s[k])]
           client[k \in 0..l] == IF k = 0 THEN first ELSE Follow(n, client[k - 1], s[k])
<1>1. ReactAll(n, v, u, s) = client[l].menu
  BY DEF ReactAll, Follow
<1> HIDE DEF first
<1>2. \E f : IsIt(f, l)
  <2> DEFINE T == {j \in Nat : \E f : IsIt(f, j)}
  <2>1. 0 \in T
    <3>1. IsIt([k \in 0..0 |-> first], 0)
      OBVIOUS
    <3>2. QED BY <3>1
  <2>2. ASSUME NEW j \in Nat, j \in T PROVE j + 1 \in T
    <3>1. PICK f : IsIt(f, j)
      BY <2>2
    <3> DEFINE h == [k \in 0..(j + 1) |-> IF k = j + 1 THEN Follow(n, f[j], s[j + 1]) ELSE f[k]]
    <3>2. IsIt(h, j + 1)
      <4>1. \A k \in 0..j : f[k] = IF k = 0 THEN first ELSE Follow(n, f[k - 1], s[k])
        BY <3>1
      <4>2. ASSUME NEW k \in 0..(j + 1)
            PROVE  h[k] = IF k = 0 THEN first ELSE Follow(n, h[k - 1], s[k])
        <5>1. CASE k = j + 1
          <6>1. k # 0 /\ k - 1 = j /\ j \in 0..(j + 1) /\ j # j + 1
            BY <5>1
          <6>2. h[k] = Follow(n, f[j], s[j + 1]) /\ h[j] = f[j]
            BY <5>1, <6>1
          <6>3. QED BY <5>1, <6>1, <6>2
        <5>2. CASE k # j + 1
          <6>1. k \in 0..j /\ h[k] = f[k] /\ k # 0 => h[k - 1] = f[k - 1]
            BY <5>2
          <6>2. QED BY <4>1, <6>1
        <5>3. QED BY <5>1, <5>2
      <4>3. QED BY <4>2
    <3> HIDE DEF h, IsIt
    <3>3. QED BY <3>2
  <2> HIDE DEF T
  <2>3. Nat \subseteq T
    BY <2>1, <2>2, SetInduction
  <2>4. QED BY <2>3 DEF T
<1>3. IsIt(client, l)
  <2>1. client = CHOOSE f : IsIt(f, l)
    OBVIOUS
  <2> HIDE DEF client, IsIt
  <2>2. QED BY <1>2, <2>1
<1> HIDE DEF client
<1>4. /\ DOMAIN client = 0..l /\ client[0] = first
      /\ \A k \in 1..l : client[k] = Follow(n, client[k - 1], s[k])
  <2>1. \A k \in 0..l : client[k] = IF k = 0 THEN first ELSE Follow(n, client[k - 1], s[k])
    BY <1>3
  <2>2. DOMAIN client = 0..l
    BY <1>3
  <2>3. QED BY <2>1, <2>2
<1> HIDE DEF IsIt
<1>5. Follows(client, n, v, u, s)
  BY <1>4 DEF Follows, first
<1>6. QED BY <1>1, <1>5

\* It makes one thing of them, and its view is the one MatchViews speaks of.
LEMMA FollowsOne ==
  ASSUME NEW n, NEW v, NEW u, NEW s, Len(s) \in Nat, NEW g, Follows(g, n, v, u, s)
  PROVE  ReactAll(n, v, u, s) = g[Len(s)].menu /\ HearAll(n, v, s) = g[Len(s)].view
<1>1. PICK h : Follows(h, n, v, u, s) /\ ReactAll(n, v, u, s) = h[Len(s)].menu
  BY ReactAllFacts
<1> DEFINE T == {j \in Nat : j <= Len(s) => g[j] = h[j]}
<1>2. 0 \in T
  BY <1>1 DEF Follows
<1>3. ASSUME NEW j \in Nat, j \in T PROVE j + 1 \in T
  <2>1. CASE j + 1 <= Len(s)
    <3>1. j + 1 \in 1..Len(s) /\ (j + 1) - 1 = j /\ g[j] = h[j]
      BY <1>3, <2>1
    <3>2. QED BY <1>1, <3>1 DEF Follows
  <2>2. QED BY <2>1
<1> HIDE DEF T
<1>4. Nat \subseteq T
  BY <1>2, <1>3, SetInduction
<1>5. g[Len(s)] = h[Len(s)]
  BY <1>4 DEF T
<1> DEFINE w == [k \in 0..Len(s) |-> g[k].view]
<1>6. Hears(w, n, v, s)
  <2>1. w[0] = v
    BY DEF Follows
  <2>2. ASSUME NEW k \in 1..Len(s) PROVE w[k] = Hear(n, w[k - 1], s[k])
    <3>1. g[k] = Follow(n, g[k - 1], s[k]) /\ w[k] = g[k].view /\ w[k - 1] = g[k - 1].view
      BY DEF Follows
    <3>2. Follow(n, g[k - 1], s[k]).view = Hear(n, g[k - 1].view, s[k])
      BY DEF Follow
    <3>3. QED BY <3>1, <3>2
  <2>3. QED BY <2>1, <2>2 DEF Hears
<1>7. HearAll(n, v, s) = w[Len(s)]
  BY <1>6, HearsOne
<1>8. QED BY <1>1, <1>5, <1>7

LEMMA ReactNothing == ASSUME NEW n, NEW v, NEW u PROVE ReactAll(n, v, u, <<>>) = u
<1>1. Len(<<>>) = 0
  BY EmptySeq
<1>2. Follows([k \in 0..0 |-> [view |-> v, menu |-> u]], n, v, u, <<>>)
  BY <1>1 DEF Follows
<1>3. QED BY <1>1, <1>2, FollowsOne

LEMMA ReactOne ==
  ASSUME NEW n, NEW v, NEW u, NEW m
  PROVE  ReactAll(n, v, u, <<m>>) = IF v.left THEN u ELSE React(n, u, m)
<1>1. Len(<<m>>) = 1 /\ <<m>>[1] = m
  OBVIOUS
<1> DEFINE x == [view |-> v, menu |-> u]
           y == Follow(n, x, m)
           g == [k \in 0..1 |-> IF k = 0 THEN x ELSE y]
           s == <<m>>
<1>2. y.menu = IF v.left THEN u ELSE React(n, u, m)
  BY DEF Follow
<1>3. Len(s) \in Nat /\ Len(s) = 1
  BY <1>1
<1>4. Follows(g, n, v, u, s)
  <2> HIDE DEF y
  <2>1. g[0] = x /\ g[1] = y /\ DOMAIN g = 0..1
    OBVIOUS
  <2> HIDE DEF g
  <2>2. \A k \in 1..1 : k = 1 /\ k - 1 = 0
    OBVIOUS
  <2>3. QED BY <1>1, <2>1, <2>2 DEF Follows, y
<1>5. g[1] = y
  OBVIOUS
<1> HIDE DEF g, s, x, y
<1>6. \A r, h : Len(r) \in Nat /\ Follows(h, n, v, u, r) => ReactAll(n, v, u, r) = h[Len(r)].menu
  BY FollowsOne
<1>7. ReactAll(n, v, u, s) = g[1].menu
  BY <1>3, <1>4, <1>6
<1>8. QED BY <1>2, <1>5, <1>7 DEF s

LEMMA ReactBoth ==
  ASSUME NEW n, NEW v, NEW u, NEW S, NEW s \in Seq(S), NEW t \in Seq(S)
  PROVE  ReactAll(n, v, u, s \o t) = ReactAll(n, HearAll(n, v, s), ReactAll(n, v, u, s), t)
<1> DEFINE r == s \o t
           a == Len(s)
           b == Len(t)
<1>1. /\ a \in Nat /\ b \in Nat /\ Len(r) = a + b
      /\ \A i \in 1..(a + b) : r[i] = IF i <= a THEN s[i] ELSE t[i - a]
  BY LenProperties, ConcatProperties
<1>2. PICK f : Follows(f, n, v, u, s)
  BY <1>1, ReactAllFacts
<1> DEFINE w == HearAll(n, v, s)
           x == ReactAll(n, v, u, s)
<1>3. w = f[a].view /\ x = f[a].menu
  BY <1>1, <1>2, FollowsOne
<1> HIDE DEF w, x
<1>4. PICK g : Follows(g, n, w, x, t)
  BY <1>1, ReactAllFacts
<1>5. ReactAll(n, w, x, t) = g[b].menu
  BY <1>1, <1>4, FollowsOne
<1> HIDE DEF r, a, b
<1>6. f[a] = [view |-> w, menu |-> x]
  <2>1. CASE a = 0
    BY <1>2, <1>3, <2>1 DEF Follows
  <2>2. CASE a # 0
    <3>1. f[a] = Follow(n, f[a - 1], s[a])
      BY <1>1, <1>2, <2>2 DEF Follows, a
    <3>2. QED BY <1>3, <3>1 DEF Follow
  <2>3. QED BY <2>1, <2>2
<1>7. /\ DOMAIN f = 0..a /\ f[0] = [view |-> v, menu |-> u]
      /\ \A k \in 1..a : f[k] = Follow(n, f[k - 1], s[k])
      /\ DOMAIN g = 0..b /\ g[0] = f[a] /\ \A k \in 1..b : g[k] = Follow(n, g[k - 1], t[k])
  BY <1>2, <1>4, <1>6 DEF Follows, a, b
<1> DEFINE h == [k \in 0..(a + b) |-> IF k <= a THEN f[k] ELSE g[k - a]]
<1>8. Follows(h, n, v, u, r)
  <2>1. h[0] = [view |-> v, menu |-> u]
    BY <1>1, <1>7
  <2>2. ASSUME NEW k \in 1..(a + b) PROVE h[k] = Follow(n, h[k - 1], r[k])
    <3>1. CASE k <= a
      <4>1. k \in 1..a /\ r[k] = s[k] /\ h[k] = f[k] /\ h[k - 1] = f[k - 1]
        BY <1>1, <3>1
      <4>2. QED BY <1>7, <4>1
    <3>2. CASE ~(k <= a)
      <4>1. k - a \in 1..b /\ r[k] = t[k - a] /\ h[k] = g[k - a]
        BY <1>1, <3>2
      <4>2. h[k - 1] = g[(k - a) - 1]
        BY <1>1, <1>7, <3>2
      <4>3. QED BY <1>7, <4>1, <4>2
    <3>3. QED BY <3>1, <3>2
  <2>3. QED BY <1>1, <2>1, <2>2 DEF Follows
<1>9. h[a + b] = g[b]
  <2>1. a + b \in 0..(a + b) /\ (a + b) - a = b /\ (a + b <= a => b = 0)
    BY <1>1
  <2>2. h[a + b] = IF a + b <= a THEN f[a + b] ELSE g[b]
    BY <2>1
  <2>3. b = 0 => a + b = a
    BY <1>1
  <2>4. QED BY <1>7, <2>1, <2>2, <2>3
<1> HIDE DEF h
<1>10. ReactAll(n, v, u, r) = g[b].menu
  <2>1. Len(r) \in Nat
    BY <1>1
  <2>2. ReactAll(n, v, u, r) = h[Len(r)].menu
    BY <1>8, <2>1, FollowsOne
  <2>3. QED BY <1>1, <1>9, <2>2
<1>11. QED BY <1>5, <1>10 DEF r, w, x
-----------------------------------------------------------------------------
(***************************************************************************)
(* What an outbox makes of the menu.                                       *)
(***************************************************************************)
Reacts(n, c, v, u, out) == ReactAll(n, v, u, out[c])

LEMMA ReactsQuiet ==
  ASSUME NEW n, NEW c \in Peers, NEW v, NEW u PROVE Reacts(n, c, v, u, Quiet) = u
  BY ReactNothing DEF Reacts, Quiet

LEMMA ReactsBoth ==
  ASSUME NEW n, NEW c \in Peers, NEW v, NEW u, NEW a, Outbox(a), NEW b, Outbox(b)
  PROVE  Reacts(n, c, v, u, a ++ b) = Reacts(n, c, Sees(n, c, v, a), Reacts(n, c, v, u, a), b)
<1> DEFINE s == a[c]
           t == b[c]
           S == ToSet(s) \cup ToSet(t)
<1>1. s \in Seq(ToSet(s)) /\ t \in Seq(ToSet(t)) /\ (a ++ b)[c] = s \o t
  BY DEF Outbox, ++
<1>2. s \in Seq(S) /\ t \in Seq(S)
  BY <1>1, SeqMonotonic
<1> HIDE DEF s, t, S
<1>3. ReactAll(n, v, u, s \o t) = ReactAll(n, HearAll(n, v, s), ReactAll(n, v, u, s), t)
  BY <1>2, ReactBoth
<1>4. QED BY <1>1, <1>3 DEF Reacts, Sees, s, t

LEMMA ReactsOne ==
  ASSUME NEW n, NEW c \in Peers, link[c] = "up", NEW v, NEW u, NEW S, NEW m
  PROVE  Reacts(n, c, v, u, SendTo(S, m)) = IF c \in S /\ ~v.left THEN React(n, u, m) ELSE u
<1>1. SendTo(S, m)[c] = IF c \in S THEN <<m>> ELSE <<>>
  BY DEF SendTo
<1>2. ReactAll(n, v, u, <<>>) = u /\ ReactAll(n, v, u, <<m>>) = IF v.left THEN u ELSE React(n, u, m)
  BY ReactNothing, ReactOne
<1>3. QED BY <1>1, <1>2 DEF Reacts

LEMMA ReactsGames ==
  ASSUME NEW n, NEW c \in Peers, link[c] = "up", NEW v, ~v.left, NEW u, NEW st, NEW gs
  PROVE  Reacts(n, c, v, u, BroadcastOpenGames(st, gs))
           = IF c \in ActivePlayers(st) THEN OnOpenGames(u, GamesFor(gs, name)) ELSE u
<1> DEFINE m == [type |-> "GamesOpen", list |-> GamesFor(gs, name)]
<1>1. m.type = "GamesOpen" /\ m.list = GamesFor(gs, name)
  OBVIOUS
<1>2. BroadcastOpenGames(st, gs) = SendTo(ActivePlayers(st), m)
  BY DEF BroadcastOpenGames, GamesFor
<1> HIDE DEF m
<1>3. React(n, u, m) = OnOpenGames(u, GamesFor(gs, name))
  BY <1>1 DEF React
<1>4. QED BY <1>2, <1>3, ReactsOne

\* The list of players goes to another callback.
LEMMA ReactsLists ==
  ASSUME NEW n, NEW c \in Peers, link[c] = "up", NEW v, ~v.left, NEW u, NEW st, NEW nm, NEW gs
  PROVE  Reacts(n, c, v, u, BroadcastActiveUsers(st, nm, gs))
           = IF c \in ActivePlayers(st) THEN OnOpenGames(u, GamesFor(gs, name)) ELSE u
<1> DEFINE m == [type |-> "PlayersActive", list |-> PlayersFor(st, nm)]
           a == SendTo(ActivePlayers(st), m)
           b == BroadcastOpenGames(st, gs)
           w == Sees(n, c, v, a)
<1>1. m.type = "PlayersActive" /\ m.list = PlayersFor(st, nm)
  OBVIOUS
<1>2. BroadcastActiveUsers(st, nm, gs) = a ++ b
  BY DEF BroadcastActiveUsers, PlayersFor
<1>3. Outbox(a) /\ Outbox(b)
  BY SendFacts, BroadcastsAreSilent DEF SilentBox
<1> HIDE DEF m
<1>4. React(n, u, m) = u
  BY <1>1 DEF React
<1>5. Reacts(n, c, v, u, a) = u
  BY <1>4, ReactsOne
<1>6. ~w.left
  <2>1. Hear(n, v, m) = [v EXCEPT !.players = PlayersFor(st, nm)]
    BY <1>1 DEF Hear
  <2>2. w = IF c \in ActivePlayers(st) THEN [v EXCEPT !.players = PlayersFor(st, nm)] ELSE v
    BY <2>1, SeesOne
  <2>3. QED BY <2>2
<1> HIDE DEF a, b, w
<1>7. Reacts(n, c, v, u, a ++ b) = Reacts(n, c, w, u, b)
  BY <1>3, <1>5, ReactsBoth DEF w
<1>8. Reacts(n, c, w, u, b)
        = IF c \in ActivePlayers(st) THEN OnOpenGames(u, GamesFor(gs, name)) ELSE u
  BY <1>6, ReactsGames DEF b
<1>9. QED BY <1>2, <1>7, <1>8

LEMMA ReactsInfo ==
  ASSUME NEW n, NEW c \in Peers, link[c] = "up", NEW v, ~v.left, NEW u, NEW g
  PROVE  Reacts(n, c, v, u, SendInfoToAll(g))
           = IF c \in Players(g) THEN OnGameInfo(u, FullInfo(g)) ELSE u
<1> DEFINE m == [type |-> "GameInfo", info |-> FullInfo(g)]
<1>1. m.type = "GameInfo" /\ m.info = FullInfo(g)
  OBVIOUS
<1>2. SendInfoToAll(g) = SendTo(Players(g), m)
  BY DEF SendInfoToAll
<1> HIDE DEF m
<1>3. React(n, u, m) = OnGameInfo(u, FullInfo(g))
  BY <1>1 DEF React
<1>4. QED BY <1>2, <1>3, ReactsOne

LEMMA ReactsOver ==
  ASSUME NEW n, NEW c \in Peers, link[c] = "up", NEW v, ~v.left, NEW u, NEW S, NEW m,
         m.type \in {"Leave", "Eject"}
  PROVE  Reacts(n, c, v, u, SendTo(S, m)) = IF c \in S THEN OnRemoved(u) ELSE u
<1>1. React(n, u, m) = OnRemoved(u)
  BY DEF React
<1>2. QED BY <1>1, ReactsOne

LEMMA ReactsNothing ==
  ASSUME NEW n, NEW c \in Peers, link[c] = "up", NEW v, NEW u, NEW S, NEW m,
         m.type \in {"Create", "Approve", "Login"}
  PROVE  Reacts(n, c, v, u, SendTo(S, m)) = u
<1>1. React(n, u, m) = u
  BY DEF React
<1>2. QED BY <1>1, ReactsOne
-----------------------------------------------------------------------------
(***************************************************************************)
(* A menu and the room shown beside it.                                    *)
(***************************************************************************)
Shaped(u) == DOMAIN u = {"logged", "mode", "open", "asked", "joined", "removed"}

\* NewMenu, whatever was typed.
IsNew(u) ==
    /\ Shaped(u)
    /\ u.mode = "not_connected" /\ u.open = <<>> /\ ~u.removed
    /\ u.asked = {} /\ u.joined = {}

\* The next list of games will put the menu right.  The modes that go by the name that was
\* typed are promised to those whose name was not cleaned.
Ready(n, v, u) ==
    /\ Shaped(u)
    /\ u.asked = v.room.pending
    /\ v.room.joined # {} \/ v.room.pending # {} => u.joined = v.room.joined
    /\ v.room.creator \notin {n, NoName} => ~u.removed /\ u.mode # "allow_deny_leave"
    /\ v.room.creator = n /\ v.room.pending # {} => u.mode = "allow_deny_leave"
    /\ u.logged = n /\ v.room.creator \notin {n, NoName}
          => u.mode \in {"requested_to_join", "default"}

\* The menu is right.
Settled(n, v, u) ==
    /\ Ready(n, v, u)
    /\ v.room.creator # n => u.open = v.games /\ u.mode # "allow_deny_leave"
    /\ u.logged = n =>
         /\ v.room.creator # n /\ n \in v.room.pending => u.mode = "requested_to_join"
         /\ v.room.creator = n => u.mode \in {"wait_to_join", "allow_deny_leave"}
         /\ v.room.creator = NoName => u.mode = "default"

\* The list of games agrees with the room: n is on it when n hosts.
Agrees(n, room, list) ==
    /\ n \in ToSet(list) <=> room.creator = n
    /\ room.creator # NoName => list # <<>>
    /\ room.creator = NoName => room.pending = {} /\ room.joined = {}

LEMMA NewMenuIsReady ==
  ASSUME NEW n, n # NoName, NEW u, IsNew(u) PROVE Ready(n, Fresh, u)
<1>1. Fresh.room = NoRoom
  BY DEF Fresh
<1>2. NoRoom.creator = NoName /\ NoRoom.pending = {} /\ NoRoom.joined = {}
  BY DEF NoRoom
<1>3. Shaped(u) /\ u.asked = {} /\ u.joined = {}
  BY DEF IsNew
<1>4. QED BY <1>1, <1>2, <1>3 DEF Ready

\* A list of games.
LEMMA ListSettles ==
  ASSUME NEW n, n # NoName, NEW v, NEW u, Ready(n, v, u), NEW list, Agrees(n, v.room, list),
         NEW w, w.room = v.room, w.games = list
  PROVE  Settled(n, w, OnOpenGames(u, list))
<1> DEFINE x == OnOpenGames(u, list)
           r == v.room
<1>1. /\ Shaped(u) /\ u.asked = r.pending /\ w.room = r
      /\ r.joined # {} \/ r.pending # {} => u.joined = r.joined
      /\ r.creator \notin {n, NoName} => ~u.removed /\ u.mode # "allow_deny_leave"
      /\ r.creator = n /\ r.pending # {} => u.mode = "allow_deny_leave"
      /\ n \in ToSet(list) <=> r.creator = n
      /\ r.creator # NoName => list # <<>>
      /\ r.creator = NoName => r.pending = {} /\ r.joined = {}
  BY DEF Ready, Agrees
<1> HIDE DEF r
<1>2. CASE u.mode = "allow_deny_leave" /\ u.asked # {}
  <2>1. x = u
    BY <1>2 DEF OnOpenGames
  <2>2. r.creator = n
    BY <1>1, <1>2
  <2> HIDE DEF x
  <2>3. QED BY <1>1, <1>2, <2>1, <2>2 DEF Settled, Ready, x
<1>3. CASE ~(u.mode = "allow_deny_leave" /\ u.asked # {})
  <2>1. x = ShowGames(u, list)
    BY <1>3 DEF OnOpenGames
  <2>2. CASE list = <<>>
    <3> ToSet(<<>>) = {}
      BY EmptySeq DEF ToSet
    <3>1. x = [[u EXCEPT !.open = list] EXCEPT !.mode = "default", !.removed = FALSE]
      BY <2>1, <2>2 DEF ShowGames
    <3>2. /\ Shaped(x) /\ x.asked = u.asked /\ x.joined = u.joined /\ x.open = list
          /\ x.mode = "default"
      BY <1>1, <3>1 DEF Shaped
    <3> HIDE DEF x
    <3>3. r.creator = NoName /\ r.pending = {} /\ r.joined = {}
      BY <1>1, <2>2
    <3>4. QED BY <1>1, <3>2, <3>3 DEF Settled, Ready, x
  <2>3. CASE list # <<>> /\ u.logged \in ToSet(list)
    <3>1. x = [[u EXCEPT !.open = list] EXCEPT !.mode = "wait_to_join"]
      BY <2>1, <2>3 DEF ShowGames
    <3>2. /\ Shaped(x) /\ x.asked = u.asked /\ x.joined = u.joined /\ x.removed = u.removed
          /\ x.logged = u.logged /\ x.open = list /\ x.mode = "wait_to_join"
      BY <1>1, <3>1 DEF Shaped
    <3> HIDE DEF x
    <3>3. u.logged = n => r.creator = n
      BY <1>1, <2>3
    <3>4. r.creator = n => r.pending = {}
      BY <1>1, <1>3
    <3>5. QED BY <1>1, <3>2, <3>3, <3>4 DEF Settled, Ready, x
  <2>4. CASE list # <<>> /\ u.logged \notin ToSet(list)
    <3> DEFINE mode == IF u.logged \in u.asked /\ ~u.removed THEN "requested_to_join" ELSE "default"
    <3>1. x = [[u EXCEPT !.open = list] EXCEPT !.mode = mode]
      BY <2>1, <2>4 DEF ShowGames
    <3>2. /\ Shaped(x) /\ x.asked = u.asked /\ x.joined = u.joined /\ x.removed = u.removed
          /\ x.logged = u.logged /\ x.open = list /\ x.mode = mode
      BY <1>1, <3>1 DEF Shaped
    <3> HIDE DEF x
    <3>3. u.logged = n => r.creator # n
      BY <1>1, <2>4
    <3>4. r.creator = n => r.pending = {}
      BY <1>1, <1>3
    <3>5. r.creator = NoName => r.pending = {}
      BY <1>1
    <3>6. QED BY <1>1, <3>2, <3>3, <3>4, <3>5 DEF Settled, Ready, x
  <2>5. QED BY <2>2, <2>3, <2>4
<1>4. QED BY <1>2, <1>3

\* LEAVE and EJECT.
LEMMA RemovedIsReady ==
  ASSUME NEW n, n # NoName, NEW u, Shaped(u), NEW w, w.room = NoRoom
  PROVE  Ready(n, w, OnRemoved(u))
<1>1. NoRoom.creator = NoName /\ NoRoom.pending = {} /\ NoRoom.joined = {}
  BY DEF NoRoom
<1>2. Shaped(OnRemoved(u)) /\ OnRemoved(u).asked = {}
  BY DEF OnRemoved, Shaped
<1>3. QED BY <1>1, <1>2 DEF Ready

\* GAMEINFO, of the room that is shown or of one to join.
LEMMA InfoFacts ==
  ASSUME NEW u, Shaped(u), NEW info, NEW x, x = OnGameInfo(u, info)
  PROVE  /\ Shaped(x) /\ x.asked = info.pending /\ x.joined = info.joined /\ ~x.removed
         /\ x.mode = u.mode /\ x.open = u.open /\ x.logged = u.logged
  BY DEF OnGameInfo, Shaped

LEMMA InfoReady ==
  ASSUME NEW n, n # NoName, NEW v, NEW u, Settled(n, v, u), NEW info, NEW w, w.room = info,
         \/ info.creator = v.room.creator
         \/ v.room.creator = NoName /\ info.creator # n,
         info.creator = n /\ info.pending # {} => v.room.pending # {}
  PROVE  Ready(n, w, OnGameInfo(u, info))
<1> DEFINE x == OnGameInfo(u, info)
<1>1. /\ Shaped(x) /\ x.asked = info.pending /\ x.joined = info.joined /\ ~x.removed
      /\ x.mode = u.mode /\ x.open = u.open /\ x.logged = u.logged
  <2>1. Shaped(u)
    BY DEF Settled, Ready
  <2>2. QED BY <2>1, InfoFacts
<1> HIDE DEF x
<1>2. /\ v.room.creator = n /\ v.room.pending # {} => u.mode = "allow_deny_leave"
      /\ v.room.creator # n => u.mode # "allow_deny_leave"
      /\ u.logged = n /\ v.room.creator \notin {n, NoName}
           => u.mode \in {"requested_to_join", "default"}
      /\ u.logged = n /\ v.room.creator = NoName => u.mode = "default"
  BY DEF Ready, Settled
<1>3. info.creator = n /\ info.pending # {} => u.mode = "allow_deny_leave"
  BY <1>2
<1>4. info.creator \notin {n, NoName} => u.mode # "allow_deny_leave"
  BY <1>2
<1>5. u.logged = n /\ info.creator \notin {n, NoName} => u.mode \in {"requested_to_join", "default"}
  BY <1>2
<1>6. Ready(n, w, x)
  BY <1>1, <1>3, <1>4, <1>5 DEF Ready
<1>7. QED BY <1>6 DEF x

LEMMA InfoSettled ==
  ASSUME NEW n, n # NoName, NEW v, NEW u, Settled(n, v, u), NEW info, NEW w, w.room = info,
         w.games = v.games,
         info.creator = v.room.creator, info.creator # NoName,
         info.creator = n /\ info.pending # {} => v.room.pending # {},
         n \in info.pending => n \in v.room.pending
  PROVE  Settled(n, w, OnGameInfo(u, info))
<1> DEFINE x == OnGameInfo(u, info)
<1>1. \/ info.creator = v.room.creator
      \/ v.room.creator = NoName /\ info.creator # n
  OBVIOUS
<1>2. Ready(n, w, x)
  BY <1>1, InfoReady
<1>3. x.mode = u.mode /\ x.open = u.open /\ x.logged = u.logged
  BY InfoFacts DEF Settled, Ready
<1> HIDE DEF x
<1>4. QED BY <1>2, <1>3 DEF Settled, x

\* JOIN behind it: to the host and to who asked.
LEMMA AskedSettled ==
  ASSUME NEW n, n # NoName, NEW v, NEW u, Settled(n, v, u), NEW info, NEW w, w.room = info,
         w.games = v.games, info.creator = n, NEW who, who # n
  PROVE  Settled(n, w, OnJoinRequest(n, OnGameInfo(u, info), who))
<1> DEFINE y == OnGameInfo(u, info)
           x == OnJoinRequest(n, y, who)
<1>1. Shaped(y) /\ y.asked = info.pending /\ y.joined = info.joined
  BY DEF OnGameInfo, Shaped, Settled, Ready
<1> HIDE DEF y
<1>2. /\ Shaped(x) /\ x.asked = info.pending /\ x.joined = info.joined
      /\ x.mode = "allow_deny_leave"
  BY <1>1 DEF OnJoinRequest, Shaped
<1> HIDE DEF x
<1>3. Settled(n, w, x)
  BY <1>2 DEF Settled, Ready
<1>4. QED BY <1>3 DEF x, y

LEMMA AskingSettled ==
  ASSUME NEW n, NEW v, NEW u, Settled(n, v, u), v.room.creator = NoName, n # NoName,
         NEW info, NEW w, w.room = info, w.games = v.games, info.creator \notin {n, NoName}
  PROVE  Settled(n, w, OnJoinRequest(n, OnGameInfo(u, info), n))
<1> DEFINE y == OnGameInfo(u, info)
           x == OnJoinRequest(n, y, n)
<1>1. /\ Shaped(y) /\ y.asked = info.pending /\ y.joined = info.joined
      /\ y.removed = FALSE /\ y.open = u.open
  BY DEF OnGameInfo, Shaped, Settled, Ready
<1> HIDE DEF y
<1>2. /\ Shaped(x) /\ x.asked = info.pending /\ x.joined = info.joined /\ ~x.removed
      /\ x.open = u.open
      /\ x.mode = "requested_to_join"
  BY <1>1 DEF OnJoinRequest, Shaped
<1> HIDE DEF x
<1>3. Settled(n, w, x)
  BY <1>2 DEF Settled, Ready
<1>4. QED BY <1>3 DEF x, y
-----------------------------------------------------------------------------
(***************************************************************************)
(* The server's list agrees with the server's rooms.                       *)
(***************************************************************************)
LEMMA NamedInList ==
  ASSUME NEW gs, NEW st, NEW nm, Fit(gs, st, nm), NEW c \in Peers, nm[c] # NoName
  PROVE  /\ nm[c] \in ToSet(GamesFor(gs, nm)) <=> \E i \in DOMAIN gs : gs[i].creator = c
         /\ \A i \in DOMAIN gs : GamesFor(gs, nm) # <<>>
<1>1. ToSet(GamesFor(gs, nm)) = {nm[gs[i].creator] : i \in DOMAIN gs}
  BY DEF ToSet, GamesFor
<1>2. \A i \in DOMAIN gs : gs[i].creator \in Peers
  BY PlayerFacts DEF Players
<1>3. \A i \in DOMAIN gs : nm[gs[i].creator] = nm[c] => gs[i].creator = c
  BY <1>2 DEF Fit, NamesFit
<1>4. ToSet(<<>>) = {}
  BY EmptySeq DEF ToSet
<1>5. \A i \in DOMAIN gs : ToSet(GamesFor(gs, nm)) # {}
  BY <1>1
<1>6. QED BY <1>1, <1>3, <1>4, <1>5

LEMMA AgreesWithRoom ==
  ASSUME NEW gs, NEW st, NEW nm, Fit(gs, st, nm), NEW c \in Peers, nm[c] # NoName
  PROVE  Agrees(nm[c], RoomFor(c, gs, nm), GamesFor(gs, nm))
<1> DEFINE list == GamesFor(gs, nm)
           r == RoomFor(c, gs, nm)
<1>1. /\ nm[c] \in ToSet(list) <=> \E i \in DOMAIN gs : gs[i].creator = c
      /\ \A i \in DOMAIN gs : list # <<>>
  BY NamedInList
<1> HIDE DEF list
<1>2. CASE \E i \in DOMAIN gs : c \in Players(gs[i])
  <2>1. PICK i \in DOMAIN gs : c \in Players(gs[i])
    BY <1>2
  <2>2. r = InfoOf(gs[i], nm)
    BY <2>1, RoomIs DEF Fit
  <2>3. r.creator = nm[gs[i].creator]
    BY <2>2 DEF InfoOf
  <2>4. gs[i].creator \in Players(gs[i])
    BY DEF Players
  <2>5. gs[i].creator \in Peers /\ r.creator # NoName
    BY <2>3, <2>4, PlayerFacts
  <2>6. r.creator = nm[c] <=> gs[i].creator = c
    BY <2>3, <2>5 DEF Fit, NamesFit
  <2>7. \A j \in DOMAIN gs : gs[j].creator = c => j = i
    BY <2>1, OneGame DEF Players, Fit
  <2> HIDE DEF r
  <2>8. QED BY <1>1, <2>5, <2>6, <2>7 DEF Agrees, r, list
<1>3. CASE \A i \in DOMAIN gs : c \notin Players(gs[i])
  <2>1. r = NoRoom
    BY <1>3, NoRoomIs
  <2>2. NoRoom.creator = NoName /\ NoRoom.pending = {} /\ NoRoom.joined = {}
    BY DEF NoRoom
  <2>3. \A i \in DOMAIN gs : gs[i].creator # c
    BY <1>3 DEF Players
  <2> HIDE DEF r
  <2>4. QED BY <1>1, <2>1, <2>2, <2>3 DEF Agrees, r, list
<1>4. QED BY <1>2, <1>3

\* KillGame has taken c out of its game, which is still listed.
LEMMA AgreesWithNone ==
  ASSUME NEW gs, NEW st, NEW nm, Fit(gs, st, nm), NEW i \in DOMAIN gs,
         NEW c, c \in gs[i].pending \cup gs[i].joined
  PROVE  Agrees(nm[c], NoRoom, GamesFor(gs, nm))
<1>1. c \in Players(gs[i])
  BY DEF Players
<1>2. c \in Peers /\ nm[c] # NoName
  BY <1>1, PlayerFacts
<1>3. \A j \in DOMAIN gs : gs[j].creator # c
  <2>1. gs[i].creator # c
    BY DEF Fit, GameFits
  <2>2. QED BY <1>1, <2>1, OneGame DEF Players, Fit
<1>4. nm[c] \notin ToSet(GamesFor(gs, nm))
  BY <1>2, <1>3, NamedInList
<1>5. NoRoom.creator = NoName /\ NoRoom.pending = {} /\ NoRoom.joined = {}
  BY DEF NoRoom
<1>6. QED BY <1>2, <1>4, <1>5 DEF Agrees
-----------------------------------------------------------------------------
(***************************************************************************)
(* Event by event: a client that is up before and after it.                *)
(***************************************************************************)
\* u is the menu of the client of slot c, which shows v.
MenuRight(c, v, u, st, nm) ==
    /\ st[c] \in HandshakeStates => IsNew(u)
    /\ st[c] \in ActiveStates /\ ~v.left => Settled(nm[c], v, u)

\* What MatchViewsProofs shows of the view is given.
MenuStep(c, v, u) ==
    SoundStep(c, v) /\ RightAfter(c, v) /\ MenuRight(c, v, u, state, name)

MenuAfter(c, v, u) ==
    MenuRight(c, Sees(name'[c], c, v, sent'), Reacts(name'[c], c, v, u, sent'), state', name')

LEMMA SoundMenu ==
  ASSUME NEW c, NEW v, NEW u, MenuStep(c, v, u)
  PROVE  /\ Sound(c, v) /\ Fit(games, state, name) /\ Fit(games', state', name')
         /\ link \in [Peers -> LinkStates] /\ Linked(link, state)
         /\ c \in Peers /\ link[c] = "up" /\ link'[c] = "up"
         /\ v \in Views /\ ~v.left /\ v.room = RoomFor(c, games, name)
         /\ Shaped(u) /\ (c \in ActivePlayers(state) <=> state[c] \in ActiveStates)
         /\ \/ state[c] \in ActiveStates /\ name[c] # NoName /\ Settled(name[c], v, u)
            \/ state[c] \in HandshakeStates /\ IsNew(u) /\ v = Fresh
<1>1. Sound(c, v) /\ IInv /\ IInv' /\ link'[c] = "up"
  BY DEF MenuStep, SoundStep, Sound
<1>2. /\ v \in Views /\ ~v.left /\ v.room = RoomFor(c, games, name)
      /\ state[c] \in ActiveStates \cup HandshakeStates
      /\ state[c] \in HandshakeStates => v = Fresh
  BY <1>1, SoundRoom
<1>3. c \in Peers /\ link[c] = "up" /\ Linked(link, state)
  BY <1>1 DEF Sound
<1>4. state[c] \in ActiveStates => name[c] # NoName
  BY <1>1, <1>3 DEF IInv, Fit, NamesFit
<1>5. IsNew(u) => Shaped(u)
  BY DEF IsNew
<1>6. \/ state[c] \in ActiveStates /\ name[c] # NoName /\ Settled(name[c], v, u)
      \/ state[c] \in HandshakeStates /\ IsNew(u) /\ v = Fresh
  BY <1>2, <1>4 DEF MenuStep, MenuRight
<1>7. Shaped(u)
  BY <1>5, <1>6 DEF Settled, Ready
<1>8. QED BY <1>1, <1>2, <1>3, <1>6, <1>7 DEF IInv, ActivePlayers

LEMMA QuietMenu ==
  ASSUME NEW c, NEW v, NEW u, MenuStep(c, v, u), sent' = Quiet, UNCHANGED name,
         state'[c] \in HandshakeStates => state[c] \in HandshakeStates,
         state'[c] \in ActiveStates => state[c] \in ActiveStates
  PROVE  MenuAfter(c, v, u)
<1>1. c \in Peers
  BY SoundMenu
<1>2. Sees(name'[c], c, v, sent') = v /\ Reacts(name'[c], c, v, u, sent') = u
  BY <1>1, SeesQuiet, ReactsQuiet
<1>3. QED BY <1>2 DEF MenuStep, MenuRight, MenuAfter

\* The tail of a handler that ends with a list of games.
LEMMA EndsWithGames ==
  ASSUME NEW c, NEW v, NEW u, MenuStep(c, v, u), NEW w \in Views, ~w.left, NEW x, NEW d,
         \/ d = BroadcastActiveUsers(state', name', games')
         \/ d = BroadcastOpenGames(state', games'),
         GamesFor(games', name) = GamesFor(games', name'),
         state'[c] \in ActiveStates => Ready(name'[c], w, x),
         state'[c] \in HandshakeStates => IsNew(x),
         Sees(name'[c], c, v, sent') = Sees(name'[c], c, w, d),
         Reacts(name'[c], c, v, u, sent') = Reacts(name'[c], c, w, x, d)
  PROVE  MenuAfter(c, v, u)
<1> DEFINE gs == games'
           st == state'
           nm == name'
           list == GamesFor(gs, nm)
           y == Sees(nm[c], c, w, d)
           z == Reacts(nm[c], c, w, x, d)
<1>1. Fit(gs, st, nm) /\ c \in Peers /\ link[c] = "up"
  BY SoundMenu
<1>2. list = GamesFor(gs, name)
  OBVIOUS
<1>3. Sees(name'[c], c, v, sent') = y /\ Reacts(name'[c], c, v, u, sent') = z
  OBVIOUS
<1>4. d = BroadcastActiveUsers(st, nm, gs) \/ d = BroadcastOpenGames(st, gs)
  OBVIOUS
<1>5. /\ st[c] \in ActiveStates => Ready(nm[c], w, x)
      /\ st[c] \in HandshakeStates => IsNew(x)
      /\ st[c] \in ActiveStates /\ ~y.left => y.room = RoomFor(c, gs, nm)
  BY DEF MenuStep, RightAfter, Right, Current
<1> HIDE DEF gs, st, nm, list, y, z
<1>6. z = IF c \in ActivePlayers(st) THEN OnOpenGames(x, list) ELSE x
  <2>1. CASE d = BroadcastActiveUsers(st, nm, gs)
    BY <1>1, <1>2, <2>1, ReactsLists DEF z
  <2>2. CASE d = BroadcastOpenGames(st, gs)
    BY <1>1, <1>2, <2>2, ReactsGames DEF z
  <2>3. QED BY <1>4, <2>1, <2>2
<1>7. c \in ActivePlayers(st) => y.room = w.room /\ y.games = list /\ ~y.left
  <2>1. list \in Seq(Names) /\ PlayersFor(st, nm) \subseteq Names
    BY <1>1, ListsTyped DEF list
  <2>2. CASE d = BroadcastActiveUsers(st, nm, gs)
    <3>1. c \in ActivePlayers(st) => y = Listed(w, st, nm, gs)
      BY <1>1, <2>2, SeesLists DEF y
    <3>2. GamesFor(gs, name) \in Seq(Names)
      BY <1>2, <2>1
    <3>3. LET g == Listed(w, st, nm, gs)
          IN  g.room = w.room /\ g.games = GamesFor(gs, name) /\ ~g.left
      BY <2>1, <3>2, ListedFacts
    <3>4. QED BY <1>2, <3>1, <3>3
  <2>3. CASE d = BroadcastOpenGames(st, gs)
    <3>1. c \in ActivePlayers(st) => y = [w EXCEPT !.games = list]
      BY <1>1, <1>2, <2>3, SeesGames DEF y
    <3>2. LET g == [w EXCEPT !.games = list] IN g.room = w.room /\ g.games = list /\ ~g.left
      BY <2>1, UpdatedViews
    <3>3. QED BY <3>1, <3>2
  <2>4. QED BY <1>4, <2>2, <2>3
<1>8. st[c] \in ActiveStates => Settled(nm[c], y, z)
  <2>1. SUFFICES ASSUME st[c] \in ActiveStates PROVE Settled(nm[c], y, z)
    OBVIOUS
  <2>2. c \in ActivePlayers(st) /\ nm[c] # NoName
    BY <1>1, <2>1 DEF ActivePlayers, Fit, NamesFit
  <2>3. Agrees(nm[c], RoomFor(c, gs, nm), list)
    BY <1>1, <2>2, AgreesWithRoom DEF list
  <2>4. Settled(nm[c], y, OnOpenGames(x, list))
    BY <1>5, <1>7, <2>1, <2>2, <2>3, ListSettles
  <2>5. QED BY <1>6, <2>2, <2>4
<1>9. st[c] \in HandshakeStates => IsNew(z)
  <2>1. st[c] \in HandshakeStates => c \notin ActivePlayers(st)
    BY DEF HandshakeStates, ActivePlayers, ActiveStates
  <2>2. QED BY <1>5, <1>6, <2>1
<1>10. QED BY <1>3, <1>8, <1>9 DEF MenuAfter, MenuRight, st, nm

LEMMA SettledIsReady == ASSUME NEW n, NEW v, NEW u, Settled(n, v, u) PROVE Ready(n, v, u)
  BY DEF Settled
-----------------------------------------------------------------------------
(***************************************************************************)
(* RemoveUserFromAnyGames.                                                 *)
(***************************************************************************)
\* The menu is ready, and the games the server has now agree with the room.
Suits(n, v, u) ==
    n # NoName /\ Ready(n, v, u) /\ Agrees(n, v.room, GamesFor(games, name))

\* KillGame, one player: a list with the game still on it, then EJECT.
LEMMA ReleaseReacts ==
  ASSUME Fit(games, state, name), link \in [Peers -> LinkStates], Linked(link, state),
         NEW i \in DOMAIN games, NEW order, NEW k,
         {order[j] : j \in 1..k} \subseteq games[i].pending \cup games[i].joined,
         NEW n, NEW c \in Peers, link[c] = "up", NEW v \in Views, ~v.left, NEW u
  PROVE  /\ c \in ActivePlayers(state) /\ Suits(n, v, u)
               => Ready(n, Sees(n, c, v, Release(games[i], order, k)),
                           Reacts(n, c, v, u, Release(games[i], order, k)))
         /\ c \notin ActivePlayers(state) /\ c # order[k]
               => Reacts(n, c, v, u, Release(games[i], order, k)) = u
<1> DEFINE st == Released(order, k)
           list == GamesFor(games, name)
           m == [type |-> "Eject", who |-> name[games[i].creator]]
           a == BroadcastActiveUsers(st, name, games)
           b == SendTo({order[k]}, m)
           r == Release(games[i], order, k)
           y == Sees(n, c, v, a)
           z == Reacts(n, c, v, u, a)
           w == Sees(n, c, v, r)
           x == Reacts(n, c, v, u, r)
<1>1. m.type \in {"Leave", "Eject"}
  OBVIOUS
<1>2. /\ \A q \in ActivePlayers(st) : name[q] \in Names
      /\ c \in ActivePlayers(st) <=> c \in ActivePlayers(state)
  BY ReleasedPlayers DEF Released
<1>3. PlayersFor(st, name) \subseteq Names /\ list \in Seq(Names)
  BY <1>2, ListsTyped DEF PlayersFor
<1>4. y = IF c \in ActivePlayers(st) THEN Listed(v, st, name, games) ELSE v
  BY SeesLists
<1>5. z = IF c \in ActivePlayers(st) THEN OnOpenGames(u, list) ELSE u
  BY ReactsLists
<1>6. Outbox(a) /\ Outbox(b)
  BY SendFacts, BroadcastsAreSilent DEF SilentBox
<1>7. r = a ++ b
  BY DEF Release
<1> HIDE DEF m, st
<1>8. /\ y \in Views /\ ~y.left /\ y.room = v.room
      /\ c \in ActivePlayers(st) => y.games = list
  BY <1>3, <1>4, ListedFacts
<1> HIDE DEF a, b, y, z, r
<1>9. w = Sees(n, c, y, b) /\ x = Reacts(n, c, y, z, b)
  BY <1>6, <1>7, SeesBoth, ReactsBoth DEF y, z
<1> HIDE DEF w, x
<1>10. x = IF c = order[k] THEN OnRemoved(z) ELSE z
  BY <1>1, <1>8, <1>9, ReactsOver DEF b
<1>11. w = IF c = order[k] THEN [y EXCEPT !.room = NoRoom] ELSE y
  BY <1>1, <1>8, <1>9, SeesOver DEF b
<1>12. ASSUME c \in ActivePlayers(state), Suits(n, v, u)
       PROVE  Ready(n, w, x)
  <2>1. n # NoName /\ Ready(n, v, u) /\ Agrees(n, v.room, list)
    BY <1>12 DEF Suits
  <2> HIDE DEF list
  <2>2. Settled(n, y, OnOpenGames(u, list))
    BY <1>2, <1>8, <1>12, <2>1, ListSettles
  <2>3. Settled(n, y, z)
    BY <1>2, <1>5, <1>12, <2>2
  <2>4. CASE c = order[k]
    <3>1. [y EXCEPT !.room = NoRoom].room = NoRoom
      BY <1>8 DEF Views
    <3>2. w.room = NoRoom /\ x = OnRemoved(z) /\ Shaped(z)
      BY <1>10, <1>11, <2>3, <2>4, <3>1 DEF Settled, Ready
    <3>3. QED BY <2>1, <3>2, RemovedIsReady
  <2>5. CASE c # order[k]
    BY <1>10, <1>11, <2>3, <2>5, SettledIsReady
  <2>6. QED BY <2>4, <2>5
<1>13. c \notin ActivePlayers(state) /\ c # order[k] => x = u
  BY <1>2, <1>5, <1>10
<1>14. QED BY <1>12, <1>13 DEF w, x, r

LEMMA KillGameReacts ==
  ASSUME Fit(games, state, name), link \in [Peers -> LinkStates], Linked(link, state),
         NEW i \in DOMAIN games, NEW order, Len(order) \in Nat,
         {order[j] : j \in 1..Len(order)} = games[i].pending \cup games[i].joined,
         NEW n, NEW c \in Peers, link[c] = "up", NEW v \in Views, ~v.left, NEW u
  PROVE  /\ c \in ActivePlayers(state) /\ n = name[c] /\ Suits(n, v, u)
               => Ready(n, Sees(n, c, v, KillGame(games[i], order)),
                           Reacts(n, c, v, u, KillGame(games[i], order)))
         /\ c \notin ActivePlayers(state) /\ c \notin games[i].pending \cup games[i].joined
               => Reacts(n, c, v, u, KillGame(games[i], order)) = u
<1> DEFINE l == Len(order)
           first(k) == {order[j] : j \in 1..k}
           Fine == c \in ActivePlayers(state) /\ n = name[c] /\ Suits(n, v, u)
           rel(k) == Release(games[i], order, k)
<1>1. PICK out : /\ KillGame(games[i], order) = out[l]
                 /\ out[0] = Quiet
                 /\ \A k \in 1..l : out[k] = out[k - 1] ++ rel(k)
  BY KillGameSteps
<1>2. \A k \in 1..l : Outbox(rel(k))
  BY BroadcastsAreSilent, SendFacts, JoinFacts DEF Release, SilentBox
<1> DEFINE y(k) == Sees(n, c, v, out[k])
           z(k) == Reacts(n, c, v, u, out[k])
           Good(k) ==
             /\ Outbox(out[k])
             /\ y(k) \in Views /\ ~y(k).left
             /\ y(k).room = IF c \in first(k) THEN NoRoom ELSE v.room
             /\ Fine => Ready(n, y(k), z(k))
             /\ c \notin ActivePlayers(state) /\ c \notin first(k) => z(k) = u
           T == {k \in Nat : k <= l => Good(k)}
<1>3. 0 \in T
  <2>1. Outbox(out[0]) /\ y(0) = v /\ z(0) = u
    BY <1>1, QuietIsSilent, SeesQuiet, ReactsQuiet DEF SilentBox
  <2>2. first(0) = {}
    OBVIOUS
  <2>3. QED BY <2>1, <2>2 DEF Suits
<1>4. ASSUME NEW k \in Nat, k \in T PROVE k + 1 \in T
  <2>1. CASE k + 1 <= l
    <3>1. k + 1 \in 1..l /\ (k + 1) - 1 = k /\ Good(k)
      BY <1>4, <2>1
    <3> HIDE DEF y, z, rel
    <3>2. Outbox(out[k]) /\ Outbox(rel(k + 1)) /\ out[k + 1] = out[k] ++ rel(k + 1)
      BY <1>1, <1>2, <3>1
    <3>3. /\ y(k + 1) = Sees(n, c, y(k), rel(k + 1))
          /\ z(k + 1) = Reacts(n, c, y(k), z(k), rel(k + 1))
      BY <3>2, SeesBoth, ReactsBoth DEF y, z
    <3>4. /\ first(k + 1) = first(k) \cup {order[k + 1]}
          /\ first(k + 1) \subseteq games[i].pending \cup games[i].joined
      <4>1. 1..(k + 1) = (1..k) \cup {k + 1}
        OBVIOUS
      <4>2. first(k + 1) \subseteq first(l)
        BY <3>1
      <4>3. QED BY <4>1, <4>2
    <3>5. Outbox(out[k + 1])
      BY <3>2, JoinFacts
    <3> HIDE DEF first
    <3>6. y(k) \in Views /\ ~y(k).left /\ y(k).room = IF c \in first(k) THEN NoRoom ELSE v.room
      BY <3>1
    <3>7. /\ y(k + 1) \in Views /\ ~y(k + 1).left
          /\ y(k + 1).room = IF c = order[k + 1] THEN NoRoom ELSE y(k).room
      BY <3>3, <3>4, <3>6, ReleaseSeen DEF first, rel
    <3>8. Fine => Agrees(n, y(k).room, GamesFor(games, name))
      BY <3>4, <3>6, AgreesWithNone DEF Suits
    <3>9. Fine => Suits(n, y(k), z(k))
      BY <3>1, <3>8 DEF Suits
    <3>10. /\ c \in ActivePlayers(state) /\ Suits(n, y(k), z(k))
               => Ready(n, Sees(n, c, y(k), rel(k + 1)), Reacts(n, c, y(k), z(k), rel(k + 1)))
           /\ c \notin ActivePlayers(state) /\ c # order[k + 1]
               => Reacts(n, c, y(k), z(k), rel(k + 1)) = z(k)
      BY <3>4, <3>6, ReleaseReacts DEF first, rel
    <3>11. Fine => Ready(n, y(k + 1), z(k + 1))
      BY <3>3, <3>9, <3>10
    <3>12. Good(k + 1)
      BY <3>1, <3>3, <3>4, <3>5, <3>6, <3>7, <3>10, <3>11
    <3>13. QED BY <3>12
  <2>2. CASE ~(k + 1 <= l)
    BY <2>2
  <2>3. QED BY <2>1, <2>2
<1> HIDE DEF T
<1>5. Nat \subseteq T
  BY <1>3, <1>4, SetInduction
<1>6. Good(l)
  BY <1>5 DEF T
<1>7. QED BY <1>1, <1>6

\* The room is right already and the menu ready for the list that comes next.
LEMMA RemovalReacts ==
  ASSUME NEW p \in Peers, NEW order \in RemovalOrders(p),
         NEW c, NEW v, NEW u, MenuStep(c, v, u), NEW n, n = name[c],
         NEW w, w = Sees(n, c, v, RemoveUserFromAnyGames(p, order).out),
         NEW x, x = Reacts(n, c, v, u, RemoveUserFromAnyGames(p, order).out)
  PROVE  /\ state[c] \in ActiveStates => Ready(n, w, x)
         /\ c # p /\ state[c] \in HandshakeStates => x = u
<1> DEFINE gone == RemoveUserFromAnyGames(p, order)
           list == GamesFor(games, name)
           m == [type |-> "Leave"]
           bye == SendTo({p}, m)
<1>1. /\ Fit(games, state, name) /\ link \in [Peers -> LinkStates] /\ Linked(link, state)
      /\ c \in Peers /\ link[c] = "up" /\ v \in Views /\ ~v.left
      /\ v.room = RoomFor(c, games, name)
      /\ Shaped(u) /\ (c \in ActivePlayers(state) <=> state[c] \in ActiveStates)
      /\ state[c] \in ActiveStates => n # NoName /\ Settled(n, v, u)
  <2>1. ActiveStates \cap HandshakeStates = {}
    BY DEF ActiveStates, HandshakeStates
  <2>2. QED BY <2>1, SoundMenu
<1>2. Outbox(bye)
  BY SendFacts
<1>3. ASSUME NEW y \in Views, ~y.left, NEW z
      PROVE  /\ Reacts(n, c, y, z, bye) = IF c = p THEN OnRemoved(z) ELSE z
             /\ Sees(n, c, y, bye) = IF c = p THEN [y EXCEPT !.room = NoRoom] ELSE y
             /\ state[c] \in ActiveStates /\ Ready(n, y, z)
                  => Ready(n, Sees(n, c, y, bye), Reacts(n, c, y, z, bye))
  <2>1. m.type \in {"Leave", "Eject"}
    OBVIOUS
  <2> HIDE DEF m
  <2>2. Reacts(n, c, y, z, bye) = IF c = p THEN OnRemoved(z) ELSE z
    BY <1>1, <1>3, <2>1, ReactsOver
  <2>3. Sees(n, c, y, bye) = IF c = p THEN [y EXCEPT !.room = NoRoom] ELSE y
    BY <1>1, <1>3, <2>1, SeesOver
  <2>4. [y EXCEPT !.room = NoRoom].room = NoRoom
    BY <1>3 DEF Views
  <2> HIDE DEF bye
  <2>5. ASSUME state[c] \in ActiveStates, Ready(n, y, z)
        PROVE  Ready(n, Sees(n, c, y, bye), Reacts(n, c, y, z, bye))
    <3>1. n # NoName /\ Shaped(z)
      BY <1>1, <2>5 DEF Ready
    <3>2. CASE c = p
      BY <2>2, <2>3, <2>4, <3>1, <3>2, RemovedIsReady
    <3>3. CASE c # p
      BY <2>2, <2>3, <2>5, <3>3
    <3>4. QED BY <3>2, <3>3
  <2>6. QED BY <2>2, <2>3, <2>5
<1> HIDE DEF bye
<1>4. state[c] \in HandshakeStates =>
         c \notin ActivePlayers(state) /\ \A i \in DOMAIN games : c \notin Players(games[i])
  BY <1>1, PlayerFacts DEF ActivePlayers, HandshakeStates, ActiveStates
<1>5. CASE CreatedBy(p) # {}
  <2> DEFINE i == Min(CreatedBy(p))
             a == KillGame(games[i], order)
             y == Sees(n, c, v, a)
             z == Reacts(n, c, v, u, a)
  <2>1. i \in DOMAIN games /\ games[i].creator = p
    BY <1>1, <1>5, FindCreated
  <2>2. Len(order) \in Nat /\ {order[j] : j \in 1..Len(order)} = games[i].pending \cup games[i].joined
    BY <1>1, <1>5, OrderReleases
  <2>3. gone.out = a ++ bye
    BY <1>5 DEF RemoveUserFromAnyGames, bye
  <2> HIDE DEF i
  <2>4. y \in Views /\ ~y.left
    BY <1>1, <2>1, <2>2, KillGameSeen
  <2>5. c \in ActivePlayers(state) => Suits(n, v, u)
    <3>1. SUFFICES ASSUME c \in ActivePlayers(state) PROVE Suits(n, v, u)
      OBVIOUS
    <3>2. n # NoName /\ Settled(n, v, u)
      BY <1>1, <3>1
    <3>3. Agrees(name[c], RoomFor(c, games, name), GamesFor(games, name))
      BY <1>1, <3>2, AgreesWithRoom
    <3>4. QED BY <1>1, <3>2, <3>3, SettledIsReady DEF Suits
  <2>6. /\ c \in ActivePlayers(state) /\ n = name[c] /\ Suits(n, v, u) => Ready(n, y, z)
        /\ c \notin ActivePlayers(state) /\ c \notin games[i].pending \cup games[i].joined => z = u
    BY <1>1, <2>1, <2>2, KillGameReacts
  <2>7. Outbox(a)
    BY <2>2, KillGameIsSilent DEF SilentBox
  <2>8. w = Sees(n, c, y, bye) /\ x = Reacts(n, c, y, z, bye)
    BY <1>1, <1>2, <2>3, <2>7, SeesBoth, ReactsBoth
  <2> HIDE DEF a, y, z
  <2>9. state[c] \in ActiveStates => Ready(n, w, x)
    BY <1>1, <1>3, <2>4, <2>5, <2>6, <2>8
  <2>10. c # p /\ state[c] \in HandshakeStates => x = u
    BY <1>3, <1>4, <2>1, <2>4, <2>6, <2>8 DEF Players
  <2>11. QED BY <2>9, <2>10
<1>6. CASE CreatedBy(p) = {} /\ Entered(p) # {}
  <2> DEFINE i == Min(Entered(p))
             g == RemoveJoinedOrPending(games[i], p)
             a == SendInfoToAll(g)
             y == Sees(n, c, v, a)
             z == Reacts(n, c, v, u, a)
  <2>1. i \in DOMAIN games /\ p \in games[i].pending \cup games[i].joined
    BY <1>1, <1>6, FindEntered
  <2>2. /\ g \in Game /\ g.creator = games[i].creator
        /\ p \notin g.pending /\ p \notin g.joined
        /\ g.joined \ {p} = games[i].joined \ {p} /\ g.pending \ {p} = games[i].pending \ {p}
    BY <1>1, <2>1, TakenOut
  <2>3. gone.out = a ++ bye
    BY <1>6 DEF RemoveUserFromAnyGames, bye
  <2> HIDE DEF i, g
  <2>4. Players(g) \subseteq Players(games[i]) /\ g.pending \subseteq games[i].pending
    BY <2>2 DEF Players
  <2>5. Outbox(a)
    BY InfoIsSilent DEF SilentBox
  <2>6. y = IF c \in Players(g) THEN [v EXCEPT !.room = FullInfo(g)] ELSE v
    BY <1>1, SeesInfo
  <2>7. z = IF c \in Players(g) THEN OnGameInfo(u, FullInfo(g)) ELSE u
    BY <1>1, ReactsInfo
  <2>8. w = Sees(n, c, y, bye) /\ x = Reacts(n, c, y, z, bye)
    BY <1>1, <1>2, <2>3, <2>5, SeesBoth, ReactsBoth
  <2> HIDE DEF a, y, z
  <2>9. FullInfo(g) \in Infos
    <3>1. FullInfo(g) = InfoOf(g, name)
      BY DEF FullInfo, InfoOf
    <3>2. QED BY <1>1, <2>1, <2>2, <2>4, <3>1, PlayerFacts, InfoTyped DEF Fit, Typed
  <2>10. LET q == [v EXCEPT !.room = FullInfo(g)] IN q \in Views /\ ~q.left /\ q.room = FullInfo(g)
    BY <1>1, <2>9, UpdatedViews DEF Infos
  <2>11. y \in Views /\ ~y.left
    BY <1>1, <2>6, <2>10
  <2>12. state[c] \in ActiveStates => Ready(n, y, z)
    <3>1. CASE c \in Players(g)
      <4>1. y.room = FullInfo(g) /\ z = OnGameInfo(u, FullInfo(g))
        BY <2>6, <2>7, <2>10, <3>1
      <4>2. v.room = InfoOf(games[i], name)
        BY <1>1, <2>1, <2>4, <3>1, RoomIs DEF Fit
      <4>3. FullInfo(g).creator = v.room.creator
        BY <2>2, <4>2 DEF FullInfo, InfoOf
      <4>4. FullInfo(g).pending # {} => v.room.pending # {}
        BY <2>4, <4>2 DEF FullInfo, InfoOf
      <4>5. QED BY <1>1, <4>1, <4>3, <4>4, InfoReady
    <3>2. CASE c \notin Players(g)
      BY <1>1, <2>6, <2>7, <3>2, SettledIsReady
    <3>3. QED BY <3>1, <3>2
  <2>13. state[c] \in ActiveStates => Ready(n, w, x)
    BY <1>3, <2>8, <2>11, <2>12
  <2>14. c # p /\ state[c] \in HandshakeStates => x = u
    BY <1>3, <1>4, <2>1, <2>4, <2>7, <2>8, <2>11
  <2>15. QED BY <2>13, <2>14
<1>7. CASE CreatedBy(p) = {} /\ Entered(p) = {}
  <2>1. gone.out = Quiet
    BY <1>7 DEF RemoveUserFromAnyGames
  <2>2. w = v /\ x = u
    BY <1>1, <2>1, SeesQuiet, ReactsQuiet
  <2>3. QED BY <1>1, <2>2, SettledIsReady
<1>8. QED BY <1>5, <1>6, <1>7
-----------------------------------------------------------------------------
(***************************************************************************)
(* The handlers, one by one.                                               *)
(***************************************************************************)
LEMMA NewConnectionMenu ==
  ASSUME NEW c, NEW v, NEW u, MenuStep(c, v, u), NEW p \in Peers, NewConnection(p)
  PROVE  MenuAfter(c, v, u)
<1>1. sent' = Quiet /\ UNCHANGED name
  BY DEF NewConnection
<1>2. c # p /\ state'[c] = state[c]
  <2>1. link[p] = "free" /\ link[c] = "up" /\ c \in Peers
    BY SoundMenu DEF NewConnection
  <2>2. c # p
    BY <2>1
  <2>3. QED BY <2>1, <2>2 DEF NewConnection, MenuStep, SoundStep, Sound, IInv, Fit, Typed
<1>3. QED BY <1>1, <1>2, QuietMenu

LEMMA DisconnectUserMenu ==
  ASSUME NEW c, NEW v, NEW u, MenuStep(c, v, u), NEW p \in Peers, DisconnectUser(p)
  PROVE  MenuAfter(c, v, u)
<1>1. sent' = Quiet /\ UNCHANGED name /\ c # p
  BY DEF DisconnectUser, MenuStep, SoundStep, Sound, IInv
<1>2. state'[c] = state[c]
  BY <1>1 DEF DisconnectUser, MenuStep, SoundStep, Sound, IInv, Fit, Typed
<1>3. QED BY <1>1, <1>2, QuietMenu

LEMMA HandshakeMenu ==
  ASSUME NEW c, NEW v, NEW u, MenuStep(c, v, u), NEW p \in Peers, state[p] \in HandshakeStates,
         NEW s \in HandshakeStates, state' = [state EXCEPT ![p] = s],
         sent' = Quiet, UNCHANGED name
  PROVE  MenuAfter(c, v, u)
<1>1. s \notin ActiveStates
  BY DEF HandshakeStates, ActiveStates
<1>2. /\ state'[c] \in HandshakeStates => state[c] \in HandshakeStates
      /\ state'[c] \in ActiveStates => state[c] \in ActiveStates
  BY <1>1 DEF MenuStep, SoundStep, Sound, IInv, Fit, Typed
<1>3. QED BY <1>2, QuietMenu

LEMMA NothingMenu ==
  ASSUME NEW c, NEW v, NEW u, MenuStep(c, v, u), sent' = Quiet, UNCHANGED <<state, name>>
  PROVE  MenuAfter(c, v, u)
  BY QuietMenu

\* Who logs in has had no message yet.
LEMMA OnLoginMenu ==
  ASSUME NEW c, NEW v, NEW u, MenuStep(c, v, u),
         NEW p \in Peers, NEW m \in ClientMsgs, OnLogin(p, m)
  PROVE  MenuAfter(c, v, u)
<1>1. CASE VerifyName(m.who)
  <2> DEFINE hello == [type |-> "Login", who |-> m.who]
             n == name'[c]
             a == SendTo({p}, hello)
             b == BroadcastActiveUsers(state', name', games')
  <2>1. /\ state[p] = "WaitingForLogin"
        /\ name' = [name EXCEPT ![p] = m.who] /\ state' = [state EXCEPT ![p] = "LoggedIn"]
        /\ sent' = a ++ b /\ UNCHANGED games
    BY <1>1 DEF OnLogin
  <2>2. hello.type \in {"Join", "Approve", "Login"} /\ hello.type \in {"Create", "Approve", "Login"}
    OBVIOUS
  <2>3. Outbox(a) /\ Outbox(b)
    BY SendFacts, BroadcastsAreSilent DEF SilentBox
  <2>4. /\ c \in Peers /\ link[c] = "up" /\ v \in Views /\ ~v.left
        /\ Fit(games, state, name) /\ Fit(games', state', name')
        /\ \/ state[c] \in ActiveStates /\ name[c] # NoName /\ Settled(name[c], v, u)
           \/ state[c] \in HandshakeStates /\ IsNew(u) /\ v = Fresh
    BY SoundMenu
  <2> HIDE DEF hello, b, n
  <2>5. Sees(n, c, v, a) = v /\ Reacts(n, c, v, u, a) = u
    BY <2>2, <2>4, SeesNothing, ReactsNothing
  <2> HIDE DEF a
  <2>6. Sees(n, c, v, sent') = Sees(n, c, v, b) /\ Reacts(n, c, v, u, sent') = Reacts(n, c, v, u, b)
    BY <2>1, <2>3, <2>4, <2>5, SeesBoth, ReactsBoth
  <2>7. GamesFor(games', name) = GamesFor(games', name')
    <3>1. \A i \in DOMAIN games : \A q \in Players(games[i]) : q \in Peers \ {p}
      BY <2>1, <2>4, LoggedInIsFree, PlayerFacts
    <3>2. \A i \in DOMAIN games : \A q \in Players(games[i]) : name'[q] = name[q]
      BY <2>1, <2>4, <3>1 DEF Fit, Typed
    <3>3. GamesFor(games, name') = GamesFor(games, name)
      BY <3>2, Renamed
    <3>4. QED BY <2>1, <3>3
  <2>8. state'[c] \in ActiveStates => Ready(n, v, u)
    <3>1. CASE c = p
      <4>1. state'[c] \in ActiveStates => n # NoName
        BY <2>4 DEF Fit, NamesFit, n
      <4>2. IsNew(u) /\ v = Fresh
        BY <2>1, <2>4, <3>1 DEF ActiveStates
      <4>3. QED BY <4>1, <4>2, NewMenuIsReady
    <3>2. CASE c # p
      <4>1. state'[c] = state[c] /\ n = name[c]
        BY <2>1, <2>4, <3>2 DEF Fit, Typed, n
      <4>2. QED BY <2>4, <4>1, SettledIsReady DEF ActiveStates, HandshakeStates
    <3>3. QED BY <3>1, <3>2
  <2>9. state'[c] \in HandshakeStates => IsNew(u)
    <3>1. state'[c] \in HandshakeStates => state'[c] = state[c]
      BY <2>1, <2>4 DEF Fit, Typed, HandshakeStates
    <3>2. QED BY <2>4, <3>1 DEF ActiveStates, HandshakeStates
  <2>10. QED BY <2>4, <2>6, <2>7, <2>8, <2>9, EndsWithGames DEF b, n
<1>2. CASE ~VerifyName(m.who)
  BY <1>2, DisconnectUserMenu DEF OnLogin
<1>3. QED BY <1>1, <1>2

\* CREATE shows the new room and does nothing to the menu; the list that follows does.
LEMMA OnCreateMenu ==
  ASSUME NEW c, NEW v, NEW u, MenuStep(c, v, u),
         NEW p \in Peers, NEW m \in ClientMsgs, OnCreate(p, m)
  PROVE  MenuAfter(c, v, u)
<1>1. CASE m.ok
  <2> DEFINE done == [type |-> "Create"]
             n == name[c]
             room == [NoRoom EXCEPT !.creator = n]
             a == SendTo({p}, done)
             b == BroadcastOpenGames(state', games')
             w == Sees(n, c, v, a)
  <2>1. /\ state[p] = "LoggedIn" /\ state' = [state EXCEPT ![p] = "OpenedGame"]
        /\ sent' = a ++ BroadcastOpenGames(state, games') /\ UNCHANGED name
    BY <1>1 DEF OnCreate
  <2>2. done.type \in {"Create", "Approve", "Login"} /\ done.type = "Create"
    OBVIOUS
  <2>3. Outbox(a) /\ Outbox(b)
    BY SendFacts, BroadcastsAreSilent DEF SilentBox
  <2>4. /\ c \in Peers /\ link[c] = "up" /\ v \in Views /\ ~v.left
        /\ v.room = RoomFor(c, games, name) /\ Fit(games, state, name)
        /\ \/ state[c] \in ActiveStates /\ n # NoName /\ Settled(n, v, u)
           \/ state[c] \in HandshakeStates /\ IsNew(u) /\ v = Fresh
    BY SoundMenu
  <2>5. \A q \in Peers : /\ state'[q] \in ActiveStates <=> state[q] \in ActiveStates
                         /\ state'[q] \in HandshakeStates => state[q] \in HandshakeStates
    BY <2>1, <2>4 DEF Fit, Typed, ActiveStates, HandshakeStates
  <2>6. BroadcastOpenGames(state, games') = b
    BY <2>5 DEF BroadcastOpenGames, ActivePlayers
  <2> HIDE DEF done
  <2>7. w = IF c = p THEN [v EXCEPT !.room = room] ELSE v
    <3>1. Hear(n, v, done) = [v EXCEPT !.room = room]
      BY <2>2, <2>4 DEF Hear
    <3>2. QED BY <2>4, <3>1, SeesOne
  <2>8. Reacts(n, c, v, u, a) = u
    BY <2>2, <2>4, ReactsNothing
  <2>9. room \in Infos /\ room.creator = n /\ room.pending = {} /\ room.joined = {} /\ NoRoom.pending = {}
    BY <2>4 DEF NoRoom, Infos, Fit, Typed
  <2> HIDE DEF room, a, b
  <2>10. w \in Views /\ ~w.left /\ w.room = IF c = p THEN room ELSE v.room
    BY <2>4, <2>7, <2>9, UpdatedViews DEF Infos
  <2> HIDE DEF w
  <2>11. Sees(n, c, v, sent') = Sees(n, c, w, b) /\ Reacts(n, c, v, u, sent') = Reacts(n, c, w, u, b)
    BY <2>1, <2>3, <2>4, <2>6, <2>8, SeesBoth, ReactsBoth DEF w
  <2>12. state'[c] \in ActiveStates => Ready(n, w, u)
    <3>1. SUFFICES ASSUME state[c] \in ActiveStates PROVE Ready(n, w, u)
      BY <2>4, <2>5
    <3>2. Ready(n, v, u)
      BY <2>4, <3>1, SettledIsReady DEF ActiveStates, HandshakeStates
    <3>3. CASE c = p
      <4>1. v.room = NoRoom
        BY <2>1, <2>4, <3>3, LoggedInIsFree, NoRoomIs
      <4>2. QED BY <2>9, <2>10, <3>2, <3>3, <4>1 DEF Ready
    <3>4. CASE c # p
      BY <2>7, <3>2, <3>4
    <3>5. QED BY <3>3, <3>4
  <2>13. state'[c] \in HandshakeStates => IsNew(u)
    BY <2>4, <2>5 DEF ActiveStates, HandshakeStates
  <2>14. QED BY <2>1, <2>10, <2>11, <2>12, <2>13, EndsWithGames DEF b, n
<1>2. CASE ~m.ok
  BY <1>2, DisconnectUserMenu DEF OnCreate
<1>3. QED BY <1>1, <1>2

\* A client that is up and in a game is logged in, and shows that game.
LEMMA PlayerMenu ==
  ASSUME NEW c, NEW v, NEW u, MenuStep(c, v, u), NEW i \in DOMAIN games, c \in Players(games[i])
  PROVE  /\ state[c] \in ActiveStates /\ name[c] # NoName /\ Settled(name[c], v, u)
         /\ v.room = InfoOf(games[i], name)
<1>1. /\ Fit(games, state, name) /\ v.room = RoomFor(c, games, name)
      /\ \/ state[c] \in ActiveStates /\ name[c] # NoName /\ Settled(name[c], v, u)
         \/ state[c] \in HandshakeStates /\ IsNew(u) /\ v = Fresh
  BY SoundMenu
<1>2. state[c] \notin HandshakeStates
  BY <1>1, PlayerFacts DEF HandshakeStates
<1>3. v.room = InfoOf(games[i], name)
  BY <1>1, RoomIs DEF Fit
<1>4. QED BY <1>1, <1>2, <1>3

\* Who is told nothing keeps its menu.
LEMMA SameMenu ==
  ASSUME NEW c, NEW v, NEW u, MenuStep(c, v, u), UNCHANGED name,
         Sees(name[c], c, v, sent') = v, Reacts(name[c], c, v, u, sent') = u,
         state'[c] \in HandshakeStates => state[c] \in HandshakeStates,
         state'[c] \in ActiveStates => state[c] \in ActiveStates
  PROVE  MenuAfter(c, v, u)
<1>1. name'[c] = name[c]
  OBVIOUS
<1>2. QED BY <1>1 DEF MenuStep, MenuRight, MenuAfter

\* JOIN comes behind GAMEINFO, to the host and to who asked: no list follows.
LEMMA OnJoinMenu ==
  ASSUME NEW c, NEW v, NEW u, MenuStep(c, v, u),
         NEW p \in Peers, NEW m \in ClientMsgs, OnJoin(p, m)
  PROVE  MenuAfter(c, v, u)
<1> DEFINE i == Min(CreatedByName(m.who))
           g == [games[i] EXCEPT !.pending = @ \cup {p}]
           note == [type |-> "Join", who |-> name[p]]
           info == FullInfo(g)
           n == name[c]
           a == SendInfoToAll(g)
           b == SendTo({g.creator}, note)
           d == SendTo({p}, note)
           w == Sees(n, c, v, a)
           x == Reacts(n, c, v, u, a)
           y == Reacts(n, c, w, x, b)
           z == Reacts(n, c, w, y, d)
<1>1. CASE CreatedByName(m.who) # {} /\ p \notin games[i].pending \cup games[i].joined
  <2>1. /\ state' = [state EXCEPT ![p] = "PendingJoin"] /\ state[p] = "LoggedIn"
        /\ UNCHANGED name /\ sent' = (a ++ b) ++ d
    BY <1>1 DEF OnJoin
  <2>2. /\ c \in Peers /\ link[c] = "up" /\ v \in Views /\ ~v.left /\ Fit(games, state, name)
        /\ v.room = RoomFor(c, games, name)
    BY SoundMenu
  <2>3. i \in DOMAIN games /\ games[i].creator \in Players(games[i])
    BY <1>1, <2>2, FindCreatedByName DEF Players
  <2>4. games[i] \in Game /\ games[i].creator \in Peers /\ name[games[i].creator] # NoName
    BY <2>2, <2>3, PlayerFacts
  <2>5. \A j \in DOMAIN games : p \notin Players(games[j])
    BY <2>1, <2>2, LoggedInIsFree
  <2>6. note.type = "Join" /\ note.who = name[p]
    OBVIOUS
  <2> HIDE DEF i, note
  <2>7. /\ g \in Game /\ g.creator = games[i].creator /\ Players(g) = Players(games[i]) \cup {p}
        /\ g.pending = games[i].pending \cup {p}
    BY <2>4 DEF Game, Players
  <2> HIDE DEF g
  <2>8. /\ Outbox(a) /\ Outbox(b) /\ Outbox(d) /\ Outbox(a ++ b)
        /\ note.type \in {"Join", "Approve", "Login"}
    BY <2>6, SendFacts, InfoIsSilent, JoinFacts DEF SilentBox
  <2>9. info.creator = name[g.creator] /\ info.pending = {name[q] : q \in g.pending}
    BY DEF FullInfo
  <2>10. w = IF c \in Players(g) THEN [v EXCEPT !.room = info] ELSE v
    BY <2>2, SeesInfo
  <2>11. x = IF c \in Players(g) THEN OnGameInfo(u, info) ELSE u
    BY <2>2, ReactsInfo
  <2> HIDE DEF info
  <2>12. ~w.left /\ c \in Players(g) => w.room = info /\ w.games = v.games
    BY <2>2, <2>10 DEF Views
  <2>13. ~w.left
    BY <2>2, <2>10 DEF Views
  <2> HIDE DEF a, b, d, w, x, y, z
  <2>14. Sees(n, c, w, b) = w /\ Sees(n, c, w, d) = w
    BY <2>2, <2>8, SeesNothing DEF b, d
  <2>15. /\ Sees(n, c, v, sent') = w
         /\ Reacts(n, c, v, u, sent') = z
    <3>1. Sees(n, c, v, a ++ b) = w /\ Reacts(n, c, v, u, a ++ b) = y
      BY <2>2, <2>8, <2>14, SeesBoth, ReactsBoth DEF w, x, y
    <3>2. /\ Sees(n, c, v, (a ++ b) ++ d) = w
          /\ Reacts(n, c, v, u, (a ++ b) ++ d) = z
      BY <2>2, <2>8, <2>14, <3>1, SeesBoth, ReactsBoth DEF z
    <3>3. QED BY <2>1, <3>2
  <2>16. React(n, x, note) = OnJoinRequest(n, x, name[p]) /\ React(n, y, note) = OnJoinRequest(n, y, name[p])
    BY <2>6 DEF React
  <2>17. y = IF c = g.creator THEN OnJoinRequest(n, x, name[p]) ELSE x
    BY <2>2, <2>13, <2>16, ReactsOne DEF y, b
  <2>18. z = IF c = p THEN OnJoinRequest(n, y, name[p]) ELSE y
    BY <2>2, <2>13, <2>16, ReactsOne DEF z, d
  <2>19. \A q \in Peers : name[q] = n /\ n # NoName => q = c
    BY <2>2 DEF Fit, NamesFit
  <2>20. CASE c \notin Players(g)
    <3>1. c # p /\ c # g.creator /\ state'[c] = state[c]
      BY <2>1, <2>2, <2>7, <2>20 DEF Players, Fit, Typed
    <3>2. w = v /\ z = u
      BY <2>10, <2>11, <2>17, <2>18, <2>20, <3>1
    <3>3. QED BY <2>1, <2>15, <3>1, <3>2, SameMenu
  <2>21. CASE c = p
    <3>1. state[c] \in ActiveStates /\ n # NoName /\ Settled(n, v, u)
      BY <2>1, <2>21, SoundMenu DEF ActiveStates, HandshakeStates
    <3>2. v.room.creator = NoName
      BY <2>2, <2>5, <2>21, NoRoomIs DEF NoRoom
    <3>3. c \in Players(g) /\ c # g.creator
      BY <2>3, <2>5, <2>7, <2>21
    <3>4. info.creator \notin {n, NoName}
      BY <2>4, <2>7, <2>9, <2>19, <3>1, <3>3
    <3>5. z = OnJoinRequest(n, OnGameInfo(u, info), n)
      BY <2>11, <2>17, <2>18, <2>21, <3>3
    <3>6. Settled(n, w, z)
      BY <2>12, <2>13, <3>1, <3>2, <3>3, <3>4, <3>5, AskingSettled
    <3>7. state'[c] \notin HandshakeStates /\ name'[c] = n
      BY <2>1, <2>2, <2>21 DEF Fit, Typed, HandshakeStates
    <3>8. QED BY <2>15, <3>6, <3>7 DEF MenuAfter, MenuRight
  <2>22. CASE c \in Players(g) /\ c # p
    <3>1. c \in Players(games[i])
      BY <2>7, <2>22
    <3>2. /\ state[c] \in ActiveStates /\ n # NoName /\ Settled(n, v, u)
          /\ v.room = InfoOf(games[i], name)
      BY <2>3, <3>1, PlayerMenu
    <3>3. /\ v.room.creator = info.creator /\ info.creator # NoName
          /\ v.room.pending = {name[q] : q \in games[i].pending}
      BY <2>4, <2>7, <2>9, <3>2 DEF InfoOf
    <3>4. Settled(n, w, z)
      <4>1. CASE c = g.creator
        <5>1. info.creator = n /\ name[p] # n
          BY <2>2, <2>9, <2>19, <2>22, <3>2, <4>1
        <5>2. z = OnJoinRequest(n, OnGameInfo(u, info), name[p])
          BY <2>11, <2>17, <2>18, <2>22, <4>1
        <5>3. QED BY <2>12, <2>13, <2>22, <3>2, <5>1, <5>2, AskedSettled
      <4>2. CASE c # g.creator
        <5>1. info.creator # n
          BY <2>4, <2>7, <2>9, <2>19, <3>2, <4>2
        <5>2. z = OnGameInfo(u, info)
          BY <2>11, <2>17, <2>18, <2>22, <4>2
        <5>3. n \in info.pending => n \in v.room.pending
          BY <2>7, <2>9, <2>19, <2>22, <3>2, <3>3
        <5>4. QED BY <2>12, <2>13, <2>22, <3>2, <3>3, <5>1, <5>2, <5>3, InfoSettled
      <4>3. QED BY <4>1, <4>2
    <3>5. state'[c] = state[c] /\ name'[c] = n
      BY <2>1, <2>2, <2>22 DEF Fit, Typed
    <3>6. state'[c] \notin HandshakeStates
      BY <3>2, <3>5 DEF ActiveStates, HandshakeStates
    <3>7. QED BY <2>15, <3>4, <3>5, <3>6 DEF MenuAfter, MenuRight
  <2>23. QED BY <2>20, <2>21, <2>22
<1>2. CASE ~(CreatedByName(m.who) # {} /\ p \notin games[i].pending \cup games[i].joined)
  BY <1>2, NothingMenu DEF OnJoin
<1>3. QED BY <1>1, <1>2

LEMMA OnApproveMenu ==
  ASSUME NEW c, NEW v, NEW u, MenuStep(c, v, u),
         NEW p \in Peers, NEW m \in ClientMsgs, OnApprove(p, m)
  PROVE  MenuAfter(c, v, u)
<1> DEFINE i == Min(CreatedBy(p))
           called == {q \in games[i].pending : name[q] = m.who}
           after(q) == [games[i] EXCEPT !.pending = @ \ {q}, !.joined = @ \cup {q}]
           note == [type |-> "Approve", who |-> m.who]
           n == name[c]
<1>1. CASE CreatedBy(p) # {} /\ called # {}
  <2>1. PICK q \in called :
          /\ state' = [state EXCEPT ![q] = "JoinedOpenGame"]
          /\ sent' = SendInfoToAll(after(q)) ++ SendTo({p}, note)
    BY <1>1 DEF OnApprove
  <2> DEFINE g == after(q)
             info == FullInfo(g)
             a == SendInfoToAll(g)
             b == SendTo({p}, note)
             w == Sees(n, c, v, a)
             x == Reacts(n, c, v, u, a)
  <2>2. UNCHANGED name /\ sent' = a ++ b
    BY <2>1 DEF OnApprove
  <2>3. /\ c \in Peers /\ link[c] = "up" /\ v \in Views /\ ~v.left /\ Fit(games, state, name)
        /\ state[c] \in ActiveStates \cup HandshakeStates
    BY SoundMenu
  <2>4. i \in DOMAIN games /\ games[i] \in Game /\ q \in games[i].pending
    BY <1>1, <2>3, FindCreated, PlayerFacts DEF Players
  <2>5. note.type \in {"Join", "Approve", "Login"} /\ note.type \in {"Create", "Approve", "Login"}
    OBVIOUS
  <2> HIDE DEF i, note, called
  <2>6. /\ g.creator = games[i].creator /\ Players(g) = Players(games[i])
        /\ g.pending \subseteq games[i].pending /\ q \in Players(g)
    BY <2>4 DEF Game, Players
  <2> HIDE DEF g, after
  <2>7. Outbox(a) /\ Outbox(b)
    BY SendFacts, InfoIsSilent DEF SilentBox
  <2>8. info.creator = name[g.creator] /\ info.pending = {name[r] : r \in g.pending}
    BY DEF FullInfo
  <2>9. w = IF c \in Players(g) THEN [v EXCEPT !.room = info] ELSE v
    BY <2>3, SeesInfo
  <2>10. x = IF c \in Players(g) THEN OnGameInfo(u, info) ELSE u
    BY <2>3, ReactsInfo
  <2> HIDE DEF info
  <2>11. c \in Players(g) => w.room = info /\ w.games = v.games
    BY <2>3, <2>9 DEF Views
  <2> HIDE DEF a, b, w, x
  <2>12. Sees(n, c, w, b) = w /\ Reacts(n, c, w, x, b) = x
    BY <2>3, <2>5, SeesNothing, ReactsNothing DEF b
  <2>13. Sees(n, c, v, sent') = w /\ Reacts(n, c, v, u, sent') = x
    BY <2>2, <2>3, <2>7, <2>12, SeesBoth, ReactsBoth DEF w, x
  <2>14. CASE c \notin Players(g)
    <3>1. c # q /\ state'[c] = state[c]
      BY <2>1, <2>3, <2>6, <2>14 DEF Fit, Typed
    <3>2. QED BY <2>2, <2>9, <2>10, <2>13, <2>14, <3>1, SameMenu
  <2>15. CASE c \in Players(g)
    <3>1. /\ state[c] \in ActiveStates /\ n # NoName /\ Settled(n, v, u)
          /\ v.room = InfoOf(games[i], name)
      BY <2>4, <2>6, <2>15, PlayerMenu
    <3>2. /\ v.room.creator = info.creator /\ info.pending \subseteq v.room.pending
      BY <2>6, <2>8, <3>1 DEF InfoOf
    <3>3. info.creator # NoName
      <4>1. games[i].creator \in Players(games[i])
        BY DEF Players
      <4>2. QED BY <2>3, <2>4, <2>6, <2>8, <4>1, PlayerFacts
    <3>4. Settled(n, w, OnGameInfo(u, info))
      BY <2>11, <2>15, <3>1, <3>2, <3>3, InfoSettled
    <3>5. state'[c] \notin HandshakeStates /\ name'[c] = n
      BY <2>1, <2>2, <2>3, <3>1 DEF Fit, Typed, ActiveStates, HandshakeStates
    <3>6. QED BY <2>10, <2>13, <2>15, <3>4, <3>5 DEF MenuAfter, MenuRight
  <2>16. QED BY <2>14, <2>15
<1>2. CASE ~(CreatedBy(p) # {} /\ called # {})
  BY <1>2, NothingMenu DEF OnApprove
<1>3. QED BY <1>1, <1>2

LEMMA OnEjectMenu ==
  ASSUME NEW c, NEW v, NEW u, MenuStep(c, v, u),
         NEW p \in Peers, NEW m \in ClientMsgs, OnEject(p, m)
  PROVE  MenuAfter(c, v, u)
<1> DEFINE i == Min(CreatedBy(p))
           called == {q \in ActivePlayers(state) : name[q] = m.who}
           note == [type |-> "Eject", who |-> name[p]]
           n == name[c]
<1>1. CASE \E q \in called :
             /\ CreatedBy(p) # {} /\ q \in games[i].pending \cup games[i].joined
             /\ state' = [state EXCEPT ![q] = "LoggedIn"]
             /\ sent' = SendInfoToAll(RemoveJoinedOrPending(games[i], q)) ++ SendTo({q}, note)
                          ++ BroadcastActiveUsers(state', name, games')
  <2>1. PICK q \in called :
             /\ CreatedBy(p) # {} /\ q \in games[i].pending \cup games[i].joined
             /\ state' = [state EXCEPT ![q] = "LoggedIn"]
             /\ sent' = SendInfoToAll(RemoveJoinedOrPending(games[i], q)) ++ SendTo({q}, note)
                          ++ BroadcastActiveUsers(state', name, games')
    BY <1>1
  <2> DEFINE g == RemoveJoinedOrPending(games[i], q)
             info == FullInfo(g)
             a == SendInfoToAll(g)
             b == SendTo({q}, note)
             d == BroadcastActiveUsers(state', name', games')
             w == Sees(n, c, v, a)
             x == Reacts(n, c, v, u, a)
             y == Sees(n, c, w, b)
             z == Reacts(n, c, w, x, b)
  <2>2. UNCHANGED name /\ sent' = (a ++ b) ++ d /\ q \in ActivePlayers(state)
    BY <2>1 DEF OnEject
  <2>3. /\ c \in Peers /\ link[c] = "up" /\ v \in Views /\ ~v.left /\ Fit(games, state, name)
        /\ Shaped(u)
        /\ \/ state[c] \in ActiveStates /\ n # NoName /\ Settled(n, v, u)
           \/ state[c] \in HandshakeStates /\ IsNew(u) /\ v = Fresh
    BY SoundMenu
  <2>4. i \in DOMAIN games /\ q \in games[i].pending \cup games[i].joined
    BY <2>1, <2>3, FindCreated
  <2>5. note.type \in {"Leave", "Eject"}
    OBVIOUS
  <2> HIDE DEF i, note, called
  <2>6. /\ g \in Game /\ g.creator = games[i].creator /\ q \notin g.joined /\ q \notin g.pending
        /\ g.joined \ {q} = games[i].joined \ {q} /\ g.pending \ {q} = games[i].pending \ {q}
    BY <2>3, <2>4, TakenOut
  <2> HIDE DEF g
  <2>7. /\ Players(g) \subseteq Players(games[i]) /\ g.pending \subseteq games[i].pending
        /\ q \in Players(games[i])
    BY <2>4, <2>6 DEF Players
  <2>8. Outbox(a) /\ Outbox(b) /\ Outbox(d) /\ Outbox(a ++ b)
    BY SendFacts, InfoIsSilent, BroadcastsAreSilent, JoinFacts DEF SilentBox
  <2>9. info \in Infos /\ info.creator = name[g.creator] /\ info.pending = {name[r] : r \in g.pending}
    <3>1. info = InfoOf(g, name)
      BY DEF FullInfo, InfoOf
    <3>2. \A r \in Players(g) : name[r] # NoName
      BY <2>3, <2>4, <2>7, PlayerFacts
    <3>3. InfoOf(g, name) \in Infos
      BY <2>3, <2>6, <3>2, InfoTyped DEF Fit, Typed
    <3> HIDE DEF info
    <3>4. QED BY <3>1, <3>3 DEF InfoOf
  <2>10. w = IF c \in Players(g) THEN [v EXCEPT !.room = info] ELSE v
    BY <2>3, SeesInfo
  <2>11. x = IF c \in Players(g) THEN OnGameInfo(u, info) ELSE u
    BY <2>3, ReactsInfo
  <2> HIDE DEF info
  <2>12. w \in Views /\ ~w.left /\ w.room = IF c \in Players(g) THEN info ELSE v.room
    BY <2>3, <2>9, <2>10, UpdatedViews DEF Infos
  <2> HIDE DEF a, b, d, w, x, y, z
  <2>13. y = IF c = q THEN [w EXCEPT !.room = NoRoom] ELSE w
    <3> HIDE DEF n
    <3>1. Sees(n, c, w, SendTo({q}, note)) = IF c \in {q} THEN [w EXCEPT !.room = NoRoom] ELSE w
      BY <2>3, <2>5, <2>12, SeesOver
    <3>2. QED BY <3>1 DEF y, b
  <2>14. z = IF c = q THEN OnRemoved(x) ELSE x
    BY <2>3, <2>5, <2>12, ReactsOver DEF z, b
  <2>15. y \in Views /\ ~y.left /\ y.room = IF c = q THEN NoRoom ELSE w.room
    <3>1. NoRoom \in Infos
      BY DEF NoRoom, Infos
    <3>2. QED BY <2>12, <2>13, <3>1, UpdatedViews DEF Infos
  <2>16. Sees(n, c, v, sent') = Sees(n, c, y, d) /\ Reacts(n, c, v, u, sent') = Reacts(n, c, y, z, d)
    <3>1. Sees(n, c, v, a ++ b) = y /\ Reacts(n, c, v, u, a ++ b) = z
      BY <2>3, <2>8, SeesBoth, ReactsBoth DEF w, x, y, z
    <3>2. /\ Sees(n, c, v, (a ++ b) ++ d) = Sees(n, c, y, d)
          /\ Reacts(n, c, v, u, (a ++ b) ++ d) = Reacts(n, c, y, z, d)
      BY <2>3, <2>8, <3>1, SeesBoth, ReactsBoth
    <3>3. QED BY <2>2, <3>2
  <2>17. state[c] \in ActiveStates => Ready(n, w, x)
    <3>1. CASE c \in Players(g)
      <4>1. n # NoName /\ Settled(n, v, u) /\ v.room = InfoOf(games[i], name)
        BY <2>4, <2>7, <3>1, PlayerMenu
      <4>2. info.creator = v.room.creator /\ info.pending \subseteq v.room.pending
        BY <2>6, <2>7, <2>9, <4>1 DEF InfoOf
      <4>3. QED BY <2>11, <2>12, <3>1, <4>1, <4>2, InfoReady
    <3>2. CASE c \notin Players(g)
      BY <2>3, <2>10, <2>11, <3>2, SettledIsReady DEF ActiveStates, HandshakeStates
    <3>3. QED BY <3>1, <3>2
  <2>18. state[c] \in ActiveStates => Ready(n, y, z)
    <3>1. CASE c = q
      <4>1. state[c] \in ActiveStates => Shaped(x) /\ n # NoName
        BY <2>3, <2>17 DEF Ready, ActiveStates, HandshakeStates
      <4>2. QED BY <2>14, <2>15, <3>1, <4>1, RemovedIsReady
    <3>2. CASE c # q
      BY <2>13, <2>14, <2>17, <3>2
    <3>3. QED BY <3>1, <3>2
  <2>19. state'[c] \in ActiveStates => Ready(n, y, z)
    <3>1. state'[c] \in ActiveStates => state[c] \in ActiveStates
      BY <2>1, <2>2, <2>3 DEF ActivePlayers, Fit, Typed
    <3>2. QED BY <2>18, <3>1
  <2>20. state'[c] \in HandshakeStates => IsNew(z)
    <3>1. SUFFICES ASSUME state'[c] \in HandshakeStates PROVE IsNew(z)
      OBVIOUS
    <3>2. c # q /\ state[c] \in HandshakeStates
      BY <2>1, <2>2, <2>3, <3>1 DEF HandshakeStates, Fit, Typed
    <3>3. c \notin Players(g)
      BY <2>3, <2>4, <2>7, <3>2, PlayerFacts DEF HandshakeStates
    <3>4. QED BY <2>3, <2>11, <2>14, <3>2, <3>3 DEF ActiveStates, HandshakeStates
  <2>21. QED BY <2>2, <2>15, <2>16, <2>19, <2>20, EndsWithGames DEF d, n
<1>2. CASE sent' = Quiet /\ UNCHANGED <<state, name>>
  BY <1>2, NothingMenu
<1>3. QED BY <1>1, <1>2 DEF OnEject

\* A user still in the handshake is in no game and stays there.
LEMMA RemovalKeeps ==
  ASSUME Fit(games, state, name), NEW p, NEW order, NEW c \in Peers, state[c] \in HandshakeStates
  PROVE  RemoveUserFromAnyGames(p, order).state[c] = state[c]
<1>1. CASE CreatedBy(p) # {}
  <2> DEFINE i == Min(CreatedBy(p))
  <2>1. i \in DOMAIN games
    BY <1>1, FindCreated
  <2>2. RemoveUserFromAnyGames(p, order).state = LogInAll(state, games[i].joined \cup games[i].pending)
    BY <1>1 DEF RemoveUserFromAnyGames
  <2> HIDE DEF i
  <2>3. c \notin Players(games[i])
    BY <2>1, PlayerFacts DEF HandshakeStates
  <2>4. QED BY <2>2, <2>3 DEF LogInAll, Players
<1>2. CASE CreatedBy(p) = {}
  BY <1>2 DEF RemoveUserFromAnyGames
<1>3. QED BY <1>1, <1>2

LEMMA OnLeaveMenu ==
  ASSUME NEW c, NEW v, NEW u, MenuStep(c, v, u),
         NEW p \in Peers, NEW m \in ClientMsgs, OnLeave(p, m)
  PROVE  MenuAfter(c, v, u)
<1>1. PICK order \in RemovalOrders(p) :
         LET gone == RemoveUserFromAnyGames(p, order)
         IN  /\ games' = gone.games
             /\ state' = [gone.state EXCEPT ![p] = "LoggedIn"]
             /\ sent' = gone.out ++ BroadcastActiveUsers(state', name, games')
  BY DEF OnLeave
<1> DEFINE gone == RemoveUserFromAnyGames(p, order)
           n == name[c]
           a == gone.out
           d == BroadcastActiveUsers(state', name', games')
           w == Sees(n, c, v, a)
           x == Reacts(n, c, v, u, a)
<1>2. /\ games' = gone.games /\ state' = [gone.state EXCEPT ![p] = "LoggedIn"]
      /\ sent' = a ++ d /\ UNCHANGED name /\ state[p] \notin HandshakeStates
  BY <1>1 DEF OnLeave, Handled, HandshakeStates
<1>3. /\ Fit(games, state, name) /\ link \in [Peers -> LinkStates] /\ Linked(link, state)
      /\ c \in Peers /\ link[c] = "up" /\ v \in Views /\ ~v.left /\ v.room = RoomFor(c, games, name)
      /\ \/ state[c] \in ActiveStates /\ n # NoName /\ Settled(n, v, u)
         \/ state[c] \in HandshakeStates /\ IsNew(u) /\ v = Fresh
  BY SoundMenu
<1>4. Apart(gone.games)
  <2>1. Apart(games')
    BY DEF MenuStep, SoundStep, IInv, Fit
  <2>2. QED BY <1>2, <2>1
<1>5. Outbox(a) /\ Outbox(d)
  BY <1>3, RemovalIsSilent, BroadcastsAreSilent DEF SilentBox
<1>6. w \in Views /\ ~w.left
  BY <1>3, <1>4, RemovalSeen
<1>7. /\ state[c] \in ActiveStates => Ready(n, w, x)
      /\ c # p /\ state[c] \in HandshakeStates => x = u
  BY RemovalReacts
<1>8. /\ DOMAIN gone.state = Peers
      /\ gone.state[c] = state[c] \/ gone.state[c] = "LoggedIn"
      /\ state[c] \in HandshakeStates => gone.state[c] = state[c]
  BY <1>3, RemovalStates, RemovalKeeps
<1> HIDE DEF gone, a, d, w, x
<1>9. /\ state'[c] \in HandshakeStates => state[c] \in HandshakeStates /\ c # p
      /\ state'[c] \in ActiveStates => state[c] \in ActiveStates
  BY <1>2, <1>3, <1>8 DEF HandshakeStates, ActiveStates
<1>10. Sees(n, c, v, sent') = Sees(n, c, w, d) /\ Reacts(n, c, v, u, sent') = Reacts(n, c, w, x, d)
  BY <1>2, <1>3, <1>5, SeesBoth, ReactsBoth DEF w, x
<1>11. state'[c] \in HandshakeStates => IsNew(x)
  BY <1>3, <1>7, <1>9 DEF ActiveStates, HandshakeStates
<1>12. QED BY <1>2, <1>6, <1>7, <1>9, <1>10, <1>11, EndsWithGames DEF d, n

LEMMA LostConnectionMenu ==
  ASSUME NEW c, NEW v, NEW u, MenuStep(c, v, u), NEW p \in Peers, LostConnection(p)
  PROVE  MenuAfter(c, v, u)
<1>1. PICK order \in RemovalOrders(p) :
         LET gone == RemoveUserFromAnyGames(p, order)
             out  == gone.out ++ BroadcastActiveUsers(state', name', games')
         IN  /\ games' = gone.games
             /\ state' = [gone.state EXCEPT ![p] = "NoUser"]
             /\ sent' = [out EXCEPT ![p] = <<>>]
  BY DEF LostConnection
<1> DEFINE gone == RemoveUserFromAnyGames(p, order)
           n == name[c]
           a == gone.out
           d == BroadcastActiveUsers(state', name', games')
           w == Sees(n, c, v, a)
           x == Reacts(n, c, v, u, a)
<1>2. /\ games' = gone.games /\ state' = [gone.state EXCEPT ![p] = "NoUser"]
      /\ sent' = [a ++ d EXCEPT ![p] = <<>>]
      /\ link' = [link EXCEPT ![p] = "free"] /\ name' = [name EXCEPT ![p] = NoName]
  BY <1>1 DEF LostConnection
<1>3. /\ Fit(games, state, name) /\ link \in [Peers -> LinkStates] /\ Linked(link, state)
      /\ c \in Peers /\ link[c] = "up" /\ v \in Views /\ ~v.left /\ v.room = RoomFor(c, games, name)
      /\ \/ state[c] \in ActiveStates /\ n # NoName /\ Settled(n, v, u)
         \/ state[c] \in HandshakeStates /\ IsNew(u) /\ v = Fresh
      /\ Fit(games', state', name') /\ link'[c] = "up"
  BY SoundMenu
<1>4. c # p /\ name'[c] = n
  BY <1>2, <1>3 DEF Fit, Typed
<1>5. Apart(gone.games)
  <2>1. Apart(games')
    BY <1>3 DEF Fit
  <2>2. QED BY <1>2, <2>1
<1>6. Outbox(a) /\ Outbox(d)
  BY <1>3, RemovalIsSilent, BroadcastsAreSilent DEF SilentBox
<1>7. w \in Views /\ ~w.left
  BY <1>3, <1>5, RemovalSeen
<1>8. /\ state[c] \in ActiveStates => Ready(n, w, x)
      /\ c # p /\ state[c] \in HandshakeStates => x = u
  BY RemovalReacts
<1>9. /\ DOMAIN gone.state = Peers
      /\ gone.state[c] = state[c] \/ gone.state[c] = "LoggedIn"
      /\ state[c] \in HandshakeStates => gone.state[c] = state[c]
  BY <1>3, RemovalStates, RemovalKeeps
<1>10. GamesFor(games', name) = GamesFor(games', name')
  BY <1>3, LostIsNowhere
<1> HIDE DEF gone, a, d, w, x
<1>11. /\ state'[c] \in HandshakeStates => state[c] \in HandshakeStates
       /\ state'[c] \in ActiveStates => state[c] \in ActiveStates
  BY <1>2, <1>3, <1>4, <1>9 DEF HandshakeStates, ActiveStates
<1>12. Sees(n, c, v, sent') = Sees(n, c, w, d) /\ Reacts(n, c, v, u, sent') = Reacts(n, c, w, x, d)
  <2>1. DOMAIN (a ++ d) = Peers
    BY Outboxes
  <2>2. sent'[c] = (a ++ d)[c]
    BY <1>2, <1>3, <1>4, <2>1
  <2>3. Sees(n, c, v, sent') = Sees(n, c, v, a ++ d) /\ Reacts(n, c, v, u, sent') = Reacts(n, c, v, u, a ++ d)
    BY <2>2 DEF Sees, Reacts
  <2>4. QED BY <1>3, <1>6, <2>3, SeesBoth, ReactsBoth DEF w, x
<1>13. state'[c] \in HandshakeStates => IsNew(x)
  BY <1>3, <1>4, <1>8, <1>11 DEF ActiveStates, HandshakeStates
<1> HIDE DEF n
<1>14. QED BY <1>4, <1>7, <1>8, <1>10, <1>11, <1>12, <1>13, EndsWithGames DEF d

\* The two of the game go to their P2P lobby; the others hear of it what they hear of a
\* game that is left, and then the list.
LEMMA OnStartMenu ==
  ASSUME NEW c, NEW v, NEW u, MenuStep(c, v, u),
         NEW p \in Peers, NEW m \in ClientMsgs, OnStart(p, m)
  PROVE  MenuAfter(c, v, u)
<1> DEFINE i == Min(CreatedBy(p))
<1>1. CASE CreatedBy(p) # {} /\ CanStart(games[i])
  <2>1. PICK order \in RemovalOrders(p), q \in games[i].joined :
          LET gone == RemoveUserFromAnyGames(p, order)
          IN  /\ games' = gone.games
              /\ state' = gone.state
              /\ sent' = SendTo({p}, StartMsg(1, q)) ++ SendTo({q}, StartMsg(2, p))
                           ++ gone.out ++ BroadcastOpenGames(state', games')
    BY <1>1 DEF OnStart, StartMsg
  <2> DEFINE gone == RemoveUserFromAnyGames(p, order)
             n == name[c]
             a == SendTo({p}, StartMsg(1, q))
             b == SendTo({q}, StartMsg(2, p))
             e == gone.out
             d == BroadcastOpenGames(state', games')
             s == Sees(n, c, v, a)
             y == Sees(n, c, s, b)
             w == Sees(n, c, v, e)
             x == Reacts(n, c, v, u, e)
  <2>2. /\ games' = gone.games /\ state' = gone.state
        /\ sent' = ((a ++ b) ++ e) ++ d /\ UNCHANGED name
    BY <1>1, <2>1 DEF OnStart
  <2>3. /\ Fit(games, state, name) /\ link \in [Peers -> LinkStates] /\ Linked(link, state)
        /\ c \in Peers /\ link[c] = "up" /\ v \in Views /\ ~v.left /\ v.room = RoomFor(c, games, name)
        /\ \/ state[c] \in ActiveStates /\ n # NoName /\ Settled(n, v, u)
           \/ state[c] \in HandshakeStates /\ IsNew(u) /\ v = Fresh
    BY SoundMenu
  <2>4. Apart(gone.games)
    <3>1. Apart(games')
      BY DEF MenuStep, SoundStep, IInv, Fit
    <3>2. QED BY <2>2, <3>1
  <2>5. /\ Outbox(a) /\ Outbox(b) /\ Outbox(e) /\ Outbox(d)
        /\ Outbox(a ++ b) /\ Outbox((a ++ b) ++ e)
    BY <2>3, SendFacts, RemovalIsSilent, BroadcastsAreSilent, JoinFacts DEF SilentBox
  <2>6. i \in DOMAIN games /\ games[i].creator = p
    BY <1>1, <2>3, FindCreated
  <2>7. p \in Players(games[i]) /\ q \in Players(games[i]) /\ q \in Peers
    <3>1. p \in Players(games[i]) /\ q \in Players(games[i])
      BY <2>6 DEF Players
    <3>2. QED BY <2>3, <2>6, <3>1, PlayerFacts
  <2> HIDE DEF i
  <2>8. /\ DOMAIN gone.state = Peers
        /\ gone.state[c] = state[c] \/ gone.state[c] = "LoggedIn"
        /\ state[c] \in HandshakeStates => gone.state[c] = state[c]
    BY <2>3, RemovalStates, RemovalKeeps
  <2>9. /\ state'[c] \in HandshakeStates => state[c] \in HandshakeStates
        /\ state'[c] \in ActiveStates => state[c] \in ActiveStates
    <3> HIDE DEF gone
    <3>1. QED BY <2>2, <2>3, <2>8 DEF HandshakeStates, ActiveStates
  <2>10. c \in {p, q} => state'[c] \notin HandshakeStates
    <3>1. c \in {p, q} => state[c] \notin HandshakeStates
      BY <2>3, <2>6, <2>7, PlayerFacts DEF HandshakeStates
    <3>2. QED BY <2>9, <3>1
  <2> HIDE DEF gone, a, b, d, e, s, y, w, x
  <2>11. /\ Sees(n, c, v, sent') = Sees(n, c, Sees(n, c, y, e), d)
         /\ Reacts(n, c, v, u, sent')
              = Reacts(n, c, Sees(n, c, y, e),
                       Reacts(n, c, y, Reacts(n, c, s, Reacts(n, c, v, u, a), b), e), d)
    <3>1. Sees(n, c, v, a ++ b) = y /\ Reacts(n, c, v, u, a ++ b) = Reacts(n, c, s, Reacts(n, c, v, u, a), b)
      BY <2>3, <2>5, SeesBoth, ReactsBoth DEF s, y
    <3>2. /\ Sees(n, c, v, (a ++ b) ++ e) = Sees(n, c, y, e)
          /\ Reacts(n, c, v, u, (a ++ b) ++ e)
               = Reacts(n, c, y, Reacts(n, c, s, Reacts(n, c, v, u, a), b), e)
      BY <2>3, <2>5, <3>1, SeesBoth, ReactsBoth
    <3>3. QED BY <2>2, <2>3, <2>5, <3>2, SeesBoth, ReactsBoth
  <2>12. CASE c \in {p, q}
    <3>1. y.left
      <4> DEFINE gap == [Fresh EXCEPT !.left = TRUE]
      <4>1. gap.left /\ StartMsg(1, q).type = "Start" /\ StartMsg(2, p).type = "Start"
        BY DEF Fresh, StartMsg
      <4>2. Hear(n, v, StartMsg(1, q)) = gap /\ Hear(n, v, StartMsg(2, p)) = gap
        BY <2>3, <4>1 DEF Hear
      <4> HIDE DEF gap
      <4>3. s = IF c \in {p} THEN gap ELSE v
        BY <2>3, <4>2, SeesOne DEF s, a
      <4>4. c = p => y = gap
        BY <2>3, <2>5, <4>1, <4>3, SeesNoMore DEF y
      <4>5. c # p => y = gap
        BY <2>3, <2>12, <4>2, <4>3, SeesOne DEF y, b
      <4>6. QED BY <4>1, <4>4, <4>5
    <3>2. Sees(n, c, y, e) = y
      BY <2>3, <2>5, <3>1, SeesNoMore
    <3>3. Sees(n, c, y, d) = y
      BY <2>3, <2>5, <3>1, SeesNoMore
    <3>4. Sees(name'[c], c, v, sent').left
      BY <2>2, <2>11, <3>1, <3>2, <3>3
    <3>5. QED BY <2>10, <2>12, <3>4 DEF MenuAfter, MenuRight
  <2>13. CASE c \notin {p, q}
    <3>1. s = v /\ Reacts(n, c, v, u, a) = u
      BY <2>3, <2>13, SeesOne, ReactsOne DEF s, a
    <3>2. y = v /\ Reacts(n, c, s, u, b) = u
      BY <2>3, <2>13, <3>1, SeesOne, ReactsOne DEF y, b
    <3>3. Sees(n, c, v, sent') = Sees(n, c, w, d) /\ Reacts(n, c, v, u, sent') = Reacts(n, c, w, x, d)
      BY <2>11, <3>1, <3>2 DEF w, x
    <3>4. w \in Views /\ ~w.left
      BY <2>3, <2>4, RemovalSeen DEF w, e, gone
    <3>5. /\ state[c] \in ActiveStates => Ready(n, w, x)
          /\ c # p /\ state[c] \in HandshakeStates => x = u
      BY RemovalReacts DEF w, x, e, gone
    <3>6. state'[c] \in HandshakeStates => IsNew(x)
      BY <2>3, <2>9, <2>13, <3>5 DEF ActiveStates, HandshakeStates
    <3>7. QED BY <2>2, <2>9, <3>3, <3>4, <3>5, <3>6, EndsWithGames DEF d, n
  <2>14. QED BY <2>12, <2>13
<1>2. CASE ~(CreatedBy(p) # {} /\ CanStart(games[i]))
  BY <1>2, NothingMenu DEF OnStart
<1>3. QED BY <1>1, <1>2
-----------------------------------------------------------------------------
(***************************************************************************)
(* Every event keeps every menu right.                                     *)
(***************************************************************************)
LEMMA HandlerMenu ==
  ASSUME NEW c, NEW v, NEW u, MenuStep(c, v, u),
         NEW p \in Peers, NEW m \in ClientMsgs, ReceiveMessage(p, m)
  PROVE  MenuAfter(c, v, u)
<1>1. CASE BadMessage(p, m)
  BY <1>1, DisconnectUserMenu DEF BadMessage
<1>2. CASE Ignored(p, m)
  BY <1>2, NothingMenu DEF Ignored
<1>3. CASE OnVersion(p, m)
  <2>1. \/ DisconnectUser(p)
        \/ /\ state' = [state EXCEPT ![p] = "WaitingForLocalIP"]
           /\ sent' = Quiet /\ UNCHANGED name
    BY <1>3 DEF OnVersion
  <2>2. state[p] \in HandshakeStates /\ "WaitingForLocalIP" \in HandshakeStates
    BY <1>3 DEF OnVersion, HandshakeStates
  <2>3. QED BY <2>1, <2>2, HandshakeMenu, DisconnectUserMenu
<1>4. CASE OnLocalIP(p, m)
  <2> DEFINE s == IF m.ok THEN "WaitingForLogin" ELSE state[p]
  <2>1. state[p] \in HandshakeStates /\ s \in HandshakeStates
    BY <1>4 DEF OnLocalIP, HandshakeStates
  <2>2. state' = [state EXCEPT ![p] = s] /\ sent' = Quiet /\ UNCHANGED name
    BY <1>4 DEF OnLocalIP
  <2> HIDE DEF s
  <2>3. QED BY <2>1, <2>2, HandshakeMenu
<1>5. CASE OnLogin(p, m)
  BY <1>5, OnLoginMenu
<1>6. CASE OnCreate(p, m)
  BY <1>6, OnCreateMenu
<1>7. CASE OnJoin(p, m)
  BY <1>7, OnJoinMenu
<1>8. CASE OnLeave(p, m)
  BY <1>8, OnLeaveMenu
<1>9. CASE OnEject(p, m)
  BY <1>9, OnEjectMenu
<1>10. CASE OnApprove(p, m)
  BY <1>10, OnApproveMenu
<1>11. CASE OnStart(p, m)
  BY <1>11, OnStartMenu
<1>12. QED
  BY <1>1, <1>2, <1>3, <1>4, <1>5, <1>6, <1>7, <1>8, <1>9, <1>10, <1>11 DEF ReceiveMessage

\* The menus beside the views of ViewInv.
MenuInv ==
    \A c \in Peers : IF link[c] = "up" THEN MenuRight(c, told[c], menu[c], state, name)
                     ELSE menu[c] = NewMenu(NoName)

\* Only a LOGIN that is accepted gives a client that is up a new name.
LEMMA LoggingInWaits ==
  ASSUME Next, NEW c \in Peers, name \in [Peers -> Names \cup {NoName}], NoName # name'[c],
         name'[c] # name[c]
  PROVE  state[c] = "WaitingForLogin"
<1>1. PICK p \in Peers : \/ NewConnection(p) \/ LostConnection(p)
                        \/ \E m \in ClientMsgs : ReceiveMessage(p, m)
  BY DEF Next
<1>2. name' # name
  OBVIOUS
<1>3. ~NewConnection(p)
  BY <1>2 DEF NewConnection
<1>4. ~LostConnection(p)
  <2>1. LostConnection(p) => name' = [name EXCEPT ![p] = NoName]
    BY DEF LostConnection
  <2>2. QED BY <2>1
<1>5. PICK m \in ClientMsgs : ReceiveMessage(p, m)
  BY <1>1, <1>3, <1>4
<1>6. ~DisconnectUser(p)
  BY <1>2 DEF DisconnectUser
<1>7. OnLogin(p, m)
  BY <1>2, <1>5, <1>6
     DEF ReceiveMessage, BadMessage, Ignored, OnVersion, OnLocalIP, OnCreate, OnJoin, OnLeave,
         OnEject, OnApprove, OnStart
<1>8. state[p] = "WaitingForLogin" /\ name' = [name EXCEPT ![p] = m.who]
  BY <1>6, <1>7 DEF OnLogin
<1>9. QED BY <1>8

\* Until then it makes no difference to a menu what was typed.
LEMMA BeforeIsNew ==
  ASSUME NEW c \in Peers, IsNew(menu[c]), NEW S PROVE IsNew(MenuBefore(c, S))
<1>1. ASSUME NEW t PROVE IsNew([menu[c] EXCEPT !.logged = t])
  BY DEF IsNew, Shaped
<1>2. CASE c \in LoggingIn
  <2>1. MenuBefore(c, S) = [menu[c] EXCEPT !.logged = name'[c]]
          \/ MenuBefore(c, S) = [menu[c] EXCEPT !.logged = Unclean]
    BY <1>2 DEF MenuBefore
  <2>2. QED BY <1>1, <2>1
<1>3. CASE c \notin LoggingIn
  BY <1>3 DEF MenuBefore
<1>4. QED BY <1>2, <1>3

LEMMA MenusKept ==
  ASSUME IInv, ViewInv, MenuInv, MenuNext, \A p \in Peers : Process[p] = NoName
  PROVE  MenuInv'
<1>1. Next /\ ViewNext /\ Linked(link, state) /\ told \in [Peers -> Views]
  BY DEF MenuNext, ViewNext, ViewInv
<1>2. IInv'
  BY <1>1, NextFits
<1>3. /\ Linked(link', state')
      /\ \A c \in Peers : /\ link[c] = "up" /\ state'[c] \in HandshakeStates
                              => state[c] \in HandshakeStates
                          /\ link[c] # "up" /\ link'[c] = "up"
                              => state'[c] = "WaitingForVersion" /\ sent' = Quiet
  BY <1>1, LinkedKept
<1>4. PICK cleaned \in SUBSET LoggingIn :
         menu' = [p \in Peers |->
             IF link'[p] = "up" THEN ReactAll(name'[p], told[p], MenuBefore(p, cleaned), sent'[p])
             ELSE NewMenu(NoName)]
  BY DEF MenuNext
<1>5. ASSUME NEW c \in Peers, link'[c] = "up"
      PROVE  MenuAfter(c, told[c], MenuBefore(c, cleaned))
  <2> DEFINE v == told[c]
             u == MenuBefore(c, cleaned)
  <2>1. CASE link[c] # "up"
    <3>1. menu[c] = NewMenu(NoName) /\ sent' = Quiet /\ state'[c] \notin ActiveStates
      BY <1>3, <1>5, <2>1 DEF MenuInv, ActiveStates
    <3>2. IsNew(u)
      BY <3>1, BeforeIsNew DEF IsNew, NewMenu, Shaped
    <3>3. Reacts(name'[c], c, v, u, sent') = u
      BY <3>1, ReactsQuiet
    <3>4. QED BY <3>1, <3>2, <3>3 DEF MenuAfter, MenuRight
  <2>2. CASE link[c] = "up" /\ v.left
    <3>1. Right(c, v, link, state, name, games) /\ ~Fresh.left
      BY <2>2, FreshIsView DEF ViewInv
    <3>2. state'[c] \notin HandshakeStates
      BY <1>3, <2>2, <3>1 DEF Right
    <3>3. Outbox(sent')
      BY <1>1, SentIsOutbox
    <3> HIDE DEF v, u
    <3>4. Sees(name'[c], c, v, sent') = v
      BY <2>2, <3>3, SeesNoMore
    <3>5. QED BY <2>2, <3>2, <3>4 DEF MenuAfter, MenuRight, v
  <2>3. CASE link[c] = "up" /\ ~v.left
    <3>1. SoundStep(c, v)
      BY <1>1, <1>2, <1>3, <1>5, <2>3 DEF SoundStep, Sound, ViewInv
    <3>2. MenuRight(c, v, u, state, name)
      <4>1. MenuRight(c, v, menu[c], state, name)
        BY <2>3 DEF MenuInv
      <4>2. CASE c \in LoggingIn
        <5>1. state[c] = "WaitingForLogin"
          BY <1>1, <4>2, LoggingInWaits DEF LoggingIn, IInv, Fit, Typed
        <5>2. IsNew(menu[c])
          BY <4>1, <5>1 DEF MenuRight, HandshakeStates
        <5>3. QED BY <5>1, <5>2, BeforeIsNew DEF MenuRight, ActiveStates
      <4>3. CASE c \notin LoggingIn
        BY <4>1, <4>3 DEF MenuBefore
      <4>4. QED BY <4>2, <4>3
    <3> HIDE DEF v, u
    <3>3. RightAfter(c, v)
      BY <1>1, <3>1, NewConnectionSeen, LostConnectionSeen, HandlerSeen DEF Next
    <3>4. MenuStep(c, v, u)
      BY <3>1, <3>2, <3>3 DEF MenuStep
    <3>5. MenuAfter(c, v, u)
      BY <1>1, <3>4, NewConnectionMenu, LostConnectionMenu, HandlerMenu DEF Next
    <3>6. QED BY <3>5 DEF v, u
  <2>4. QED BY <2>1, <2>2, <2>3
<1>6. \A c \in Peers : told'[c] = IF link'[c] = "up" THEN Sees(name'[c], c, told[c], sent') ELSE Fresh
  BY <1>1 DEF ViewNext, Sees
<1>7. \A c \in Peers : menu'[c] = IF link'[c] = "up"
                                THEN Reacts(name'[c], c, told[c], MenuBefore(c, cleaned), sent')
                                ELSE NewMenu(NoName)
  BY <1>4 DEF Reacts
<1>8. QED BY <1>5, <1>6, <1>7 DEF MenuInv, MenuAfter
-----------------------------------------------------------------------------
(***************************************************************************)
(* The theorems.                                                           *)
(***************************************************************************)
\* While each connection is a new process, the menu of every client is new until its login
\* and right for the room it shows from then to its START, after every event: its lists
\* whatever name was typed, its mode if that name needed no cleaning.
THEOREM MenuStaysRight ==
  ASSUME \A p \in Peers : Process[p] = NoName
  PROVE  MenuSpec => [](IInv /\ ViewInv /\ MenuInv)
<1>1. MenuInit => IInv /\ ViewInv /\ MenuInv
  BY ViewsInit, InitFits DEF MenuInit, ViewInit, Init, MenuInv
<1>2. IInv /\ ViewInv /\ MenuInv /\ [MenuNext]_menuVars => IInv' /\ ViewInv' /\ MenuInv'
  <2> SUFFICES ASSUME IInv, ViewInv, MenuInv, [MenuNext]_menuVars
               PROVE  IInv' /\ ViewInv' /\ MenuInv'
    OBVIOUS
  <2>1. CASE MenuNext
    <3>1. [Next]_vars /\ ViewNext
      BY <2>1 DEF MenuNext, ViewNext
    <3>2. QED BY <2>1, <3>1, NextFits, ViewsKept, MenusKept
  <2>2. CASE UNCHANGED menuVars
    <3>1. UNCHANGED <<link, state, name, games, sent, told, menu>>
      BY <2>2 DEF menuVars, viewVars, vars
    <3>2. QED BY <3>1 DEF IInv, ViewInv, MenuInv
  <2>3. QED BY <2>1, <2>2
<1>3. QED BY <1>1, <1>2, PTL DEF MenuSpec

\* What the invariant says of a client that listens.
LEMMA ListeningMenu ==
  ASSUME IInv, ViewInv, MenuInv, NEW p \in Listening
  PROVE  /\ p \in Peers /\ name[p] # NoName /\ Fit(games, state, name)
         /\ Settled(name[p], told[p], menu[p])
         /\ told[p].room = RoomFor(p, games, name) /\ told[p].games = GamesFor(games, name)
<1>1. p \in Peers /\ state[p] \in ActiveStates /\ link[p] = "up" /\ ~told[p].left
  BY DEF Listening, ActivePlayers
<1>2. MenuRight(p, told[p], menu[p], state, name) /\ Current(p, told[p], link, state, name, games)
  BY <1>1 DEF MenuInv, ViewInv, Right
<1>3. QED BY <1>1, <1>2 DEF MenuRight, Current, IInv, Fit, NamesFit

\* The room of a player, and of who is in no game.
LEMMA ListeningRoom ==
  ASSUME Fit(games, state, name), NEW p \in Peers, name[p] # NoName
  PROVE  /\ \A i \in CreatedBy(p) :
               /\ RoomFor(p, games, name).creator = name[p]
               /\ RoomFor(p, games, name).pending = {name[q] : q \in games[i].pending}
               /\ RoomFor(p, games, name).joined = {name[q] : q \in games[i].joined}
               /\ PendingFor(p) = games[i].pending /\ JoinedTo(p) = games[i].joined
               /\ ~Pending(p) /\ ~Joined(p)
         /\ \A i \in DOMAIN games : p \in games[i].joined \cup games[i].pending =>
               /\ RoomFor(p, games, name).creator \notin {name[p], NoName}
               /\ p \in games[i].pending => name[p] \in RoomFor(p, games, name).pending
               /\ CreatedBy(p) = {}
               /\ Pending(p) <=> p \in games[i].pending
               /\ Joined(p) <=> p \in games[i].joined
         /\ CreatedBy(p) = {} /\ ~Pending(p) /\ ~Joined(p) =>
               RoomFor(p, games, name).creator = NoName /\ RoomFor(p, games, name).pending = {}
<1> DEFINE r == RoomFor(p, games, name)
<1>1. \A i, j \in DOMAIN games : p \in Players(games[i]) /\ p \in Players(games[j]) => i = j
  BY OneGame DEF Fit
<1>2. \A i \in DOMAIN games : p \in Players(games[i]) => r = InfoOf(games[i], name)
  BY RoomIs DEF Fit
<1>3. \A i \in DOMAIN games : /\ games[i].creator \notin games[i].joined \cup games[i].pending
                            /\ games[i].joined \cap games[i].pending = {}
  BY DEF Fit, GameFits
<1>4. \A i \in DOMAIN games : games[i].creator \in Peers /\ name[games[i].creator] # NoName
  <2>1. \A i \in DOMAIN games : games[i].creator \in Players(games[i])
    BY DEF Players
  <2>2. QED BY <2>1, PlayerFacts
<1>5. \A q \in Peers : name[q] = name[p] => q = p
  BY DEF Fit, NamesFit
<1>6. (\A i \in DOMAIN games : p \notin Players(games[i])) => r = NoRoom
  BY NoRoomIs
<1> HIDE DEF r
<1>7. ASSUME NEW i \in CreatedBy(p)
      PROVE  /\ r.creator = name[p] /\ r.pending = {name[q] : q \in games[i].pending}
             /\ r.joined = {name[q] : q \in games[i].joined}
             /\ PendingFor(p) = games[i].pending /\ JoinedTo(p) = games[i].joined
             /\ ~Pending(p) /\ ~Joined(p)
  <2>1. i \in DOMAIN games /\ games[i].creator = p /\ p \in Players(games[i])
    BY DEF CreatedBy, Players
  <2>2. /\ r.creator = name[p] /\ r.pending = {name[q] : q \in games[i].pending}
        /\ r.joined = {name[q] : q \in games[i].joined}
    BY <1>2, <2>1 DEF InfoOf
  <2>3. CreatedBy(p) = {i}
    BY <1>1, <2>1 DEF CreatedBy, Players
  <2>4. \A j \in DOMAIN games : p \notin games[j].joined \cup games[j].pending
    BY <1>1, <1>3, <2>1 DEF Players
  <2>5. PendingFor(p) = games[i].pending /\ JoinedTo(p) = games[i].joined
    BY <2>3 DEF PendingFor, JoinedTo
  <2>6. QED BY <2>2, <2>4, <2>5 DEF Pending, Joined
<1>8. ASSUME NEW i \in DOMAIN games, p \in games[i].joined \cup games[i].pending
      PROVE  /\ r.creator \notin {name[p], NoName}
             /\ p \in games[i].pending => name[p] \in r.pending
             /\ CreatedBy(p) = {}
             /\ Pending(p) <=> p \in games[i].pending
             /\ Joined(p) <=> p \in games[i].joined
  <2>1. p \in Players(games[i]) /\ p # games[i].creator
    BY <1>3, <1>8 DEF Players
  <2>2. r.creator = name[games[i].creator] /\ r.pending = {name[q] : q \in games[i].pending}
    BY <1>2, <2>1 DEF InfoOf
  <2>3. \A j \in DOMAIN games : p \in Players(games[j]) => j = i
    BY <1>1, <2>1
  <2>4. CreatedBy(p) = {}
    BY <2>1, <2>3 DEF CreatedBy, Players
  <2>5. (Pending(p) <=> p \in games[i].pending) /\ (Joined(p) <=> p \in games[i].joined)
    BY <2>3 DEF Pending, Joined, Players
  <2>6. QED BY <1>4, <1>5, <2>1, <2>2, <2>4, <2>5
<1>9. CreatedBy(p) = {} /\ ~Pending(p) /\ ~Joined(p) => r.creator = NoName /\ r.pending = {}
  <2>1. CreatedBy(p) = {} /\ ~Pending(p) /\ ~Joined(p) => \A i \in DOMAIN games : p \notin Players(games[i])
    BY DEF CreatedBy, Pending, Joined, Players
  <2>2. NoRoom.creator = NoName /\ NoRoom.pending = {} /\ NoRoom.joined = {}
    BY DEF NoRoom
  <2>3. QED BY <1>6, <2>1, <2>2
<1>10. QED BY <1>7, <1>8, <1>9 DEF r

\* setCallbacks: in whatever order the handlers send JOIN, GAMEINFO, LEAVE, EJECT and the
\* lists, the menu offers what the client can do where the server has it, if the name that
\* was typed is the name it got (any other name is in no list the menu is given).
THEOREM MenuFitsHolds ==
  ASSUME \A p \in Peers : Process[p] = NoName
  PROVE  MenuSpec => []MenuFits
<1>1. IInv /\ ViewInv /\ MenuInv => MenuFits
  <2> SUFFICES ASSUME IInv, ViewInv, MenuInv, NEW p \in Listening, menu[p].logged = name[p]
               PROVE  menu[p].mode \in
                        CASE PendingFor(p) # {} -> {"allow_deny_leave"}
                          [] Hosting(p) /\ PendingFor(p) = {} -> {"wait_to_join", "allow_deny_leave"}
                          [] Pending(p) -> {"requested_to_join"}
                          [] Joined(p)  -> {"requested_to_join", "default"}
                          [] OTHER      -> {"default"}
    BY DEF MenuFits
  <2> DEFINE r == RoomFor(p, games, name)
             mode == menu[p].mode
  <2>1. /\ p \in Peers /\ name[p] # NoName /\ Fit(games, state, name)
        /\ Settled(name[p], told[p], menu[p]) /\ told[p].room = r
    BY ListeningMenu
  <2>2. /\ r.creator = name[p] => mode \in {"wait_to_join", "allow_deny_leave"}
        /\ r.creator = name[p] /\ r.pending # {} => mode = "allow_deny_leave"
        /\ r.creator \notin {name[p], NoName} => mode \in {"requested_to_join", "default"}
        /\ r.creator # name[p] /\ name[p] \in r.pending => mode = "requested_to_join"
        /\ r.creator = NoName => mode = "default"
    BY <2>1 DEF Settled, Ready
  <2>3. /\ \A i \in CreatedBy(p) :
             /\ r.creator = name[p] /\ r.pending = {name[q] : q \in games[i].pending}
             /\ PendingFor(p) = games[i].pending /\ ~Pending(p) /\ ~Joined(p)
        /\ \A i \in DOMAIN games : p \in games[i].joined \cup games[i].pending =>
             /\ r.creator \notin {name[p], NoName}
             /\ p \in games[i].pending => name[p] \in r.pending
             /\ CreatedBy(p) = {}
             /\ Pending(p) <=> p \in games[i].pending
             /\ Joined(p) <=> p \in games[i].joined
        /\ CreatedBy(p) = {} /\ ~Pending(p) /\ ~Joined(p) => r.creator = NoName
    BY <2>1, ListeningRoom
  <2>4. Hosting(p) <=> CreatedBy(p) # {}
    BY DEF Hosting, CreatedBy
  <2>5. CreatedBy(p) = {} => PendingFor(p) = {}
    BY DEF PendingFor
  <2>6. \A i \in DOMAIN games : games[i].joined \cap games[i].pending = {}
    BY <2>1 DEF Fit, GameFits
  <2> HIDE DEF r, mode
  <2>7. CASE CreatedBy(p) # {}
    <3>1. PICK i : i \in CreatedBy(p)
      BY <2>7
    <3>2. /\ r.creator = name[p] /\ r.pending = {name[q] : q \in games[i].pending}
          /\ PendingFor(p) = games[i].pending /\ Hosting(p) /\ ~Pending(p) /\ ~Joined(p)
      BY <2>3, <2>4, <3>1
    <3>3. CASE PendingFor(p) # {}
      <4>1. mode = "allow_deny_leave"
        BY <2>2, <3>2, <3>3
      <4>2. QED BY <3>2, <3>3, <4>1 DEF mode
    <3>4. CASE PendingFor(p) = {}
      <4>1. mode \in {"wait_to_join", "allow_deny_leave"}
        BY <2>2, <3>2
      <4>2. QED BY <3>2, <3>4, <4>1 DEF mode
    <3>5. QED BY <3>3, <3>4
  <2>8. CASE CreatedBy(p) = {} /\ Pending(p)
    <3>1. PICK i \in DOMAIN games : p \in games[i].pending
      BY <2>8 DEF Pending
    <3>2. ~Joined(p) /\ mode = "requested_to_join"
      BY <2>2, <2>3, <2>6, <3>1
    <3>3. QED BY <2>4, <2>5, <2>8, <3>2 DEF mode
  <2>9. CASE CreatedBy(p) = {} /\ ~Pending(p) /\ Joined(p)
    <3>1. PICK i \in DOMAIN games : p \in games[i].joined
      BY <2>9 DEF Joined
    <3>2. mode \in {"requested_to_join", "default"}
      BY <2>2, <2>3, <3>1
    <3>3. QED BY <2>4, <2>5, <2>9, <3>2 DEF mode
  <2>10. CASE CreatedBy(p) = {} /\ ~Pending(p) /\ ~Joined(p)
    <3>1. mode = "default"
      BY <2>2, <2>3, <2>10
    <3>2. QED BY <2>4, <2>5, <2>10, <3>1 DEF mode
  <2>11. QED BY <2>7, <2>8, <2>9, <2>10
<1>2. QED BY <1>1, MenuStaysRight, PTL

\* processServerCommands: when the client has heard everything, the keys 1 to 9 name a game
\* that is open at the server, y and n a player that waits in the game hosted now and, while
\* that game has a player or somebody waits for it, k a player that has joined it.
THEOREM CommandsLandHolds ==
  ASSUME \A p \in Peers : Process[p] = NoName
  PROVE  MenuSpec => []CommandsLand
<1>1. IInv /\ ViewInv /\ MenuInv => CommandsLand
  <2> SUFFICES
        ASSUME IInv, ViewInv, MenuInv, NEW p \in Listening
        PROVE  /\ state[p] = "LoggedIn" => \A m \in Joins(menu[p]) : CreatedByName(m.who) # {}
               /\ state[p] = "OpenedGame" =>
                    /\ \A m \in Answers(menu[p]) : \E q \in PendingFor(p) : name[q] = m.who
                    /\ PendingFor(p) \cup JoinedTo(p) # {}
                         => \A m \in Kicks(menu[p]) : \E q \in JoinedTo(p) : name[q] = m.who
    BY DEF CommandsLand
  <2> DEFINE r == RoomFor(p, games, name)
             u == menu[p]
  <2>1. /\ p \in Peers /\ name[p] # NoName /\ Fit(games, state, name)
        /\ Settled(name[p], told[p], u) /\ told[p].room = r
        /\ told[p].games = GamesFor(games, name)
    BY ListeningMenu
  <2>2. /\ u.asked = r.pending
        /\ r.joined # {} \/ r.pending # {} => u.joined = r.joined
        /\ r.creator # name[p] => u.open = GamesFor(games, name)
    BY <2>1 DEF Settled, Ready
  <2>3. /\ \A i \in CreatedBy(p) :
             /\ r.pending = {name[q] : q \in games[i].pending}
             /\ r.joined = {name[q] : q \in games[i].joined}
             /\ PendingFor(p) = games[i].pending /\ JoinedTo(p) = games[i].joined
        /\ CreatedBy(p) = {} /\ ~Pending(p) /\ ~Joined(p) => r.creator = NoName /\ r.pending = {}
    BY <2>1, ListeningRoom
  <2>4. /\ \A m \in Joins(u) : m.who \in ToSet(u.open)
        /\ \A m \in Answers(u) : m.who \in u.asked
        /\ \A m \in Kicks(u) : m.who \in u.joined
    BY DEF Joins, Answers, Kicks
  <2>5. \A i \in DOMAIN games :
           /\ p \in games[i].joined => state[p] \in {"JoinedOpenGame", "KickedOff"}
           /\ p \in games[i].pending => state[p] \in {"PendingJoin", "KickedOff"}
           /\ games[i].creator = p => state[p] \in {"OpenedGame", "KickedOff"}
    BY <2>1 DEF Fit, GameFits
  <2> HIDE DEF r, u
  <2>6. ASSUME state[p] = "LoggedIn", NEW m \in Joins(u) PROVE CreatedByName(m.who) # {}
    <3>1. CreatedBy(p) = {} /\ ~Pending(p) /\ ~Joined(p)
      BY <2>5, <2>6 DEF CreatedBy, Pending, Joined
    <3>2. m.who \in ToSet(GamesFor(games, name))
      BY <2>1, <2>2, <2>3, <2>4, <3>1
    <3>3. PICK i \in DOMAIN games : m.who = name[games[i].creator]
      BY <3>2 DEF ToSet, GamesFor
    <3>4. QED BY <3>3 DEF CreatedByName
  <2>7. ASSUME state[p] = "OpenedGame", NEW m \in Answers(u)
        PROVE  \E q \in PendingFor(p) : name[q] = m.who
    <3>1. ~Pending(p) /\ ~Joined(p)
      BY <2>5, <2>7 DEF Pending, Joined
    <3>2. m.who \in r.pending
      BY <2>2, <2>4
    <3>3. PICK i : i \in CreatedBy(p)
      BY <2>3, <3>1, <3>2
    <3>4. QED BY <2>3, <3>2, <3>3
  <2>8. ASSUME PendingFor(p) \cup JoinedTo(p) # {}, NEW m \in Kicks(u)
        PROVE  \E q \in JoinedTo(p) : name[q] = m.who
    <3>1. PICK i : i \in CreatedBy(p)
      BY <2>8 DEF PendingFor, JoinedTo
    <3>2. r.joined # {} \/ r.pending # {}
      BY <2>3, <2>8, <3>1
    <3>3. m.who \in r.joined
      BY <2>2, <2>4, <3>2
    <3>4. QED BY <2>3, <3>1, <3>3
  <2>9. QED BY <2>6, <2>7, <2>8 DEF u
<1>2. QED BY <1>1, MenuStaysRight, PTL
=============================================================================
