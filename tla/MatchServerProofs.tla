------------------------- MODULE MatchServerProofs -------------------------
(***************************************************************************)
(* Proofs about MatchServer, for any number of peers and names.            *)
(*                                                                         *)
(* The server keeps one fact in two places: the set of a game a user is in *)
(* and the state of the user's own machine.  The inductive invariant says  *)
(* that games, states and names fit together (Fit); each handler is shown  *)
(* to move between fitting triples by one of five elementary changes: a    *)
(* game is opened, closed or replaced, a user changes state alone, a user  *)
(* vanishes.                                                               *)
(***************************************************************************)
EXTENDS MatchServer, SequenceLemmas

Typed(gs, st, nm) ==
    /\ gs \in Seq(Game)
    /\ st \in [Peers -> UserStates \cup {"NoUser"}]
    /\ nm \in [Peers -> Names \cup {NoName}]

\* The sets of one game agree with the states and names of its players.
GameFits(g, st, nm) ==
    /\ g.creator \notin g.joined \cup g.pending
    /\ g.joined \cap g.pending = {}
    /\ st[g.creator] \in {"OpenedGame", "KickedOff"}
    /\ \A p \in g.joined : st[p] \in {"JoinedOpenGame", "KickedOff"}
    /\ \A p \in g.pending : st[p] \in {"PendingJoin", "KickedOff"}
    /\ \A p \in Players(g) : nm[p] # NoName

Apart(gs) == \A i, j \in DOMAIN gs : i # j => Players(gs[i]) \cap Players(gs[j]) = {}

\* A user that thinks it is in a game is in one.
Backed(gs, st) ==
    \A p \in Peers :
        /\ st[p] = "JoinedOpenGame" => \E i \in DOMAIN gs : p \in gs[i].joined
        /\ st[p] = "PendingJoin" => \E i \in DOMAIN gs : p \in gs[i].pending

NamesFit(st, nm) ==
    /\ \A p, q \in Peers : nm[p] = nm[q] /\ nm[p] # NoName => p = q
    /\ \A p \in Peers : st[p] \in ActiveStates => nm[p] # NoName
    /\ \A p \in Peers : st[p] \in HandshakeStates \cup {"NoUser"} => nm[p] = NoName

Fit(gs, st, nm) ==
    /\ Typed(gs, st, nm)
    /\ \A i \in DOMAIN gs : GameFits(gs[i], st, nm)
    /\ Apart(gs)
    /\ Backed(gs, st)
    /\ NamesFit(st, nm)

IInv ==
    /\ link \in [Peers -> LinkStates]
    /\ DOMAIN sent = Peers
    /\ Fit(games, state, name)
-----------------------------------------------------------------------------
(***************************************************************************)
(* The elementary changes of a fitting triple.                             *)
(***************************************************************************)
\* Two games share no player, so a player pins down its game.
LEMMA OneGame ==
  ASSUME NEW gs, Apart(gs), NEW i \in DOMAIN gs, NEW j \in DOMAIN gs,
         NEW p, p \in Players(gs[i]), p \in Players(gs[j])
  PROVE  i = j
  BY DEF Apart

\* The players of a game are users past their login, each in a state of that game.
LEMMA PlayerFacts ==
  ASSUME NEW gs, NEW st, NEW nm, Fit(gs, st, nm), NEW i \in DOMAIN gs, NEW p \in Players(gs[i])
  PROVE  /\ p \in Peers
         /\ gs[i] \in Game
         /\ nm[p] # NoName
         /\ st[p] \in {"OpenedGame", "JoinedOpenGame", "PendingJoin", "KickedOff"}
<1>1. gs[i] \in Game /\ GameFits(gs[i], st, nm)
  BY ElementOfSeq, LenProperties DEF Fit, Typed
<1>2. QED BY <1>1 DEF Game, GameFits, Players

\* KillGame and m_games.erase: game i goes, its players leave the states of the game.
LEMMA CloseGame ==
  ASSUME NEW gs, NEW st, NEW nm, Fit(gs, st, nm), NEW i \in DOMAIN gs,
         NEW st2 \in [Peers -> UserStates \cup {"NoUser"}],
         \A q \in Peers \ Players(gs[i]) : st2[q] = st[q],
         \A q \in Players(gs[i]) : st2[q] \in {"LoggedIn", "OpenedGame", "KickedOff"}
  PROVE  Fit(RemoveAt(gs, i), st2, nm)
<1> DEFINE rest == RemoveAt(gs, i)
<1>1. /\ rest \in Seq(Game)
      /\ \A j \in DOMAIN rest : \E k \in DOMAIN gs \ {i} : rest[j] = gs[k]
      /\ \A j, k \in DOMAIN rest :
            j # k => \E u, v \in DOMAIN gs \ {i} : u # v /\ rest[j] = gs[u] /\ rest[k] = gs[v]
      /\ \A k \in DOMAIN gs \ {i} : \E j \in DOMAIN rest : rest[j] = gs[k]
  BY RemoveAtFacts DEF Fit, Typed
<1> HIDE DEF rest
<1>2. Typed(rest, st2, nm)
  BY <1>1 DEF Fit, Typed
<1>3. \A k \in DOMAIN gs \ {i} : \A q \in Players(gs[k]) : st2[q] = st[q]
  BY OneGame, PlayerFacts DEF Fit
<1>4. \A k \in DOMAIN gs \ {i} : GameFits(gs[k], st2, nm)
  <2> TAKE k \in DOMAIN gs \ {i}
  <2>1. GameFits(gs[k], st, nm)
    BY DEF Fit
  <2>2. QED BY <2>1, <1>3 DEF GameFits, Players
<1>5. \A j \in DOMAIN rest : GameFits(rest[j], st2, nm)
  BY <1>1, <1>4
<1>6. Apart(rest)
  BY <1>1 DEF Fit, Apart
<1>7. Backed(rest, st2)
  <2> SUFFICES ASSUME NEW q \in Peers
               PROVE  /\ st2[q] = "JoinedOpenGame" => \E j \in DOMAIN rest : q \in rest[j].joined
                      /\ st2[q] = "PendingJoin" => \E j \in DOMAIN rest : q \in rest[j].pending
    BY DEF Backed
  <2>1. CASE q \in Players(gs[i])
    BY <2>1
  <2>2. CASE q \notin Players(gs[i])
    <3>1. st2[q] = st[q] /\ q \notin gs[i].joined /\ q \notin gs[i].pending
      BY <2>2 DEF Players
    <3>2. st[q] = "JoinedOpenGame" => \E k \in DOMAIN gs \ {i} : q \in gs[k].joined
      BY <3>1 DEF Fit, Backed
    <3>3. st[q] = "PendingJoin" => \E k \in DOMAIN gs \ {i} : q \in gs[k].pending
      BY <3>1 DEF Fit, Backed
    <3>4. QED BY <3>1, <3>2, <3>3, <1>1
  <2>3. QED BY <2>1, <2>2
<1>8. NamesFit(st2, nm)
  <2>1. \A q \in Peers : \/ st2[q] = st[q]
                         \/ nm[q] # NoName /\ st2[q] \in {"LoggedIn", "OpenedGame", "KickedOff"}
    BY PlayerFacts
  <2>2. QED BY <2>1 DEF Fit, NamesFit, HandshakeStates
<1>9. QED BY <1>2, <1>5, <1>6, <1>7, <1>8 DEF Fit, rest

\* One user p enters, leaves or changes its place in game i, which becomes g.
LEMMA ReplaceGame ==
  ASSUME NEW gs, NEW st, NEW nm, Fit(gs, st, nm), NEW i \in DOMAIN gs,
         NEW p \in Peers, NEW g \in Game, NEW s \in ActiveStates,
         \A j \in DOMAIN gs : p \in Players(gs[j]) => j = i,
         p # gs[i].creator, g.creator = gs[i].creator,
         g.joined \ {p} = gs[i].joined \ {p}, g.pending \ {p} = gs[i].pending \ {p},
         p \in g.joined <=> s = "JoinedOpenGame",
         p \in g.pending <=> s = "PendingJoin",
         nm[p] # NoName
  PROVE  Fit([gs EXCEPT ![i] = g], [st EXCEPT ![p] = s], nm)
<1> DEFINE hs == [gs EXCEPT ![i] = g]
           st2 == [st EXCEPT ![p] = s]
<1>1. Typed(gs, st, nm) /\ i \in 1..Len(gs)
  BY LenProperties DEF Fit, Typed
<1>2. /\ hs \in Seq(Game)
      /\ DOMAIN hs = DOMAIN gs
      /\ hs[i] = g
      /\ \A j \in DOMAIN gs \ {i} : hs[j] = gs[j]
  BY <1>1, ExceptSeq, LenProperties DEF Typed
<1>3. /\ st2 \in [Peers -> UserStates \cup {"NoUser"}]
      /\ st2[p] = s
      /\ \A q \in Peers \ {p} : st2[q] = st[q]
  BY <1>1 DEF Typed, UserStates
<1> HIDE DEF hs, st2
<1>4. \A j \in DOMAIN gs \ {i} : \A q \in Players(gs[j]) : q \in Peers \ {p}
  BY PlayerFacts
<1>5. \A j \in DOMAIN gs : GameFits(gs[j], st, nm) /\ gs[j] \in Game
  BY <1>1, ElementOfSeq, LenProperties DEF Fit, Typed
<1>6. \A j \in DOMAIN hs : GameFits(hs[j], st2, nm)
  <2> TAKE j \in DOMAIN hs
  <2>1. CASE j # i
    BY <2>1, <1>2, <1>3, <1>4, <1>5 DEF GameFits, Players
  <2>2. CASE j = i
    <3>1. GameFits(gs[i], st, nm) /\ gs[i] \in Game
      BY <1>5
    <3>2. GameFits(g, st2, nm)
      BY <3>1, <1>3 DEF GameFits, Players, Game
    <3>3. QED BY <3>2, <2>2, <1>2
  <2>3. QED BY <2>1, <2>2
<1>7. Apart(hs)
  <2> SUFFICES ASSUME NEW j \in DOMAIN hs, NEW k \in DOMAIN hs, j # k,
                      NEW q \in Players(hs[j]), q \in Players(hs[k])
               PROVE  FALSE
    BY DEF Apart
  <2>1. \A l \in DOMAIN hs : q \in Players(hs[l]) => q \in Players(gs[l]) \/ (q = p /\ l = i)
    <3>1. q \in Players(g) => q \in Players(gs[i]) \/ q = p
      BY DEF Players
    <3>2. \A l \in DOMAIN gs \ {i} : Players(hs[l]) = Players(gs[l])
      BY <1>2
    <3>3. Players(hs[i]) = Players(g)
      BY <1>2
    <3>4. QED BY <3>1, <3>2, <3>3, <1>2
  <2>2. CASE q = p
    BY <2>1, <2>2, <1>2
  <2>3. CASE q # p
    BY <2>1, <2>3, <1>2 DEF Fit, Apart
  <2>4. QED BY <2>2, <2>3
<1>8. Backed(hs, st2)
  <2> SUFFICES ASSUME NEW q \in Peers
               PROVE  /\ st2[q] = "JoinedOpenGame" => \E j \in DOMAIN hs : q \in hs[j].joined
                      /\ st2[q] = "PendingJoin" => \E j \in DOMAIN hs : q \in hs[j].pending
    BY DEF Backed
  <2>1. CASE q = p
    BY <2>1, <1>2, <1>3
  <2>2. CASE q # p
    <3>1. st2[q] = st[q]
      BY <2>2, <1>3
    <3>2. /\ st[q] = "JoinedOpenGame" => \E j \in DOMAIN gs : q \in gs[j].joined
          /\ st[q] = "PendingJoin" => \E j \in DOMAIN gs : q \in gs[j].pending
      BY DEF Fit, Backed
    <3>3. \A j \in DOMAIN gs : /\ q \in gs[j].joined => q \in hs[j].joined
                               /\ q \in gs[j].pending => q \in hs[j].pending
      BY <2>2, <1>2
    <3>4. QED BY <3>1, <3>2, <3>3, <1>2
  <2>3. QED BY <2>1, <2>2
<1>9. NamesFit(st2, nm)
  BY <1>3 DEF Fit, NamesFit, ActiveStates, HandshakeStates
<1>10. QED BY <1>1, <1>2, <1>3, <1>6, <1>7, <1>8, <1>9 DEF Fit, Typed, hs, st2

\* A logged in user is in no game.
LEMMA LoggedInIsFree ==
  ASSUME NEW gs, NEW st, NEW nm, Fit(gs, st, nm), NEW p \in Peers,
         st[p] \notin {"OpenedGame", "JoinedOpenGame", "PendingJoin", "KickedOff"}
  PROVE  \A i \in DOMAIN gs : p \notin Players(gs[i])
  BY PlayerFacts

\* m_games.push_back: a logged in user opens a game of its own.
LEMMA OpenGame ==
  ASSUME NEW gs, NEW st, NEW nm, Fit(gs, st, nm), NEW p \in Peers, st[p] = "LoggedIn",
         NEW g \in Game, g.creator = p, g.joined = {}, g.pending = {}
  PROVE  Fit(Append(gs, g), [st EXCEPT ![p] = "OpenedGame"], nm)
<1> DEFINE hs == Append(gs, g)
           st2 == [st EXCEPT ![p] = "OpenedGame"]
           n == Len(gs) + 1
<1>1. Typed(gs, st, nm)
  BY DEF Fit
<1>2. /\ hs \in Seq(Game)
      /\ DOMAIN gs = 1..Len(gs) /\ Len(gs) \in Nat
      /\ DOMAIN hs = DOMAIN gs \cup {n} /\ n \notin DOMAIN gs
      /\ hs[n] = g
      /\ \A j \in DOMAIN gs : hs[j] = gs[j]
  <2>1. hs \in Seq(Game) /\ Len(hs) = n /\ hs[n] = g /\ \A j \in 1..Len(gs) : hs[j] = gs[j]
    BY <1>1, AppendProperties DEF Typed
  <2>2. Len(gs) \in Nat /\ DOMAIN gs = 1..Len(gs) /\ DOMAIN hs = 1..n
    BY <2>1, <1>1, LenProperties DEF Typed
  <2>3. QED BY <2>1, <2>2
<1>3. /\ st2 \in [Peers -> UserStates \cup {"NoUser"}]
      /\ st2[p] = "OpenedGame"
      /\ \A q \in Peers \ {p} : st2[q] = st[q]
  BY <1>1 DEF Typed, UserStates, ActiveStates
<1>4. \A j \in DOMAIN gs : p \notin Players(gs[j])
  BY LoggedInIsFree
<1>5. nm[p] # NoName /\ Players(g) = {p}
  BY DEF Fit, NamesFit, ActiveStates, Players
<1> HIDE DEF hs, st2, n
<1>6. \A j \in DOMAIN hs : GameFits(hs[j], st2, nm)
  <2>1. \A j \in DOMAIN gs : GameFits(gs[j], st2, nm)
    <3> TAKE j \in DOMAIN gs
    <3>1. GameFits(gs[j], st, nm) /\ \A q \in Players(gs[j]) : st2[q] = st[q]
      BY <1>3, <1>4, PlayerFacts DEF Fit
    <3>2. QED BY <3>1 DEF GameFits, Players
  <2>2. GameFits(g, st2, nm)
    BY <1>3, <1>5 DEF GameFits
  <2>3. QED BY <2>1, <2>2, <1>2
<1>7. Apart(hs)
  BY <1>2, <1>4, <1>5 DEF Fit, Apart
<1>8. Backed(hs, st2)
  BY <1>2, <1>3 DEF Fit, Backed
<1>9. NamesFit(st2, nm)
  BY <1>3, <1>5 DEF Fit, NamesFit, ActiveStates, HandshakeStates
<1>10. QED BY <1>1, <1>2, <1>3, <1>6, <1>7, <1>8, <1>9 DEF Fit, Typed, hs, st2

\* p alone changes state: it is kicked off wherever it is, or it is in no game.
LEMMA ChangeStateAlone ==
  ASSUME NEW gs, NEW st, NEW nm, Fit(gs, st, nm), NEW p \in Peers,
         NEW s \in UserStates \cup {"NoUser"}, NEW n \in Names \cup {NoName},
         s \notin {"JoinedOpenGame", "PendingJoin"},
         \/ s = "KickedOff" /\ n = nm[p]
         \/ \A i \in DOMAIN gs : p \notin Players(gs[i]),
         n # NoName => \A q \in Peers \ {p} : nm[q] # n,
         s \in ActiveStates => n # NoName,
         s \in HandshakeStates \cup {"NoUser"} => n = NoName
  PROVE  Fit(gs, [st EXCEPT ![p] = s], [nm EXCEPT ![p] = n])
<1> DEFINE st2 == [st EXCEPT ![p] = s]
           nm2 == [nm EXCEPT ![p] = n]
<1>1. Typed(gs, st, nm)
  BY DEF Fit
<1>2. /\ st2 \in [Peers -> UserStates \cup {"NoUser"}]
      /\ st2[p] = s
      /\ \A q \in Peers \ {p} : st2[q] = st[q]
  BY <1>1 DEF Typed
<1>3. /\ nm2 \in [Peers -> Names \cup {NoName}]
      /\ nm2[p] = n
      /\ \A q \in Peers \ {p} : nm2[q] = nm[q]
  BY <1>1 DEF Typed
<1> HIDE DEF st2, nm2
<1>4. \A i \in DOMAIN gs : GameFits(gs[i], st2, nm2)
  <2> TAKE i \in DOMAIN gs
  <2>1. GameFits(gs[i], st, nm) /\ Players(gs[i]) \subseteq Peers
    BY PlayerFacts DEF Fit
  <2>2. \A q \in Players(gs[i]) : nm2[q] = nm[q] /\ st2[q] \in {st[q], "KickedOff"}
    BY <2>1, <1>2, <1>3
  <2>3. QED BY <2>1, <2>2 DEF GameFits, Players
<1>5. Backed(gs, st2)
  BY <1>2 DEF Fit, Backed
<1>6. NamesFit(st2, nm2)
  BY <1>2, <1>3 DEF Fit, NamesFit
<1>7. QED BY <1>1, <1>2, <1>3, <1>4, <1>5, <1>6 DEF Fit, Typed, st2, nm2
-----------------------------------------------------------------------------
(***************************************************************************)
(* The searches of m_games find the only game there is to find.            *)
(***************************************************************************)
LEMMA FindCreated ==
  ASSUME Fit(games, state, name), NEW p, CreatedBy(p) # {}
  PROVE  Min(CreatedBy(p)) \in DOMAIN games /\ games[Min(CreatedBy(p))].creator = p
<1> PICK i \in DOMAIN games : i \in CreatedBy(p)
  BY DEF CreatedBy
<1>1. CreatedBy(p) = {i}
  BY OneGame DEF CreatedBy, Fit, Players
<1>2. i \in Nat
  BY LenProperties DEF Fit, Typed
<1>3. QED BY <1>1, <1>2, MinOfOne DEF CreatedBy

LEMMA FindCreatedByName ==
  ASSUME Fit(games, state, name), NEW n, CreatedByName(n) # {}
  PROVE  Min(CreatedByName(n)) \in DOMAIN games /\ name[games[Min(CreatedByName(n))].creator] = n
<1> PICK i \in DOMAIN games : i \in CreatedByName(n)
  BY DEF CreatedByName
<1>1. \A j \in DOMAIN games : games[j].creator \in Players(games[j])
  BY DEF Players
<1>2. \A j \in CreatedByName(n) : games[j].creator = games[i].creator
  BY <1>1, PlayerFacts DEF CreatedByName, Fit, NamesFit
<1>3. CreatedByName(n) = {i}
  BY <1>1, <1>2, OneGame DEF CreatedByName, Fit
<1>4. i \in Nat
  BY LenProperties DEF Fit, Typed
<1>5. QED BY <1>3, <1>4, MinOfOne DEF CreatedByName

LEMMA FindEntered ==
  ASSUME Fit(games, state, name), NEW p, Entered(p) # {}
  PROVE  /\ Min(Entered(p)) \in DOMAIN games
         /\ p \in games[Min(Entered(p))].pending \cup games[Min(Entered(p))].joined
<1> PICK i \in DOMAIN games : i \in Entered(p)
  BY DEF Entered
<1>1. Entered(p) = {i}
  BY OneGame DEF Entered, Fit, Players
<1>2. i \in Nat
  BY LenProperties DEF Fit, Typed
<1>3. QED BY <1>1, <1>2, MinOfOne DEF Entered

\* Taking a player out of game i leaves a game without it and otherwise the same.
LEMMA TakenOut ==
  ASSUME Fit(games, state, name), NEW i \in DOMAIN games,
         NEW p, p \in games[i].pending \cup games[i].joined
  PROVE  LET g == RemoveJoinedOrPending(games[i], p)
         IN  /\ g \in Game
             /\ p \notin g.joined /\ p \notin g.pending
             /\ g.creator = games[i].creator /\ p # g.creator
             /\ g.joined \ {p} = games[i].joined \ {p}
             /\ g.pending \ {p} = games[i].pending \ {p}
<1>1. games[i] \in Game /\ GameFits(games[i], state, name)
  BY PlayerFacts DEF Fit, Players
<1>2. CASE p \in games[i].pending
  BY <1>1, <1>2 DEF RemoveJoinedOrPending, Game, GameFits
<1>3. CASE p \notin games[i].pending
  BY <1>1, <1>3 DEF RemoveJoinedOrPending, Game, GameFits
<1>4. QED BY <1>2, <1>3

\* A user taken out of game i and logged in: EJECT, and LEAVE of a game of another.
LEMMA TakeOut ==
  ASSUME Fit(games, state, name), NEW i \in DOMAIN games,
         NEW p \in Peers, p \in games[i].pending \cup games[i].joined
  PROVE  Fit([games EXCEPT ![i] = RemoveJoinedOrPending(games[i], p)],
             [state EXCEPT ![p] = "LoggedIn"], name)
<1> DEFINE g == RemoveJoinedOrPending(games[i], p)
<1>1. /\ g \in Game
      /\ p \notin g.joined /\ p \notin g.pending
      /\ g.creator = games[i].creator /\ p # g.creator
      /\ g.joined \ {p} = games[i].joined \ {p}
      /\ g.pending \ {p} = games[i].pending \ {p}
  BY TakenOut
<1>2. p \in Players(games[i])
  BY DEF Players
<1>3. name[p] # NoName
  BY <1>2, PlayerFacts
<1>4. \A j \in DOMAIN games : p \in Players(games[j]) => j = i
  BY <1>2, OneGame DEF Fit
<1> HIDE DEF g
<1>5. "LoggedIn" \in ActiveStates
  BY DEF ActiveStates
<1>6. Fit([games EXCEPT ![i] = g], [state EXCEPT ![p] = "LoggedIn"], name)
  BY <1>1, <1>3, <1>4, <1>5, ReplaceGame
<1>7. QED BY <1>6 DEF g

\* RemoveUserFromAnyGames, then LoggedIn: whatever game p has or is in, it leaves.
LEMMA LeaveAnyGame ==
  ASSUME Fit(games, state, name), NEW p \in Peers, name[p] # NoName, NEW order
  PROVE  Fit(RemoveUserFromAnyGames(p, order).games,
             [RemoveUserFromAnyGames(p, order).state EXCEPT ![p] = "LoggedIn"], name)
<1> DEFINE gone == RemoveUserFromAnyGames(p, order)
           st2 == [gone.state EXCEPT ![p] = "LoggedIn"]
<1>0. Typed(games, state, name) /\ "LoggedIn" \in UserStates
  BY DEF Fit, UserStates, ActiveStates
<1>1. CASE CreatedBy(p) # {}
  <2> DEFINE i == Min(CreatedBy(p))
             S == games[i].joined \cup games[i].pending
  <2>1. i \in DOMAIN games /\ games[i].creator = p
    BY <1>1, FindCreated
  <2>2. gone.games = RemoveAt(games, i) /\ gone.state = LogInAll(state, S)
    BY <1>1 DEF RemoveUserFromAnyGames
  <2>3. Players(games[i]) = {p} \cup S
    BY <2>1 DEF Players
  <2> HIDE DEF gone, i, S
  <2>4. /\ st2 \in [Peers -> UserStates \cup {"NoUser"}]
        /\ \A q \in Peers \ Players(games[i]) : st2[q] = state[q]
    BY <1>0, <2>2, <2>3 DEF LogInAll, Typed
  <2>5. \A q \in Players(games[i]) : st2[q] = "LoggedIn"
    BY <2>1, <2>2, <2>3, PlayerFacts DEF LogInAll
  <2>6. Fit(RemoveAt(games, i), st2, name)
    BY <2>1, <2>4, <2>5, CloseGame
  <2>7. QED BY <2>2, <2>6 DEF gone
<1>2. CASE CreatedBy(p) = {} /\ Entered(p) # {}
  <2> DEFINE i == Min(Entered(p))
  <2>1. i \in DOMAIN games /\ p \in games[i].pending \cup games[i].joined
    BY <1>2, FindEntered
  <2>2. /\ gone.games = [games EXCEPT ![i] = RemoveJoinedOrPending(games[i], p)]
        /\ gone.state = state
    BY <1>2 DEF RemoveUserFromAnyGames
  <2> HIDE DEF gone, i
  <2>3. QED BY <2>1, <2>2, TakeOut DEF gone
<1>3. CASE CreatedBy(p) = {} /\ Entered(p) = {}
  <2>1. gone.games = games /\ gone.state = state
    BY <1>3 DEF RemoveUserFromAnyGames
  <2>2. \A i \in DOMAIN games : p \notin Players(games[i])
    BY <1>3 DEF CreatedBy, Entered, Players
  <2>3. /\ name[p] \in Names \cup {NoName}
        /\ [name EXCEPT ![p] = name[p]] = name
        /\ \A q \in Peers \ {p} : name[q] # name[p]
    BY DEF Fit, Typed, NamesFit
  <2>4. "LoggedIn" \in UserStates \ HandshakeStates
    BY DEF UserStates, ActiveStates, HandshakeStates
  <2>5. Fit(games, [state EXCEPT ![p] = "LoggedIn"], [name EXCEPT ![p] = name[p]])
    BY <2>2, <2>3, <2>4, ChangeStateAlone
  <2>6. QED BY <2>1, <2>3, <2>5
<1>4. QED BY <1>1, <1>2, <1>3
\* m_users.erase: a user that is in no game any more vanishes with its name.
LEMMA Vanish ==
  ASSUME NEW gs, NEW st \in [Peers -> UserStates \cup {"NoUser"}], NEW nm, NEW p \in Peers,
         Fit(gs, [st EXCEPT ![p] = "LoggedIn"], nm)
  PROVE  Fit(gs, [st EXCEPT ![p] = "NoUser"], [nm EXCEPT ![p] = NoName])
<1> DEFINE mid == [st EXCEPT ![p] = "LoggedIn"]
<1>1. mid[p] = "LoggedIn" /\ [mid EXCEPT ![p] = "NoUser"] = [st EXCEPT ![p] = "NoUser"]
  OBVIOUS
<1> HIDE DEF mid
<1>2. Fit(gs, mid, nm)
  BY DEF mid
<1>3. \A i \in DOMAIN gs : p \notin Players(gs[i])
  BY <1>1, <1>2, LoggedInIsFree
<1>4. "NoUser" \notin ActiveStates \cup {"KickedOff"}
  BY DEF ActiveStates
<1>5. Fit(gs, [mid EXCEPT ![p] = "NoUser"], [nm EXCEPT ![p] = NoName])
  BY <1>2, <1>3, <1>4, ChangeStateAlone
<1>6. QED BY <1>1, <1>5
-----------------------------------------------------------------------------
(***************************************************************************)
(* Every event preserves the invariant.                                    *)
(***************************************************************************)
\* What is queued is an outbox: one sequence for each peer.
LEMMA Outboxes ==
  ASSUME NEW a, NEW b, NEW S, NEW m
  PROVE  DOMAIN Quiet = Peers /\ DOMAIN (a ++ b) = Peers /\ DOMAIN SendTo(S, m) = Peers
  BY DEF Quiet, ++, SendTo

LEMMA InitFits == Init => IInv
<1> SUFFICES ASSUME Init PROVE IInv
  OBVIOUS
<1>1. games \in Seq(Game) /\ DOMAIN games = {}
  BY DEF Init
<1>2. Fit(games, state, name)
  BY <1>1 DEF Init, Fit, Typed, Apart, Backed, NamesFit, ActiveStates
<1>3. QED BY <1>2, Outboxes DEF Init, IInv, LinkStates

LEMMA NewConnectionFits ==
  ASSUME IInv, NEW p \in Peers, NewConnection(p) PROVE IInv'
<1> USE DEF IInv
<1>1. link' \in [Peers -> LinkStates] /\ DOMAIN sent' = Peers /\ UNCHANGED <<name, games>>
  BY Outboxes DEF NewConnection, LinkStates
<1>2. CASE state[p] = "NoUser"
  <2>1. state' = [state EXCEPT ![p] = "WaitingForVersion"]
    BY <1>2 DEF NewConnection, Fit, Typed
  <2>2. name[p] = NoName /\ [name EXCEPT ![p] = NoName] = name
    BY <1>2 DEF Fit, Typed, NamesFit
  <2>3. "WaitingForVersion" \in HandshakeStates /\ "WaitingForVersion" \in UserStates \ ActiveStates
    BY DEF UserStates, ActiveStates, HandshakeStates
  <2>4. \A i \in DOMAIN games : p \notin Players(games[i])
    BY <1>2, LoggedInIsFree
  <2>5. Fit(games, [state EXCEPT ![p] = "WaitingForVersion"], [name EXCEPT ![p] = NoName])
    BY <2>3, <2>4, ChangeStateAlone
  <2>6. QED BY <1>1, <2>1, <2>2, <2>5
<1>3. CASE state[p] # "NoUser"
  <2>1. state' = state
    BY <1>3 DEF NewConnection, Fit, Typed
  <2>2. QED BY <1>1, <2>1
<1>4. QED BY <1>2, <1>3

LEMMA LostConnectionFits ==
  ASSUME IInv, NEW p \in Peers, LostConnection(p) PROVE IInv'
<1> USE DEF IInv
<1> PICK order \in RemovalOrders(p) :
      LET gone == RemoveUserFromAnyGames(p, order)
          out  == gone.out ++ BroadcastActiveUsers(state', name', games')
      IN  /\ games' = gone.games
          /\ state' = [gone.state EXCEPT ![p] = "NoUser"]
          /\ sent' = [out EXCEPT ![p] = <<>>]
  BY DEF LostConnection
<1> DEFINE gone == RemoveUserFromAnyGames(p, order)
<1>1. link' \in [Peers -> LinkStates] /\ DOMAIN sent' = Peers
  BY Outboxes DEF LostConnection, LinkStates
<1>2. name' = [name EXCEPT ![p] = NoName] /\ games' = gone.games
      /\ state' = [gone.state EXCEPT ![p] = "NoUser"]
  BY DEF LostConnection
<1>3. Typed(games, state, name)
  BY DEF Fit
<1> HIDE DEF gone
<1>4. CASE name[p] # NoName
  <2>1. Fit(gone.games, [gone.state EXCEPT ![p] = "LoggedIn"], name)
    BY <1>4, LeaveAnyGame DEF gone
  <2>2. gone.state \in [Peers -> UserStates \cup {"NoUser"}]
    BY <1>3 DEF gone, RemoveUserFromAnyGames, LogInAll, Typed, UserStates, ActiveStates
  <2>3. Fit(gone.games, [gone.state EXCEPT ![p] = "NoUser"], [name EXCEPT ![p] = NoName])
    BY <2>1, <2>2, Vanish
  <2>4. QED BY <1>1, <1>2, <2>3
<1>5. CASE name[p] = NoName
  <2>1. \A i \in DOMAIN games : p \notin Players(games[i])
    BY <1>5, PlayerFacts
  <2>2. CreatedBy(p) = {} /\ Entered(p) = {}
    BY <2>1 DEF CreatedBy, Entered, Players
  <2>3. gone.games = games /\ gone.state = state
    BY <2>2 DEF gone, RemoveUserFromAnyGames
  <2>4. Fit(games, [state EXCEPT ![p] = "NoUser"], [name EXCEPT ![p] = NoName])
    BY <2>1, ChangeStateAlone DEF ActiveStates
  <2>5. QED BY <1>1, <1>2, <2>3, <2>4
<1>6. QED BY <1>4, <1>5

LEMMA DisconnectUserFits ==
  ASSUME IInv, NEW p \in Peers, DisconnectUser(p) PROVE IInv'
<1> USE DEF IInv
<1>1. /\ link' \in [Peers -> LinkStates] /\ DOMAIN sent' = Peers
      /\ UNCHANGED <<name, games>> /\ state' = [state EXCEPT ![p] = "KickedOff"]
  BY Outboxes DEF DisconnectUser, LinkStates
<1>2. /\ name[p] \in Names \cup {NoName} /\ [name EXCEPT ![p] = name[p]] = name
      /\ name[p] # NoName => \A q \in Peers \ {p} : name[q] # name[p]
  BY DEF Fit, Typed, NamesFit
<1>3. "KickedOff" \in UserStates /\ "KickedOff" \notin ActiveStates \cup HandshakeStates \cup {"NoUser"}
  BY DEF UserStates, ActiveStates, HandshakeStates
<1>4. Fit(games, [state EXCEPT ![p] = "KickedOff"], [name EXCEPT ![p] = name[p]])
  BY <1>2, <1>3, ChangeStateAlone
<1>5. QED BY <1>1, <1>2, <1>4

\* A handshake step that does not end it: p is in no game and has no name.
LEMMA HandshakeFits ==
  ASSUME IInv, NEW p \in Peers, state[p] \in HandshakeStates,
         NEW s \in HandshakeStates,
         state' = [state EXCEPT ![p] = s], sent' = Quiet, UNCHANGED <<link, name, games>>
  PROVE  IInv'
<1> USE DEF IInv
<1>1. DOMAIN sent' = Peers
  BY Outboxes
<1>2. name[p] = NoName /\ [name EXCEPT ![p] = NoName] = name
  BY DEF Fit, Typed, NamesFit
<1>3. \A i \in DOMAIN games : p \notin Players(games[i])
  BY LoggedInIsFree DEF HandshakeStates
<1>4. s \in UserStates \ ActiveStates /\ s # "JoinedOpenGame" /\ s # "PendingJoin"
  BY DEF UserStates, ActiveStates, HandshakeStates
<1>5. Fit(games, [state EXCEPT ![p] = s], [name EXCEPT ![p] = NoName])
  BY <1>3, <1>4, ChangeStateAlone
<1>6. QED BY <1>1, <1>2, <1>5
\* A message without effect, and a stuttering step.
LEMMA QuietFits ==
  ASSUME IInv, UNCHANGED <<link, state, name, games>>, DOMAIN sent' = Peers PROVE IInv'
  BY DEF IInv

LEMMA OnLoginFits ==
  ASSUME IInv, NEW p \in Peers, NEW m \in ClientMsgs, OnLogin(p, m) PROVE IInv'
<1>1. CASE VerifyName(m.who)
  <2> USE DEF IInv
  <2>1. /\ name' = [name EXCEPT ![p] = m.who] /\ state' = [state EXCEPT ![p] = "LoggedIn"]
        /\ UNCHANGED <<link, games>> /\ DOMAIN sent' = Peers /\ state[p] = "WaitingForLogin"
    BY <1>1, Outboxes DEF OnLogin
  <2>2. m.who \in Names \cup {NoName}
    BY DEF ClientMsgs, OnLogin
  <2>3. name[p] = NoName
    BY <2>1 DEF Fit, NamesFit, HandshakeStates
  <2>4. m.who # NoName
    BY <1>1, <2>1, <2>3 DEF VerifyName
  <2>5. \A q \in Peers \ {p} : name[q] # m.who
    BY <1>1, <2>4 DEF VerifyName, Fit, NamesFit
  <2>6. \A i \in DOMAIN games : p \notin Players(games[i])
    BY <2>1, LoggedInIsFree
  <2>7. "LoggedIn" \in UserStates \ HandshakeStates
    BY DEF UserStates, ActiveStates, HandshakeStates
  <2>8. Fit(games, [state EXCEPT ![p] = "LoggedIn"], [name EXCEPT ![p] = m.who])
    BY <2>2, <2>4, <2>5, <2>6, <2>7, ChangeStateAlone
  <2>9. QED BY <2>1, <2>8
<1>2. CASE ~VerifyName(m.who)
  BY <1>2, DisconnectUserFits DEF OnLogin
<1>3. QED BY <1>1, <1>2

LEMMA OnCreateFits ==
  ASSUME IInv, NEW p \in Peers, NEW m \in ClientMsgs, OnCreate(p, m) PROVE IInv'
<1>1. CASE m.ok
  <2> USE DEF IInv
  <2> DEFINE g == [creator |-> p, joined |-> {}, pending |-> {}, limits |-> m.limits]
  <2>1. /\ games' = Append(games, g) /\ state' = [state EXCEPT ![p] = "OpenedGame"]
        /\ UNCHANGED <<link, name>> /\ DOMAIN sent' = Peers /\ state[p] = "LoggedIn"
    BY <1>1, Outboxes DEF OnCreate
  <2>2. m.limits \in Limits
    BY <1>1 DEF OnCreate, ClientMsgs
  <2>3. g \in Game
    BY <2>2 DEF Game
  <2>4. Fit(Append(games, g), [state EXCEPT ![p] = "OpenedGame"], name)
    BY <2>1, <2>3, OpenGame
  <2>5. QED BY <2>1, <2>4
<1>2. CASE ~m.ok
  BY <1>2, DisconnectUserFits DEF OnCreate
<1>3. QED BY <1>1, <1>2

LEMMA OnJoinFits ==
  ASSUME IInv, NEW p \in Peers, NEW m \in ClientMsgs, OnJoin(p, m) PROVE IInv'
<1> USE DEF IInv
<1> DEFINE i == Min(CreatedByName(m.who))
           g == [games[i] EXCEPT !.pending = @ \cup {p}]
<1>1. CASE CreatedByName(m.who) # {} /\ p \notin games[i].pending \cup games[i].joined
  <2>1. /\ games' = [games EXCEPT ![i] = g] /\ state' = [state EXCEPT ![p] = "PendingJoin"]
        /\ UNCHANGED <<link, name>> /\ DOMAIN sent' = Peers /\ state[p] = "LoggedIn"
    BY <1>1, Outboxes DEF OnJoin
  <2>2. i \in DOMAIN games
    BY <1>1, FindCreatedByName
  <2>3. \A j \in DOMAIN games : p \notin Players(games[j])
    BY <2>1, LoggedInIsFree
  <2> HIDE DEF i
  <2>4. games[i] \in Game
    BY <2>2, PlayerFacts DEF Players
  <2>5. /\ g \in Game /\ g.creator = games[i].creator
        /\ g.joined = games[i].joined /\ g.pending = games[i].pending \cup {p}
    BY <2>4 DEF Game
  <2>6. p # games[i].creator /\ p \notin games[i].joined
    BY <2>2, <2>3 DEF Players
  <2>7. name[p] # NoName /\ "PendingJoin" \in ActiveStates
    BY <2>1 DEF Fit, NamesFit, ActiveStates
  <2> HIDE DEF g
  <2>8. Fit([games EXCEPT ![i] = g], [state EXCEPT ![p] = "PendingJoin"], name)
    BY <2>2, <2>3, <2>5, <2>6, <2>7, ReplaceGame
  <2>9. QED BY <2>1, <2>8
<1>2. CASE ~(CreatedByName(m.who) # {} /\ p \notin games[i].pending \cup games[i].joined)
  <2>1. sent' = Quiet /\ UNCHANGED <<link, state, name, games>>
    BY <1>2 DEF OnJoin
  <2>2. QED BY <2>1, Outboxes
<1>3. QED BY <1>1, <1>2

LEMMA OnLeaveFits ==
  ASSUME IInv, NEW p \in Peers, state[p] # "NoUser",
         NEW m \in ClientMsgs, OnLeave(p, m)
  PROVE  IInv'
<1> USE DEF IInv
<1> PICK order \in RemovalOrders(p) :
      LET gone == RemoveUserFromAnyGames(p, order)
      IN  /\ games' = gone.games
          /\ state' = [gone.state EXCEPT ![p] = "LoggedIn"]
          /\ sent' = gone.out ++ BroadcastActiveUsers(state', name, games')
  BY DEF OnLeave
<1>1. UNCHANGED <<link, name>> /\ DOMAIN sent' = Peers
  BY Outboxes DEF OnLeave
<1>2. name[p] # NoName
  <2>1. state[p] \in UserStates
    BY DEF Fit, Typed
  <2>2. state[p] \in ActiveStates
    BY <2>1 DEF OnLeave, Handled, UserStates, HandshakeStates, ActiveStates
  <2>3. QED BY <2>2 DEF Fit, NamesFit
<1>3. QED BY <1>1, <1>2, LeaveAnyGame

LEMMA OnEjectFits ==
  ASSUME IInv, NEW p \in Peers, NEW m \in ClientMsgs, OnEject(p, m) PROVE IInv'
<1> USE DEF IInv
<1> DEFINE i == Min(CreatedBy(p))
           called == {q \in ActivePlayers(state) : name[q] = m.who}
<1>1. UNCHANGED <<link, name>>
  BY DEF OnEject
<1>2. ASSUME CreatedBy(p) # {}, NEW q \in called,
             q \in games[i].pending \cup games[i].joined,
             games' = [games EXCEPT ![i] = RemoveJoinedOrPending(games[i], q)],
             state' = [state EXCEPT ![q] = "LoggedIn"], DOMAIN sent' = Peers
      PROVE  IInv'
  <2>1. i \in DOMAIN games /\ q \in Peers
    BY <1>2, FindCreated DEF ActivePlayers
  <2> HIDE DEF i
  <2>2. QED BY <2>1, <1>1, <1>2, TakeOut
<1>3. ASSUME UNCHANGED <<games, state>>, DOMAIN sent' = Peers PROVE IInv'
  BY <1>1, <1>3
<1>4. CASE called # {} /\ CreatedBy(p) # {}
  <2> PICK q \in called :
        IF q \in games[i].pending \cup games[i].joined
        THEN LET g == RemoveJoinedOrPending(games[i], q)
             IN  /\ games' = [games EXCEPT ![i] = g]
                 /\ state' = [state EXCEPT ![q] = "LoggedIn"]
                 /\ sent' = SendInfoToAll(g)
                      ++ SendTo({q}, [type |-> "Eject", who |-> name[p]])
                      ++ BroadcastActiveUsers(state', name, games')
        ELSE sent' = Quiet /\ UNCHANGED <<games, state>>
    BY <1>4 DEF OnEject
  <2> HIDE DEF i, called
  <2>1. CASE q \in games[i].pending \cup games[i].joined
    <3>1. DOMAIN sent' = Peers
      BY <2>1, Outboxes
    <3>2. QED BY <1>2, <1>4, <2>1, <3>1
  <2>2. CASE q \notin games[i].pending \cup games[i].joined
    BY <1>3, <2>2, Outboxes
  <2>3. QED BY <2>1, <2>2
<1>5. CASE ~(called # {} /\ CreatedBy(p) # {})
  BY <1>3, <1>5, Outboxes DEF OnEject
<1>6. QED BY <1>4, <1>5

LEMMA OnApproveFits ==
  ASSUME IInv, NEW p \in Peers, NEW m \in ClientMsgs, OnApprove(p, m) PROVE IInv'
<1> USE DEF IInv
<1> DEFINE i == Min(CreatedBy(p))
           called == {q \in games[i].pending : name[q] = m.who}
           after(q) == [games[i] EXCEPT !.pending = @ \ {q}, !.joined = @ \cup {q}]
<1>1. UNCHANGED <<link, name>>
  BY DEF OnApprove
<1>2. ASSUME CreatedBy(p) # {}, NEW q \in called,
             games' = [games EXCEPT ![i] = after(q)],
             state' = [state EXCEPT ![q] = "JoinedOpenGame"], DOMAIN sent' = Peers
      PROVE  IInv'
  <2>1. i \in DOMAIN games /\ q \in games[i].pending
    BY <1>2, FindCreated
  <2> HIDE DEF i
  <2>2. games[i] \in Game /\ GameFits(games[i], state, name) /\ q \in Players(games[i])
    BY <2>1, PlayerFacts DEF Fit, Players
  <2>3. q \in Peers /\ name[q] # NoName /\ \A j \in DOMAIN games : q \in Players(games[j]) => j = i
    BY <2>1, <2>2, PlayerFacts, OneGame DEF Fit
  <2>4. /\ after(q) \in Game /\ after(q).creator = games[i].creator
        /\ after(q).joined = games[i].joined \cup {q}
        /\ after(q).pending = games[i].pending \ {q}
    BY <2>2, <2>3 DEF Game
  <2>5. q # games[i].creator /\ q \notin games[i].joined /\ "JoinedOpenGame" \in ActiveStates
    BY <2>1, <2>2 DEF GameFits, ActiveStates
  <2> HIDE DEF after
  <2>6. Fit([games EXCEPT ![i] = after(q)], [state EXCEPT ![q] = "JoinedOpenGame"], name)
    BY <2>1, <2>3, <2>4, <2>5, ReplaceGame
  <2>7. QED BY <2>6, <1>1, <1>2
<1>3. ASSUME UNCHANGED <<games, state>>, DOMAIN sent' = Peers PROVE IInv'
  BY <1>1, <1>3
<1>4. CASE CreatedBy(p) # {} /\ called # {}
  <2> PICK q \in called :
        /\ games' = [games EXCEPT ![i] = after(q)]
        /\ state' = [state EXCEPT ![q] = "JoinedOpenGame"]
        /\ sent' = SendInfoToAll(after(q)) ++ SendTo({p}, [type |-> "Approve", who |-> m.who])
    BY <1>4 DEF OnApprove
  <2> HIDE DEF i, called, after
  <2>1. DOMAIN sent' = Peers
    BY Outboxes
  <2>2. QED BY <1>2, <1>4, <2>1
<1>5. CASE ~(CreatedBy(p) # {} /\ called # {})
  BY <1>3, <1>5, Outboxes DEF OnApprove
<1>6. QED BY <1>4, <1>5

\* The game goes, its players are logged in, the owner stays in OpenedGame.
LEMMA OnStartFits ==
  ASSUME IInv, NEW p \in Peers, NEW m \in ClientMsgs, OnStart(p, m) PROVE IInv'
<1> USE DEF IInv
<1> DEFINE i == Min(CreatedBy(p))
           S == games[i].joined \cup games[i].pending
<1>1. UNCHANGED <<link, name>> /\ state[p] = "OpenedGame"
  BY DEF OnStart
<1>2. ASSUME CreatedBy(p) # {}, games' = RemoveAt(games, i),
             state' = LogInAll(state, S), DOMAIN sent' = Peers
      PROVE  IInv'
  <2>1. i \in DOMAIN games /\ games[i].creator = p
    BY <1>2, FindCreated
  <2>2. Players(games[i]) = {p} \cup S
    BY <2>1 DEF Players
  <2> HIDE DEF i, S
  <2>3. /\ state' \in [Peers -> UserStates \cup {"NoUser"}]
        /\ \A q \in Peers \ Players(games[i]) : state'[q] = state[q]
    BY <1>2, <2>2 DEF LogInAll, Fit, Typed, UserStates, ActiveStates
  <2>4. \A q \in Players(games[i]) : state'[q] \in {"LoggedIn", "OpenedGame"}
    BY <1>1, <1>2, <2>1, <2>2, PlayerFacts DEF LogInAll
  <2>5. Fit(RemoveAt(games, i), state', name)
    BY <2>1, <2>3, <2>4, CloseGame
  <2>6. QED BY <2>5, <1>1, <1>2
<1>3. ASSUME UNCHANGED <<games, state>>, DOMAIN sent' = Peers PROVE IInv'
  BY <1>1, <1>3
<1>4. CASE CreatedBy(p) # {} /\ CanStart(games[i])
  <2>1. games' = RemoveAt(games, i) /\ state' = LogInAll(state, S) /\ DOMAIN sent' = Peers
    BY <1>4, Outboxes DEF OnStart, RemoveUserFromAnyGames
  <2>2. QED BY <1>2, <1>4, <2>1
<1>5. CASE ~(CreatedBy(p) # {} /\ CanStart(games[i]))
  BY <1>3, <1>5, Outboxes DEF OnStart
<1>6. QED BY <1>4, <1>5

LEMMA ReceiveMessageFits ==
  ASSUME IInv, NEW p \in Peers, NEW m \in ClientMsgs, ReceiveMessage(p, m) PROVE IInv'
<1>1. CASE BadMessage(p, m)
  BY <1>1, DisconnectUserFits DEF BadMessage
<1>2. CASE Ignored(p, m)
  BY <1>2, QuietFits, Outboxes DEF Ignored
<1>3. CASE OnVersion(p, m)
  <2>1. "WaitingForVersion" \in HandshakeStates /\ "WaitingForLocalIP" \in HandshakeStates
    BY DEF HandshakeStates
  <2>2. QED BY <1>3, <2>1, HandshakeFits, DisconnectUserFits DEF OnVersion
<1>4. CASE OnLocalIP(p, m)
  <2>1. "WaitingForLocalIP" \in HandshakeStates /\ "WaitingForLogin" \in HandshakeStates
    BY DEF HandshakeStates
  <2> DEFINE s == IF m.ok THEN "WaitingForLogin" ELSE state[p]
  <2>2. state[p] \in HandshakeStates /\ s \in HandshakeStates
    BY <1>4, <2>1 DEF OnLocalIP
  <2>3. state' = [state EXCEPT ![p] = s] /\ sent' = Quiet /\ UNCHANGED <<link, name, games>>
    BY <1>4 DEF OnLocalIP
  <2> HIDE DEF s
  <2>4. QED BY <2>2, <2>3, HandshakeFits
<1>5. CASE OnLogin(p, m)
  BY <1>5, OnLoginFits
<1>6. CASE OnCreate(p, m)
  BY <1>6, OnCreateFits
<1>7. CASE OnJoin(p, m)
  BY <1>7, OnJoinFits
<1>8. CASE OnLeave(p, m)
  BY <1>8, OnLeaveFits DEF ReceiveMessage
<1>9. CASE OnEject(p, m)
  BY <1>9, OnEjectFits
<1>10. CASE OnApprove(p, m)
  BY <1>10, OnApproveFits
<1>11. CASE OnStart(p, m)
  BY <1>11, OnStartFits
<1>12. QED
  BY <1>1, <1>2, <1>3, <1>4, <1>5, <1>6, <1>7, <1>8, <1>9, <1>10, <1>11 DEF ReceiveMessage

LEMMA NextFits == IInv /\ [Next]_vars => IInv'
<1> SUFFICES ASSUME IInv, [Next]_vars PROVE IInv'
  OBVIOUS
<1>1. CASE UNCHANGED vars
  BY <1>1, QuietFits DEF vars, IInv
<1>2. CASE Next
  BY <1>2, NewConnectionFits, LostConnectionFits, ReceiveMessageFits DEF Next
<1>3. QED BY <1>1, <1>2

-----------------------------------------------------------------------------
(***************************************************************************)
(* The theorems.                                                           *)
(***************************************************************************)
\* Games, states and names fit together whatever the clients send.
THEOREM Fitting == Spec => []IInv
<1>1. QED BY InitFits, NextFits, PTL DEF Spec

\* Every slot, user and game keeps the type its declaration in User.h, Game.h and
\* Connections.h gives it.
THEOREM TypeCorrect == Spec => []TypeOK
<1>1. IInv => TypeOK
  BY DEF IInv, Fit, Typed, TypeOK
<1>2. QED BY <1>1, Fitting, PTL

\* A user is creator, joined or pending in one game at most, so the find_if over
\* m_games and RemoveUserFromAnyGames, which stops at the first match, miss nothing.
THEOREM OneRoleHolds == Spec => []OneRole
<1>1. IInv => OneRole
  BY DEF IInv, Fit, GameFits, Apart, OneRole
<1>2. QED BY <1>1, Fitting, PTL

\* The user's own state machine and the sets of its game say the same, kicked off
\* users excepted.
THEOREM RoleMatchesStateHolds == Spec => []RoleMatchesState
<1>1. IInv => RoleMatchesState
  BY DEF IInv, Fit, GameFits, Backed, RoleMatchesState
<1>2. QED BY <1>1, Fitting, PTL

\* LostConnection erases a user only after no game points at it any more.
THEOREM NoDanglingUserHolds == Spec => []NoDanglingUser
<1>1. IInv => NoDanglingUser
  BY PlayerFacts DEF IInv, NoDanglingUser
<1>2. QED BY <1>1, Fitting, PTL

\* A name called by JOIN, EJECT or APPROVE belongs to one user at most.
THEOREM NamesUniqueHolds == Spec => []NamesUnique
<1>1. IInv => NamesUnique
  BY PlayerFacts DEF IInv, Fit, NamesFit, NamesUnique
<1>2. QED BY <1>1, Fitting, PTL
=============================================================================
