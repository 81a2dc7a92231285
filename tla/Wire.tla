-------------------------------- MODULE Wire --------------------------------
(***************************************************************************)
(* The texts inside the messages: what a client types is cleaned, written  *)
(* into LOGIN, read by the server, written into PLAYERSACTIVE, GAMESOPEN,  *)
(* GAMEINFO and START, and read by every client.  The writers join with    *)
(* ":" and "," what the readers split or count, and some readers take the  *)
(* content as a C string, which ends at the first NUL.                     *)
(*                                                                         *)
(* A text is a sequence of tokens.  A number written by std::to_string is  *)
(* one token; a user may type such a token as well.  Letters stand for all *)
(* that no reader looks for.  The clients log in one after the other, and  *)
(* the formats are judged on whoever is logged in; which of them host,     *)
(* join or wait does not matter to a text, so each choice is looked at.    *)
(***************************************************************************)
EXTENDS Naturals, SequencesExt

CONSTANTS
    TypedNames,   \* what users may type for a name
    UserData,     \* the data they may log in with
    LocalIPs,     \* the lists of addresses their machines may have
    PublicIPs,    \* the addresses the server may see them at
    Nul,
    MaxUsers      \* bound on the users logged in

ASSUME LocalIPsAssumption == <<>> \notin LocalIPs  \* Connect refuses without an address

VARIABLES
    typed,   \* typed[i]: what the i-th client passed to its ServerConnection
    users    \* users[i]: what the server keeps of it: name, data, local addresses

wireVars == <<typed, users>>
-----------------------------------------------------------------------------
(***************************************************************************)
(* Texts.                                                                  *)
(***************************************************************************)
Numeral(n) == <<ToString(n)>>
stoul(text) == CHOOSE n \in 0..9 : ToString(n) = Head(text)

\* std::string(Content()): what stands before the first NUL.
Content(text) ==
    LET nul == SelectInSeq(text, LAMBDA c : c = Nul)
    IN  IF nul = 0 THEN text ELSE SubSeq(text, 1, nul - 1)

\* Mutant: the part behind the last delimiter counts, even when nothing is there.
stringSplit_KeepsEnd(text, delim) ==
    FoldLeft(LAMBDA parts, c :
                 IF c = delim THEN Append(parts, <<>>)
                              ELSE [parts EXCEPT ![Len(parts)] = Append(@, c)],
             << <<>> >>, text)

\* std::getline: an empty part counts, but not behind the last delimiter.
stringSplit(text, delim) ==
    LET parts == FoldLeft(LAMBDA ps, c :
                              IF c = delim THEN Append(ps, <<>>)
                                           ELSE [ps EXCEPT ![Len(ps)] = Append(@, c)],
                          << <<>> >>, text)
    IN  IF Last(parts) = <<>> THEN Front(parts) ELSE parts

\* Each followed by a delimiter, the last one too.
Listed(names, delim) == FoldLeft(LAMBDA text, n : text \o Append(n, delim), <<>>, names)
-----------------------------------------------------------------------------
(***************************************************************************)
(* LOGIN, and the names it may carry.                                      *)
(***************************************************************************)
CleanName(text) == SelectSeq(text, LAMBDA c : c \notin {",", ":"})

WriteLogin(name, data) == name \o <<":">> \o data

\* Mutant: the data is cut out of the C string as well.
ReadLogin_CString(text) ==
    LET split == SelectInSeq(Content(text), LAMBDA c : c = ":")
    IN  IF split = 0 THEN [name |-> Content(text), data |-> <<>>]
        ELSE [name |-> SubSeq(Content(text), 1, split - 1),
              data |-> SubSeq(Content(text), split + 1, Len(Content(text)))]

\* The name is cut out of the C string, the data out of the payload.
ReadLogin(text) ==
    LET split == SelectInSeq(Content(text), LAMBDA c : c = ":")
    IN  IF split = 0 THEN [name |-> Content(text), data |-> <<>>]
        ELSE [name |-> SubSeq(text, 1, split - 1),
              data |-> SubSeq(text, split + 1, Len(text))]
-----------------------------------------------------------------------------
(***************************************************************************)
(* Addresses: [host, port].                                                *)
(***************************************************************************)
WriteAddress(a) == Numeral(a.host) \o <<":">> \o Numeral(a.port)

WriteAddresses(as) ==
    FoldLeftDomain(LAMBDA text, i :
                       text \o (IF i > 1 THEN <<",">> ELSE <<>>) \o WriteAddress(as[i]),
                   <<>>, as)

IsAddress(text) == Len(stringSplit(text, ":")) = 2

TryParseIPAddress(text) ==
    [host |-> stoul(stringSplit(text, ":")[1]), port |-> stoul(stringSplit(text, ":")[2])]

\* TrySetLocaIPAddress: all of them parse, or the user is told nothing and waits.
ReadAddresses(text) ==
    LET parts == stringSplit(Content(text), ",")
    IN  [ok |-> \A i \in DOMAIN parts : IsAddress(parts[i]),
         list |-> [i \in DOMAIN parts |-> TryParseIPAddress(parts[i])]]
-----------------------------------------------------------------------------
(***************************************************************************)
(* What the server writes and the clients read.                            *)
(***************************************************************************)
WritePlayers(us) ==
    FoldLeft(LAMBDA text, u : text \o u.name \o <<":">> \o Numeral(Len(u.data))
                                   \o <<":">> \o u.data,
             Numeral(Len(us)) \o <<":">>, us)

Colon(text, from) == SelectInSubSeq(text, from, Len(text), LAMBDA c : c = ":")

\* A count, and for each player a name, a size and as much data: the data is counted, not
\* searched, and may hold delimiters and NULs.
ParsePlayerInfo(text) ==
    FoldLeft(LAMBDA r, i :
                 LET name == Colon(text, r.pos)
                     size == Colon(text, name + 1)
                     next == size + 1 + stoul(SubSeq(text, name + 1, size - 1))
                 IN  [pos |-> next,
                      info |-> Append(r.info, [name |-> SubSeq(text, r.pos, name - 1),
                                               data |-> SubSeq(text, size + 1, next - 1)])],
             [pos |-> Colon(text, 1) + 1, info |-> <<>>],
             [i \in 1..stoul(text) |-> i]).info

WriteGames(owners) == Listed(owners, ",")

ReadGames(text) == stringSplit(Content(text), ",")

WriteGame(g) ==
    g.owner \o <<":">> \o Listed(g.joined, ",") \o <<":">> \o Listed(g.requested, ",")

\* parts[1] is read unseen, parts[2] only if there is one.
ReadGame(text) ==
    LET parts == stringSplit(Content(text), ":")
    IN  [owner |-> parts[1],
         joined |-> stringSplit(parts[2], ","),
         requested |-> IF Len(parts) > 2 THEN stringSplit(parts[3], ",") ELSE <<>>]

WriteStart(number, u, public) ==
    Numeral(number) \o <<",">> \o u.name \o <<",">>
    \o WriteAddresses(<<public>> \o u.localIPs)

\* Mutant: an address is added however often it comes.
ReadStart_Repeats(text) ==
    LET parts == stringSplit(Content(text), ",")
    IN  [playerNumber |-> stoul(parts[1]),
         peerName |-> parts[2],
         peerAddresses |-> [i \in 1..(Len(parts) - 2) |-> TryParseIPAddress(parts[i + 2])]]

ReadStart(text) ==
    LET parts == stringSplit(Content(text), ",")
    IN  [playerNumber |-> stoul(parts[1]),
         peerName |-> parts[2],
         peerAddresses |->
            FoldLeft(LAMBDA as, part :
                         IF IsAddress(part) /\ TryParseIPAddress(part) \notin ToSet(as)
                         THEN Append(as, TryParseIPAddress(part)) ELSE as,
                     <<>>, SubSeq(parts, 3, Len(parts)))]
-----------------------------------------------------------------------------
Init == typed = <<>> /\ users = <<>>

\* A client says hello: its addresses, then LOGIN.  A name in use is refused.
LogIn(name, data, local, public) ==
    /\ Len(users) < MaxUsers
    /\ CleanName(name) # <<>>
    /\ LET login == ReadLogin(WriteLogin(CleanName(name), data))
           ips == ReadAddresses(WriteAddresses(local))
       IN  /\ ips.ok
           /\ \A i \in DOMAIN users : users[i].name # login.name
           /\ users' = Append(users, [name |-> login.name, data |-> login.data,
                                      localIPs |-> ips.list])
    /\ typed' = Append(typed, [name |-> name, data |-> data, local |-> local, public |-> public])

Next ==
    \E name \in TypedNames, data \in UserData, local \in LocalIPs, public \in PublicIPs :
        LogIn(name, data, local, public)

Spec == Init /\ [][Next]_wireVars
-----------------------------------------------------------------------------
(***************************************************************************)
(* Properties.                                                             *)
(***************************************************************************)
\* Two texts on the way, LOGIN and PLAYERSACTIVE: every client is told of every player by
\* the name its own ServerConnection keeps (it knows its JOIN by it) and with its data byte
\* for byte, delimiters, digits and NULs included.
RosterArrives ==
    ParsePlayerInfo(WritePlayers(users)) =
        [i \in DOMAIN typed |-> [name |-> CleanName(typed[i].name), data |-> typed[i].data]]

NamesOf(is) == [k \in DOMAIN is |-> users[is[k]].name]

\* Whoever hosts, has joined and waits, GAMESOPEN and GAMEINFO give the lists back that were
\* written, the empty ones too, although a list ends with a delimiter and a text with
\* a list.
RoomsArrive ==
    \A hosting, joined, waiting \in AllSubSeqs([i \in DOMAIN users |-> i]) :
        /\ ReadGames(WriteGames(NamesOf(hosting))) = NamesOf(hosting)
        /\ \A owner \in DOMAIN users :
              LET g == [owner |-> users[owner].name, joined |-> NamesOf(joined),
                        requested |-> NamesOf(waiting)]
              IN  ReadGame(WriteGame(g)) = g

\* Three texts on the way, INFO, START and the list the lobby is built from: each player is
\* given every address of the other one, the one the server sees first, and none twice,
\* so that no two attempts to connect are one.
AddressesArrive ==
    \A i \in DOMAIN users :
        LET start == ReadStart(WriteStart(1, users[i], typed[i].public))
        IN  /\ start.peerName = CleanName(typed[i].name)
            /\ Head(start.peerAddresses) = typed[i].public
            /\ ToSet(start.peerAddresses) = {typed[i].public} \cup ToSet(typed[i].local)
            /\ IsInjective(start.peerAddresses)
=============================================================================
