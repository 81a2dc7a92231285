--------------------------- MODULE MCMatchSystem ---------------------------
(***************************************************************************)
(* Small instances of MatchSystem for TLC: a host and two others.          *)
(***************************************************************************)
EXTENDS MatchSystem

CONSTANTS host, guest, third, hostName, guestName, thirdName

MCLimits == {[min |-> 2, max |-> 2]}

Opens == [type |-> "Create", ok |-> TRUE, limits |-> [min |-> 2, max |-> 2]]
Approves(n) == [type |-> "Approve", who |-> n]
Joins == [type |-> "Join", who |-> hostName]

\* The third client wants the name of the guest.
SharedLogin == [c \in Clients |-> IF c = host THEN hostName ELSE guestName]
SharedAsks ==
    [c \in Clients |-> CASE c = host  -> {Opens, Approves(guestName), [type |-> "Malformed"]}
                         [] c = guest -> {Joins, [type |-> "Leave"]}
                         [] c = third -> {Joins}]

\* Everyone has a name of its own.
OwnLogin ==
    [c \in Clients |-> CASE c = host -> hostName [] c = guest -> guestName [] c = third -> thirdName]
OwnAsks ==
    [c \in Clients |-> IF c = host THEN {Opens, Approves(guestName), Approves(thirdName)}
                                   ELSE {Joins}]

\* No action reads sent, so states that differ only in it have the same future.
MCView == <<link, state, name, games, slot, conn, started, ended, up, down>>
=============================================================================
