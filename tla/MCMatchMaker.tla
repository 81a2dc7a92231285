--------------------------- MODULE MCMatchMaker ---------------------------
(***************************************************************************)
(* Small instances of MatchMaker, and so of MatchViews, for TLC.           *)
(***************************************************************************)
EXTENDS MatchMaker

CONSTANTS n1, n2

\* The demo client only ever sends CREATE:2,2 (ServerConnection::CreateGame).
MCLimits == {[min |-> 2, max |-> 2]}

\* Each connection is a new process, whoever it logs in as.
NewProcesses == [p \in Peers |-> NoName]

\* Two processes that live on and connect again, each from its own slot.
OldProcesses == [p \in Peers |-> IF p = CHOOSE q \in Peers : TRUE THEN n1 ELSE n2]

\* sent is folded into told and menu in the step that sends it and read by no later step,
\* and a process that went to its lobby hears no more and, if new, never comes back.
MCView ==
    <<link, state, name, games, told,
      [p \in Peers |-> IF told[p].left /\ Process[p] = NoName THEN NewMenu(NoName) ELSE menu[p]]>>

\* The menus of two clients have nothing in common but the messages, which do not depend on
\* them: whatever a client with an unclean name sees, it sees among clients with clean ones.
OneUnclean == Cardinality({p \in Peers : menu[p].logged = Unclean}) <= 1

MCSymmetry == Permutations(Peers) \cup Permutations(Names)
=============================================================================
