------------------------------- MODULE MCWire -------------------------------
(***************************************************************************)
(* A small instance of Wire for TLC.                                       *)
(***************************************************************************)
EXTENDS Wire

Lan == [host |-> 1, port |-> 5]
Vpn == [host |-> 2, port |-> 5]
Router == [host |-> 3, port |-> 6]

\* With and without delimiters, at either end and inside; one is nothing once cleaned, and
\* two are the same name.
MCTypedNames == {<<"a">>, <<"a", ",">>, <<":", "b">>, <<"a", ":", "1">>, <<",", ":">>}

\* Data that looks like the text around it.
MCUserData == {<<>>, <<"a", Nul, ":">>, <<":", "1", ":", "2">>, <<Nul>>, <<",">>}

MCLocalIPs == {<<Lan>>, <<Lan, Vpn>>}

\* On the server's own network a client is seen at one of its local addresses.
MCPublicIPs == {Lan, Router}
=============================================================================
