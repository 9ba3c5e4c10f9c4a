------------------------------- MODULE MCHub -------------------------------
(***************************************************************************)
(* Two connections, channels short enough to fill up.                      *)
(***************************************************************************)
EXTENDS Hub

CONSTANTS c1, c2

TwoClients == {c1, c2}

=============================================================================
