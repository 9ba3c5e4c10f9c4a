--------------------------- MODULE MCProxyRunner ---------------------------
(***************************************************************************)
(* Two clients and the shutdown, against the proxy runner.                 *)
(***************************************************************************)
EXTENDS ProxyRunner

CONSTANTS c1, c2

TwoClients == {c1, c2}

=============================================================================
