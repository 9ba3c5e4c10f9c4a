------------------------------- MODULE MCTester -------------------------------
(* Links 1 and 2 share an endpoint, link 3 is not dialled. *)
EXTENDS Tester

MCEndpointForLink == (1 :> "e1") @@ (2 :> "e1") @@ (3 :> "")

MCOptions ==
    {[front |-> "cli", kind |-> "txt", prescan |-> TRUE, sort |-> FALSE, db |-> TRUE],
     [front |-> "cli", kind |-> "csv", prescan |-> FALSE, sort |-> TRUE, db |-> TRUE],
     [front |-> "web", kind |-> "csv", prescan |-> FALSE, sort |-> FALSE, db |-> TRUE]}
=============================================================================
