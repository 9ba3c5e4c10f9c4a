------------------------------ MODULE MCScanner ------------------------------
(* Two addresses in two subnets; a third CIDR is unusable. *)
EXTENDS Scanner

MCSubnets == <<{1}, {}, {2}>>
\* A scan with a speed test, and one that resumes from the database or the file.
MCOptions ==
    <<{[resume |-> FALSE, db |-> TRUE, speed |-> TRUE]},
      {[resume |-> TRUE, db |-> TRUE, speed |-> FALSE], [resume |-> TRUE, db |-> FALSE, speed |-> FALSE]}>>
=============================================================================
