----------------------------- MODULE MCRunModes -----------------------------
(* Every runner over a pool of which any part parses; a fixed chain with a  *)
(* blank link. A namespace without a shell is left out: its steps are those *)
(* of a tunnel without a deadman switch.                                    *)
EXTENDS Tunnel

CONSTANTS a, b, c

ThreeLinks == {a, b, c}
WithBlank == <<a, NoLink, b>>
AllModes == {"single", "fixed", "none", "exit", "full"}
SomeOuters == {"plain", "tun", "shell"}
=============================================================================
