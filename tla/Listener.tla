------------------------------ MODULE Listener ------------------------------
(***************************************************************************)
(* What every run mode of the proxy service promises about its local       *)
(* inbound port: at most one core instance listens on it at any time, a    *)
(* replacement opens only after its predecessor has closed, and once the   *)
(* runner has returned the port is closed for good.                        *)
(*                                                                         *)
(* The abstract specification has no notion of testing, blacklists, health *)
(* checks or draining; the run modes in pkg/proxy/service.go are shown to  *)
(* implement it through a refinement mapping.                              *)
(***************************************************************************)
CONSTANT Pool           \* the outbounds an instance can be built from

VARIABLES open,         \* outbounds whose instance listens on the port
          stopped       \* the runner has returned

listenerVars == <<open, stopped>>

Init == open = {} /\ stopped = FALSE

\* The port is free: one instance binds it.
Open(l) ==
    /\ ~stopped
    /\ open = {}
    /\ open' = {l}
    /\ UNCHANGED stopped

\* The listening instance closes and frees the port.
Release ==
    /\ ~stopped
    /\ open # {}
    /\ open' = {}
    /\ UNCHANGED stopped

\* The runner returns; its deferred Close takes the listener with it.
Stop ==
    /\ ~stopped
    /\ stopped' = TRUE
    /\ open' = {}

Next == (\E l \in Pool : Open(l)) \/ Release \/ Stop

Spec == Init /\ [][Next]_listenerVars
=============================================================================
