----------------------------- MODULE MCOsState -----------------------------
(***************************************************************************)
(* Three processes, on a desktop with a key that is always restored and    *)
(* one that Restore skips when it was empty.                               *)
(***************************************************************************)
EXTENDS OsState, TLC

CONSTANTS p1, p2, p3, shared

ThreePids == {p1, p2, p3}

\* One name that any of them may be given.
OneName == {shared}

\* Where the run stops: nothing is claimed of the settings after a failed desktop
\* read or write or once two processes were alive at once, and namespaces belong
\* to app mode only.
Claimed == ~failed /\ (overlapped => \A p \in used : mode[p] = "app")

\* Pids are interchangeable: nothing orders or chooses among them.
PidSymmetry == Permutations(ThreePids)

=============================================================================
