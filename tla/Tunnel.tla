------------------------------- MODULE Tunnel -------------------------------
(***************************************************************************)
(* Run, runAppMode and runHostTunMode of pkg/proxy/service.go: around a    *)
(* runner of RunModes, a namespace (with or without a shell in it) or a    *)
(* TUN device that captures the traffic of the whole host, and the deadman *)
(* switch of the latter, which takes the device down unless somebody at    *)
(* the terminal confirms it.  The terminal's input also goes to the reader *)
(* that forces rotations.                                                  *)
(***************************************************************************)
EXTENDS RunModes

CONSTANTS
    Outers,    \* the service modes: plain (inbound or system), tun, app, shell
    MaxTyped   \* bound: times that ENTER is pressed

ASSUME OutersAssumption == Outers \subseteq {"plain", "tun", "app", "shell"} /\ MaxTyped \in Nat

VARIABLES
    outer,     \* the service mode
    deadman,   \* HostTunDeadman > 0
    at,        \* position of the thread that called Run
    ctx,       \* the context of runService is done; cancelled is that of the runner
    captured,  \* the TUN device exists, of the host or of the namespace
    ssh,       \* the terminal's connection: safe (local, or excluded from capture), or captured
    typed,     \* ENTERs that nobody has read
    reader,    \* the rotation reader: none, reading, or sending to forceRotate
    confirm    \* the channel of the deadman switch has a token
tunnel == <<outer, deadman, at, ctx, captured, ssh, typed, reader, confirm>>
all == <<vars, tunnel>>

\* The only device through which the terminal itself may be lost.
Lost == outer = "tun" /\ captured /\ ssh = "captured"

\* New refuses a deadman switch without a terminal, and forces a local SOCKS
\* inbound. A pool or chain of several links has a rotation reader, unless the
\* shell has the terminal; a fixed chain may come with one link or several.
TunnelInit ==
    /\ Init
    /\ outer \in Outers /\ deadman \in (IF outer = "tun" THEN BOOLEAN ELSE {FALSE})
    /\ at = "listen" /\ ctx = FALSE /\ captured = FALSE /\ ssh = "safe" /\ typed = 0 /\ confirm = FALSE
    /\ reader \in CASE mode = "single" \/ outer = "shell" -> {"none"}
                    [] mode = "fixed" /\ outer # "shell"  -> {"none", "reading"}
                    [] OTHER                              -> {"reading"}

\* BuildExcludes: the SSH client is excluded when SSH_CONNECTION names it (sudo
\* often removes that variable), or when it is in a network of the interface or
\* of the exclude flags.
BuildExcludes == {"safe", "captured"}

\* runCancel: the runner's context alone.
runCancel ==
    /\ cancelled' = TRUE
    /\ UNCHANGED <<mode, parsable, pc, status, ready, result, cur, active, chosen, attempt, healthFails, insts>>

\* The select that waits for the listener. In plain mode Run is the runner.
ProxyReady ==
    /\ at = "listen" /\ outer # "plain" /\ ready
    /\ at' = "setup"
    /\ UNCHANGED <<vars, outer, deadman, ctx, captured, ssh, typed, reader, confirm>>

RunnerEnds ==
    /\ at = "listen" /\ pc = "done"
    /\ at' = "returned"
    /\ UNCHANGED <<vars, outer, deadman, ctx, captured, ssh, typed, reader, confirm>>

\* setupHostTun, or setupAppMode: the device is up.
SetupSucceeds ==
    /\ at = "setup"
    /\ captured' = TRUE
    /\ ssh' \in (IF outer = "tun" THEN BuildExcludes ELSE {"safe"})
    /\ at' = CASE outer = "tun" /\ deadman -> "deadman"
               [] outer = "shell"          -> "shell"
               [] OTHER                    -> "serve"
    /\ UNCHANGED <<vars, outer, deadman, ctx, typed, reader, confirm>>

\* Preflight or Start fails, or the namespace cannot be set up; what was created
\* is removed again.
SetupFails ==
    /\ at = "setup"
    /\ runCancel
    /\ at' = "stop"
    /\ UNCHANGED <<outer, deadman, ctx, captured, ssh, typed, reader, confirm>>

\* The goroutine that reads the terminal for the deadman switch.
ReadConfirm ==
    /\ at = "deadman" /\ typed > 0 /\ ~confirm
    /\ typed' = typed - 1 /\ confirm' = TRUE
    /\ UNCHANGED <<vars, outer, deadman, at, ctx, captured, ssh, reader>>

DeadmanConfirmed ==
    /\ at = "deadman" /\ confirm
    /\ at' = "serve"
    /\ UNCHANGED <<vars, outer, deadman, ctx, captured, ssh, typed, reader, confirm>>

\* Faulty variant: the expiry is logged, and the thread goes on to wait.
DeadmanExpiredGoesOn ==
    /\ at = "deadman"
    /\ at' = "serve"
    /\ UNCHANGED <<vars, outer, deadman, ctx, captured, ssh, typed, reader, confirm>>

\* The timer fires; teardownHostTun.
DeadmanExpired ==
    /\ at = "deadman"
    /\ captured' = FALSE
    /\ runCancel
    /\ at' = "stop"
    /\ UNCHANGED <<outer, deadman, ctx, ssh, typed, reader, confirm>>

DeadmanCanceled ==
    /\ at = "deadman" /\ ctx
    /\ at' = "serve"
    /\ UNCHANGED <<vars, outer, deadman, ctx, captured, ssh, typed, reader, confirm>>

\* The user leaves the shell, or the context kills it. Nothing else ends it, not
\* the end of the runner either.
ShellExits ==
    /\ at = "shell"
    /\ runCancel
    /\ at' = "stop"
    /\ UNCHANGED <<outer, deadman, ctx, captured, ssh, typed, reader, confirm>>

\* Faulty variant: a confirmed tunnel runs until the signal, whatever becomes of
\* the runner.
RunReturnsOnSignal ==
    /\ at \in {"serve", "stop"} /\ pc = "done"
    /\ at = "serve" => ctx
    /\ at' = "returned"
    /\ UNCHANGED <<vars, outer, deadman, ctx, captured, ssh, typed, reader, confirm>>

\* <-errCh: Run returns when its runner has.
RunReturns ==
    /\ at \in {"serve", "stop"} /\ pc = "done"
    /\ at' = "returned"
    /\ UNCHANGED <<vars, outer, deadman, ctx, captured, ssh, typed, reader, confirm>>

\* The deferred Close takes the device down.
CloseService ==
    /\ at = "returned"
    /\ captured' = FALSE
    /\ at' = "closed"
    /\ UNCHANGED <<vars, outer, deadman, ctx, ssh, typed, reader, confirm>>

\* A signal: SIGHUP too, when the terminal's connection ends.
Signal ==
    /\ ~ctx /\ at # "closed"
    /\ ctx' = TRUE
    /\ runCancel
    /\ UNCHANGED <<outer, deadman, at, captured, ssh, typed, reader, confirm>>

-----------------------------------------------------------------------------
(* The terminal *)

\* Somebody presses ENTER, asked or not, while the terminal is connected.
PressEnter ==
    /\ typed < MaxTyped /\ ~Lost /\ at # "closed"
    /\ typed' = typed + 1
    /\ UNCHANGED <<vars, outer, deadman, at, ctx, captured, ssh, reader, confirm>>

ReadRotation ==
    /\ reader = "reading" /\ typed > 0
    /\ typed' = typed - 1 /\ reader' = "sending"
    /\ UNCHANGED <<vars, outer, deadman, at, ctx, captured, ssh, confirm>>

\* Only a rotating runner that waits receives from forceRotate.
ForceRotate ==
    /\ reader = "sending" /\ Rotate
    /\ reader' = "reading"
    /\ UNCHANGED <<outer, deadman, at, ctx, captured, ssh, typed, confirm>>

\* Its select also ends when the context does.
ReaderStops ==
    /\ reader = "sending" /\ ctx
    /\ reader' = "none"
    /\ UNCHANGED <<vars, outer, deadman, at, ctx, captured, ssh, typed, confirm>>

-----------------------------------------------------------------------------
Ended == at = "closed" /\ UNCHANGED all

\* What the thread of Run does on its own, or when its timer fires.
OuterStep ==
    \/ ProxyReady \/ RunnerEnds \/ SetupSucceeds \/ SetupFails
    \/ DeadmanConfirmed \/ DeadmanExpired \/ DeadmanCanceled
    \/ (ctx /\ ShellExits) \/ RunReturns \/ CloseService

TunnelNext ==
    \/ /\ RunnerStep \/ CtxDone \/ Rotate \/ HealthOk \/ HealthFail
       /\ UNCHANGED tunnel
    \/ OuterStep \/ ShellExits \/ Signal
    \/ PressEnter \/ ReadConfirm \/ ReadRotation \/ ForceRotate \/ ReaderStops
    \/ Ended

\* As in RunModes; and a set-up ends, a timer fires, a killed shell dies.
TunnelFairness ==
    /\ WF_all(RunnerStep /\ UNCHANGED tunnel) /\ SF_all(CtxDone /\ UNCHANGED tunnel)
    /\ WF_all(OuterStep)

TunnelSpec == TunnelInit /\ [][TunnelNext]_all /\ TunnelFairness
-----------------------------------------------------------------------------
(* Properties *)

\* The deadman switch: a captured host is let go again, without anybody's help,
\* unless a line came from the terminal; whatever the runner, the signals and the
\* other reader of the terminal do meanwhile.
DeadmanWorks == (deadman /\ captured) ~> (~captured \/ confirm)

\* A host whose proxy has ended does not stay captured, confirmed or not, also
\* when the proxy ends before the device is up or while the switch waits.
CaptureEnds == (outer = "tun" /\ captured /\ pc = "done") ~> ~captured
=============================================================================
