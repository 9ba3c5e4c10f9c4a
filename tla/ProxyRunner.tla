---------------------------- MODULE ProxyRunner ----------------------------
(***************************************************************************)
(* The proxy as a managed service of the web UI (web/services.go,          *)
(* web/service_manager.go): ProxyServiceRunner.Start, BaseService.Stop, the *)
(* run goroutine with its deferred calls, and ServiceManager.Close at      *)
(* shutdown.                                                               *)
(*                                                                         *)
(* Every accepted Start creates a proxy.Service and a goroutine; both are  *)
(* named by the same number.  The goroutine finds its service through the  *)
(* shared field p.service, which a later Start overwrites, so the model    *)
(* keeps the two apart.                                                    *)
(***************************************************************************)
EXTENDS Integers, FiniteSets

CONSTANTS
    MaxRuns,      \* bound on the number of accepted Starts
    Clients,      \* request handlers that may call Stop
    Manager,      \* the goroutine that runs ServiceManager.Close
    Concurrent,   \* clients send requests while others are unanswered; the
                  \* UI does not, it disables its buttons meanwhile
    GraceSuffices \* in-flight requests end within Shutdown's three seconds

ASSUME RunnerAssumption ==
    /\ MaxRuns \in Nat
    /\ Manager \notin Clients
    /\ Concurrent \in BOOLEAN
    /\ GraceSuffices \in BOOLEAN

Runs == 1..MaxRuns
Stoppers == Clients \cup {Manager}

VARIABLES
    state,      \* BaseService.state
    service,    \* p.service, 0 = nil
    cancelFn,   \* the run whose context cancelFunc cancels, 0 = nil
    started,    \* number of accepted Starts
    phase,      \* position of each run goroutine
    ctx,        \* runs whose context is cancelled
    exec,       \* the service whose Run each goroutine has called
    held,       \* services that hold OS state (system proxy, namespace, tunnel)
    stop,       \* position of each Stop call
    ui,         \* the last proxy_status broadcast
    closing,    \* position of ServiceManager.Close
    atSignal    \* history: where each run was when the shutdown began

vars == <<state, service, cancelFn, started, phase, ctx, exec, held, stop, ui,
          closing, atSignal>>

\* Runs the WaitGroup still counts.
Live == {r \in Runs : phase[r] \notin {"none", "done"}}

\* Faulty variant: a run that is starting does not count.
BusyRunning == state = "running"

Busy == state \in {"running", "starting"}

\* The process has not exited.
Up == closing # "exited"

-----------------------------------------------------------------------------
Init ==
    /\ state = "idle"
    /\ service = 0 /\ cancelFn = 0 /\ started = 0
    /\ phase = [r \in Runs |-> "none"]
    /\ ctx = {}
    /\ exec = [r \in Runs |-> 0]
    /\ held = {}
    /\ stop = [c \in Stoppers |-> "none"]
    /\ ui = "stopped"
    /\ closing = "no"
    /\ atSignal = phase

\* A client that waits for the answer to each request does not send Start
\* while a Stop is pending.  The shutdown stops nobody from it: a request in
\* flight is handled while the manager closes the services, and after that.
MayStart == Concurrent \/ \A c \in Stoppers : stop[c] = "none"

\* Start refuses while a run is starting or running, and nothing else.  The
\* whole of it, proxy.New included, runs under the lock.
Start ==
    /\ Up /\ ~Busy
    /\ MayStart
    /\ started < MaxRuns
    /\ LET r == started + 1
       IN  /\ started' = r
           /\ service' = r
           /\ cancelFn' = r
           /\ phase' = [phase EXCEPT ![r] = "spawned"]
           /\ held' = held \cup {r}
    /\ state' = "starting"
    /\ UNCHANGED <<ctx, exec, stop, ui, closing,
                   atSignal>>

\* proxy.New returns an error.  What it leaves behind of the system settings
\* is not tracked here.
StartFails ==
    /\ Up /\ ~Busy
    /\ MayStart
    /\ state' = "error"
    /\ UNCHANGED <<service, cancelFn, started, phase, ctx, exec, held, stop, ui,
                   closing, atSignal>>

\* Faulty variant: the context is not cancelled while the run is starting.
CancelIfRunning(c) ==
    /\ Busy
    /\ state' = "stopping"
    /\ ctx' = IF state = "running" THEN ctx \cup ({cancelFn} \ {0}) ELSE ctx
    /\ stop' = [stop EXCEPT ![c] = "waiting"]

\* The locked part of Stop.
CancelRun(c) ==
    /\ Busy
    /\ state' = "stopping"
    /\ ctx' = ctx \cup ({cancelFn} \ {0})
    /\ stop' = [stop EXCEPT ![c] = "waiting"]

\* A client's Stop.  The call that finds nothing running returns an error and
\* changes nothing.
Stop(c) ==
    /\ Up /\ stop[c] = "none"
    /\ Concurrent \/ \A d \in Clients : stop[d] = "none"
    /\ CancelRun(c)
    /\ UNCHANGED <<service, cancelFn, started, phase, exec, held, ui, closing,
                   atSignal>>

\* wg.Wait returns once no run is left; then "stopped" is broadcast.
StopReturns(c) ==
    /\ Up /\ stop[c] = "waiting"
    /\ Live = {}
    /\ stop' = [stop EXCEPT ![c] = "none"]
    /\ ui' = "stopped"
    /\ UNCHANGED <<state, service, cancelFn, started, phase, ctx, exec, held,
                   closing, atSignal>>

-----------------------------------------------------------------------------
(* The run goroutine *)

\* Faulty variant: only the UI is told.
RunTellRunning(r) ==
    /\ Up /\ phase[r] = "spawned"
    /\ ui' = "running"
    /\ phase' = [phase EXCEPT ![r] = "entering"]
    /\ UNCHANGED <<state, service, cancelFn, started, ctx, exec, held, stop,
                   closing, atSignal>>

RunSetRunning(r) ==
    /\ Up /\ phase[r] = "spawned"
    /\ state' = "running"
    /\ ui' = "running"
    /\ phase' = [phase EXCEPT ![r] = "entering"]
    /\ UNCHANGED <<service, cancelFn, started, ctx, exec, held, stop, closing,
                   atSignal>>

\* p.service is read without the lock.
RunEnter(r) ==
    /\ Up /\ phase[r] = "entering"
    /\ exec' = [exec EXCEPT ![r] = service]
    /\ phase' = [phase EXCEPT ![r] = "serving"]
    /\ UNCHANGED <<state, service, cancelFn, started, ctx, held, stop, ui, closing,
                   atSignal>>

\* Faulty variant: Stop's broadcast is the only one.
RunExitSilent(r) ==
    /\ Up /\ phase[r] = "serving"
    /\ phase' = [phase EXCEPT ![r] = "closing"]
    /\ UNCHANGED <<state, service, cancelFn, started, ctx, exec, held, stop, ui,
                   closing, atSignal>>

\* service.Run returns because its context is cancelled, or by itself with an
\* error, which is broadcast unless the context is cancelled by then.
RunExit(r) ==
    /\ Up /\ phase[r] = "serving"
    /\ phase' = [phase EXCEPT ![r] = "closing"]
    /\ ui' = IF r \in ctx THEN ui ELSE "stopped"
    /\ UNCHANGED <<state, service, cancelFn, started, ctx, exec, held, stop,
                   closing, atSignal>>

\* Faulty variant: the service is not closed when its context was cancelled.
RunCloseIfError(r) ==
    /\ Up /\ phase[r] = "closing"
    /\ held' = IF r \in ctx THEN held ELSE held \ {service}
    /\ phase' = [phase EXCEPT ![r] = "closed"]
    /\ UNCHANGED <<state, service, cancelFn, started, ctx, exec, stop, ui, closing,
                   atSignal>>

\* The deferred calls, in reverse order: close whatever service p.service
\* names now, set the state, leave the WaitGroup.
RunClose(r) ==
    /\ Up /\ phase[r] = "closing"
    /\ held' = held \ {service}
    /\ phase' = [phase EXCEPT ![r] = "closed"]
    /\ UNCHANGED <<state, service, cancelFn, started, ctx, exec, stop, ui, closing,
                   atSignal>>

RunSetIdle(r) ==
    /\ Up /\ phase[r] = "closed"
    /\ state' = "idle"
    /\ phase' = [phase EXCEPT ![r] = "ending"]
    /\ UNCHANGED <<service, cancelFn, started, ctx, exec, held, stop, ui, closing,
                   atSignal>>

RunDone(r) ==
    /\ Up /\ phase[r] = "ending"
    /\ phase' = [phase EXCEPT ![r] = "done"]
    /\ UNCHANGED <<state, service, cancelFn, started, ctx, exec, held, stop, ui,
                   closing, atSignal>>

-----------------------------------------------------------------------------
(* ServiceManager.Close *)

\* On SIGINT or SIGTERM the manager asks for the state twice, locking it each
\* time, and calls Stop later: is it running?
CloseLooks ==
    /\ closing = "no"
    /\ closing' = IF state = "running" THEN "stopping" ELSE "looked"
    /\ atSignal' = phase
    /\ UNCHANGED <<state, service, cancelFn, started, phase, ctx, exec, held,
                   stop, ui>>

\* Is it starting?  A run that got from one to the other meanwhile is missed.
CloseLooksAgain ==
    /\ closing = "looked"
    /\ closing' = IF state = "starting" THEN "stopping" ELSE "closed"
    /\ UNCHANGED <<state, service, cancelFn, started, phase, ctx, exec, held,
                   stop, ui, atSignal>>

\* Faulty variant: the manager cancels the run and does not wait for it.
CloseCancels ==
    /\ closing = "stopping"
    /\ closing' = "closed"
    /\ ctx' = IF Busy THEN ctx \cup ({cancelFn} \ {0}) ELSE ctx
    /\ UNCHANGED <<state, service, cancelFn, started, phase, exec, held, stop, ui,
                   atSignal>>

CloseStops ==
    /\ closing = "stopping"
    /\ closing' = "closed"
    /\ IF Busy THEN CancelRun(Manager) ELSE UNCHANGED <<state, ctx, stop>>
    /\ UNCHANGED <<service, cancelFn, started, phase, exec, held, ui, atSignal>>

\* The manager's Stop has returned, and in-flight requests were answered or
\* abandoned after the grace period: the server exits, and nothing of it runs
\* afterwards.
ShutDown ==
    /\ closing = "closed"
    /\ stop[Manager] = "none"
    /\ GraceSuffices => \A c \in Clients : stop[c] = "none"
    /\ closing' = "exited"
    /\ UNCHANGED <<state, service, cancelFn, started, phase, ctx, exec, held,
                   stop, ui, atSignal>>

Exited == closing = "exited" /\ UNCHANGED vars

RunStep(r) ==
    \/ RunSetRunning(r) \/ RunEnter(r) \/ RunExit(r) \/ RunClose(r)
    \/ RunSetIdle(r) \/ RunDone(r)

Next ==
    \/ Start \/ StartFails
    \/ \E c \in Clients : Stop(c)
    \/ \E c \in Stoppers : StopReturns(c)
    \/ \E r \in Runs : RunStep(r)
    \/ CloseLooks \/ CloseLooksAgain \/ CloseStops \/ ShutDown
    \/ Exited

Spec == Init /\ [][Next]_vars

\* Goroutines are scheduled, and service.Run returns once its context is
\* cancelled (CancelReturns of the rotation loop).  A run that is not
\* cancelled need not end.
Fairness ==
    /\ \A r \in Runs : WF_vars(RunStep(r) /\ (phase[r] # "serving" \/ r \in ctx))
    /\ \A c \in Stoppers : WF_vars(StopReturns(c))
    /\ WF_vars(CloseLooksAgain) /\ WF_vars(CloseStops) /\ WF_vars(ShutDown)

FairSpec == Spec /\ Fairness

-----------------------------------------------------------------------------
(* Properties *)

Phases == {"none", "spawned", "entering", "serving", "closing", "closed",
           "ending", "done"}

\* Every variable of the runner stays in its range; a proxy that ended is idle,
\* never finished like a task.
TypeOK ==
    /\ state \in {"idle", "starting", "running", "stopping", "error"}
    /\ started \in 0..MaxRuns
    /\ service \in 0..started /\ cancelFn \in 0..started
    /\ phase \in [Runs -> Phases] /\ atSignal \in [Runs -> Phases]
    /\ ctx \in SUBSET Runs
    /\ exec \in [Runs -> 0..MaxRuns]
    /\ held \in SUBSET Runs
    /\ stop \in [Stoppers -> {"none", "waiting"}]
    /\ ui \in {"running", "stopped"}
    /\ closing \in {"no", "looked", "stopping", "closed", "exited"}

\* Runs that still work with their service and that nobody has stopped.
Working ==
    {r \in Runs : phase[r] \in {"spawned", "entering", "serving", "closing"}} \ ctx

\* "proxy service is already running or starting": Start never lets two
\* proxies that nobody stopped run at once.
OneLiveRun == Cardinality(Working) <= 1

\* Each goroutine runs the service created for it, and by the time it is gone
\* that service has given back the OS state (the system proxy settings) it
\* took: no service is leaked, none is closed under another's feet.
OwnService ==
    \A r \in Runs :
        /\ phase[r] = "serving" => exec[r] = r /\ r \in held
        /\ phase[r] \in {"closed", "ending", "done"} => r \notin held

\* The state tells the truth to Start and to the status endpoint: while a run
\* serves, the state is running, or stopping once somebody stopped it.
StateTruthful ==
    \A r \in Runs :
        phase[r] \in {"entering", "serving"} =>
            state \in {"running"} \cup (IF r \in ctx THEN {"stopping"} ELSE {})

\* When nothing runs and no Stop is pending, the UI was last told "stopped".
UiSettles ==
    Live = {} /\ (\A c \in Stoppers : stop[c] = "none") => ui = "stopped"

\* Runs that were past their start when the shutdown began.
RunningAtSignal ==
    {r \in Runs : atSignal[r] \in {"entering", "serving", "closing", "closed"}}

\* What ServiceManager.Close does give: when the server has exited, no run that
\* was running when the shutdown began, and none that anybody stopped, holds
\* OS state, however the end of the run, a client's Stop, a new Start and the
\* manager's two looks interleave.  A run that was still starting may be missed,
\* if it gets to running between the two looks.
RestoredOnExit == closing = "exited" => held \cap (RunningAtSignal \cup ctx) = {}

\* A Stop that was accepted returns, unless the process exits first.
StopEnds == \A c \in Clients : stop[c] = "waiting" ~> stop[c] = "none" \/ ~Up

=============================================================================
