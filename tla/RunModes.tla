------------------------------ MODULE RunModes ------------------------------
(***************************************************************************)
(* The other run modes of pkg/proxy/service.go: runSingleMode (one config  *)
(* link, restarted when its health check fails), runFixedChainMode and     *)
(* runChainNoRotation (a chain that never changes), runChainExitRotation   *)
(* (the last hop rotates) and runChainFullRotation (the whole chain does), *)
(* with the selection of hops in pkg/proxy/chain.go.                       *)
(*                                                                         *)
(* An outbound is a route: a sequence of config links, of length one in    *)
(* single mode.  One goroutine executes the mode; pc is its position.  The *)
(* network decides freely how a probe, a build, a start or a health check  *)
(* ends.                                                                   *)
(***************************************************************************)
EXTENDS Integers, Sequences, FiniteSets

CONSTANTS
    Links,                \* the pool of config links
    NoLink,               \* the empty link
    FixedChain,           \* the links of --chain or --chain-file, blanks too
    Modes,                \* the modes to run
    ChainHops,            \* requested length of a chain
    ChainAttempts,        \* chains tried per full rotation, 0 = default
    HealthCheckInterval,  \* 0 disables the health check
    HealthFailThreshold   \* single mode only, 0 = defaultHealthFailThresh

ASSUME LinksAssumption ==
    /\ IsFiniteSet(Links)
    /\ NoLink \notin Links
    /\ FixedChain \in Seq(Links \cup {NoLink})

ASSUME ModesAssumption ==
    /\ Modes \subseteq {"single", "fixed", "none", "exit", "full"}
    /\ ChainHops \in Nat
    /\ ChainAttempts \in Nat
    /\ HealthCheckInterval \in Nat
    /\ HealthFailThreshold \in Nat

VARIABLES
    mode,         \* the runner that Run and runChainMode dispatched to
    parsable,     \* the links that CreateProtocol and Parse accept
    pc,           \* position of the runner
    cancelled,    \* ctx.Done() is closed
    status,       \* rotationStatus
    ready,        \* proxyReady is closed
    result,       \* what the runner returned
    cur,          \* the route of the current instance
    active,       \* activeOutbound or activeChainHops
    fixed,        \* fixedHops of exit rotation
    lastExit,     \* lastExitLink of exit rotation
    cand,         \* the route being probed and brought up
    attempt,      \* chains selected so far by findWorkingChain
    healthFails,  \* consecutive failed health checks, single mode
    insts         \* the core instances that are alive

env == <<mode, parsable, cancelled>>
chosen == <<fixed, lastExit, cand>>
vars == <<mode, parsable, pc, cancelled, status, ready, result, cur, active,
          fixed, lastExit, cand, attempt, healthFails, insts>>

-----------------------------------------------------------------------------
(* Routes *)

\* No route, no chain, and the nil instance.
NoRoute == <<>>

NumHops == IF ChainHops < 2 THEN 2 ELSE ChainHops
MaxAttempts == IF ChainAttempts = 0 THEN 5 ELSE ChainAttempts
Threshold == IF HealthFailThreshold = 0 THEN 3 ELSE HealthFailThreshold

Front(r) == SubSeq(r, 1, Len(r) - 1)
Last(r) == r[Len(r)]
Hops(r) == {r[i] : i \in 1..Len(r)}
Distinct(r) == \A i, j \in 1..Len(r) : r[i] = r[j] => i = j

\* What selectChainFromPool can return: it walks the whole shuffled pool, so
\* links that do not parse never shorten the chain.
PoolChains == {r \in [1..NumHops -> parsable] : Distinct(r)}

\* Faulty variant: only the exit that rotates away is excluded.
ExitHopsReused == parsable \ {lastExit}

\* What selectExitHopFromPool can append to the fixed hops.
ExitHops == parsable \ (Hops(fixed) \cup {lastExit})

\* resolveFixedChain skips blank links; any other must parse.
Resolved ==
    LET Given(l) == l # NoLink
    IN  SelectSeq(FixedChain, Given)
ResolvesFixed ==
    Len(FixedChain) >= 2 /\ Len(Resolved) >= 2 /\ Hops(Resolved) \subseteq parsable

\* Every route that a choice of parsable links could give.
Routes ==
    {<<l>> : l \in Links} \cup {r \in [1..NumHops -> Links] : Distinct(r)}
        \cup {Resolved}

\* The modes that select a new route from time to time.
Rotating == {"exit", "full"}

-----------------------------------------------------------------------------
(* Instances *)

Instance(r, st) == {[route |-> r, st |-> st]}
Current == IF cur = NoRoute THEN {} ELSE Instance(cur, "listening")
Listening == {r \in Routes : Instance(r, "listening") \subseteq insts}

Init ==
    /\ mode \in Modes
    /\ parsable \in SUBSET Links
    /\ pc = "select"
    /\ cancelled = FALSE
    /\ status = "idle"
    /\ ready = FALSE
    /\ result = "none"
    /\ cur = NoRoute /\ active = NoRoute /\ fixed = NoRoute /\ cand = NoRoute
    /\ lastExit = NoLink
    /\ attempt = 0
    /\ healthFails = 0
    /\ insts = {}

\* Faulty variant: the deferred Close is missing.
ReturnNoClose(res, rest) ==
    /\ pc' = "done"
    /\ result' = res
    /\ insts' = rest
    /\ UNCHANGED <<cur, status>>

\* The deferred Close of the current instance, and the runner's return.  rest
\* are the instances that the step itself leaves alive.
Return(res, rest) ==
    /\ pc' = "done"
    /\ result' = res
    /\ insts' = rest \ Current
    /\ cur' = NoRoute
    /\ UNCHANGED status

\* A rotation that found nothing stalls, with the current instance or, when
\* that is already closed, without one, and waits for the next.
Stall(rest) ==
    /\ status' = "stalled"
    /\ pc' = "wait"
    /\ insts' = rest
    /\ UNCHANGED <<cur, result>>

\* An error: startup and single mode give up.
Fail(rest) ==
    IF ready /\ mode \in Rotating THEN Stall(rest) ELSE Return("err", rest)

-----------------------------------------------------------------------------
(* Selection *)

\* Single mode parses the only link of its pool, whichever that is, and shows
\* it as active before it is started.
SelectSingle ==
    /\ pc = "select" /\ mode = "single"
    /\ \E l \in Links :
          \/ /\ l \in parsable
             /\ cand' = <<l>> /\ active' = <<l>>
             /\ pc' = "build"
             /\ UNCHANGED <<status, result, cur, insts>>
          \/ /\ l \notin parsable
             /\ Return("err", insts)
             /\ UNCHANGED <<cand, active>>
    /\ UNCHANGED <<env, ready, fixed, lastExit, attempt, healthFails>>

SelectFixed ==
    /\ pc = "select" /\ mode = "fixed"
    /\ \/ /\ ResolvesFixed
          /\ cand' = Resolved
          /\ pc' = "build"
          /\ UNCHANGED <<status, result, cur, insts>>
       \/ ~ResolvesFixed /\ Return("err", insts) /\ UNCHANGED cand
    /\ UNCHANGED <<env, ready, active, fixed, lastExit, attempt, healthFails>>

\* The only chain of mode none, and the first one of exit rotation, which
\* also settles the entry hops and is probed.
SelectFromPool ==
    /\ pc = "select" /\ ~ready /\ mode \in {"none", "exit"}
    /\ \/ /\ cand' \in PoolChains
          /\ fixed' = IF mode = "exit" THEN Front(cand') ELSE fixed
          /\ pc' = IF mode = "exit" THEN "dial" ELSE "build"
          /\ UNCHANGED <<status, result, cur, insts>>
       \/ /\ PoolChains = {}
          /\ Return("err", insts)
          /\ UNCHANGED <<cand, fixed>>
    /\ UNCHANGED <<env, ready, active, lastExit, attempt, healthFails>>

SelectExit ==
    /\ pc = "select" /\ ready /\ mode = "exit"
    /\ \/ /\ \E l \in ExitHops : cand' = Append(fixed, l)
          /\ pc' = "dial"
          /\ UNCHANGED <<status, result, cur, insts>>
       \/ ExitHops = {} /\ Stall(insts) /\ UNCHANGED cand
    /\ UNCHANGED <<env, ready, active, fixed, lastExit, attempt, healthFails>>

\* One round of findWorkingChain.  A pool without enough hops uses up the
\* attempts all the same.
SelectFull ==
    /\ pc = "select" /\ mode = "full"
    /\ \/ /\ attempt < MaxAttempts /\ ~cancelled
          /\ attempt' = attempt + 1
          /\ \/ cand' \in PoolChains /\ pc' = "dial"
             \/ PoolChains = {} /\ UNCHANGED <<cand, pc>>
          /\ UNCHANGED <<status, result, cur, insts>>
       \/ /\ attempt >= MaxAttempts \/ cancelled
          /\ Fail(insts)
          /\ UNCHANGED <<cand, attempt>>
    /\ UNCHANGED <<env, ready, active, fixed, lastExit, healthFails>>

-----------------------------------------------------------------------------
(* The probe through a temporary instance *)

\* A probe that does not succeed: findWorkingChain goes on with its next
\* attempt, exit rotation gives up.
NextAttempt(rest) ==
    \/ /\ mode = "full"
       /\ pc' = "select"
       /\ insts' = rest
       /\ UNCHANGED <<status, result, cur>>
    \/ mode = "exit" /\ Fail(rest)

\* makeChainedHttpClient
DialChain ==
    /\ pc = "dial"
    /\ insts' = insts \cup Instance(cand, "probe")
    /\ pc' = "probe"
    /\ UNCHANGED <<env, status, ready, result, cur, active, chosen, attempt,
                   healthFails>>

DialChainFails ==
    /\ pc = "dial"
    /\ NextAttempt(insts)
    /\ UNCHANGED <<env, ready, active, chosen, attempt, healthFails>>

ProbePasses ==
    /\ pc = "probe"
    /\ ~cancelled
    /\ insts' = insts \ Instance(cand, "probe")
    /\ pc' = "build"
    /\ UNCHANGED <<env, status, ready, result, cur, active, chosen, attempt,
                   healthFails>>

ProbeFails ==
    /\ pc = "probe"
    /\ NextAttempt(insts \ Instance(cand, "probe"))
    /\ UNCHANGED <<env, ready, active, chosen, attempt, healthFails>>

-----------------------------------------------------------------------------
(* Building, hand-over and start *)

Build ==
    /\ pc = "build"
    /\ insts' = insts \cup Instance(cand, "made")
    /\ pc' = IF cur = NoRoute THEN "start" ELSE "release"
    /\ UNCHANGED <<env, status, ready, result, cur, active, chosen, attempt,
                   healthFails>>

BuildFails ==
    /\ pc = "build"
    /\ Fail(insts)
    /\ UNCHANGED <<env, ready, active, chosen, attempt, healthFails>>

\* Hold the current chain for DrainTimeout or until cancellation, close it.
Release ==
    /\ pc = "release"
    /\ insts' = insts \ Current
    /\ cur' = NoRoute
    /\ pc' = "start"
    /\ UNCHANGED <<env, status, ready, result, active, chosen, attempt,
                   healthFails>>

StartFails ==
    /\ pc = "start"
    /\ Fail(insts \ Instance(cand, "made"))
    /\ UNCHANGED <<env, ready, active, chosen, attempt, healthFails>>

\* Faulty variant: exit rotation keeps excluding its first exit.
AdoptKeepsExit ==
    /\ cur' = cand /\ active' = cand
    /\ lastExit' = IF mode = "exit" /\ ~ready THEN Last(cand) ELSE lastExit
    /\ ready' = TRUE
    /\ status' = IF mode \in Rotating THEN "idle" ELSE status

\* The instance started: it becomes the current one, and the route becomes
\* the active one.
Adopt ==
    /\ cur' = cand /\ active' = cand
    /\ lastExit' = IF mode = "exit" THEN Last(cand) ELSE lastExit
    /\ ready' = TRUE
    /\ status' = IF mode \in Rotating THEN "idle" ELSE status

StartSucceeds ==
    /\ pc = "start"
    /\ Listening = {}
    /\ insts' = (insts \ Instance(cand, "made")) \cup Instance(cand, "listening")
    /\ Adopt
    /\ pc' = "wait"
    /\ UNCHANGED <<env, result, fixed, cand, attempt, healthFails>>

-----------------------------------------------------------------------------
(* Waiting *)

\* Faulty variant: the stalled loop sleeps without watching the context.
CtxDoneUnlessStalled ==
    /\ pc = "wait"
    /\ cancelled /\ status # "stalled"
    /\ Return("nil", insts)
    /\ UNCHANGED <<env, ready, active, chosen, attempt, healthFails>>

CtxDone ==
    /\ pc = "wait"
    /\ cancelled
    /\ Return("nil", insts)
    /\ UNCHANGED <<env, ready, active, chosen, attempt, healthFails>>

\* The timer elapses, the user forces a rotation, or a health check fails:
\* unlike the pool rotation a chain has no threshold.
Rotate ==
    /\ pc = "wait" /\ mode \in Rotating
    /\ status' = "rotating"
    /\ pc' = "select"
    /\ attempt' = 0
    /\ UNCHANGED <<env, ready, result, cur, active, chosen, healthFails, insts>>

\* Single mode only: a chain's check that passes changes nothing.
HealthOk ==
    /\ pc = "wait" /\ mode = "single"
    /\ HealthCheckInterval > 0
    /\ ~cancelled
    /\ healthFails' = 0
    /\ UNCHANGED <<env, pc, status, ready, result, cur, active, chosen, attempt,
                   insts>>

\* At the threshold the instance is closed first and rebuilt from the same
\* outbound.
HealthFail ==
    /\ pc = "wait" /\ mode = "single"
    /\ HealthCheckInterval > 0
    /\ \/ /\ healthFails + 1 < Threshold
          /\ healthFails' = healthFails + 1
          /\ UNCHANGED <<pc, cur, insts>>
       \/ /\ healthFails + 1 >= Threshold
          /\ healthFails' = 0
          /\ insts' = insts \ Current
          /\ cur' = NoRoute
          /\ pc' = "build"
    /\ UNCHANGED <<env, status, ready, result, active, chosen, attempt>>

Cancel ==
    /\ ~cancelled
    /\ cancelled' = TRUE
    /\ UNCHANGED <<mode, parsable, pc, status, ready, result, cur, active, chosen,
                   attempt, healthFails, insts>>

Terminated == pc = "done" /\ UNCHANGED vars

\* Steps that the runner takes on its own.
RunnerStep ==
    \/ SelectSingle \/ SelectFixed \/ SelectFromPool \/ SelectExit \/ SelectFull
    \/ DialChain \/ DialChainFails \/ ProbePasses \/ ProbeFails
    \/ Build \/ BuildFails \/ Release \/ StartFails \/ StartSucceeds

Next ==
    \/ RunnerStep
    \/ CtxDone \/ Rotate \/ HealthOk \/ HealthFail
    \/ Cancel
    \/ Terminated

Spec == Init /\ [][Next]_vars

\* The goroutine is scheduled; and a select that finds the context done picks
\* that case sooner or later, even when a timer is ready as often.
Fairness == WF_vars(RunnerStep) /\ SF_vars(CtxDone)

FairSpec == Spec /\ Fairness

-----------------------------------------------------------------------------
(* Properties *)

\* Every variable of a runner stays in its range; in particular a search never
\* takes more attempts than configured, and the health counter stays below
\* its threshold.
TypeOK ==
    /\ mode \in Modes
    /\ parsable \in SUBSET Links
    /\ pc \in {"select", "dial", "probe", "build", "release", "start", "wait",
               "done"}
    /\ cancelled \in BOOLEAN
    /\ status \in {"idle", "rotating", "stalled"}
    /\ ready \in BOOLEAN
    /\ result \in {"none", "nil", "err"}
    /\ cur \in Routes \cup {NoRoute}
    /\ active \in Routes \cup {NoRoute}
    /\ fixed \in Seq(Links)
    /\ lastExit \in Links \cup {NoLink}
    /\ cand \in Routes \cup {NoRoute}
    /\ attempt \in 0..MaxAttempts
    /\ healthFails \in Nat /\ healthFails < Threshold
    /\ insts \in SUBSET [route : Routes, st : {"probe", "made", "listening"}]

\* On every path through startup, a rotation or a restart, the only instances
\* alive are the current one, and the one that is being probed or brought up:
\* after the runner has returned none is left.
NoOrphan ==
    insts = Current
              \cup (IF pc = "probe" THEN Instance(cand, "probe") ELSE {})
              \cup (IF pc \in {"release", "start"} THEN Instance(cand, "made")
                    ELSE {})

\* Links that do not parse, and rotations of the exit, never shorten a chain
\* that was taken from the pool and never put a link into it twice.
ChainSound ==
    mode \in {"none", "exit", "full"} =>
        \A r \in {cand, cur, active} \ {NoRoute} :
            Len(r) = NumHops /\ Distinct(r) /\ Hops(r) \subseteq parsable

\* What the status endpoint shows as idle, once up, is what listens.
IdleIsServing ==
    pc = "wait" /\ status = "idle" => Listening = {active} /\ cur = active

\* Exit rotation keeps the entry hops for good, and a rotation that succeeds
\* really changes the exit, also after failed rotations in between.
ExitOnly ==
    [][mode = "exit" /\ active # NoRoute /\ cur' # cur /\ cur' # NoRoute =>
          /\ Front(active') = Front(active)
          /\ Last(active') # Last(active)]_vars

\* "Probe the candidate chain end-to-end before we touch the live one": a
\* rotating runner closes its listener only with a built replacement in hand,
\* or to return.
DownOnlyForReplacement ==
    [][cur # NoRoute /\ cur' = NoRoute /\ mode \in Rotating =>
          \/ Instance(cand, "made") \subseteq insts
          \/ pc' = "done"]_vars

\* What a rotation may change, and when it may close what serves.
RotationSound == ExitOnly /\ DownOnlyForReplacement

\* The runner in every state, on every path through startup, rotation and
\* restart: its variables in range, no instance left behind, no chain shortened
\* or with a link twice, and a status that tells what listens.
RunnerSound == TypeOK /\ NoOrphan /\ ChainSound /\ IdleIsServing

\* Every mode implements the abstract listener.
L == INSTANCE Listener WITH
        Pool <- Routes, open <- Listening, stopped <- (pc = "done")
ImplementsListener == L!Spec

\* Cancelling the context ends the runner wherever it is.
CancelReturns == cancelled ~> pc = "done"

=============================================================================
