------------------------------ MODULE Rotation ------------------------------
(***************************************************************************)
(* The rotating proxy of pkg/proxy/service.go: runRotationMode and the     *)
(* search findAndStartWorkingConfig it calls, with the blacklist           *)
(* (recordStrike), the health check and the hand-over of the inbound port. *)
(*                                                                         *)
(* One goroutine executes the loop; pc is its position.  Its environment   *)
(* is the clock (timers, bans that lapse), the user (manual rotation,      *)
(* cancellation of the context) and the network, which decides how a test, *)
(* MakeInstance, Start or a health check of a config link ends.            *)
(***************************************************************************)
EXTENDS Integers, FiniteSets

CONSTANTS
    Pool,                 \* config.ConfigLinks, duplicates removed by setPool
    NoLink,               \* the empty link, and the nil instance
    BlacklistStrikes,     \* failures before a ban, 0 disables the blacklist
    BatchSize,            \* configs tested per rotation, 0 = derived from the pool
    HealthCheckInterval,  \* 0 disables the health check
    HealthFailThreshold,  \* 0 = defaultHealthFailThresh
    LocalInbound,         \* the inbound speaks SOCKS or HTTP, so that the
                          \* health check goes through the local listener
    Outcomes              \* what the network may do to each link

\* Everything that can happen to a link when it is tested, built into an
\* instance, started, and checked while it serves.
Events == {"fail", "pass", "makeErr", "made", "startErr", "started",
           "sick", "well"}

\* Run enters rotation mode with at least two links only.
ASSUME PoolAssumption ==
    /\ IsFiniteSet(Pool)
    /\ Cardinality(Pool) > 1
    /\ NoLink \notin Pool

ASSUME ConfigAssumption ==
    /\ BlacklistStrikes \in Nat
    /\ BatchSize \in Nat
    /\ HealthCheckInterval \in Nat
    /\ HealthFailThreshold \in Nat
    /\ LocalInbound \in BOOLEAN
    /\ Outcomes \in [Pool -> SUBSET Events]

VARIABLES
    pc,           \* position of the rotation goroutine
    cancelled,    \* ctx.Done() is closed
    status,       \* rotationStatus shown by GetCurrentDetails
    ready,        \* proxyReady is closed: the first outbound came up
    cur,          \* currentInstance, named by its link
    lastUsed,     \* lastUsedLink
    active,       \* activeOutbound
    healthFails,  \* consecutive failed health checks
    blacklist,    \* strikes and ban of every link
    inst,         \* life of the instance built from each link
    batch,        \* linksToTest of the search under way
    untried,      \* links that passed their test and were not tried yet
    cand,         \* link whose instance is being brought up
    released,     \* portReleased
    result        \* what runRotationMode returned

ctl == <<pc, cancelled, status, ready, result>>
serving == <<cur, lastUsed, active, healthFails>>
search == <<batch, untried, cand, released>>
vars == <<pc, cancelled, status, ready, result, cur, lastUsed, active,
          healthFails, blacklist, inst, batch, untried, cand, released>>

-----------------------------------------------------------------------------
(* The blacklist *)

\* A link without an entry.  until abstracts blacklistedUntil to how it
\* compares with the clock: unset, ahead of it, or behind it.
NoEntry == [strikes |-> 0, until |-> "zero"]

\* Strikes above the threshold are never told apart, so they saturate there.
StruckEntry(e) ==
    LET n == IF e.strikes < BlacklistStrikes THEN e.strikes + 1 ELSE e.strikes
    IN  [strikes |-> n,
         until   |-> IF n >= BlacklistStrikes /\ e.until = "zero"
                     THEN "future" ELSE e.until]

\* recordStrike for each of links; a no-op when blacklisting is disabled or
\* the link is empty.
recordStrike(bl, links) ==
    IF BlacklistStrikes = 0 THEN bl
    ELSE [l \in Pool |-> IF l \in links THEN StruckEntry(bl[l]) ELSE bl[l]]

Banned(l) == blacklist[l].until = "future"

\* The previous outbound is dropped from the candidates.
Available == Pool \ {lastUsed}

\* Links the filter lets through.  now.After(blacklistedUntil) also holds of
\* a ban that was never set, whose time is zero.
Unbanned == {l \in Available : ~Banned(l)}

Candidates ==
    IF BlacklistStrikes = 0 \/ Unbanned = {} THEN Available ELSE Unbanned

\* Faulty variant: the filter lets a lapsed link through and keeps its entry.
FilteredBlacklistKeeps ==
    IF BlacklistStrikes > 0 /\ Unbanned = {} THEN [l \in Pool |-> NoEntry]
    ELSE blacklist

\* The filter deletes the entry of every link it lets through, or all entries
\* when it would let none through.
FilteredBlacklist ==
    IF BlacklistStrikes = 0 THEN blacklist
    ELSE [l \in Pool |-> IF Unbanned = {} \/ l \in Unbanned
                         THEN NoEntry ELSE blacklist[l]]

Clamp(n, lo, hi) == IF n < lo THEN lo ELSE IF n > hi THEN hi ELSE n

\* Number of links tested out of n candidates.
BatchLen(n) ==
    LET want == IF BatchSize = 0 THEN Clamp(n \div 10, 10, 200) ELSE BatchSize
    IN  IF want > n THEN n ELSE want

Threshold == IF HealthFailThreshold = 0 THEN 3 ELSE HealthFailThreshold

-----------------------------------------------------------------------------
Init ==
    /\ pc = "search"
    /\ cancelled = FALSE
    /\ status = "rotating"
    /\ ready = FALSE
    /\ result = "none"
    /\ cur = NoLink /\ lastUsed = NoLink /\ active = NoLink
    /\ healthFails = 0
    /\ blacklist = [l \in Pool |-> NoEntry]
    /\ inst = [l \in Pool |-> "none"]
    /\ batch = {} /\ untried = {} /\ cand = NoLink
    /\ released = FALSE

\* The network may answer e for l.  Once the context is cancelled an
\* operation that uses it may also fail.
May(l, e) == e \in Outcomes[l]
MayFail(l, e) == e \in Outcomes[l] \/ cancelled

\* Faulty variant: the deferred Close is missing.
ReturnNoClose(res) ==
    /\ pc' = "done"
    /\ result' = res
    /\ UNCHANGED <<cancelled, status, ready, serving, blacklist, inst, search>>

\* The deferred Close of currentInstance, and the function's return.
Return(res) ==
    /\ inst' = [l \in Pool |-> IF l = cur THEN "none" ELSE inst[l]]
    /\ cur' = NoLink
    /\ pc' = "done"
    /\ result' = res
    /\ UNCHANGED <<cancelled, status, ready, lastUsed, active, healthFails,
                   blacklist, search>>

-----------------------------------------------------------------------------
(* findAndStartWorkingConfig *)

\* Faulty variant: the old listener is closed before the search.
BeginSearchReleasing ==
    /\ pc = "search"
    /\ batch' \in {b \in SUBSET Candidates :
                     Cardinality(b) = BatchLen(Cardinality(Candidates))}
    /\ blacklist' = FilteredBlacklist
    /\ untried' = {} /\ cand' = NoLink /\ released' = TRUE
    /\ inst' = [l \in Pool |-> IF l = cur THEN "none" ELSE inst[l]]
    /\ cur' = NoLink
    /\ pc' = "testing"
    /\ UNCHANGED <<cancelled, status, ready, result, lastUsed, active,
                   healthFails>>

\* Shuffle the pool, drop the previous outbound and the banned links, take a
\* batch.
BeginSearch ==
    /\ pc = "search"
    /\ batch' \in {b \in SUBSET Candidates :
                     Cardinality(b) = BatchLen(Cardinality(Candidates))}
    /\ blacklist' = FilteredBlacklist
    /\ untried' = {} /\ cand' = NoLink /\ released' = FALSE
    /\ pc' = "testing"
    /\ UNCHANGED <<cancelled, status, ready, result, serving, inst>>

\* RunTests returned and every failed link is struck.  The candidates are
\* tried in order of their delay, which can be any order.
TestsDone ==
    /\ pc = "testing"
    /\ ~cancelled
    /\ \E passed \in SUBSET batch :
          /\ \A l \in passed : May(l, "pass")
          /\ \A l \in batch \ passed : May(l, "fail")
          /\ untried' = passed
          /\ blacklist' = recordStrike(blacklist, batch \ passed)
    /\ pc' = "try"
    /\ UNCHANGED <<cancelled, status, ready, result, serving, inst, batch,
                   cand, released>>

\* Faulty variant: workers that still hold links ignore the cancellation.
TestsCancelledDrains ==
    /\ pc = "testing"
    /\ cancelled /\ batch = {}
    /\ Return(IF ready THEN "nil" ELSE "err")

\* The context was cancelled during the tests: the search returns ctx.Err(),
\* which startup passes on and the loop turns into nil.
TestsCancelled ==
    /\ pc = "testing"
    /\ cancelled
    /\ Return(IF ready THEN "nil" ELSE "err")

MakeInstanceFails(l) ==
    /\ pc = "try"
    /\ l \in untried
    /\ MayFail(l, "makeErr")
    /\ untried' = untried \ {l}
    /\ blacklist' = recordStrike(blacklist, {l})
    /\ UNCHANGED <<ctl, serving, inst, batch, cand, released>>

\* Faulty variant: the old instance is left to close by itself.
MakeInstanceNoRelease(l) ==
    /\ pc = "try"
    /\ l \in untried
    /\ May(l, "made")
    /\ untried' = untried \ {l}
    /\ cand' = l
    /\ inst' = [inst EXCEPT ![l] = "made"]
    /\ pc' = "start"
    /\ UNCHANGED <<cancelled, status, ready, result, serving, blacklist,
                   batch, released>>

\* The port is released once per search, and only in a rotation: startup
\* passes a nil releasePort.
MakeInstance(l) ==
    /\ pc = "try"
    /\ l \in untried
    /\ May(l, "made")
    /\ untried' = untried \ {l}
    /\ cand' = l
    /\ inst' = [inst EXCEPT ![l] = "made"]
    /\ pc' = IF ready /\ ~released THEN "release" ELSE "start"
    /\ UNCHANGED <<cancelled, status, ready, result, serving, blacklist,
                   batch, released>>

\* releaseOld: hold the old outbound for DrainTimeout or until cancellation
\* (the time spent at pc = "release"), then close it.
ReleaseOld ==
    /\ pc = "release"
    /\ inst' = [l \in Pool |-> IF l = cur THEN "none" ELSE inst[l]]
    /\ cur' = NoLink
    /\ released' = TRUE
    /\ pc' = "start"
    /\ UNCHANGED <<cancelled, status, ready, result, lastUsed, active,
                   healthFails, blacklist, batch, untried, cand>>

Listening == {l \in Pool : inst[l] = "listening"}

\* Faulty variant: the instance that failed to start is not closed.
StartFailsNoClose ==
    /\ pc = "start"
    /\ MayFail(cand, "startErr") \/ Listening # {}
    /\ blacklist' = recordStrike(blacklist, {cand})
    /\ cand' = NoLink
    /\ pc' = "try"
    /\ UNCHANGED <<cancelled, status, ready, result, serving, inst, batch,
                   untried, released>>

\* Start fails by itself, or because another instance holds the port.
StartFails ==
    /\ pc = "start"
    /\ MayFail(cand, "startErr") \/ Listening # {}
    /\ inst' = [inst EXCEPT ![cand] = "none"]
    /\ blacklist' = recordStrike(blacklist, {cand})
    /\ cand' = NoLink
    /\ pc' = "try"
    /\ UNCHANGED <<cancelled, status, ready, result, serving, batch, untried,
                   released>>

\* Faulty variant: the status is not set back to idle.
AdoptStillRotating(l) ==
    /\ cur' = l
    /\ lastUsed' = l
    /\ healthFails' = 0
    /\ status' = status
    /\ ready' = TRUE
    /\ pc' = "wait"

\* The search returned an instance: the loop adopts it, forgets the health
\* failures of its predecessor and goes back to waiting.  The first success
\* also signals proxyReady.
AdoptOutbound(l) ==
    /\ cur' = l
    /\ lastUsed' = l
    /\ healthFails' = 0
    /\ status' = "idle"
    /\ ready' = TRUE
    /\ pc' = "wait"

StartSucceeds ==
    /\ pc = "start"
    /\ May(cand, "started")
    /\ Listening = {}
    /\ inst' = [inst EXCEPT ![cand] = "listening"]
    /\ active' = cand
    /\ cand' = NoLink
    /\ AdoptOutbound(cand)
    /\ UNCHANGED <<cancelled, result, blacklist, batch, untried, released>>

\* The search returned an error: startup gives up; the loop returns if the
\* context is cancelled, or else stalls with whatever listener it still has.
RotationFailed ==
    \/ ~ready /\ Return("err")
    \/ ready /\ cancelled /\ Return("nil")
    \/ /\ ready /\ ~cancelled
       /\ status' = "stalled"
       /\ pc' = "wait"
       /\ UNCHANGED <<cancelled, ready, result, serving, blacklist, inst, search>>

\* No candidate is left.
SearchExhausted ==
    /\ pc = "try"
    /\ untried = {}
    /\ RotationFailed

-----------------------------------------------------------------------------
(* The wait loop *)

CtxDone ==
    /\ pc = "wait"
    /\ cancelled
    /\ Return("nil")

Rotate ==
    /\ pc' = "search"
    /\ status' = "rotating"
    /\ UNCHANGED <<cancelled, ready, result, cur, lastUsed, active, inst,
                   search>>

\* forceRotate is unbuffered, so the loop takes it only while it waits.
ManualRotate ==
    /\ pc = "wait"
    /\ Rotate
    /\ UNCHANGED <<healthFails, blacklist>>

TimerElapsed ==
    /\ pc = "wait"
    /\ Rotate
    /\ UNCHANGED <<healthFails, blacklist>>

\* healthCheck through the local listener needs one; the fallback for other
\* inbounds tests the outbound alone.
HealthOk ==
    /\ pc = "wait"
    /\ HealthCheckInterval > 0
    /\ ~cancelled
    /\ May(active, "well")
    /\ LocalInbound => cur # NoLink
    /\ healthFails' = 0
    /\ UNCHANGED <<ctl, cur, lastUsed, active, blacklist, inst, search>>

HealthFail ==
    /\ pc = "wait"
    /\ HealthCheckInterval > 0
    /\ MayFail(active, "sick") \/ (LocalInbound /\ cur = NoLink)
    /\ \/ /\ healthFails + 1 < Threshold
          /\ healthFails' = healthFails + 1
          /\ UNCHANGED <<ctl, cur, lastUsed, active, blacklist, inst, search>>
       \/ /\ healthFails + 1 >= Threshold
          /\ healthFails' = 0
          /\ blacklist' = recordStrike(blacklist, {lastUsed})
          /\ Rotate

-----------------------------------------------------------------------------
(* The environment *)

Cancel ==
    /\ ~cancelled
    /\ cancelled' = TRUE
    /\ UNCHANGED <<pc, status, ready, result, serving, blacklist, inst, search>>

\* The clock passes the end of a ban.
BanLapses(l) ==
    /\ Banned(l)
    /\ blacklist' = [blacklist EXCEPT ![l].until = "past"]
    /\ UNCHANGED <<ctl, serving, inst, search>>

Terminated == pc = "done" /\ UNCHANGED vars

\* Steps that the goroutine takes on its own, without waiting for anything.
SearchStep ==
    \/ BeginSearch \/ TestsDone \/ TestsCancelled
    \/ \E l \in Pool : MakeInstanceFails(l) \/ MakeInstance(l)
    \/ ReleaseOld \/ StartFails \/ StartSucceeds \/ SearchExhausted

Next ==
    \/ SearchStep
    \/ CtxDone \/ ManualRotate \/ TimerElapsed \/ HealthOk \/ HealthFail
    \/ Cancel
    \/ \E l \in Pool : BanLapses(l)
    \/ Terminated

Spec == Init /\ [][Next]_vars

\* The runtime schedules the goroutine, delivers timers and lets the clock
\* advance.  The shuffle is random, so a link that is a candidate in
\* infinitely many searches is in infinitely many batches.
Fairness ==
    /\ WF_vars(SearchStep)
    /\ WF_vars(CtxDone)
    /\ WF_vars(TimerElapsed)
    /\ \A l \in Pool : WF_vars(BanLapses(l))
    /\ \A l \in Pool : SF_vars(BeginSearch /\ l \in batch')

FairSpec == Spec /\ Fairness

-----------------------------------------------------------------------------
(* Properties *)

Entry == [strikes : 0..BlacklistStrikes, until : {"zero", "future", "past"}]

\* Every variable of the rotation loop stays in its range; in particular the
\* health-check counter never reaches the threshold at which it is reset.
TypeOK ==
    /\ pc \in {"search", "testing", "try", "release", "start", "wait", "done"}
    /\ cancelled \in BOOLEAN
    /\ status \in {"rotating", "idle", "stalled"}
    /\ ready \in BOOLEAN
    /\ result \in {"none", "nil", "err"}
    /\ cur \in Pool \cup {NoLink}
    /\ lastUsed \in Pool \cup {NoLink}
    /\ active \in Pool \cup {NoLink}
    /\ healthFails \in Nat /\ healthFails < Threshold
    /\ blacklist \in [Pool -> Entry]
    /\ inst \in [Pool -> {"none", "made", "listening"}]
    /\ batch \in SUBSET Pool
    /\ untried \in SUBSET batch
    /\ cand \in Pool \cup {NoLink}
    /\ released \in BOOLEAN

\* The link of the instance that exists besides the current one.
Starting == IF pc \in {"release", "start"} THEN {cand} ELSE {}

\* Whatever path a rotation takes (a candidate that cannot be built or
\* started, a search that finds nothing, cancellation at any point), the only
\* instances alive are the current one and the candidate being brought up:
\* none is leaked, and after runRotationMode has returned none is left.
NoOrphan == {l \in Pool : inst[l] # "none"} = ({cur} \ {NoLink}) \cup Starting

\* What every step of runRotationMode keeps: the loop's variables have their
\* types (the counters their bounds) and no instance is leaked.
LoopSound == TypeOK /\ NoOrphan

\* The synchronous releaseOld works: an instance never tries to bind the
\* inbound port while another one listens on it.
PortFreeAtStart == pc = "start" => Listening = {}

\* What GetCurrentDetails shows as idle is the truth: the outbound it names is
\* the one that listens, and its record is clean.  A banned or struck link
\* enters service only after the filter has deleted its entry, and every
\* strike against it afterwards ends its service.
IdleIsServing ==
    pc = "wait" /\ status = "idle" =>
        /\ Listening = {active}
        /\ cur = active /\ lastUsed = active
        /\ blacklist[active] = NoEntry

\* The old listener goes down only for a replacement that was tested and
\* built, or because the loop returns: a search that finds nothing to start
\* leaves it alone.
DownOnlyForReplacement ==
    [][cur # NoLink /\ cur' = NoLink =>
          \/ cand # NoLink /\ inst[cand] = "made"
          \/ pc' = "done"]_vars

\* The rotation implements the abstract listener.
L == INSTANCE Listener WITH open <- Listening, stopped <- (pc = "done")
ImplementsListener == L!Spec

\* Cancelling the context ends the loop, wherever it is: in a test, during
\* the drain, between two candidates or while it waits.
CancelReturns == cancelled ~> pc = "done"

\* Every search ends: it brings an outbound up, stalls or returns, however
\* many of its candidates cannot be built or started.
RotationEnds == status = "rotating" ~> status # "rotating" \/ pc = "done"

\* The loop never hangs: neither a cancelled one nor a search.
LoopProgresses == CancelReturns /\ RotationEnds

AlwaysWorks(l) == Outcomes[l] \cap {"fail", "makeErr", "startErr", "sick"} = {}
AlwaysFails(l) == "pass" \notin Outcomes[l]

\* "Rotation failed and old listener already released. Retrying soon.": when
\* the pool holds a link that always works, a stall does not last.
Recovers ==
    (\E l \in Pool : AlwaysWorks(l)) =>
        (status = "stalled" ~> status = "idle" \/ cancelled)

\* "Strike anything that failed in the examiner so persistently broken
\* configs eventually leave the rotation pool": false with a threshold above
\* one, as the filter deletes the entry of every link it lets through, and with
\* it the strikes that have not yet led to a ban.
BrokenLeavesPool ==
    \A l \in Pool : AlwaysFails(l) => <>(Banned(l) \/ pc = "done")

-----------------------------------------------------------------------------
(* The inductive invariant behind the safety properties *)

InSearch == pc \in {"testing", "try", "release", "start"}

\* Which instances exist: the current one listens, the candidate is built but
\* not started, and no other link has one.
InstancesInv ==
    /\ cur # NoLink => inst[cur] = "listening"
    /\ \A l \in Pool : inst[l] = "listening" => l = cur
    /\ \A l \in Pool : inst[l] = "made" =>
                          pc \in {"release", "start"} /\ l = cand
    /\ pc \in {"release", "start"} => cand \in Pool /\ inst[cand] = "made"

\* Who holds the port in each phase of the loop, and that a search never
\* considers the link that may still hold it.
HandoverInv ==
    /\ active = lastUsed
    /\ cur # NoLink => cur = lastUsed /\ ready
    /\ pc \in {"start", "done"} => cur = NoLink
    /\ InSearch /\ released => cur = NoLink
    /\ InSearch => lastUsed \notin batch
    /\ pc \in {"release", "start"} => cand # lastUsed
    /\ ready => lastUsed # NoLink
    /\ pc = "wait" => ready
    /\ pc = "wait" /\ status = "idle" => cur # NoLink

\* A link that can still be brought up by the search, and the link that
\* serves, have no entry in the blacklist.
RecordInv ==
    /\ BlacklistStrikes = 0 => \A l \in Pool : blacklist[l] = NoEntry
    /\ pc = "testing" => \A l \in batch : blacklist[l] = NoEntry
    /\ InSearch => \A l \in untried : blacklist[l] = NoEntry
    /\ pc \in {"release", "start"} =>
          blacklist[cand] = NoEntry /\ cand \notin untried
    /\ pc = "wait" /\ status = "idle" => blacklist[lastUsed] = NoEntry

IInv == TypeOK /\ InstancesInv /\ HandoverInv /\ RecordInv

=============================================================================
