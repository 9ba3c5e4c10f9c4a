-------------------------------- MODULE Tester --------------------------------
(***************************************************************************)
(* The HTTP tester: the pre-scan that drops links whose endpoint does not  *)
(* answer, the pool that examines links with retries, and the collector    *)
(* that stores results, as the command line ("cli") and the web server     *)
(* ("web") run them. Both may be interrupted, and the command line stops   *)
(* by itself when enough links passed.                                     *)
(***************************************************************************)
EXTENDS Naturals, Sequences, FiniteSets, FiniteSetsExt, SequencesExt, Functions

CONSTANTS
    Links,          \* the links of the run, without duplicates; numbers that stand for their delay
    endpointForLink, \* per link: the endpoint to dial, "" to keep the link without dialling
    ThreadCount,    \* workers, and the capacity of the results channel
    PrescanWorkers,
    Panel,          \* number of endpoints a link is tested against
    Percent,        \* SuccessThreshold, in percent
    Retries,
    MaxPassed,      \* 0: test all
    saveBatchSize,
    Options         \* the options that occur: front, kind (file type), prescan, sort, db (SaveToDB)

Endpoints == {endpointForLink[l] : l \in Links} \ {""}

ASSUME TesterAssumption ==
    /\ Links \subseteq Nat /\ IsFiniteSet(Links)
    /\ {ThreadCount, PrescanWorkers, Panel, saveBatchSize} \subseteq Nat \ {0}
    /\ {Retries, MaxPassed} \subseteq Nat /\ Percent \in 1..100
    /\ Options \subseteq [front : {"cli"}, kind : {"csv", "txt"}, prescan : BOOLEAN, sort : BOOLEAN, db : BOOLEAN]
                           \cup [front : {"web"}, kind : {"csv"}, prescan : {FALSE}, sort : {FALSE}, db : BOOLEAN]

VARIABLES
    phase,       \* the main thread
    opts,        \* the options of the run
    recorded,    \* the web server has a run in the database for the rows (runID > 0)
    interrupted, \* the user ends the run
    enough,      \* cancelTests was called
    dial,        \* per endpoint: the state of the pre-scan
    links,       \* links handed to RunTests
    job,         \* per link: the pool task
    tries,       \* per link: examinations made
    best,        \* per link: the best result so far
    channel,     \* resultsChan
    collector,   \* the collecting goroutine runs
    results,     \* results taken from the channel
    batch,       \* results to be written
    file, rows,  \* links in the output file and in the database
    lost         \* a write failed
main == <<phase, opts, recorded, interrupted, dial, links>>
work == <<job, tries, best>>
store == <<results, batch, file, rows, lost>>
vars == <<main, enough, work, channel, collector, store>>

Statuses == {"", "passed", "semi-passed", "failed", "timeout", "broken"}
TypeOK ==
    /\ phase \in {"start", "prescan", "test", "join", "done"}
    /\ opts \in Options /\ recorded \in BOOLEAN /\ interrupted \in BOOLEAN /\ enough \in BOOLEAN
    /\ dial \in [Endpoints -> {"todo", "busy", "yes", "no", "cut"}] /\ links \subseteq Links
    /\ job \in [Links -> {"none", "queued", "busy", "send"}] /\ tries \in [Links -> 0..Retries + 1]
    /\ best \in [Links -> Statuses] /\ collector \in BOOLEAN
    /\ {channel, results, batch, file, rows} \subseteq Seq(Links) /\ lost \in BOOLEAN

Cancelled == interrupted \/ enough

-----------------------------------------------------------------------------
(* Examining a link *)

passesThreshold(successes) == successes >= Panel \/ successes * 100 >= Percent * Panel

\* What a request to an endpoint of the panel ends with.
Outcomes == {"ok", "slow", "bad-status", "error"}

\* The grade of a link by the outcomes of its panel, in order.
Grade(outs) ==
    LET successes == Cardinality({i \in DOMAIN outs : outs[i] = "ok"}) IN
    CASE passesThreshold(successes) -> "passed"
      [] ~passesThreshold(successes) /\ successes > 0 -> "semi-passed"
      [] Panel = 1 /\ outs = <<"slow">> -> "timeout"
      [] OTHER -> "failed"

\* The grades a link can get after k endpoints.
Grades == [k \in 0..Panel |-> {Grade(outs) : outs \in [1..k -> Outcomes]}]

\* ExamineConfig: a link that makes no client is broken; a cancellation ends the
\* loop over the panel early. A link that answered but did not tell its address
\* is only semi-passed.
ExamineConfig ==
    LET grades == IF Cancelled THEN UNION Range(Grades) ELSE Grades[Panel] IN
    {"broken"} \cup grades \cup (IF grades \cap {"passed", "semi-passed"} # {} THEN {"semi-passed"} ELSE {})

\* ExamineConfigWithRetries: a later result replaces the first one only when it
\* passed.
Better(old, new) == IF old = "" \/ new = "passed" THEN new ELSE old

\* It stops retrying.
Enough(status, n) == status = "passed" \/ n = Retries + 1 \/ Cancelled

-----------------------------------------------------------------------------
(* The main thread *)

Init ==
    /\ phase = "start" /\ opts \in Options /\ recorded = FALSE /\ interrupted = FALSE /\ enough = FALSE
    /\ dial = [e \in Endpoints |-> "todo"] /\ links = {}
    /\ job = [l \in Links |-> "none"] /\ tries = [l \in Links |-> 0] /\ best = [l \in Links |-> ""]
    /\ channel = <<>> /\ collector = FALSE /\ results = <<>> /\ batch = <<>>
    /\ file = <<>> /\ rows = <<>> /\ lost = FALSE

\* RunTests is called with the links, its collector started, and every link
\* submitted to the pool.
RunTests(set) ==
    /\ links' = set /\ phase' = "test" /\ collector' = TRUE
    /\ job' = [l \in Links |-> IF l \in set /\ ~interrupted THEN "queued" ELSE "none"]

\* The web server first makes a run in the database when rows are to be saved; it
\* goes on without one when that fails.
CreateHttpTestRun ==
    recorded' \in IF opts.front = "web" /\ opts.db THEN BOOLEAN ELSE {FALSE}

Begin ==
    /\ phase = "start"
    /\ CreateHttpTestRun
    /\ IF opts.prescan
       THEN phase' = "prescan" /\ UNCHANGED <<links, collector, job>>
       ELSE RunTests(Links)
    /\ UNCHANGED <<opts, interrupted, dial, enough, tries, best, channel, store>>

\* A pool worker dials an endpoint.
DialTCP(e) ==
    /\ phase = "prescan"
    /\ \/ /\ dial[e] = "todo" /\ ~interrupted
          /\ Cardinality({x \in Endpoints : dial[x] = "busy"}) < PrescanWorkers
          /\ dial' = [dial EXCEPT ![e] = "busy"]
       \/ /\ dial[e] = "busy"
          /\ \E r \in {"yes", "no"} \cup (IF interrupted THEN {"cut"} ELSE {}) : dial' = [dial EXCEPT ![e] = r]
    /\ UNCHANGED <<phase, opts, recorded, interrupted, links, enough, work, channel, collector, store>>

\* The links that RunPrescan keeps.
Reachable == {l \in Links : endpointForLink[l] = "" \/ dial[endpointForLink[l]] = "yes"}

\* group.Wait ends when all endpoints are dialled, or at once when interrupted.
PrescanWait == interrupted \/ \A e \in Endpoints : dial[e] \in {"yes", "no"}

\* Faulty variant: an interrupted pre-scan is taken at its word.
PrescanNoAbort ==
    /\ phase = "prescan" /\ PrescanWait
    /\ IF Reachable = {}
       THEN phase' = "done" /\ UNCHANGED <<links, collector, job>>
       ELSE RunTests(Reachable)
    /\ UNCHANGED <<opts, recorded, interrupted, dial, enough, tries, best, channel, store>>

\* The run is given up when the user interrupted the pre-scan or nothing is left.
EndPrescan ==
    /\ phase = "prescan" /\ PrescanWait
    /\ IF interrupted \/ Reachable = {}
       THEN phase' = "done" /\ UNCHANGED <<links, collector, job>>
       ELSE RunTests(Reachable)
    /\ UNCHANGED <<opts, recorded, interrupted, dial, enough, tries, best, channel, store>>

\* group.Wait of RunTests returns and the results channel is closed.
CloseResults ==
    /\ phase = "test"
    /\ Cancelled \/ \A l \in Links : job[l] = "none"
    /\ phase' = "join"
    /\ UNCHANGED <<opts, recorded, interrupted, dial, links, enough, work, channel, collector, store>>

\* By delay; a link without an answer comes last.
Sorted(s) ==
    LET Delay(l) == IF best[l] \in {"failed", "broken"} THEN 1000 ELSE l
        Before(l, m) == Delay(l) < Delay(m)
    IN  SortSeq(s, Before)

\* What a file of the run's type holds of results.
Lines(s) == IF opts.kind = "csv" THEN s ELSE SelectSeq(s, LAMBDA l : best[l] = "passed")

\* collectorWg.Wait. The command line rewrites the file, sorted, and saves all
\* results in the database; the web server has saved them on the way.
Output ==
    /\ phase = "join" /\ ~collector
    /\ phase' = "done"
    /\ \E ok \in BOOLEAN :
          /\ file' = IF opts.front = "cli" /\ opts.sort /\ ok THEN Lines(Sorted(results)) ELSE file
          /\ rows' = IF opts.front = "cli" /\ opts.db /\ ok THEN results ELSE rows
          /\ lost' = (lost \/ (opts.front = "cli" /\ ~ok))
    /\ UNCHANGED <<opts, recorded, interrupted, dial, links, enough, work, channel, collector, results, batch>>

\* Ctrl-C, or Stop of the web server. Tasks that have not begun are skipped.
Interrupt ==
    /\ phase \notin {"start", "done"} /\ ~interrupted
    /\ interrupted' = TRUE
    /\ job' = [l \in Links |-> IF job[l] = "queued" THEN "none" ELSE job[l]]
    /\ UNCHANGED <<phase, opts, recorded, dial, links, enough, tries, best, channel, collector, store>>

-----------------------------------------------------------------------------
(* Workers *)

Take(l) ==
    /\ job[l] = "queued"
    /\ Cardinality({m \in Links : job[m] \in {"busy", "send"}}) < ThreadCount
    /\ job' = [job EXCEPT ![l] = "busy"]
    /\ UNCHANGED <<main, enough, tries, best, channel, collector, store>>

\* One examination, and the decision to retry.
Examine(l) ==
    /\ job[l] = "busy"
    /\ \E s \in ExamineConfig :
          /\ best' = [best EXCEPT ![l] = Better(@, s)]
          /\ tries' = [tries EXCEPT ![l] = @ + 1]
          /\ job' = IF Enough(Better(best[l], s), tries[l] + 1) THEN [job EXCEPT ![l] = "send"] ELSE job
    /\ UNCHANGED <<main, enough, channel, collector, store>>

\* The loop notices the cancellation before the next retry.
StopRetrying(l) ==
    /\ job[l] = "busy" /\ tries[l] > 0 /\ Cancelled
    /\ job' = [job EXCEPT ![l] = "send"]
    /\ UNCHANGED <<main, enough, tries, best, channel, collector, store>>

Send(l) ==
    /\ job[l] = "send" /\ phase = "test" /\ Len(channel) < ThreadCount
    /\ channel' = Append(channel, l) /\ job' = [job EXCEPT ![l] = "none"]
    /\ UNCHANGED <<main, enough, tries, best, collector, store>>

\* ctx is done, or the channel is closed and the pool recovers from the panic.
GiveUp(l) ==
    /\ job[l] = "send" /\ Cancelled
    /\ job' = [job EXCEPT ![l] = "none"]
    /\ UNCHANGED <<main, enough, tries, best, channel, collector, store>>

-----------------------------------------------------------------------------
(* The collector *)

\* Faulty variant: an incomplete batch is not written.
flushFullBatch(b, ok) ==
    IF Len(b) < saveBatchSize THEN batch' = b /\ UNCHANGED <<file, rows, lost>>
    ELSE /\ batch' = <<>> /\ file' = file \o Lines(b)
         /\ rows' = IF recorded THEN rows \o b ELSE rows
         /\ UNCHANGED lost

\* A batch is appended to the file and, by the web server with a run in the
\* database, to its rows. It is forgotten even when that fails. The two fail together here: once either
\* failed (lost), nothing is said of what was stored.
flushBatch(b, ok) ==
    /\ batch' = <<>>
    /\ file' = IF ok THEN file \o Lines(b) ELSE file
    /\ rows' = IF recorded /\ ok THEN rows \o b ELSE rows
    /\ lost' = (lost \/ (b # <<>> /\ ~ok))

\* A result is collected. The command line counts the links that passed and
\* cancels the rest of the tests when there are enough.
Collect(ok) ==
    /\ collector /\ channel # <<>>
    /\ LET l == Head(channel)
           taken == Append(results, l)
           b == Append(batch, l)
           reached == /\ opts.front = "cli" /\ MaxPassed > 0
                      /\ Cardinality({m \in Range(taken) : best[m] = "passed"}) >= MaxPassed
       IN  /\ results' = taken
           /\ enough' = (enough \/ (reached /\ best[l] = "passed"))
           /\ job' = [m \in Links |-> IF enough' /\ job[m] = "queued" THEN "none" ELSE job[m]]
           /\ IF Len(b) >= saveBatchSize THEN flushBatch(b, ok)
              ELSE batch' = b /\ UNCHANGED <<file, rows, lost>>
    /\ channel' = Tail(channel)
    /\ UNCHANGED <<main, tries, best, collector>>

\* The web server saves what it has every few seconds.
CollectorTick(ok) ==
    /\ collector /\ opts.front = "web" /\ batch # <<>>
    /\ flushBatch(batch, ok)
    /\ UNCHANGED <<main, enough, work, channel, collector, results>>

\* Faulty variant: the closed channel is not noticed.
CollectorStopInterrupted(ok) ==
    /\ collector /\ interrupted
    /\ flushBatch(batch, ok)
    /\ collector' = FALSE
    /\ UNCHANGED <<main, enough, work, channel, results>>

\* The channel is closed and empty, or the web server's run is interrupted,
\* whatever the channel still holds.
CollectorStop(ok) ==
    /\ collector
    /\ (phase = "join" /\ channel = <<>>) \/ (opts.front = "web" /\ interrupted)
    /\ flushBatch(batch, ok)
    /\ collector' = FALSE
    /\ UNCHANGED <<main, enough, work, channel, results>>

-----------------------------------------------------------------------------
Next ==
    \/ Begin \/ EndPrescan \/ CloseResults \/ Output \/ Interrupt
    \/ \E e \in Endpoints : DialTCP(e)
    \/ \E l \in Links : Take(l) \/ Examine(l) \/ StopRetrying(l) \/ Send(l) \/ GiveUp(l)
    \/ \E ok \in BOOLEAN :
          Collect(ok) \/ CollectorTick(ok) \/ CollectorStop(ok)

\* The threads run, and dials, requests and writes end.
Fairness ==
    /\ WF_vars(Begin \/ EndPrescan \/ CloseResults \/ Output)
    /\ \A e \in Endpoints : WF_vars(DialTCP(e))
    /\ \A l \in Links : WF_vars(Take(l) \/ Examine(l) \/ StopRetrying(l) \/ Send(l) \/ GiveUp(l))
    /\ WF_vars(\E ok \in BOOLEAN : Collect(ok) \/ CollectorStop(ok))

Spec == Init /\ [][Next]_vars /\ Fairness
-----------------------------------------------------------------------------
(* Properties *)

\* A link is left out of the tests only when its endpoint was dialled and did
\* not answer: an interrupted pre-scan, whose dials return at once and whose
\* remaining endpoints count as unreachable, filters nothing.
PrescanSound ==
    phase \in {"test", "join"} =>
        \A l \in Links \ links : endpointForLink[l] # "" /\ dial[endpointForLink[l]] = "no"

\* A run that ends without a failed write leaves each collected result exactly
\* once in the file (a text file: if it passed) and in the database; a run of the
\* web server that could not be recorded there still keeps its file. Unless the user
\* interrupted it, it collected all links, or as many working ones as were asked for.
ResultsKept ==
    phase = "done" =>
        /\ IsInjective(results)
        /\ ~lost => /\ IsInjective(file) /\ Range(file) = Range(Lines(results))
                    /\ opts.db => rows = IF opts.front = "cli" \/ recorded THEN results ELSE <<>>
        /\ (~interrupted /\ links # {}) =>
              \/ Range(results) = links
              \/ MaxPassed > 0 /\ Cardinality({l \in Range(results) : best[l] = "passed"}) >= MaxPassed

\* A run ends: a full results channel, a collector that left and a cancellation
\* block nobody for good.
TestsEnd == <>(phase = "done")
=============================================================================
