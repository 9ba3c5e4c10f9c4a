------------------------------- MODULE Scanner -------------------------------
(***************************************************************************)
(* The Cloudflare scanner: the main thread of Run, the pool workers of its *)
(* two phases, the writer that collects results and saves them in batches, *)
(* cancellation, a crash, and resuming from the database or the file.      *)
(*                                                                         *)
(* A result is shared by pointer: the channel, the batch and the result    *)
(* map hold addresses, and res holds the object of each address.           *)
(***************************************************************************)
EXTENDS Naturals, Sequences, FiniteSets, FiniteSetsExt, SequencesExt

CONSTANTS
    Subnets,      \* sequence of sets of addresses; an empty set is an unusable CIDR
    ThreadCount,  \* workers of the latency phase
    SpeedtestConcurrency, SpeedtestTop,
    saveBatchSize,
    Options       \* bound: per scan the options that occur: resume, db (SaveToDB), speed (DoSpeedtest)

IPs == UNION {Subnets[i] : i \in DOMAIN Subnets}

\* Addresses are numbers, and stand for their latency.
ASSUME ScannerAssumption ==
    /\ Subnets \in Seq(SUBSET (Nat \ {0})) /\ IsFiniteSet(IPs)
    /\ Options \in Seq(SUBSET [resume : BOOLEAN, db : BOOLEAN, speed : BOOLEAN])
    /\ {ThreadCount, SpeedtestConcurrency, SpeedtestTop, saveBatchSize} \subseteq Nat \ {0}

VARIABLES
    phase,      \* the main thread
    opts,       \* the options of the scan
    runs,       \* scans started
    cancelled,  \* ctx is done
    todo,       \* subnets still to submit
    job,        \* per address: the pool task for it
    res,        \* per address: the result object of this scan
    channel,    \* workerResultsChan
    writer,     \* the writer goroutine: on or off
    got,        \* keys of runResultsMap
    batch,      \* results to be saved by the writer
    failed,     \* a save of this scan failed
    initial,    \* initialResults, by address; scannedIPs are its keys
    completed,  \* addresses reported as scanned
    db, csv,    \* the stored results, by address
    rows        \* the rows about to be written to the file
main == <<phase, opts, runs, cancelled, todo, initial, csv, rows>>
work == <<job, res, channel, completed>>
sink == <<writer, got, batch, failed, db>>
vars == <<main, work, sink>>

Result == [latency : Nat, down : BOOLEAN, up : BOOLEAN, error : {"", "failed"}]
Nothing == [latency |-> 0, down |-> FALSE, up |-> FALSE, error |-> ""]
Empty == [ip \in {} |-> Nothing]
IsStored(f) == DOMAIN f \subseteq IPs /\ f \in [DOMAIN f -> Result]

TypeOK ==
    /\ phase \in {"idle", "latency", "wait", "choose", "speed", "close", "join", "save", "write", "done"}
    /\ opts \in [resume : BOOLEAN, db : BOOLEAN, speed : BOOLEAN] /\ runs \in 0..Len(Options)
    /\ cancelled \in BOOLEAN /\ todo \in 0..Len(Subnets)
    /\ job \in [IPs -> {"none", "queued", "busy", "send"}] /\ res \in [IPs -> Result]
    /\ channel \in Seq(IPs) /\ writer \in BOOLEAN /\ got \subseteq IPs /\ batch \in Seq(IPs)
    /\ failed \in BOOLEAN /\ IsStored(initial) /\ IsStored(db) /\ IsStored(csv) /\ IsStored(rows) /\ completed \in Nat

-----------------------------------------------------------------------------
(* Results and where they are kept *)

\* A latency test ends well or badly. A test that the cancellation interrupts
\* looks like one that failed.
scanIPForLatency(ip) == {[Nothing EXCEPT !.latency = ip], [Nothing EXCEPT !.error = "failed"]}

\* A speed test writes to the result: both speeds, the download alone when the
\* upload failed, or none.
measureSpeed(r) ==
    {[r EXCEPT !.down = TRUE, !.up = TRUE]} \cup {[r EXCEPT !.down = d, !.error = "failed"] : d \in BOOLEAN}

\* The row that saveToDB makes: a failed result has nothing but its error.
DbRow(r) == IF r.error = "" THEN r ELSE [Nothing EXCEPT !.error = r.error]

\* UpsertCfScanResultsBatch: a new row overwrites the error of a stored one; the
\* latency and the speeds it lacks stay as stored.
UpsertRow(old, new) ==
    [latency |-> IF new.error = "" THEN new.latency ELSE old.latency,
     down |-> new.down \/ old.down, up |-> new.up \/ old.up, error |-> new.error]

UpsertCfScanResultsBatch(batchRows) ==
    [ip \in DOMAIN db \cup DOMAIN batchRows |->
       CASE ip \notin DOMAIN batchRows -> db[ip]
         [] ip \notin DOMAIN db        -> batchRows[ip]
         [] OTHER                      -> UpsertRow(db[ip], batchRows[ip])]

\* f, overwritten by g.
Overwrite(f, g) == [ip \in DOMAIN f \cup DOMAIN g |-> IF ip \in DOMAIN g THEN g[ip] ELSE f[ip]]

\* Faulty variant: the results of the resumed scan are forgotten.
CombinedFresh == [ip \in got |-> res[ip]]

\* The runResultsMap, with the results of the resumed scan that it lacks.
Combined == Overwrite(IF opts.resume THEN initial ELSE Empty, [ip \in got |-> res[ip]])

-----------------------------------------------------------------------------
(* The main thread *)

Running == phase \notin {"idle", "done"}

Init ==
    /\ phase = "idle" /\ opts = [resume |-> FALSE, db |-> FALSE, speed |-> FALSE] /\ runs = 0
    /\ cancelled = FALSE /\ todo = 0 /\ job = [ip \in IPs |-> "none"] /\ res = [ip \in IPs |-> Nothing]
    /\ channel = <<>> /\ writer = FALSE /\ got = {} /\ batch = <<>> /\ failed = FALSE
    /\ initial = Empty /\ completed = 0 /\ db = Empty /\ csv = Empty /\ rows = Empty

\* NewScannerService loads what an earlier scan stored, or starts fresh when
\* that cannot be read.
Resumed(o) ==
    IF o.resume THEN {Empty, IF o.db THEN db ELSE csv} ELSE {Empty}

\* NewScannerService and the first lines of Run.
Start(o) ==
    /\ ~Running /\ runs < Len(Options) /\ o \in Options[runs + 1]
    /\ initial' \in Resumed(o)
    /\ phase' = "latency" /\ opts' = o /\ runs' = runs + 1 /\ cancelled' = FALSE /\ todo' = Len(Subnets)
    /\ job' = [ip \in IPs |-> "none"] /\ res' = [ip \in IPs |-> Nothing]
    /\ channel' = <<>> /\ writer' = TRUE /\ got' = {} /\ batch' = <<>> /\ failed' = FALSE /\ completed' = 0
    /\ UNCHANGED <<db, csv, rows>>

\* runLatencyScan submits a subnet. Addresses with a stored result are skipped.
SubmitSubnet ==
    /\ phase = "latency" /\ todo > 0 /\ ~cancelled
    /\ LET subnet == Subnets[Len(Subnets) + 1 - todo] IN
       /\ job' = [ip \in IPs |-> IF ip \in subnet \ DOMAIN initial THEN "queued" ELSE job[ip]]
       /\ completed' = completed + Cardinality(subnet \cap DOMAIN initial)
    /\ todo' = todo - 1
    /\ UNCHANGED <<phase, opts, runs, cancelled, initial, csv, rows, res, channel, sink>>

\* It returns early between subnets, or goes on to group.Wait.
EndSubmit ==
    /\ phase = "latency" /\ (todo = 0 \/ cancelled)
    /\ phase' = IF cancelled THEN "choose" ELSE "wait"
    /\ UNCHANGED <<opts, runs, cancelled, todo, initial, csv, rows, work, sink>>

\* group.Wait: for all tasks, or not at all once ctx is done.
Wait ==
    /\ phase \in {"wait", "speed"}
    /\ cancelled \/ \A ip \in IPs : job[ip] = "none"
    /\ phase' = IF phase = "wait" THEN "choose" ELSE "close"
    /\ UNCHANGED <<opts, runs, cancelled, todo, initial, csv, rows, work, sink>>

\* The SpeedtestTop fastest of the successful results that the writer has taken.
Top ==
    LET good == {ip \in got : res[ip].error = ""} IN
    {ip \in good : Cardinality({i \in good : i < ip}) < SpeedtestTop}

\* The second phase: runSpeedTest submits its tasks.
ChooseForSpeed ==
    /\ phase = "choose"
    /\ IF opts.speed /\ ~cancelled
       THEN /\ phase' = "speed"
            /\ job' = [ip \in IPs |-> IF ip \in Top /\ ~res[ip].down /\ ~res[ip].up THEN "queued" ELSE job[ip]]
       ELSE phase' = "close" /\ UNCHANGED job
    /\ UNCHANGED <<opts, runs, cancelled, todo, initial, csv, rows, res, channel, completed, sink>>

CloseResults ==
    /\ phase = "close"
    /\ phase' = "join"
    /\ UNCHANGED <<opts, runs, cancelled, todo, initial, csv, rows, work, sink>>

\* writerWg.Wait.
Join ==
    /\ phase = "join" /\ ~writer
    /\ phase' = "save"
    /\ UNCHANGED <<opts, runs, cancelled, todo, initial, csv, rows, work, sink>>

\* Run has returned: what its workers still do, nobody sees.
Abandoned ==
    job' = [ip \in IPs |-> "none"] /\ res' = [ip \in IPs |-> Nothing] /\ channel' = <<>>

\* The results are merged, and saveResultsToCSV prepares the rows and truncates
\* the file. It leaves the file alone when there are none or when it fails.
PrepareRows ==
    /\ phase = "save"
    /\ \/ /\ Combined # Empty
          /\ rows' = Combined /\ csv' = Empty /\ phase' = "write"
          /\ UNCHANGED <<job, res, channel>>
       \/ /\ phase' = "idle"
          /\ Abandoned
          /\ UNCHANGED <<csv, rows>>
    /\ UNCHANGED <<opts, runs, cancelled, todo, initial, completed, sink>>

\* It writes the rows. The speeds are read from the results, which a worker that
\* nobody waited for may have changed after the errors were copied.
WriteRows ==
    /\ phase = "write"
    /\ csv' = [ip \in DOMAIN rows |->
                 IF ip \in got THEN [res[ip] EXCEPT !.error = rows[ip].error] ELSE rows[ip]]
    /\ phase' = "done" /\ rows' = Empty
    /\ Abandoned
    /\ UNCHANGED <<opts, runs, cancelled, todo, initial, completed, sink>>

\* The user or a timeout cancels the scan. Queued tasks will not run any more.
Cancel ==
    /\ Running /\ ~cancelled
    /\ cancelled' = TRUE
    /\ job' = [ip \in IPs |-> IF job[ip] = "queued" THEN "none" ELSE job[ip]]
    /\ UNCHANGED <<phase, opts, runs, todo, initial, csv, rows, res, channel, completed, sink>>

\* The process ends.
Crash ==
    /\ Running
    /\ phase' = "idle" /\ cancelled' = TRUE /\ todo' = 0 /\ initial' = Empty /\ rows' = Empty
    /\ Abandoned
    /\ completed' = 0 /\ writer' = FALSE /\ got' = {} /\ batch' = <<>> /\ failed' = FALSE
    /\ UNCHANGED <<opts, runs, csv, db>>

-----------------------------------------------------------------------------
(* Workers *)

Begin(ip) ==
    /\ job[ip] = "queued"
    /\ Cardinality({i \in IPs : job[i] \in {"busy", "send"}})
         < IF phase = "speed" THEN SpeedtestConcurrency ELSE ThreadCount
    /\ job' = [job EXCEPT ![ip] = "busy"]
    /\ UNCHANGED <<main, res, channel, completed, sink>>

\* The worker has its result and comes to the select.
Measured(ip) ==
    /\ job[ip] = "busy"
    /\ res' \in {[res EXCEPT ![ip] = r] :
                   r \in IF res[ip] = Nothing THEN scanIPForLatency(ip) ELSE measureSpeed(res[ip])}
    /\ job' = [job EXCEPT ![ip] = "send"]
    /\ UNCHANGED <<main, channel, completed, sink>>

\* The deferred notifyIPScanned of the latency phase.
Counted(ip) == IF ip \in got THEN completed ELSE completed + 1

\* workerResultsChan has room.
Send(ip) ==
    /\ job[ip] = "send" /\ phase \in {"latency", "wait", "choose", "speed", "close"}
    /\ Len(channel) < 2 * ThreadCount
    /\ channel' = Append(channel, ip)
    /\ job' = [job EXCEPT ![ip] = "none"] /\ completed' = Counted(ip)
    /\ UNCHANGED <<main, res, sink>>

\* ctx is done, or the send panics on the closed channel and the pool recovers.
GiveUp(ip) ==
    /\ job[ip] = "send" /\ cancelled
    /\ job' = [job EXCEPT ![ip] = "none"] /\ completed' = Counted(ip)
    /\ UNCHANGED <<main, res, channel, sink>>

-----------------------------------------------------------------------------
(* The writer *)

\* Faulty variant: a stored row is not overwritten.
saveKeepsOld(b, ok) ==
    /\ batch' = IF opts.db THEN <<>> ELSE b
    /\ db' = IF opts.db /\ ok THEN Overwrite([ip \in Range(b) |-> DbRow(res[ip])], db) ELSE db
    /\ failed' = (failed \/ (opts.db /\ b # <<>> /\ ~ok))

\* saveToDB: the batch b is forgotten even when the database refuses it.
saveToDB(b, ok) ==
    /\ IF ~opts.db \/ b = <<>> THEN batch' = b /\ UNCHANGED <<db, failed>>
       ELSE /\ batch' = <<>>
            /\ IF ok
               THEN /\ db' = UpsertCfScanResultsBatch([ip \in Range(b) |-> DbRow(res[ip])])
                    /\ UNCHANGED failed
               ELSE failed' = TRUE /\ UNCHANGED db

\* Without SaveToDB the batch only grows; its length then says nothing.
Batched(ip) == IF opts.db THEN Append(batch, ip) ELSE batch

\* A result is taken, and shown when the progress channel has room.
WriterTake(ok) ==
    /\ writer /\ channel # <<>>
    /\ channel' = Tail(channel)
    /\ got' = got \cup {Head(channel)}
    /\ LET b == Batched(Head(channel)) IN
       IF Len(b) >= saveBatchSize THEN saveToDB(b, ok) ELSE batch' = b /\ UNCHANGED <<db, failed>>
    /\ UNCHANGED <<main, job, res, completed, writer>>

WriterTick(ok) ==
    /\ writer /\ batch # <<>>
    /\ saveToDB(batch, ok)
    /\ UNCHANGED <<main, work, writer, got>>

\* Faulty variant: the closed channel is not noticed.
WriterStopOnCancel(ok) ==
    /\ writer /\ cancelled
    /\ saveToDB(batch, ok)
    /\ writer' = FALSE
    /\ UNCHANGED <<main, work, got>>

\* ctx is done, or the channel is closed and empty.
WriterStop(ok) ==
    /\ writer
    /\ cancelled \/ (phase = "join" /\ channel = <<>>)
    /\ saveToDB(batch, ok)
    /\ writer' = FALSE
    /\ UNCHANGED <<main, work, got>>

-----------------------------------------------------------------------------
Next ==
    \/ \E o \in UNION Range(Options) : Start(o)
    \/ SubmitSubnet \/ EndSubmit \/ Wait \/ ChooseForSpeed \/ CloseResults \/ Join \/ PrepareRows \/ WriteRows
    \/ Cancel \/ Crash
    \/ \E ip \in IPs : Begin(ip) \/ Measured(ip) \/ Send(ip) \/ GiveUp(ip)
    \/ \E ok \in BOOLEAN : WriterTake(ok) \/ WriterTick(ok) \/ WriterStop(ok)

\* The threads run, and requests, dials and saves end.
Fairness ==
    /\ WF_vars(SubmitSubnet \/ EndSubmit \/ Wait \/ ChooseForSpeed \/ CloseResults \/ Join \/ PrepareRows \/ WriteRows)
    /\ \A ip \in IPs : WF_vars(Begin(ip) \/ Measured(ip) \/ Send(ip) \/ GiveUp(ip))
    /\ WF_vars(\E ok \in BOOLEAN : WriterTake(ok) \/ WriterStop(ok))

Spec == Init /\ [][Next]_vars
FairSpec == Spec /\ Fairness
-----------------------------------------------------------------------------
(* Properties *)

\* The file a scan leaves: every result it took, and every result it resumed
\* from, unchanged. A scan that nothing interrupted has all addresses in the file
\* and has reported each of them as scanned, once.
FinalFile ==
    phase = "done" =>
        /\ got \subseteq DOMAIN csv
        /\ \A ip \in DOMAIN initial : ip \in DOMAIN csv /\ csv[ip] = initial[ip]
        /\ ~cancelled => DOMAIN csv = IPs /\ completed = Cardinality(IPs)

\* The batches saved on the way and the file written at the end tell the same of
\* every address, although results change after they were saved: which addresses
\* failed, and of the others the latency and no speed less. The database is behind
\* only when a save failed or the scan was interrupted.
DbAgrees ==
    (phase = "done" /\ opts.db /\ ~cancelled /\ ~failed) =>
        \A ip \in got :
            /\ ip \in DOMAIN db /\ db[ip].error = csv[ip].error
            /\ csv[ip].error = "" =>
                 db[ip].latency = csv[ip].latency /\ (csv[ip].down => db[ip].down) /\ (csv[ip].up => db[ip].up)

\* A scan ends: no worker waits for the writer that waits for the main thread
\* that waits for the workers, cancelled or not.
ScanEnds == Running ~> ~Running
=============================================================================
