# xray-knife: a verification project

xray-knife finds working proxy configs (VLESS, VMess, Trojan, ... links), tests
them, and runs a local proxy through them, from the command line or behind a web
UI. This directory models the parts whose correctness depends on order, failure
and concurrency, in TLA+. The small instances are checked with TLC, and the main
safety properties are proved with TLAPS for every value of the constants.

## The system

| Part | Source | State it keeps | Hard behaviour |
|---|---|---|---|
| Pool rotation | `pkg/proxy/service.go` `runRotationMode`, `findAndStartWorkingConfig`, `recordStrike`, `healthCheck` | current instance, last link, status, health counter, blacklist | port hand-over, failures of candidates one after the other, cancellation anywhere |
| Single and chain modes | `pkg/proxy/service.go` `runSingleMode`, `runFixedChainMode`, `runChainNoRotation`, `runChainExitRotation`, `runChainFullRotation`; `pkg/proxy/chain.go` | current instance, active chain, fixed hops, last exit | the same, with probe instances and retry budgets |
| Host tunnel and app mode | `runHostTunMode`, `runAppMode`, `hosttun/`; `runService` in `cmd/proxy/shared.go` | TUN device, deadman switch, readers of the terminal | a timer, a prompt, a signal and the end of the inner runner race |
| Service construction and OS state | `New`, `Close`, `setupAppMode`; `sysproxy/`, `netns/` | system proxy settings and state file, namespace and state file | crash recovery, partial set-up |
| Web service runners | `web/services.go`, `web/service_manager.go`, `web/server.go` | state, current service, cancel function, WaitGroup | Start/Stop/shutdown interleavings, unlocked reads |
| Event hub and SSE | `web/hub.go`, `handleSSE` in `web/server.go` | clients, channels | closing of channels, full buffers |
| HTTP tester | `pkg/http/`, `cmd/http/http.go`, `HttpTestRunner` in `web/services.go` | worker pool, results channel, batch, files and tables | early stop, interrupts, a consumer that leaves before its producers |
| Cloudflare scanner | `pkg/scanner/scanner.go`, `CfScannerRunner` in `web/services.go` | result map, batch, resume set | two phases over one channel, results that change after they were saved, crash and resume |
| Subscriptions, database | `cmd/subs/fetch.go`, `pkg/subscription/`, `database/` | SQLite tables | concurrent fetches, other commands meanwhile, partial failure |
| Cores and protocols | `pkg/core/` | the protocol object, which builds write to | two cores, two parsers, many builds of one object |
| CLI, auth, API plumbing, frontend, utilities | `cmd/`, `web/`, `utils/` | flags, tokens, UI store | - |

How they interact: the CLI (`runService`) or the web runner builds a
`proxy.Service` with `New`, which may change the system proxy, and calls `Run` in
one goroutine; `Run` enters a mode, which builds core instances that all listen
on the same inbound port and asks the HTTP tester for working links; `Close`
gives the OS state back. The links come from flags, files or the subscription
tables, and a core makes outbounds of them. Runners report through the hub, which
fans messages out to SSE handlers. `PROJECT.json` lists every component, also
those not modelled, and every hazard at its line.

What makes each part correct: at most one instance owns the port and none is
leaked; the status never claims more than what serves; a cancelled runner
returns; broken links leave the pool and working ones come back; a captured host
is let go; the web runner keeps one run, closes the service it opened and never
exits with changed system settings; the hub never panics and never reorders or
skips; tests and scans end, and what they leave in files and tables is complete
and consistent; the proxy is served the links of the subscriptions it should be;
a link means the same connection to everybody who uses it.

## Modules

| Module | Models |
|---|---|
| `Listener` | The promise about the inbound port: one listener at a time, closed for good once the runner returned. |
| `Rotation` | The rotation loop, one action per step of `findAndStartWorkingConfig` and per case of the wait loop's select. Refines `Listener`. |
| `RunModes` | The five other modes; the mode is picked in `Init`, as `Run` and `runChainMode` do. Refines `Listener`. |
| `Tunnel` | `Run`, `runAppMode` and `runHostTunMode` around a runner of `RunModes`, with `runService` and the terminal. |
| `ProxyRunner` | `ProxyServiceRunner` with `BaseService.Stop` and `ServiceManager.Close`. |
| `Hub` | The hub goroutine, `Broadcast` and the SSE handlers. |
| `OsState` | `New`, `setupAppMode` and `Close` with `sysproxy` and `netns`: several processes, killed anywhere. |
| `Links`, `XrayLinks`, `SingboxLinks` | Share links; parsers, outbounds and inbounds of each core, as operators. |
| `LinkUse` | What is done with links: builds from one object, deduplication, listeners and their links, chains. |
| `Scanner` | A Cloudflare scan: main thread, workers, writer, database and file, cancellation, crash, resumption. |
| `Tester` | The HTTP tester behind the command line and behind the web server. |
| `Subscriptions` | The subscription tables, the commands that change them, and the fetch command. |
| `MC*` | Small instances for TLC. |
| `RotationProofs`, `RunModesProofs`, `WebProofs`, `OsStateProofs`, `ScannerProofs`, `TesterProofs`, `SubscriptionsProofs`, `LinkUseProofs` | Theorems about the module each is named after (`RunModesProofs`: about `RunModes` and `Tunnel`; `WebProofs`: about `ProxyRunner` and `Hub`). |

Definitions marked "Faulty variant" stand beside the correct one; they are
plausible bugs, used to see that the properties notice them.

### Rotation

`pc` is the position of the goroutine: `search` (the candidates are chosen),
`testing` (inside `RunTests`), `try` (between two candidates), `release` (inside
`releaseOld`, the drain included), `start` (before `instance.Start`), `wait` (the
select), `done`. `inst[l]` is the life of the instance built from link `l`, and
`cur` is `currentInstance`. The time of a ban is abstracted to how it compares with the clock
(`zero`, `future`, `past`), because `now.After` of an unset time is true. The
network is the constant `Outcomes`: for each link, what a test, `MakeInstance`,
`Start` and a health check may answer. After cancellation any of those that uses
the context may fail as well. Strikes saturate at the threshold since the code
never tells larger counts apart.

### RunModes

A route is a sequence of links: length one in single mode, a chain otherwise.
`insts` is the set of live instances as (route, state) with state `probe`, `made`
or `listening`, because a full rotation may pick the chain it already runs. Which
links parse (`parsable`) is chosen in `Init` and never changes. A probe, a build,
a start or a health check may end either way at any time.

### Tunnel

`at` is the position of the thread that called `Run`: `listen` (waiting for
`proxyReady` or the runner's end), `setup`, `deadman`, `shell`, `serve` and `stop`
(both wait for `errCh`), `returned`, `closed`. In the mode `plain` the runner is
all there is. `ctx` is the context of `runService`, `cancelled` that of the runner.
What `BuildExcludes` puts on its list matters here only in one respect: whether
the connection of the terminal still works once the device captures the host
(`ssh`). While it does not, nobody can press ENTER. ENTERs are not addressed to a
reader: the goroutine of the deadman switch and the rotation reader both read the
standard input, and either may get one.

### ProxyRunner

Every accepted `Start` gets a number that names both the goroutine and the
`proxy.Service` created for it. The goroutine reaches its service through
`p.service`, read without the lock and overwritten by a later `Start`, so the
model keeps the two apart (`exec`, `held`). `held` is the set of services that
have changed OS state and not given it back. `ServiceManager.Close` reads the state
twice, each time under its own lock (`CloseLooks`, `CloseLooksAgain`), and a Start may
come in at any time until the exit; `atSignal` remembers how far each run was when the
shutdown began. Two constants describe the
environment: `Concurrent` (clients send requests while others are unanswered; the
UI does not, it disables its buttons) and `GraceSuffices` (requests end within
the three seconds that `Shutdown` waits).

### Hub

Registration and unregistration are unbuffered channels, so the handler and the
hub meet in one step. Messages are numbered by `Broadcast` calls. `log`, `joined` and
`got` are history variables that only the properties read.

### OsState

A process goes through the phases of `New`, `setupAppMode` and `Close` (`pc`); it
may be killed in any of them (`Crash`), and pids are not reused. The desktop
settings are `NumKeys` keys written one by one in the order of `Set`. A key holds
nothing, the desktop's default, a value of the user's, or the address of a
process. `Restore` gives an empty key its default, except the keys of
`SkipEmpty`, which it leaves alone; `SetsDefault` are the keys to which `Set`
writes the default anyway. On GNOME that is `ignore-hosts` in both cases, which
is what `DesktopAssumption` says; KDE does not satisfy it, since `Restore` skips
every empty proxy key there and the address of the dead proxy stays in it.
`SaveState` of `sysproxy` writes in place, so a kill can tear the file;
`SaveState` of `netns` renames. Reading the owner, checking that it is dead, and
the removals of `RecoverFromCrash` are separate steps. A namespace has the name that
the user gave (`Given`, which several processes may share) or, without `--namespace`,
one made of the pid; a veth pair always has the latter. `NewNamed` fails on a name that
exists (`NamespaceTaken`). Any removal may fail, and what follows happens all the same
(`RemovalFails`). A key that cannot be read is recorded as empty (`Get`). `linked` are the
processes whose inbound link names a listen address other than the flags: they listen
there, and `Set` is given the flags (`Listening`, `SetValue`).

`overlapped`, `failed` and `refused` record that two processes were alive at once, that a
desktop read or write failed, and whose namespace or veth pair could not be removed. The properties about settings assume neither (`Orderly`):
the state file does not say whose it is, so a second process undoes the settings
of a live one, and `Close` and `New` remove the file after a failed `Restore` or
`Set`. `NamespaceKept` assumes nothing of the kind of a namespace named after the pid;
of a given name it is about processes in turn ("Known deviations" says why).

### Links and LinkUse

A link (`Link`) is a record of its decoded parts: scheme, credentials, host, port,
options. A VMess link has no password, and its `mtu` stands for the `aid` that other links
do not have. Strings are members of `Text` and stand for
classes of strings, told apart where some parser tells them apart: a host with a
bracket or an underscore, a port beyond 16 bits or with leading zeros, a path by its
leading slashes; `"empty"` is the empty string. `TextAssumption` says that the words the
program itself writes are among them. `XrayLinks` and
`SingboxLinks` have one operator per `Parse`, per outbound builder and per inbound
builder. What a builder writes to its object is `AfterBuild` and `AfterInbound`.
`LinkUse` makes a choice at the beginning (`task`): create an object from a link
and build from it up to `MaxBuilds` times; run `DeduplicateLinks` or
`SemanticDeduplicateLinks` over a sequence, one link per step; make a listener
from flags or from a link, print its link and build it at every rotation; make a
chain. The fingerprint is the record of what `canonicalURI` and `canonicalVMess`
keep, hashing being taken as injective. The records keep every field that some parser,
builder or fingerprint reads, also where a single property looks at few of them:
`DedupFaithful` and `RebuildStable` compare whole objects and outbounds, and a field that
is left out is one they could not miss.

### Scanner

A result is a pointer in the code: the channel, the batch and the map hold
addresses here, and `res` the object of each. This matters, because the speed test
writes to results that were saved before, and because `saveResultsToCSV` copies the
errors before it writes the rows, while a worker nobody waited for goes on
writing. An address is a number that stands for its latency. `group.Wait` of the
pool library returns at once when the context is done, without waiting for the
tasks that run; that is taken from its use in `src/` and marked in the action `Wait`.
A worker that sends on the closed channel panics and the pool recovers it
(`GiveUp`). `Crash` leaves the database and the file, the latter possibly empty
between `PrepareRows` and `WriteRows`.

### Tester

`opts` says which front end runs: the command line with its pre-scan, early stop
(`--max-passed`), file types and sorted output, or the web server with its
consumer, which leaves as soon as the run is cancelled. The result of an
examination is drawn from the grades that the outcomes of a panel of endpoints
can give (`Grades`), shortened by a cancellation. A web run that cannot be recorded in
the database goes on without rows (`CreateHttpTestRun`). The write to the file and the one to
the database fail together here.

### Subscriptions

Commands are processes: `subs add`, `update`, `rm` and `fetch` may interleave, with
SQLite making a statement or a transaction one step. A fetch works on the
subscriptions as it read them when it began. A save fails when the database
stays busy, and when its subscription is gone (the foreign key). A reply is
what a server can answer: an error, 304, or a body with a size, an encoding and
lines. `allConfigs` is what the command has collected and `file` the output file: it is
written at the end, and only if there is something to write, so that an older file
stays otherwise; a write may fail halfway (`saveConfigsToFile`). `hadUrls`, `savedFor`,
`removed` and `before` (the file as the command found it) are history variables.

## Runs

| Run | Checks | Shows |
|---|---|---|
| `rotation` | `LoopSound`, `PortFreeAtStart`, `IdleIsServing`, `DownOnlyForReplacement`, `ImplementsListener`, `LoopProgresses`, `Recovers` | Safety, refinement and liveness; four links, two that always work and two that may do anything, two strikes, batches of two. |
| `rotation_stall` (violation) | `Recovers` | With two links, one working, a failed hand-over is never repaired. |
| `rotation_strikes` (violation) | `BrokenLeavesPool` | At three strikes a link that always fails is tested for ever. |
| `run_modes` | `RunnerSound`, `RotationSound`, `ImplementsListener`, `CancelReturns`, `DeadmanWorks`, `CaptureEnds` | All five modes, three links of which any subset parses, chains of two; bare, in the host tunnel with and without deadman switch, and under a shell. |
| `runner` | `OneLiveRun`, `OwnService`, `StateTruthful`, `UiSettles`, `RestoredOnExit`, `StopEnds` | The runner is correct for clients that wait for their answers; at the exit no run holds OS state that was running at the signal or that was stopped. |
| `runner_overlap` (violation) | `OneLiveRun` | Start during Stop: two unstopped runs. |
| `hub` | `HubSound`, `InOrderNoGap`, `DroppedLeaves` | Two clients, small channels. |
| `os_state` | `SettingsRecoverable`, `StartHeals`, `RoutedWhileRunning`, `NamespaceKept`, `OrphansRecordedInTurn` | Three processes, in turn or two at once, any modes, with and without an inbound link, with a namespace name they may share, crashes and failures. |
| `links` | `RebuildStable`, `DedupFaithful`, `CoresAgree`, `ListenerLink` | Links of every protocol in every network and spelling, through both cores. |
| `scanner` | `FinalFile`, `DbAgrees`, `ScanEnds` | A scan with speed test and a second one that resumes from the database or the file. |
| `tester` | `PrescanSound`, `ResultsKept`, `TestsEnd` | Three links, two of them behind one endpoint, through both front ends. |
| `subscriptions` | `ServedSound`, `ReportTruthful` | Two urls with overlapping lists, two fetch commands, two ids. |

The three violations are described under "findings" in `PROJECT.json`, with the line
of the source that says otherwise.

**Bounds.** Rotation needs a link that serves, one that fails and one that replaces it,
and two working ones to recover; with batches of two, both links of a batch may fail.
That all links are banned cannot happen there; it does in the instance of the stall, which
needs exactly two links, and the proofs are about every pool. The strikes need one link
that always fails and the default threshold. The health threshold of two is the
smallest at which the counter is visible. Three links with chains of two give exit
rotation a choice and, when fewer parse, none; one ENTER is enough for two readers
to compete for it. `MaxRuns` bounds accepted Starts; three runs are needed for the
overlap. Hub channels are small enough that they fill. `OsState` needs a process
that is killed, one that recovers and one that interferes; two keys, one of each
kind, show every half-written state. The constraint
`Claimed` ends a behaviour after a failed desktop read or write, of which nothing is
claimed, and when two processes overlap of which one is not in app mode: the settings
properties are about processes in turn, and only app mode touches namespaces. `links` looks at sequences of two links, which
is all that deduplication relates, and at three builds, since a drift must repeat.
`scanner` has two addresses in two subnets, two workers and batches of two: one
result can be saved early, one late, one not at all, and one address can be left
for the resumed scan; a third, unusable CIDR is skipped. `tester` has two workers
for three links, so that one link waits while the run is stopped, and one retry.
`subscriptions` needs a second id for an owner that replaces a removed one, and two
fetches for a one-off fetch of a link that has an owner and for a file left by an
earlier command; its urls, and the pids of `OsState`, are interchangeable, which the runs
use as a symmetry. Runs whose processes end
(pids, scans, ids run out) do not check deadlock.

**Fairness.** `Rotation` and `RunModes` assume that the goroutine is scheduled
(weak fairness of its own steps; every network call has a timeout), that timers
fire, that the clock passes the end of a ban, and that a select finding the
context done takes that case sooner or later (Go picks among ready cases at
random). In `Rotation` a link that is a candidate again and again is in a batch
again and again, since the pool is shuffled. `Tunnel` adds that a set-up ends, that the
deadman's timer fires, and that a cancelled context kills the shell; nothing is
assumed of the user, who need not press ENTER nor leave the shell. No fairness is given to
health checks or to network outcomes. `ProxyRunner` assumes scheduling, and that
`service.Run` returns once cancelled, which is `CancelReturns` of the modes.
`Hub` assumes scheduling and a connection that takes data. `Scanner` and `Tester`
assume that the main thread, each worker and the writer are scheduled, and that a
request, a dial or a save ends, as their timeouts provide; nothing makes the
user cancel, and no save has to succeed.

## Proofs

`RotationProofs` proves, for every pool, threshold, batch size and network
behaviour, `LoopSound` (the type invariant and `NoOrphan`), `PortFreeAtStart`,
`IdleIsServing`, `DownOnlyForReplacement`, and that `Rotation` implements
`Listener`. The assumptions are `PoolAssumption` (a finite pool of at least two
links) and `ConfigAssumption` (the types of the settings).

None of these is inductive alone. The inductive invariant `IInv` adds:
`InstancesInv` (the current instance listens, the candidate is built but not
started, nothing else exists); `HandoverInv` (who may hold the port in each
phase, and that a search never considers the link that may still hold it: without
this the candidate's state could overwrite the current one's); `RecordInv` (the
links a search can still bring up have no blacklist entry, which is what makes
`IdleIsServing` true of the next outbound). Each part has a lemma with one step
per action; `Inductive` joins them.

`RunModesProofs` proves `RunnerSound`, `RotationSound` and `ImplementsListener` of
`Spec` for every pool, chain length, number of attempts and network behaviour, from
`ModesAssumption`, and that `TunnelSpec => Spec` (`TunnelRunsRunner`): all that the
threads around a runner can do to it is to cancel its context, so the three
properties, which the run `run_modes` checks under the tunnel, hold there too. The
inductive invariant says who has the port at each position (`ServingInv`), that a
route under way is not the empty one that stands for the nil instance (`CandInv`),
that every chain is one `selectChainFromPool` could have returned, however it was put
together (`PoolInv`), and that with exit rotation the chain shown and the one under
way extend the same fixed hops with different exits (`ExitInv`). `RotationSound` is a
pair of action properties and follows from the invariant step by step.

`WebProofs` proves the five invariants of the run `runner` for any number of
clients and runs. All assume `~Concurrent`, since `runner_overlap` shows that they are
false otherwise; `RestoredOnExit` assumes `GraceSuffices` too, and is about the runs that
were running at the signal or were stopped, since one that is still starting may be
missed. `RunsInv` is the heart of it:
only the last run is before its end, so the fields `p.service` and `cancelFunc` are
its own. `StateInv` relates the state to the phase of that run, `HeldInv` OS state to
the phases before the close, and `PendingInv` says that whoever cancelled a run still
waits for it, which is why no other Start comes in between.

It also proves `HubSound` of the hub, that is the type invariant, channel capacities
included, and `NoPanic`, for any number of clients and any capacities. The type
invariant is all the strengthening it needs, since `NoPanic` says both that a
channel is closed at most once and that a registered client's is open. And it
proves `InOrderNoGap`: `StreamInv` states it position by position of what a client got
followed by what its channel holds, compared with the log from its registration on,
so that no induction over the sequences is needed.

`OsStateProofs` proves every property of the run `os_state` for any set
of processes, any names and any number of keys, from `OsAssumption` and, for the settings,
`DesktopAssumption`. `NsInv` adds to `NamespaceKept` that whoever is about to
remove a namespace removes that of a pid that was used and is dead, so it cannot
be alive again when the removal comes: no removal under a pid's own name meets a live
process, whoever failed to remove what before. `SysInv` says what the one process alive
knows in each phase (`PhaseInv`: which keys are restored or set so far, whether
what it holds is like the user's), and of the file that it is like the user's
whenever it is whole and that the settings are whenever it is not (`FileInv`).
`OrphanInv` does the same for namespaces, except those that some removal was refused for. `StepFrame` carries the facts about the
other processes over every step. `os_state` was also run with these
invariants in place of the properties.

`SubscriptionsProofs` proves the type invariant and `ServedSound` for any urls,
links, replies and numbers of workers and commands, from `SubscriptionsAssumption`
(replies have the type of replies). `UrlsInv` says that a task belongs to a url
its subscription has had, whatever was changed since; `OwnersInv` that the table
and the history of saves name the same owner as long as that owner exists, and that no save is
by an id yet to be given. The last part is what AUTOINCREMENT is for: with reused
ids an old save would become a new subscription's.

`ReportTruthful` needs `ReportInv` in addition, by the state of each task: past its
download its list is whole, after its save its links are in the table unless someone
removed them, and the links collected are those of the tasks that are done; until the end
of the command the file is the one it found.

`TesterProofs` proves `PrescanSound`, and `ResultsKept` for a csv file that is not
sorted (`Plain`), for any links, endpoints, numbers of workers, retries and batch
sizes, from `TesterAssumption`. `Collected` is the part of `ResultsKept` that does not
mention the file, proved for every option. The inductive invariant says that a
link is in exactly one place, with a worker, in the channel or in the results
(`OnceInv`), that nothing gets lost without a cancellation (`TestedInv`), that an early
stop had its reason (`EnoughInv`), and that what is stored followed by the batch is
what was collected, in its order (`StoredInv`).

`ScannerProofs` proves `FinalFile` and `DbAgrees` for any subnets, workers and batch
sizes and any sequence of scans, crashes and cancellations, from `ScannerAssumption`
and `DisjointSubnets`: no address is in two subnets. The code does not merge
overlapping subnets (`scanner.go:381`), it scans and counts their addresses twice, and
the model has one task per address, so it says nothing of that case. The inductive
invariant has what is true of any scan (`FreshInv`: no address with a stored result is
scanned; `FileInv`: the rows and the file are what was resumed from and what was taken)
and what is true until something interrupts it: `LiveInv` says that every submitted
address is with a worker, in the channel or taken, `CountInv` that `completed` is the
number of those reported, and `DbInv` that a taken result is in the database as it is
now, or will get there again through a worker that is about to send it, the channel
or the batch. This last one is why a speed test may change a result that was saved.

`LinkUseProofs` proves the four properties of the run `links` for all links, flags,
lists, numbers of builds and both values of `AllowInsecure`, from `TextAssumption`,
`BoundsAssumption` and `LinksAssumption` (the links are links). Most of it is about the
operators. Each outbound and inbound is first written as one record over the fields of
its object (`XStream`, `BStream` and the lemmas after them), since neither prover sees
through updates of updates. Then:

- `OutboundRegular` and `InboundRegular`: every protocol of either core builds an
  endpoint or fails, and from the object it leaves behind it builds the same
  endpoint with one slash less (`Cut`). `RebuildsStable` is that, repeated: `UseInv`
  says of the builds so far and of the next one that they are the first less one slash
  for every build between.
- `ParseType`: what a parser returns has the credentials, host and port of its link.
  `SameIdentity` and `AlikeIdentity` relate identity to connection: links with one
  fingerprint parse to objects that differ in nothing an outbound is made of, and links
  that differ in spelling have one fingerprint. `DedupInv` says that `seen` is the set of
  identities of what was kept, each kept once, and that whatever was dropped has the
  identity of something kept.
- `LinksAgree` goes through the protocols with both parsers and both builders side by
  side. `ChainWay` computes the way through a chain of two or three hops.
- `XrayMatches` and `BoxMatches`: the inbound built from a parsed link fits the outbound
  built from it. `VlessFlagMatches` and `SocksFlagMatches`: the same of the link that is
  printed for a listener made from flags, through `GetLink` and the parser. `ListenInv`
  carries this over the rebuilds of the listener, with `InboundRegular`.

TLC checked the inductive invariants on their runs' instances, except those of `LinkUse`,
which range over infinite sets of records. The proofs showed two things TLC had not.
Proving the properties of `LinkUse` for all links brought up links that the instance then
lacked and for which earlier, stronger forms of them fail: the items on fingerprints,
`raw` networks and SOCKS passwords below. And five CASE expressions had guards that overlap. TLC takes
the first that holds, the language leaves the choice open, and the proofs did not go
through until the guards excluded each other as the order of the tests in the code does.

Only model-checked: everything under fairness (liveness is out of the prover's
reach), and that a text file or a sorted file has every result (`SelectSeq` and
`SortSeq` are defined by recursion, and what they compute needs induction over
sequences).

## Known deviations

What the code does differently from what its own words, or a reader, would
expect, beyond the three findings (`rotation_stall`, `rotation_strikes`,
`runner_overlap`). The first group contradicts a line of the repository; the models have
all of these, and the properties say what holds beside them.

- `ServiceManager.Close` reads the state twice, for running and then for starting
  (`service_manager.go:82`). A run that gets from starting to running in between is not
  stopped, and the server exits with its system proxy set, against the comment at
  `service_manager.go:80` ("so system proxy settings are restored on shutdown").
  `RestoredOnExit` is about runs that were running at the signal or were stopped. A
  service that is stopping under a slow Stop is skipped as well (`GraceSuffices`), and a
  Start that is accepted after the second look is not stopped.
- System mode hands `Set` the flags' address (`service.go:353`), not `s.config` as
  reconciled with the inbound link, although the comment at `service.go:313-315` counts
  the system proxy among the consumers that point at the right port.
  `RoutedWhileRunning` is about the address of the flags.
- A namespace is found by its name, its owner by the state file. With a shared
  `--namespace` a second process may write the file, die before it finds the name taken,
  and the recovery of a third then deletes the namespace of the first, which is alive
  (`netns_linux.go:284`, against the comment at 272). `NamespaceKept` is about names made
  of the pid, or processes in turn.
- The errors of `LinkDel` and `DeleteNamed` are dropped (`netns_linux.go:249-268`) and the
  state file is removed all the same (`service.go:570`), although `netns/state.go:89` says
  "after a successful cleanup": what could not be removed is on no record.
  `OrphansRecordedInTurn` excepts it (`refused`).
- Both cores build a chain whose first hop is the exit, whereas the comments at
  `xray/chain.go:21` and `singbox/chain.go:41` and the log at `service.go:1836` call hop
  0 the entry and the last hop the exit. `CoresAgree` says only that both pass every hop.
- A listener that is asked for TLS and has no certificate files falls back to none
  (`xray/vless.go:586`), as does every Trojan listener and every inbound link with TLS or
  REALITY (`xray/trojan.go:535`); the link that is printed still says `security=tls`, so
  a client that follows it cannot connect. Only the web page asks for the files
  (`ProxyTab.tsx:45`), neither `New` nor the API. `ListenerLink` states both halves: with
  certificates the two agree, without them the listener is plain.
- A VMess listener without an `aid`, which is every one made from flags
  (`service.go:1941`), gets `"alterId": <nil>` in its settings (`xray/vmess.go:543`) and
  cannot be built, although `cmd/proxy/inbound.go:27` offers it.

Others:

- The fetch command writes its output file only when it collected something
  (`fetch.go:263`, `353`, `378`): after lists that were not modified or empty, an older
  file stays beside an exit without error. `ReportTruthful` says so.
- Two app-mode processes share one state file (`netns/state.go:32`), and two
  processes one system proxy state; `OrphansRecordedInTurn` and `StartHeals` are
  about processes in turn.
- `Close` removes the saved settings even when `Restore` failed (`service.go:583`), and a
  key that cannot be read is recorded as empty (`sysproxy_linux.go:243`).
- A gRPC service name loses one leading slash per build from the same object
  (`xray/vless.go:387`); `RebuildStable` allows exactly that.
- The fingerprint normalises neither a port beyond 16 bits nor, without a port, the case
  of the host (`identity.go:81`), so two spellings of such a link are both kept;
  `DedupFaithful` is about links with a port of 16 bits.
- Of a network called `raw`, only the VLESS client (`xray/vless.go:308`, listener at 504)
  and only the Trojan listener (`xray/trojan.go:453`, client at 267) read the header
  settings; `ListenerLink` does not compare them.
- A SOCKS password without a user is dropped by the xray core (`xray/socks.go:137`) and
  passed on by the other; `CoresAgree` does not compare it.
- The hosts of VMess links are never excluded from the host tunnel
  (`hosttun/excludes.go:158`), and a rotation reader may take the confirming ENTER
  of the deadman switch.
- A cancelled scan stores interrupted addresses as failed, and a resumed scan does
  not test them again (`scanner.go:409`).
- `--retries` is cut to eight bits (`cmd/http/http.go:398`), so 256 means none; this and
  the excluded hosts are in no model.
- A link has one owner in the tables, so a link that two subscriptions list is not
  served once its last owner is disabled or removed (`queries.go:236`).

## Not modelled

The cores themselves, the kernel's namespaces and routes, SQLite and the network
are external. Of a link, the fields that are copied unread into a core's
configuration are left out. `setupHostTun` is one step that succeeds or not: the
list of excluded addresses needs names and routes of a real host. The progress
reporter of the web runners, pagination, authentication, logging, output formats,
flags and rendering keep no state that another part reads. Speed tests inside an
HTTP examination only add numbers to a result. Details of `healthCheck` (SOCKS or
HTTP client) are reduced to whether the check needs the local listener.

## Plan

1. Abstract specifications of the two pipelines (a set of jobs, each delivered at
   most once) that `Scanner` and `Tester` both refine, with the invariants above as the
   mapping.
2. The web runners of tester and scanner composed with `BaseService`, progress
   reporter included.
