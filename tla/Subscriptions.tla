---------------------------- MODULE Subscriptions ----------------------------
(***************************************************************************)
(* Subscriptions and their configs in the database: the commands that add, *)
(* change and remove a subscription, and the fetch command, whose workers  *)
(* download lists and store their links while the other commands run.      *)
(* Each command is a process of its own; SQLite makes each statement, and  *)
(* the transaction of an upsert, one step.                                 *)
(***************************************************************************)
EXTENDS Naturals, Sequences, FiniteSets

CONSTANTS
    Urls, Links,
    Replies,     \* what a server can answer
    MaxBytes, MaxLinks, Workers,
    MaxId,       \* bound: subscriptions ever added
    MaxFetches   \* bound: fetch commands

NoSub == 0   \* NULL, the subscription_id of a one-off fetch
Blank == ""
Junk == "no share link"
Reply == [kind : {"error", "notModified", "body"}, size : Nat, encoding : {"plain", "base64", "other"},
          lines : Seq(Links \cup {Blank, Junk})]

ASSUME SubscriptionsAssumption ==
    /\ Replies \subseteq Reply /\ Blank \notin Links /\ Junk \notin Links
    /\ {MaxBytes, MaxLinks, Workers, MaxId, MaxFetches} \subseteq Nat \ {0}

VARIABLES
    subs,     \* the table subscriptions: id -> url, enabled, fetched (last_fetched_at is set)
    lastId,   \* the last id that AUTOINCREMENT gave
    configs,  \* the table subscription_configs: config_link -> subscription_id
    fetch,    \* the fetch command: idle, running, or its exit: ok, error
    fetches,  \* fetch commands so far
    task,     \* per url: the task of the fetch command
    allConfigs, \* the links of the tasks that are done
    file,     \* the links in the file of --out, which outlives the command
    \* History, for the properties:
    hadUrls,  \* id -> the urls the subscription has had
    savedFor, \* config_link -> the last subscription that stored it, and the url it came from
    removed,  \* links removed since the fetch command began
    before    \* the file as the fetch command found it
tables == <<subs, lastId, configs>>
command == <<fetch, fetches, task, allConfigs, file>>
history == <<hadUrls, savedFor, removed, before>>
vars == <<tables, command, history>>

NoReply == [kind |-> "error", size |-> 0, encoding |-> "other", lines |-> <<>>]
NoTask == [state |-> "none", sub |-> NoSub, reply |-> NoReply]
States == {"none", "queued", "downloading", "downloaded", "stored", "done", "failed"}

TypeOK ==
    /\ lastId \in 0..MaxId /\ DOMAIN subs \subseteq 1..lastId
    /\ \A id \in DOMAIN subs : subs[id] \in [url : Urls, enabled : BOOLEAN, fetched : BOOLEAN]
    /\ DOMAIN configs \subseteq Links /\ \A l \in DOMAIN configs : configs[l] \in {NoSub} \cup DOMAIN subs
    /\ fetch \in {"idle", "running", "ok", "error"} /\ fetches \in 0..MaxFetches
    /\ \A u \in Urls : task[u].state \in States /\ task[u].sub \in 0..lastId /\ task[u].reply \in Replies \cup {NoReply}
    /\ allConfigs \subseteq Links /\ file \subseteq Links

-----------------------------------------------------------------------------
(* The tables *)

NextId == lastId + 1

UsedUrls == {subs[id].url : id \in DOMAIN subs}

\* A duplicate url is refused.
AddSubscription(url) ==
    /\ lastId < MaxId /\ url \notin UsedUrls
    /\ subs' = [id \in DOMAIN subs \cup {NextId} |->
                  IF id = NextId THEN [url |-> url, enabled |-> TRUE, fetched |-> FALSE] ELSE subs[id]]
    /\ lastId' = lastId + 1
    /\ hadUrls' = [hadUrls EXCEPT ![NextId] = {url}]
    /\ UNCHANGED <<configs, command, savedFor, removed, before>>

\* The update command changes the url, whether it is enabled, or both.
UpdateSubscription(id, url, enabled) ==
    /\ id \in DOMAIN subs /\ <<url, enabled>> # <<subs[id].url, subs[id].enabled>>
    /\ url = subs[id].url \/ url \notin UsedUrls
    /\ subs' = [subs EXCEPT ![id].url = url, ![id].enabled = enabled]
    /\ hadUrls' = [hadUrls EXCEPT ![id] = @ \cup {url}]
    /\ UNCHANGED <<lastId, configs, command, savedFor, removed, before>>

\* The foreign key deletes the configs of the subscription with it.
DeleteSubscription(id) ==
    /\ id \in DOMAIN subs
    /\ LET cascade == {l \in DOMAIN configs : configs[l] = id} IN
       /\ subs' = [i \in DOMAIN subs \ {id} |-> subs[i]]
       /\ configs' = [l \in DOMAIN configs \ cascade |-> configs[l]]
       /\ removed' = removed \cup cascade
    /\ UNCHANGED <<lastId, command, hadUrls, savedFor, before>>

\* Faulty variant: a one-off fetch takes the link from its subscription.
UpsertedNoCoalesce(links, sub) ==
    [l \in DOMAIN configs \cup links |-> IF l \in links THEN sub ELSE configs[l]]

\* The configs after UpsertSubscriptionConfigs: a link that is stored already
\* goes to the new subscription, and stays where it is after a one-off fetch.
Upserted(links, sub) ==
    [l \in DOMAIN configs \cup links |->
       IF l \in links /\ (sub # NoSub \/ l \notin DOMAIN configs) THEN sub ELSE configs[l]]

\* What the proxy runs on when no link is given.
GetConfigsForProxy == {l \in DOMAIN configs : configs[l] \in {id \in DOMAIN subs : subs[id].enabled}}

-----------------------------------------------------------------------------
(* Downloading a list *)

Failure == [ok |-> FALSE, links |-> {}]

\* A document without a line has no links, whatever its encoding.
Decode(r) ==
    LET lines == {i \in DOMAIN r.lines : r.lines[i] # Blank} IN
    IF \/ r.size > MaxBytes
       \/ lines # {} /\ r.encoding = "other"
       \/ \E i \in lines : r.lines[i] = Junk
       \/ Cardinality(lines) > MaxLinks
    THEN Failure
    ELSE [ok |-> TRUE, links |-> {r.lines[i] : i \in lines}]

\* An unchanged list (304) has no links either: no earlier ones are kept. A
\* status other than 2xx is an error.
Fetch(r) ==
    CASE r.kind = "body"        -> Decode(r)
      [] r.kind = "notModified" -> [ok |-> TRUE, links |-> {}]
      [] OTHER                  -> Failure

\* Every link is kept: one that no core can parse has an unknown protocol.
parseLinks(u) == Fetch(task[u].reply).links

-----------------------------------------------------------------------------
(* The fetch command *)

Init ==
    /\ subs = <<>> /\ lastId = 0 /\ configs = <<>>
    /\ fetch = "idle" /\ fetches = 0 /\ task = [u \in Urls |-> NoTask] /\ allConfigs = {} /\ file = {}
    /\ hadUrls = [id \in 1..MaxId |-> {}]
    /\ savedFor = [l \in Links |-> [sub |-> NoSub, url |-> Blank]] /\ removed = {} /\ before = {}

\* A fetch command with the given tasks begins. The file an earlier one wrote stays.
BeginFetch(tasks) ==
    /\ fetch # "running" /\ fetches < MaxFetches
    /\ tasks # [u \in Urls |-> NoTask]
    /\ fetch' = "running" /\ fetches' = fetches + 1 /\ task' = tasks /\ allConfigs' = {} /\ removed' = {} /\ before' = file
    /\ UNCHANGED <<tables, file, hadUrls, savedFor>>

TaskFor(sub) == [state |-> "queued", sub |-> sub, reply |-> NoReply]

\* --all: the subscriptions that are enabled now.
fetchAllSubscriptions ==
    BeginFetch([u \in Urls |->
        IF \E id \in DOMAIN subs : subs[id].enabled /\ subs[id].url = u
        THEN TaskFor(CHOOSE id \in DOMAIN subs : subs[id].url = u) ELSE NoTask])

\* --id: one subscription, enabled or not.
fetchById(id) ==
    /\ id \in DOMAIN subs
    /\ BeginFetch([u \in Urls |-> IF u = subs[id].url THEN TaskFor(id) ELSE NoTask])

\* --url, and --file with several urls: not linked to a subscription.
fetchUrls(urls) == BeginFetch([u \in Urls |-> IF u \in urls THEN TaskFor(NoSub) ELSE NoTask])

\* A worker takes a task.
TakeTask(u) ==
    /\ task[u].state = "queued"
    /\ Cardinality({v \in Urls : task[v].state \in {"downloading", "downloaded", "stored"}}) < Workers
    /\ task' = [task EXCEPT ![u].state = "downloading"]
    /\ UNCHANGED <<tables, fetch, fetches, allConfigs, file, history>>

\* fetchSource returns. The task fails, has nothing to store, or goes on.
fetchSource(u, r) ==
    /\ task[u].state = "downloading"
    /\ task' = [task EXCEPT ![u].reply = r,
                  ![u].state = CASE ~Fetch(r).ok                         -> "failed"
                                 [] Fetch(r).ok /\ Fetch(r).links = {}  -> "done"
                                 [] OTHER                                -> "downloaded"]
    /\ UNCHANGED <<tables, fetch, fetches, allConfigs, file, history>>

\* Faulty variant: a failed save is only reported.
SaveConfigsGoOn(u, ok) ==
    /\ task[u].state = "downloaded"
    /\ task' = [task EXCEPT ![u].state = "stored"]
    /\ LET stored == ok /\ task[u].sub \in {NoSub} \cup DOMAIN subs IN
       IF stored
       THEN /\ configs' = Upserted(parseLinks(u), task[u].sub)
            /\ savedFor' = IF task[u].sub = NoSub THEN savedFor
                           ELSE [l \in Links |-> IF l \in parseLinks(u) THEN [sub |-> task[u].sub, url |-> u] ELSE savedFor[l]]
       ELSE UNCHANGED <<configs, savedFor>>
    /\ UNCHANGED <<subs, lastId, fetch, fetches, allConfigs, file, hadUrls, removed, before>>

\* UpsertSubscriptionConfigs. The transaction is rolled back when the database
\* stays busy, or when the subscription has been deleted since the task was made.
SaveConfigs(u, ok) ==
    /\ task[u].state = "downloaded"
    /\ IF ok /\ task[u].sub \in {NoSub} \cup DOMAIN subs
       THEN /\ configs' = Upserted(parseLinks(u), task[u].sub)
            /\ savedFor' = IF task[u].sub = NoSub THEN savedFor
                           ELSE [l \in Links |-> IF l \in parseLinks(u) THEN [sub |-> task[u].sub, url |-> u] ELSE savedFor[l]]
            /\ task' = [task EXCEPT ![u].state = "stored"]
       ELSE /\ task' = [task EXCEPT ![u].state = "failed"]
            /\ UNCHANGED <<configs, savedFor>>
    /\ UNCHANGED <<subs, lastId, fetch, fetches, allConfigs, file, hadUrls, removed, before>>

\* UpdateSubscriptionFetched, whose failure is only reported, and then the links
\* are added to allConfigs.
EndTask(u, ok) ==
    /\ task[u].state = "stored"
    /\ subs' = IF ok /\ task[u].sub \in DOMAIN subs THEN [subs EXCEPT ![task[u].sub].fetched = TRUE] ELSE subs
    /\ allConfigs' = allConfigs \cup parseLinks(u)
    /\ task' = [task EXCEPT ![u].state = "done"]
    /\ UNCHANGED <<lastId, configs, fetch, fetches, file, history>>

TasksEnded == \A u \in Urls : task[u].state \in {"none", "done", "failed"}

\* The end of a command with --out: nothing is written when there are no links;
\* a write fails before the file is opened, or after it was truncated (a link
\* that is cut short is not counted).
saveConfigsToFile(ok) ==
    IF allConfigs = {} THEN UNCHANGED file
    ELSE IF ok THEN file' = allConfigs ELSE file' \in {file} \cup SUBSET allConfigs

\* All tasks have ended (pool.StopAndWait); the file is written; the exit status
\* tells whether the write or a task failed.
EndFetch(ok) ==
    /\ fetch = "running" /\ TasksEnded
    /\ saveConfigsToFile(ok)
    /\ fetch' = IF (~ok /\ allConfigs # {}) \/ \E u \in Urls : task[u].state = "failed" THEN "error" ELSE "ok"
    /\ UNCHANGED <<tables, fetches, task, allConfigs, history>>

\* The user interrupts the command, before it writes the file or in the middle.
Interrupt ==
    /\ fetch = "running"
    /\ fetch' = "idle" /\ task' = [u \in Urls |-> NoTask] /\ allConfigs' = {}
    /\ file' \in {file} \cup IF TasksEnded /\ allConfigs # {} THEN SUBSET allConfigs ELSE {}
    /\ UNCHANGED <<tables, fetches, history>>

-----------------------------------------------------------------------------
Next ==
    \/ \E u \in Urls : AddSubscription(u)
    \/ \E id \in DOMAIN subs : \/ \E u \in Urls, e \in BOOLEAN : UpdateSubscription(id, u, e)
                               \/ DeleteSubscription(id)
                               \/ fetchById(id)
    \/ fetchAllSubscriptions
    \/ \E urls \in SUBSET Urls : fetchUrls(urls)
    \/ \E u \in Urls : \/ TakeTask(u)
                       \/ \E r \in Replies : fetchSource(u, r)
                       \/ \E ok \in BOOLEAN : SaveConfigs(u, ok) \/ EndTask(u, ok)
    \/ \E ok \in BOOLEAN : EndFetch(ok)
    \/ Interrupt

Spec == Init /\ [][Next]_vars
-----------------------------------------------------------------------------
(* Properties *)

\* The proxy is given exactly the links whose last subscription to store them
\* still exists and is enabled, and each of them came from a url that this
\* subscription has had: neither one-off fetches, nor a fetch that was on its way
\* when its subscription was removed, nor a new subscription in its place change
\* whose links they are.
ServedSound ==
    /\ GetConfigsForProxy =
         {l \in Links : savedFor[l].sub \in {id \in DOMAIN subs : subs[id].enabled}}
    /\ \A l \in GetConfigsForProxy : savedFor[l].url \in hadUrls[configs[l]]

\* What the fetch command tells: every link it collected is in the database,
\* unless a subscription was removed meanwhile; it collected all links of every
\* list that did not fail; and the exit status is an error when some list is
\* missing or the file is. Nothing is taken from a list that is not whole. The
\* file has what this command collected, and what was there before when it
\* collected nothing, even if it exits without an error; after a failed write it
\* has links of the one or of the other, never of both.
ReportTruthful ==
    /\ allConfigs \subseteq DOMAIN configs \cup removed
    /\ fetch \in {"ok", "error"} =>
         /\ allConfigs = UNION {parseLinks(u) : u \in {v \in Urls : task[v].state = "done"}}
         /\ file = before \/ (allConfigs # {} /\ file \subseteq allConfigs)
    /\ fetch = "ok" =>
         /\ allConfigs \in {{}, file}
         /\ \A u \in Urls : task[u].state # "none" =>
              task[u].reply.kind = "notModified"
                \/ \A i \in DOMAIN task[u].reply.lines : task[u].reply.lines[i] \in allConfigs \cup {Blank}
=============================================================================
