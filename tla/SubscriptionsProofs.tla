------------------------- MODULE SubscriptionsProofs -------------------------
(***************************************************************************)
(* Whose links the proxy is served, for any lists, replies, numbers of     *)
(* workers and subscriptions, and any order of commands and fetch steps.   *)
(***************************************************************************)
EXTENDS Subscriptions, TLAPS

\* The tables, the tasks and the history have their types.
Typed ==
    /\ TypeOK
    /\ task \in [Urls -> [state : States, sub : Nat, reply : Replies \cup {NoReply}]]
    /\ hadUrls \in [1..MaxId -> SUBSET Urls]
    /\ savedFor \in [Links -> [sub : Nat, url : Urls \cup {Blank}]]

\* A task, and every subscription, has a url the subscription has had.
UrlsInv ==
    /\ \A id \in DOMAIN subs : subs[id].url \in hadUrls[id]
    /\ \A u \in Urls : task[u].sub # NoSub => u \in hadUrls[task[u].sub]

\* The table and the history of saves agree, as long as the subscription exists.
\* An id is not given twice, so what a removed one saved stays nobody's.
OwnersInv ==
    /\ \A l \in Links : savedFor[l].sub \in 0..lastId
    /\ \A l \in DOMAIN configs : configs[l] # NoSub =>
          savedFor[l].sub = configs[l] /\ savedFor[l].url \in hadUrls[configs[l]]
    /\ \A l \in Links : savedFor[l].sub \in DOMAIN subs =>
          l \in DOMAIN configs /\ configs[l] = savedFor[l].sub

IInv == Typed /\ UrlsInv /\ OwnersInv

\* fetchSource yields share links only: a list with anything else is refused.
LEMMA FetchedLinks ==
    ASSUME NEW r \in Replies \cup {NoReply}
    PROVE  Fetch(r).links \subseteq Links
<1>1. \A i \in DOMAIN r.lines : r.lines[i] \in Links \cup {Blank, Junk}
  <2>1. CASE r = NoReply
    BY <2>1 DEF NoReply
  <2>2. CASE r \in Replies
    <3> DEFINE S == Links \cup {Blank, Junk}
    <3>1. r.lines \in Seq(S)
      BY <2>2, SubscriptionsAssumption DEF SubscriptionsAssumption, Reply
    <3> HIDE DEF S
    <3>2. \A i \in DOMAIN r.lines : r.lines[i] \in S
      BY <3>1
    <3> QED
      BY <3>2 DEF S
  <2> QED
    BY <2>1, <2>2
<1>2. Decode(r).links \subseteq Links
  BY <1>1 DEF Decode, Failure
<1> QED
  BY <1>2 DEF Fetch, Failure

LEMMA InitIInv == Init => IInv
  BY SubscriptionsAssumption
  DEF SubscriptionsAssumption, Init, IInv, Typed, TypeOK, UrlsInv, OwnersInv, NoTask, NoReply, NoSub, States

-----------------------------------------------------------------------------
(* Steps that leave the tables and the history of saves alone *)

\* Only the fetch command moves on, with tasks that are sound.
LEMMA CommandStep ==
    ASSUME IInv, UNCHANGED <<subs, lastId, configs, hadUrls, savedFor>>,
           fetch' \in {"idle", "running", "ok", "error"}, fetches' \in 0..MaxFetches, allConfigs' \subseteq Links, file' \subseteq Links,
           task' \in [Urls -> [state : States, sub : Nat, reply : Replies \cup {NoReply}]],
           \A u \in Urls : task'[u].sub \in 0..lastId
                           /\ (task'[u].sub # NoSub => u \in hadUrls[task'[u].sub])
    PROVE  IInv'
  BY DEF IInv, Typed, TypeOK, UrlsInv, OwnersInv, NoSub

LEMMA BeginFetchStep ==
    ASSUME IInv, NEW tasks, BeginFetch(tasks),
           tasks \in [Urls -> [state : States, sub : Nat, reply : Replies \cup {NoReply}]],
           \A u \in Urls : tasks[u].sub \in 0..lastId
                           /\ (tasks[u].sub # NoSub => u \in hadUrls[tasks[u].sub])
    PROVE  IInv'
<1>1. fetches' \in 0..MaxFetches
  BY SubscriptionsAssumption DEF SubscriptionsAssumption, BeginFetch, IInv, Typed, TypeOK
<1> QED
  BY <1>1, CommandStep DEF BeginFetch, tables, IInv, Typed, TypeOK

\* fetchSource, TakeTask: the state or the reply of one task changes.
LEMMA TaskStep ==
    ASSUME IInv, NEW u \in Urls, NEW s \in States, NEW r \in Replies \cup {NoReply},
           task' = [task EXCEPT ![u] = [@ EXCEPT !.state = s, !.reply = r]],
           UNCHANGED <<tables, fetch, fetches, allConfigs, file, history>>
    PROVE  IInv'
<1>1. /\ task' \in [Urls -> [state : States, sub : Nat, reply : Replies \cup {NoReply}]]
      /\ \A v \in Urls : task'[v].sub = task[v].sub
  BY DEF IInv, Typed
<1>2. \A v \in Urls : task'[v].sub \in 0..lastId
                      /\ (task'[v].sub # NoSub => v \in hadUrls[task'[v].sub])
  BY <1>1 DEF IInv, Typed, TypeOK, UrlsInv
<1> QED
  BY <1>1, <1>2, CommandStep DEF tables, history, IInv, Typed, TypeOK


-----------------------------------------------------------------------------
(* Steps that change the tables *)

LEMMA AddStep ==
    ASSUME IInv, NEW url \in Urls, AddSubscription(url)
    PROVE  IInv'
<1> DEFINE new == [url |-> url, enabled |-> TRUE, fetched |-> FALSE]
<1>0. /\ lastId \in Nat /\ NextId = lastId + 1 /\ NextId \in 1..MaxId /\ NextId \notin DOMAIN subs
      /\ lastId' = lastId + 1 /\ lastId' \in 0..MaxId
  BY SubscriptionsAssumption DEF SubscriptionsAssumption, AddSubscription, NextId, IInv, Typed, TypeOK
<1>1. /\ DOMAIN subs' = DOMAIN subs \cup {NextId} /\ subs'[NextId] = new
      /\ \A id \in DOMAIN subs : subs'[id] = subs[id]
  BY <1>0 DEF AddSubscription
<1>2. /\ hadUrls' \in [1..MaxId -> SUBSET Urls] /\ hadUrls'[NextId] = {url}
      /\ \A id \in 1..MaxId : id # NextId => hadUrls'[id] = hadUrls[id]
  BY <1>0 DEF AddSubscription, IInv, Typed
<1>3. Typed'
  <2>1. DOMAIN subs' \subseteq 1..lastId'
    BY <1>0, <1>1 DEF IInv, Typed, TypeOK
  <2>2. \A id \in DOMAIN subs' : subs'[id] \in [url : Urls, enabled : BOOLEAN, fetched : BOOLEAN]
    <3>1. new \in [url : Urls, enabled : BOOLEAN, fetched : BOOLEAN]
      OBVIOUS
    <3>2. \A id \in DOMAIN subs : subs[id] \in [url : Urls, enabled : BOOLEAN, fetched : BOOLEAN]
      BY DEF IInv, Typed, TypeOK
    <3> HIDE DEF new
    <3> QED
      BY <1>1, <3>1, <3>2
  <2> QED
    BY <1>0, <1>1, <1>2, <2>1, <2>2 DEF AddSubscription, command, IInv, Typed, TypeOK
<1>4. UrlsInv'
  BY <1>0, <1>1, <1>2 DEF AddSubscription, command, IInv, Typed, TypeOK, UrlsInv, NoSub
<1>5. OwnersInv'
  BY <1>0, <1>1, <1>2 DEF AddSubscription, command, IInv, Typed, TypeOK, OwnersInv, NoSub
<1> QED
  BY <1>3, <1>4, <1>5 DEF IInv

LEMMA UpdateStep ==
    ASSUME IInv, NEW id \in DOMAIN subs, NEW url \in Urls, NEW enabled \in BOOLEAN,
           UpdateSubscription(id, url, enabled)
    PROVE  IInv'
<1>1. /\ DOMAIN subs' = DOMAIN subs
      /\ subs'[id] = [url |-> url, enabled |-> enabled, fetched |-> subs[id].fetched]
      /\ \A i \in DOMAIN subs : i # id => subs'[i] = subs[i]
  BY DEF UpdateSubscription, IInv, Typed, TypeOK
<1>2. /\ id \in 1..MaxId /\ hadUrls' \in [1..MaxId -> SUBSET Urls] /\ url \in hadUrls'[id]
      /\ \A i \in 1..MaxId : hadUrls[i] \subseteq hadUrls'[i]
  BY SubscriptionsAssumption DEF SubscriptionsAssumption, UpdateSubscription, IInv, Typed, TypeOK
<1>3. Typed'
  BY <1>1, <1>2 DEF UpdateSubscription, command, IInv, Typed, TypeOK
<1>4. UrlsInv'
  BY <1>1, <1>2, SubscriptionsAssumption
  DEF SubscriptionsAssumption, UpdateSubscription, command, IInv, Typed, TypeOK, UrlsInv, NoSub
<1>5. OwnersInv'
  BY <1>1, <1>2, SubscriptionsAssumption
  DEF SubscriptionsAssumption, UpdateSubscription, command, IInv, Typed, TypeOK, OwnersInv, NoSub
<1> QED
  BY <1>3, <1>4, <1>5 DEF IInv

LEMMA DeleteStep ==
    ASSUME IInv, NEW id \in DOMAIN subs, DeleteSubscription(id)
    PROVE  IInv'
<1>1. /\ DOMAIN subs' = DOMAIN subs \ {id} /\ \A i \in DOMAIN subs' : subs'[i] = subs[i]
      /\ DOMAIN configs' = {l \in DOMAIN configs : configs[l] # id}
      /\ \A l \in DOMAIN configs' : configs'[l] = configs[l]
      /\ UNCHANGED <<lastId, fetch, fetches, task, allConfigs, file, hadUrls, savedFor>>
  BY DEF DeleteSubscription, command
<1>2. Typed'
  BY <1>1 DEF IInv, Typed, TypeOK
<1>3. UrlsInv'
  BY <1>1 DEF IInv, UrlsInv
<1>4. OwnersInv'
  BY <1>1 DEF IInv, Typed, TypeOK, OwnersInv
<1> QED
  BY <1>2, <1>3, <1>4 DEF IInv

\* UpsertSubscriptionConfigs: the new owner and the history of saves change
\* together, and a one-off fetch changes neither of a link that is stored.
LEMMA SaveStep ==
    ASSUME IInv, NEW u \in Urls, NEW ok \in BOOLEAN, SaveConfigs(u, ok)
    PROVE  IInv'
<1> DEFINE sub == task[u].sub
           links == parseLinks(u)
<1>1. CASE UNCHANGED <<configs, savedFor>> /\ task' = [task EXCEPT ![u].state = "failed"]
  <2>1. task' = [task EXCEPT ![u] = [@ EXCEPT !.state = "failed", !.reply = task[u].reply]]
    BY <1>1 DEF IInv, Typed
  <2>2. "failed" \in States /\ task[u].reply \in Replies \cup {NoReply}
    BY DEF States, IInv, Typed
  <2> QED
    BY <1>1, <2>1, <2>2, TaskStep DEF SaveConfigs, tables, history
<1>2. CASE /\ sub \in {NoSub} \cup DOMAIN subs /\ configs' = Upserted(links, sub)
           /\ savedFor' = IF sub = NoSub THEN savedFor
                          ELSE [l \in Links |-> IF l \in links THEN [sub |-> sub, url |-> u] ELSE savedFor[l]]
           /\ task' = [task EXCEPT ![u].state = "stored"]
  <2>0. UNCHANGED <<subs, lastId, fetch, fetches, allConfigs, file, hadUrls>>
    BY DEF SaveConfigs
  <2>1. links \subseteq Links
    BY FetchedLinks DEF parseLinks, IInv, Typed
  <2>2. /\ sub \in Nat /\ sub \in 0..lastId /\ (sub # NoSub => u \in hadUrls[sub])
    BY DEF IInv, Typed, TypeOK, UrlsInv
  <2> HIDE DEF sub, links
  <2>3. /\ DOMAIN configs' = DOMAIN configs \cup links
        /\ \A l \in DOMAIN configs' :
              configs'[l] = IF l \in links /\ (sub # NoSub \/ l \notin DOMAIN configs) THEN sub ELSE configs[l]
    BY <1>2 DEF Upserted
  <2>4. /\ savedFor' \in [Links -> [sub : Nat, url : Urls \cup {Blank}]]
        /\ \A l \in Links : savedFor'[l] = IF sub # NoSub /\ l \in links THEN [sub |-> sub, url |-> u] ELSE savedFor[l]
    BY <1>2, <2>2 DEF IInv, Typed
  <2>5. /\ task' \in [Urls -> [state : States, sub : Nat, reply : Replies \cup {NoReply}]]
        /\ \A v \in Urls : task'[v].sub = task[v].sub
        /\ \A v \in Urls : task'[v].state \in States /\ task'[v].reply \in Replies \cup {NoReply}
    BY <1>2 DEF IInv, Typed, States
  <2>6. Typed'
    BY <1>2, <2>0, <2>1, <2>3, <2>4, <2>5 DEF IInv, Typed, TypeOK
  <2>7. UrlsInv'
    BY <2>0, <2>5 DEF IInv, UrlsInv
  <2>8. OwnersInv'
    <3>1. \A l \in Links : savedFor'[l].sub \in 0..lastId'
      BY <2>0, <2>2, <2>4 DEF IInv, OwnersInv
    <3>2. ASSUME NEW l \in DOMAIN configs', configs'[l] # NoSub
          PROVE  savedFor'[l].sub = configs'[l] /\ savedFor'[l].url \in hadUrls'[configs'[l]]
      <4>1. CASE sub # NoSub /\ l \in links
        BY <4>1, <2>0, <2>1, <2>2, <2>3, <2>4
      <4>2. CASE ~(sub # NoSub /\ l \in links)
        BY <4>2, <3>2, <2>0, <2>1, <2>3, <2>4 DEF IInv, Typed, TypeOK, OwnersInv
      <4> QED
        BY <4>1, <4>2
    <3>3. ASSUME NEW l \in Links, savedFor'[l].sub \in DOMAIN subs'
          PROVE  l \in DOMAIN configs' /\ configs'[l] = savedFor'[l].sub
      <4>1. CASE sub # NoSub /\ l \in links
        BY <4>1, <2>3, <2>4
      <4>2. CASE ~(sub # NoSub /\ l \in links)
        BY <4>2, <3>3, <2>0, <2>3, <2>4 DEF IInv, OwnersInv
      <4> QED
        BY <4>1, <4>2
    <3> QED
      BY <3>1, <3>2, <3>3 DEF OwnersInv
  <2> QED
    BY <2>6, <2>7, <2>8 DEF IInv
<1> QED
  BY <1>1, <1>2 DEF SaveConfigs

LEMMA EndTaskStep ==
    ASSUME IInv, NEW u \in Urls, NEW ok \in BOOLEAN, EndTask(u, ok)
    PROVE  IInv'
<1>1. /\ DOMAIN subs' = DOMAIN subs
      /\ \A i \in DOMAIN subs :
            /\ subs'[i] \in [url : Urls, enabled : BOOLEAN, fetched : BOOLEAN]
            /\ subs'[i].url = subs[i].url
  BY DEF EndTask, IInv, Typed, TypeOK
<1>2. /\ task' \in [Urls -> [state : States, sub : Nat, reply : Replies \cup {NoReply}]]
      /\ \A v \in Urls : task'[v].sub = task[v].sub
      /\ \A v \in Urls : task'[v].state \in States /\ task'[v].reply \in Replies \cup {NoReply}
  BY DEF EndTask, IInv, Typed, States
<1>3. allConfigs' \subseteq Links
  BY FetchedLinks DEF EndTask, parseLinks, IInv, Typed, TypeOK
<1>4. UNCHANGED <<lastId, configs, fetch, fetches, file, hadUrls, savedFor>>
  BY DEF EndTask, history
<1>5. Typed'
  BY <1>1, <1>2, <1>3, <1>4 DEF IInv, Typed, TypeOK
<1>6. UrlsInv' /\ OwnersInv'
  BY <1>1, <1>2, <1>4 DEF IInv, UrlsInv, OwnersInv
<1> QED
  BY <1>5, <1>6 DEF IInv

-----------------------------------------------------------------------------
(* The fetch commands *)

LEMMA FetchStep ==
    ASSUME IInv,
           \/ fetchAllSubscriptions
           \/ \E id \in DOMAIN subs : fetchById(id)
           \/ \E urls \in SUBSET Urls : fetchUrls(urls)
    PROVE  IInv'
<1> DEFINE T == [state : States, sub : Nat, reply : Replies \cup {NoReply}]
           Sound(tasks) == /\ tasks \in [Urls -> T]
                           /\ \A u \in Urls : /\ tasks[u].sub \in 0..lastId
                                              /\ tasks[u].sub # NoSub => u \in hadUrls[tasks[u].sub]
<1>0. lastId \in Nat
  BY SubscriptionsAssumption DEF SubscriptionsAssumption, IInv, Typed, TypeOK
<1>1. NoTask \in T /\ NoTask.sub = NoSub /\ NoSub \in 0..lastId
  BY <1>0 DEF NoTask, NoSub, States
<1>2. ASSUME NEW sub \in 0..lastId
      PROVE  TaskFor(sub) \in T /\ TaskFor(sub).sub = sub
  <2>1. TaskFor(sub) = [state |-> "queued", sub |-> sub, reply |-> NoReply]
    BY DEF TaskFor
  <2>2. sub \in Nat /\ "queued" \in States
    BY <1>0 DEF States
  <2> QED
    BY <2>1, <2>2
<1>3. \A id \in DOMAIN subs : id \in 0..lastId /\ subs[id].url \in hadUrls[id]
  BY <1>0 DEF IInv, Typed, TypeOK, UrlsInv
<1>4. CASE fetchAllSubscriptions
  <2> DEFINE tasks == [u \in Urls |->
                IF \E id \in DOMAIN subs : subs[id].enabled /\ subs[id].url = u
                THEN TaskFor(CHOOSE id \in DOMAIN subs : subs[id].url = u) ELSE NoTask]
  <2>1. ASSUME NEW u \in Urls
        PROVE  tasks[u] \in T /\ tasks[u].sub \in 0..lastId
               /\ (tasks[u].sub # NoSub => u \in hadUrls[tasks[u].sub])
    <3>1. CASE \E id \in DOMAIN subs : subs[id].enabled /\ subs[id].url = u
      <4> DEFINE owner == CHOOSE id \in DOMAIN subs : subs[id].url = u
      <4>1. owner \in DOMAIN subs /\ subs[owner].url = u
        BY <3>1
      <4>2. tasks[u] = TaskFor(owner)
        BY <3>1
      <4> HIDE DEF owner, tasks, T
      <4> QED
        BY <4>1, <4>2, <1>2, <1>3
    <3>2. CASE ~(\E id \in DOMAIN subs : subs[id].enabled /\ subs[id].url = u)
      <4>1. tasks[u] = NoTask
        BY <3>2
      <4> HIDE DEF tasks, T
      <4> QED
        BY <4>1, <1>1
    <3> QED
      BY <3>1, <3>2
  <2>2. tasks \in [Urls -> T]
    BY <2>1
  <2>3. BeginFetch(tasks)
    BY <1>4 DEF fetchAllSubscriptions
  <2> HIDE DEF tasks
  <2> QED
    BY <2>1, <2>2, <2>3, BeginFetchStep
<1>5. ASSUME NEW id \in DOMAIN subs, fetchById(id)
      PROVE  IInv'
  <2> DEFINE tasks == [u \in Urls |-> IF u = subs[id].url THEN TaskFor(id) ELSE NoTask]
  <2>1. Sound(tasks)
    <3> HIDE DEF T
    <3> QED
      BY <1>1, <1>2, <1>3
  <2>2. BeginFetch(tasks)
    BY <1>5 DEF fetchById
  <2> HIDE DEF tasks
  <2> QED
    BY <2>1, <2>2, BeginFetchStep
<1>6. ASSUME NEW urls \in SUBSET Urls, fetchUrls(urls)
      PROVE  IInv'
  <2> DEFINE tasks == [u \in Urls |-> IF u \in urls THEN TaskFor(NoSub) ELSE NoTask]
  <2>1. Sound(tasks)
    <3> HIDE DEF T
    <3> QED
      BY <1>1, <1>2
  <2>2. BeginFetch(tasks)
    BY <1>6 DEF fetchUrls
  <2> HIDE DEF tasks
  <2> QED
    BY <2>1, <2>2, BeginFetchStep
<1> QED
  BY <1>4, <1>5, <1>6

LEMMA TakeTaskStep ==
    ASSUME IInv, NEW u \in Urls, TakeTask(u)
    PROVE  IInv'
<1>1. task' = [task EXCEPT ![u] = [@ EXCEPT !.state = "downloading", !.reply = task[u].reply]]
  BY DEF TakeTask, IInv, Typed
<1>2. "downloading" \in States /\ task[u].reply \in Replies \cup {NoReply}
  BY DEF States, IInv, Typed
<1> QED
  BY <1>1, <1>2, TaskStep DEF TakeTask

LEMMA FetchSourceStep ==
    ASSUME IInv, NEW u \in Urls, NEW r \in Replies, fetchSource(u, r)
    PROVE  IInv'
<1> DEFINE s == CASE ~Fetch(r).ok -> "failed" [] Fetch(r).ok /\ Fetch(r).links = {} -> "done" [] OTHER -> "downloaded"
<1>1. s \in States
  BY DEF States
<1>2. task' = [task EXCEPT ![u].reply = r, ![u].state = s]
  BY DEF fetchSource
<1> HIDE DEF s
<1>3. task' = [task EXCEPT ![u] = [@ EXCEPT !.state = s, !.reply = r]]
  BY <1>2 DEF IInv, Typed
<1> QED
  BY <1>1, <1>3, TaskStep DEF fetchSource

\* What the end of a command can leave in the file.
LEMMA FileStep ==
    ASSUME IInv, (\E ok \in BOOLEAN : EndFetch(ok)) \/ Interrupt
    PROVE  /\ file' = file \/ (allConfigs # {} /\ file' \subseteq allConfigs)
           /\ file' \subseteq Links
<1>1. file' = file \/ (allConfigs # {} /\ file' \subseteq allConfigs)
  BY DEF EndFetch, saveConfigsToFile, Interrupt
<1> QED
  BY <1>1 DEF IInv, Typed, TypeOK

LEMMA EndStep ==
    ASSUME IInv, (\E ok \in BOOLEAN : EndFetch(ok)) \/ Interrupt
    PROVE  IInv'
<1>0. file' \subseteq Links
  BY FileStep
<1>1. ASSUME NEW ok \in BOOLEAN, EndFetch(ok) PROVE IInv'
  <2>1. fetch' \in {"ok", "error"} /\ UNCHANGED <<tables, fetches, task, allConfigs, history>>
    BY <1>1 DEF EndFetch
  <2> QED
    BY <1>0, <2>1, CommandStep DEF tables, history, IInv, Typed, TypeOK, UrlsInv
<1>2. CASE Interrupt
  <2>1. lastId \in Nat
    BY SubscriptionsAssumption DEF SubscriptionsAssumption, IInv, Typed, TypeOK
  <2>2. /\ task' \in [Urls -> [state : States, sub : Nat, reply : Replies \cup {NoReply}]]
        /\ \A u \in Urls : task'[u].sub = NoSub
    BY <1>2 DEF Interrupt, NoTask, NoSub, States
  <2>3. \A u \in Urls : task'[u].sub \in 0..lastId
    BY <2>1, <2>2 DEF NoSub
  <2> QED
    BY <1>0, <1>2, <2>2, <2>3, CommandStep DEF Interrupt, tables, history, IInv, Typed, TypeOK
<1> QED
  BY <1>1, <1>2

-----------------------------------------------------------------------------
(* The results *)

LEMMA Inductive == IInv /\ [Next]_vars => IInv'
<1> SUFFICES ASSUME IInv, [Next]_vars PROVE IInv'
  OBVIOUS
<1>1. CASE \E u \in Urls : AddSubscription(u)
  BY <1>1, AddStep
<1>2. CASE \E id \in DOMAIN subs, u \in Urls, e \in BOOLEAN : UpdateSubscription(id, u, e)
  BY <1>2, UpdateStep
<1>3. CASE \E id \in DOMAIN subs : DeleteSubscription(id)
  BY <1>3, DeleteStep
<1>4. CASE \/ fetchAllSubscriptions
           \/ \E id \in DOMAIN subs : fetchById(id)
           \/ \E urls \in SUBSET Urls : fetchUrls(urls)
  BY <1>4, FetchStep
<1>5. CASE \E u \in Urls : TakeTask(u)
  BY <1>5, TakeTaskStep
<1>6. CASE \E u \in Urls, r \in Replies : fetchSource(u, r)
  BY <1>6, FetchSourceStep
<1>7. CASE \E u \in Urls, ok \in BOOLEAN : SaveConfigs(u, ok)
  BY <1>7, SaveStep
<1>8. CASE \E u \in Urls, ok \in BOOLEAN : EndTask(u, ok)
  BY <1>8, EndTaskStep
<1>9. CASE (\E ok \in BOOLEAN : EndFetch(ok)) \/ Interrupt
  BY <1>9, EndStep
<1>10. CASE UNCHANGED vars
  BY <1>10 DEF vars, tables, command, history, IInv, Typed, TypeOK, UrlsInv, OwnersInv
<1> QED
  BY <1>1, <1>2, <1>3, <1>4, <1>5, <1>6, <1>7, <1>8, <1>9, <1>10 DEF Next

LEMMA IInvServes == IInv => ServedSound
<1> SUFFICES ASSUME IInv PROVE ServedSound
  OBVIOUS
<1>1. \A l \in GetConfigsForProxy : l \in DOMAIN configs /\ configs[l] \in DOMAIN subs
                                    /\ subs[configs[l]].enabled /\ configs[l] # NoSub /\ l \in Links
  BY SubscriptionsAssumption DEF SubscriptionsAssumption, GetConfigsForProxy, IInv, Typed, TypeOK, NoSub
<1>2. \A l \in GetConfigsForProxy : savedFor[l].sub = configs[l] /\ savedFor[l].url \in hadUrls[configs[l]]
  BY <1>1 DEF IInv, OwnersInv
<1>3. \A l \in Links : savedFor[l].sub \in {id \in DOMAIN subs : subs[id].enabled} => l \in GetConfigsForProxy
  BY DEF GetConfigsForProxy, IInv, OwnersInv
<1> QED
  BY <1>1, <1>2, <1>3 DEF ServedSound

\* The tables keep their types, whatever the commands and the fetch workers do:
\* no config ever names a subscription that does not exist.
THEOREM TablesTypeCorrect == Spec => []TypeOK
<1>1. IInv => TypeOK
  BY DEF IInv, Typed
<1> QED
  BY <1>1, InitIInv, Inductive, PTL DEF Spec

\* GetConfigsForProxy serves exactly the links whose last subscription to store
\* them exists and is enabled, each from a url that this subscription has had.
THEOREM ServedSoundSafe == Spec => []ServedSound
  BY IInvServes, InitIInv, Inductive, PTL DEF Spec

-----------------------------------------------------------------------------
(* What the fetch command reports *)

\* The links that are in the database, or were until a subscription was removed.
Kept == DOMAIN configs \cup removed

\* A task that is past its download has a list that is whole; one whose save was
\* committed has its links in the database; allConfigs has the links of the tasks
\* that are done and no others; a command ends with no task on its way; and the
\* file is the one the command found until it ends.
ReportInv ==
    /\ \A u \in Urls : task[u].state \in {"downloaded", "stored", "done"} => Fetch(task[u].reply).ok
    /\ \A u \in Urls : task[u].state \in {"stored", "done"} => parseLinks(u) \subseteq Kept
    /\ \A l \in Links : l \in allConfigs <=> \E u \in Urls : task[u].state = "done" /\ l \in parseLinks(u)
    /\ fetch # "running" => \A u \in Urls : task[u].state \in {"none", "done", "failed"}
    /\ fetch = "ok" => (\A u \in Urls : task[u].state # "failed") /\ allConfigs \in {{}, file}
    /\ fetch = "running" => file = before
    /\ fetch \in {"ok", "error"} => file = before \/ (allConfigs # {} /\ file \subseteq allConfigs)

LEMMA ReportInit == Init => ReportInv
  BY DEF Init, ReportInv, NoTask

\* The other commands: whatever they remove is known as removed.
LEMMA TablesReport ==
    ASSUME ReportInv, Kept \subseteq Kept', UNCHANGED <<fetch, task, allConfigs, file, before>>
    PROVE  ReportInv'
  BY DEF ReportInv, parseLinks

\* One task of a running command moves on; only EndTask adds to allConfigs.
LEMMA TaskReport ==
    ASSUME IInv, ReportInv, NEW u \in Urls, task[u].state \in {"queued", "downloading", "downloaded", "stored"},
           NEW s \in {"downloading", "downloaded", "stored", "done", "failed"}, NEW r,
           task' = [task EXCEPT ![u] = [@ EXCEPT !.state = s, !.reply = r]],
           UNCHANGED <<fetch, file, before>>, Kept \subseteq Kept',
           s \in {"downloaded", "stored", "done"} => Fetch(r).ok,
           s \in {"stored", "done"} => Fetch(r).links \subseteq Kept',
           allConfigs' = IF s = "done" THEN allConfigs \cup Fetch(r).links ELSE allConfigs
    PROVE  ReportInv'
<1>1. /\ task'[u].state = s /\ task'[u].reply = r
      /\ \A v \in Urls : v # u => task'[v] = task[v]
  BY DEF IInv, Typed
<1>2. fetch = "running"
  BY DEF ReportInv
<1> QED
  BY <1>1, <1>2 DEF ReportInv, parseLinks

LEMMA BeginReport ==
    ASSUME NEW tasks, BeginFetch(tasks), \A u \in Urls : tasks[u].state \in {"none", "queued"}
    PROVE  ReportInv'
  BY DEF BeginFetch, ReportInv

LEMMA ReportInductive == IInv /\ ReportInv /\ [Next]_vars => ReportInv'
<1> SUFFICES ASSUME IInv, ReportInv, [Next]_vars PROVE ReportInv'
  OBVIOUS
<1>1. ASSUME NEW u \in Urls, AddSubscription(u) PROVE ReportInv'
  BY <1>1, TablesReport DEF AddSubscription, command, Kept
<1>2. ASSUME NEW id \in DOMAIN subs, NEW u \in Urls, NEW e \in BOOLEAN, UpdateSubscription(id, u, e)
      PROVE  ReportInv'
  BY <1>2, TablesReport DEF UpdateSubscription, command, Kept
<1>3. ASSUME NEW id \in DOMAIN subs, DeleteSubscription(id) PROVE ReportInv'
  BY <1>3, TablesReport DEF DeleteSubscription, command, Kept
<1>4. CASE \/ fetchAllSubscriptions
           \/ \E id \in DOMAIN subs : fetchById(id)
           \/ \E urls \in SUBSET Urls : fetchUrls(urls)
  <2>1. NoTask.state = "none" /\ \A sub : TaskFor(sub).state = "queued"
    BY DEF NoTask, TaskFor
  <2>2. CASE fetchAllSubscriptions
    BY <2>1, <2>2, BeginReport DEF fetchAllSubscriptions
  <2>3. ASSUME NEW id \in DOMAIN subs, fetchById(id) PROVE ReportInv'
    BY <2>1, <2>3, BeginReport DEF fetchById
  <2>4. ASSUME NEW urls \in SUBSET Urls, fetchUrls(urls) PROVE ReportInv'
    BY <2>1, <2>4, BeginReport DEF fetchUrls
  <2> QED
    BY <1>4, <2>2, <2>3, <2>4
<1>5. ASSUME NEW u \in Urls, TakeTask(u) PROVE ReportInv'
  <2>1. task' = [task EXCEPT ![u] = [@ EXCEPT !.state = "downloading", !.reply = task[u].reply]]
    BY <1>5 DEF TakeTask, IInv, Typed
  <2> QED
    BY <1>5, <2>1, TaskReport DEF TakeTask, tables, history, Kept
<1>6. ASSUME NEW u \in Urls, NEW r \in Replies, fetchSource(u, r) PROVE ReportInv'
  <2>1. PICK s : s = CASE ~Fetch(r).ok                         -> "failed"
                       [] Fetch(r).ok /\ Fetch(r).links = {}  -> "done"
                       [] OTHER                                -> "downloaded"
    OBVIOUS
  <2>2. /\ s \in {"downloaded", "done", "failed"}
        /\ s \in {"downloaded", "done"} => Fetch(r).ok
        /\ s = "done" => Fetch(r).links = {}
    <3>1. CASE ~Fetch(r).ok
      <4>1. s = "failed"
        BY <2>1, <3>1
      <4> QED
        BY <4>1
    <3>2. CASE Fetch(r).ok /\ Fetch(r).links = {}
      <4>1. s = "done"
        BY <2>1, <3>2
      <4> QED
        BY <3>2, <4>1
    <3>3. CASE Fetch(r).ok /\ Fetch(r).links # {}
      <4>1. s = "downloaded"
        BY <2>1, <3>3
      <4> QED
        BY <3>3, <4>1
    <3> QED
      BY <3>1, <3>2, <3>3
  <2>3. task' = [task EXCEPT ![u] = [@ EXCEPT !.state = s, !.reply = r]]
    BY <1>6, <2>1 DEF fetchSource, IInv, Typed
  <2>4. allConfigs' = IF s = "done" THEN allConfigs \cup Fetch(r).links ELSE allConfigs
    BY <1>6, <2>2 DEF fetchSource
  <2>5. Kept' = Kept /\ task[u].state = "downloading" /\ UNCHANGED <<fetch, file, before>>
    BY <1>6 DEF fetchSource, tables, history, Kept
  <2>6. s \in {"stored", "done"} => Fetch(r).links \subseteq Kept'
    BY <2>2
  <2> QED
    BY <2>2, <2>3, <2>4, <2>5, <2>6, TaskReport
<1>7. ASSUME NEW u \in Urls, NEW ok \in BOOLEAN, SaveConfigs(u, ok) PROVE ReportInv'
  <2>1. CASE task' = [task EXCEPT ![u].state = "failed"] /\ UNCHANGED configs
    <3>1. task' = [task EXCEPT ![u] = [@ EXCEPT !.state = "failed", !.reply = task[u].reply]]
      BY <2>1 DEF IInv, Typed
    <3> QED
      BY <1>7, <2>1, <3>1, TaskReport DEF SaveConfigs, Kept
  <2>2. CASE task' = [task EXCEPT ![u].state = "stored"] /\ configs' = Upserted(parseLinks(u), task[u].sub)
    <3>1. task' = [task EXCEPT ![u] = [@ EXCEPT !.state = "stored", !.reply = task[u].reply]]
      BY <2>2 DEF IInv, Typed
    <3>2. DOMAIN configs' = DOMAIN configs \cup Fetch(task[u].reply).links
      BY <2>2 DEF Upserted, parseLinks
    <3>3. Kept \subseteq Kept' /\ Fetch(task[u].reply).links \subseteq Kept'
      BY <1>7, <3>2 DEF SaveConfigs, Kept
    <3>4. Fetch(task[u].reply).ok
      BY <1>7 DEF SaveConfigs, ReportInv
    <3> QED
      BY <1>7, <3>1, <3>3, <3>4, TaskReport DEF SaveConfigs
  <2> QED
    BY <1>7, <2>1, <2>2 DEF SaveConfigs
<1>8. ASSUME NEW u \in Urls, NEW ok \in BOOLEAN, EndTask(u, ok) PROVE ReportInv'
  <2>1. task' = [task EXCEPT ![u] = [@ EXCEPT !.state = "done", !.reply = task[u].reply]]
    BY <1>8 DEF EndTask, IInv, Typed
  <2>2. Kept' = Kept
    BY <1>8 DEF EndTask, history, Kept
  <2>3. Fetch(task[u].reply).ok /\ Fetch(task[u].reply).links \subseteq Kept'
    BY <1>8, <2>2 DEF EndTask, ReportInv, parseLinks
  <2> QED
    BY <1>8, <2>1, <2>2, <2>3, TaskReport DEF EndTask, parseLinks, history
<1>9. ASSUME NEW ok \in BOOLEAN, EndFetch(ok) PROVE ReportInv'
  <2>1. /\ TasksEnded /\ file = before /\ fetch' \in {"ok", "error"}
        /\ fetch' = "ok" => (\A u \in Urls : task[u].state # "failed") /\ (ok \/ allConfigs = {})
        /\ UNCHANGED <<configs, removed, task, allConfigs, before>>
    BY <1>9 DEF EndFetch, tables, history, ReportInv
  <2>2. file' = file \/ (allConfigs # {} /\ file' \subseteq allConfigs)
    BY <1>9, FileStep
  <2>3. fetch' = "ok" => allConfigs \in {{}, file'}
    BY <1>9, <2>1 DEF EndFetch, saveConfigsToFile
  <2> QED
    BY <2>1, <2>2, <2>3 DEF TasksEnded, ReportInv, Kept, parseLinks
<1>10. CASE Interrupt
  BY <1>10 DEF Interrupt, NoTask, ReportInv
<1>11. CASE UNCHANGED vars
  BY <1>11, TablesReport DEF vars, tables, command, history, Kept
<1> QED
  BY <1>1, <1>2, <1>3, <1>4, <1>5, <1>6, <1>7, <1>8, <1>9, <1>10, <1>11 DEF Next

\* A list that was accepted has nothing but its links and blank lines.
LEMMA WholeList ==
    ASSUME NEW r, Fetch(r).ok, r.kind # "notModified", NEW i \in DOMAIN r.lines
    PROVE  r.lines[i] \in Fetch(r).links \cup {Blank}
<1>1. Fetch(r) = Decode(r) /\ Decode(r).ok
  BY DEF Fetch, Failure
<1> QED
  BY <1>1 DEF Decode, Failure

\* What the fetch command reports is true, however its workers, the other commands
\* and failing saves and writes interleave: what it collects is in the database
\* unless removed, and is every list that did not fail and nothing else; an exit
\* without error means that no list is missing and that the file has it all, or
\* what was there before when there was nothing to write.
THEOREM ReportTruthfulSafe == Spec => []ReportTruthful
<1>1. IInv /\ ReportInv => ReportTruthful
  <2> SUFFICES ASSUME IInv, ReportInv PROVE ReportTruthful
    OBVIOUS
  <2>1. allConfigs \subseteq Links /\ \A u \in Urls : parseLinks(u) \subseteq Links
    BY FetchedLinks DEF IInv, Typed, TypeOK, parseLinks
  <2>2. allConfigs \subseteq DOMAIN configs \cup removed
    BY <2>1 DEF ReportInv, Kept
  <2>3. allConfigs = UNION {parseLinks(u) : u \in {v \in Urls : task[v].state = "done"}}
    BY <2>1 DEF ReportInv
  <2>4. ASSUME fetch = "ok", NEW u \in Urls, task[u].state # "none", task[u].reply.kind # "notModified",
               NEW i \in DOMAIN task[u].reply.lines
        PROVE  task[u].reply.lines[i] \in allConfigs \cup {Blank}
    <3>1. task[u].state = "done" /\ Fetch(task[u].reply).ok
      BY <2>4 DEF ReportInv
    <3>2. task[u].reply.lines[i] \in Fetch(task[u].reply).links \cup {Blank}
      BY <2>4, <3>1, WholeList
    <3> QED
      BY <2>3, <3>1, <3>2 DEF parseLinks
  <2>5. /\ fetch \in {"ok", "error"} => file = before \/ (allConfigs # {} /\ file \subseteq allConfigs)
        /\ fetch = "ok" => allConfigs \in {{}, file}
    BY DEF ReportInv
  <2> QED
    BY <2>2, <2>3, <2>4, <2>5 DEF ReportTruthful
<1> QED
  BY <1>1, InitIInv, ReportInit, Inductive, ReportInductive, PTL DEF Spec
=============================================================================
