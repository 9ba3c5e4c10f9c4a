---------------------------- MODULE TesterProofs ----------------------------
(***************************************************************************)
(* What the HTTP tester leaves, for any links, endpoints, numbers of       *)
(* workers, retries and batch sizes, and any order of its workers, its     *)
(* collector, interrupts and failing writes.                               *)
(***************************************************************************)
EXTENDS Tester, SequenceTheorems, FiniteSetTheorems, TLAPS

\* The variables have their types.  Of a file that is filtered or sorted nothing is
\* said: SelectSeq and SortSeq are beyond the provers.
Plain == opts.kind = "csv" /\ ~opts.sort
Typed ==
    /\ phase \in {"start", "prescan", "test", "join", "done"}
    /\ opts \in Options /\ recorded \in BOOLEAN /\ interrupted \in BOOLEAN /\ enough \in BOOLEAN
    /\ dial \in [Endpoints -> {"todo", "busy", "yes", "no", "cut"}] /\ links \subseteq Links
    /\ job \in [Links -> {"none", "queued", "busy", "send"}] /\ tries \in [Links -> 0..Retries + 1]
    /\ best \in [Links -> Statuses] /\ collector \in BOOLEAN
    /\ channel \in Seq(Links) /\ results \in Seq(Links) /\ batch \in Seq(Links) /\ rows \in Seq(Links)
    /\ (Plain => file \in Seq(Links)) /\ lost \in BOOLEAN

\* A link is not examined more often than the retries allow.
TriesInv ==
    /\ \A l \in Links : job[l] = "busy" => tries[l] <= Retries
    /\ \A l \in Links : job[l] = "queued" \/ phase \in {"start", "prescan"} => tries[l] = 0

\* Before the tests nothing is collected, and after the run nobody collects.
PhaseInv ==
    /\ phase \in {"start", "prescan"} =>
          /\ ~collector /\ ~enough /\ ~lost
          /\ channel = <<>> /\ results = <<>> /\ file = <<>> /\ rows = <<>>
          /\ links = {} /\ \A l \in Links : job[l] = "none"
    /\ phase = "done" => ~collector
    /\ ~collector => batch = <<>>
    /\ recorded => opts.front = "web"

\* A link is in one place: with a worker, in the channel or in the results.
OnceInv ==
    /\ IsInjective(channel) /\ IsInjective(results)
    /\ Range(channel) \cap Range(results) = {}
    /\ \A l \in Links : job[l] # "none" => l \in links /\ l \notin Range(channel) \cup Range(results)
    /\ Range(channel) \cup Range(results) \subseteq links

\* Of a run that nothing cancelled no link gets lost on the way.
TestedInv ==
    /\ ~Cancelled => \A l \in links : job[l] # "none" \/ l \in Range(channel) \cup Range(results)
    /\ ~Cancelled /\ phase \in {"join", "done"} => \A l \in Links : job[l] = "none"
    /\ ~interrupted /\ ~collector => channel = <<>>
    /\ ~interrupted /\ phase = "test" => collector

\* The links that passed.
Passed == {l \in Range(results) : best[l] = "passed"}

\* The tests are cancelled for good reason, and what passed stays passed.
EnoughInv == enough => MaxPassed > 0 /\ Cardinality(Passed) >= MaxPassed

\* What is stored and what is still in the batch are the results, in their order:
\* in the database of the web server, in that of the command line at the end, and
\* in a file of the csv type that is not rewritten.
StoredInv ==
    ~lost =>
       /\ recorded => rows \o batch = results
       /\ opts.front = "cli" /\ opts.db /\ phase = "done" => rows = results
       /\ ~recorded /\ (opts.front = "web" \/ phase # "done") => rows = <<>>
       /\ Plain => file \o batch = results

IInv == Typed /\ TriesInv /\ PhaseInv /\ OnceInv /\ TestedInv /\ EnoughInv /\ StoredInv

-----------------------------------------------------------------------------
(* Sequences *)

LEMMA RangeOfAppend ==
    ASSUME NEW S, NEW s \in Seq(S), NEW x \in S
    PROVE  Range(Append(s, x)) = Range(s) \cup {x}
<1>1. PICK n \in Nat : n = Len(s)
  OBVIOUS
<1>2. PICK a : a = Append(s, x)
  OBVIOUS
<1>3. DOMAIN s = 1..n /\ DOMAIN a = 1..n + 1 /\ a[n + 1] = x /\ \A i \in 1..n : a[i] = s[i]
  BY <1>1, <1>2, AppendProperties, LenProperties
<1>4. \A y : y \in Range(a) <=> y \in Range(s) \cup {x}
  BY <1>3 DEF Range
<1> QED
  BY <1>2, <1>4

LEMMA InjectiveAppend ==
    ASSUME NEW S, NEW s \in Seq(S), NEW x \in S, IsInjective(s), x \notin Range(s)
    PROVE  IsInjective(Append(s, x))
<1>1. PICK n \in Nat : n = Len(s)
  OBVIOUS
<1>2. PICK a : a = Append(s, x)
  OBVIOUS
<1>3. DOMAIN s = 1..n /\ DOMAIN a = 1..n + 1 /\ a[n + 1] = x /\ \A i \in 1..n : a[i] = s[i]
  BY <1>1, <1>2, AppendProperties, LenProperties
<1>4. \A i \in 1..n : s[i] # x
  BY <1>3 DEF Range
<1>5. ASSUME NEW i \in 1..n + 1, NEW j \in 1..n + 1, a[i] = a[j] PROVE i = j
  <2>1. CASE i \in 1..n /\ j \in 1..n
    BY <1>3, <1>5, <2>1 DEF IsInjective
  <2>2. CASE i = n + 1 \/ j = n + 1
    BY <1>3, <1>4, <1>5, <2>2
  <2> QED
    BY <2>1, <2>2
<1>6. IsInjective(a)
  BY <1>3, <1>5 DEF IsInjective
<1> QED
  BY <1>2, <1>6

LEMMA HeadAndTail ==
    ASSUME NEW S, NEW s \in Seq(S), s # <<>>
    PROVE  /\ Head(s) \in S /\ Tail(s) \in Seq(S)
           /\ Range(s) = {Head(s)} \cup Range(Tail(s))
           /\ IsInjective(s) => IsInjective(Tail(s)) /\ Head(s) \notin Range(Tail(s))
<1>1. PICK n \in Nat : n = Len(s)
  OBVIOUS
<1>2. PICK t : t = Tail(s)
  OBVIOUS
<1>3. PICK h : h = Head(s)
  OBVIOUS
<1>4. h \in S /\ t \in Seq(S) /\ Len(t) = n - 1 /\ n > 0
  BY <1>1, <1>2, <1>3, HeadTailProperties, EmptySeq
<1>5. \A i \in 1..n - 1 : t[i] = s[i + 1]
  BY <1>1, <1>2, HeadTailProperties
<1>6. h = s[1] /\ DOMAIN s = 1..n /\ DOMAIN t = 1..n - 1
  BY <1>1, <1>3, <1>4, LenProperties
<1>7. Range(s) = {h} \cup Range(t)
  <2>1. ASSUME NEW i \in 1..n PROVE s[i] \in {h} \cup Range(t)
    <3>1. CASE i = 1
      BY <1>6, <3>1
    <3>2. CASE i # 1
      <4>1. i - 1 \in 1..n - 1 /\ (i - 1) + 1 = i
        BY <3>2
      <4>2. t[i - 1] = s[i]
        BY <1>5, <4>1
      <4> QED
        BY <1>6, <4>1, <4>2 DEF Range
    <3> QED
      BY <3>1, <3>2
  <2>2. ASSUME NEW i \in 1..n - 1 PROVE t[i] \in Range(s)
    <3>1. i + 1 \in 1..n
      BY <1>4
    <3> QED
      BY <1>5, <1>6, <3>1 DEF Range
  <2>3. h \in Range(s)
    BY <1>4, <1>6 DEF Range
  <2>4. Range(s) \subseteq {h} \cup Range(t)
    BY <1>6, <2>1 DEF Range
  <2>5. Range(t) \subseteq Range(s)
    <3>1. Range(t) = {t[i] : i \in 1..n - 1}
      BY <1>6 DEF Range
    <3> QED
      BY <2>2, <3>1
  <2> QED
    BY <2>3, <2>4, <2>5
<1>8. ASSUME IsInjective(s) PROVE IsInjective(t) /\ h \notin Range(t)
  <2>1. ASSUME NEW i \in 1..n - 1, NEW j \in 1..n - 1, t[i] = t[j] PROVE i = j
    <3>1. i + 1 \in 1..n /\ j + 1 \in 1..n /\ s[i + 1] = s[j + 1]
      BY <1>4, <1>5, <2>1
    <3>2. i + 1 = j + 1
      BY <1>6, <1>8, <3>1 DEF IsInjective
    <3> QED
      BY <3>2
  <2>2. ASSUME NEW i \in 1..n - 1, t[i] = h PROVE FALSE
    <3>1. i + 1 \in 1..n /\ 1 \in 1..n /\ s[i + 1] = s[1]
      BY <1>4, <1>5, <1>6, <2>2
    <3>2. i + 1 = 1
      BY <1>6, <1>8, <3>1 DEF IsInjective
    <3> QED
      BY <3>2
  <2>3. IsInjective(t)
    BY <1>6, <2>1 DEF IsInjective
  <2>4. h \notin Range(t)
    BY <1>6, <2>2 DEF Range
  <2> QED
    BY <2>3, <2>4
<1> QED
  BY <1>2, <1>3, <1>4, <1>7, <1>8

LEMMA EmptyRange == Range(<<>>) = {} /\ IsInjective(<<>>)
  BY DEF Range, IsInjective

\* A result goes to the batch and to the results.
LEMMA StoredAppend ==
    ASSUME NEW S, NEW f \in Seq(S), NEW b \in Seq(S), NEW r \in Seq(S), f \o b = r, NEW x \in S
    PROVE  f \o Append(b, x) = Append(r, x)
<1>1. <<x>> \in Seq(S)
  OBVIOUS
<1>2. Append(b, x) = b \o <<x>> /\ Append(r, x) = r \o <<x>>
  BY AppendIsConcat
<1>3. PICK one \in Seq(S) : one = <<x>>
  BY <1>1
<1>4. (f \o b) \o one = f \o (b \o one)
  BY ONLY f \in Seq(S), b \in Seq(S), one \in Seq(S), ConcatAssociative
<1> QED
  BY <1>2, <1>3, <1>4

-----------------------------------------------------------------------------
(* Examining *)

LEMMA ExamineType == ExamineConfig \subseteq Statuses
<1>1. \A outs : Grade(outs) \in {"passed", "semi-passed", "failed", "timeout"}
  BY DEF Grade
<1>2. \A k \in 0..Panel : Grades[k] \subseteq Statuses
  BY <1>1 DEF Grades, Statuses
<1>3. Panel \in 0..Panel
  BY TesterAssumption DEF TesterAssumption
<1>4. UNION Range(Grades) \subseteq Statuses
  <2>1. DOMAIN Grades = 0..Panel
    BY DEF Grades
  <2> QED
    BY <1>2, <2>1 DEF Range
<1> QED
  BY <1>2, <1>3, <1>4 DEF ExamineConfig, Statuses

-----------------------------------------------------------------------------
(* The inductive invariant *)

LEMMA TesterInit == Init => IInv
<1> SUFFICES ASSUME Init PROVE IInv
  OBVIOUS
<1>1. Typed
  <2>1. 0 \in 0..Retries + 1
    BY TesterAssumption DEF TesterAssumption
  <2>2. <<>> \in Seq(Links)
    OBVIOUS
  <2>3. /\ dial \in [Endpoints -> {"todo", "busy", "yes", "no", "cut"}]
        /\ job \in [Links -> {"none", "queued", "busy", "send"}]
        /\ tries \in [Links -> 0..Retries + 1]
        /\ best \in [Links -> Statuses]
    BY <2>1 DEF Init, Statuses
  <2> QED
    BY <2>2, <2>3 DEF Init, Typed
<1>2. TriesInv /\ PhaseInv
  BY TesterAssumption DEF TesterAssumption, Init, TriesInv, PhaseInv
<1>3. OnceInv /\ TestedInv
  BY EmptyRange DEF Init, OnceInv, TestedInv
<1>4. EnoughInv
  BY DEF Init, EnoughInv
<1>5. StoredInv
  <2>1. <<>> \o <<>> = <<>>
    BY ConcatEmptySeq, EmptySeq
  <2> QED
    BY <2>1 DEF Init, StoredInv
<1> QED
  BY <1>1, <1>2, <1>3, <1>4, <1>5 DEF IInv

\* The phases before the tests.
LEMMA QuietInv ==
    ASSUME IInv, phase \in {"start", "prescan"}, phase' \in {"prescan", "done"},
           dial' \in [Endpoints -> {"todo", "busy", "yes", "no", "cut"}],
           UNCHANGED <<opts, recorded, interrupted, links, enough, work, channel, collector, store>>
    PROVE  IInv'
<1> USE DEF IInv, work, store
<1>1. Typed'
  BY DEF Typed, Plain
<1>2. TriesInv' /\ PhaseInv'
  BY DEF TriesInv, PhaseInv
<1>3. OnceInv' /\ TestedInv' /\ EnoughInv'
  BY DEF OnceInv, PhaseInv, TestedInv, EnoughInv, Passed, Cancelled
<1>4. StoredInv'
  BY DEF StoredInv, PhaseInv, Plain
<1> QED
  BY <1>1, <1>2, <1>3, <1>4

\* RunTests hands every link to the pool once.
LEMMA RunTestsInv ==
    ASSUME IInv, phase \in {"start", "prescan"}, NEW set \in SUBSET Links, RunTests(set),
           recorded' \in BOOLEAN, recorded' => opts.front = "web",
           UNCHANGED <<opts, interrupted, dial, enough, tries, best, channel, store>>
    PROVE  IInv'
<1> USE DEF IInv, RunTests, store
<1>1. Typed'
  BY DEF Typed, Plain
<1>2. TriesInv' /\ PhaseInv'
  BY DEF TriesInv, PhaseInv
<1>3. channel = <<>> /\ results = <<>> /\ enough = FALSE
  BY DEF PhaseInv, Typed
<1>4. OnceInv'
  BY <1>3, EmptyRange DEF OnceInv
<1>5. TestedInv'
  BY <1>3, EmptyRange DEF TestedInv, Cancelled
<1>6. EnoughInv'
  BY <1>3 DEF EnoughInv
<1>7. StoredInv'
  <2>1. rows = <<>> /\ batch = <<>> /\ file = <<>> /\ phase' = "test"
    BY DEF PhaseInv
  <2>2. <<>> \o <<>> = <<>>
    BY ConcatEmptySeq, EmptySeq
  <2> QED
    BY <1>3, <2>1, <2>2 DEF StoredInv
<1> QED
  BY <1>1, <1>2, <1>4, <1>5, <1>6, <1>7

LEMMA BeginInv == ASSUME IInv, Begin PROVE IInv'
<1>1. CASE opts.prescan
  <2>1. opts.front = "cli"
    BY <1>1, TesterAssumption DEF TesterAssumption, IInv, Typed
  <2>2. recorded' = FALSE /\ recorded = FALSE
    BY <2>1 DEF Begin, CreateHttpTestRun, IInv, Typed, PhaseInv
  <2> QED
    BY <1>1, <2>2, QuietInv DEF Begin, work, IInv, Typed
<1>2. CASE ~opts.prescan
  <2>1. recorded' \in BOOLEAN /\ (recorded' => opts.front = "web")
    BY DEF Begin, CreateHttpTestRun
  <2> QED
    BY <1>2, <2>1, RunTestsInv DEF Begin
<1> QED
  BY <1>1, <1>2

LEMMA EndPrescanInv == ASSUME IInv, EndPrescan PROVE IInv'
<1>1. CASE interrupted \/ Reachable = {}
  BY <1>1, QuietInv DEF EndPrescan, work, IInv, Typed
<1>2. CASE ~(interrupted \/ Reachable = {})
  <2>1. Reachable \in SUBSET Links
    BY DEF Reachable
  <2> QED
    BY <1>2, <2>1, RunTestsInv DEF EndPrescan, IInv, Typed, PhaseInv
<1> QED
  BY <1>1, <1>2

LEMMA DialInv == ASSUME IInv, NEW e \in Endpoints, DialTCP(e) PROVE IInv'
<1>1. dial' \in [Endpoints -> {"todo", "busy", "yes", "no", "cut"}]
  BY DEF DialTCP, IInv, Typed
<1> QED
  BY <1>1, QuietInv DEF DialTCP

LEMMA CloseResultsInv == ASSUME IInv, CloseResults PROVE IInv'
<1> USE DEF IInv, CloseResults, work, store
<1>1. Typed'
  BY DEF Typed, Plain
<1>2. TriesInv' /\ PhaseInv'
  BY DEF TriesInv, PhaseInv
<1>3. OnceInv' /\ TestedInv' /\ EnoughInv'
  BY DEF OnceInv, TestedInv, EnoughInv, Passed, Cancelled
<1>4. StoredInv'
  BY DEF StoredInv, Plain
<1> QED
  BY <1>1, <1>2, <1>3, <1>4

LEMMA InterruptInv == ASSUME IInv, Interrupt PROVE IInv'
<1> USE DEF IInv, Interrupt, store
<1>1. Typed'
  BY DEF Typed, Plain
<1>2. TriesInv' /\ PhaseInv'
  BY DEF TriesInv, PhaseInv, Typed
<1>3. OnceInv' /\ TestedInv' /\ EnoughInv'
  BY DEF OnceInv, TestedInv, EnoughInv, Passed, Cancelled
<1>4. StoredInv'
  BY DEF StoredInv, Plain
<1> QED
  BY <1>1, <1>2, <1>3, <1>4

\* What the command line writes at the end, the web server has written before.
LEMMA OutputInv == ASSUME IInv, Output PROVE IInv'
<1> USE DEF IInv, work
<1>0. /\ phase = "join" /\ ~collector /\ phase' = "done" /\ batch = <<>>
      /\ UNCHANGED <<opts, recorded, interrupted, dial, links, enough, job, tries, best, channel, collector, results, batch>>
  BY DEF Output, PhaseInv
<1>1. PICK ok \in BOOLEAN :
          /\ file' = IF opts.front = "cli" /\ opts.sort /\ ok THEN Lines(Sorted(results)) ELSE file
          /\ rows' = IF opts.front = "cli" /\ opts.db /\ ok THEN results ELSE rows
          /\ lost' = (lost \/ (opts.front = "cli" /\ ~ok))
  BY DEF Output
<1>2. Plain' = Plain /\ (Plain => file' = file)
  BY <1>0, <1>1 DEF Plain
<1>3. Typed'
  BY <1>0, <1>1, <1>2 DEF Typed
<1>4. TriesInv' /\ PhaseInv'
  BY <1>0 DEF TriesInv, PhaseInv
<1>5. OnceInv' /\ TestedInv' /\ EnoughInv'
  BY <1>0 DEF OnceInv, TestedInv, EnoughInv, Passed, Cancelled
<1>6. StoredInv'
  <2>1. CASE opts.front = "cli"
    <3>1. recorded = FALSE
      BY <2>1 DEF PhaseInv, Typed
    <3> QED
      BY <1>0, <1>1, <1>2, <2>1, <3>1 DEF StoredInv, Typed
  <2>2. CASE opts.front = "web"
    <3>1. UNCHANGED <<rows, lost, batch, results, recorded>>
      BY <1>0, <1>1, <2>2 DEF Typed
    <3> QED
      BY <1>0, <1>2, <2>2, <3>1 DEF StoredInv
  <2>3. opts.front \in {"cli", "web"}
    BY TesterAssumption DEF TesterAssumption, Typed
  <2> QED
    BY <2>1, <2>2, <2>3
<1> QED
  BY <1>3, <1>4, <1>5, <1>6

-----------------------------------------------------------------------------
(* Workers *)

\* A worker has a link, takes it up or examines it.
LEMMA WorkerInv ==
    ASSUME IInv, NEW l \in Links, job[l] \in {"queued", "busy"}, NEW j \in {"busy", "send"},
           NEW n \in 0..Retries + 1, j = "busy" => n <= Retries,
           job' = [job EXCEPT ![l] = j], tries' = [tries EXCEPT ![l] = n],
           best' \in [Links -> Statuses], \A m \in Links : m # l => best'[m] = best[m],
           UNCHANGED <<main, enough, channel, collector, store>>
    PROVE  IInv'
<1> USE DEF IInv, main, store
<1>1. /\ job'[l] = j /\ tries'[l] = n
      /\ \A m \in Links : m # l => job'[m] = job[m] /\ tries'[m] = tries[m]
  BY DEF Typed
<1>2. Typed'
  BY DEF Typed, Plain
<1>3. TriesInv' /\ PhaseInv'
  BY <1>1 DEF TriesInv, PhaseInv
<1>4. OnceInv'
  BY <1>1 DEF OnceInv
<1>5. TestedInv'
  BY <1>1 DEF TestedInv, Cancelled, Typed
<1>6. EnoughInv'
  <2>1. l \notin Range(results) /\ Range(results) \subseteq Links
    BY DEF OnceInv, Typed
  <2>2. Passed' = Passed
    BY <2>1 DEF Passed
  <2> QED
    BY <2>2 DEF EnoughInv
<1>7. StoredInv'
  BY DEF StoredInv, Plain
<1> QED
  BY <1>2, <1>3, <1>4, <1>5, <1>6, <1>7

LEMMA TakeInv == ASSUME IInv, NEW l \in Links, Take(l) PROVE IInv'
<1>1. tries' = [tries EXCEPT ![l] = 0] /\ 0 \in 0..Retries + 1 /\ 0 <= Retries
  BY TesterAssumption DEF TesterAssumption, Take, IInv, Typed, TriesInv
<1> QED
  BY <1>1, WorkerInv DEF Take, IInv, Typed

LEMMA ExamineInv == ASSUME IInv, NEW l \in Links, Examine(l) PROVE IInv'
<1>1. PICK s \in ExamineConfig :
          /\ best' = [best EXCEPT ![l] = Better(@, s)]
          /\ tries' = [tries EXCEPT ![l] = @ + 1]
          /\ job' = IF Enough(Better(best[l], s), tries[l] + 1) THEN [job EXCEPT ![l] = "send"] ELSE job
  BY DEF Examine
<1>2. job[l] = "busy" /\ UNCHANGED <<main, enough, channel, collector, store>>
  BY DEF Examine
<1>3. Better(best[l], s) \in Statuses
  BY ExamineType DEF Better, IInv, Typed
<1>4. best' \in [Links -> Statuses] /\ \A m \in Links : m # l => best'[m] = best[m]
  BY <1>1, <1>3 DEF IInv, Typed
<1>5. PICK n \in 0..Retries + 1 : n = tries[l] + 1
  BY <1>2, TesterAssumption DEF TesterAssumption, IInv, Typed, TriesInv
<1>6. tries' = [tries EXCEPT ![l] = n]
  BY <1>1, <1>5
<1>7. CASE Enough(Better(best[l], s), n)
  BY <1>1, <1>2, <1>4, <1>5, <1>6, <1>7, WorkerInv
<1>8. CASE ~Enough(Better(best[l], s), n)
  <2>1. n <= Retries
    BY <1>8, TesterAssumption DEF TesterAssumption, Enough
  <2>2. job' = [job EXCEPT ![l] = "busy"]
    BY <1>1, <1>2, <1>5, <1>8 DEF IInv, Typed
  <2> QED
    BY <1>2, <1>4, <1>6, <2>1, <2>2, WorkerInv
<1> QED
  BY <1>7, <1>8

LEMMA StopRetryingInv == ASSUME IInv, NEW l \in Links, StopRetrying(l) PROVE IInv'
<1>1. PICK n \in 0..Retries + 1 : n = tries[l]
  BY DEF IInv, Typed
<1>2. tries' = [tries EXCEPT ![l] = n]
  BY <1>1 DEF StopRetrying, IInv, Typed
<1> QED
  BY <1>2, WorkerInv DEF StopRetrying, IInv, Typed

LEMMA SendInv == ASSUME IInv, NEW l \in Links, Send(l) PROVE IInv'
<1> USE DEF IInv, Send, main, store
<1>1. /\ job'[l] = "none" /\ \A m \in Links : m # l => job'[m] = job[m]
  BY DEF Typed
<1>2. /\ channel \in Seq(Links) /\ IsInjective(channel)
      /\ l \notin Range(channel) /\ l \notin Range(results) /\ l \in links
  BY DEF Typed, OnceInv
<1>3. channel' \in Seq(Links) /\ Range(channel') = Range(channel) \cup {l}
  BY <1>2, RangeOfAppend, AppendProperties
<1>4. IsInjective(channel')
  BY <1>2, InjectiveAppend
<1>5. Typed'
  BY <1>3 DEF Typed, Plain
<1>6. TriesInv' /\ PhaseInv'
  BY <1>1 DEF TriesInv, PhaseInv
<1>7. OnceInv'
  BY <1>1, <1>2, <1>3, <1>4 DEF OnceInv
<1>8. TestedInv'
  BY <1>1, <1>2, <1>3 DEF TestedInv, Cancelled, Typed
<1>9. EnoughInv' /\ StoredInv'
  BY DEF EnoughInv, Passed, StoredInv, Plain
<1> QED
  BY <1>5, <1>6, <1>7, <1>8, <1>9

LEMMA GiveUpInv == ASSUME IInv, NEW l \in Links, GiveUp(l) PROVE IInv'
<1> USE DEF IInv, GiveUp, main, store
<1>1. /\ job'[l] = "none" /\ \A m \in Links : m # l => job'[m] = job[m]
  BY DEF Typed
<1>2. Typed'
  BY DEF Typed, Plain
<1>3. TriesInv' /\ PhaseInv'
  BY <1>1 DEF TriesInv, PhaseInv
<1>4. OnceInv'
  BY <1>1 DEF OnceInv
<1>5. TestedInv'
  BY <1>1 DEF TestedInv, Cancelled, Typed
<1>6. EnoughInv' /\ StoredInv'
  BY DEF EnoughInv, Passed, StoredInv, Plain
<1> QED
  BY <1>2, <1>3, <1>4, <1>5, <1>6

-----------------------------------------------------------------------------
(* The collector *)

\* A batch that is written moves from behind what is stored to its end.
LEMMA Flushed ==
    ASSUME NEW S, NEW f \in Seq(S), NEW b \in Seq(S), NEW ok \in BOOLEAN, ok \/ b = <<>>,
           NEW g, g = IF ok THEN f \o b ELSE f
    PROVE  g \in Seq(S) /\ g \o <<>> = f \o b
<1>1. f \o b \in Seq(S) /\ f \o <<>> = f
  BY ConcatProperties, ConcatEmptySeq
<1>2. g = f \o b
  BY <1>1
<1>3. g \in Seq(S)
  BY <1>1, <1>2
<1> QED
  BY <1>2, <1>3, ConcatEmptySeq

\* The batch b is written, or kept for later; r are the results up to it.
LEMMA StoreStep ==
    ASSUME IInv, NEW b \in Seq(Links), NEW r \in Seq(Links), NEW ok \in BOOLEAN,
           results' = r, UNCHANGED <<opts, recorded, phase>>, phase # "done",
           ~lost => /\ recorded => rows \o b = r
                    /\ Plain => file \o b = r,
           flushBatch(b, ok) \/ (batch' = b /\ UNCHANGED <<file, rows, lost>>)
    PROVE  /\ StoredInv' /\ batch' \in Seq(Links) /\ rows' \in Seq(Links) /\ (Plain' => file' \in Seq(Links))
           /\ lost' \in BOOLEAN /\ (flushBatch(b, ok) => batch' = <<>>)
<1>1. /\ rows \in Seq(Links) /\ (Plain => file \in Seq(Links)) /\ lost \in BOOLEAN /\ Plain' = Plain
      /\ ~lost => (~recorded => rows = <<>>)
  BY DEF IInv, Typed, StoredInv, Plain
<1>2. CASE batch' = b /\ UNCHANGED <<file, rows, lost>> /\ ~flushBatch(b, ok)
  BY <1>1, <1>2 DEF StoredInv
<1>3. CASE flushBatch(b, ok)
  <2>1. batch' = <<>> /\ <<>> \in Seq(Links) /\ lost' \in BOOLEAN
    BY <1>1, <1>3 DEF flushBatch
  <2>2. ~lost' => ~lost /\ (ok \/ b = <<>>)
    BY <1>1, <1>3 DEF flushBatch
  <2>3. rows' \in Seq(Links)
    BY <1>1, <1>3, ConcatProperties DEF flushBatch
  <2>4. Plain => file' = (IF ok THEN file \o b ELSE file)
    BY <1>3 DEF flushBatch, Lines, Plain
  <2>5. Plain => file' \in Seq(Links)
    BY <1>1, <2>4, ConcatProperties
  <2>6. ASSUME ~lost', recorded PROVE rows' \o <<>> = r
    <3>1. rows' = IF ok THEN rows \o b ELSE rows
      BY <1>3, <2>6 DEF flushBatch
    <3>2. rows' \o <<>> = rows \o b
      BY <1>1, <2>2, <2>6, <3>1, Flushed
    <3> QED
      BY <2>2, <2>6, <3>2
  <2>7. ASSUME ~lost', Plain PROVE file' \o <<>> = r
    <3>1. file' \o <<>> = file \o b
      BY <1>1, <2>2, <2>4, <2>7, Flushed
    <3> QED
      BY <2>2, <2>7, <3>1
  <2>8. ~recorded => rows' = rows
    BY <1>3 DEF flushBatch
  <2>9. StoredInv'
    BY <1>1, <2>1, <2>2, <2>6, <2>7, <2>8 DEF StoredInv
  <2> QED
    BY <1>1, <2>1, <2>3, <2>5, <2>9
<1> QED
  BY <1>2, <1>3

LEMMA CollectInv == ASSUME IInv, NEW ok \in BOOLEAN, Collect(ok) PROVE IInv'
<1>1. PICK l : l = Head(channel)
  OBVIOUS
<1>2. /\ collector /\ channel # <<>> /\ channel \in Seq(Links) /\ results \in Seq(Links) /\ batch \in Seq(Links)
      /\ IsInjective(channel) /\ IsInjective(results) /\ phase \notin {"start", "prescan", "done"}
      /\ UNCHANGED <<main, tries, best, collector>>
  BY DEF Collect, IInv, Typed, OnceInv, PhaseInv
<1>3. /\ l \in Links /\ channel' \in Seq(Links) /\ Range(channel) = {l} \cup Range(channel')
      /\ IsInjective(channel') /\ l \notin Range(channel')
  BY <1>1, <1>2, HeadAndTail DEF Collect
<1>4. results' = Append(results, l) /\ l \notin Range(results)
  BY <1>1, <1>3 DEF Collect, IInv, OnceInv
<1>5. results' \in Seq(Links) /\ Range(results') = Range(results) \cup {l} /\ IsInjective(results')
  BY <1>2, <1>3, <1>4, RangeOfAppend, InjectiveAppend, AppendProperties
<1>6. PICK b \in Seq(Links) : b = Append(batch, l)
  BY <1>2, <1>3, AppendProperties
<1>7. flushBatch(b, ok) \/ (batch' = b /\ UNCHANGED <<file, rows, lost>>)
  BY <1>1, <1>6 DEF Collect
<1>8. ~lost => /\ recorded => rows \o b = Append(results, l)
               /\ Plain => file \o b = Append(results, l)
  <2>1. ASSUME NEW f \in Seq(Links), f \o batch = results PROVE f \o b = Append(results, l)
    <3>1. f \o Append(batch, l) = Append(results, l)
      BY <1>2, <1>3, <2>1, StoredAppend
    <3> QED
      BY <1>6, <3>1
  <2>2. rows \in Seq(Links) /\ (Plain => file \in Seq(Links))
    BY DEF IInv, Typed
  <2> QED
    BY <2>1, <2>2 DEF IInv, StoredInv
<1>9. /\ StoredInv' /\ batch' \in Seq(Links) /\ rows' \in Seq(Links) /\ (Plain' => file' \in Seq(Links))
      /\ lost' \in BOOLEAN
  BY <1>2, <1>4, <1>5, <1>7, <1>8, StoreStep DEF main
<1>10. PICK reached \in BOOLEAN :
          reached <=> /\ opts.front = "cli" /\ MaxPassed > 0
                      /\ Cardinality({m \in Range(results') : best[m] = "passed"}) >= MaxPassed
  OBVIOUS
<1>11. enough' = (enough \/ (reached /\ best[l] = "passed"))
  BY <1>1, <1>4, <1>10 DEF Collect
<1>12. job' = [m \in Links |-> IF enough' /\ job[m] = "queued" THEN "none" ELSE job[m]]
  BY DEF Collect
<1>13. enough \in BOOLEAN /\ enough' \in BOOLEAN /\ (enough => enough')
  BY <1>11 DEF IInv, Typed
<1> USE DEF IInv, main
<1>14. Typed'
  BY <1>2, <1>3, <1>5, <1>9, <1>12, <1>13 DEF Typed
<1>15. TriesInv' /\ PhaseInv'
  BY <1>2, <1>12 DEF TriesInv, PhaseInv, Typed
<1>16. OnceInv'
  BY <1>2, <1>3, <1>4, <1>5, <1>12 DEF OnceInv
<1>17. TestedInv'
  BY <1>2, <1>3, <1>5, <1>12, <1>13 DEF TestedInv, Cancelled, Typed
<1>18. EnoughInv'
  <2>1. Passed' = {m \in Range(results') : best[m] = "passed"}
    BY <1>2 DEF Passed
  <2>2. CASE enough
    <3>1. Range(results') \subseteq Links /\ IsFiniteSet(Links)
      BY <1>3, <1>5, TesterAssumption DEF TesterAssumption, OnceInv, Typed
    <3>2. Passed' \in SUBSET Links /\ Passed \in SUBSET Passed'
      BY <1>5, <2>1, <3>1 DEF Passed
    <3>3. IsFiniteSet(Passed')
      BY <3>1, <3>2, FS_Subset
    <3>4. Cardinality(Passed) <= Cardinality(Passed') /\ Cardinality(Passed) \in Nat /\ Cardinality(Passed') \in Nat
      BY <3>2, <3>3, FS_Subset, FS_CardinalityType
    <3>5. MaxPassed > 0 /\ Cardinality(Passed) >= MaxPassed /\ MaxPassed \in Nat
      BY <2>2, TesterAssumption DEF TesterAssumption, EnoughInv
    <3> QED
      BY <3>4, <3>5 DEF EnoughInv
  <2>3. CASE ~enough
    BY <1>10, <1>11, <2>1, <2>3 DEF EnoughInv
  <2> QED
    BY <2>2, <2>3
<1> QED
  BY <1>9, <1>14, <1>15, <1>16, <1>17, <1>18

\* The batch is written without a new result, and the collector goes on or ends.
LEMMA FlushInv ==
    ASSUME IInv, NEW ok \in BOOLEAN, CollectorTick(ok) \/ CollectorStop(ok)
    PROVE  IInv'
<1>1. /\ collector /\ flushBatch(batch, ok) /\ phase # "done" /\ phase \notin {"start", "prescan"}
      /\ UNCHANGED <<main, enough, work, channel, results>>
      /\ collector' \in BOOLEAN
      /\ ~collector' => (phase = "join" /\ channel = <<>>) \/ interrupted
  BY DEF CollectorTick, CollectorStop, IInv, PhaseInv, Typed
<1>2. PICK b \in Seq(Links) : b = batch
  BY DEF IInv, Typed
<1>3. PICK r \in Seq(Links) : r = results
  BY DEF IInv, Typed
<1>4. /\ StoredInv' /\ batch' \in Seq(Links) /\ rows' \in Seq(Links) /\ (Plain' => file' \in Seq(Links))
      /\ lost' \in BOOLEAN /\ batch' = <<>>
  BY <1>1, <1>2, <1>3, StoreStep DEF IInv, StoredInv, main
<1> USE <1>1 DEF IInv, main, work
<1>5. Typed'
  BY <1>4 DEF Typed
<1>6. TriesInv' /\ PhaseInv'
  BY <1>4 DEF TriesInv, PhaseInv
<1>7. OnceInv' /\ EnoughInv'
  BY DEF OnceInv, EnoughInv, Passed
<1>8. TestedInv'
  BY DEF TestedInv, Cancelled, Typed
<1> QED
  BY <1>4, <1>5, <1>6, <1>7, <1>8

LEMMA TesterInductive == IInv /\ [Next]_vars => IInv'
<1> SUFFICES ASSUME IInv, [Next]_vars PROVE IInv'
  OBVIOUS
<1>1. CASE Begin \/ EndPrescan \/ CloseResults \/ Output \/ Interrupt
  BY <1>1, BeginInv, EndPrescanInv, CloseResultsInv, OutputInv, InterruptInv
<1>2. ASSUME NEW e \in Endpoints, DialTCP(e) PROVE IInv'
  BY <1>2, DialInv
<1>3. ASSUME NEW l \in Links, Take(l) \/ Examine(l) \/ StopRetrying(l) \/ Send(l) \/ GiveUp(l) PROVE IInv'
  BY <1>3, TakeInv, ExamineInv, StopRetryingInv, SendInv, GiveUpInv
<1>4. ASSUME NEW ok \in BOOLEAN, Collect(ok) \/ CollectorTick(ok) \/ CollectorStop(ok) PROVE IInv'
  BY <1>4, CollectInv, FlushInv
<1>5. CASE UNCHANGED vars
  <2> USE <1>5 DEF IInv, vars, main, work, store
  <2>1. Typed' /\ TriesInv' /\ PhaseInv'
    BY DEF Typed, Plain, TriesInv, PhaseInv
  <2>2. OnceInv' /\ TestedInv' /\ EnoughInv' /\ StoredInv'
    BY DEF OnceInv, TestedInv, Cancelled, EnoughInv, Passed, StoredInv, Plain
  <2> QED
    BY <2>1, <2>2
<1> QED
  BY <1>1, <1>2, <1>3, <1>4, <1>5 DEF Next

-----------------------------------------------------------------------------
(* The results *)

\* A link is left out of the tests only when its endpoint was dialled and did not
\* answer, however the dials and the interrupt interleave.
THEOREM PrescanSoundSafe == Spec => []PrescanSound
<1>1. Init => PrescanSound
  BY DEF Init, PrescanSound
<1>2. IInv /\ PrescanSound /\ [Next]_vars => PrescanSound'
  <2> SUFFICES ASSUME IInv, PrescanSound, [Next]_vars PROVE PrescanSound'
    OBVIOUS
  <2>1. CASE Begin
    BY <2>1 DEF Begin, RunTests, PrescanSound
  <2>2. CASE EndPrescan
    <3>1. CASE interrupted \/ Reachable = {}
      BY <2>2, <3>1 DEF EndPrescan, PrescanSound
    <3>2. CASE ~(interrupted \/ Reachable = {})
      <4>1. links' = Reachable /\ dial' = dial /\ \A e \in Endpoints : dial[e] \in {"yes", "no"}
        BY <2>2, <3>2 DEF EndPrescan, RunTests, PrescanWait
      <4>2. ASSUME NEW l \in Links \ Reachable
            PROVE  endpointForLink[l] # "" /\ dial[endpointForLink[l]] = "no"
        <5>1. endpointForLink[l] # "" /\ dial[endpointForLink[l]] # "yes"
          BY DEF Reachable
        <5>2. endpointForLink[l] \in Endpoints
          BY <5>1 DEF Endpoints
        <5> QED
          BY <4>1, <5>1, <5>2
      <4> QED
        BY <4>1, <4>2 DEF PrescanSound
    <3> QED
      BY <3>1, <3>2
  <2>3. CASE CloseResults \/ Output \/ Interrupt
    BY <2>3 DEF CloseResults, Output, Interrupt, PrescanSound
  <2>4. ASSUME NEW e \in Endpoints, DialTCP(e) PROVE PrescanSound'
    BY <2>4 DEF DialTCP, PrescanSound
  <2>5. CASE UNCHANGED <<phase, links, dial>>
    BY <2>5 DEF PrescanSound
  <2>6. ASSUME NEW l \in Links, Take(l) \/ Examine(l) \/ StopRetrying(l) \/ Send(l) \/ GiveUp(l)
        PROVE  UNCHANGED <<phase, links, dial>>
    BY <2>6 DEF Take, Examine, StopRetrying, Send, GiveUp, main
  <2>7. ASSUME NEW ok \in BOOLEAN, Collect(ok) \/ CollectorTick(ok) \/ CollectorStop(ok)
        PROVE  UNCHANGED <<phase, links, dial>>
    BY <2>7 DEF Collect, CollectorTick, CollectorStop, main
  <2>8. CASE UNCHANGED vars
    BY <2>5, <2>8 DEF vars, main
  <2> QED
    BY <2>1, <2>2, <2>3, <2>4, <2>5, <2>6, <2>7, <2>8 DEF Next
<1> QED
  BY <1>1, <1>2, TesterInit, TesterInductive, PTL DEF Spec

\* The part of ResultsKept that is not about the order and the filter of a file.
Collected ==
    phase = "done" =>
        /\ IsInjective(results)
        /\ ~lost /\ opts.db => rows = IF opts.front = "cli" \/ recorded THEN results ELSE <<>>
        /\ (~interrupted /\ links # {}) =>
              \/ Range(results) = links
              \/ MaxPassed > 0 /\ Cardinality(Passed) >= MaxPassed

LEMMA IInvCollected == IInv => Collected
<1> SUFFICES ASSUME IInv, phase = "done" PROVE Collected
  BY DEF Collected
<1>1. IsInjective(results) /\ batch = <<>> /\ ~collector
  BY DEF IInv, OnceInv, PhaseInv
<1>2. ASSUME ~lost, opts.db PROVE rows = IF opts.front = "cli" \/ recorded THEN results ELSE <<>>
  <2>1. rows \o <<>> = rows
    BY ConcatEmptySeq DEF IInv, Typed
  <2>2. opts.front \in {"web", "cli"}
    BY TesterAssumption DEF TesterAssumption, IInv, Typed
  <2> QED
    BY <1>1, <1>2, <2>1, <2>2 DEF IInv, StoredInv
<1>3. ASSUME ~interrupted, ~enough PROVE Range(results) = links
  <2>1. \A l \in links : l \in Range(channel) \cup Range(results)
    BY <1>3 DEF IInv, TestedInv, Cancelled, Typed
  <2>2. Range(channel) = {}
    BY <1>1, <1>3, EmptyRange DEF IInv, TestedInv
  <2> QED
    BY <2>1, <2>2 DEF IInv, OnceInv
<1> QED
  BY <1>1, <1>2, <1>3 DEF Collected, IInv, EnoughInv

\* Whatever the options, a run that ends has collected each result once, has every
\* collected result in the database unless a write failed or the web server could not
\* make a run there (then no row is written), and has tested all links
\* unless it was interrupted or enough of them passed.
THEOREM CollectedSafe == Spec => []Collected
  BY IInvCollected, TesterInit, TesterInductive, PTL DEF Spec

\* With a csv file that is not sorted, which is what the web server always writes,
\* nothing that was collected is missing in the file or there twice, either.
THEOREM ResultsKeptSafe == Spec => [](Plain => ResultsKept)
<1>1. IInv => (Plain => ResultsKept)
  <2> SUFFICES ASSUME IInv, Plain, phase = "done" PROVE ResultsKept
    BY DEF ResultsKept
  <2>1. Collected
    BY IInvCollected
  <2>2. ~lost => file = results
    <3>1. file \o <<>> = file
      BY ConcatEmptySeq DEF IInv, Typed
    <3> QED
      BY <3>1 DEF IInv, StoredInv, PhaseInv
  <2>3. Lines(results) = results
    BY DEF Lines, Plain
  <2> QED
    BY <2>1, <2>2, <2>3 DEF Collected, Passed, ResultsKept
<1> QED
  BY <1>1, TesterInit, TesterInductive, PTL DEF Spec

=============================================================================
