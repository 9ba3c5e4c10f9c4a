---------------------------- MODULE ScannerProofs ----------------------------
(***************************************************************************)
(* What a scan leaves in the file and in the database, for any subnets,    *)
(* numbers of workers and batch sizes, any sequence of scans, crashes and  *)
(* cancellations, and any order of the workers and the writer.             *)
(***************************************************************************)
EXTENDS Scanner, SequenceTheorems, FiniteSetTheorems, TLAPS

\* No address is in two subnets.
DisjointSubnets == \A i, j \in 1..Len(Subnets) : i # j => Subnets[i] \cap Subnets[j] = {}

\* Who is at work in each phase.
PhaseInv ==
    /\ phase \in {"idle", "done"} => \A ip \in IPs : job[ip] = "none"
    /\ phase \in {"idle", "save", "write", "done"} => ~writer
    /\ ~writer /\ opts.db => batch = <<>>
    /\ opts.resume \/ DOMAIN initial = {}

\* What was resumed from is not scanned again.
FreshInv ==
    /\ got \cap DOMAIN initial = {} /\ Range(channel) \cap DOMAIN initial = {}
    /\ \A ip \in IPs : job[ip] # "none" => ip \notin DOMAIN initial

\* The rows and the file have what was resumed from and what was taken.
FileInv ==
    /\ phase = "write" => /\ DOMAIN rows = DOMAIN initial \cup got
                          /\ \A ip \in DOMAIN initial : rows[ip] = initial[ip]
    /\ phase = "done" => /\ DOMAIN csv = DOMAIN initial \cup got
                         /\ \A ip \in DOMAIN initial : csv[ip] = initial[ip]

\* A scan that nothing has interrupted so far.
Live == ~cancelled /\ phase # "idle"

Submitted == UNION {Subnets[i] : i \in 1..Len(Subnets) - todo}

\* The addresses that have been reported as scanned.
Reported == (Submitted \cap DOMAIN initial) \cup Range(channel) \cup got

\* Where the addresses of a live scan are, by phase.
LiveInv ==
    Live =>
        /\ phase # "latency" => todo = 0
        /\ phase = "speed" => \A ip \in IPs : job[ip] # "none" => ip \in got
        /\ phase \notin {"latency", "wait", "speed"} => \A ip \in IPs : job[ip] = "none"
        /\ ~writer => channel = <<>> /\ phase \in {"join", "save", "write", "done"}
        /\ Range(channel) \cup got \subseteq Submitted
        /\ \A ip \in IPs : job[ip] # "none" => ip \in Submitted
        /\ \A ip \in Submitted : ip \in Reported \/ job[ip] # "none"

\* Each of them is scanned, and counted, once.
CountInv ==
    Live /\ DisjointSubnets =>
        /\ phase \in {"latency", "wait"} => \A ip \in IPs : job[ip] # "none" => ip \notin Range(channel) \cup got
        /\ completed = Cardinality(Reported)

\* The stored row tells what the result does.
Agrees(row, r) ==
    /\ row.error = r.error
    /\ r.error = "" => row.latency = r.latency /\ (r.down => row.down) /\ (r.up => row.up)

\* A result that was taken is in the database as it is, or is on its way there again.
DbInv ==
    Live /\ DisjointSubnets /\ opts.db /\ ~failed =>
        \A ip \in got :
            /\ phase # "done" =>
                  \/ ip \in Range(batch) \cup Range(channel) \/ job[ip] = "send"
                  \/ ip \in DOMAIN db /\ Agrees(db[ip], res[ip])
            /\ phase = "write" => rows[ip] = res[ip]
            /\ phase = "done" => ip \in DOMAIN db /\ Agrees(db[ip], csv[ip])

IInv == TypeOK /\ PhaseInv /\ FreshInv /\ FileInv /\ LiveInv /\ CountInv /\ DbInv

-----------------------------------------------------------------------------
(* Addresses and sequences of them *)

LEMMA IPsFacts ==
    /\ IPs \subseteq Nat \ {0} /\ IsFiniteSet(IPs) /\ Len(Subnets) \in Nat
    /\ \A i \in 1..Len(Subnets) : Subnets[i] \subseteq IPs
<1>1. DOMAIN Subnets = 1..Len(Subnets) /\ Len(Subnets) \in Nat
  BY ScannerAssumption DEF ScannerAssumption
<1>2. \A i \in 1..Len(Subnets) : Subnets[i] \in SUBSET (Nat \ {0})
  BY ScannerAssumption, ElementOfSeq DEF ScannerAssumption
<1> QED
  BY <1>1, <1>2, ScannerAssumption DEF ScannerAssumption, IPs

LEMMA SubmittedIPs == ASSUME TypeOK PROVE Submitted \subseteq IPs
<1>1. 1..Len(Subnets) - todo \subseteq 1..Len(Subnets)
  BY IPsFacts DEF TypeOK
<1> QED
  BY <1>1, IPsFacts DEF Submitted

LEMMA RangeOfAppend ==
    ASSUME NEW S, NEW s \in Seq(S), NEW x \in S
    PROVE  Range(Append(s, x)) = Range(s) \cup {x}
<1>1. PICK n \in Nat : n = Len(s)
  OBVIOUS
<1>2. PICK a : a = Append(s, x)
  OBVIOUS
<1>3. DOMAIN s = 1..n /\ DOMAIN a = 1..n + 1 /\ a[n + 1] = x /\ \A i \in 1..n : a[i] = s[i]
  BY <1>1, <1>2, AppendProperties, LenProperties
<1>4. \A y : y \in Range(a) <=> y \in Range(s) \cup {x}
  BY <1>3 DEF Range
<1> QED
  BY <1>2, <1>4

LEMMA HeadAndTail ==
    ASSUME NEW S, NEW s \in Seq(S), s # <<>>
    PROVE  Head(s) \in S /\ Tail(s) \in Seq(S) /\ Range(s) = {Head(s)} \cup Range(Tail(s))
<1>1. PICK n \in Nat : n = Len(s)
  OBVIOUS
<1>2. PICK t : t = Tail(s)
  OBVIOUS
<1>3. PICK h : h = Head(s)
  OBVIOUS
<1>4. h \in S /\ t \in Seq(S) /\ Len(t) = n - 1 /\ n > 0
  BY <1>1, <1>2, <1>3, HeadTailProperties, EmptySeq
<1>5. \A i \in 1..n - 1 : t[i] = s[i + 1]
  BY <1>1, <1>2, HeadTailProperties
<1>6. h = s[1] /\ DOMAIN s = 1..n /\ DOMAIN t = 1..n - 1
  BY <1>1, <1>3, <1>4, LenProperties
<1>7. ASSUME NEW i \in 1..n PROVE s[i] \in {h} \cup Range(t)
  <2>1. CASE i = 1
    BY <1>6, <2>1
  <2>2. CASE i # 1
    <3>1. i - 1 \in 1..n - 1 /\ (i - 1) + 1 = i
      BY <2>2
    <3>2. t[i - 1] = s[i]
      BY <1>5, <3>1
    <3> QED
      BY <1>6, <3>1, <3>2 DEF Range
  <2> QED
    BY <2>1, <2>2
<1>8. ASSUME NEW i \in 1..n - 1 PROVE t[i] \in Range(s)
  <2>1. i + 1 \in 1..n
    BY <1>4
  <2> QED
    BY <1>5, <1>6, <2>1 DEF Range
<1>9. h \in Range(s)
  BY <1>4, <1>6 DEF Range
<1>10. Range(s) \subseteq {h} \cup Range(t)
  BY <1>6, <1>7 DEF Range
<1>11. Range(t) \subseteq Range(s)
  <2>1. Range(t) = {t[i] : i \in 1..n - 1}
    BY <1>6 DEF Range
  <2> QED
    BY <1>8, <2>1
<1> QED
  BY <1>2, <1>3, <1>4, <1>9, <1>10, <1>11

LEMMA RangeType == ASSUME NEW S, NEW s \in Seq(S) PROVE Range(s) \subseteq S
  BY RangeOfSeq

LEMMA EmptyRange == Range(<<>>) = {}
  BY DEF Range

-----------------------------------------------------------------------------
(* Results *)

LEMMA NothingType == Nothing \in Result /\ IsStored(Empty) /\ DOMAIN Empty = {}
  BY DEF Nothing, Result, IsStored, Empty

LEMMA ScanType == ASSUME NEW ip \in IPs PROVE scanIPForLatency(ip) \subseteq Result
<1>1. ip \in Nat
  BY IPsFacts
<1>2. [Nothing EXCEPT !.latency = ip] \in Result
  BY <1>1 DEF Nothing, Result
<1>3. [Nothing EXCEPT !.error = "failed"] \in Result
  BY DEF Nothing, Result
<1> QED
  BY <1>2, <1>3 DEF scanIPForLatency

LEMMA MeasureType == ASSUME NEW r \in Result PROVE measureSpeed(r) \subseteq Result
  BY DEF measureSpeed, Result

\* A saved row agrees with the result, new or over an old row.
LEMMA SavedRow ==
    ASSUME NEW r \in Result, NEW old \in Result
    PROVE  /\ DbRow(r) \in Result /\ Agrees(DbRow(r), r)
           /\ UpsertRow(old, DbRow(r)) \in Result /\ Agrees(UpsertRow(old, DbRow(r)), r)
<1>1. DbRow(r) \in Result /\ Agrees(DbRow(r), r)
  BY DEF DbRow, Agrees, Result, Nothing
<1>2. PICK n \in Result : n = DbRow(r) /\ n.error = r.error /\ (r.error = "" => n = r)
  BY <1>1 DEF DbRow, Agrees, Result, Nothing
<1>3. UpsertRow(old, n) \in Result /\ Agrees(UpsertRow(old, n), r)
  BY <1>2 DEF UpsertRow, Agrees, Result
<1> QED
  BY <1>1, <1>2, <1>3

\* What a save leaves in the database.
LEMMA SavedBatch ==
    ASSUME IsStored(db), res \in [IPs -> Result], NEW b \in Seq(IPs),
           NEW d, d = UpsertCfScanResultsBatch([ip \in Range(b) |-> DbRow(res[ip])])
    PROVE  /\ IsStored(d)
           /\ \A ip \in Range(b) : ip \in DOMAIN d /\ Agrees(d[ip], res[ip])
           /\ \A ip \in DOMAIN db \ Range(b) : ip \in DOMAIN d /\ d[ip] = db[ip]
<1>1. PICK new : new = [ip \in Range(b) |-> DbRow(res[ip])]
  OBVIOUS
<1>2. /\ Range(b) \subseteq IPs /\ DOMAIN new = Range(b)
      /\ \A ip \in Range(b) : new[ip] = DbRow(res[ip]) /\ res[ip] \in Result
  BY <1>1, RangeType
<1>3. /\ DOMAIN d = DOMAIN db \cup Range(b)
      /\ d = [ip \in DOMAIN d |-> d[ip]]
      /\ \A ip \in DOMAIN d : d[ip] = CASE ip \notin DOMAIN new -> db[ip]
                                        [] ip \notin DOMAIN db  -> new[ip]
                                        [] OTHER                -> UpsertRow(db[ip], new[ip])
  BY <1>1, <1>2 DEF UpsertCfScanResultsBatch
<1>4. ASSUME NEW ip \in DOMAIN db \ Range(b) PROVE ip \in DOMAIN d /\ d[ip] = db[ip]
  BY <1>2, <1>3
<1>5. ASSUME NEW ip \in Range(b) PROVE ip \in DOMAIN d /\ Agrees(d[ip], res[ip]) /\ d[ip] \in Result
  <2>1. CASE ip \notin DOMAIN db
    <3>1. d[ip] = DbRow(res[ip])
      BY <1>2, <1>3, <2>1
    <3>2. res[ip] \in Result /\ Nothing \in Result
      BY <1>2, NothingType
    <3> QED
      BY <1>3, <3>1, <3>2, SavedRow
  <2>2. CASE ip \in DOMAIN db
    <3>1. d[ip] = UpsertRow(db[ip], DbRow(res[ip]))
      BY <1>2, <1>3, <2>2
    <3>2. res[ip] \in Result /\ db[ip] \in Result
      BY <1>2, <2>2 DEF IsStored
    <3> QED
      BY <1>3, <3>1, <3>2, SavedRow
  <2> QED
    BY <2>1, <2>2
<1>6. IsStored(d)
  <2>1. DOMAIN d \subseteq IPs
    BY <1>2, <1>3 DEF IsStored
  <2>2. \A ip \in DOMAIN d : d[ip] \in Result
    BY <1>3, <1>4, <1>5 DEF IsStored
  <2> QED
    BY <1>3, <2>1, <2>2 DEF IsStored
<1> QED
  BY <1>4, <1>5, <1>6

-----------------------------------------------------------------------------
(* The main thread *)

LEMMA ScannerInit == Init => IInv
<1> SUFFICES ASSUME Init PROVE IInv
  OBVIOUS
<1> USE DEF Init
<1>1. TypeOK
  <2>1. Len(Options) \in Nat /\ Len(Subnets) \in Nat
    BY ScannerAssumption DEF ScannerAssumption
  <2>2. <<>> \in Seq(IPs)
    OBVIOUS
  <2>3. 0 \in 0..Len(Options) /\ 0 \in 0..Len(Subnets)
    BY <2>1
  <2>4. res \in [IPs -> Result] /\ IsStored(initial) /\ IsStored(db) /\ IsStored(csv) /\ IsStored(rows)
    BY NothingType
  <2> QED
    BY <2>2, <2>3, <2>4 DEF TypeOK
<1>2. PhaseInv /\ FreshInv
  BY NothingType, EmptyRange DEF PhaseInv, FreshInv
<1>3. FileInv /\ LiveInv /\ CountInv /\ DbInv
  BY DEF FileInv, LiveInv, CountInv, DbInv, Live
<1> QED
  BY <1>1, <1>2, <1>3 DEF IInv

LEMMA StartInv == ASSUME IInv, NEW o \in UNION Range(Options), Start(o) PROVE IInv'
<1>0. Len(Options) \in Nat /\ Len(Subnets) \in Nat
  BY ScannerAssumption DEF ScannerAssumption
<1>1. runs' \in 0..Len(Options) /\ runs + 1 \in 1..Len(Options)
  BY <1>0 DEF Start, IInv, TypeOK
<1>2. o \in [resume : BOOLEAN, db : BOOLEAN, speed : BOOLEAN]
  <2>1. Options[runs + 1] \subseteq [resume : BOOLEAN, db : BOOLEAN, speed : BOOLEAN]
    BY <1>1, ScannerAssumption, ElementOfSeq DEF ScannerAssumption
  <2> QED
    BY <2>1 DEF Start
<1>3. IsStored(initial') /\ (~o.resume => DOMAIN initial' = {})
  BY NothingType DEF Start, Resumed, IInv, TypeOK
<1>4. Len(Subnets) \in 0..Len(Subnets) /\ <<>> \in Seq(IPs) /\ res' \in [IPs -> Result]
  BY <1>0, NothingType DEF Start
<1>5. TypeOK'
  BY <1>1, <1>2, <1>3, <1>4 DEF Start, IInv, TypeOK
<1>6. PhaseInv' /\ FreshInv' /\ FileInv'
  BY <1>2, <1>3, EmptyRange DEF Start, PhaseInv, FreshInv, FileInv
<1>7. Submitted' = {} /\ Reported' = {}
  <2>1. 1..Len(Subnets) - todo' = {}
    BY <1>0 DEF Start
  <2>2. Submitted' = {}
    BY <2>1 DEF Submitted
  <2> QED
    BY <2>2, EmptyRange DEF Start, Reported
<1>8. LiveInv' /\ DbInv'
  BY <1>7, EmptyRange DEF Start, LiveInv, DbInv
<1>9. CountInv'
  BY <1>7, FS_EmptySet DEF Start, CountInv
<1> QED
  BY <1>5, <1>6, <1>8, <1>9 DEF IInv

\* A step of the main thread that only moves on.
LEMMA MoveOnInv ==
    ASSUME IInv, phase \notin {"idle", "write", "done"},
           phase' \in {"latency", "wait", "choose", "speed", "close", "join", "save"},
           Live => /\ phase' # "latency" => todo = 0
                   /\ phase' = "wait" => phase = "latency"
                   /\ phase' # "latency"
                   /\ phase' \notin {"wait", "speed"} => \A ip \in IPs : job[ip] = "none",
           phase' # "speed", phase' = "save" => ~writer, phase' # "save" => phase \notin {"join", "save"},
           UNCHANGED <<opts, runs, cancelled, todo, initial, csv, rows, work, sink>>
    PROVE  IInv'
<1> USE DEF IInv, work, sink
<1>1. TypeOK'
  BY DEF TypeOK
<1>2. PhaseInv' /\ FreshInv' /\ FileInv'
  BY DEF PhaseInv, FreshInv, FileInv
<1>3. Submitted' = Submitted /\ Reported' = Reported /\ (Live' => Live)
  BY DEF Submitted, Reported, Live
<1>4. LiveInv'
  BY <1>3 DEF LiveInv
<1>5. CountInv'
  BY <1>3 DEF CountInv
<1>6. DbInv'
  BY <1>3 DEF DbInv
<1> QED
  BY <1>1, <1>2, <1>4, <1>5, <1>6

LEMMA MovingInv == ASSUME IInv, EndSubmit \/ Wait \/ CloseResults \/ Join PROVE IInv'
<1>1. CASE EndSubmit
  BY <1>1, MoveOnInv DEF EndSubmit, Live, IInv, TypeOK
<1>2. CASE Wait
  <2>1. Live => todo = 0 /\ \A ip \in IPs : job[ip] = "none"
    BY <1>2 DEF Wait, Live, IInv, LiveInv
  <2> QED
    BY <1>2, <2>1, MoveOnInv DEF Wait
<1>3. CASE CloseResults
  <2>1. Live => todo = 0 /\ \A ip \in IPs : job[ip] = "none"
    BY <1>3 DEF CloseResults, IInv, LiveInv
  <2> QED
    BY <1>3, <2>1, MoveOnInv DEF CloseResults
<1>4. CASE Join
  <2>1. Live => todo = 0 /\ \A ip \in IPs : job[ip] = "none"
    BY <1>4 DEF Join, IInv, LiveInv
  <2> QED
    BY <1>4, <2>1, MoveOnInv DEF Join
<1> QED
  BY <1>1, <1>2, <1>3, <1>4

LEMMA ChooseInv == ASSUME IInv, ChooseForSpeed PROVE IInv'
<1>0. Live => todo = 0 /\ \A ip \in IPs : job[ip] = "none"
  BY DEF ChooseForSpeed, IInv, LiveInv
<1>1. CASE ~(opts.speed /\ ~cancelled)
  BY <1>0, <1>1, MoveOnInv DEF ChooseForSpeed, work
<1>2. CASE opts.speed /\ ~cancelled
  <2>0. /\ phase = "choose" /\ phase' = "speed" /\ ~cancelled /\ Live
        /\ UNCHANGED <<opts, runs, cancelled, todo, initial, csv, rows, res, channel, completed, sink>>
    BY <1>2 DEF ChooseForSpeed, Live
  <2>1. /\ job' \in [IPs -> {"none", "queued", "busy", "send"}]
        /\ \A ip \in IPs : job'[ip] # "none" => ip \in got
    BY <1>0, <1>2, <2>0 DEF ChooseForSpeed, Top, IInv, TypeOK
  <2> USE <2>0, <2>1 DEF IInv, sink
  <2>2. TypeOK'
    BY DEF TypeOK
  <2>3. PhaseInv' /\ FreshInv' /\ FileInv'
    BY DEF PhaseInv, FreshInv, FileInv
  <2>4. Submitted' = Submitted /\ Reported' = Reported /\ (Live' => Live)
    BY DEF Submitted, Reported, Live
  <2>5. LiveInv'
    <3>1. \A ip \in Submitted : ip \in Reported
      BY <1>0, SubmittedIPs DEF LiveInv
    <3> QED
      BY <1>0, <2>4, <3>1 DEF LiveInv
  <2>6. CountInv'
    BY <2>4 DEF CountInv
  <2>7. DbInv'
    BY <1>0, <2>4 DEF DbInv, TypeOK
  <2> QED
    BY <2>2, <2>3, <2>5, <2>6, <2>7
<1> QED
  BY <1>1, <1>2

\* The next subnet: its addresses are new, and those with a stored result are
\* reported at once.
LEMMA SubmitInv == ASSUME IInv, SubmitSubnet PROVE IInv'
<1>0. Len(Subnets) \in Nat /\ todo \in 1..Len(Subnets)
  BY IPsFacts DEF SubmitSubnet, IInv, TypeOK
<1>1. PICK k \in 1..Len(Subnets) : k = Len(Subnets) + 1 - todo
  BY <1>0
<1>2. PICK subnet : subnet = Subnets[k]
  OBVIOUS
<1>3. /\ phase = "latency" /\ ~cancelled /\ Live /\ todo \in 1..Len(Subnets) /\ todo' = todo - 1
      /\ UNCHANGED <<phase, opts, runs, cancelled, initial, csv, rows, res, channel, sink>>
  BY IPsFacts DEF SubmitSubnet, Live, IInv, TypeOK
<1>4. /\ job' = [ip \in IPs |-> IF ip \in subnet \ DOMAIN initial THEN "queued" ELSE job[ip]]
      /\ completed' = completed + Cardinality(subnet \cap DOMAIN initial)
  BY <1>1, <1>2 DEF SubmitSubnet
<1>5. subnet \subseteq IPs /\ Submitted \subseteq IPs
  BY <1>1, <1>2, IPsFacts, SubmittedIPs DEF IInv
<1>6. Submitted' = Submitted \cup subnet
  <2>1. PICK n \in Nat : n = Len(Subnets) - todo
    BY <1>3, IPsFacts
  <2>2. k = n + 1 /\ Len(Subnets) - todo' = n + 1
    BY <1>1, <1>3, <2>1, IPsFacts
  <2>3. 1..n + 1 = (1..n) \cup {n + 1}
    BY <2>1
  <2>4. Submitted = UNION {Subnets[i] : i \in 1..n}
    BY <2>1 DEF Submitted
  <2>5. Submitted' = UNION {Subnets[i] : i \in 1..n + 1}
    BY <2>2 DEF Submitted
  <2> QED
    BY <1>2, <2>2, <2>3, <2>4, <2>5
<1>7. Reported' = Reported \cup (subnet \cap DOMAIN initial)
  BY <1>3, <1>6 DEF Reported, sink
<1>8. IsFiniteSet(subnet \cap DOMAIN initial) /\ IsFiniteSet(Reported)
  <2>1. Reported \subseteq IPs
    BY <1>5, RangeType DEF Reported, IInv, TypeOK
  <2> QED
    BY <1>5, <2>1, IPsFacts, FS_Subset
<1>9. completed' \in Nat
  BY <1>4, <1>8, FS_CardinalityType DEF IInv, TypeOK
<1> USE DEF IInv, sink
<1>10. TypeOK'
  BY <1>3, <1>4, <1>9, IPsFacts DEF TypeOK
<1>11. PhaseInv' /\ FreshInv' /\ FileInv'
  BY <1>3, <1>4 DEF PhaseInv, FreshInv, FileInv
<1>12. Live' => Live
  BY <1>3 DEF Live
<1>13. LiveInv'
  <2>1. \A ip \in IPs : job'[ip] # "none" => ip \in Submitted'
    BY <1>3, <1>4, <1>6 DEF LiveInv
  <2>2. ASSUME NEW ip \in Submitted' PROVE ip \in Reported' \/ job'[ip] # "none"
    <3>1. ip \in IPs
      BY <1>5, <1>6
    <3>2. CASE ip \in subnet
      BY <1>4, <1>7, <3>1, <3>2
    <3>3. CASE ip \in Submitted /\ ip \notin subnet
      BY <1>3, <1>4, <1>7, <3>1, <3>3 DEF LiveInv
    <3> QED
      BY <1>6, <3>2, <3>3
  <2> QED
    BY <1>3, <1>6, <2>1, <2>2 DEF LiveInv
<1>14. CountInv'
  <2> SUFFICES ASSUME DisjointSubnets
               PROVE  /\ \A ip \in IPs : job'[ip] # "none" => ip \notin Range(channel) \cup got
                      /\ completed' = Cardinality(Reported')
    BY <1>3 DEF CountInv
  <2>1. subnet \cap Submitted = {}
    <3>1. \A i \in 1..Len(Subnets) - todo : i \in 1..Len(Subnets) /\ i # k
      BY <1>1, <1>3, IPsFacts
    <3>2. \A i \in 1..Len(Subnets) - todo : Subnets[i] \cap subnet = {}
      BY <1>2, <3>1 DEF DisjointSubnets
    <3> QED
      BY <3>2 DEF Submitted
  <2>2. Range(channel) \cup got \subseteq Submitted
    BY <1>3 DEF LiveInv
  <2>3. \A ip \in IPs : job'[ip] # "none" => ip \notin Range(channel) \cup got
    BY <1>3, <1>4, <2>1, <2>2 DEF CountInv
  <2>4. Reported \cap (subnet \cap DOMAIN initial) = {}
    BY <2>1, <2>2 DEF Reported
  <2>5. Cardinality(Reported \cup (subnet \cap DOMAIN initial))
          = Cardinality(Reported) + Cardinality(subnet \cap DOMAIN initial)
    <3>1. PICK T : T = subnet \cap DOMAIN initial
      OBVIOUS
    <3>2. IsFiniteSet(T) /\ Reported \cap T = {}
      BY <1>8, <2>4, <3>1
    <3>3. Cardinality(Reported \cup T) = Cardinality(Reported) + Cardinality(T) - Cardinality(Reported \cap T)
      BY <1>8, <3>2, FS_Union
    <3>4. Cardinality(Reported) \in Nat /\ Cardinality(T) \in Nat /\ Cardinality(Reported \cap T) = 0
      BY <1>8, <3>2, FS_CardinalityType, FS_EmptySet
    <3> QED
      BY <3>1, <3>3, <3>4
  <2>6. completed = Cardinality(Reported)
    BY <1>3 DEF CountInv
  <2> QED
    BY <1>4, <1>7, <2>3, <2>5, <2>6
<1>15. DbInv'
  <2>1. DisjointSubnets => \A ip \in got : job[ip] = "none"
    BY <1>3 DEF CountInv, TypeOK
  <2> QED
    BY <1>3, <1>12, <2>1 DEF DbInv
<1> QED
  BY <1>10, <1>11, <1>13, <1>14, <1>15

\* The rows of the file: what was resumed from, and what was taken.
LEMMA CombinedRows ==
    ASSUME IInv
    PROVE  /\ IsStored(Combined) /\ DOMAIN Combined = DOMAIN initial \cup got
           /\ \A ip \in DOMAIN initial : Combined[ip] = initial[ip]
           /\ \A ip \in got : Combined[ip] = res[ip]
<1>1. PICK f : f = IF opts.resume THEN initial ELSE Empty
  OBVIOUS
<1>2. DOMAIN f = DOMAIN initial /\ \A ip \in DOMAIN initial : f[ip] = initial[ip]
  BY <1>1, NothingType DEF IInv, PhaseInv, TypeOK
<1>3. Combined = [ip \in DOMAIN f \cup got |-> IF ip \in got THEN res[ip] ELSE f[ip]]
  BY <1>1 DEF Combined, Overwrite
<1>4. /\ DOMAIN Combined = DOMAIN initial \cup got /\ Combined = [ip \in DOMAIN Combined |-> Combined[ip]]
      /\ \A ip \in DOMAIN initial : Combined[ip] = initial[ip]
      /\ \A ip \in got : Combined[ip] = res[ip]
  BY <1>2, <1>3 DEF IInv, FreshInv
<1>5. DOMAIN Combined \subseteq IPs /\ \A ip \in DOMAIN Combined : Combined[ip] \in Result
  BY <1>4 DEF IInv, TypeOK, IsStored
<1> QED
  BY <1>4, <1>5 DEF IsStored

LEMMA PrepareInv == ASSUME IInv, PrepareRows PROVE IInv'
<1>0. phase = "save" /\ UNCHANGED <<opts, runs, cancelled, todo, initial, completed, sink>> /\ ~writer
  BY DEF PrepareRows, IInv, PhaseInv
<1> USE <1>0 DEF IInv, sink
<1>1. CASE rows' = Combined /\ csv' = Empty /\ phase' = "write" /\ UNCHANGED <<job, res, channel>>
  <2> USE <1>1
  <2>1. TypeOK'
    BY CombinedRows, NothingType DEF TypeOK
  <2>2. PhaseInv' /\ FreshInv' /\ FileInv'
    BY CombinedRows DEF PhaseInv, FreshInv, FileInv
  <2>3. Submitted' = Submitted /\ Reported' = Reported /\ (Live' => Live)
    BY DEF Submitted, Reported, Live
  <2>4. LiveInv' /\ CountInv'
    BY <2>3 DEF LiveInv, CountInv
  <2>5. DbInv'
    BY <2>3, CombinedRows DEF DbInv
  <2> QED
    BY <2>1, <2>2, <2>4, <2>5
<1>2. CASE phase' = "idle" /\ Abandoned /\ UNCHANGED <<csv, rows>>
  <2> USE <1>2 DEF Abandoned
  <2>1. TypeOK'
    BY NothingType DEF TypeOK
  <2>2. PhaseInv' /\ FreshInv' /\ FileInv'
    BY EmptyRange DEF PhaseInv, FreshInv, FileInv
  <2>3. LiveInv' /\ CountInv' /\ DbInv'
    BY DEF LiveInv, CountInv, DbInv, Live
  <2> QED
    BY <2>1, <2>2, <2>3
<1> QED
  BY <1>1, <1>2 DEF PrepareRows

LEMMA WriteInv == ASSUME IInv, WriteRows PROVE IInv'
<1>0. /\ phase = "write" /\ phase' = "done" /\ rows' = Empty /\ ~writer
      /\ job' = [ip \in IPs |-> "none"] /\ res' = [ip \in IPs |-> Nothing] /\ channel' = <<>>
      /\ UNCHANGED <<opts, runs, cancelled, todo, initial, completed, sink>>
  BY DEF WriteRows, Abandoned, IInv, PhaseInv
<1>1. csv' = [ip \in DOMAIN rows |-> IF ip \in got THEN [res[ip] EXCEPT !.error = rows[ip].error] ELSE rows[ip]]
  BY DEF WriteRows
<1>2. DOMAIN rows = DOMAIN initial \cup got /\ \A ip \in DOMAIN initial : rows[ip] = initial[ip] /\ ip \notin got
  BY <1>0 DEF IInv, FileInv, FreshInv
<1>3. IsStored(csv') /\ DOMAIN csv' = DOMAIN initial \cup got /\ \A ip \in DOMAIN initial : csv'[ip] = initial[ip]
  <2>1. \A ip \in DOMAIN rows : ip \in IPs /\ rows[ip] \in Result /\ res[ip] \in Result
    BY DEF IInv, TypeOK, IsStored
  <2>2. \A ip \in DOMAIN rows : [res[ip] EXCEPT !.error = rows[ip].error] \in Result
    BY <2>1 DEF Result
  <2>3. \A ip \in DOMAIN csv' : csv'[ip] \in Result
    BY <1>1, <2>1, <2>2
  <2> QED
    BY <1>1, <1>2, <2>1, <2>3 DEF IsStored
<1> USE <1>0 DEF IInv, sink
<1>4. TypeOK'
  BY <1>3, NothingType DEF TypeOK
<1>5. PhaseInv' /\ FreshInv' /\ FileInv'
  BY <1>3, EmptyRange DEF PhaseInv, FreshInv, FileInv
<1>6. (Live' => Live) /\ (Live => channel = <<>> /\ Reported' = Reported) /\ Submitted' = Submitted
  BY DEF Live, LiveInv, Reported, Submitted
<1>7. LiveInv'
  <2> SUFFICES ASSUME Live PROVE LiveInv'
    BY <1>6 DEF LiveInv
  <2>1. \A ip \in Submitted : ip \in Reported
    BY SubmittedIPs DEF LiveInv
  <2> QED
    BY <1>6, <2>1, EmptyRange DEF LiveInv
<1>8. CountInv'
  BY <1>6 DEF CountInv
<1>9. DbInv'
  <2> SUFFICES ASSUME Live, DisjointSubnets, opts.db, ~failed, NEW ip \in got
               PROVE  ip \in DOMAIN db /\ Agrees(db[ip], csv'[ip])
    BY <1>6 DEF DbInv
  <2>1. channel = <<>> /\ batch = <<>> /\ job[ip] = "none"
    BY <1>6 DEF LiveInv, PhaseInv, TypeOK
  <2>2. ip \in DOMAIN db /\ Agrees(db[ip], res[ip]) /\ rows[ip] = res[ip]
    BY <2>1, EmptyRange DEF DbInv
  <2>3. csv'[ip] = res[ip]
    <3>1. csv'[ip] = [res[ip] EXCEPT !.error = res[ip].error]
      BY <1>1, <1>2, <2>2
    <3>2. res[ip] \in Result
      BY DEF TypeOK
    <3> QED
      BY <3>1, <3>2 DEF Result
  <2> QED
    BY <2>2, <2>3
<1> QED
  BY <1>4, <1>5, <1>7, <1>8, <1>9

\* After a cancellation, and in a process that is gone, nothing is promised but
\* what is stored.
LEMMA CancelInv == ASSUME IInv, Cancel PROVE IInv'
<1> USE DEF IInv, Cancel, sink
<1>1. TypeOK'
  BY DEF TypeOK
<1>2. PhaseInv' /\ FreshInv' /\ FileInv'
  BY DEF PhaseInv, FreshInv, FileInv
<1>3. LiveInv' /\ CountInv' /\ DbInv'
  BY DEF LiveInv, CountInv, DbInv, Live
<1> QED
  BY <1>1, <1>2, <1>3

LEMMA CrashInv == ASSUME IInv, Crash PROVE IInv'
<1> USE DEF IInv, Crash, Abandoned
<1>1. TypeOK'
  <2>1. Len(Subnets) \in Nat /\ <<>> \in Seq(IPs) /\ 0 \in Nat
    BY IPsFacts
  <2>2. 0 \in 0..Len(Subnets)
    BY <2>1
  <2>3. res' \in [IPs -> Result] /\ IsStored(initial') /\ IsStored(rows')
    BY NothingType
  <2>4. job' \in [IPs -> {"none", "queued", "busy", "send"}]
    OBVIOUS
  <2> QED
    BY <2>1, <2>2, <2>3, <2>4 DEF TypeOK
<1>2. PhaseInv' /\ FreshInv' /\ FileInv'
  BY NothingType, EmptyRange DEF PhaseInv, FreshInv, FileInv
<1>3. LiveInv' /\ CountInv' /\ DbInv'
  BY DEF LiveInv, CountInv, DbInv, Live
<1> QED
  BY <1>1, <1>2, <1>3

-----------------------------------------------------------------------------
(* Workers *)

LEMMA WorkerInv ==
    ASSUME IInv, NEW ip \in IPs, job[ip] \in {"queued", "busy"}, NEW j \in {"busy", "send"}, NEW r \in Result,
           job' = [job EXCEPT ![ip] = j], res' = [res EXCEPT ![ip] = r], j = "busy" => r = res[ip],
           UNCHANGED <<main, channel, completed, sink>>
    PROVE  IInv'
<1> USE DEF IInv, main, sink
<1>1. /\ job'[ip] = j /\ res'[ip] = r
      /\ \A i \in IPs : i # ip => job'[i] = job[i] /\ res'[i] = res[i]
  BY DEF TypeOK
<1>2. TypeOK'
  BY DEF TypeOK
<1>3. PhaseInv' /\ FreshInv' /\ FileInv'
  BY <1>1 DEF PhaseInv, FreshInv, FileInv
<1>4. Submitted' = Submitted /\ Reported' = Reported /\ (Live' => Live) /\ Submitted \subseteq IPs
  BY SubmittedIPs DEF Submitted, Reported, Live
<1>5. LiveInv' /\ CountInv'
  BY <1>1, <1>4 DEF LiveInv, CountInv
<1>6. DbInv'
  <2>1. Live => phase \in {"latency", "wait", "speed"}
    BY DEF LiveInv
  <2> QED
    BY <1>1, <1>4, <2>1 DEF DbInv, TypeOK
<1> QED
  BY <1>2, <1>3, <1>5, <1>6

LEMMA BeginInv == ASSUME IInv, NEW ip \in IPs, Begin(ip) PROVE IInv'
<1>1. PICK r \in Result : r = res[ip]
  BY DEF IInv, TypeOK
<1>2. res' = [res EXCEPT ![ip] = r]
  BY <1>1 DEF Begin, IInv, TypeOK
<1> QED
  BY <1>1, <1>2, WorkerInv DEF Begin

LEMMA MeasuredInv == ASSUME IInv, NEW ip \in IPs, Measured(ip) PROVE IInv'
<1>1. PICK r \in IF res[ip] = Nothing THEN scanIPForLatency(ip) ELSE measureSpeed(res[ip]) :
          res' = [res EXCEPT ![ip] = r]
  BY DEF Measured
<1>2. r \in Result
  BY <1>1, ScanType, MeasureType DEF IInv, TypeOK
<1> QED
  BY <1>1, <1>2, WorkerInv DEF Measured

\* The worker's task is over: its result is in the channel, or the scan is cancelled.
LEMMA SendInv == ASSUME IInv, NEW ip \in IPs, Send(ip) PROVE IInv'
<1>0. /\ job[ip] = "send" /\ phase \in {"latency", "wait", "choose", "speed", "close"}
      /\ channel' = Append(channel, ip) /\ completed' = Counted(ip) /\ UNCHANGED <<main, res, sink>>
  BY DEF Send
<1>1. /\ job' \in [IPs -> {"none", "queued", "busy", "send"}] /\ job'[ip] = "none"
      /\ \A i \in IPs : i # ip => job'[i] = job[i]
  BY DEF Send, IInv, TypeOK
<1>2. channel' \in Seq(IPs) /\ Range(channel') = Range(channel) \cup {ip}
  BY <1>0, RangeOfAppend DEF IInv, TypeOK
<1>3. completed' \in Nat
  BY <1>0 DEF Counted, IInv, TypeOK
<1> USE <1>0 DEF IInv, main, sink
<1>4. TypeOK'
  BY <1>1, <1>2, <1>3 DEF TypeOK
<1>5. PhaseInv' /\ FreshInv' /\ FileInv'
  BY <1>1, <1>2 DEF PhaseInv, FreshInv, FileInv
<1>6. Submitted' = Submitted /\ Reported' = Reported \cup {ip} /\ (Live' => Live) /\ Submitted \subseteq IPs
  BY <1>2, SubmittedIPs DEF Submitted, Reported, Live
<1>7. Live => /\ writer /\ ip \in Submitted /\ phase \in {"latency", "wait", "speed"}
              /\ phase = "speed" => ip \in got
  BY DEF LiveInv, TypeOK
<1>8. LiveInv'
  <2> SUFFICES ASSUME Live PROVE LiveInv'
    BY <1>6 DEF LiveInv
  <2>1. \A i \in Submitted : i \in Reported' \/ job'[i] # "none"
    BY <1>1, <1>6 DEF LiveInv
  <2> QED
    BY <1>1, <1>2, <1>6, <1>7, <2>1 DEF LiveInv
<1>9. CountInv'
  <2> SUFFICES ASSUME Live, DisjointSubnets
               PROVE  /\ phase \in {"latency", "wait"} =>
                            \A i \in IPs : job'[i] # "none" => i \notin Range(channel') \cup got
                      /\ completed' = Cardinality(Reported')
    BY <1>6 DEF CountInv
  <2>1. phase \in {"latency", "wait"} => \A i \in IPs : job'[i] # "none" => i \notin Range(channel') \cup got
    BY <1>1, <1>2 DEF CountInv
  <2>2. completed = Cardinality(Reported)
    BY DEF CountInv
  <2>3. CASE ip \in got
    BY <1>6, <2>1, <2>2, <2>3 DEF Counted, Reported
  <2>4. CASE ip \notin got
    <3>1. ip \notin Reported
      BY <1>7, <2>4 DEF CountInv, FreshInv, Reported
    <3>2. Reported \subseteq IPs
      BY <1>6, RangeType DEF Reported, TypeOK
    <3>3. IsFiniteSet(Reported)
      BY <3>2, IPsFacts, FS_Subset
    <3>4. Cardinality(Reported \cup {ip}) = Cardinality(Reported) + 1
      BY <3>1, <3>3, FS_AddElement
    <3> QED
      BY <1>6, <2>1, <2>2, <2>4, <3>4 DEF Counted
  <2> QED
    BY <2>3, <2>4
<1>10. DbInv'
  BY <1>1, <1>2, <1>6, <1>7 DEF DbInv, TypeOK
<1> QED
  BY <1>4, <1>5, <1>8, <1>9, <1>10

LEMMA GiveUpInv == ASSUME IInv, NEW ip \in IPs, GiveUp(ip) PROVE IInv'
<1> USE DEF IInv, GiveUp, main, sink
<1>1. TypeOK'
  BY DEF TypeOK, Counted
<1>2. PhaseInv' /\ FreshInv' /\ FileInv'
  BY DEF PhaseInv, FreshInv, FileInv, TypeOK
<1>3. LiveInv' /\ CountInv' /\ DbInv'
  BY DEF LiveInv, CountInv, DbInv, Live
<1> QED
  BY <1>1, <1>2, <1>3

-----------------------------------------------------------------------------
(* The writer *)

\* The writer keeps the batch b, or saves it: then every row of it agrees with its
\* result, and those that agreed before still do.
LEMMA SaveStep ==
    ASSUME IInv, NEW b \in Seq(IPs), NEW ok \in BOOLEAN,
           saveToDB(b, ok) \/ (batch' = b /\ UNCHANGED <<db, failed>>)
    PROVE  /\ batch' \in Seq(IPs) /\ IsStored(db') /\ failed' \in BOOLEAN /\ (failed => failed')
           /\ saveToDB(b, ok) /\ opts.db => batch' = <<>>
           /\ opts.db /\ ~failed' =>
                \A ip \in IPs :
                   (ip \in Range(b) \/ (ip \in DOMAIN db /\ Agrees(db[ip], res[ip]))) =>
                      ip \in Range(batch') \/ (ip \in DOMAIN db' /\ Agrees(db'[ip], res[ip]))
<1> USE DEF IInv
<1>1. CASE batch' = b /\ UNCHANGED <<db, failed>> /\ (saveToDB(b, ok) /\ opts.db => batch' = <<>>)
  BY <1>1 DEF TypeOK
<1>2. CASE opts.db /\ b # <<>> /\ saveToDB(b, ok) /\ ~ok
  <2>1. batch' = <<>> /\ failed' = TRUE /\ db' = db
    BY <1>2 DEF saveToDB
  <2> QED
    BY <2>1 DEF TypeOK
<1>3. CASE opts.db /\ b # <<>> /\ saveToDB(b, ok) /\ ok
  <2>1. batch' = <<>> /\ failed' = failed /\ db' = UpsertCfScanResultsBatch([ip \in Range(b) |-> DbRow(res[ip])])
    BY <1>3 DEF saveToDB
  <2>2. PICK d : d = db'
    OBVIOUS
  <2>3. /\ IsStored(d) /\ \A ip \in Range(b) : ip \in DOMAIN d /\ Agrees(d[ip], res[ip])
        /\ \A ip \in DOMAIN db \ Range(b) : ip \in DOMAIN d /\ d[ip] = db[ip]
    BY <2>1, <2>2, SavedBatch DEF TypeOK
  <2>4. \A ip \in IPs : (ip \in Range(b) \/ (ip \in DOMAIN db /\ Agrees(db[ip], res[ip]))) =>
                           ip \in DOMAIN d /\ Agrees(d[ip], res[ip])
    BY <2>3
  <2>5. batch' \in Seq(IPs) /\ IsStored(db') /\ failed' \in BOOLEAN /\ (failed => failed')
    BY <2>1, <2>2, <2>3 DEF TypeOK
  <2> QED
    BY <2>1, <2>2, <2>4, <2>5
<1>4. CASE (~opts.db \/ b = <<>>) /\ saveToDB(b, ok)
  BY <1>1, <1>4 DEF saveToDB
<1>5. CASE ~saveToDB(b, ok)
  BY <1>1, <1>5
<1> QED
  BY <1>2, <1>3, <1>4, <1>5

LEMMA WriterTakeInv == ASSUME IInv, NEW ok \in BOOLEAN, WriterTake(ok) PROVE IInv'
<1>1. PICK h : h = Head(channel)
  OBVIOUS
<1>2. h \in IPs /\ channel' \in Seq(IPs) /\ Range(channel) = {h} \cup Range(channel')
  BY <1>1, HeadAndTail DEF WriterTake, IInv, TypeOK
<1>3. PICK b : b = Batched(h)
  OBVIOUS
<1>4. b \in Seq(IPs) /\ (opts.db => Range(b) = Range(batch) \cup {h})
  BY <1>2, <1>3, RangeOfAppend DEF Batched, IInv, TypeOK
<1>5. /\ writer /\ got' = got \cup {h} /\ UNCHANGED <<main, job, res, completed, writer>>
      /\ saveToDB(b, ok) \/ (batch' = b /\ UNCHANGED <<db, failed>>)
  BY <1>1, <1>3 DEF WriterTake
<1>6. /\ batch' \in Seq(IPs) /\ IsStored(db') /\ failed' \in BOOLEAN /\ (failed => failed')
      /\ opts.db /\ ~failed' =>
           \A ip \in IPs :
              (ip \in Range(b) \/ (ip \in DOMAIN db /\ Agrees(db[ip], res[ip]))) =>
                 ip \in Range(batch') \/ (ip \in DOMAIN db' /\ Agrees(db'[ip], res[ip]))
  BY <1>4, <1>5, SaveStep
<1> USE <1>5 DEF IInv, main
<1>7. TypeOK'
  BY <1>2, <1>6 DEF TypeOK
<1>8. phase \notin {"idle", "save", "write", "done"}
  BY DEF PhaseInv
<1>9. PhaseInv' /\ FreshInv' /\ FileInv'
  BY <1>2, <1>8 DEF PhaseInv, FreshInv, FileInv
<1>10. Submitted' = Submitted /\ Reported' = Reported /\ (Live' => Live)
       /\ Range(channel') \cup got' = Range(channel) \cup got
  BY <1>2 DEF Submitted, Reported, Live
<1>11. LiveInv' /\ CountInv'
  BY <1>10 DEF LiveInv, CountInv
<1>12. DbInv'
  <2> SUFFICES ASSUME Live, DisjointSubnets, opts.db, ~failed', NEW ip \in got \cup {h}
               PROVE  \/ ip \in Range(batch') \cup Range(channel') \/ job[ip] = "send"
                      \/ ip \in DOMAIN db' /\ Agrees(db'[ip], res[ip])
    BY <1>8, <1>10 DEF DbInv
  <2>1. ip \in IPs
    BY <1>2 DEF TypeOK
  <2>2. \/ ip \in Range(b) \cup Range(channel') \/ job[ip] = "send"
        \/ ip \in DOMAIN db /\ Agrees(db[ip], res[ip])
    BY <1>2, <1>4, <1>6, <1>8 DEF DbInv
  <2> QED
    BY <1>6, <2>1, <2>2
<1> QED
  BY <1>7, <1>9, <1>11, <1>12

LEMMA WriterSaveInv == ASSUME IInv, NEW ok \in BOOLEAN, WriterTick(ok) \/ WriterStop(ok) PROVE IInv'
<1>1. /\ writer /\ saveToDB(batch, ok) /\ writer' \in BOOLEAN /\ UNCHANGED <<main, work, got>>
      /\ ~writer' => cancelled \/ (phase = "join" /\ channel = <<>>)
  BY DEF WriterTick, WriterStop, IInv, TypeOK
<1>2. /\ batch' \in Seq(IPs) /\ IsStored(db') /\ failed' \in BOOLEAN /\ (failed => failed')
      /\ opts.db => batch' = <<>>
      /\ opts.db /\ ~failed' =>
           \A ip \in IPs :
              (ip \in Range(batch) \/ (ip \in DOMAIN db /\ Agrees(db[ip], res[ip]))) =>
                 ip \in Range(batch') \/ (ip \in DOMAIN db' /\ Agrees(db'[ip], res[ip]))
  <2>1. PICK b \in Seq(IPs) : b = batch
    BY DEF IInv, TypeOK
  <2> QED
    BY <1>1, <2>1, SaveStep
<1> USE <1>1 DEF IInv, main, work
<1>3. TypeOK'
  BY <1>2 DEF TypeOK
<1>4. phase \notin {"idle", "save", "write", "done"}
  BY DEF PhaseInv
<1>5. PhaseInv' /\ FreshInv' /\ FileInv'
  BY <1>2, <1>4 DEF PhaseInv, FreshInv, FileInv
<1>6. Submitted' = Submitted /\ Reported' = Reported /\ (Live' => Live) /\ (Live => ~cancelled)
  BY DEF Submitted, Reported, Live
<1>7. LiveInv' /\ CountInv'
  BY <1>6 DEF LiveInv, CountInv
<1>8. DbInv'
  <2> SUFFICES ASSUME Live, DisjointSubnets, opts.db, ~failed', NEW ip \in got
               PROVE  \/ ip \in Range(batch') \cup Range(channel) \/ job[ip] = "send"
                      \/ ip \in DOMAIN db' /\ Agrees(db'[ip], res[ip])
    BY <1>4, <1>6 DEF DbInv
  <2>1. ip \in IPs
    BY DEF TypeOK
  <2>2. \/ ip \in Range(batch) \cup Range(channel) \/ job[ip] = "send"
        \/ ip \in DOMAIN db /\ Agrees(db[ip], res[ip])
    BY <1>2, <1>4 DEF DbInv
  <2> QED
    BY <1>2, <2>1, <2>2
<1> QED
  BY <1>3, <1>5, <1>7, <1>8

-----------------------------------------------------------------------------
(* The specification *)

LEMMA ScannerInductive == IInv /\ [Next]_vars => IInv'
<1> SUFFICES ASSUME IInv, [Next]_vars PROVE IInv'
  OBVIOUS
<1>1. ASSUME NEW o \in UNION Range(Options), Start(o) PROVE IInv'
  BY <1>1, StartInv
<1>2. CASE SubmitSubnet
  BY <1>2, SubmitInv
<1>3. CASE EndSubmit \/ Wait \/ CloseResults \/ Join
  BY <1>3, MovingInv
<1>4. CASE ChooseForSpeed
  BY <1>4, ChooseInv
<1>5. CASE PrepareRows
  BY <1>5, PrepareInv
<1>6. CASE WriteRows
  BY <1>6, WriteInv
<1>7. CASE Cancel
  BY <1>7, CancelInv
<1>8. CASE Crash
  BY <1>8, CrashInv
<1>9. ASSUME NEW ip \in IPs, Begin(ip) \/ Measured(ip) \/ Send(ip) \/ GiveUp(ip) PROVE IInv'
  BY <1>9, BeginInv, MeasuredInv, SendInv, GiveUpInv
<1>10. ASSUME NEW ok \in BOOLEAN, WriterTake(ok) \/ WriterTick(ok) \/ WriterStop(ok) PROVE IInv'
  BY <1>10, WriterTakeInv, WriterSaveInv
<1>11. CASE UNCHANGED vars
  BY <1>11 DEF vars, main, work, sink, IInv, TypeOK, PhaseInv, FreshInv, FileInv, LiveInv, CountInv, DbInv,
               Live, Submitted, Reported
<1> QED
  BY <1>1, <1>2, <1>3, <1>4, <1>5, <1>6, <1>7, <1>8, <1>9, <1>10, <1>11 DEF Next

\* The scanner is always in a state that the inductive invariant describes; in
\* particular its variables have their types.
THEOREM ScannerInvariant == Spec => []IInv
<1> QED
  BY ScannerInit, ScannerInductive, PTL DEF Spec

\* When no address is in two subnets: the file that saveResultsToCSV leaves has every
\* result the writer took and every result the scan resumed from, unchanged, whatever
\* was cancelled or crashed before; and when nothing interrupted the scan, it has every
\* address, and each was reported as scanned once.
THEOREM FinalFileSafe == DisjointSubnets => (Spec => []FinalFile)
<1> SUFFICES ASSUME DisjointSubnets PROVE Spec => []FinalFile
  OBVIOUS
<1>1. IInv => FinalFile
  <2> SUFFICES ASSUME IInv, phase = "done"
               PROVE  /\ got \subseteq DOMAIN csv
                      /\ \A ip \in DOMAIN initial : ip \in DOMAIN csv /\ csv[ip] = initial[ip]
                      /\ ~cancelled => DOMAIN csv = IPs /\ completed = Cardinality(IPs)
    BY DEF FinalFile
  <2>1. DOMAIN csv = DOMAIN initial \cup got /\ \A ip \in DOMAIN initial : csv[ip] = initial[ip]
    BY DEF IInv, FileInv
  <2>2. ASSUME ~cancelled PROVE DOMAIN csv = IPs /\ completed = Cardinality(IPs)
    <3>1. Live /\ todo = 0 /\ channel = <<>> /\ \A ip \in IPs : job[ip] = "none"
      BY <2>2 DEF IInv, LiveInv, PhaseInv, Live
    <3>2. Submitted = IPs
      <4>1. 1..Len(Subnets) - todo = DOMAIN Subnets
        BY <3>1, ScannerAssumption DEF ScannerAssumption
      <4> QED
        BY <4>1 DEF Submitted, IPs
    <3>3. Reported = (IPs \cap DOMAIN initial) \cup got
      BY <3>1, <3>2, EmptyRange DEF Reported
    <3>4. \A ip \in IPs : ip \in Reported
      BY <3>1, <3>2 DEF IInv, LiveInv
    <3>5. DOMAIN initial \subseteq IPs /\ got \subseteq IPs
      BY DEF IInv, TypeOK, IsStored
    <3>6. Reported = IPs /\ DOMAIN csv = IPs
      BY <2>1, <3>3, <3>4, <3>5
    <3> QED
      BY <3>1, <3>6 DEF IInv, CountInv
  <2> QED
    BY <2>1, <2>2
<1> QED
  BY <1>1, ScannerInvariant, PTL

\* When no address is in two subnets: the batches that saveToDB wrote on the way agree
\* with the file written at the end, although a speed test changes results that were
\* saved already, unless a save failed or the scan was interrupted.
THEOREM DbAgreesSafe == DisjointSubnets => (Spec => []DbAgrees)
<1> SUFFICES ASSUME DisjointSubnets PROVE Spec => []DbAgrees
  OBVIOUS
<1>1. IInv => DbAgrees
  BY DEF IInv, DbInv, Live, Agrees, DbAgrees
<1> QED
  BY <1>1, ScannerInvariant, PTL

=============================================================================
