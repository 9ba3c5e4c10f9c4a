--------------------------- MODULE RunModesProofs ---------------------------
(***************************************************************************)
(* The single and chain modes, bare and inside a tunnel, for every pool,   *)
(* chain length, number of attempts and network behaviour: what a runner   *)
(* keeps in every state, what a rotation may change, and that every mode   *)
(* implements the abstract listener.                                       *)
(***************************************************************************)
EXTENDS Tunnel, SequenceTheorems, TLAPS

\* Positions at which a route has been selected and is not up yet.
Underway == {"dial", "probe", "build", "release", "start"}

PoolModes == {"none", "exit", "full"}

\* A route under way, and the one a runner that was up can start again, is not
\* empty: an empty one would be confused with the nil instance.
CandInv == ready \/ pc \in Underway => cand # NoRoute

\* Who has the port in each phase.
ServingInv ==
    /\ pc = "release" => cur # NoRoute
    /\ pc \in {"start", "done"} => cur = NoRoute
    /\ pc = "wait" => ready
    /\ pc = "wait" /\ status = "idle" => cur = active /\ cur # NoRoute
    /\ mode \notin Rotating => status = "idle"

\* A chain of the pool is one selectChainFromPool could have returned, however
\* it was put together.
PoolInv == mode \in PoolModes => \A r \in {cand, cur, active} \ {NoRoute} : r \in PoolChains

\* The hops that exit rotation keeps.
FixedHops == fixed \in [1..NumHops - 1 -> parsable] /\ Distinct(fixed)

\* Exit rotation: the chain shown, and the one under way, extend the fixed hops;
\* the one under way by another exit than the one shown.
ExitInv ==
    mode = "exit" =>
        /\ ready \/ pc \in Underway => FixedHops
        /\ pc \in Underway => Front(cand) = fixed /\ (ready => Last(cand) # lastExit)
        /\ ready => active # NoRoute /\ Front(active) = fixed /\ Last(active) = lastExit
        /\ ~ready => active = NoRoute

IInv == TypeOK /\ NoOrphan /\ CandInv /\ ServingInv /\ PoolInv /\ ExitInv

-----------------------------------------------------------------------------
(* Routes *)

LEMMA NumHopsType == NumHops \in Nat /\ NumHops >= 2
  BY ModesAssumption DEF NumHops

LEMMA LimitsType == MaxAttempts \in Nat /\ Threshold \in Nat /\ Threshold > 0
  BY ModesAssumption DEF MaxAttempts, Threshold

\* A function on 1..n is a sequence of length n.
LEMMA FunctionIsSeq ==
    ASSUME NEW S, NEW n \in Nat, NEW r \in [1..n -> S]
    PROVE  r \in Seq(S) /\ Len(r) = n
<1>1. r \in Seq(S)
  BY SeqDef
<1>2. Len(r) \in Nat /\ 1..Len(r) = 1..n
  BY <1>1, LenProperties
<1>3. \A i \in Nat : i \in 1..Len(r) <=> i \in 1..n
  BY <1>2
<1>4. PICK k \in Nat : k = Len(r)
  BY <1>2
<1>5. k = n
  <2>1. k <= n
    BY <1>3, <1>4
  <2>2. n <= k
    BY <1>3, <1>4
  <2> QED
    BY <2>1, <2>2
<1> QED
  BY <1>1, <1>4, <1>5

\* Front and Last take a non-empty route apart.
LEMMA FrontElement ==
    ASSUME NEW S, NEW n \in Nat, n > 0, NEW r \in [1..n -> S], NEW i \in 1..n - 1
    PROVE  Front(r)[i] = r[i]
<1>1. Len(r) = n
  BY FunctionIsSeq
<1>2. \A k \in 1 .. n - 1 : r[k] \in S
  OBVIOUS
<1>3. 1 \in Int /\ n - 1 \in Int
  OBVIOUS
<1>4. \A k \in 1 .. n - 1 - 1 + 1 : SubSeq(r, 1, n - 1)[k] = r[1 + k - 1]
  BY ONLY <1>2, <1>3, SubSeqProperties
<1> QED
  BY <1>1, <1>4 DEF Front

LEMMA FrontLast ==
    ASSUME NEW S, NEW n \in Nat, n > 0, NEW r \in [1..n -> S]
    PROVE  Front(r) \in [1..n - 1 -> S] /\ Last(r) = r[n] /\ r[n] \in S /\ r # NoRoute
<1>1. r \in Seq(S) /\ Len(r) = n
  BY FunctionIsSeq
<1>2. Last(r) = r[n] /\ r[n] \in S /\ r # NoRoute
  BY <1>1 DEF Last, NoRoute
<1>3. \A i \in 1 .. n - 1 : r[i] \in S
  OBVIOUS
<1>4. 1 \in Int /\ n - 1 \in Int
  OBVIOUS
<1>5. /\ SubSeq(r, 1, n - 1) \in Seq(S)
      /\ Len(SubSeq(r, 1, n - 1)) = IF 1 <= n - 1 THEN n - 1 - 1 + 1 ELSE 0
  BY ONLY <1>3, <1>4, SubSeqProperties
<1>6. PICK f : f = SubSeq(r, 1, n - 1)
  OBVIOUS
<1>7. f \in Seq(S) /\ Len(f) = n - 1
  BY <1>5, <1>6
<1>8. f \in [1..n - 1 -> S]
  BY <1>7, LenProperties
<1>9. Front(r) = f
  BY <1>1, <1>6 DEF Front
<1> QED
  BY <1>2, <1>8, <1>9

\* Append puts it together.
LEMMA AppendElement ==
    ASSUME NEW S, NEW n \in Nat, NEW f \in [1..n -> S], NEW x \in S, NEW i \in 1..n
    PROVE  Append(f, x)[i] = f[i]
<1>1. f \in Seq(S) /\ Len(f) = n
  BY FunctionIsSeq
<1> QED
  BY <1>1, AppendProperties

LEMMA FrontLastAppend ==
    ASSUME NEW S, NEW n \in Nat, NEW f \in [1..n -> S], NEW x \in S
    PROVE  /\ Append(f, x) \in [1..n + 1 -> S] /\ Front(Append(f, x)) = f /\ Last(Append(f, x)) = x
           /\ Append(f, x)[n + 1] = x
<1>1. f \in Seq(S) /\ Len(f) = n
  BY FunctionIsSeq
<1>2. PICK a : a = Append(f, x)
  OBVIOUS
<1>3. a \in Seq(S) /\ Len(a) = n + 1 /\ a[n + 1] = x /\ \A i \in 1..n : a[i] = f[i]
  BY <1>1, <1>2, AppendProperties
<1>4. PICK k \in Nat : k = n + 1 /\ k > 0 /\ k - 1 = n
  OBVIOUS
<1>5. a \in [1..k -> S]
  BY <1>3, <1>4, LenProperties
<1>6. Front(a) \in [1..k - 1 -> S] /\ Last(a) = a[k]
  BY <1>4, <1>5, FrontLast
<1>7. \A i \in 1..k - 1 : Front(a)[i] = a[i]
  BY <1>4, <1>5, FrontElement
<1>8. PICK g : g = Front(a)
  OBVIOUS
<1>9. g = f
  BY <1>3, <1>4, <1>6, <1>7, <1>8
<1> QED
  BY <1>2, <1>3, <1>4, <1>5, <1>6, <1>8, <1>9

\* What a chain of the pool is: a route of the full length, without a link twice,
\* of links that parse; and what is left of it without its exit.
LEMMA PoolChainFacts ==
    ASSUME parsable \in SUBSET Links, NEW r \in PoolChains
    PROVE  /\ r \in Routes /\ r # NoRoute /\ Len(r) = NumHops /\ Distinct(r) /\ Hops(r) \subseteq parsable
           /\ Last(r) \in parsable
           /\ Front(r) \in [1..NumHops - 1 -> parsable] /\ Distinct(Front(r))
<1>1. NumHops \in Nat /\ NumHops > 0 /\ r \in [1..NumHops -> parsable] /\ Distinct(r)
  BY NumHopsType DEF PoolChains
<1>2. Len(r) = NumHops
  BY <1>1, FunctionIsSeq
<1>3. /\ Front(r) \in [1..NumHops - 1 -> parsable] /\ Last(r) = r[NumHops] /\ r[NumHops] \in parsable
      /\ r # NoRoute
  BY <1>1, FrontLast
<1>4. r \in Routes
  BY <1>1 DEF Routes
<1>5. Hops(r) \subseteq parsable
  BY <1>1, <1>2 DEF Hops
<1>6. Distinct(Front(r))
  <2>1. NumHops - 1 \in Nat
    BY NumHopsType
  <2>2. Len(Front(r)) = NumHops - 1
    BY <1>3, <2>1, FunctionIsSeq
  <2>3. PICK g : g = Front(r)
    OBVIOUS
  <2>4. ASSUME NEW i \in 1..NumHops - 1, NEW j \in 1..NumHops - 1, g[i] = g[j] PROVE i = j
    <3>1. r[i] = r[j] /\ i \in 1..Len(r) /\ j \in 1..Len(r)
      BY <1>1, <1>2, <2>3, <2>4, FrontElement
    <3> QED
      BY <1>1, <3>1 DEF Distinct
  <2> QED
    BY <2>2, <2>3, <2>4 DEF Distinct
<1> QED
  BY <1>1, <1>2, <1>3, <1>4, <1>5, <1>6

\* An exit that is not among the fixed hops makes a chain of the pool with them.
LEMMA ExitExtends ==
    ASSUME parsable \in SUBSET Links, FixedHops, NEW l \in ExitHops
    PROVE  /\ Append(fixed, l) \in PoolChains /\ Front(Append(fixed, l)) = fixed
           /\ Last(Append(fixed, l)) = l /\ l # lastExit
<1>1. PICK n \in Nat : n = NumHops - 1 /\ NumHops = n + 1
  BY NumHopsType
<1>2. fixed \in [1..n -> parsable] /\ Distinct(fixed) /\ Len(fixed) = n
  BY <1>1, FunctionIsSeq DEF FixedHops
<1>3. l \in parsable /\ l # lastExit /\ \A i \in 1..n : fixed[i] # l
  BY <1>2 DEF ExitHops, Hops
<1>4. PICK a : a = Append(fixed, l)
  OBVIOUS
<1>5. /\ a \in [1..n + 1 -> parsable] /\ Front(a) = fixed /\ Last(a) = l
      /\ (\A i \in 1..n : a[i] = fixed[i]) /\ a[n + 1] = l
  <2>1. n \in Nat /\ fixed \in [1..n -> parsable] /\ l \in parsable
    BY <1>2, <1>3
  <2>2. /\ Append(fixed, l) \in [1..n + 1 -> parsable] /\ Front(Append(fixed, l)) = fixed
        /\ Last(Append(fixed, l)) = l /\ Append(fixed, l)[n + 1] = l
    <3>1. Append(fixed, l) \in [1..n + 1 -> parsable]
      BY ONLY <2>1, FrontLastAppend
    <3>2. Front(Append(fixed, l)) = fixed
      BY ONLY <2>1, FrontLastAppend
    <3>3. Append(fixed, l)[n + 1] = l
      BY ONLY <2>1, FrontLastAppend
    <3>4. Last(Append(fixed, l)) = l
      <4>1. Len(Append(fixed, l)) = n + 1
        BY <3>1, FunctionIsSeq
      <4> QED
        BY <3>3, <4>1 DEF Last
    <3> QED
      BY <3>1, <3>2, <3>3, <3>4
  <2>3. \A i \in 1..n : a[i] = fixed[i]
    BY <1>4, <2>1, AppendElement
  <2> QED
    BY <1>4, <2>2, <2>3
<1>6. Distinct(a)
  <2>1. Len(a) = n + 1
    BY <1>5, FunctionIsSeq
  <2>2. ASSUME NEW i \in 1..n + 1, NEW j \in 1..n + 1, a[i] = a[j] PROVE i = j
    <3>1. CASE i \in 1..n /\ j \in 1..n
      BY <1>2, <1>5, <2>2, <3>1 DEF Distinct
    <3>2. CASE i \in 1..n /\ j = n + 1
      BY <1>3, <1>5, <2>2, <3>2
    <3>3. CASE i = n + 1 /\ j \in 1..n
      BY <1>3, <1>5, <2>2, <3>3
    <3> QED
      BY <3>1, <3>2, <3>3
  <2> QED
    BY <2>1, <2>2 DEF Distinct
<1> QED
  BY <1>1, <1>3, <1>4, <1>5, <1>6 DEF PoolChains

-----------------------------------------------------------------------------
(* The inductive invariant *)

LEMMA RunnerInit == Init => IInv
<1> SUFFICES ASSUME Init PROVE IInv
  OBVIOUS
<1>1. TypeOK
  <2>1. NoRoute \in Seq(Links)
    BY DEF NoRoute
  <2>2. 0 \in 0..MaxAttempts /\ 0 < Threshold
    BY LimitsType
  <2> QED
    BY <2>1, <2>2 DEF Init, TypeOK
<1>2. NoOrphan /\ CandInv /\ ServingInv
  BY DEF Init, NoOrphan, Current, CandInv, ServingInv, Underway
<1>3. PoolInv /\ ExitInv
  BY DEF Init, PoolInv, ExitInv, Underway
<1> QED
  BY <1>1, <1>2, <1>3 DEF IInv

\* A return, with no instance left besides the one its deferred Close takes down.
LEMMA ReturnInv ==
    ASSUME IInv, NEW res \in {"nil", "err"}, NEW rest, rest \ Current = {}, Return(res, rest),
           UNCHANGED <<env, ready, active, chosen, attempt, healthFails>>
    PROVE  IInv'
<1> USE DEF IInv, Return, env, chosen
<1>1. TypeOK'
  BY DEF TypeOK
<1>2. NoOrphan'
  BY DEF NoOrphan, Current, Instance
<1>3. CandInv' /\ ServingInv'
  BY DEF CandInv, ServingInv, Underway
<1>4. PoolInv'
  BY DEF PoolInv, PoolChains
<1>5. ExitInv'
  BY DEF ExitInv, FixedHops, Underway
<1> QED
  BY <1>1, <1>2, <1>3, <1>4, <1>5

\* A stall keeps the current instance, if there is one, and nothing else.
LEMMA StallInv ==
    ASSUME IInv, NEW rest, rest = Current, Stall(rest), ready, mode \in Rotating,
           UNCHANGED <<env, ready, active, chosen, attempt, healthFails>>
    PROVE  IInv'
<1> USE DEF IInv, Stall, env, chosen
<1>1. TypeOK'
  BY DEF TypeOK, Current, Instance, NoRoute
<1>2. NoOrphan'
  BY DEF NoOrphan, Current, Instance
<1>3. CandInv' /\ ServingInv'
  BY DEF CandInv, ServingInv, Underway, Rotating
<1>4. PoolInv'
  BY DEF PoolInv, PoolChains
<1>5. ExitInv'
  BY DEF ExitInv, FixedHops, Underway
<1> QED
  BY <1>1, <1>2, <1>3, <1>4, <1>5

LEMMA FailInv ==
    ASSUME IInv, NEW rest, rest = Current, Fail(rest),
           UNCHANGED <<env, ready, active, chosen, attempt, healthFails>>
    PROVE  IInv'
<1>1. CASE ready /\ mode \in Rotating
  BY <1>1, StallInv DEF Fail
<1>2. CASE ~(ready /\ mode \in Rotating)
  <2>1. rest \ Current = {} /\ Return("err", rest) /\ "err" \in {"nil", "err"}
    BY <1>2 DEF Fail
  <2> QED
    BY <2>1, ReturnInv
<1> QED
  BY <1>1, <1>2

\* A new route is selected: the runner goes on to dial or to build it.
LEMMA SelectedInv ==
    ASSUME IInv, pc = "select", pc' \in {"dial", "build"},
           cand' \in Routes, cand' # NoRoute, cand' \in PoolChains \/ mode \notin PoolModes,
           attempt' \in 0..MaxAttempts,
           active' = active \/ (mode = "single" /\ active' = cand'),
           fixed' = fixed \/ fixed' \in Seq(Links),
           mode = "exit" =>
               /\ fixed' \in [1..NumHops - 1 -> parsable] /\ Distinct(fixed') /\ Front(cand') = fixed'
               /\ ready => fixed' = fixed /\ Last(cand') # lastExit,
           mode # "exit" => fixed' = fixed,
           UNCHANGED <<env, status, ready, result, cur, lastExit, healthFails, insts>>
    PROVE  IInv'
<1> USE DEF IInv, env
<1>1. TypeOK'
  BY DEF TypeOK
<1>2. NoOrphan'
  BY DEF NoOrphan, Current, Instance
<1>3. CandInv' /\ ServingInv'
  BY DEF CandInv, ServingInv, Underway, Rotating
<1>4. PoolInv'
  <2>1. PoolChains' = PoolChains
    BY DEF PoolChains
  <2> QED
    BY <2>1 DEF PoolInv, PoolModes
<1>5. ExitInv'
  BY DEF ExitInv, FixedHops, Underway
<1> QED
  BY <1>1, <1>2, <1>3, <1>4, <1>5

LEMMA SelectingOnly == ASSUME IInv, pc = "select" PROVE insts = Current
  BY DEF IInv, NoOrphan

LEMMA SelectSingleInv == ASSUME IInv, SelectSingle PROVE IInv'
<1>1. PICK l \in Links :
        \/ /\ l \in parsable
           /\ cand' = <<l>> /\ active' = <<l>>
           /\ pc' = "build"
           /\ UNCHANGED <<status, result, cur, insts>>
        \/ /\ l \notin parsable
           /\ Return("err", insts)
           /\ UNCHANGED <<cand, active>>
  BY DEF SelectSingle
<1>2. CASE pc' = "build" /\ cand' = <<l>> /\ active' = <<l>> /\ UNCHANGED <<status, result, cur, insts>>
  <2>1. <<l>> \in Routes /\ <<l>> # NoRoute
    BY DEF Routes, NoRoute
  <2>2. attempt' \in 0..MaxAttempts
    BY DEF SelectSingle, IInv, TypeOK
  <2> QED
    BY <1>2, <2>1, <2>2, SelectedInv DEF SelectSingle, PoolModes
<1>3. CASE Return("err", insts) /\ UNCHANGED <<cand, active>>
  <2>1. PICK rest : rest = insts
    OBVIOUS
  <2>2. rest \ Current = {} /\ Return("err", rest)
    BY <1>3, <2>1, SelectingOnly DEF SelectSingle
  <2> QED
    BY <1>3, <2>2, ReturnInv DEF SelectSingle, chosen
<1> QED
  BY <1>1, <1>2, <1>3

LEMMA SelectFixedInv == ASSUME IInv, SelectFixed PROVE IInv'
<1>1. CASE ResolvesFixed /\ cand' = Resolved /\ pc' = "build" /\ UNCHANGED <<status, result, cur, insts>>
  <2>1. Resolved \in Routes /\ Resolved # NoRoute
    BY <1>1 DEF Routes, NoRoute, ResolvesFixed
  <2>2. attempt' \in 0..MaxAttempts
    BY DEF SelectFixed, IInv, TypeOK
  <2> QED
    BY <1>1, <2>1, <2>2, SelectedInv DEF SelectFixed, PoolModes
<1>2. CASE Return("err", insts) /\ UNCHANGED cand
  <2>1. PICK rest : rest = insts
    OBVIOUS
  <2>2. rest \ Current = {} /\ Return("err", rest)
    BY <1>2, <2>1, SelectingOnly DEF SelectFixed
  <2> QED
    BY <1>2, <2>2, ReturnInv DEF SelectFixed, chosen
<1> QED
  BY <1>1, <1>2 DEF SelectFixed

LEMMA SelectFromPoolInv == ASSUME IInv, SelectFromPool PROVE IInv'
<1>1. CASE /\ cand' \in PoolChains
           /\ fixed' = IF mode = "exit" THEN Front(cand') ELSE fixed
           /\ pc' = IF mode = "exit" THEN "dial" ELSE "build"
           /\ UNCHANGED <<status, result, cur, insts>>
  <2>1. /\ cand' \in Routes /\ cand' # NoRoute
        /\ Front(cand') \in [1..NumHops - 1 -> parsable] /\ Distinct(Front(cand'))
    BY <1>1, PoolChainFacts DEF IInv, TypeOK
  <2>2. Front(cand') \in Seq(Links)
    <3>1. parsable \subseteq Links /\ NumHops - 1 \in Nat
      BY NumHopsType DEF IInv, TypeOK
    <3>2. Front(cand') \in [1..NumHops - 1 -> Links]
      BY <2>1, <3>1
    <3> QED
      BY <3>1, <3>2, FunctionIsSeq
  <2>3. attempt' \in 0..MaxAttempts
    BY DEF SelectFromPool, IInv, TypeOK
  <2>4. pc = "select" /\ ready = FALSE
    BY DEF SelectFromPool, IInv, TypeOK
  <2> QED
    BY <1>1, <2>1, <2>2, <2>3, <2>4, SelectedInv DEF SelectFromPool
<1>2. CASE Return("err", insts) /\ UNCHANGED <<cand, fixed>>
  <2>1. PICK rest : rest = insts
    OBVIOUS
  <2>2. rest \ Current = {} /\ Return("err", rest)
    BY <1>2, <2>1, SelectingOnly DEF SelectFromPool
  <2> QED
    BY <1>2, <2>2, ReturnInv DEF SelectFromPool, chosen
<1> QED
  BY <1>1, <1>2 DEF SelectFromPool

LEMMA SelectExitInv == ASSUME IInv, SelectExit PROVE IInv'
<1>1. ASSUME NEW l \in ExitHops, cand' = Append(fixed, l), pc' = "dial",
             UNCHANGED <<status, result, cur, insts>>
      PROVE  IInv'
  <2>1. parsable \in SUBSET Links /\ FixedHops
    BY DEF SelectExit, IInv, TypeOK, ExitInv
  <2>2. cand' \in PoolChains /\ Front(cand') = fixed /\ Last(cand') # lastExit
    BY <1>1, <2>1, ExitExtends
  <2>3. cand' \in Routes /\ cand' # NoRoute
    BY <2>1, <2>2, PoolChainFacts
  <2>4. attempt' \in 0..MaxAttempts
    BY DEF SelectExit, IInv, TypeOK
  <2> QED
    BY <1>1, <2>1, <2>2, <2>3, <2>4, SelectedInv DEF SelectExit, FixedHops
<1>2. CASE Stall(insts) /\ UNCHANGED cand
  <2>1. PICK rest : rest = insts
    OBVIOUS
  <2>2. rest = Current /\ Stall(rest)
    BY <1>2, <2>1, SelectingOnly DEF SelectExit
  <2> QED
    BY <1>2, <2>2, StallInv DEF SelectExit, chosen, Rotating
<1> QED
  BY <1>1, <1>2 DEF SelectExit

LEMMA SelectFullInv == ASSUME IInv, SelectFull PROVE IInv'
<1>1. CASE /\ attempt < MaxAttempts /\ ~cancelled
           /\ attempt' = attempt + 1
           /\ \/ cand' \in PoolChains /\ pc' = "dial"
              \/ PoolChains = {} /\ UNCHANGED <<cand, pc>>
           /\ UNCHANGED <<status, result, cur, insts>>
  <2>1. attempt' \in 0..MaxAttempts
    BY <1>1, LimitsType DEF IInv, TypeOK
  <2>2. CASE cand' \in PoolChains /\ pc' = "dial"
    <3>1. cand' \in Routes /\ cand' # NoRoute
      BY <2>2, PoolChainFacts DEF IInv, TypeOK
    <3> QED
      BY <1>1, <2>1, <2>2, <3>1, SelectedInv DEF SelectFull
  <2>3. CASE UNCHANGED <<cand, pc>>
    <3> USE <1>1, <2>3 DEF IInv, SelectFull, env
    <3>1. TypeOK'
      BY <2>1 DEF TypeOK
    <3>2. NoOrphan' /\ CandInv' /\ ServingInv'
      BY DEF NoOrphan, Current, CandInv, ServingInv
    <3>3. PoolInv' /\ ExitInv'
      BY DEF PoolInv, PoolChains, ExitInv
    <3> QED
      BY <3>1, <3>2, <3>3
  <2> QED
    BY <1>1, <2>2, <2>3
<1>2. CASE /\ attempt >= MaxAttempts \/ cancelled
           /\ Fail(insts)
           /\ UNCHANGED <<cand, attempt>>
  <2>1. PICK rest : rest = insts
    OBVIOUS
  <2>2. rest = Current /\ Fail(rest)
    BY <1>2, <2>1, SelectingOnly DEF SelectFull
  <2> QED
    BY <1>2, <2>2, FailInv DEF SelectFull, chosen
<1> QED
  BY <1>1, <1>2 DEF SelectFull

\* A step from one position under way to another, with the instances that belong
\* to the new one.
LEMMA UnderwayInv ==
    ASSUME IInv, pc \in Underway, pc' \in Underway, NoOrphan',
           insts' \subseteq insts \cup [route : {cand}, st : {"probe", "made"}],
           cur' = cur \/ cur' = NoRoute,
           pc' = "release" => cur' # NoRoute, pc' = "start" => cur' = NoRoute,
           UNCHANGED <<env, status, ready, result, active, chosen, attempt, healthFails>>
    PROVE  IInv'
<1> USE DEF IInv, env, chosen
<1>1. cand \in Routes
  BY DEF CandInv, TypeOK
<1>2. TypeOK'
  <2>1. insts' \in SUBSET [route : Routes, st : {"probe", "made", "listening"}]
    BY <1>1 DEF TypeOK
  <2>2. pc' \in {"select", "dial", "probe", "build", "release", "start", "wait", "done"}
    BY DEF Underway
  <2> QED
    BY <2>1, <2>2 DEF TypeOK
<1>3. CandInv' /\ ServingInv'
  BY DEF CandInv, ServingInv, Underway
<1>4. PoolInv'
  BY DEF PoolInv, PoolChains
<1>5. ExitInv'
  BY DEF ExitInv, FixedHops
<1> QED
  BY <1>2, <1>3, <1>4, <1>5

LEMMA DialChainInv == ASSUME IInv, DialChain PROVE IInv'
<1> USE DEF IInv, DialChain
<1>1. NoOrphan'
  BY DEF NoOrphan, Current, Instance, chosen
<1>2. insts' \subseteq insts \cup [route : {cand}, st : {"probe", "made"}]
  BY DEF Instance
<1> QED
  BY <1>1, <1>2, UnderwayInv DEF Underway

LEMMA ProbePassesInv == ASSUME IInv, ProbePasses PROVE IInv'
<1> USE DEF IInv, ProbePasses
<1>1. NoOrphan'
  BY DEF NoOrphan, Current, Instance, chosen
<1> QED
  BY <1>1, UnderwayInv DEF Underway

LEMMA BuildInv == ASSUME IInv, Build PROVE IInv'
<1> USE DEF IInv, Build
<1>1. NoOrphan'
  BY DEF NoOrphan, Current, Instance, chosen
<1>2. insts' \subseteq insts \cup [route : {cand}, st : {"probe", "made"}]
  BY DEF Instance
<1> QED
  BY <1>1, <1>2, UnderwayInv DEF Underway

LEMMA ReleaseInv == ASSUME IInv, Release PROVE IInv'
<1> USE DEF IInv, Release
<1>1. NoOrphan'
  BY DEF NoOrphan, Current, Instance, chosen
<1> QED
  BY <1>1, UnderwayInv DEF Underway

\* The steps that end in an error without anything left of the candidate.
LEMMA NextAttemptInv ==
    ASSUME IInv, NEW rest, rest = Current, NextAttempt(rest), pc \in {"dial", "probe"},
           UNCHANGED <<env, ready, active, chosen, attempt, healthFails>>
    PROVE  IInv'
<1>1. CASE mode = "exit" /\ Fail(rest)
  BY <1>1, FailInv
<1>2. CASE mode = "full" /\ pc' = "select" /\ insts' = rest /\ UNCHANGED <<status, result, cur>>
  <2> USE <1>2 DEF IInv, env, chosen
  <2>1. TypeOK'
    BY DEF TypeOK, Current, Instance, NoRoute
  <2>2. NoOrphan'
    BY DEF NoOrphan, Current
  <2>3. CandInv' /\ ServingInv'
    BY DEF CandInv, ServingInv, Underway
  <2>4. PoolInv' /\ ExitInv'
    BY DEF PoolInv, PoolChains, ExitInv
  <2> QED
    BY <2>1, <2>2, <2>3, <2>4
<1> QED
  BY <1>1, <1>2 DEF NextAttempt

LEMMA FailingInv ==
    ASSUME IInv, DialChainFails \/ ProbeFails \/ BuildFails \/ StartFails
    PROVE  IInv'
<1>1. CASE DialChainFails
  <2>1. PICK rest : rest = insts
    OBVIOUS
  <2>2. rest = Current /\ NextAttempt(rest)
    BY <1>1, <2>1 DEF DialChainFails, IInv, NoOrphan
  <2> QED
    BY <1>1, <2>2, NextAttemptInv DEF DialChainFails
<1>2. CASE ProbeFails
  <2>1. PICK rest : rest = insts \ Instance(cand, "probe")
    OBVIOUS
  <2>2. rest = Current /\ NextAttempt(rest)
    BY <1>2, <2>1 DEF ProbeFails, IInv, NoOrphan, Current, Instance
  <2> QED
    BY <1>2, <2>2, NextAttemptInv DEF ProbeFails
<1>3. CASE BuildFails
  <2>1. PICK rest : rest = insts
    OBVIOUS
  <2>2. rest = Current /\ Fail(rest)
    BY <1>3, <2>1 DEF BuildFails, IInv, NoOrphan
  <2> QED
    BY <1>3, <2>2, FailInv DEF BuildFails
<1>4. CASE StartFails
  <2>1. PICK rest : rest = insts \ Instance(cand, "made")
    OBVIOUS
  <2>2. rest = Current /\ Fail(rest)
    BY <1>4, <2>1 DEF StartFails, IInv, NoOrphan, Current, Instance
  <2> QED
    BY <1>4, <2>2, FailInv DEF StartFails
<1> QED
  BY <1>1, <1>2, <1>3, <1>4

\* The start: the port is free, and the candidate takes it.
LEMMA StartSucceedsInv == ASSUME IInv, StartSucceeds PROVE IInv'
<1> USE DEF IInv, StartSucceeds, Adopt, env
<1>1. cand \in Routes /\ cand # NoRoute /\ cur = NoRoute
  BY DEF CandInv, ServingInv, TypeOK, Underway
<1>2. TypeOK'
  <2>1. insts' \in SUBSET [route : Routes, st : {"probe", "made", "listening"}]
    BY <1>1 DEF TypeOK, Instance
  <2>2. mode = "exit" => Last(cand) \in Links
    BY <1>1, PoolChainFacts DEF PoolInv, PoolModes, TypeOK
  <2>3. lastExit' \in Links \cup {NoLink}
    BY <2>2 DEF TypeOK
  <2> QED
    BY <1>1, <2>1, <2>3 DEF TypeOK
<1>3. NoOrphan'
  BY <1>1 DEF NoOrphan, Current, Instance
<1>4. CandInv' /\ ServingInv'
  BY <1>1 DEF CandInv, ServingInv, Underway
<1>5. PoolInv'
  <2>1. PoolChains' = PoolChains
    BY DEF PoolChains
  <2> QED
    BY <2>1 DEF PoolInv
<1>6. ExitInv'
  BY <1>1 DEF ExitInv, FixedHops, Underway
<1> QED
  BY <1>2, <1>3, <1>4, <1>5, <1>6

LEMMA CtxDoneInv == ASSUME IInv, CtxDone PROVE IInv'
<1>1. PICK rest : rest = insts
  OBVIOUS
<1>2. rest \ Current = {} /\ Return("nil", rest)
  BY <1>1 DEF CtxDone, IInv, NoOrphan
<1> QED
  BY <1>2, ReturnInv DEF CtxDone

LEMMA RotateInv == ASSUME IInv, Rotate PROVE IInv'
<1> USE DEF IInv, Rotate, env, chosen
<1>1. TypeOK'
  BY LimitsType DEF TypeOK
<1>2. NoOrphan'
  BY DEF NoOrphan, Current
<1>3. CandInv' /\ ServingInv'
  BY DEF CandInv, ServingInv, Underway, Rotating
<1>4. PoolInv' /\ ExitInv'
  BY DEF PoolInv, PoolChains, ExitInv, FixedHops, Underway
<1> QED
  BY <1>1, <1>2, <1>3, <1>4

LEMMA HealthInv == ASSUME IInv, HealthOk \/ HealthFail PROVE IInv'
<1>1. mode = "single" /\ ready /\ pc = "wait" /\ UNCHANGED <<env, status, ready, result, active, chosen, attempt>>
  BY DEF HealthOk, HealthFail, IInv, ServingInv
<1>2. healthFails' \in Nat /\ healthFails' < Threshold
  BY LimitsType DEF HealthOk, HealthFail, IInv, TypeOK
<1>3. CASE UNCHANGED <<pc, cur, insts>>
  <2> USE <1>1, <1>3 DEF IInv, env, chosen
  <2>1. TypeOK'
    BY <1>2 DEF TypeOK
  <2>2. NoOrphan' /\ CandInv' /\ ServingInv'
    BY DEF NoOrphan, Current, CandInv, ServingInv
  <2>3. PoolInv' /\ ExitInv'
    BY DEF PoolInv, PoolModes, ExitInv
  <2> QED
    BY <2>1, <2>2, <2>3
<1>4. CASE insts' = insts \ Current /\ cur' = NoRoute /\ pc' = "build"
  <2> USE <1>1, <1>4 DEF IInv, env, chosen
  <2>1. TypeOK'
    BY <1>2 DEF TypeOK
  <2>2. NoOrphan' /\ CandInv' /\ ServingInv'
    BY DEF NoOrphan, Current, CandInv, ServingInv
  <2>3. PoolInv' /\ ExitInv'
    BY DEF PoolInv, PoolModes, ExitInv
  <2> QED
    BY <2>1, <2>2, <2>3
<1> QED
  BY <1>3, <1>4 DEF HealthOk, HealthFail

\* Neither a cancellation nor a stuttering step touches what the invariant is about.
LEMMA CancelInv ==
    ASSUME IInv, cancelled' \in BOOLEAN,
           UNCHANGED <<mode, parsable, pc, status, ready, result, cur, active, chosen, attempt, healthFails, insts>>
    PROVE  IInv'
<1> USE DEF IInv, chosen
<1>1. TypeOK'
  BY DEF TypeOK
<1>2. NoOrphan' /\ CandInv' /\ ServingInv'
  BY DEF NoOrphan, Current, CandInv, ServingInv
<1>3. PoolInv' /\ ExitInv'
  BY DEF PoolInv, PoolChains, ExitInv, FixedHops
<1> QED
  BY <1>1, <1>2, <1>3

LEMMA RunnerInductive == IInv /\ [Next]_vars => IInv'
<1> SUFFICES ASSUME IInv, [Next]_vars PROVE IInv'
  OBVIOUS
<1>1. CASE SelectSingle \/ SelectFixed \/ SelectFromPool \/ SelectExit \/ SelectFull
  BY <1>1, SelectSingleInv, SelectFixedInv, SelectFromPoolInv, SelectExitInv, SelectFullInv
<1>2. CASE DialChain \/ ProbePasses \/ Build \/ Release \/ StartSucceeds
  BY <1>2, DialChainInv, ProbePassesInv, BuildInv, ReleaseInv, StartSucceedsInv
<1>3. CASE DialChainFails \/ ProbeFails \/ BuildFails \/ StartFails
  BY <1>3, FailingInv
<1>4. CASE CtxDone \/ Rotate \/ HealthOk \/ HealthFail
  BY <1>4, CtxDoneInv, RotateInv, HealthInv
<1>5. CASE Cancel
  BY <1>5, CancelInv DEF Cancel
<1>6. CASE UNCHANGED vars
  <2>1. cancelled' \in BOOLEAN
    BY <1>6 DEF vars, IInv, TypeOK
  <2> QED
    BY <1>6, <2>1, CancelInv DEF vars, chosen
<1> QED
  BY <1>1, <1>2, <1>3, <1>4, <1>5, <1>6 DEF Next, RunnerStep, Terminated

-----------------------------------------------------------------------------
(* What the invariant and a step say about the port *)

\* The instance that listens is the current one.
LEMMA ListeningIsCur ==
    ASSUME IInv
    PROVE  Listening = IF cur = NoRoute THEN {} ELSE {cur}
<1>1. cur \in Routes \cup {NoRoute}
  BY DEF IInv, TypeOK
<1>2. ASSUME NEW r \in Routes
      PROVE  Instance(r, "listening") \subseteq insts <=> cur # NoRoute /\ r = cur
  BY DEF IInv, NoOrphan, Current, Instance
<1>3. CASE cur = NoRoute
  BY <1>2, <1>3 DEF Listening
<1>4. CASE cur # NoRoute
  BY <1>1, <1>2, <1>4 DEF Listening
<1> QED
  BY <1>3, <1>4

\* The current instance is closed for a restart, or for a built replacement.
Closes ==
    /\ pc # "done" /\ pc' # "done"
    /\ cur # NoRoute /\ cur' = NoRoute
    /\ mode \in Rotating => Instance(cand, "made") \subseteq insts

Returns == pc # "done" /\ pc' = "done" /\ cur' = NoRoute

\* A step leaves the current instance alone, closes it, starts one, or returns.
LEMMA StepKinds ==
    ASSUME IInv, [Next]_vars
    PROVE  (cur' = cur /\ (pc' = "done" <=> pc = "done")) \/ Closes \/ StartSucceeds \/ Returns
<1>1. CASE SelectSingle \/ SelectFixed \/ SelectFromPool \/ SelectExit \/ SelectFull
  BY <1>1 DEF SelectSingle, SelectFixed, SelectFromPool, SelectExit, SelectFull, Fail, Return, Stall, Returns
<1>2. CASE DialChain \/ ProbePasses \/ Build
  BY <1>2 DEF DialChain, ProbePasses, Build
<1>3. CASE Release
  BY <1>3 DEF Release, Closes, IInv, ServingInv, NoOrphan
<1>4. CASE StartSucceeds
  BY <1>4
<1>5. CASE DialChainFails \/ ProbeFails \/ BuildFails \/ StartFails
  BY <1>5 DEF DialChainFails, ProbeFails, BuildFails, StartFails, NextAttempt, Fail, Return, Stall, Returns
<1>6. CASE CtxDone \/ Rotate \/ HealthOk
  BY <1>6 DEF CtxDone, Rotate, HealthOk, Return, Returns
<1>7. CASE HealthFail
  BY <1>7 DEF HealthFail, Closes, IInv, ServingInv, Rotating
<1>8. CASE Cancel \/ UNCHANGED vars
  BY <1>8 DEF Cancel, vars
<1> QED
  BY <1>1, <1>2, <1>3, <1>4, <1>5, <1>6, <1>7, <1>8 DEF Next, RunnerStep, Terminated

-----------------------------------------------------------------------------
(* Theorems *)

\* The runners of the single and chain modes never leave the inductive invariant,
\* whatever the pool and the network.
THEOREM RunnerInvariant == Spec => []IInv
  BY RunnerInit, RunnerInductive, PTL DEF Spec

\* On every path through startup, a rotation, a stall or a restart a runner keeps its
\* types and bounds, leaves no instance behind, takes no chain that is shortened or
\* has a link twice, and shows as idle only what listens.
THEOREM RunnerSoundSafe == Spec => []RunnerSound
<1>1. IInv => RunnerSound
  <2> SUFFICES ASSUME IInv PROVE RunnerSound
    OBVIOUS
  <2>1. TypeOK /\ NoOrphan
    BY DEF IInv
  <2>2. ChainSound
    <3>1. ASSUME mode \in PoolModes, NEW r \in {cand, cur, active} \ {NoRoute}
          PROVE  Len(r) = NumHops /\ Distinct(r) /\ Hops(r) \subseteq parsable
      <4>1. r \in PoolChains /\ parsable \in SUBSET Links
        BY <3>1 DEF IInv, PoolInv, TypeOK
      <4> QED
        BY <4>1, PoolChainFacts
    <3> QED
      BY <3>1 DEF ChainSound, PoolModes
  <2>3. IdleIsServing
    BY ListeningIsCur DEF IInv, ServingInv, IdleIsServing
  <2> QED
    BY <2>1, <2>2, <2>3 DEF RunnerSound
<1> QED
  BY <1>1, RunnerInvariant, PTL

\* A rotation of the exit keeps the entry hops and changes the exit, and a rotating
\* runner closes what serves only for a built replacement or to return.
THEOREM RotationSoundSafe == Spec => RotationSound
<1> DEFINE Exit == mode = "exit" /\ active # NoRoute /\ cur' # cur /\ cur' # NoRoute =>
                     /\ Front(active') = Front(active)
                     /\ Last(active') # Last(active)
           Down == cur # NoRoute /\ cur' = NoRoute /\ mode \in Rotating =>
                     \/ Instance(cand, "made") \subseteq insts
                     \/ pc' = "done"
<1>1. IInv /\ [Next]_vars => [Exit]_vars
  <2> SUFFICES ASSUME IInv, [Next]_vars, mode = "exit", active # NoRoute, cur' # cur, cur' # NoRoute
               PROVE  Front(active') = Front(active) /\ Last(active') # Last(active)
    OBVIOUS
  <2>1. StartSucceeds
    BY StepKinds DEF Closes, Returns
  <2>2. ready /\ pc \in Underway /\ active' = cand
    BY <2>1 DEF StartSucceeds, Adopt, IInv, ExitInv, Underway
  <2> QED
    BY <2>2 DEF IInv, ExitInv
<1>2. IInv /\ [Next]_vars => [Down]_vars
  <2> SUFFICES ASSUME IInv, [Next]_vars, cur # NoRoute, cur' = NoRoute, mode \in Rotating
               PROVE  Instance(cand, "made") \subseteq insts \/ pc' = "done"
    OBVIOUS
  <2>1. ~StartSucceeds
    BY DEF StartSucceeds, Adopt, IInv, CandInv, Underway
  <2> QED
    BY <2>1, StepKinds DEF Closes, Returns
<1>3. Spec => [][Exit]_vars /\ [][Down]_vars
  BY <1>1, <1>2, RunnerInvariant, PTL DEF Spec
<1> QED
  BY <1>3 DEF RotationSound, ExitOnly, DownOnlyForReplacement

\* Every mode implements the abstract listener: at most one instance listens, a
\* replacement opens only after its predecessor has closed, none after the return.
THEOREM RunModesImplementListener == Spec => ImplementsListener
<1>1. Init => L!Init
  BY DEF Init, L!Init, Listening, Instance
<1>2. IInv /\ IInv' /\ [Next]_vars => [L!Next]_(L!listenerVars)
  <2> SUFFICES ASSUME IInv, IInv', [Next]_vars
               PROVE  L!Next \/ UNCHANGED L!listenerVars
    OBVIOUS
  <2>1. Listening = IF cur = NoRoute THEN {} ELSE {cur}
    BY ListeningIsCur
  <2>2. (Listening = IF cur = NoRoute THEN {} ELSE {cur})'
    BY ListeningIsCur, PTL
  <2>3. CASE cur' = cur /\ (pc' = "done" <=> pc = "done")
    BY <2>1, <2>2, <2>3 DEF L!listenerVars
  <2>4. CASE Closes
    BY <2>1, <2>2, <2>4 DEF Closes, L!Next, L!Release
  <2>5. CASE StartSucceeds
    <3>1. cand \in Routes /\ cand # NoRoute /\ cur = NoRoute /\ cur' = cand
      BY <2>5 DEF StartSucceeds, Adopt, IInv, CandInv, ServingInv, TypeOK, Underway
    <3>2. L!Open(cand)
      BY <2>1, <2>2, <2>5, <3>1 DEF StartSucceeds, L!Open
    <3> QED
      BY <3>1, <3>2 DEF L!Next
  <2>6. CASE Returns
    BY <2>2, <2>6 DEF Returns, L!Next, L!Stop
  <2> QED
    BY <2>3, <2>4, <2>5, <2>6, StepKinds
<1> QED
  BY <1>1, <1>2, RunnerInvariant, PTL DEF Spec, ImplementsListener, L!Spec

-----------------------------------------------------------------------------
(* The tunnel *)

\* Whatever the thread of Run does around it, with a namespace, a shell, a device or
\* a deadman switch, the runner inside is a runner of RunModes: all it may do to it
\* is to cancel its context.  What is proved of Spec therefore holds in a tunnel.
THEOREM TunnelRunsRunner == TunnelSpec => Spec
<1>1. TunnelInit => Init
  BY DEF TunnelInit
<1>2. [TunnelNext]_all /\ IInv => [Next]_vars
  <2> SUFFICES ASSUME [TunnelNext]_all, IInv PROVE [Next]_vars
    OBVIOUS
  <2>1. CASE runCancel
    <3>1. CASE cancelled
      BY <2>1, <3>1 DEF runCancel, vars, chosen, IInv, TypeOK
    <3>2. CASE ~cancelled
      BY <2>1, <3>2 DEF runCancel, Next, Cancel
    <3> QED
      BY <3>1, <3>2
  <2>2. CASE UNCHANGED vars
    BY <2>2
  <2>3. CASE RunnerStep \/ CtxDone \/ Rotate \/ HealthOk \/ HealthFail
    BY <2>3 DEF Next
  <2> QED
    BY <2>1, <2>2, <2>3 DEF TunnelNext, OuterStep, all, Ended, ProxyReady, RunnerEnds, SetupSucceeds,
       SetupFails, DeadmanConfirmed, DeadmanExpired, DeadmanCanceled, ShellExits, RunReturns,
       CloseService, Signal, PressEnter, ReadConfirm, ReadRotation, ForceRotate, ReaderStops
<1>3. TunnelSpec => []IInv
  BY <1>1, <1>2, RunnerInit, RunnerInductive, PTL DEF TunnelSpec
<1> QED
  BY <1>1, <1>2, <1>3, PTL DEF TunnelSpec, Spec

=============================================================================
