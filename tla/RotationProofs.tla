--------------------------- MODULE RotationProofs ---------------------------
(***************************************************************************)
(* Proofs about the rotation loop for every pool and every configuration:  *)
(* type correctness, the inductive invariant behind the listener's safety  *)
(* properties, and the refinement of the abstract listener.                *)
(***************************************************************************)
EXTENDS Rotation, TLAPS

-----------------------------------------------------------------------------
(* What the blacklist operators return *)

\* A strike leaves an entry in its type.
LEMMA StruckEntryType ==
    ASSUME NEW e \in Entry
    PROVE  StruckEntry(e) \in Entry
BY ConfigAssumption DEF Entry, StruckEntry

\* recordStrike returns a blacklist.
LEMMA RecordStrikeType ==
    ASSUME NEW bl \in [Pool -> Entry], NEW links
    PROVE  recordStrike(bl, links) \in [Pool -> Entry]
BY StruckEntryType DEF recordStrike

\* recordStrike leaves every other link's entry alone.
LEMMA RecordStrikeOthers ==
    ASSUME NEW bl \in [Pool -> Entry], NEW links, NEW l \in Pool, l \notin links
    PROVE  recordStrike(bl, links)[l] = bl[l]
BY DEF recordStrike

\* A link without an entry is not banned, and has the type of an entry.
LEMMA NoEntryFacts == NoEntry \in Entry /\ NoEntry.until # "future"
BY ConfigAssumption DEF NoEntry, Entry

LEMMA ThresholdType == Threshold \in Nat /\ Threshold > 0
BY ConfigAssumption DEF Threshold

-----------------------------------------------------------------------------
(* Type correctness *)

\* Every action of the rotation loop, the search and the environment keeps
\* the variables in their ranges.
LEMMA TypeStep == TypeOK /\ [Next]_vars => TypeOK'
<1> SUFFICES ASSUME TypeOK, [Next]_vars PROVE TypeOK'
    OBVIOUS
<1> USE DEF TypeOK, ctl, serving, search
<1>0. CASE UNCHANGED vars
    BY <1>0 DEF vars
<1>1. CASE BeginSearch
  <2>1. blacklist' \in [Pool -> Entry]
    BY <1>1, NoEntryFacts DEF BeginSearch, FilteredBlacklist
  <2>2. batch' \in SUBSET Pool
    BY <1>1 DEF BeginSearch, Candidates, Unbanned, Available
  <2> QED BY <1>1, <2>1, <2>2 DEF BeginSearch
<1>2. CASE TestsDone
  <2>1. blacklist' \in [Pool -> Entry]
    BY <1>2, RecordStrikeType DEF TestsDone
  <2> QED BY <1>2, <2>1 DEF TestsDone
<1>3. ASSUME NEW r \in {"nil", "err"}, Return(r) PROVE TypeOK'
    BY <1>3 DEF Return
<1>4. CASE TestsCancelled
    BY <1>4, <1>3 DEF TestsCancelled
<1>5. ASSUME NEW l \in Pool, MakeInstanceFails(l) PROVE TypeOK'
  <2>1. blacklist' \in [Pool -> Entry]
    BY <1>5, RecordStrikeType DEF MakeInstanceFails
  <2> QED BY <1>5, <2>1 DEF MakeInstanceFails
<1>6. ASSUME NEW l \in Pool, MakeInstance(l) PROVE TypeOK'
    BY <1>6 DEF MakeInstance
<1>7. CASE ReleaseOld
    BY <1>7 DEF ReleaseOld
<1>8. CASE StartFails
  <2>1. blacklist' \in [Pool -> Entry]
    BY <1>8, RecordStrikeType DEF StartFails
  <2> QED BY <1>8, <2>1 DEF StartFails
<1>9. CASE StartSucceeds
    BY <1>9, ThresholdType DEF StartSucceeds, AdoptOutbound
<1>10. CASE SearchExhausted
    BY <1>10, <1>3 DEF SearchExhausted, RotationFailed
<1>11. CASE CtxDone
    BY <1>11, <1>3 DEF CtxDone
<1>12. CASE ManualRotate
    BY <1>12 DEF ManualRotate, Rotate
<1>13. CASE TimerElapsed
    BY <1>13 DEF TimerElapsed, Rotate
<1>14. CASE HealthOk
    BY <1>14, ThresholdType DEF HealthOk
<1>15. CASE HealthFail
  <2>1. blacklist' \in [Pool -> Entry]
    BY <1>15, RecordStrikeType DEF HealthFail
  <2> QED BY <1>15, <2>1, ThresholdType DEF HealthFail, Rotate
<1>16. CASE Cancel
    BY <1>16 DEF Cancel
<1>17. ASSUME NEW l \in Pool, BanLapses(l) PROVE TypeOK'
  <2>1. blacklist' \in [Pool -> Entry]
    BY <1>17 DEF BanLapses, Entry
  <2> QED BY <1>17, <2>1 DEF BanLapses
<1> QED
    BY <1>0, <1>1, <1>2, <1>4, <1>5, <1>6, <1>7, <1>8, <1>9, <1>10, <1>11,
       <1>12, <1>13, <1>14, <1>15, <1>16, <1>17
       DEF Next, SearchStep, Terminated

LEMMA TypeInit == Init => TypeOK
<1> SUFFICES ASSUME Init PROVE TypeOK
    OBVIOUS
<1>1. blacklist \in [Pool -> Entry]
    BY NoEntryFacts DEF Init
<1>2. healthFails \in Nat /\ healthFails < Threshold
    BY ThresholdType DEF Init
<1>3. inst \in [Pool -> {"none", "made", "listening"}]
    BY DEF Init
<1> QED BY <1>1, <1>2, <1>3 DEF Init, TypeOK

\* The rotation loop is type correct for every pool and configuration.
THEOREM TypeCorrect == Spec => []TypeOK
BY TypeInit, TypeStep, PTL DEF Spec

-----------------------------------------------------------------------------
(* The inductive invariant *)

LEMMA InitInv == Init => IInv
<1> SUFFICES ASSUME Init PROVE IInv
    OBVIOUS
<1>1. TypeOK
    BY TypeInit
<1>2. InstancesInv
    BY DEF Init, InstancesInv
<1>3. HandoverInv
    BY DEF Init, HandoverInv, InSearch
<1>4. RecordInv
    BY DEF Init, RecordInv, InSearch
<1> QED BY <1>1, <1>2, <1>3, <1>4 DEF IInv

\* No step leaks an instance or lets a second one listen.
LEMMA InstancesStep == IInv /\ [Next]_vars => InstancesInv'
<1> SUFFICES ASSUME IInv, [Next]_vars PROVE InstancesInv'
    OBVIOUS
<1> USE PoolAssumption DEF IInv, TypeOK, InstancesInv, HandoverInv, InSearch, ctl, serving, search
<1>0. CASE UNCHANGED vars
    BY <1>0 DEF vars
<1>1. ASSUME NEW r, Return(r), pc \notin {"release", "start"}
      PROVE  InstancesInv'
    BY <1>1 DEF Return
<1>2. CASE BeginSearch
    BY <1>2 DEF BeginSearch
<1>3. CASE TestsDone
    BY <1>3 DEF TestsDone
<1>4. CASE TestsCancelled
    BY <1>4, <1>1 DEF TestsCancelled
<1>5. CASE ReleaseOld
    BY <1>5 DEF ReleaseOld
<1>6. CASE StartFails
    BY <1>6 DEF StartFails
<1>7. CASE StartSucceeds
    BY <1>7 DEF StartSucceeds, AdoptOutbound
<1>8. CASE SearchExhausted
    BY <1>8, <1>1 DEF SearchExhausted, RotationFailed
<1>9. CASE CtxDone
    BY <1>9, <1>1 DEF CtxDone
<1>10. CASE ManualRotate
    BY <1>10 DEF ManualRotate, Rotate
<1>11. CASE TimerElapsed
    BY <1>11 DEF TimerElapsed, Rotate
<1>12. CASE HealthOk
    BY <1>12 DEF HealthOk
<1>13. CASE HealthFail
    BY <1>13 DEF HealthFail, Rotate
<1>14. CASE Cancel
    BY <1>14 DEF Cancel
<1>15. ASSUME NEW l \in Pool, MakeInstanceFails(l) PROVE InstancesInv'
    BY <1>15 DEF MakeInstanceFails
<1>16. ASSUME NEW l \in Pool, MakeInstance(l) PROVE InstancesInv'
    BY <1>16 DEF MakeInstance
<1>17. ASSUME NEW l \in Pool, BanLapses(l) PROVE InstancesInv'
    BY <1>17 DEF BanLapses
<1> QED
    BY <1>0, <1>2, <1>3, <1>4, <1>5, <1>6, <1>7, <1>8, <1>9, <1>10,
       <1>11, <1>12, <1>13, <1>14, <1>15, <1>16, <1>17
       DEF Next, SearchStep, Terminated

\* No step starts a search on the link that may hold the port, or a candidate
\* before the port is free.
LEMMA HandoverStep == IInv /\ [Next]_vars => HandoverInv'
<1> SUFFICES ASSUME IInv, [Next]_vars PROVE HandoverInv'
    OBVIOUS
<1> USE PoolAssumption DEF IInv, TypeOK, HandoverInv, InSearch, ctl, serving, search
<1>0. CASE UNCHANGED vars
    BY <1>0 DEF vars
<1>1. ASSUME NEW r, Return(r) PROVE HandoverInv'
    BY <1>1 DEF Return
<1>2. CASE BeginSearch
    BY <1>2 DEF BeginSearch, Candidates, Unbanned, Available
<1>3. CASE TestsDone
    BY <1>3 DEF TestsDone
<1>4. CASE TestsCancelled
    BY <1>4, <1>1 DEF TestsCancelled
<1>5. CASE ReleaseOld
    BY <1>5 DEF ReleaseOld
<1>6. CASE StartFails
    BY <1>6 DEF StartFails
<1>7. CASE StartSucceeds
    BY <1>7 DEF StartSucceeds, AdoptOutbound, InstancesInv
<1>8. CASE SearchExhausted
    BY <1>8, <1>1 DEF SearchExhausted, RotationFailed
<1>9. CASE CtxDone
    BY <1>9, <1>1 DEF CtxDone
<1>10. CASE ManualRotate
    BY <1>10 DEF ManualRotate, Rotate
<1>11. CASE TimerElapsed
    BY <1>11 DEF TimerElapsed, Rotate
<1>12. CASE HealthOk
    BY <1>12 DEF HealthOk
<1>13. CASE HealthFail
  <2>1. CASE UNCHANGED <<ctl, cur, lastUsed, active, inst, search>>
    BY <2>1
  <2>2. CASE Rotate
    BY <2>2 DEF Rotate
  <2> QED BY <1>13, <2>1, <2>2 DEF HealthFail
<1>14. CASE Cancel
    BY <1>14 DEF Cancel
<1>15. ASSUME NEW l \in Pool, MakeInstanceFails(l) PROVE HandoverInv'
    BY <1>15 DEF MakeInstanceFails
<1>16. ASSUME NEW l \in Pool, MakeInstance(l) PROVE HandoverInv'
    BY <1>16 DEF MakeInstance
<1>17. ASSUME NEW l \in Pool, BanLapses(l) PROVE HandoverInv'
    BY <1>17 DEF BanLapses
<1> QED
    BY <1>0, <1>2, <1>3, <1>4, <1>5, <1>6, <1>7, <1>8, <1>9, <1>10,
       <1>11, <1>12, <1>13, <1>14, <1>15, <1>16, <1>17
       DEF Next, SearchStep, Terminated

\* No step brings up, or keeps in service, a link that has a strike.
LEMMA RecordStep == IInv /\ [Next]_vars => RecordInv'
<1> SUFFICES ASSUME IInv, [Next]_vars PROVE RecordInv'
    OBVIOUS
<1> USE PoolAssumption DEF IInv, TypeOK, HandoverInv, RecordInv, InSearch, ctl, serving, search
<1>0. CASE UNCHANGED vars
    BY <1>0 DEF vars
<1>1. ASSUME NEW r, Return(r) PROVE RecordInv'
    BY <1>1 DEF Return
<1>2. CASE BeginSearch
  <2>1. \A l \in Candidates : FilteredBlacklist[l] = NoEntry
    BY DEF Candidates, FilteredBlacklist, Unbanned, Available
  <2>2. BlacklistStrikes = 0 => FilteredBlacklist = blacklist
    BY DEF FilteredBlacklist
  <2> QED BY <1>2, <2>1, <2>2 DEF BeginSearch
<1>3. CASE TestsDone
  <2>1. PICK passed \in SUBSET batch :
          untried' = passed /\ blacklist' = recordStrike(blacklist, batch \ passed)
    BY <1>3 DEF TestsDone
  <2>2. \A l \in passed : blacklist'[l] = NoEntry
    BY <1>3, <2>1, RecordStrikeOthers DEF TestsDone
  <2> QED BY <1>3, <2>1, <2>2 DEF TestsDone, recordStrike
<1>4. CASE TestsCancelled
    BY <1>4, <1>1 DEF TestsCancelled
<1>5. CASE ReleaseOld
    BY <1>5 DEF ReleaseOld
<1>6. CASE StartFails
  <2>1. \A l \in untried : blacklist'[l] = NoEntry
    BY <1>6, RecordStrikeOthers DEF StartFails
  <2> QED BY <1>6, <2>1 DEF StartFails, recordStrike
<1>7. CASE StartSucceeds
    BY <1>7 DEF StartSucceeds, AdoptOutbound
<1>8. CASE SearchExhausted
    BY <1>8, <1>1 DEF SearchExhausted, RotationFailed
<1>9. CASE CtxDone
    BY <1>9, <1>1 DEF CtxDone
<1>10. CASE ManualRotate
    BY <1>10 DEF ManualRotate, Rotate
<1>11. CASE TimerElapsed
    BY <1>11 DEF TimerElapsed, Rotate
<1>12. CASE HealthOk
    BY <1>12 DEF HealthOk
<1>13. CASE HealthFail
    BY <1>13 DEF HealthFail, Rotate, recordStrike
<1>14. CASE Cancel
    BY <1>14 DEF Cancel
<1>15. ASSUME NEW l \in Pool, MakeInstanceFails(l) PROVE RecordInv'
  <2>1. \A m \in untried' : blacklist'[m] = NoEntry
    BY <1>15, RecordStrikeOthers DEF MakeInstanceFails
  <2> QED BY <1>15, <2>1 DEF MakeInstanceFails, recordStrike
<1>16. ASSUME NEW l \in Pool, MakeInstance(l) PROVE RecordInv'
    BY <1>16 DEF MakeInstance
<1>17. ASSUME NEW l \in Pool, BanLapses(l) PROVE RecordInv'
  <2>1. \A m \in Pool : blacklist[m] = NoEntry => blacklist'[m] = NoEntry
    BY <1>17, NoEntryFacts DEF BanLapses, Banned
  <2> QED BY <1>17, <2>1 DEF BanLapses
<1> QED
    BY <1>0, <1>2, <1>3, <1>4, <1>5, <1>6, <1>7, <1>8, <1>9, <1>10,
       <1>11, <1>12, <1>13, <1>14, <1>15, <1>16, <1>17
       DEF Next, SearchStep, Terminated

LEMMA Inductive == IInv /\ [Next]_vars => IInv'
BY TypeStep, InstancesStep, HandoverStep, RecordStep DEF IInv

LEMMA Invariance == Spec => []IInv
BY InitInv, Inductive, PTL DEF Spec

-----------------------------------------------------------------------------
(* Safety *)

\* The listeners are the current instance, or none.
LEMMA ListeningIsCur == IInv => Listening = {cur} \ {NoLink}
BY PoolAssumption DEF IInv, TypeOK, InstancesInv, Listening

\* No instance outlives the search that built it, the rotation that replaced
\* it or the return of runRotationMode.
THEOREM NoOrphanSafe == Spec => []NoOrphan
<1>1. IInv => NoOrphan
  <2> SUFFICES ASSUME IInv PROVE NoOrphan
    OBVIOUS
  <2>1. \A l \in Pool : inst[l] # "none" => l \in ({cur} \ {NoLink}) \cup Starting
    BY PoolAssumption DEF IInv, TypeOK, InstancesInv, Starting
  <2>2. \A l \in ({cur} \ {NoLink}) \cup Starting : l \in Pool /\ inst[l] # "none"
    BY DEF IInv, TypeOK, InstancesInv, Starting
  <2> QED BY <2>1, <2>2 DEF NoOrphan
<1> QED BY <1>1, Invariance, PTL

\* A new instance binds the inbound port only after its predecessor let go.
THEOREM PortFreeSafe == Spec => []PortFreeAtStart
<1>1. IInv => PortFreeAtStart
    BY ListeningIsCur DEF IInv, HandoverInv, PortFreeAtStart
<1> QED BY <1>1, Invariance, PTL

\* The loop of runRotationMode keeps its types and leaks no instance.
THEOREM LoopSoundSafe == Spec => []LoopSound
<1>1. TypeOK /\ NoOrphan => LoopSound
    BY DEF LoopSound
<1> QED BY <1>1, TypeCorrect, NoOrphanSafe, PTL

\* The status shown to the user as idle means that the outbound shown listens
\* and has no strike.
THEOREM IdleIsServingSafe == Spec => []IdleIsServing
<1>1. IInv => IdleIsServing
    BY ListeningIsCur DEF IInv, HandoverInv, RecordInv, IdleIsServing
<1> QED BY <1>1, Invariance, PTL

\* The listener is given up only for a tested and built replacement, or on
\* return.
THEOREM DownOnlyForReplacementSafe == Spec => DownOnlyForReplacement
<1> DEFINE A == cur # NoLink /\ cur' = NoLink =>
                  (cand # NoLink /\ inst[cand] = "made") \/ pc' = "done"
<1>1. IInv /\ [Next]_vars => [A]_vars
  <2> SUFFICES ASSUME IInv, Next, cur # NoLink, cur' = NoLink
               PROVE  (cand # NoLink /\ inst[cand] = "made") \/ pc' = "done"
    OBVIOUS
  <2>1. CASE ReleaseOld
    BY <2>1, PoolAssumption DEF ReleaseOld, IInv, InstancesInv
  <2>2. CASE StartSucceeds
    BY <2>2, PoolAssumption DEF StartSucceeds, AdoptOutbound, IInv, HandoverInv
  <2>3. CASE TestsCancelled \/ CtxDone \/ SearchExhausted
    BY <2>3 DEF TestsCancelled, CtxDone, SearchExhausted, RotationFailed, Return, serving
  <2>4. CASE cur' = cur
    BY <2>4
  <2> QED
    BY <2>1, <2>2, <2>3, <2>4
       DEF Next, SearchStep, Terminated, BeginSearch, TestsDone, MakeInstance,
           MakeInstanceFails, StartFails, ManualRotate, TimerElapsed, Rotate,
           HealthOk, HealthFail, Cancel, BanLapses, serving, vars
<1> QED BY <1>1, Invariance, PTL DEF Spec, DownOnlyForReplacement

-----------------------------------------------------------------------------
(* Refinement *)

\* Every step of the rotation is a step of the abstract listener, or leaves
\* the port alone: at most one listener, a replacement only after a release,
\* nothing open after the return.
THEOREM RotationImplementsListener == Spec => ImplementsListener
<1>1. Init => L!Init
    BY DEF Init, L!Init, Listening
<1>2. IInv /\ IInv' /\ [Next]_vars => [L!Next]_(L!listenerVars)
  <2> SUFFICES ASSUME IInv, IInv', [Next]_vars
               PROVE  L!Next \/ UNCHANGED L!listenerVars
    OBVIOUS
  <2>0. /\ Listening = {cur} \ {NoLink}
        /\ Listening' = {cur'} \ {NoLink}
    BY PoolAssumption DEF IInv, TypeOK, InstancesInv, Listening
  <2>1. ASSUME NEW r, Return(r), pc # "done" PROVE L!Next
    BY <2>0, <2>1 DEF Return, L!Next, L!Stop
  <2>2. CASE ReleaseOld
    BY <2>0, <2>2 DEF ReleaseOld, L!Next, L!Release, L!listenerVars
  <2>3. CASE StartSucceeds
    <3>1. cand \in Pool /\ cand # NoLink /\ cur = NoLink
      BY <2>3, PoolAssumption DEF StartSucceeds, AdoptOutbound, IInv, InstancesInv, HandoverInv
    <3>2. L!Open(cand)
      BY <2>0, <2>3, <3>1 DEF StartSucceeds, AdoptOutbound, L!Open
    <3> QED BY <3>1, <3>2 DEF L!Next
  <2>4. CASE TestsCancelled \/ CtxDone
    BY <2>1, <2>4 DEF TestsCancelled, CtxDone
  <2>5. CASE SearchExhausted
    <3>1. CASE \E r \in {"nil", "err"} : Return(r)
      BY <2>1, <2>5, <3>1 DEF SearchExhausted, RotationFailed
    <3>2. CASE cur' = cur /\ pc' = "wait"
      BY <2>0, <2>5, <3>2 DEF SearchExhausted, RotationFailed, L!listenerVars
    <3> QED BY <2>5, <3>1, <3>2 DEF SearchExhausted, RotationFailed, serving
  <2>6. CASE cur' = cur /\ (pc = "done" <=> pc' = "done")
    BY <2>0, <2>6 DEF L!listenerVars
  <2> QED
    BY <2>2, <2>3, <2>4, <2>5, <2>6
       DEF Next, SearchStep, Terminated, BeginSearch, TestsDone, MakeInstance,
           MakeInstanceFails, StartFails, ManualRotate, TimerElapsed, Rotate,
           HealthOk, HealthFail, Cancel, BanLapses, ctl, serving, vars
<1> QED BY <1>1, <1>2, Invariance, PTL DEF Spec, ImplementsListener, L!Spec

=============================================================================
