--------------------------- MODULE OsStateProofs ---------------------------
(***************************************************************************)
(* Proofs about the operating-system state for any set of processes and    *)
(* any number of desktop keys.                                             *)
(***************************************************************************)
EXTENDS OsState, TLAPS

\* The step with which process p begins.
Starts(p) == \E m \in Modes, n \in Names, l \in BOOLEAN : Start(p, m, n, l)

-----------------------------------------------------------------------------
(* Types *)

\* The value Restore leaves in a key is a settings value.
LEMMA RestoredType ==
    ASSUME OsTypeOK, NEW k \in Keys, NEW v \in Values
    PROVE  Restored(k, v) \in Values
BY DEF OsTypeOK, Restored, Values

\* The value Set writes is a settings value.
LEMMA SetValueType ==
    ASSUME NEW p \in Pids, NEW k \in Keys
    PROVE  SetValue(p, k) \in Values
BY DEF SetValue, Values

\* Every step of every process keeps the variables in their ranges.
LEMMA OsTypeStep == OsTypeOK /\ [Next]_vars => OsTypeOK'
<1> SUFFICES ASSUME OsTypeOK, [Next]_vars PROVE OsTypeOK'
    OBVIOUS
<1> USE OsAssumption DEF OsTypeOK
<1>0. CASE UNCHANGED vars
    BY <1>0 DEF vars, sysVars, nsVars, config, history
<1>1. ASSUME NEW p \in Pids, Step(p) PROVE OsTypeOK'
  <2> USE DEF sysVars, nsVars, config, history, Goto
  <2>1. ASSUME NEW m \in Modes, NEW n \in Names, NEW l \in BOOLEAN, Start(p, m, n, l) PROVE OsTypeOK'
    BY <2>1 DEF Start, Phase, Mode, Names
  <2>2. CASE LoadState(p)
    <3>1. CASE spFile.st = "whole"
      <4>1. held' \in [Pids -> [Keys -> Values]]
        BY <2>2, <3>1 DEF LoadState
      <4>2. key' \in [Pids -> 1..(NumKeys + 1)]
        BY <2>2, <3>1 DEF LoadState
      <4> QED BY <2>2, <3>1, <4>1, <4>2 DEF LoadState, Phase
    <3>2. CASE spFile.st # "whole"
      <4>1. pc' = [pc EXCEPT ![p] = AfterRecovery(p)] /\ AfterRecovery(p) \in Phase
        BY <2>2, <3>2 DEF LoadState, AfterRecovery, Phase
      <4>2. pc' \in [Pids -> Phase]
        BY <4>1
      <4> QED BY <2>2, <3>2, <4>2 DEF LoadState
    <3> QED BY <3>1, <3>2
  <2>3. CASE RestoreKey(p)
    <3>1. os' \in [Keys -> Values]
      BY <2>3, RestoredType DEF RestoreKey
    <3>2. key' \in [Pids -> 1..(NumKeys + 1)]
      BY <2>3 DEF RestoreKey, Keys
    <3> QED BY <2>3, <3>1, <3>2 DEF RestoreKey
  <2>4. CASE RestoreDone(p)
    BY <2>4 DEF RestoreDone, AfterRestore, Phase
  <2>5. CASE RestoreFails(p)
    BY <2>5 DEF RestoreFails, AfterRestore, Phase
  <2>6. CASE ClearState(p)
    BY <2>6 DEF ClearState, Absent, AfterRecovery, Phase
  <2>7. CASE NsLoad(p)
    BY <2>7 DEF NsLoad, Phase
  <2>8. CASE NsCheck(p)
    BY <2>8 DEF NsCheck, Phase
  <2>9. CASE CleanupVeth(p) \/ CleanupNamespace(p)
    <3>1. netns' \in [Names -> Pids \cup {NoPid}] /\ veth' \subseteq Pids
      BY <2>9 DEF CleanupVeth, CleanupNamespace
    <3>2. pc' \in [Pids -> Phase]
      BY <2>9 DEF CleanupVeth, CleanupNamespace, Phase
    <3> QED BY <2>9, <3>1, <3>2 DEF CleanupVeth, CleanupNamespace
  <2>10. CASE ClearNsState(p)
    BY <2>10 DEF ClearNsState, Phase
  <2>11. CASE Build(p) \/ BuildFails(p)
    <3>1. pc' \in [Pids -> Phase]
      BY <2>11 DEF Build, BuildFails, Phase
    <3> QED BY <2>11, <3>1 DEF Build, BuildFails
  <2>12. CASE Get(p)
    <3>1. PICK bad \in SUBSET Keys :
            /\ held' = [held EXCEPT ![p] = [k \in Keys |-> IF k \in bad THEN Empty ELSE os[k]]]
            /\ failed' = (failed \/ bad # {})
      BY <2>12 DEF Get
    <3>2. [k \in Keys |-> IF k \in bad THEN Empty ELSE os[k]] \in [Keys -> Values]
      BY DEF Values
    <3>3. held' \in [Pids -> [Keys -> Values]] /\ failed' \in BOOLEAN
      BY <3>1, <3>2
    <3> QED BY <2>12, <3>3 DEF Get, Phase
  <2>13. CASE SaveBegins(p)
    BY <2>13 DEF SaveBegins, Phase
  <2>14. CASE SaveState(p)
    BY <2>14 DEF SaveState, Phase
  <2>15. CASE SaveFails(p)
    BY <2>15 DEF SaveFails, Phase
  <2>16. CASE SetKey(p)
    <3>1. os' \in [Keys -> Values]
      BY <2>16, SetValueType DEF SetKey
    <3>2. key' \in [Pids -> 1..(NumKeys + 1)]
      BY <2>16 DEF SetKey, Keys
    <3> QED BY <2>16, <3>1, <3>2 DEF SetKey
  <2>17. CASE SetDone(p) \/ SetFails(p)
    <3>1. pc' \in [Pids -> Phase]
      BY <2>17 DEF SetDone, SetFails, Phase
    <3> QED BY <2>17, <3>1 DEF SetDone, SetFails
  <2>18. CASE SaveNsState(p) \/ CreateNamespace(p) \/ NamespaceTaken(p) \/ CreateVeth(p)
    <3>1. pc' \in [Pids -> Phase]
      <4>1. PICK x \in {"nsCreate", "vethCreate", "closeNsClear", "configure"} : pc' = [pc EXCEPT ![p] = x]
        BY <2>18, Zenon DEF SaveNsState, CreateNamespace, NamespaceTaken, CreateVeth
      <4>2. x \in Phase
        BY DEF Phase
      <4> QED BY <4>1, <4>2
    <3>2. netns' \in [Names -> Pids \cup {NoPid}] /\ veth' \subseteq Pids /\ nsFile' \in Pids \cup {NoPid}
      BY <2>18 DEF SaveNsState, CreateNamespace, NamespaceTaken, CreateVeth
    <3> QED BY <2>18, <3>1, <3>2 DEF SaveNsState, CreateNamespace, NamespaceTaken, CreateVeth
  <2>19. CASE Configure(p) \/ SetupFails(p)
    BY <2>19 DEF Configure, SetupFails, Phase
  <2>20. CASE Close(p)
    BY <2>20 DEF Close, Phase
  <2>21. CASE CloseVeth(p) \/ CloseNamespace(p) \/ Crash(p)
    BY <2>21 DEF CloseVeth, CloseNamespace, Crash, Phase
  <2>22. CASE RemovalFails(p)
    <3>1. pc' \in [Pids -> Phase]
      <4>1. PICK x \in {"nsDelete", "nsClear", "closeNs", "closeNsClear"} : pc' = [pc EXCEPT ![p] = x]
        BY <2>22, Zenon DEF RemovalFails
      <4>2. x \in Phase
        BY DEF Phase
      <4> QED BY <4>1, <4>2
    <3>2. refused' \subseteq Pids \cup {NoPid}
      BY <2>22 DEF RemovalFails
    <3> QED BY <2>22, <3>1, <3>2 DEF RemovalFails
  <2> QED
    BY <1>1, <2>1, <2>2, <2>3, <2>4, <2>5, <2>6, <2>7, <2>8, <2>9, <2>10,
       <2>11, <2>12, <2>13, <2>14, <2>15, <2>16, <2>17, <2>18, <2>19,
       <2>20, <2>21, <2>22 DEF Step
<1> QED BY <1>0, <1>1 DEF Next

\* The initial state has the types.
LEMMA OsTypeInit == Init => OsTypeOK
<1> SUFFICES ASSUME Init PROVE OsTypeOK
    OBVIOUS
<1>1. user \in [Keys -> Values]
    BY DEF Init, Values
<1>2. 1 \in 1..(NumKeys + 1)
    BY OsAssumption
<1>3. netns \in [Names -> Pids \cup {NoPid}] /\ name \in [Pids -> Names]
    BY DEF Init, Names
<1> QED BY <1>1, <1>2, <1>3 DEF Init, OsTypeOK, Phase, Mode

\* OsState is type correct for any set of processes and any number of keys.
THEOREM OsTypeCorrect == Spec => []OsTypeOK
BY OsTypeInit, OsTypeStep, PTL DEF Spec

-----------------------------------------------------------------------------
(* Namespaces: no schedule of starts, crashes and recoveries takes one     *)
(* from a live process.                                                    *)

\* Phases in which the process owns a namespace, and a veth pair.
HasNs(p) ==
    \/ pc[p] \in {"vethCreate", "configure", "tunnel"}
    \/ pc[p] = "running" /\ mode[p] = "app"

HasVeth(p) ==
    \/ pc[p] \in {"configure", "tunnel"}
    \/ pc[p] = "running" /\ mode[p] = "app"

\* A namespace exists under the name its creator was given.  A pid is used
\* once, and whoever is about to remove a namespace removes that of a pid which
\* was used and is dead: it cannot come back, and its name is another's only if
\* it was given with --namespace.
NsInv ==
    /\ OsTypeOK
    /\ \A p \in Pids : name[p] = p \/ name[p] \in Given
    /\ \A n \in Names : netns[n] # NoPid => netns[n] \in used /\ name[netns[n]] = n
    /\ \A p \in Pids : HasNs(p) /\ name[p] = p => netns[p] = p
    /\ \A p \in Pids : HasVeth(p) => p \in veth
    /\ \A p \in Pids : pc[p] = "set" => mode[p] # "app"
    /\ \A p \in Pids : pc[p] \in {"get", "save", "write"} => mode[p] # "app"
    /\ \A p \in Pids : Alive(p) => p \in used
    /\ nsFile \in used \cup {NoPid}
    /\ \A p \in Pids : pc[p] \in {"nsCheck", "nsVeth", "nsDelete"} => stale[p] \in used
    /\ \A p \in Pids : pc[p] \in {"nsVeth", "nsDelete"} => ~Alive(stale[p])

\* Every step of every process keeps NsInv.
LEMMA NsStep == NsInv /\ [Next]_vars => NsInv'
<1> SUFFICES ASSUME NsInv, [Next]_vars PROVE NsInv'
    OBVIOUS
<1>t. OsTypeOK /\ OsTypeOK'
    BY OsTypeStep DEF NsInv
<1>0. CASE UNCHANGED vars
    BY <1>0, <1>t DEF vars, sysVars, nsVars, config, history, NsInv, HasNs, HasVeth, Alive
<1>1. ASSUME NEW p \in Pids, Step(p) PROVE NsInv'
  <2> USE <1>t, OsAssumption DEF sysVars, nsVars, config, history, Goto, NsInv, HasNs, HasVeth, Alive
  <2>y. /\ pc \in [Pids -> Phase] /\ mode \in [Pids -> Mode] /\ name \in [Pids -> Names]
        /\ stale \in [Pids -> Pids \cup {NoPid}]
        /\ nsFile \in Pids \cup {NoPid} /\ used \subseteq Pids
        /\ netns \in [Names -> Pids \cup {NoPid}] /\ veth \subseteq Pids
    BY DEF OsTypeOK
  <2>z. Pids \subseteq Names
    BY DEF Names
  <2> USE <2>y, <2>z
  <2>1. ASSUME NEW m \in Modes, NEW n \in Names, NEW l \in BOOLEAN, Start(p, m, n, l) PROVE NsInv'
    BY <2>1 DEF Start
  <2>2. CASE LoadState(p)
    BY <2>2 DEF LoadState, AfterRecovery
  <2>3. CASE RestoreKey(p)
    BY <2>3 DEF RestoreKey
  <2>4. CASE RestoreDone(p) \/ RestoreFails(p)
    BY <2>4 DEF RestoreDone, RestoreFails, AfterRestore
  <2>6. CASE ClearState(p)
    BY <2>6 DEF ClearState, AfterRecovery
  <2>7. CASE NsLoad(p)
    BY <2>7 DEF NsLoad
  <2>8. CASE NsCheck(p)
    BY <2>8 DEF NsCheck
  <2>9. CASE CleanupVeth(p)
    BY <2>9 DEF CleanupVeth
  <2>10. CASE CleanupNamespace(p)
    BY <2>10 DEF CleanupNamespace
  <2>11. CASE ClearNsState(p)
    BY <2>11 DEF ClearNsState
  <2>12. CASE Build(p)
    BY <2>12 DEF Build
  <2>13. CASE BuildFails(p) \/ Crash(p)
    BY <2>13 DEF BuildFails, Crash
  <2>14. CASE Get(p) \/ SaveBegins(p) \/ SaveFails(p)
    BY <2>14 DEF Get, SaveBegins, SaveFails
  <2>15. CASE SaveState(p)
    BY <2>15 DEF SaveState
  <2>16. CASE SetKey(p)
    BY <2>16 DEF SetKey
  <2>17. CASE SetDone(p) \/ SetFails(p)
    BY <2>17 DEF SetDone, SetFails
  <2>18. CASE SaveNsState(p)
    BY <2>18 DEF SaveNsState
  <2>19. CASE CreateNamespace(p)
    BY <2>19 DEF CreateNamespace
  <2>20. CASE CreateVeth(p)
    BY <2>20 DEF CreateVeth
  <2>21. CASE Configure(p)
    BY <2>21 DEF Configure
  <2>22. CASE SetupFails(p)
    BY <2>22 DEF SetupFails
  <2>23. CASE Close(p)
    BY <2>23 DEF Close
  <2>24. CASE CloseVeth(p)
    BY <2>24 DEF CloseVeth
  <2>25. CASE CloseNamespace(p)
    BY <2>25 DEF CloseNamespace
  <2>26. CASE NamespaceTaken(p)
    BY <2>26 DEF NamespaceTaken
  <2>27. CASE RemovalFails(p)
    BY <2>27 DEF RemovalFails
  <2> QED
    BY <1>1, <2>1, <2>2, <2>3, <2>4, <2>6, <2>7, <2>8, <2>9, <2>10,
       <2>11, <2>12, <2>13, <2>14, <2>15, <2>16, <2>17, <2>18, <2>19,
       <2>20, <2>21, <2>22, <2>23, <2>24, <2>25, <2>26, <2>27 DEF Step
<1> QED BY <1>0, <1>1 DEF Next

LEMMA NsInit == Init => NsInv
  BY OsTypeInit, OsAssumption DEF Init, NsInv, HasNs, HasVeth, Alive

-----------------------------------------------------------------------------
(* Desktop settings *)

\* Phases between the recovery and the first change of the process itself,
\* and the phases of a process that never changes the settings.
Untouched(p) ==
    \/ pc[p] \in {"nsLoad", "nsCheck", "nsVeth", "nsDelete", "nsClear",
                  "build", "get", "save", "write",
                  "ready", "nsCreate", "vethCreate", "configure", "tunnel",
                  "closeVeth", "closeNs", "closeNsClear"}
    \/ pc[p] = "running" /\ mode[p] # "system"

\* Phases of a process that holds the user's settings.
Holding(p) ==
    \/ pc[p] \in {"recover", "restore", "save", "write", "set"}
    \/ pc[p] = "running" /\ mode[p] = "system"

\* Phases in which the settings may differ from the user's.
Touching(p) ==
    \/ pc[p] \in {"recover", "restore", "set"}
    \/ pc[p] = "running" /\ mode[p] = "system"

\* What holds of the one process alive, phase by phase.
PhaseInv(p) ==
    /\ Untouched(p) => LikeUser(os) /\ spFile.st # "whole"
    /\ Holding(p) => LikeUser(held[p])
    /\ Touching(p) => spFile.st = "whole"
    /\ pc[p] \in {"recover", "restore"} =>
          \A k \in Keys : k < key[p] => SameEffect(os[k], user[k])
    /\ pc[p] \in {"clear", "closeClear"} => LikeUser(os)
    /\ pc[p] = "set" => \A k \in Keys : k < key[p] => os[k] = SetValue(p, k)
    /\ pc[p] = "running" /\ mode[p] = "system" =>
          \A k \in Keys : os[k] = SetValue(p, k)
    /\ pc[p] \in {"get", "save", "write", "set"} => mode[p] = "system"
    /\ pc[p] \in {"ready", "nsCreate", "vethCreate", "configure", "tunnel"} =>
          mode[p] = "app"
    /\ pc[p] # "unset"

\* The file, when whole, holds the user's settings; when it does not, the
\* settings are the user's; and a key that Restore would skip was never given
\* anything but its default.
FileInv ==
    /\ spFile.st = "whole" => LikeUser(spFile.data)
    /\ spFile.st # "whole" => LikeUser(os)
    /\ \A k \in SkipEmpty : user[k] = Empty => os[k] \in {Empty, Default}

OneAlive == \A p, q \in Pids : Alive(p) /\ Alive(q) => p = q

SysInv ==
    /\ OsTypeOK
    /\ ~overlapped => OneAlive
    /\ Orderly => FileInv /\ \A p \in Pids : PhaseInv(p)

\* A step of one process: the others keep their phase, and the history
\* variables only grow.
LEMMA StepFrame ==
    ASSUME OsTypeOK, NEW p \in Pids, Step(p)
    PROVE  /\ user' = user
           /\ \A q \in Pids \ {p} : pc'[q] = pc[q]
           /\ Orderly' => Orderly
           /\ ~overlapped' => ~overlapped
           /\ Alive(p) \/ Starts(p)
<1> USE DEF OsTypeOK, sysVars, nsVars, config, history, Goto, Orderly, Alive
<1>1. CASE Starts(p)
  <2>1. PICK m \in Modes, n \in Names, l \in BOOLEAN : Start(p, m, n, l)
    BY <1>1 DEF Starts
  <2>2. /\ user' = user
        /\ \A q \in Pids \ {p} : pc'[q] = pc[q]
        /\ failed' = failed
    BY <2>1 DEF Start
  <2>3. ~overlapped' => ~overlapped
    BY <2>1 DEF Start
  <2> QED BY <1>1, <2>2, <2>3
<1>2. CASE LoadState(p) \/ RestoreKey(p) \/ RestoreDone(p) \/ RestoreFails(p) \/ ClearState(p)
    BY <1>2 DEF LoadState, RestoreKey, RestoreDone, RestoreFails, ClearState
<1>3. CASE \/ NsLoad(p) \/ NsCheck(p) \/ CleanupVeth(p) \/ CleanupNamespace(p)
           \/ ClearNsState(p) \/ Build(p) \/ BuildFails(p)
    BY <1>3 DEF NsLoad, NsCheck, CleanupVeth, CleanupNamespace, ClearNsState,
                Build, BuildFails
<1>4. CASE \/ Get(p) \/ SaveBegins(p) \/ SaveState(p) \/ SaveFails(p)
           \/ SetKey(p) \/ SetDone(p) \/ SetFails(p)
    BY <1>4 DEF Get, SaveBegins, SaveState, SaveFails, SetKey, SetDone, SetFails
<1>5. CASE \/ SaveNsState(p) \/ CreateNamespace(p) \/ NamespaceTaken(p)
           \/ CreateVeth(p) \/ Configure(p) \/ SetupFails(p)
    BY <1>5 DEF SaveNsState, CreateNamespace, NamespaceTaken, CreateVeth, Configure, SetupFails
<1>6. CASE Close(p) \/ CloseVeth(p) \/ CloseNamespace(p) \/ RemovalFails(p) \/ Crash(p)
    BY <1>6 DEF Close, CloseVeth, CloseNamespace, RemovalFails, Crash
<1> QED BY <1>1, <1>2, <1>3, <1>4, <1>5, <1>6 DEF Step, Starts

\* While processes run one after the other, at most one is alive.
LEMMA OneAliveStep ==
    ASSUME OsTypeOK, ~overlapped => OneAlive, NEW p \in Pids, Step(p)
    PROVE  (~overlapped => OneAlive)'
<1> SUFFICES ASSUME ~overlapped' PROVE OneAlive'
    OBVIOUS
<1>1. ~overlapped /\ OneAlive
    BY StepFrame
<1>2. CASE Starts(p)
  <2>1. \A q \in Pids : ~Alive(q)
    BY <1>2 DEF Starts, Start
  <2> QED BY <2>1, StepFrame DEF OneAlive, Alive
<1>3. CASE Alive(p)
  <2>1. \A q \in Pids \ {p} : ~Alive(q)
    BY <1>1, <1>3 DEF OneAlive
  <2> QED BY <2>1, StepFrame DEF OneAlive, Alive
<1> QED BY <1>2, <1>3, StepFrame

\* Restoring a key from settings like the user's makes it like the user's.
LEMMA RestoredLikeUser ==
    ASSUME OsAssumption, DesktopAssumption, OsTypeOK, FileInv, NEW k \in Keys,
           NEW v \in Values, SameEffect(v, user[k])
    PROVE  SameEffect(Restored(k, v), user[k])
BY DEF Restored, SameEffect, FileInv, OsTypeOK, Empty, Default, User, Values

\* One step of the one process alive keeps the facts about the settings.
LEMMA SettingsStep ==
    ASSUME OsTypeOK, OsTypeOK', FileInv, NEW p \in Pids, PhaseInv(p), Step(p),
           Orderly'
    PROVE  FileInv' /\ PhaseInv(p)'
<1> USE OsAssumption, DesktopAssumption
<1>y. /\ pc \in [Pids -> Phase] /\ mode \in [Pids -> Mode]
      /\ held \in [Pids -> [Keys -> Values]] /\ key \in [Pids -> 1..(NumKeys + 1)]
      /\ os \in [Keys -> Values] /\ user \in [Keys -> {Empty, User}]
      /\ spFile \in [st : {"absent", "torn", "whole"}, data : [Keys -> Values]]
    BY DEF OsTypeOK
<1>u. user' = user
    BY StepFrame
<1> USE <1>y, <1>u DEF sysVars, nsVars, config, history, Goto
\* Steps that leave the settings, the file and what was read alone.
<1>q. ASSUME UNCHANGED <<os, spFile, held, key, mode>>,
             NEW next, pc' = [pc EXCEPT ![p] = next],
             \/ next = "down"
             \/ /\ Untouched(p) /\ Untouched(p)'
                /\ next \notin {"save", "write"}
                /\ next = "get" => mode[p] = "system"
                /\ next \in {"ready", "nsCreate", "vethCreate", "configure",
                             "tunnel"} => mode[p] = "app"
      PROVE  FileInv' /\ PhaseInv(p)'
  <2>1. FileInv'
    BY <1>q DEF FileInv, LikeUser
  <2>2. PhaseInv(p)'
    BY <1>q DEF PhaseInv, Untouched, Holding, Touching, LikeUser
  <2> QED BY <2>1, <2>2
<1>1. ASSUME NEW m \in Modes, NEW n \in Names, NEW l \in BOOLEAN, Start(p, m, n, l) PROVE FileInv' /\ PhaseInv(p)'
    BY <1>1 DEF Start, FileInv, LikeUser, PhaseInv, Untouched, Holding, Touching
<1>2. CASE LoadState(p)
  <2>1. FileInv'
    BY <1>2 DEF LoadState, FileInv, LikeUser
  <2>2. PhaseInv(p)'
    <3>1. CASE spFile.st = "whole"
      BY <1>2, <3>1 DEF LoadState, FileInv, LikeUser, PhaseInv, Untouched,
                        Holding, Touching, Keys
    <3>2. CASE spFile.st # "whole"
      BY <1>2, <3>2 DEF LoadState, AfterRecovery, FileInv, LikeUser, PhaseInv,
                        Untouched, Holding, Touching
    <3> QED BY <3>1, <3>2
  <2> QED BY <2>1, <2>2
<1>3. CASE RestoreKey(p)
  <2> DEFINE j == key[p]
  <2>1. j \in Keys /\ spFile.st = "whole" /\ LikeUser(held[p])
    BY <1>3 DEF RestoreKey, PhaseInv, Holding, Touching
  <2>2. held[p][j] \in Values /\ SameEffect(held[p][j], user[j])
    BY <2>1 DEF LikeUser
  <2>3. SameEffect(Restored(j, held[p][j]), user[j])
    BY <2>1, <2>2, RestoredLikeUser
  <2>4. /\ os' = [os EXCEPT ![j] = Restored(j, held[p][j])]
        /\ key' = [key EXCEPT ![p] = j + 1]
        /\ UNCHANGED <<spFile, held, pc, mode>>
    BY <1>3 DEF RestoreKey
  <2>5. \A k \in Keys : k < key'[p] => SameEffect(os'[k], user[k])
    <3> SUFFICES ASSUME NEW k \in Keys, k < key'[p] PROVE SameEffect(os'[k], user[k])
      OBVIOUS
    <3>1. CASE k = j
      BY <2>1, <2>3, <2>4, <3>1
    <3>2. CASE k # j
      <4>1. k < key[p] /\ os'[k] = os[k]
        BY <2>1, <2>4, <3>2 DEF Keys
      <4> QED BY <1>3, <4>1 DEF RestoreKey, PhaseInv
    <3> QED BY <3>1, <3>2
  <2>6. \A k \in SkipEmpty : user[k] = Empty => os'[k] \in {Empty, Default}
    BY <2>1, <2>3, <2>4 DEF FileInv, SameEffect, Empty, Default
  <2>7. FileInv'
    BY <2>1, <2>4, <2>6 DEF FileInv, LikeUser
  <2>8. PhaseInv(p)'
    BY <1>3, <2>1, <2>4, <2>5 DEF RestoreKey, PhaseInv, Untouched, Holding, Touching, LikeUser
  <2> QED BY <2>7, <2>8
<1>4. CASE RestoreDone(p)
  <2>1. LikeUser(os)
    BY <1>4 DEF RestoreDone, PhaseInv, LikeUser, Keys
  <2>2. FileInv'
    BY <1>4 DEF RestoreDone, FileInv, LikeUser
  <2>3. PhaseInv(p)'
    BY <1>4, <2>1 DEF RestoreDone, AfterRestore, PhaseInv, Untouched, Holding,
                      Touching, LikeUser
  <2> QED BY <2>2, <2>3
<1>5. CASE RestoreFails(p) \/ SetFails(p)
    BY <1>5 DEF RestoreFails, SetFails, Orderly
<1>6. CASE ClearState(p)
  <2>1. LikeUser(os) /\ spFile'.st = "absent" /\ os' = os
    BY <1>6 DEF ClearState, Absent, PhaseInv
  <2>2. FileInv'
    BY <2>1 DEF FileInv, LikeUser
  <2>3. PhaseInv(p)'
    BY <1>6, <2>1 DEF ClearState, AfterRecovery, PhaseInv, Untouched, Holding,
                      Touching, LikeUser
  <2> QED BY <2>2, <2>3
<1>7. CASE \/ NsLoad(p) \/ NsCheck(p) \/ CleanupVeth(p) \/ CleanupNamespace(p)
           \/ ClearNsState(p)
    BY <1>7, <1>q DEF NsLoad, NsCheck, CleanupVeth, CleanupNamespace,
                      ClearNsState, Untouched
<1>8. CASE Build(p) \/ BuildFails(p) \/ SaveFails(p) \/ Crash(p)
    BY <1>8, <1>q DEF Build, BuildFails, SaveFails, Crash, Untouched, Mode
<1>9. CASE Get(p)
  <2>0. held'[p] = [k \in Keys |-> os[k]] /\ UNCHANGED <<os, spFile, mode>> /\ pc'[p] = "save"
    <3>1. PICK bad \in SUBSET Keys :
            /\ held' = [held EXCEPT ![p] = [k \in Keys |-> IF k \in bad THEN Empty ELSE os[k]]]
            /\ failed' = (failed \/ bad # {})
      BY <1>9 DEF Get
    <3>2. bad = {}
      BY <3>1 DEF Orderly
    <3> QED BY <1>9, <3>1, <3>2 DEF Get
  <2>1. LikeUser(os) /\ spFile.st # "whole" /\ mode[p] = "system"
    BY <1>9 DEF Get, PhaseInv, Untouched
  <2>2. FileInv'
    BY <2>0 DEF FileInv, LikeUser
  <2>3. PhaseInv(p)'
    BY <2>0, <2>1 DEF PhaseInv, Untouched, Holding, Touching, LikeUser
  <2> QED BY <2>2, <2>3
<1>10. CASE SaveBegins(p)
  <2>1. LikeUser(os) /\ mode[p] = "system" /\ LikeUser(held[p])
    BY <1>10 DEF SaveBegins, PhaseInv, Untouched, Holding
  <2>2. spFile'.st = "torn" /\ UNCHANGED <<os, held, key, mode>> /\ pc'[p] = "write"
    BY <1>10 DEF SaveBegins
  <2>3. FileInv'
    BY <2>1, <2>2 DEF FileInv, LikeUser
  <2>4. PhaseInv(p)'
    BY <2>1, <2>2 DEF PhaseInv, Untouched, Holding, Touching, LikeUser
  <2> QED BY <2>3, <2>4
<1>11. CASE SaveState(p)
  <2>1. mode[p] = "system" /\ LikeUser(held[p])
    BY <1>11 DEF SaveState, PhaseInv, Holding
  <2>2. /\ spFile'.st = "whole" /\ spFile'.data = held[p] /\ key'[p] = 1
        /\ UNCHANGED <<os, held, mode>> /\ pc'[p] = "set"
    BY <1>11 DEF SaveState
  <2>3. FileInv'
    BY <2>1, <2>2 DEF FileInv, LikeUser
  <2>4. PhaseInv(p)'
    BY <2>1, <2>2 DEF PhaseInv, Untouched, Holding, Touching, LikeUser, Keys
  <2> QED BY <2>3, <2>4
<1>12. CASE SetKey(p)
  <2> DEFINE j == key[p]
  <2>1. j \in Keys /\ spFile.st = "whole" /\ LikeUser(held[p]) /\ mode[p] = "system"
    BY <1>12 DEF SetKey, PhaseInv, Holding, Touching
  <2>2. /\ os' = [os EXCEPT ![j] = SetValue(p, j)]
        /\ key' = [key EXCEPT ![p] = j + 1]
        /\ UNCHANGED <<spFile, held, pc, mode>>
    BY <1>12 DEF SetKey
  <2>3. \A k \in Keys : k < key'[p] => os'[k] = SetValue(p, k)
    <3> SUFFICES ASSUME NEW k \in Keys, k < key'[p] PROVE os'[k] = SetValue(p, k)
      OBVIOUS
    <3>1. CASE k = j
      BY <2>1, <2>2, <3>1
    <3>2. CASE k # j
      <4>1. k < key[p] /\ os'[k] = os[k]
        BY <2>1, <2>2, <3>2 DEF Keys
      <4> QED BY <1>12, <4>1 DEF SetKey, PhaseInv
    <3> QED BY <3>1, <3>2
  <2>4. \A k \in SkipEmpty : user[k] = Empty => os'[k] \in {Empty, Default}
    BY <2>1, <2>2 DEF FileInv, SetValue
  <2>5. FileInv'
    BY <2>1, <2>2, <2>4 DEF FileInv, LikeUser
  <2>6. PhaseInv(p)'
    BY <1>12, <2>1, <2>2, <2>3 DEF SetKey, PhaseInv, Untouched, Holding, Touching, LikeUser
  <2> QED BY <2>5, <2>6
<1>13. CASE SetDone(p)
  <2>1. \A k \in Keys : os[k] = SetValue(p, k)
    BY <1>13 DEF SetDone, PhaseInv, Keys
  <2>2. spFile.st = "whole" /\ LikeUser(held[p]) /\ mode[p] = "system"
    BY <1>13 DEF SetDone, PhaseInv, Holding, Touching
  <2>3. FileInv'
    BY <1>13 DEF SetDone, FileInv, LikeUser
  <2>4. PhaseInv(p)'
    BY <1>13, <2>1, <2>2 DEF SetDone, PhaseInv, Untouched, Holding, Touching, LikeUser
  <2> QED BY <2>3, <2>4
<1>14. CASE SaveNsState(p) \/ CreateNamespace(p) \/ NamespaceTaken(p) \/ CreateVeth(p)
    BY <1>14, <1>q DEF SaveNsState, CreateNamespace, NamespaceTaken, CreateVeth, Untouched, PhaseInv
<1>15. CASE Configure(p) \/ SetupFails(p)
    BY <1>15, <1>q DEF Configure, SetupFails, Untouched, PhaseInv
<1>16. CASE Close(p)
  <2>1. CASE mode[p] = "system"
    <3>1. FileInv'
      BY <1>16 DEF Close, FileInv, LikeUser
    <3>2. PhaseInv(p)'
      BY <1>16, <2>1 DEF Close, PhaseInv, Untouched, Holding, Touching, LikeUser, Keys
    <3> QED BY <3>1, <3>2
  <2>2. CASE mode[p] # "system"
    <3>1. FileInv'
      BY <1>16 DEF Close, FileInv, LikeUser
    <3>2. PhaseInv(p)'
      BY <1>16, <2>2 DEF Close, PhaseInv, Untouched, Holding, Touching, LikeUser
    <3> QED BY <3>1, <3>2
  <2> QED BY <2>1, <2>2
<1>17. CASE CloseVeth(p) \/ CloseNamespace(p) \/ RemovalFails(p)
    BY <1>17, <1>q DEF CloseVeth, CloseNamespace, RemovalFails, Untouched
<1> QED
    BY <1>1, <1>2, <1>3, <1>4, <1>5, <1>6, <1>7, <1>8, <1>9, <1>10, <1>11,
       <1>12, <1>13, <1>14, <1>15, <1>16, <1>17 DEF Step

\* Every step keeps SysInv.
LEMMA SysStep == SysInv /\ [Next]_vars => SysInv'
<1> SUFFICES ASSUME SysInv, [Next]_vars PROVE SysInv'
    OBVIOUS
<1>t. OsTypeOK /\ OsTypeOK'
    BY OsTypeStep DEF SysInv
<1>0. CASE UNCHANGED vars
    BY <1>0, <1>t DEF vars, sysVars, nsVars, config, history, SysInv, OneAlive, Alive,
       Orderly, FileInv, PhaseInv, Untouched, Holding, Touching, LikeUser
<1>1. ASSUME NEW p \in Pids, Step(p) PROVE SysInv'
  <2>1. (~overlapped => OneAlive)'
    BY <1>1, <1>t, OneAliveStep DEF SysInv
  <2>2. ASSUME Orderly' PROVE FileInv' /\ \A q \in Pids : PhaseInv(q)'
    <3>1. Orderly
      BY <1>1, <1>t, <2>2, StepFrame
    <3>2. FileInv /\ \A q \in Pids : PhaseInv(q)
      BY <3>1 DEF SysInv
    <3>3. FileInv' /\ PhaseInv(p)'
      BY <1>1, <1>t, <2>2, <3>2, SettingsStep
    <3>4. ASSUME NEW q \in Pids \ {p} PROVE pc'[q] = "down"
      <4>1. CASE Alive(p)
        BY <1>1, <1>t, <3>1, <3>4, <4>1, StepFrame DEF SysInv, OneAlive, Orderly, Alive
      <4>2. CASE Starts(p)
        BY <1>1, <1>t, <2>2, <3>4, <4>2, StepFrame DEF Starts, Start, Orderly, Alive
      <4> QED BY <1>1, <1>t, <4>1, <4>2, StepFrame
    <3>5. ASSUME NEW q \in Pids \ {p} PROVE PhaseInv(q)'
      BY <3>4, <3>5 DEF PhaseInv, Untouched, Holding, Touching
    <3> QED BY <3>3, <3>5
  <2> QED BY <1>t, <2>1, <2>2 DEF SysInv
<1> QED BY <1>0, <1>1 DEF Next

\* The initial state satisfies SysInv.
LEMMA SysInit == Init => SysInv
<1> SUFFICES ASSUME Init PROVE SysInv
    OBVIOUS
<1>1. OsTypeOK
    BY OsTypeInit
<1>2. OneAlive
    BY DEF Init, OneAlive, Alive
<1>3. FileInv
    BY OsAssumption DEF Init, FileInv, LikeUser, SameEffect
<1>4. \A p \in Pids : PhaseInv(p)
    BY DEF Init, PhaseInv, Untouched, Holding, Touching
<1> QED BY <1>1, <1>2, <1>3, <1>4 DEF SysInv

\* On a desktop of the GNOME kind, with any number of keys and after any
\* number of runs and crashes one after the other, the user's settings are in
\* place or in the state file; no kill between two writes loses them.
THEOREM SettingsRecoverableSafe == Spec => []SettingsRecoverable
<1>1. SysInv => SettingsRecoverable
    BY DEF SysInv, FileInv, SettingsRecoverable
<1> QED BY <1>1, SysInit, SysStep, PTL DEF Spec

\* Whatever a killed process left, the next start of any mode finds the
\* settings as the user had them once it is past the recovery in New.
THEOREM StartHealsSafe == Spec => []StartHeals
<1>1. SysInv => StartHeals
    BY DEF SysInv, PhaseInv, Untouched, StartHeals
<1> QED BY <1>1, SysInit, SysStep, PTL DEF Spec

\* A running system-mode process has every key as it set it and the file that
\* undoes it; without an inbound link of its own the keys point at it.
THEOREM RoutedWhileRunningSafe == Spec => []RoutedWhileRunning
<1>1. SysInv => RoutedWhileRunning
    BY DEF SysInv, PhaseInv, Touching, RoutedWhileRunning, RoutedTo, Listening, SetValue
<1> QED BY <1>1, SysInit, SysStep, PTL DEF Spec

-----------------------------------------------------------------------------
(* Orphaned namespaces *)

\* Phases in which the process is the recorded owner.
Recorded(p) ==
    \/ pc[p] \in {"nsCreate", "vethCreate", "configure", "tunnel",
                  "closeVeth", "closeNs", "closeNsClear"}
    \/ pc[p] = "running" /\ mode[p] = "app"

\* Nothing is left of process q but what could not be removed.
Gone(q) == q \in refused \/ ~Leaves(q)

\* What holds of the one process alive, phase by phase.
NsPhase(p) ==
    /\ pc[p] \in {"load", "recover", "clear", "nsLoad", "nsCheck"} => nsFile # p
    /\ pc[p] \in {"nsCheck", "nsVeth", "nsDelete", "nsClear"} => nsFile = stale[p]
    /\ pc[p] \in {"nsDelete", "nsClear"} => stale[p] \notin veth \ refused
    /\ pc[p] = "nsClear" => Gone(stale[p])
    /\ pc[p] = "build" /\ mode[p] = "app" => \A q \in Pids : Gone(q)
    /\ pc[p] \in {"ready", "nsCreate"} => \A q \in Pids : Gone(q)
    /\ Recorded(p) => nsFile = p
    /\ HasNs(p) => netns[name[p]] = p
    /\ pc[p] \in {"vethCreate", "closeNs", "closeNsClear"} => p \notin veth \ refused
    /\ pc[p] = "closeNsClear" => Gone(p)

\* All that exists belongs to the recorded owner, alive or dead, or could not
\* be removed.
OwnerOnRecord == \A q \in Pids : Gone(q) \/ nsFile = q

OrphanInv ==
    /\ NsInv
    /\ ~overlapped => OneAlive
    /\ ~overlapped => OwnerOnRecord
    /\ ~overlapped => \A p \in Pids : NsPhase(p)

\* One step of the one process alive keeps the facts about the namespaces.
LEMMA NamespaceStep ==
    ASSUME OsTypeOK, OsTypeOK', NsInv, OneAlive, NEW p \in Pids, NsPhase(p), Step(p),
           OwnerOnRecord
    PROVE  OwnerOnRecord' /\ NsPhase(p)'
<1> USE OsAssumption DEF sysVars, nsVars, config, history, Goto, NsPhase, Recorded, HasNs, OwnerOnRecord,
                        Gone, Leaves
<1>y. /\ pc \in [Pids -> Phase] /\ mode \in [Pids -> Mode] /\ name \in [Pids -> Names]
      /\ stale \in [Pids -> Pids \cup {NoPid}]
      /\ nsFile \in Pids \cup {NoPid} /\ used \subseteq Pids
      /\ netns \in [Names -> Pids \cup {NoPid}] /\ veth \subseteq Pids
    BY DEF OsTypeOK
<1>z. \A n \in Names, q \in Pids : netns[n] = q => n = name[q]
    BY DEF NsInv
<1> USE <1>y, <1>z
<1> DEFINE Goal == OwnerOnRecord' /\ NsPhase(p)'
<1>1. ASSUME NEW m \in Modes, NEW n \in Names, NEW l \in BOOLEAN, Start(p, m, n, l) PROVE Goal
    BY <1>1 DEF Start, NsInv
<1>2. CASE LoadState(p)
    BY <1>2 DEF LoadState, AfterRecovery
<1>3. CASE RestoreKey(p)
    BY <1>3 DEF RestoreKey
<1>4. CASE RestoreDone(p) \/ RestoreFails(p)
    BY <1>4 DEF RestoreDone, RestoreFails, AfterRestore
<1>5. CASE ClearState(p)
    BY <1>5 DEF ClearState, AfterRecovery
<1>6. CASE NsLoad(p)
    BY <1>6 DEF NsLoad
<1>7. CASE NsCheck(p)
  <2>1. ~Alive(stale[p])
    BY <1>7 DEF NsCheck, OneAlive, Alive, NsInv
  <2> QED BY <1>7, <2>1 DEF NsCheck
<1>8. CASE CleanupVeth(p)
    BY <1>8 DEF CleanupVeth
<1>9. CASE CleanupNamespace(p)
  <2>1. stale[p] \in Pids /\ nsFile = stale[p] /\ pc'[p] = "nsClear" /\ mode' = mode /\ name' = name
    BY <1>9 DEF CleanupNamespace, NsInv
  <2>2. /\ UNCHANGED <<veth, nsFile, stale, refused>>
        /\ netns' = [netns EXCEPT ![name[stale[p]]] = NoPid]
    BY <1>9 DEF CleanupNamespace
  <2>3. \A n \in Names, q \in Pids : netns'[n] = q => netns[n] = q /\ q # stale[p]
    BY <2>1, <2>2
  <2>4. Gone(stale[p])'
    BY <1>9, <2>1, <2>2, <2>3 DEF CleanupNamespace
  <2>5. OwnerOnRecord'
    BY <2>2, <2>3
  <2> QED BY <1>9, <2>1, <2>2, <2>4, <2>5
<1>10. CASE ClearNsState(p)
    BY <1>10 DEF ClearNsState
<1>11. CASE Build(p)
    BY <1>11 DEF Build
<1>12. CASE BuildFails(p) \/ SaveFails(p) \/ Crash(p)
    BY <1>12 DEF BuildFails, SaveFails, Crash
<1>13. CASE Get(p) \/ SaveBegins(p) \/ SaveState(p)
    BY <1>13 DEF Get, SaveBegins, SaveState
<1>14. CASE SetKey(p)
    BY <1>14 DEF SetKey
<1>15. CASE SetDone(p) \/ SetFails(p)
    BY <1>15 DEF SetDone, SetFails, NsInv
<1>16. CASE SaveNsState(p)
    BY <1>16 DEF SaveNsState
<1>17. CASE CreateNamespace(p)
    BY <1>17 DEF CreateNamespace
<1>18. CASE CreateVeth(p)
    BY <1>18 DEF CreateVeth
<1>19. CASE Configure(p)
    BY <1>19 DEF Configure
<1>20. CASE SetupFails(p)
    BY <1>20 DEF SetupFails
<1>21. CASE Close(p)
    BY <1>21 DEF Close
<1>22. CASE CloseVeth(p)
    BY <1>22 DEF CloseVeth
<1>23. CASE CloseNamespace(p)
    BY <1>23 DEF CloseNamespace
<1>24. CASE NamespaceTaken(p)
    BY <1>24 DEF NamespaceTaken
<1>25. CASE RemovalFails(p)
    BY <1>25 DEF RemovalFails
<1> QED
    BY <1>1, <1>2, <1>3, <1>4, <1>5, <1>6, <1>7, <1>8, <1>9, <1>10, <1>11,
       <1>12, <1>13, <1>14, <1>15, <1>16, <1>17, <1>18, <1>19, <1>20, <1>21,
       <1>22, <1>23, <1>24, <1>25 DEF Step

\* Every step keeps OrphanInv.
LEMMA OrphanStep == OrphanInv /\ [Next]_vars => OrphanInv'
<1> SUFFICES ASSUME OrphanInv, [Next]_vars PROVE OrphanInv'
    OBVIOUS
<1>n. NsInv /\ NsInv' /\ OsTypeOK /\ OsTypeOK'
    BY NsStep, OsTypeStep DEF OrphanInv, NsInv
<1>0. CASE UNCHANGED vars
    BY <1>0, <1>n DEF vars, sysVars, nsVars, config, history, OrphanInv, OneAlive, Alive,
       NsPhase, Recorded, HasNs, OwnerOnRecord, Gone, Leaves
<1>1. ASSUME NEW p \in Pids, Step(p) PROVE OrphanInv'
  <2>1. (~overlapped => OneAlive)'
    BY <1>1, <1>n, OneAliveStep DEF OrphanInv
  <2>2. ASSUME ~overlapped'
        PROVE  OwnerOnRecord' /\ \A q \in Pids : NsPhase(q)'
    <3>1. /\ ~overlapped /\ OneAlive /\ \A q \in Pids : NsPhase(q)
          /\ OwnerOnRecord
      BY <1>1, <1>n, <2>2, StepFrame DEF OrphanInv
    <3>2. OwnerOnRecord' /\ NsPhase(p)'
      BY <1>1, <1>n, <3>1, NamespaceStep
    <3>3. ASSUME NEW q \in Pids \ {p} PROVE pc'[q] = "down"
      <4>1. CASE Alive(p)
        BY <1>1, <1>n, <3>1, <3>3, <4>1, StepFrame DEF OneAlive, Alive
      <4>2. CASE Starts(p)
        BY <1>1, <1>n, <2>2, <3>3, <4>2, StepFrame DEF Starts, Start, Alive
      <4> QED BY <1>1, <1>n, <4>1, <4>2, StepFrame
    <3>4. ASSUME NEW q \in Pids \ {p} PROVE NsPhase(q)'
      BY <3>3, <3>4 DEF NsPhase, Recorded, HasNs
    <3> QED BY <3>2, <3>4
  <2> QED BY <1>n, <2>1, <2>2 DEF OrphanInv
<1> QED BY <1>0, <1>1 DEF Next

LEMMA OrphanInit == Init => OrphanInv
<1> SUFFICES ASSUME Init PROVE OrphanInv
  OBVIOUS
<1>1. NsInv
  BY NsInit
<1>2. OneAlive
  BY DEF Init, OneAlive, Alive
<1>3. OwnerOnRecord
  BY OsAssumption DEF Init, OwnerOnRecord, Gone, Leaves
<1>4. \A p \in Pids : NsPhase(p)
  BY DEF Init, NsPhase, Recorded, HasNs
<1> QED BY <1>1, <1>2, <1>3, <1>4 DEF OrphanInv

\* Processes that run one after the other never lose track of a namespace:
\* whatever a killed one left behind, in whatever phase, the state file names
\* it for the next start in app mode, unless the kernel refused to remove it.
THEOREM OrphansRecordedSafe == Spec => []OrphansRecordedInTurn
<1>1. OrphanInv => OrphansRecordedInTurn
    BY DEF OrphanInv, OwnerOnRecord, Gone, OrphansRecordedInTurn
<1> QED BY <1>1, OrphanInit, OrphanStep, PTL DEF Spec

\* RecoverFromCrash spares whoever is alive: for any number of processes and
\* any interleaving of their starts, recoveries, clean-ups and crashes, a
\* process that runs in app mode in a namespace named after its pid has it, and
\* its veth pair; for processes one after the other also under a given name.
THEOREM NamespaceKeptSafe == Spec => []NamespaceKept
<1>1. OrphanInv => NamespaceKept
    BY DEF OrphanInv, NsInv, NsPhase, HasNs, HasVeth, NamespaceKept, Keeps
<1> QED BY <1>1, OrphanInit, OrphanStep, PTL DEF Spec

=============================================================================
