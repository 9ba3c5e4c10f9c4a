------------------------------ MODULE OsState ------------------------------
(***************************************************************************)
(* What xray-knife changes in the operating system, and how it puts it     *)
(* back: New, setupAppMode and Close of pkg/proxy/service.go with the      *)
(* packages sysproxy (desktop proxy settings) and netns (named network     *)
(* namespace and veth pair).                                               *)
(*                                                                         *)
(* Both packages keep one state file per home directory, written before    *)
(* the system is touched, so that a later start can undo what a killed     *)
(* process left behind.  Any number of processes run New, Run and Close    *)
(* and may be killed between any two steps; the desktop settings are       *)
(* written key by key.  A namespace is found by its name, which several    *)
(* processes may have been given, a veth pair by a name made of the pid.   *)
(***************************************************************************)
EXTENDS Integers, FiniteSets

CONSTANTS
    Pids,         \* processes; a pid is used once (no pid is recycled)
    NoPid,        \* no process: no state file, no owner of a name
    Given,        \* names that users pass with --namespace
    Modes,        \* the modes users start it in
    MaxAlive,     \* bound on the processes alive at once
    NumKeys,      \* number of desktop proxy keys, in the order of writing
    SkipEmpty,    \* keys that Restore leaves alone when they were empty
    SetsDefault,  \* keys to which Set writes the desktop's own default
    MayFail       \* whether dconf, netlink and sing-box may report errors

Keys == 1..NumKeys

Mode == {"inbound", "system", "app"}

\* Names of namespaces: xk-<pid>, written as the pid, and the given ones.
Names == Pids \cup Given

Empty == "empty"        \* the key is not set
Default == "default"    \* the key is set to the desktop's default
User == "user"          \* a value the user chose

Values == {Empty, Default, User} \cup Pids

ASSUME OsAssumption ==
    /\ Modes \subseteq Mode
    /\ MaxAlive \in Nat
    /\ NumKeys \in Nat
    /\ SkipEmpty \subseteq Keys
    /\ SetsDefault \subseteq Keys
    /\ NoPid \notin Pids
    /\ Given \cap Pids = {}
    /\ {Empty, Default, User} \cap Pids = {}
    /\ MayFail \in BOOLEAN

\* What holds of GNOME: the one key that Restore may skip, ignore-hosts, is
\* given its schema default by Set.  On KDE it does not hold: the proxy keys
\* are skipped when they were empty, and keep the address Set gave them.
ASSUME DesktopAssumption == SkipEmpty \subseteq SetsDefault

VARIABLES
    user,       \* the settings before the first start (never changes)
    os,         \* the desktop's proxy settings
    spFile,     \* .sysproxy-state.json: absent, torn by a crash, or whole
    nsFile,     \* .netns-state.json: pid of the recorded owner
    netns,      \* who created the namespace of each name, if it exists
    veth,       \* pids whose veth pair exists
    pc,         \* where each process is
    mode,       \* Config.Mode
    name,       \* the name of each process's namespace
    linked,     \* processes whose inbound link gives a listen address
                \* other than the flags
    key,        \* next key of a Set or Restore in progress
    held,       \* settings read by LoadState or Get (stale, prev)
    stale,      \* owner read by netns.LoadState
    used,       \* pids that were started
    overlapped, \* two processes have been alive at once
    failed,     \* a desktop read or write has failed
    refused     \* pids whose namespace or veth pair could not be removed

sysVars == <<user, os, spFile, held, key>>
nsVars == <<nsFile, netns, veth, stale>>
config == <<mode, name, linked>>
history == <<used, overlapped, failed, refused>>
vars == <<sysVars, nsVars, pc, config, history>>

Phase == {"down", "load", "recover", "clear",
          "nsLoad", "nsCheck", "nsVeth", "nsDelete", "nsClear",
          "build", "get", "save", "write", "set", "unset",
          "ready", "nsCreate", "vethCreate", "configure", "tunnel",
          "running", "restore", "closeClear",
          "closeVeth", "closeNs", "closeNsClear"}

Alive(p) == pc[p] # "down"

Init ==
    /\ user \in [Keys -> {Empty, User}]
    /\ os = user
    /\ spFile = [st |-> "absent", data |-> user]
    /\ nsFile = NoPid /\ netns = [n \in Names |-> NoPid] /\ veth = {}
    /\ pc = [p \in Pids |-> "down"]
    /\ mode = [p \in Pids |-> "inbound"] /\ name = [p \in Pids |-> p] /\ linked = {}
    /\ key = [p \in Pids |-> 1]
    /\ held = [p \in Pids |-> user]
    /\ stale = [p \in Pids |-> NoPid]
    /\ used = {} /\ overlapped = FALSE /\ failed = FALSE /\ refused = {}

Goto(p, phase) == pc' = [pc EXCEPT ![p] = phase]

-----------------------------------------------------------------------------
(* New: recovery of the desktop settings, in every mode                    *)

\* A process starts and passes the checks that precede every side effect: in
\* app mode with a name for its namespace, in system mode with or without a
\* link for its inbound.
Start(p, m, n, l) ==
    /\ p \notin used
    /\ Cardinality({q \in Pids : Alive(q)}) < MaxAlive
    /\ n = p \/ (m = "app" /\ n \in Given)
    /\ l => m = "system"
    /\ Goto(p, "load") /\ mode' = [mode EXCEPT ![p] = m]
    /\ name' = [name EXCEPT ![p] = n]
    /\ linked' = IF l THEN linked \cup {p} ELSE linked
    /\ used' = used \cup {p}
    /\ overlapped' = (overlapped \/ \E q \in Pids : Alive(q))
    /\ UNCHANGED <<sysVars, nsVars, failed, refused>>

AfterRecovery(p) == IF mode[p] = "app" THEN "nsLoad" ELSE "build"

\* Faulty variant: only system mode looks for a state file.
LoadStateSystemOnly(p) ==
    /\ pc[p] = "load"
    /\ IF spFile.st = "whole" /\ mode[p] = "system"
       THEN /\ held' = [held EXCEPT ![p] = spFile.data]
            /\ key' = [key EXCEPT ![p] = 1]
            /\ Goto(p, "recover")
       ELSE /\ Goto(p, AfterRecovery(p))
            /\ UNCHANGED <<held, key>>
    /\ UNCHANGED <<user, os, spFile, nsVars, config, history>>

\* LoadState; an unreadable file counts as none.
LoadState(p) ==
    /\ pc[p] = "load"
    /\ IF spFile.st = "whole"
       THEN /\ held' = [held EXCEPT ![p] = spFile.data]
            /\ key' = [key EXCEPT ![p] = 1]
            /\ Goto(p, "recover")
       ELSE /\ Goto(p, AfterRecovery(p))
            /\ UNCHANGED <<held, key>>
    /\ UNCHANGED <<user, os, spFile, nsVars, config, history>>

\* The value Restore leaves in key k when v was recorded for it.
Restored(k, v) ==
    IF v # Empty THEN v
    ELSE IF k \in SkipEmpty THEN os[k] ELSE Default

AfterRestore(p) == IF pc[p] = "recover" THEN "clear" ELSE "closeClear"

\* Restore, one key.
RestoreKey(p) ==
    /\ pc[p] \in {"recover", "restore"}
    /\ key[p] \in Keys
    /\ os' = [os EXCEPT ![key[p]] = Restored(key[p], held[p][key[p]])]
    /\ key' = [key EXCEPT ![p] = key[p] + 1]
    /\ UNCHANGED <<user, spFile, held, nsVars, pc, config, history>>

RestoreDone(p) ==
    /\ pc[p] \in {"recover", "restore"}
    /\ key[p] \notin Keys
    /\ Goto(p, AfterRestore(p))
    /\ UNCHANGED <<sysVars, nsVars, config, history>>

\* A failed write ends Restore; New and Close clear the state all the same.
RestoreFails(p) ==
    /\ MayFail
    /\ pc[p] \in {"recover", "restore"}
    /\ key[p] \in Keys
    /\ Goto(p, AfterRestore(p))
    /\ failed' = TRUE
    /\ UNCHANGED <<sysVars, nsVars, config, used, overlapped, refused>>

Absent == [spFile EXCEPT !.st = "absent"]

\* ClearState after the recovery, after a failed Set, and in Close.
ClearState(p) ==
    /\ pc[p] \in {"clear", "unset", "closeClear"}
    /\ spFile' = Absent
    /\ Goto(p, IF pc[p] = "clear" THEN AfterRecovery(p) ELSE "down")
    /\ UNCHANGED <<user, os, held, key, nsVars, config, history>>

-----------------------------------------------------------------------------
(* New, app mode: recovery of a namespace (netns.RecoverFromCrash)         *)

NsLoad(p) ==
    /\ pc[p] = "nsLoad"
    /\ stale' = [stale EXCEPT ![p] = nsFile]
    /\ Goto(p, IF nsFile = NoPid THEN "build" ELSE "nsCheck")
    /\ UNCHANGED <<sysVars, nsFile, netns, veth, config, history>>

\* Faulty variant: the owner of the state file is not checked.
NsCheckDropped(p) ==
    /\ pc[p] = "nsCheck"
    /\ Goto(p, "nsVeth")
    /\ UNCHANGED <<sysVars, nsVars, config, history>>

\* stateOwnerAlive
NsCheck(p) ==
    /\ pc[p] = "nsCheck"
    /\ Goto(p, IF Alive(stale[p]) THEN "build" ELSE "nsVeth")
    /\ UNCHANGED <<sysVars, nsVars, config, history>>

CleanupVeth(p) ==
    /\ pc[p] = "nsVeth"
    /\ veth' = veth \ {stale[p]}
    /\ Goto(p, "nsDelete")
    /\ UNCHANGED <<sysVars, nsFile, netns, stale, config, history>>

CleanupNamespace(p) ==
    /\ pc[p] = "nsDelete"
    /\ netns' = [netns EXCEPT ![name[stale[p]]] = NoPid]
    /\ Goto(p, "nsClear")
    /\ UNCHANGED <<sysVars, nsFile, veth, stale, config, history>>

\* netns.ClearState, in RecoverFromCrash, setupAppMode and Close.
ClearNsState(p) ==
    /\ pc[p] \in {"nsClear", "closeNsClear"}
    /\ nsFile' = NoPid
    /\ Goto(p, IF pc[p] = "nsClear" THEN "build" ELSE "down")
    /\ UNCHANGED <<sysVars, netns, veth, stale, config, history>>

-----------------------------------------------------------------------------
(* New: the rest                                                           *)

\* Links, core and inbound are ready.
Build(p) ==
    /\ pc[p] = "build"
    /\ Goto(p, CASE mode[p] = "system" -> "get"
                 [] mode[p] = "app" -> "ready"
                 [] OTHER -> "running")
    /\ UNCHANGED <<sysVars, nsVars, config, history>>

\* No links in the database, an unknown core, a bad inbound: New fails.  In
\* app mode also: the proxy ends before it listens, and Run returns.
BuildFails(p) ==
    /\ pc[p] \in {"build", "ready"}
    /\ Goto(p, "down")
    /\ UNCHANGED <<sysVars, nsVars, config, history>>

\* Faulty variant: Set comes before SaveState.
GetThenSet(p) ==
    /\ pc[p] = "get"
    /\ held' = [held EXCEPT ![p] = os]
    /\ key' = [key EXCEPT ![p] = 1]
    /\ Goto(p, "set")
    /\ UNCHANGED <<user, os, spFile, nsVars, config, history>>

\* sysproxy Get; a key that dconf cannot read counts as empty.
Get(p) ==
    /\ pc[p] = "get"
    /\ \E bad \in IF MayFail THEN SUBSET Keys ELSE {{}} :
          /\ held' = [held EXCEPT ![p] =
                        [k \in Keys |-> IF k \in bad THEN Empty ELSE os[k]]]
          /\ failed' = (failed \/ bad # {})
    /\ Goto(p, "save")
    /\ UNCHANGED <<user, os, spFile, key, nsVars, config, used, overlapped, refused>>

\* SaveState truncates the file before it writes it.
SaveBegins(p) ==
    /\ pc[p] = "save"
    /\ spFile' = [spFile EXCEPT !.st = "torn"]
    /\ Goto(p, "write")
    /\ UNCHANGED <<user, os, held, key, nsVars, config, history>>

SaveState(p) ==
    /\ pc[p] = "write"
    /\ spFile' = [st |-> "whole", data |-> held[p]]
    /\ key' = [key EXCEPT ![p] = 1]
    /\ Goto(p, "set")
    /\ UNCHANGED <<user, os, held, nsVars, config, history>>

\* SaveState fails: New fails, before the settings were touched.
SaveFails(p) ==
    /\ MayFail
    /\ pc[p] \in {"save", "write"}
    /\ Goto(p, "down")
    /\ UNCHANGED <<sysVars, nsVars, config, history>>

\* The value Set writes to key k: the address that the flags of p give, written
\* as p, or the default.  The inbound link is not looked at.
SetValue(p, k) == IF k \in SetsDefault THEN Default ELSE p

\* Set, one key.
SetKey(p) ==
    /\ pc[p] = "set"
    /\ key[p] \in Keys
    /\ os' = [os EXCEPT ![key[p]] = SetValue(p, key[p])]
    /\ key' = [key EXCEPT ![p] = key[p] + 1]
    /\ UNCHANGED <<user, spFile, held, nsVars, pc, config, history>>

\* Faulty variant: Set stops before the last key.
SetDoneEarly(p) ==
    /\ pc[p] = "set"
    /\ key[p] >= NumKeys
    /\ Goto(p, "running")
    /\ UNCHANGED <<sysVars, nsVars, config, history>>

SetDone(p) ==
    /\ pc[p] = "set"
    /\ key[p] \notin Keys
    /\ Goto(p, "running")
    /\ UNCHANGED <<sysVars, nsVars, config, history>>

\* A failed write ends Set; New clears the state and fails, leaving the keys
\* written so far.
SetFails(p) ==
    /\ MayFail
    /\ pc[p] = "set"
    /\ key[p] \in Keys
    /\ Goto(p, "unset")
    /\ failed' = TRUE
    /\ UNCHANGED <<sysVars, nsVars, config, used, overlapped, refused>>

-----------------------------------------------------------------------------
(* Run, app mode: setupAppMode                                             *)

SaveNsState(p) ==
    /\ pc[p] = "ready"
    /\ nsFile' = p
    /\ Goto(p, "nsCreate")
    /\ UNCHANGED <<sysVars, netns, veth, stale, config, history>>

\* netns.Setup: NewNamed and the loopback
CreateNamespace(p) ==
    /\ pc[p] = "nsCreate"
    /\ netns[name[p]] = NoPid
    /\ netns' = [netns EXCEPT ![name[p]] = p]
    /\ Goto(p, "vethCreate")
    /\ UNCHANGED <<sysVars, nsFile, veth, stale, config, history>>

\* NewNamed fails on a name that exists: the state file is removed.
NamespaceTaken(p) ==
    /\ pc[p] = "nsCreate"
    /\ netns[name[p]] # NoPid
    /\ Goto(p, "closeNsClear")
    /\ UNCHANGED <<sysVars, nsVars, config, history>>

\* netns.Setup: the veth pair
CreateVeth(p) ==
    /\ pc[p] = "vethCreate"
    /\ veth' = veth \cup {p}
    /\ Goto(p, "configure")
    /\ UNCHANGED <<sysVars, nsFile, netns, stale, config, history>>

\* netns.Setup: addresses and routes; then StartTunnel
Configure(p) ==
    /\ pc[p] \in {"configure", "tunnel"}
    /\ Goto(p, IF pc[p] = "configure" THEN "tunnel" ELSE "running")
    /\ UNCHANGED <<sysVars, nsVars, config, history>>

\* Faulty variant: a failed configuration removes the state file and nothing else.
SetupFailsLeaks(p) ==
    /\ MayFail
    /\ pc[p] \in {"nsCreate", "vethCreate", "configure", "tunnel"}
    /\ Goto(p, "closeNsClear")
    /\ UNCHANGED <<sysVars, nsVars, config, history>>

\* A step of the setup fails: what exists is removed, then the state file.
SetupFails(p) ==
    /\ MayFail
    /\ \/ pc[p] = "nsCreate" /\ Goto(p, "closeNsClear")
       \/ pc[p] = "vethCreate" /\ Goto(p, "closeNs")
       \/ pc[p] \in {"configure", "tunnel"} /\ Goto(p, "closeVeth")
    /\ UNCHANGED <<sysVars, nsVars, config, history>>

-----------------------------------------------------------------------------
(* Close, and the ways a process ends                                      *)

\* Run returns (a signal, the shell's exit, an error) and Close runs.
Close(p) ==
    /\ pc[p] = "running"
    /\ key' = [key EXCEPT ![p] = 1]
    /\ Goto(p, CASE mode[p] = "system" -> "restore"
                 [] mode[p] = "app" -> "closeVeth"
                 [] OTHER -> "down")
    /\ UNCHANGED <<user, os, spFile, held, nsVars, config, history>>

\* Namespace.Close, and the clean-up of a failed setup
CloseVeth(p) ==
    /\ pc[p] = "closeVeth"
    /\ veth' = veth \ {p}
    /\ Goto(p, "closeNs")
    /\ UNCHANGED <<sysVars, nsFile, netns, stale, config, history>>

CloseNamespace(p) ==
    /\ pc[p] = "closeNs"
    /\ netns' = [netns EXCEPT ![name[p]] = NoPid]
    /\ Goto(p, "closeNsClear")
    /\ UNCHANGED <<sysVars, nsFile, veth, stale, config, history>>

\* LinkDel or DeleteNamed fails, in the recovery, the clean-up or Close: the
\* error is dropped, and the next removal and ClearState follow all the same.
RemovalFails(p) ==
    /\ MayFail
    /\ \/ pc[p] = "nsVeth" /\ Goto(p, "nsDelete") /\ refused' = refused \cup {stale[p]}
       \/ pc[p] = "nsDelete" /\ Goto(p, "nsClear") /\ refused' = refused \cup {stale[p]}
       \/ pc[p] = "closeVeth" /\ Goto(p, "closeNs") /\ refused' = refused \cup {p}
       \/ pc[p] = "closeNs" /\ Goto(p, "closeNsClear") /\ refused' = refused \cup {p}
    /\ UNCHANGED <<sysVars, nsVars, config, used, overlapped, failed>>

\* SIGKILL, a panic: nothing is undone; the tunnel goes with the process.
Crash(p) ==
    /\ Alive(p)
    /\ Goto(p, "down")
    /\ UNCHANGED <<sysVars, nsVars, config, history>>

Step(p) ==
    \/ \E m \in Modes, n \in Names, l \in BOOLEAN : Start(p, m, n, l)
    \/ LoadState(p) \/ RestoreKey(p) \/ RestoreDone(p) \/ RestoreFails(p)
    \/ ClearState(p)
    \/ NsLoad(p) \/ NsCheck(p) \/ CleanupVeth(p) \/ CleanupNamespace(p)
    \/ ClearNsState(p)
    \/ Build(p) \/ BuildFails(p)
    \/ Get(p) \/ SaveBegins(p) \/ SaveState(p) \/ SaveFails(p)
    \/ SetKey(p) \/ SetDone(p) \/ SetFails(p)
    \/ SaveNsState(p) \/ CreateNamespace(p) \/ NamespaceTaken(p) \/ CreateVeth(p)
    \/ Configure(p) \/ SetupFails(p)
    \/ Close(p) \/ CloseVeth(p) \/ CloseNamespace(p) \/ RemovalFails(p) \/ Crash(p)

Next == \E p \in Pids : Step(p)

Spec == Init /\ [][Next]_vars

-----------------------------------------------------------------------------
(* Properties                                                              *)

\* The state has the types the code gives it.
OsTypeOK ==
    /\ user \in [Keys -> {Empty, User}]
    /\ os \in [Keys -> Values]
    /\ spFile \in [st : {"absent", "torn", "whole"}, data : [Keys -> Values]]
    /\ nsFile \in Pids \cup {NoPid}
    /\ netns \in [Names -> Pids \cup {NoPid}]
    /\ veth \subseteq Pids
    /\ pc \in [Pids -> Phase]
    /\ mode \in [Pids -> Mode]
    /\ name \in [Pids -> Names] /\ linked \subseteq Pids
    /\ key \in [Pids -> 1..(NumKeys + 1)]
    /\ held \in [Pids -> [Keys -> Values]]
    /\ stale \in [Pids -> Pids \cup {NoPid}]
    /\ used \subseteq Pids
    /\ overlapped \in BOOLEAN
    /\ failed \in BOOLEAN
    /\ refused \subseteq Pids \cup {NoPid}

\* An empty key and a key set to the default have the same effect.
SameEffect(a, b) == a = b \/ {a, b} \subseteq {Empty, Default}

LikeUser(settings) == \A k \in Keys : SameEffect(settings[k], user[k])

\* Processes ran one after the other, and no desktop read or write failed.
Orderly == ~overlapped /\ ~failed

\* The user's settings are never lost ("Previous settings are restored on
\* exit or crash"): wherever a process is killed, halfway through Set or
\* Restore too, the settings are as they were or the state file holds them.
SettingsRecoverable ==
    Orderly => \/ LikeUser(os)
               \/ spFile.st = "whole" /\ LikeUser(spFile.data)

\* Any start heals: a process of any mode that got past the recovery in New
\* and does not own the settings itself finds them as the user had them, with
\* no state file left that a later start would wrongly restore.
StartHeals ==
    Orderly => \A p \in Pids :
        \/ pc[p] \in {"build", "get", "save"}
        \/ pc[p] = "running" /\ mode[p] # "system"
        => LikeUser(os) /\ spFile.st # "whole"

\* The address p listens on: that of its inbound link, or that of the flags.
Listening(p) == IF p \in linked THEN <<p>> ELSE p

\* The desktop's proxy settings lead to p.
RoutedTo(p) == \A k \in Keys \ SetsDefault : os[k] = Listening(p)

\* While a system-mode process runs, every key carries what Set wrote to it,
\* the file its Close will remove is there for the start after a crash, and
\* the settings lead to the process unless an inbound link moved its listener.
\* (Then they do not, although service.go:313-315 counts the system proxy among
\* the consumers that point at the right port.)
RoutedWhileRunning ==
    Orderly => \A p \in Pids :
        pc[p] = "running" /\ mode[p] = "system"
        => /\ \A k \in Keys : os[k] = SetValue(p, k)
           /\ spFile.st = "whole"
           /\ p \in linked \/ RoutedTo(p)

\* A process that runs in app mode has its namespace and its veth pair.
Keeps(p) ==
    pc[p] = "running" /\ mode[p] = "app" => netns[name[p]] = p /\ p \in veth

\* The promise of RecoverFromCrash where it is kept: no process, whatever it
\* recovers or closes and however starts interleave, takes the namespace or
\* the veth pair from a process that is alive and using it, if the namespace
\* is named after the pid or the processes run one after the other.  A given name
\* is not safe: the record of a dead process that shared it leads to the live one's.
NamespaceKept == \A p \in Pids : name[p] = p \/ ~overlapped => Keeps(p)

\* What exists of process p: its namespace or its veth pair.
Leaves(p) == p \in veth \/ \E n \in Names : netns[n] = p

\* For processes that run one after the other, every namespace or veth pair whose
\* process is gone is named by the state file, so that the next start in app mode
\* can remove it, but for what the kernel refused to remove: its record goes all
\* the same, and nothing else's.
OrphansRecordedInTurn ==
    ~overlapped => \A p \in Pids \ refused : Leaves(p) => Alive(p) \/ nsFile = p

=============================================================================
