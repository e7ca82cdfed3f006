------------------------------ MODULE Manager ------------------------------
(***************************************************************************)
(* The clearlink executable: it installs the binary of its role, runs it   *)
(* as a child process, restarts it when it exits and replaces it when a    *)
(* newer release appears (cmd/clearlink/clearlink.go).                     *)
(*                                                                         *)
(* The manager is one goroutine; what is concurrent is the child, the      *)
(* goroutine that waits for its exit, new releases, faults of the network  *)
(* and the disk, and the loss of power.  A version is a number that grows; *)
(* 0 stands for none.                                                      *)
(***************************************************************************)
EXTENDS Integers, FiniteSets

CONSTANTS
  MaxVersion,  \* bound on releases
  Slots,       \* identities of live child processes
  FaultSets    \* sets of faults; only those of one of them occur

(* A failed download, rename, write of the config file or start of a       *)
(* process; a child that ignores SIGTERM, or outlives SIGKILL by the       *)
(* timeout of the wait for it; an end of the manager that leaves its child *)
(* behind; a loss of power.                                                *)
FaultKinds == {"network", "rename", "save", "start", "deaf", "unkillable",
               "crash", "power"}

ASSUME ManagerAssumption ==
  /\ MaxVersion \in Nat \ {0} /\ FaultSets \subseteq SUBSET FaultKinds
  /\ Slots \cap {"nil", "orphan"} = {}

VARIABLES
  faults,      \* the faults that may occur; never changes
  latest,      \* the newest release
  current,     \* version in currentDir
  backup,      \* version in currentDir.old
  saved,       \* Version of the config file
  version,     \* config.Version in memory
  procs,       \* live child processes: [slot, binary, claims]; the slot of
               \* those an earlier manager left behind is "orphan"
  exits,       \* childExitCh: slots of children that have exited
  child,       \* the manager's child: a slot, or "nil"
  stopping,    \* stoppingChild
  pc,          \* where the manager is
  task,        \* why: "boot", "update", "restart" or "shutdown"
  target       \* the version being installed

disk  == <<current, backup, saved>>
world == <<faults, latest>>
child_ == <<child, stopping>>
vars  == <<world, disk, version, procs, exits, child_, pc, task, target>>

Versions == 1..MaxVersion
May(fault) == fault \in faults

Init ==
  /\ faults \in FaultSets
  /\ latest = 1 /\ current = 0 /\ backup = 0 /\ saved = 0 /\ version = 0
  /\ procs = {} /\ exits = {} /\ child = "nil" /\ stopping = FALSE
  /\ pc = "down" /\ task = "boot" /\ target = 0

-----------------------------------------------------------------------------
(* Around the manager. *)

Publish ==
  /\ latest < MaxVersion /\ latest' = latest + 1
  /\ UNCHANGED <<faults, disk, version, procs, exits, child_, pc, task, target>>

(* A child exits, by itself or because it was told to. *)
ChildExits(p) ==
  /\ procs' = procs \ {p} /\ exits' = exits \cup ({p.slot} \ {"orphan"})
  /\ UNCHANGED <<world, disk, version, child_, pc, task, target>>

PowerLoss ==
  /\ May("power")
  /\ procs' = {} /\ exits' = {} /\ child' = "nil" /\ stopping' = FALSE
  /\ version' = 0 /\ target' = 0 /\ task' = "boot" /\ pc' = "down"
  /\ UNCHANGED <<world, disk>>

-----------------------------------------------------------------------------
(* main: loadConfig, ensureInstalled, run. *)

Exit == pc' = "down" /\ task' = "boot" /\ target' = 0

ManagerCrash ==
  /\ May("crash") /\ pc # "down" /\ Exit
  /\ UNCHANGED <<world, disk, version, procs, exits, child_>>

(* It knows nothing of what an earlier manager left behind. *)
Boot ==
  /\ pc = "down"
  /\ procs' = {[p EXCEPT !.slot = "orphan"] : p \in procs}
  /\ version' = saved /\ child' = "nil" /\ stopping' = FALSE /\ exits' = {}
  /\ pc' = "check" /\ task' = "boot"
  /\ UNCHANGED <<world, disk, target>>

(* What an error of the present task leads to: only a failed update leaves *)
(* the manager running.                                                    *)
Fail == IF task = "update" THEN pc' = "select" /\ UNCHANGED task /\ target' = 0
                           ELSE Exit

(* ensureInstalled and checkForUpdate. *)
UpToDate == latest = version /\ (task = "boot" => current # 0)

CheckLatest ==
  /\ pc = "check"
  /\ \/ UpToDate /\ UNCHANGED <<task, target>>
        /\ pc' = IF task = "boot" THEN "start" ELSE "select"
     \/ ~UpToDate /\ target' = latest /\ pc' = "download" /\ UNCHANGED task
     \/ May("network") /\ Fail
  /\ UNCHANGED <<world, disk, version, procs, exits, child_>>

-----------------------------------------------------------------------------
(* installVersion. *)

Download ==
  /\ pc = "download"
  /\ \/ /\ pc' = IF child = "nil" THEN "backup" ELSE "signal"
        /\ UNCHANGED <<task, target>>
     \/ May("network") /\ Fail
  /\ UNCHANGED <<world, disk, version, procs, exits, child_>>

(* Mutant: the config file is written before the directories change. *)
BackUpSavedFirst ==
  /\ pc = "backup"
  /\ \/ /\ backup' = current /\ current' = 0 /\ pc' = "swap"
        /\ saved' = target /\ UNCHANGED <<task, target>>
     \/ /\ May("rename") /\ current # 0
        /\ backup' = 0 /\ UNCHANGED <<current, saved>> /\ Fail
  /\ UNCHANGED <<world, version, procs, exits, child_>>

(* replaceDirectory: the old directory is put aside ... *)
BackUp ==
  /\ pc = "backup"
  /\ \/ /\ backup' = current /\ current' = 0 /\ pc' = "swap"
        /\ UNCHANGED <<task, target>>
     \/ /\ May("rename") /\ current # 0
        /\ backup' = 0 /\ UNCHANGED current /\ Fail
  /\ UNCHANGED <<world, saved, version, procs, exits, child_>>

(* ... the new one takes its place, or the old one comes back. *)
SwapIn ==
  /\ pc = "swap"
  /\ \/ /\ current' = target /\ pc' = "cleanup"
        /\ UNCHANGED <<backup, task, target>>
     \/ /\ May("rename") /\ Fail
        /\ current' = backup /\ backup' = 0
     \/ /\ May("rename") /\ Fail /\ backup # 0   \* nor can it come back
        /\ UNCHANGED <<current, backup>>
  /\ UNCHANGED <<world, saved, version, procs, exits, child_>>

CleanUp ==
  /\ pc = "cleanup" /\ pc' = "save"
  /\ backup' = 0
  /\ UNCHANGED <<world, current, saved, version, procs, exits, child_, task,
                 target>>

(* The version in memory changes whether or not it can be saved. *)
SaveConfig ==
  /\ pc = "save"
  /\ version' = target
  /\ \/ saved' = target /\ pc' = "start" /\ target' = 0 /\ UNCHANGED task
     \/ May("save") /\ Fail /\ UNCHANGED saved
  /\ UNCHANGED <<world, current, backup, procs, exits, child_>>

-----------------------------------------------------------------------------
(* startChild, in the three places that call it. *)

FreeSlots == Slots \ ({p.slot : p \in procs} \cup exits)

(* Mutant: the binary is not looked for. *)
StartChildUnchecked ==
  /\ pc = "start"
  /\ \/ /\ child # "nil" /\ pc' = "select"
        /\ UNCHANGED <<procs, child_, task, target>>
     \/ /\ child = "nil"
        /\ \E slot \in FreeSlots :
             /\ procs' = procs \cup {[slot |-> slot, binary |-> current,
                                      claims |-> version]}
             /\ child' = slot
        /\ stopping' = FALSE /\ pc' = "select" /\ UNCHANGED <<task, target>>
     \/ /\ child = "nil" /\ May("start")
        /\ Fail /\ UNCHANGED <<procs, child_>>
  /\ UNCHANGED <<world, disk, version, exits>>

StartChild ==
  /\ pc = "start"
  /\ \/ /\ child # "nil" /\ pc' = "select"
        /\ UNCHANGED <<procs, child_, task, target>>
     \/ /\ child = "nil" /\ current # 0
        /\ \E slot \in FreeSlots :
             /\ procs' = procs \cup {[slot |-> slot, binary |-> current,
                                      claims |-> version]}
             /\ child' = slot
        /\ stopping' = FALSE /\ pc' = "select" /\ UNCHANGED <<task, target>>
     \/ /\ child = "nil" /\ (current = 0 \/ May("start"))
        /\ Fail /\ UNCHANGED <<procs, child_>>
  /\ UNCHANGED <<world, disk, version, exits>>

(* Mutant: a stopped child stays the manager's child. *)
ForgetNothing == child' = child /\ stopping' = FALSE

(* stopChild, before an update and at shutdown. *)
Forget == child' = "nil" /\ stopping' = FALSE

Stopped == pc' = IF task = "shutdown" THEN "down" ELSE "backup"

(* Mutant: the child is told to stop and not waited for. *)
SignalWithoutWaiting ==
  /\ pc = "signal" /\ Stopped /\ Forget
  /\ UNCHANGED <<world, disk, version, procs, exits, task, target>>

Signal ==
  /\ pc = "signal"
  /\ IF child = "nil" THEN Stopped /\ Forget
     ELSE pc' = "term" /\ stopping' = TRUE /\ UNCHANGED child
  /\ UNCHANGED <<world, disk, version, procs, exits, task, target>>

(* Whatever exit event comes first ends the wait. *)
ReceiveStopped ==
  /\ pc \in {"term", "kill"}
  /\ \E slot \in exits : exits' = exits \ {slot}
  /\ Forget /\ Stopped
  /\ UNCHANGED <<world, disk, version, procs, task, target>>

ForceKill ==
  /\ pc = "term" /\ May("deaf") /\ exits = {}
  /\ pc' = "kill"
  /\ UNCHANGED <<world, disk, version, procs, exits, child_, task, target>>

GiveUp ==
  /\ pc = "kill" /\ May("unkillable") /\ exits = {}
  /\ Forget /\ Fail
  /\ UNCHANGED <<world, disk, version, procs, exits>>

-----------------------------------------------------------------------------
(* run: the select. *)

ReceiveExit ==
  /\ pc = "select"
  /\ \E slot \in exits : exits' = exits \ {slot}
  /\ child' = "nil" /\ stopping' = FALSE
  /\ IF stopping THEN UNCHANGED <<pc, task>>
                 ELSE pc' = "delay" /\ task' = "restart"
  /\ UNCHANGED <<world, disk, version, procs, target>>

RestartDelayOver ==
  /\ pc = "delay" /\ pc' = "start"
  /\ UNCHANGED <<world, disk, version, procs, exits, child_, task, target>>

UpdateTick ==
  /\ pc = "select"
  /\ pc' = "check" /\ task' = "update"
  /\ UNCHANGED <<world, disk, version, procs, exits, child_, target>>

Shutdown ==
  \/ /\ pc = "select" /\ pc' = "signal" /\ task' = "shutdown"
     /\ UNCHANGED <<world, disk, version, procs, exits, child_, target>>
  \/ /\ pc = "delay" /\ Exit
     /\ UNCHANGED <<world, disk, version, procs, exits, child_>>

Installs == \/ CheckLatest \/ Download \/ BackUp \/ SwapIn \/ CleanUp
            \/ SaveConfig
Stops == Signal \/ ReceiveStopped \/ ForceKill \/ GiveUp
Runs == Installs \/ StartChild \/ Stops \/ RestartDelayOver

Next ==
  \/ Boot \/ Runs \/ ReceiveExit \/ UpdateTick \/ Shutdown
  \/ Publish \/ ManagerCrash \/ PowerLoss
  \/ \E p \in procs : ChildExits(p)

Spec == Init /\ [][Next]_vars

(* The manager runs on; its select, which picks any ready case, passes     *)
(* over neither exit events nor the update ticker for ever; a child told   *)
(* to stop does; faults do not last for ever; and a manager that went down *)
(* is started again.                                                       *)
FairSpec ==
  /\ Spec
  /\ WF_vars(Boot) /\ WF_vars(Runs)
  /\ SF_vars(ReceiveExit) /\ SF_vars(UpdateTick)
  /\ SF_vars(CheckLatest /\ pc' = "download")
  /\ SF_vars(Download /\ pc' \in {"backup", "signal"})
  /\ SF_vars(BackUp /\ pc' = "swap") /\ SF_vars(SwapIn /\ pc' = "cleanup")
  /\ SF_vars(SaveConfig /\ pc' = "start")
  /\ WF_vars(\E p \in procs : pc \in {"term", "kill"} /\ p.slot = child
                                /\ ChildExits(p))

-----------------------------------------------------------------------------
Process == [slot : Slots \cup {"orphan"}, binary : Versions, claims : 0..MaxVersion]

TypeOK ==
  /\ faults \in FaultSets /\ latest \in Versions
  /\ {current, backup, saved, version, target} \subseteq 0..MaxVersion
  /\ procs \subseteq Process /\ exits \subseteq Slots
  /\ child \in Slots \cup {"nil"} /\ stopping \in BOOLEAN
  /\ pc \in {"down", "check", "download", "signal", "term", "kill", "backup",
             "swap", "cleanup", "save", "start", "select", "delay"}
  /\ task \in {"boot", "update", "restart", "shutdown"}

(* A node tells the server the version the manager passes it in            *)
(* CLEARLINK_VERSION: it is that of the binary it runs, whatever update    *)
(* failed half way and wherever the power went.                            *)
VersionHonest == \A p \in procs : p.claims = p.binary

(* As long as a killed child dies in time and the manager ends in its own  *)
(* way, no running child is lost sight of, by this manager or the next, so *)
(* that two would share the GPIO lines and devices.                        *)
ChildTracked ==
  faults \cap {"unkillable", "crash"} = {} =>
    /\ \A p \in procs : child = p.slot
    /\ pc \in {"select", "term"} /\ child # "nil" =>
         child \in exits \/ \E p \in procs : p.slot = child

(* "It checks for newer releases in the background, installs updates, and  *)
(* restarts with the new version": a release that is seen by a running     *)
(* manager runs in the end, unless it is superseded or the manager ends.   *)
Running(v) == \E p \in procs : p.binary = v
UpdateApplied ==
  \A v \in Versions :
    latest = v /\ pc = "select" ~> latest # v \/ Running(v) \/ pc = "down"

(* ... also after failed downloads, failed renames, and children that had  *)
(* to be killed, as long as the config file can be written and a process   *)
(* started.                                                                *)
UpdateAppliedAnyway ==
  faults \cap {"save", "start", "unkillable"} = {} => UpdateApplied
=============================================================================
