---------------------------- MODULE ManagerProofs ----------------------------
(***************************************************************************)
(* What holds of the manager and its child for any number of releases,     *)
(* any processes and any faults.                                           *)
(***************************************************************************)
EXTENDS Manager, TLAPS

(* Strengthening of VersionHonest.  What is installed may be newer than    *)
(* the config file says, after a failed save or a loss of power, and never *)
(* newer than the newest release; so a manager that finds itself up to     *)
(* date has what it thinks it has.                                         *)
Installing == {"download", "signal", "term", "kill", "backup", "swap",
               "cleanup", "save"}

DiskInv ==
  /\ saved <= latest
  /\ current # 0 => saved <= current /\ current <= latest
  /\ pc = "swap" /\ backup # 0 => saved <= backup /\ backup <= latest
  /\ pc \in Installing /\ task # "shutdown" =>
       1 <= target /\ saved <= target /\ target <= latest
  /\ pc \in {"cleanup", "save"} => current = target

MemoryInv ==
  /\ pc \in {"start", "select", "delay"} => current \in {0, version}
  /\ pc = "swap" /\ task # "boot" => current = 0 /\ backup \in {0, version}
  /\ pc \in {"check", "download", "signal", "term", "kill", "backup"} =>
       IF task = "boot" THEN version = saved ELSE current \in {0, version}
  /\ pc \in {"backup", "swap", "cleanup", "save", "download", "check"} =>
       task # "shutdown"

(* Strengthening of ChildTracked: there is one child, an exit that has not *)
(* been received is its exit, and a manager that ends has none.            *)
InstallSteps == {"check", "download", "backup", "swap", "cleanup", "save"}
TrackInv ==
  faults \cap {"unkillable", "crash"} = {} =>
    /\ \A p, q \in procs : p = q
    /\ \A p \in procs : p.slot = child
    /\ exits \subseteq {child}
    /\ child \in exits => procs = {}
    /\ child # "nil" => child \in exits \/ \E p \in procs : p.slot = child
    /\ pc = "down" => procs = {}
    /\ pc = "delay" \/ (pc \in InstallSteps /\ task # "update") => child = "nil"

-----------------------------------------------------------------------------
LEMMA Bounds ==
  MaxVersion \in Nat /\ MaxVersion >= 1 /\ Slots \cap {"nil", "orphan"} = {}
BY ManagerAssumption

LEMMA Numbers ==
  ASSUME TypeOK
  PROVE  /\ current \in Nat /\ backup \in Nat /\ saved \in Nat /\ version \in Nat
         /\ target \in Nat /\ latest \in Nat /\ latest >= 1
BY Bounds DEF TypeOK, Versions

LEMMA InitInv == Init => TypeOK /\ DiskInv /\ MemoryInv /\ VersionHonest /\ TrackInv
<1> SUFFICES ASSUME Init
             PROVE  TypeOK /\ DiskInv /\ MemoryInv /\ VersionHonest /\ TrackInv
  OBVIOUS
<1>1. TypeOK
  <2>1. /\ faults \in FaultSets /\ latest \in Versions
        /\ {current, backup, saved, version, target} \subseteq 0..MaxVersion
    BY Bounds DEF Init, Versions
  <2>2. /\ procs \subseteq Process /\ exits \subseteq Slots
        /\ child \in Slots \cup {"nil"} /\ stopping \in BOOLEAN
        /\ pc = "down" /\ task = "boot"
    BY DEF Init
  <2> QED
    BY <2>1, <2>2 DEF TypeOK
<1>2. DiskInv /\ MemoryInv
  BY DEF Init, DiskInv, MemoryInv, Installing
<1>3. VersionHonest /\ TrackInv
  BY DEF Init, VersionHonest, TrackInv
<1> QED
  BY <1>1, <1>2, <1>3

(* An error of the present task. *)
LEMMA FailType ==
  ASSUME TypeOK, Fail
  PROVE  /\ task' \in {"boot", "update", "restart", "shutdown"}
         /\ target' = 0 /\ pc' \in {"select", "down"}
         /\ pc' = "select" => task = "update" /\ task' = task
BY DEF TypeOK, Fail, Exit

LEMMA TypePreserved == TypeOK /\ [Next]_vars => TypeOK'
<1> SUFFICES ASSUME TypeOK, [Next]_vars PROVE TypeOK'
  OBVIOUS
<1> USE DEF world, disk, child_
<1>0. 0 \in 0..MaxVersion /\ Versions \subseteq 0..MaxVersion
  BY Bounds DEF Versions
<1>1. CASE Boot
  <2>1. \A p \in procs : [p EXCEPT !.slot = "orphan"] \in Process
    BY DEF TypeOK, Process
  <2> QED
    BY <1>1, <2>1 DEF Boot, TypeOK
<1>2. CASE CheckLatest
  BY <1>0, <1>2, FailType DEF CheckLatest, TypeOK
<1>3. CASE Download
  BY <1>0, <1>3, FailType DEF Download, TypeOK
<1>4. CASE BackUp
  BY <1>0, <1>4, FailType DEF BackUp, TypeOK
<1>5. CASE SwapIn
  BY <1>0, <1>5, FailType DEF SwapIn, TypeOK
<1>6. CASE CleanUp
  BY <1>0, <1>6 DEF CleanUp, TypeOK
<1>7. CASE SaveConfig
  BY <1>0, <1>7, FailType DEF SaveConfig, TypeOK
<1>8. CASE StartChild
  <2>1. current # 0 => current \in Versions
    BY Bounds DEF TypeOK, Versions
  <2>2. /\ procs' \subseteq Process /\ child' \in Slots \cup {"nil"}
        /\ stopping' \in BOOLEAN
    <3>1. CASE UNCHANGED <<procs, child, stopping>>
      BY <3>1 DEF TypeOK
    <3>2. CASE /\ current # 0 /\ stopping' = FALSE
               /\ \E slot \in FreeSlots :
                    /\ procs' = procs \cup {[slot |-> slot, binary |-> current,
                                             claims |-> version]}
                    /\ child' = slot
      <4>1. PICK slot \in FreeSlots :
              /\ procs' = procs \cup {[slot |-> slot, binary |-> current,
                                       claims |-> version]}
              /\ child' = slot
        BY <3>2
      <4>2. /\ slot \in Slots
            /\ [slot |-> slot, binary |-> current, claims |-> version] \in Process
        BY <2>1, <3>2 DEF FreeSlots, TypeOK, Process
      <4> QED
        BY <3>2, <4>1, <4>2 DEF TypeOK
    <3> QED
      BY <1>8, <3>1, <3>2 DEF StartChild
  <2>3. /\ pc' \in {"down", "select"} /\ target' \in 0..MaxVersion
        /\ task' \in {"boot", "update", "restart", "shutdown"}
    BY <1>0, <1>8, FailType DEF StartChild, TypeOK
  <2> QED
    BY <1>8, <2>2, <2>3 DEF StartChild, TypeOK
<1>9. CASE Signal
  BY <1>9 DEF Signal, Stopped, Forget, TypeOK
<1>10. CASE ReceiveStopped
  BY <1>10 DEF ReceiveStopped, Stopped, Forget, TypeOK
<1>11. CASE ForceKill
  BY <1>11 DEF ForceKill, TypeOK
<1>12. CASE GiveUp
  BY <1>0, <1>12, FailType DEF GiveUp, Forget, TypeOK
<1>13. CASE ReceiveExit
  BY <1>13 DEF ReceiveExit, TypeOK
<1>14. CASE RestartDelayOver
  BY <1>14 DEF RestartDelayOver, TypeOK
<1>15. CASE UpdateTick
  BY <1>15 DEF UpdateTick, TypeOK
<1>16. CASE Shutdown
  BY <1>0, <1>16 DEF Shutdown, Exit, TypeOK
<1>17. CASE Publish
  BY <1>17, Bounds DEF Publish, TypeOK, Versions
<1>18. CASE ManagerCrash \/ PowerLoss
  BY <1>0, <1>18 DEF ManagerCrash, Exit, PowerLoss, TypeOK
<1>19. ASSUME NEW p \in procs, ChildExits(p) PROVE TypeOK'
  BY <1>19 DEF ChildExits, TypeOK, Process
<1>20. CASE UNCHANGED vars
  BY <1>20 DEF vars, TypeOK
<1> QED
  BY <1>1, <1>2, <1>3, <1>4, <1>5, <1>6, <1>7, <1>8, <1>9, <1>10, <1>11, <1>12,
     <1>13, <1>14, <1>15, <1>16, <1>17, <1>18, <1>19, <1>20
  DEF Next, Runs, Installs, Stops

-----------------------------------------------------------------------------
(* Disk and memory. *)

VersionInv == DiskInv /\ MemoryInv /\ VersionHonest

LEMMA VersionPreserved ==
  ASSUME TypeOK, TypeOK', VersionInv, [Next]_vars
  PROVE  VersionInv'
<1> USE DEF world, disk, child_
<1>0. /\ current \in Nat /\ backup \in Nat /\ saved \in Nat /\ version \in Nat
      /\ target \in Nat /\ latest \in Nat /\ latest >= 1
  BY Numbers
<1>1. CASE Boot
  <2>1. VersionHonest'
    <3>1. \A p \in procs :
            /\ [p EXCEPT !.slot = "orphan"].binary = p.binary
            /\ [p EXCEPT !.slot = "orphan"].claims = p.claims
      BY DEF TypeOK, Process
    <3>2. procs' = {[p EXCEPT !.slot = "orphan"] : p \in procs}
      BY <1>1 DEF Boot
    <3>3. \A p \in procs : p.claims = p.binary
      BY DEF VersionInv, VersionHonest
    <3>4. ASSUME NEW q \in procs' PROVE q.claims = q.binary
      <4>1. PICK p \in procs : q = [p EXCEPT !.slot = "orphan"]
        BY <3>2
      <4> QED
        BY <3>1, <3>3, <4>1
    <3> QED
      BY <3>4 DEF VersionHonest
  <2> QED
    BY <1>1, <2>1 DEF Boot, VersionInv, DiskInv, MemoryInv, Installing
<1>2. CASE CheckLatest
  <2>1. UNCHANGED <<latest, current, backup, saved, version, procs>>
    BY <1>2 DEF CheckLatest
  <2>2. CASE UpToDate /\ UNCHANGED <<task, target>>
             /\ pc' = IF task = "boot" THEN "start" ELSE "select"
    <3>1. current \in {0, version}
      BY <1>0, <1>2, <2>2 DEF CheckLatest, UpToDate, VersionInv, DiskInv, MemoryInv
    <3> QED
      BY <2>1, <2>2, <3>1
      DEF VersionInv, DiskInv, MemoryInv, VersionHonest, Installing
  <2>3. CASE target' = latest /\ pc' = "download" /\ UNCHANGED task
    BY <1>0, <1>2, <2>1, <2>3
    DEF CheckLatest, VersionInv, DiskInv, MemoryInv, VersionHonest, Installing
  <2>4. CASE Fail
    BY <1>2, <2>1, <2>4, FailType
    DEF CheckLatest, VersionInv, DiskInv, MemoryInv, VersionHonest, Installing
  <2> QED
    BY <1>2, <2>2, <2>3, <2>4 DEF CheckLatest
<1>3. CASE Download
  <2>1. UNCHANGED <<latest, current, backup, saved, version, procs>> /\ pc = "download"
    BY <1>3 DEF Download
  <2>2. CASE Fail
    BY <2>1, <2>2, FailType
    DEF VersionInv, DiskInv, MemoryInv, VersionHonest, Installing
  <2>3. CASE pc' \in {"backup", "signal"} /\ UNCHANGED <<task, target>>
    BY <2>1, <2>3 DEF VersionInv, DiskInv, MemoryInv, VersionHonest, Installing
  <2> QED
    BY <1>3, <2>2, <2>3 DEF Download
<1>4. CASE BackUp
  <2>1. UNCHANGED <<latest, saved, version, procs>> /\ pc = "backup"
    BY <1>4 DEF BackUp
  <2>2. CASE Fail /\ UNCHANGED current
    BY <2>1, <2>2, FailType
    DEF VersionInv, DiskInv, MemoryInv, VersionHonest, Installing
  <2>3. CASE /\ backup' = current /\ current' = 0 /\ pc' = "swap"
             /\ UNCHANGED <<task, target>>
    BY <2>1, <2>3 DEF VersionInv, DiskInv, MemoryInv, VersionHonest, Installing
  <2> QED
    BY <1>4, <2>2, <2>3 DEF BackUp
<1>5. CASE SwapIn
  <2>1. UNCHANGED <<latest, saved, version, procs>> /\ pc = "swap"
    BY <1>5 DEF SwapIn
  <2>2. CASE Fail /\ current' = backup
    BY <2>1, <2>2, FailType
    DEF VersionInv, DiskInv, MemoryInv, VersionHonest, Installing
  <2>3. CASE Fail /\ UNCHANGED current
    BY <2>1, <2>3, FailType
    DEF VersionInv, DiskInv, MemoryInv, VersionHonest, Installing
  <2>4. CASE current' = target /\ pc' = "cleanup" /\ UNCHANGED <<backup, task, target>>
    BY <2>1, <2>4 DEF VersionInv, DiskInv, MemoryInv, VersionHonest, Installing
  <2> QED
    BY <1>5, <2>2, <2>3, <2>4 DEF SwapIn
<1>6. CASE CleanUp
  BY <1>6 DEF CleanUp, VersionInv, DiskInv, MemoryInv, VersionHonest, Installing
<1>7. CASE SaveConfig
  <2>1. /\ UNCHANGED <<latest, current, backup, procs>> /\ version' = target
        /\ pc = "save" /\ current = target
    BY <1>7 DEF SaveConfig, VersionInv, DiskInv
  <2>2. CASE saved' = target /\ pc' = "start" /\ UNCHANGED task
    BY <1>0, <2>1, <2>2 DEF VersionInv, DiskInv, MemoryInv, VersionHonest, Installing
  <2>3. CASE Fail /\ UNCHANGED saved
    BY <2>1, <2>3, FailType
    DEF VersionInv, DiskInv, MemoryInv, VersionHonest, Installing
  <2> QED
    BY <1>7, <2>2, <2>3 DEF SaveConfig
<1>8. CASE StartChild
  <2>1. UNCHANGED <<latest, current, backup, saved, version>> /\ pc = "start"
    BY <1>8 DEF StartChild
  <2>2. current \in {0, version}
    BY <2>1 DEF VersionInv, MemoryInv
  <2>3. VersionHonest'
    BY <1>8, <2>2 DEF StartChild, VersionInv, VersionHonest
  <2>4. pc' \in {"select", "down"}
    BY <1>8, FailType DEF StartChild
  <2> QED
    BY <2>1, <2>2, <2>3, <2>4 DEF VersionInv, DiskInv, MemoryInv, Installing
<1>9. CASE Signal \/ ReceiveStopped
  <2>1. /\ UNCHANGED <<latest, current, backup, saved, version, procs, task, target>>
        /\ pc \in {"signal", "term", "kill"}
        /\ pc' = "term" \/ Stopped
    BY <1>9 DEF Signal, ReceiveStopped
  <2> QED
    BY <2>1 DEF Stopped, VersionInv, DiskInv, MemoryInv, VersionHonest, Installing
<1>10. CASE ForceKill
  BY <1>10 DEF ForceKill, VersionInv, DiskInv, MemoryInv, VersionHonest, Installing
<1>11. CASE GiveUp
  BY <1>11, FailType
  DEF GiveUp, VersionInv, DiskInv, MemoryInv, VersionHonest, Installing
<1>12. CASE ReceiveExit
  BY <1>12 DEF ReceiveExit, VersionInv, DiskInv, MemoryInv, VersionHonest, Installing
<1>13. CASE RestartDelayOver
  BY <1>13 DEF RestartDelayOver, VersionInv, DiskInv, MemoryInv, VersionHonest, Installing
<1>14. CASE UpdateTick
  BY <1>14 DEF UpdateTick, VersionInv, DiskInv, MemoryInv, VersionHonest, Installing
<1>15. CASE Shutdown
  BY <1>15 DEF Shutdown, Exit, VersionInv, DiskInv, MemoryInv, VersionHonest, Installing
<1>16. CASE Publish
  <2>1. /\ latest' = latest + 1
        /\ UNCHANGED <<current, backup, saved, version, procs, pc, task, target>>
    BY <1>16 DEF Publish
  <2> QED
    BY <1>0, <2>1 DEF VersionInv, DiskInv, MemoryInv, VersionHonest
<1>17. CASE ManagerCrash \/ PowerLoss
  BY <1>17 DEF ManagerCrash, Exit, PowerLoss, VersionInv, DiskInv, MemoryInv,
               VersionHonest, Installing
<1>18. ASSUME NEW p \in procs, ChildExits(p) PROVE VersionInv'
  BY <1>18 DEF ChildExits, VersionInv, DiskInv, MemoryInv, VersionHonest, Installing
<1>19. CASE UNCHANGED vars
  BY <1>19 DEF vars, VersionInv, DiskInv, MemoryInv, VersionHonest, Installing
<1> QED
  BY <1>1, <1>2, <1>3, <1>4, <1>5, <1>6, <1>7, <1>8, <1>9, <1>10, <1>11, <1>12,
     <1>13, <1>14, <1>15, <1>16, <1>17, <1>18, <1>19
  DEF Next, Runs, Installs, Stops

-----------------------------------------------------------------------------
(* The child. *)

LEMMA TrackPreserved ==
  ASSUME TypeOK, TrackInv, [Next]_vars
  PROVE  TrackInv'
<1> USE Bounds DEF world, disk, child_
<1>1. faults' = faults
  BY DEF Next, Runs, Installs, Stops, Boot, CheckLatest, Download, BackUp, SwapIn,
         CleanUp, SaveConfig, StartChild, Signal, ReceiveStopped, ForceKill, GiveUp,
         RestartDelayOver, ReceiveExit, UpdateTick, Shutdown, Publish, PowerLoss,
         ManagerCrash, ChildExits, vars
<1> SUFFICES ASSUME faults \cap {"unkillable", "crash"} = {} PROVE TrackInv'
  BY <1>1 DEF TrackInv
<1>2. /\ \A p, q \in procs : p = q
      /\ \A p \in procs : p.slot = child
      /\ exits \subseteq {child}
      /\ child \in exits => procs = {}
      /\ child # "nil" => child \in exits \/ \E p \in procs : p.slot = child
      /\ pc = "down" => procs = {}
      /\ pc = "delay" \/ (pc \in InstallSteps /\ task # "update") => child = "nil"
      /\ exits \subseteq Slots /\ \A p \in procs : p.slot \in Slots \cup {"orphan"}
      /\ child \in Slots \cup {"nil"}
  BY DEF TrackInv, TypeOK, Process
<1>none. child = "nil" => procs = {} /\ exits = {}
  BY <1>2
<1>frame. ASSUME UNCHANGED <<procs, child, exits>>, pc' = "down" => procs = {},
             pc' = "delay" \/ (pc' \in InstallSteps /\ task' # "update")
               => child = "nil"
      PROVE  TrackInv'
  BY <1>frame, <1>2 DEF TrackInv, InstallSteps
<1>3. CASE Boot \/ PowerLoss
  <2>1. procs' = {} /\ exits' = {} /\ child' = "nil"
    BY <1>3, <1>2 DEF Boot, PowerLoss
  <2> QED
    BY <2>1 DEF TrackInv
<1>4. CASE StartChild
  <2>1. CASE UNCHANGED <<procs, child, exits>>
    <3>1. pc' \in {"select", "down"} /\ (pc' = "down" => child = "nil")
      BY <1>4 DEF StartChild, Fail, Exit
    <3> QED
      BY <1>none, <1>frame, <2>1, <3>1 DEF InstallSteps
  <2>2. CASE /\ child = "nil" /\ UNCHANGED exits /\ pc' = "select"
             /\ \E slot \in FreeSlots :
                  /\ procs' = procs \cup {[slot |-> slot, binary |-> current,
                                           claims |-> version]}
                  /\ child' = slot
    <3>1. procs = {} /\ exits = {}
      BY <1>none, <2>2
    <3>2. PICK slot \in FreeSlots :
            /\ procs' = procs \cup {[slot |-> slot, binary |-> current,
                                     claims |-> version]}
            /\ child' = slot
      BY <2>2
    <3> QED
      BY <2>2, <3>1, <3>2 DEF TrackInv, InstallSteps
  <2> QED
    BY <1>4, <2>1, <2>2 DEF StartChild
<1>5. CASE Signal
  <2>1. CASE child = "nil"
    <3>1. /\ child' = "nil" /\ UNCHANGED <<procs, exits>>
      BY <1>5, <2>1 DEF Signal, Forget
    <3> QED
      BY <1>none, <2>1, <3>1 DEF TrackInv
  <2>2. CASE child # "nil"
    BY <1>5, <2>2, <1>frame DEF Signal, InstallSteps
  <2> QED
    BY <2>1, <2>2
<1>6. CASE ReceiveStopped \/ ReceiveExit
  <2>1. /\ \E slot \in exits : exits' = exits \ {slot}
        /\ child' = "nil" /\ UNCHANGED procs
    BY <1>6 DEF ReceiveStopped, ReceiveExit, Forget
  <2>2. procs = {} /\ exits' = {}
    BY <1>2, <2>1
  <2> QED
    BY <2>1, <2>2 DEF TrackInv
<1>7. CASE GiveUp \/ ManagerCrash
  BY <1>7 DEF GiveUp, ManagerCrash, May
<1>8. ASSUME NEW p \in procs, ChildExits(p) PROVE TrackInv'
  <2>1. procs' = {} /\ exits' = exits \cup {child} /\ UNCHANGED <<child, pc, task>>
    BY <1>2, <1>8, Bounds DEF ChildExits
  <2> QED
    BY <1>2, <2>1 DEF TrackInv
<1>9. CASE CheckLatest \/ Download \/ BackUp \/ SwapIn \/ CleanUp \/ SaveConfig
  <2>1. UNCHANGED <<procs, child, exits>> /\ pc \in InstallSteps
    BY <1>9 DEF CheckLatest, Download, BackUp, SwapIn, CleanUp, SaveConfig,
                InstallSteps
  <2>2. pc' # "delay" /\ (task' = task \/ pc' = "down")
    BY <1>9 DEF CheckLatest, Download, BackUp, SwapIn, CleanUp, SaveConfig, Fail, Exit
  <2>3. pc' = "down" => task # "update"
    BY <1>9 DEF CheckLatest, Download, BackUp, SwapIn, CleanUp, SaveConfig, Fail, Exit
  <2> QED
    BY <1>2, <1>none, <1>frame, <2>1, <2>2, <2>3 DEF InstallSteps
<1>10. CASE ForceKill \/ RestartDelayOver \/ UpdateTick \/ Publish
  <2>1. UNCHANGED <<procs, child, exits>>
    BY <1>10 DEF ForceKill, RestartDelayOver, UpdateTick, Publish
  <2>2. \/ pc' \in {"kill", "start"}
        \/ pc' = "check" /\ task' = "update"
        \/ UNCHANGED <<pc, task>>
    BY <1>10 DEF ForceKill, RestartDelayOver, UpdateTick, Publish
  <2> QED
    BY <1>2, <1>frame, <2>1, <2>2 DEF InstallSteps
<1>11. CASE Shutdown
  <2>1. UNCHANGED <<procs, child, exits>>
    BY <1>11 DEF Shutdown
  <2>2. pc' = "signal" \/ (pc = "delay" /\ pc' = "down")
    BY <1>11 DEF Shutdown, Exit
  <2> QED
    BY <1>2, <1>none, <1>frame, <2>1, <2>2 DEF InstallSteps
<1>12. CASE UNCHANGED vars
  BY <1>2, <1>frame, <1>12 DEF vars
<1> QED
  BY <1>3, <1>4, <1>5, <1>6, <1>7, <1>8, <1>9, <1>10, <1>11, <1>12
     DEF Next, Runs, Installs, Stops

-----------------------------------------------------------------------------
ManagerInv == TypeOK /\ VersionInv /\ TrackInv

LEMMA ManagerInvariant == Spec => []ManagerInv
<1>1. Init => ManagerInv
  BY InitInv DEF ManagerInv, VersionInv
<1>2. ASSUME ManagerInv, [Next]_vars PROVE ManagerInv'
  BY <1>2, TypePreserved, VersionPreserved, TrackPreserved DEF ManagerInv
<1> QED
  BY <1>1, <1>2, PTL DEF Spec

(* The manager, its files and its child processes stay in their types, and *)
(* no process runs without an installed binary.                            *)
THEOREM ManagerTypeCorrect == Spec => []TypeOK
<1>1. ManagerInv => TypeOK
  BY DEF ManagerInv
<1> QED
  BY <1>1, ManagerInvariant, PTL

(* A child is told the version of the binary it runs, whatever failed half *)
(* way and wherever the power went.                                        *)
THEOREM VersionHonestCorrect == Spec => []VersionHonest
<1>1. ManagerInv => VersionHonest
  BY DEF ManagerInv, VersionInv
<1> QED
  BY <1>1, ManagerInvariant, PTL

(* Unless a child survives being killed or its manager, there is one child *)
(* at most and the manager knows of it.                                    *)
THEOREM ChildTrackedCorrect == Spec => []ChildTracked
<1>1. ManagerInv => ChildTracked
  BY DEF ManagerInv, TrackInv, ChildTracked
<1> QED
  BY <1>1, ManagerInvariant, PTL
=============================================================================
