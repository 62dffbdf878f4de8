------------------------- MODULE AutoresearchProofs -------------------------
(***************************************************************************)
(* Theorems about CellWorker and about Round.                               *)
(*                                                                         *)
(* CellWorker, for every set of pids and any number of processes and        *)
(* crashes: a cell's worker is owned by one controller or named by its      *)
(* record, and the record outlives it.                                      *)
(*                                                                         *)
(* Round, for every set of controllers and any number of arms, turns and    *)
(* faults: the arms that a campaign's summary counts are clean, a campaign  *)
(* runs once, and only what it names blocks the exporter.                   *)
(***************************************************************************)
EXTENDS CellWorker, Round, FiniteSetTheorems, SequenceTheorems, TLAPS

(***************************************************************************)
(* The inductive invariant.                                                 *)
(***************************************************************************)

\* From Popen to the reaping of the child, before and after its identity is
\* known.
FreshPCs == {"capture", "uncaptured", "uncaptured_wait"}
OwningPCs == {"persist", "write", "wait", "terminate", "check", "send", "reap"}

\* Start times grow with the clock, and whatever exists has one; a launch
\* creates a process, and only a crash loses one.
Ticks ==
    /\ \A p \in Pids : /\ proc[p].tick <= clock
                       /\ GroupExists(p) => proc[p].tick >= 1
    /\ ident.tick <= clock
    /\ record.id.tick <= clock
    /\ launches <= clock /\ lost <= crashes

\* The child that is not reaped keeps its pid, and once captured it is the
\* process that the identity names.
Parent ==
    /\ popen # NoPid => proc[popen].leader # "none"
    /\ at \in FreshPCs => popen # NoPid
    /\ at \in OwningPCs => /\ popen # NoPid /\ ident.pid = popen
                           /\ proc[popen].tick = ident.tick
    /\ at \in {"certify", "remove", "down"} \cup RecoverPCs => popen = NoPid
    /\ at \in {"certify", "remove"} => ident \in Identity
    /\ "send" \notin stray

\* What the controller has concluded, and the record it works from.
Concluded ==
    /\ at \in {"certify", "remove", "group", "r_remove"} => result \in Certified
    /\ at = "idle" => result # "none"
    /\ at = "idle" /\ result = "no_state" => record.state = "absent"
    /\ at \in RecoverPCs \ {"load"} => record.state = "whole" /\ record.id = ident
    /\ record.state = "whole" => record.id \in Identity

\* Before the record is removed the group it names was seen to be gone; a group
\* that has its number by now is a later one.
Absent ==
    at \in {"remove", "r_remove"} /\ GroupExists(ident.pid)
        => proc[ident.pid].tick # ident.tick

\* Every launch but the lost ones has left something that forbids another.
Traced ==
    /\ Cardinality(WorkerGroups) <= launches
    /\ launches <= 1 + lost
    /\ \/ launches <= lost
       \/ journal
       \/ terminal
       \/ record.state # "absent"
       \/ at \in RunPCs
       \/ at = "idle" /\ result \in Failures \cup Certified

\* As long as no launch was lost, the one group that may hold a worker is the
\* one the controller or the record names.
Confined ==
    lost = 0 =>
        /\ at \in FreshPCs => WorkerGroups \subseteq {popen}
        /\ at \in OwningPCs \cup {"certify"} => WorkerGroups \subseteq {ident.pid}
        /\ record.state = "whole" => WorkerGroups \subseteq {record.id.pid}
        /\ at \in {"remove", "r_remove"} => WorkerGroups = {}
        /\ at = "idle" /\ result \in Certified => WorkerGroups = {}
        /\ (at \in {"down", "load"} \/ (at = "idle" /\ result = "no_state"))
           /\ record.state = "absent" /\ ~terminal => WorkerGroups = {}

WorkerInv == WorkerTypeOK /\ Ticks /\ Parent /\ Concluded /\ Absent /\ Traced /\ Confined

(***************************************************************************)
(* The process table.                                                       *)
(***************************************************************************)

\* No process is created: nothing that was gone is back, and nobody changes
\* what it is.
Settles ==
    /\ clock' = clock
    /\ \A q \in Pids :
         /\ proc'[q].tick = proc[q].tick
         /\ proc'[q].worker => proc[q].worker
         /\ proc'[q].leader # "none" \/ proc'[q].member => GroupExists(q)

\* The process at p is new and the others are as they were.
Creates(p, isWorker) ==
    /\ clock < MaxTick /\ clock' = clock + 1
    /\ ~GroupExists(p)
    /\ proc'[p].leader = "running" /\ ~proc'[p].member
    /\ proc'[p].tick = clock + 1 /\ proc'[p].worker = isWorker
    /\ \A q \in Pids \ {p} : proc'[q] = proc[q]

\* The child of the live controller exists until it is reaped.
KeepsChild == popen' # NoPid => proc'[popen'].leader # "none"

\* A process table whose groups are changed in one field of one group.
LEMMA LeaderSet ==
    ASSUME proc \in [Pids -> Process], NEW p \in Pids,
           NEW l \in {"none", "running", "zombie"}, clock' = clock,
           proc' = [proc EXCEPT ![p].leader = l],
           l # "none" => GroupExists(p)
    PROVE  /\ Settles /\ proc' \in [Pids -> Process]
           /\ proc'[p].leader = l
           /\ \A q \in Pids \ {p} : proc'[q] = proc[q]
  BY DEF Settles, GroupExists, Process

LEMMA KilledSet ==
    ASSUME proc \in [Pids -> Process], NEW p \in Pids, clock' = clock,
           proc' = [proc EXCEPT ![p].killed = TRUE]
    PROVE  /\ Settles /\ proc' \in [Pids -> Process]
           /\ \A q \in Pids : proc'[q].leader = proc[q].leader
  BY DEF Settles, GroupExists, Process

LEMMA TableKept ==
    ASSUME proc \in [Pids -> Process], UNCHANGED kernel
    PROVE  Settles
  BY DEF Settles, GroupExists, kernel

LEMMA ProcessCreated ==
    ASSUME proc \in [Pids -> Process], clock \in 0..MaxTick, MaxTick \in Nat,
           NEW p \in Pids, NEW w \in BOOLEAN, NewProcess(p, w)
    PROVE  /\ Creates(p, w)
           /\ proc' \in [Pids -> Process] /\ clock' \in 0..MaxTick
  <1> DEFINE new == [Free EXCEPT !.leader = "running", !.tick = clock + 1,
                                 !.worker = w]
  <1>1. /\ clock < MaxTick /\ clock' = clock + 1 /\ ~GroupExists(p)
        /\ proc' = [proc EXCEPT ![p] = new]
    BY DEF NewProcess
  <1>2. clock + 1 \in 0..MaxTick
    BY <1>1
  <1>3. new \in Process
    BY <1>2 DEF Free, Process
  <1>4. /\ new.leader = "running" /\ ~new.member
        /\ new.tick = clock + 1 /\ new.worker = w
    BY DEF Free
  <1> HIDE DEF new
  <1>5. proc'[p] = new /\ proc' \in [Pids -> Process]
        /\ \A q \in Pids \ {p} : proc'[q] = proc[q]
    BY <1>1, <1>3
  <1> QED
    BY <1>1, <1>2, <1>4, <1>5 DEF Creates

\* What a reaped child and a controller that is gone do to the table.
LEMMA ChildReaped ==
    ASSUME proc \in [Pids -> Process], popen \in Pids, clock' = clock,
           proc' = Reaped, popen' = NoPid
    PROVE  Settles /\ KeepsChild /\ proc' \in [Pids -> Process]
  <1>1. Settles /\ proc' \in [Pids -> Process]
    BY LeaderSet DEF Reaped
  <1> QED
    BY <1>1 DEF KeepsChild

LEMMA ChildOrphaned ==
    ASSUME proc \in [Pids -> Process], popen \in Pids \cup {NoPid},
           clock' = clock, proc' = Orphaned(proc), popen' = NoPid
    PROVE  Settles /\ KeepsChild /\ proc' \in [Pids -> Process]
  <1>1. CASE proc' = proc
    BY <1>1, TableKept DEF KeepsChild, kernel
  <1>2. CASE popen \in Pids /\ proc' = [proc EXCEPT ![popen].leader = "none"]
    <2>1. Settles /\ proc' \in [Pids -> Process]
      BY <1>2, LeaderSet
    <2> QED
      BY <2>1 DEF KeepsChild
  <1> QED
    BY <1>1, <1>2 DEF Orphaned, NoPid

(***************************************************************************)
(* Each step's effect on the process table.                                 *)
(***************************************************************************)

\* Popen succeeds with pid p.
Launched(p) ==
    /\ at = "idle" /\ result = "no_state" /\ ~terminal /\ ~journal
    /\ record.state = "absent"
    /\ popen' = p /\ at' = "capture" /\ launches' = launches + 1
    /\ UNCHANGED <<disk, ident, after, sent, require, result, terminal, crashes,
                   lost, stray>>

\* Popen is not called, or fails.
NotLaunched ==
    /\ at = "idle" /\ result = "no_state" /\ ~terminal /\ ~journal
    /\ at' = "idle"
    /\ result' = IF record.state # "absent" THEN "worker_state_exists"
                                            ELSE "worker_launch_failed"
    /\ UNCHANGED <<kernel, disk, popen, ident, after, sent, require, terminal,
                   history>>

LEMMA LaunchCases ==
    ASSUME Launch
    PROVE  NotLaunched \/ \E p \in Pids : NewProcess(p, TRUE) /\ Launched(p)
  <1>1. CASE at' = "idle" /\ UNCHANGED <<kernel, popen, launches>>
             /\ result' = IF record.state # "absent" THEN "worker_state_exists"
                                            ELSE "worker_launch_failed"
    BY <1>1 DEF Launch, NotLaunched, kernel, disk, history
  <1>2. CASE record.state = "absent" /\ launches' = launches + 1
             /\ at' = "capture" /\ UNCHANGED result
             /\ \E p \in Pids : NewProcess(p, TRUE) /\ popen' = p
    BY <1>2 DEF Launch, Launched
  <1> QED
    BY <1>1, <1>2 DEF Launch, Finish

\* The steps that create no process.
Calm ==
    \/ \E p \in Pids : LeaderExits(p) \/ MemberMoves(p) \/ WorkerJournals(p)
    \/ Invoke \/ EndInvocation \/ ControllerCrash \/ NotLaunched \/ Controller
    \/ UNCHANGED workerVars

LEMMA StepCases ==
    ASSUME [WorkerNext]_workerVars
    PROVE  \/ StrangerStarts
           \/ \E p \in Pids : NewProcess(p, TRUE) /\ Launched(p)
           \/ Calm
  BY LaunchCases DEF WorkerNext, Kernel, Calm

\* A quiet step leaves the table as it was or lets something end.
LEMMA QuietStep ==
    ASSUME WorkerTypeOK, Parent, WorkerAssumption, Calm
    PROVE  Settles /\ KeepsChild /\ proc' \in [Pids -> Process]
  <1> USE DEF WorkerTypeOK
  <1> DEFINE Goal == Settles /\ KeepsChild /\ proc' \in [Pids -> Process]
  <1>0. popen \in Pids <=> popen # NoPid
    BY DEF WorkerAssumption, NoPid
  <1>k. ASSUME UNCHANGED <<proc, clock, popen>> PROVE Goal
    BY <1>k, TableKept DEF KeepsChild, Parent, kernel
  <1>o. ASSUME proc' = Orphaned(proc), clock' = clock, popen' = NoPid PROVE Goal
    BY <1>o, ChildOrphaned
  <1>r. ASSUME proc' = Reaped, clock' = clock, popen' = NoPid, popen # NoPid
        PROVE  Goal
    BY <1>r, <1>0, ChildReaped
  <1>s. ASSUME NEW p \in Pids, proc' = [proc EXCEPT ![p].killed = TRUE],
               UNCHANGED <<clock, popen>>
        PROVE  Goal
    BY <1>s, <1>0, KilledSet DEF KeepsChild, Parent
  <1>1. ASSUME NEW p \in Pids, LeaderExits(p) PROVE Goal
    <2> DEFINE l == IF p = popen THEN "zombie" ELSE "none"
    <2>1. /\ proc' = [proc EXCEPT ![p].leader = l] /\ clock' = clock
          /\ popen' = popen /\ GroupExists(p) /\ l \in {"none", "running", "zombie"}
      BY <1>1 DEF LeaderExits, control, GroupExists
    <2>2. l # "none" <=> p = popen
      OBVIOUS
    <2> HIDE DEF l
    <2>3. /\ Settles /\ proc' \in [Pids -> Process] /\ proc'[p].leader = l
          /\ \A q \in Pids \ {p} : proc'[q] = proc[q]
      BY <2>1, LeaderSet
    <2>4. KeepsChild
      BY <1>0, <2>1, <2>2, <2>3 DEF KeepsChild, Parent
    <2> QED
      BY <2>3, <2>4
  <1>2. ASSUME NEW p \in Pids, MemberMoves(p) PROVE Goal
    <2> DEFINE m == ~proc[p].member
    <2>1. /\ proc' = [proc EXCEPT ![p].member = m] /\ m \in BOOLEAN
          /\ clock' = clock /\ popen' = popen /\ GroupExists(p)
      BY <1>2 DEF MemberMoves, control, GroupExists
    <2> HIDE DEF m
    <2>2. Settles /\ proc' \in [Pids -> Process]
      BY <2>1 DEF Settles, GroupExists, Process
    <2>3. \A q \in Pids : proc'[q].leader = proc[q].leader
      BY <2>1 DEF Process
    <2> QED
      BY <1>0, <2>1, <2>2, <2>3 DEF KeepsChild, Parent
  <1>3. ASSUME NEW p \in Pids, WorkerJournals(p) PROVE Goal
    BY <1>3, <1>k DEF WorkerJournals, kernel, control
  <1>4. CASE Invoke
    BY <1>4, <1>k DEF Invoke, kernel
  <1>5. CASE EndInvocation
    BY <1>5, <1>o DEF EndInvocation, Gone
  <1>6. CASE ControllerCrash
    BY <1>6, <1>o DEF ControllerCrash, Gone
  <1>7. CASE NotLaunched
    BY <1>7, <1>k DEF NotLaunched, kernel
  <1>8. CASE Controller
    <2>1. CASE Capture \/ PersistCreate \/ PersistWrite \/ Check
      BY <2>1, <1>k DEF Capture, PersistCreate, PersistWrite, Check, kernel
    <2>2. CASE Certify \/ Remove \/ Load \/ Snapshot
      BY <2>2, <1>k DEF Certify, Remove, Load, Snapshot, kernel
    <2>3. CASE Group \/ RecoveryWait \/ RecoveryRemove
      BY <2>3, <1>k DEF Group, RecoveryWait, RecoveryRemove, kernel
    <2>4. CASE KillUncaptured
      BY <2>4, <1>s, <1>0 DEF KillUncaptured, Parent, FreshPCs
    <2>5. CASE WaitUncaptured
      BY <2>5, <1>k, <1>r DEF WaitUncaptured, Parent, FreshPCs
    <2>6. CASE WaitWorker
      BY <2>6, <1>k, <1>r DEF WaitWorker, Parent, OwningPCs
    <2>7. CASE Terminate
      BY <2>7, <1>k, <1>r DEF Terminate, Parent, OwningPCs
    <2>8. CASE Reap
      BY <2>8, <1>k, <1>r DEF Reap, Parent, OwningPCs
    <2>9. CASE Send
      BY <2>9, <1>k, <1>s, <1>0 DEF Send, Parent, OwningPCs
    <2> QED
      BY <1>8, <2>1, <2>2, <2>3, <2>4, <2>5, <2>6, <2>7, <2>8, <2>9
      DEF Controller
  <1>9. CASE UNCHANGED workerVars
    BY <1>9, <1>k DEF workerVars
  <1> QED
    BY <1>1, <1>2, <1>3, <1>4, <1>5, <1>6, <1>7, <1>8, <1>9 DEF Calm

(***************************************************************************)
(* Each part of the invariant over each step.                               *)
(***************************************************************************)

\* A step of the kernel or of a worker in an existing group.
Outside ==
    /\ UNCHANGED <<record, control, history>>
    /\ journal' = journal \/ journal' = TRUE

LEMMA QuietCases ==
    ASSUME Calm
    PROVE  \/ Outside \/ Invoke \/ EndInvocation \/ ControllerCrash \/ NotLaunched
           \/ Controller
  <1>1. ASSUME NEW p \in Pids, LeaderExits(p) \/ MemberMoves(p) PROVE Outside
    BY <1>1 DEF LeaderExits, MemberMoves, Outside
  <1>2. ASSUME NEW p \in Pids, WorkerJournals(p) PROVE Outside
    BY <1>2 DEF WorkerJournals, Outside
  <1>3. CASE UNCHANGED workerVars
    BY <1>3 DEF workerVars, Outside, control, history
  <1> QED
    BY <1>1, <1>2, <1>3 DEF Calm

\* The part of TypeOK that is not about the process table.
RestOK ==
    /\ record \in [state : {"absent", "torn", "whole"},
                   id : Identity \cup {NoIdentity}]
    /\ journal \in BOOLEAN
    /\ at \in PCs
    /\ popen \in Pids \cup {NoPid}
    /\ ident \in Identity \cup {NoIdentity}
    /\ after \in {"SIGINT", "SIGKILL"}
    /\ sent \in BOOLEAN /\ require \in BOOLEAN
    /\ result \in Results
    /\ terminal \in BOOLEAN
    /\ crashes \in 0..MaxCrashes
    /\ lost \in 0..MaxCrashes /\ launches \in 0..MaxTick
    /\ stray \subseteq {"send", "r_send"}

LEMMA ControllerTyped ==
    ASSUME WorkerTypeOK, Ticks, Parent, Concluded, WorkerAssumption, Controller
    PROVE  RestOK'
  <1> USE DEF RestOK, PCs, RunPCs, RecoverPCs
  <1>0. RestOK /\ (popen \in Pids <=> popen # NoPid)
    BY DEF WorkerTypeOK, WorkerAssumption, NoPid
  <1>1. CASE Capture
    <2>1. CASE UNCHANGED ident /\ at' = "uncaptured"
      BY <1>0, <1>1, <2>1 DEF Capture, disk, history
    <2>2. CASE ident' = [pid |-> popen, tick |-> proc[popen].tick]
               /\ at' = "persist"
      <3>1. popen \in Pids /\ proc[popen].tick \in 1..MaxTick
        BY <1>0, <1>1 DEF Capture, Parent, FreshPCs, WorkerTypeOK, Process, Ticks, GroupExists
      <3>2. ident' \in Identity
        BY <2>2, <3>1 DEF Identity
      <3> QED
        BY <1>0, <1>1, <2>2, <3>2 DEF Capture, disk, history
    <2> QED
      BY <1>1, <2>1, <2>2 DEF Capture
  <1>2. CASE KillUncaptured
    BY <1>0, <1>2 DEF KillUncaptured, disk, history
  <1>3. CASE WaitUncaptured
    BY <1>0, <1>3 DEF WaitUncaptured, Finish, Results, Failures, disk, history
  <1>4. CASE PersistCreate
    <2>1. [NoRecord EXCEPT !.state = "torn"]
            \in [state : {"absent", "torn", "whole"}, id : Identity \cup {NoIdentity}]
      BY DEF NoRecord
    <2> QED
      BY <1>0, <1>4, <2>1 DEF PersistCreate, history
  <1>5. CASE PersistWrite
    <2>1. require' \in BOOLEAN
      BY <1>5 DEF PersistWrite
    <2>2. at' \in PCs
      BY <1>5 DEF PersistWrite
    <2>3. record' \in [state : {"absent", "torn", "whole"},
                       id : Identity \cup {NoIdentity}]
      BY <1>0, <1>5 DEF PersistWrite
    <2> QED
      BY <1>0, <1>5, <2>1, <2>2, <2>3 DEF PersistWrite, history
  <1>6. CASE WaitWorker
    BY <1>0, <1>6 DEF WaitWorker, Results, Certified, disk, history
  <1>7. CASE Terminate
    BY <1>0, <1>7 DEF Terminate, Results, Certified, disk, history
  <1>8. CASE Check
    BY <1>0, <1>8 DEF Check, Finish, Results, Failures, disk, history
  <1>9. CASE Send
    <2>1. sent' \in BOOLEAN
      BY <1>9 DEF Send, GroupExists
    <2>2. stray' \subseteq {"send", "r_send"}
      BY <1>0, <1>9 DEF Send
    <2> QED
      BY <1>0, <1>9, <2>1, <2>2 DEF Send, disk
  <1>10. CASE Reap
    BY <1>0, <1>10 DEF Reap, Finish, Results, Certified, Failures, disk, history
  <1>11. CASE Certify
    BY <1>0, <1>11 DEF Certify, Finish, Results, Failures, disk, history
  <1>12. CASE Remove
    <2>1. record' \in [state : {"absent", "torn", "whole"},
                       id : Identity \cup {NoIdentity}]
      BY <1>0, <1>12 DEF Remove, NoRecord
    <2>2. at' = "idle" /\ result' \in Results
      BY <1>0, <1>12 DEF Remove, Finish, Results, Failures
    <2> QED
      BY <1>0, <1>12, <2>1, <2>2 DEF Remove, history
  <1>13. CASE Load
    BY <1>0, <1>13 DEF Load, Finish, Results, Failures, disk, history
  <1>14. CASE Snapshot
    BY <1>0, <1>14 DEF Snapshot, Finish, Results, Failures, Certified, disk, history
  <1>15. CASE Group
    BY <1>0, <1>15 DEF Group, Finish, Results, Failures, disk, history
  <1>16. CASE RecoveryWait
    BY <1>0, <1>16 DEF RecoveryWait, Finish, Results, Failures, Certified, disk, history
  <1>17. CASE RecoveryRemove
    BY <1>0, <1>17 DEF RecoveryRemove, Finish, NoRecord, history
  <1> QED
    BY <1>1, <1>2, <1>3, <1>4, <1>5, <1>6, <1>7, <1>8, <1>9, <1>10, <1>11, <1>12,
       <1>13, <1>14, <1>15, <1>16, <1>17 DEF Controller

LEMMA TypeStep ==
    ASSUME WorkerTypeOK, Ticks, Parent, Concluded, WorkerAssumption, [WorkerNext]_workerVars
    PROVE  WorkerTypeOK'
  <1> USE DEF RestOK, PCs, RunPCs, RecoverPCs
  <1>0. RestOK
    BY DEF WorkerTypeOK
  <1>q. MaxTick \in Nat /\ MaxCrashes \in Nat
    BY DEF WorkerAssumption
  <1>1. CASE StrangerStarts
    <2>1. proc' \in [Pids -> Process] /\ clock' \in 0..MaxTick
      BY <1>1, <1>q, ProcessCreated DEF StrangerStarts, WorkerTypeOK
    <2>2. RestOK'
      BY <1>0, <1>1 DEF StrangerStarts, control, history
    <2> QED
      BY <2>1, <2>2 DEF WorkerTypeOK
  <1>2. ASSUME NEW p \in Pids, NewProcess(p, TRUE), Launched(p) PROVE WorkerTypeOK'
    <2>1. Creates(p, TRUE) /\ proc' \in [Pids -> Process] /\ clock' \in 0..MaxTick
      BY <1>2, <1>q, ProcessCreated DEF WorkerTypeOK
    <2>2. launches' \in 0..MaxTick
      BY <1>0, <1>2, <1>q, <2>1 DEF Launched, Creates, Ticks, WorkerTypeOK
    <2>3. RestOK'
      BY <1>0, <1>2, <2>2 DEF Launched, disk
    <2> QED
      BY <2>1, <2>3 DEF WorkerTypeOK
  <1>3. CASE Calm
    <2>1. proc' \in [Pids -> Process] /\ clock' \in 0..MaxTick
      BY <1>3, QuietStep DEF Settles, WorkerTypeOK
    <2>2. CASE Outside
      <3>1. journal' \in BOOLEAN
        BY <1>0, <2>2 DEF Outside
      <3> QED
        BY <1>0, <2>1, <2>2, <3>1 DEF Outside, control, history, WorkerTypeOK
    <2>3. CASE Invoke
      BY <1>0, <2>1, <2>3 DEF Invoke, history, WorkerTypeOK
    <2>4. CASE EndInvocation
      <3>1. terminal' \in BOOLEAN
        BY <1>0, <2>4 DEF EndInvocation
      <3> QED
        BY <1>0, <2>1, <2>4, <3>1
        DEF EndInvocation, Gone, history, WorkerTypeOK, Results, NoPid, NoIdentity
    <2>5. CASE ControllerCrash
      <3>1. crashes' \in 0..MaxCrashes /\ lost' \in 0..MaxCrashes
        <4>1. crashes < MaxCrashes /\ crashes' = crashes + 1
              /\ (lost' = lost + 1 \/ lost' = lost)
          BY <2>5 DEF ControllerCrash
        <4> QED
          BY <1>0, <1>q, <4>1 DEF Ticks
      <3> QED
        BY <1>0, <2>1, <2>5, <3>1
        DEF ControllerCrash, Gone, WorkerTypeOK, Results, NoPid, NoIdentity
    <2>6. CASE NotLaunched
      BY <1>0, <2>1, <2>6 DEF NotLaunched, disk, history, WorkerTypeOK, Results, Failures
    <2>7. CASE Controller
      BY <2>1, <2>7, ControllerTyped DEF WorkerTypeOK
    <2> QED
      BY <1>3, <2>2, <2>3, <2>4, <2>5, <2>6, <2>7, QuietCases
  <1> QED
    BY <1>1, <1>2, <1>3, StepCases

\* The identity and the record the controller has after a quiet step are the ones
\* it had, none, one another, or that of the child in the table.
LEMMA IdentitiesKept ==
    ASSUME WorkerTypeOK, Calm
    PROVE  /\ \/ ident' \in {ident, NoIdentity, record.id}
              \/ at = "capture" /\ ident' = [pid |-> popen, tick |-> proc[popen].tick]
           /\ \/ record' = record
              \/ record'.id \in {ident, NoIdentity}
  <1> DEFINE Goal ==
        /\ \/ ident' \in {ident, NoIdentity, record.id}
           \/ at = "capture" /\ ident' = [pid |-> popen, tick |-> proc[popen].tick]
        /\ \/ record' = record
           \/ record'.id \in {ident, NoIdentity}
  <1>1. CASE Outside \/ Invoke \/ NotLaunched
    BY <1>1 DEF Outside, Invoke, NotLaunched, control, disk
  <1>2. CASE EndInvocation \/ ControllerCrash
    BY <1>2 DEF EndInvocation, ControllerCrash, Gone
  <1>3. CASE Controller
    <2>1. CASE Capture \/ KillUncaptured \/ WaitUncaptured \/ WaitWorker
      BY <2>1 DEF Capture, KillUncaptured, WaitUncaptured, WaitWorker, disk
    <2>2. CASE Terminate \/ Check \/ Send \/ Reap \/ Certify
      BY <2>2 DEF Terminate, Check, Send, Reap, Certify, disk
    <2>3. CASE Load \/ Snapshot \/ Group \/ RecoveryWait
      BY <2>3 DEF Load, Snapshot, Group, RecoveryWait, disk
    <2>4. CASE PersistCreate
      <3>1. [NoRecord EXCEPT !.state = "torn"].id = NoIdentity
        BY DEF NoRecord
      <3> QED
        BY <2>4, <3>1 DEF PersistCreate
    <2>5. CASE PersistWrite
      BY <2>5 DEF PersistWrite
    <2>6. CASE Remove \/ RecoveryRemove
      BY <2>6 DEF Remove, RecoveryRemove, NoRecord
    <2> QED
      BY <1>3, <2>1, <2>2, <2>3, <2>4, <2>5, <2>6 DEF Controller
  <1> QED
    BY <1>1, <1>2, <1>3, QuietCases

LEMMA ControllerCounts ==
    ASSUME Controller
    PROVE  UNCHANGED <<launches, lost, crashes>>
  <1>1. CASE Capture \/ KillUncaptured \/ WaitUncaptured \/ PersistCreate
             \/ PersistWrite \/ WaitWorker \/ Terminate \/ Check
    BY <1>1 DEF Capture, KillUncaptured, WaitUncaptured, PersistCreate,
                PersistWrite, WaitWorker, Terminate, Check, history
  <1>2. CASE Send \/ Reap \/ Certify \/ Remove \/ Load \/ Snapshot \/ Group
             \/ RecoveryWait \/ RecoveryRemove
    BY <1>2 DEF Send, Reap, Certify, Remove, Load, Snapshot, Group,
                RecoveryWait, RecoveryRemove, history
  <1> QED
    BY <1>1, <1>2 DEF Controller

\* A quiet step counts no launch, and loses one only with a crash.
LEMMA CountsKept ==
    ASSUME WorkerTypeOK, Calm
    PROVE  /\ launches' = launches
           /\ \/ UNCHANGED <<lost, crashes>>
              \/ ControllerCrash /\ lost' \in {lost, lost + 1} /\ crashes' = crashes + 1
  <1>1. CASE Outside \/ Invoke \/ EndInvocation \/ NotLaunched
    BY <1>1 DEF Outside, Invoke, EndInvocation, NotLaunched, history
  <1>2. CASE ControllerCrash
    BY <1>2 DEF ControllerCrash
  <1>3. CASE Controller
    BY <1>3, ControllerCounts
  <1> QED
    BY <1>1, <1>2, <1>3, QuietCases

LEMMA TicksStep ==
    ASSUME WorkerTypeOK, Ticks, Parent, Concluded, WorkerAssumption, [WorkerNext]_workerVars
    PROVE  Ticks'
  <1>q. /\ MaxTick \in Nat /\ clock \in Nat /\ launches \in Nat
        /\ \A p \in Pids : proc[p] \in Process /\ proc[p].tick \in Nat
        /\ ident.tick \in Nat /\ record.id.tick \in Nat
        /\ lost \in Nat /\ crashes \in Nat
    BY DEF WorkerAssumption, WorkerTypeOK, Process, Identity, NoIdentity
  <1>1. ASSUME NEW p \in Pids, NEW w \in BOOLEAN, NewProcess(p, w),
               UNCHANGED <<ident, record, lost, crashes>>,
               launches' \in {launches, launches + 1}
        PROVE  Ticks'
    <2>1. Creates(p, w)
      BY <1>1, <1>q, ProcessCreated DEF WorkerTypeOK
    <2>2. \A q \in Pids : /\ proc'[q].tick <= clock'
                          /\ GroupExists(q)' => proc'[q].tick >= 1
      BY <1>q, <2>1 DEF Creates, Ticks, GroupExists
    <2> QED
      BY <1>1, <1>q, <2>1, <2>2 DEF Creates, Ticks
  <1>2. CASE StrangerStarts
    BY <1>1, <1>2 DEF StrangerStarts, control, history
  <1>3. ASSUME NEW p \in Pids, NewProcess(p, TRUE), Launched(p) PROVE Ticks'
    BY <1>1, <1>3 DEF Launched, disk
  <1>4. CASE Calm
    <2>1. Settles
      BY <1>4, QuietStep
    <2>2. \A q \in Pids : /\ proc'[q].tick <= clock'
                          /\ GroupExists(q)' => proc'[q].tick >= 1
      BY <1>q, <2>1 DEF Settles, Ticks, GroupExists
    <2>3. ident'.tick <= clock'
      <3>1. CASE ident' \in {ident, NoIdentity, record.id}
        BY <1>q, <2>1, <3>1 DEF Settles, Ticks, NoIdentity
      <3>2. CASE at = "capture" /\ ident' = [pid |-> popen, tick |-> proc[popen].tick]
        <4>1. popen \in Pids
          BY <3>2 DEF Parent, FreshPCs, WorkerTypeOK
        <4> QED
          BY <1>q, <2>1, <3>2, <4>1 DEF Settles, Ticks
      <3> QED
        BY <1>4, <3>1, <3>2, IdentitiesKept
    <2>4. record'.id.tick <= clock'
      BY <1>4, <1>q, <2>1, IdentitiesKept DEF Settles, Ticks, NoIdentity
    <2>5. launches' <= clock' /\ lost' <= crashes'
      BY <1>4, <1>q, <2>1, CountsKept DEF Settles, Ticks
    <2> QED
      BY <2>2, <2>3, <2>4, <2>5 DEF Ticks
  <1> QED
    BY <1>2, <1>3, <1>4, StepCases

\* What Parent says besides that the child exists.
Held ==
    /\ at \in FreshPCs => popen # NoPid
    /\ at \in OwningPCs => /\ popen # NoPid /\ ident.pid = popen
                           /\ proc[popen].tick = ident.tick
    /\ at \in {"certify", "remove", "down"} \cup RecoverPCs => popen = NoPid
    /\ at \in {"certify", "remove"} => ident \in Identity
    /\ "send" \notin stray

LEMMA ControllerHolds ==
    ASSUME WorkerTypeOK, Parent, Concluded, WorkerAssumption, Controller, Settles
    PROVE  Held'
  <1> USE DEF Held, FreshPCs, OwningPCs, RecoverPCs
  <1>0. Held
    BY DEF Parent
  <1>c. (popen \in Pids <=> popen # NoPid)
        /\ (popen \in Pids => proc'[popen].tick = proc[popen].tick)
    BY DEF Settles, WorkerTypeOK, WorkerAssumption, NoPid
  <1>i. at \in OwningPCs => ident \in Identity
    BY <1>0 DEF WorkerTypeOK, NoIdentity, NoPid
  <1>1. CASE Capture
    BY <1>0, <1>1, <1>c DEF Capture, history
  <1>2. CASE KillUncaptured
    BY <1>0, <1>2, <1>c DEF KillUncaptured, history
  <1>3. CASE WaitUncaptured
    BY <1>0, <1>3, <1>c DEF WaitUncaptured, Finish, history
  <1>4. CASE PersistCreate
    BY <1>0, <1>4, <1>c DEF PersistCreate, history
  <1>5. CASE PersistWrite
    BY <1>0, <1>5, <1>c DEF PersistWrite, history
  <1>6. CASE WaitWorker
    BY <1>0, <1>6, <1>c, <1>i DEF WaitWorker, history
  <1>7. CASE Terminate
    BY <1>0, <1>7, <1>c, <1>i DEF Terminate, history
  <1>8. CASE Check
    BY <1>0, <1>8, <1>c DEF Check, Finish, history
  <1>9. CASE Send
    <2>1. "send" \notin stray'
      BY <1>0, <1>9 DEF Send
    <2> QED
      BY <1>0, <1>9, <1>c, <2>1 DEF Send
  <1>10. CASE Reap
    BY <1>0, <1>10, <1>c, <1>i DEF Reap, Finish, history
  <1>11. CASE Certify
    BY <1>0, <1>11 DEF Certify, Finish, history
  <1>12. CASE Remove
    BY <1>0, <1>12 DEF Remove, Finish, history
  <1>13. CASE Load
    BY <1>0, <1>13 DEF Load, Finish, history
  <1>14. CASE Snapshot
    BY <1>0, <1>14 DEF Snapshot, Finish, history
  <1>15. CASE Group
    BY <1>0, <1>15 DEF Group, Finish, history
  <1>16. CASE RecoveryWait
    BY <1>0, <1>16 DEF RecoveryWait, Finish, history
  <1>17. CASE RecoveryRemove
    BY <1>0, <1>17 DEF RecoveryRemove, Finish, history
  <1> QED
    BY <1>1, <1>2, <1>3, <1>4, <1>5, <1>6, <1>7, <1>8, <1>9, <1>10, <1>11, <1>12,
       <1>13, <1>14, <1>15, <1>16, <1>17 DEF Controller

LEMMA ParentStep ==
    ASSUME WorkerTypeOK, Ticks, Parent, Concluded, WorkerAssumption, [WorkerNext]_workerVars
    PROVE  Parent'
  <1> USE DEF Held, FreshPCs, OwningPCs, RecoverPCs
  <1>0. Held
    BY DEF Parent
  <1>q. MaxTick \in Nat /\ 0 \notin Pids
    BY DEF WorkerAssumption
  <1>c. (popen \in Pids <=> popen # NoPid)
    BY <1>q DEF WorkerTypeOK, NoPid
  <1>1. CASE StrangerStarts
    <2>1. PICK p \in Pids : NewProcess(p, FALSE)
      BY <1>1 DEF StrangerStarts
    <2>2. Creates(p, FALSE)
      BY <1>q, <2>1, ProcessCreated DEF WorkerTypeOK
    <2>3. UNCHANGED <<control, history>>
      BY <1>1 DEF StrangerStarts
    <2>4. popen # NoPid => proc'[popen] = proc[popen]
      BY <1>c, <2>2 DEF Creates, Parent, GroupExists
    <2> QED
      BY <1>0, <2>3, <2>4 DEF control, history, Parent
  <1>2. ASSUME NEW p \in Pids, NewProcess(p, TRUE), Launched(p) PROVE Parent'
    <2>1. Creates(p, TRUE)
      BY <1>2, <1>q, ProcessCreated DEF WorkerTypeOK
    <2> QED
      BY <1>0, <1>2, <1>q, <2>1 DEF Launched, Creates, Parent, NoPid
  <1>3. CASE Calm
    <2>1. Settles /\ KeepsChild
      BY <1>3, QuietStep
    <2>2. popen \in Pids => proc'[popen].tick = proc[popen].tick
      BY <2>1 DEF Settles
    <2>3. CASE Outside
      BY <1>0, <1>c, <2>1, <2>2, <2>3 DEF Outside, control, history, Parent, KeepsChild
    <2>4. CASE Invoke
      BY <1>0, <2>1, <2>4 DEF Invoke, history, Parent, KeepsChild
    <2>5. CASE EndInvocation \/ ControllerCrash
      BY <1>0, <2>1, <2>5 DEF EndInvocation, ControllerCrash, Gone, history, Parent, KeepsChild
    <2>6. CASE NotLaunched
      BY <1>0, <2>1, <2>6 DEF NotLaunched, history, Parent, KeepsChild
    <2>7. CASE Controller
      BY <2>1, <2>7, ControllerHolds DEF Parent, KeepsChild
    <2> QED
      BY <1>3, <2>3, <2>4, <2>5, <2>6, <2>7, QuietCases
  <1> QED
    BY <1>1, <1>2, <1>3, StepCases

LEMMA VerdictStep ==
    ASSUME WorkerTypeOK, Ticks, Parent, Concluded, WorkerAssumption, [WorkerNext]_workerVars
    PROVE  Concluded'
  <1> USE DEF Concluded, RecoverPCs, Certified
  <1>1. CASE StrangerStarts \/ Outside
    BY <1>1 DEF StrangerStarts, Outside, control
  <1>2. ASSUME NEW p \in Pids, Launched(p) PROVE Concluded'
    BY <1>2 DEF Launched, disk
  <1>3. CASE Invoke
    BY <1>3 DEF Invoke
  <1>4. CASE EndInvocation \/ ControllerCrash
    BY <1>4 DEF EndInvocation, ControllerCrash, Gone
  <1>5. CASE NotLaunched
    BY <1>5 DEF NotLaunched, disk
  <1>6. CASE Controller
    <2>i. at \in OwningPCs => ident \in Identity
      BY DEF Parent, WorkerTypeOK, NoIdentity, NoPid
    <2>1. CASE Capture \/ KillUncaptured
      BY <2>1 DEF Capture, KillUncaptured, disk
    <2>2. CASE WaitUncaptured
      BY <2>2 DEF WaitUncaptured, Finish, disk
    <2>3. CASE PersistCreate
      <3>1. [NoRecord EXCEPT !.state = "torn"].state = "torn"
        BY DEF NoRecord
      <3> QED
        BY <2>3, <3>1 DEF PersistCreate
    <2>4. CASE PersistWrite
      BY <2>4, <2>i DEF PersistWrite, OwningPCs
    <2>5. CASE WaitWorker \/ Terminate
      BY <2>5 DEF WaitWorker, Terminate, disk
    <2>6. CASE Check
      BY <2>6 DEF Check, Finish, disk
    <2>7. CASE Send
      BY <2>7 DEF Send, disk
    <2>8. CASE Reap
      BY <2>8 DEF Reap, Finish, disk
    <2>9. CASE Certify
      BY <2>9 DEF Certify, Finish, disk
    <2>10. CASE Remove
      <3>1. record'.state = "absent" \/ record' = record
        BY <2>10 DEF Remove, NoRecord
      <3>2. at' = "idle" /\ result' \notin {"none", "no_state"}
        BY <2>10 DEF Remove, Finish
      <3> QED
        BY <3>1, <3>2
    <2>11. CASE Load
      BY <2>11 DEF Load, Finish, disk
    <2>12. CASE Snapshot
      BY <2>12 DEF Snapshot, Finish, disk
    <2>13. CASE Group
      BY <2>13 DEF Group, Finish, disk
    <2>14. CASE RecoveryWait
      BY <2>14 DEF RecoveryWait, Finish, disk
    <2>15. CASE RecoveryRemove
      BY <2>15 DEF RecoveryRemove, Finish, NoRecord
    <2> QED
      BY <1>6, <2>1, <2>2, <2>3, <2>4, <2>5, <2>6, <2>7, <2>8, <2>9, <2>10, <2>11,
         <2>12, <2>13, <2>14, <2>15 DEF Controller
  <1> QED
    BY <1>1, <1>2, <1>3, <1>4, <1>5, <1>6, StepCases, QuietCases

LEMMA AbsentStep ==
    ASSUME WorkerTypeOK, Ticks, Parent, Concluded, Absent, WorkerAssumption, [WorkerNext]_workerVars
    PROVE  Absent'
  <1>q. /\ MaxTick \in Nat /\ clock \in Nat
        /\ \A q \in Pids : proc[q] \in Process /\ proc[q].tick \in Nat
        /\ ident.tick \in Nat
    BY DEF WorkerAssumption, WorkerTypeOK, Process, Identity, NoIdentity
  <1>i. at \in {"remove", "r_remove"} => ident.pid \in Pids
    BY DEF Parent, Concluded, RecoverPCs, Identity
  <1>g. at \in {"certify", "group"} => ident.pid \in Pids
    BY DEF Parent, Concluded, RecoverPCs, Identity
  <1>1. CASE StrangerStarts
    <2>1. PICK p \in Pids : NewProcess(p, FALSE)
      BY <1>1 DEF StrangerStarts
    <2>2. Creates(p, FALSE)
      BY <1>q, <2>1, ProcessCreated DEF WorkerTypeOK
    <2>3. at' = at /\ ident' = ident
      BY <1>1 DEF StrangerStarts, control
    <2>4. CASE at \in {"remove", "r_remove"} /\ ident.pid = p
      BY <1>q, <1>i, <2>2, <2>3, <2>4 DEF Absent, Creates, Ticks, GroupExists
    <2>5. CASE at \in {"remove", "r_remove"} /\ ident.pid # p
      BY <1>i, <2>2, <2>3, <2>5 DEF Absent, Creates, GroupExists
    <2> QED
      BY <2>3, <2>4, <2>5 DEF Absent
  <1>2. ASSUME NEW p \in Pids, NewProcess(p, TRUE), Launched(p) PROVE Absent'
    BY <1>2 DEF Launched, Absent
  <1>3. CASE Calm
    <2>1. Settles
      BY <1>3, QuietStep
    <2>2. CASE Outside
      BY <1>i, <2>1, <2>2 DEF Outside, control, Settles, Absent, GroupExists
    <2>3. CASE Invoke \/ EndInvocation \/ ControllerCrash \/ NotLaunched
      BY <2>3 DEF Invoke, EndInvocation, ControllerCrash, NotLaunched, Gone, Absent
    <2>4. CASE Controller
      <3>1. CASE Certify \/ Group
        BY <1>g, <2>1, <3>1 DEF Certify, Group, Finish, Settles, Absent, GroupExists
      <3>2. CASE at' \notin {"remove", "r_remove"}
        BY <3>2 DEF Absent
      <3>3. Certify \/ Group \/ at' \notin {"remove", "r_remove"}
        <4>1. CASE Capture \/ KillUncaptured \/ WaitUncaptured \/ PersistCreate
                   \/ PersistWrite \/ WaitWorker \/ Terminate \/ Check
          BY <4>1 DEF Capture, KillUncaptured, WaitUncaptured, PersistCreate,
                      PersistWrite, WaitWorker, Terminate, Check, Finish
        <4>2. CASE Send \/ Reap \/ Remove \/ Load \/ Snapshot \/ RecoveryWait
                   \/ RecoveryRemove
          BY <4>2 DEF Send, Reap, Remove, Load, Snapshot, RecoveryWait,
                      RecoveryRemove, Finish
        <4> QED
          BY <2>4, <4>1, <4>2 DEF Controller
      <3> QED
        BY <3>1, <3>2, <3>3
    <2> QED
      BY <1>3, <2>2, <2>3, <2>4, QuietCases
  <1> QED
    BY <1>1, <1>2, <1>3, StepCases

\* Groups that hold a worker come only from a launch.
LEMMA GroupsShrink ==
    ASSUME WorkerTypeOK, Settles
    PROVE  WorkerGroups' \subseteq WorkerGroups
  BY DEF Settles, WorkerGroups, GroupExists

LEMMA StrangersAreNoWorkers ==
    ASSUME WorkerTypeOK, NEW p \in Pids, Creates(p, FALSE)
    PROVE  WorkerGroups' \subseteq WorkerGroups
  BY DEF Creates, WorkerGroups, GroupExists

LEMMA GroupLaunched ==
    ASSUME WorkerTypeOK, NEW p \in Pids, Creates(p, TRUE)
    PROVE  WorkerGroups' \subseteq WorkerGroups \cup {p}
  BY DEF Creates, WorkerGroups, GroupExists

LEMMA FewerGroups ==
    ASSUME WorkerAssumption, NEW A, NEW B, A \subseteq Pids, B \subseteq A
    PROVE  /\ Cardinality(A) \in Nat /\ Cardinality(B) \in Nat
           /\ Cardinality(B) <= Cardinality(A)
  <1>1. IsFiniteSet(A)
    BY FS_Subset DEF WorkerAssumption
  <1>2. IsFiniteSet(B) /\ Cardinality(B) <= Cardinality(A)
    BY <1>1, FS_Subset
  <1> QED
    BY <1>1, <1>2, FS_CardinalityType

\* What forbids a second launch.
Trace ==
    \/ launches <= lost
    \/ journal
    \/ terminal
    \/ record.state # "absent"
    \/ at \in RunPCs
    \/ at = "idle" /\ result \in Failures \cup Certified

LEMMA ControllerTraces ==
    ASSUME WorkerTypeOK, Concluded, Trace, Controller, UNCHANGED <<launches, lost>>
    PROVE  Trace'
  <1>m. journal' = journal /\ terminal' = terminal
    <2>1. CASE Capture \/ KillUncaptured \/ WaitUncaptured \/ PersistCreate
               \/ PersistWrite \/ WaitWorker \/ Terminate \/ Check
      BY <2>1 DEF Capture, KillUncaptured, WaitUncaptured, PersistCreate,
                  PersistWrite, WaitWorker, Terminate, Check, disk
    <2>2. CASE Send \/ Reap \/ Certify \/ Remove \/ Load \/ Snapshot \/ Group
               \/ RecoveryWait \/ RecoveryRemove
      BY <2>2 DEF Send, Reap, Certify, Remove, Load, Snapshot, Group,
                  RecoveryWait, RecoveryRemove, disk
    <2> QED
      BY <2>1, <2>2 DEF Controller
  <1>r. ASSUME at' \in RunPCs \/ (at' = "idle" /\ result' \in Failures \cup Certified)
        PROVE  Trace'
    BY <1>r DEF Trace
  <1>k. ASSUME record' = record, at \notin RunPCs, at # "idle" PROVE Trace'
    <2>1. launches <= lost \/ journal \/ terminal \/ record.state # "absent"
      BY <1>k DEF Trace
    <2> QED
      BY <1>k, <1>m, <2>1 DEF Trace
  <1>1. CASE Capture \/ KillUncaptured \/ PersistCreate \/ PersistWrite
    BY <1>1, <1>r DEF Capture, KillUncaptured, PersistCreate, PersistWrite, RunPCs
  <1>2. CASE WaitUncaptured
    BY <1>2, <1>r DEF WaitUncaptured, Finish, Failures
  <1>3. CASE WaitWorker \/ Terminate
    BY <1>3, <1>r DEF WaitWorker, Terminate, RunPCs
  <1>4. CASE Check
    <2>1. CASE at = "r_check"
      BY <1>4, <2>1, <1>k DEF Check, disk, RunPCs
    <2>2. CASE at = "check"
      BY <1>4, <2>2, <1>r DEF Check, Finish, Failures, RunPCs
    <2> QED
      BY <1>4, <2>1, <2>2 DEF Check
  <1>5. CASE Send
    <2>1. CASE at = "r_send"
      BY <1>5, <2>1, <1>k DEF Send, disk, RunPCs
    <2> QED
      BY <1>5, <2>1, <1>r DEF Send, RunPCs
  <1>6. CASE Reap
    BY <1>6, <1>r DEF Reap, Finish, Failures, RunPCs
  <1>7. CASE Certify
    BY <1>7, <1>r DEF Certify, Finish, Failures, RunPCs
  <1>8. CASE Remove
    BY <1>8, <1>r DEF Remove, Finish, Failures, Concluded
  <1>9. CASE Load
    BY <1>9, <1>k DEF Load, disk, RunPCs
  <1>10. CASE Snapshot
    BY <1>10, <1>k DEF Snapshot, disk, RunPCs
  <1>11. CASE Group
    BY <1>11, <1>k DEF Group, disk, RunPCs
  <1>12. CASE RecoveryWait
    BY <1>12, <1>k DEF RecoveryWait, disk, RunPCs
  <1>13. CASE RecoveryRemove
    BY <1>13, <1>r DEF RecoveryRemove, Finish, Concluded
  <1> QED
    BY <1>1, <1>2, <1>3, <1>4, <1>5, <1>6, <1>7, <1>8, <1>9, <1>10, <1>11, <1>12,
       <1>13 DEF Controller

LEMMA TracedStep ==
    ASSUME WorkerTypeOK, Ticks, Parent, Concluded, Traced, WorkerAssumption, [WorkerNext]_workerVars
    PROVE  Traced'
  <1>q. MaxTick \in Nat /\ launches \in Nat /\ lost \in Nat /\ WorkerGroups \subseteq Pids
    BY DEF WorkerAssumption, WorkerTypeOK, WorkerGroups
  <1>t. /\ Trace /\ launches <= 1 + lost /\ Cardinality(WorkerGroups) <= launches
        /\ Cardinality(WorkerGroups) \in Nat
    BY <1>q, FewerGroups DEF Traced, Trace
  <1>1. CASE StrangerStarts
    <2>1. PICK p \in Pids : NewProcess(p, FALSE)
      BY <1>1 DEF StrangerStarts
    <2>2. Creates(p, FALSE)
      BY <1>q, <2>1, ProcessCreated DEF WorkerTypeOK
    <2>3. WorkerGroups' \subseteq WorkerGroups
      BY <2>2, StrangersAreNoWorkers
    <2>4. Cardinality(WorkerGroups') <= Cardinality(WorkerGroups)
          /\ Cardinality(WorkerGroups') \in Nat
      BY <1>q, <2>3, FewerGroups
    <2>5. Trace' /\ launches' = launches /\ lost' = lost
      BY <1>t, <1>1 DEF StrangerStarts, control, history, Trace
    <2> QED
      BY <1>q, <1>t, <2>4, <2>5 DEF Traced, Trace
  <1>2. ASSUME NEW p \in Pids, NewProcess(p, TRUE), Launched(p) PROVE Traced'
    <2>1. Creates(p, TRUE)
      BY <1>2, <1>q, ProcessCreated DEF WorkerTypeOK
    <2>2. WorkerGroups' \subseteq WorkerGroups \cup {p}
      BY <2>1, GroupLaunched
    <2>3. Cardinality(WorkerGroups \cup {p}) <= Cardinality(WorkerGroups) + 1
          /\ Cardinality(WorkerGroups \cup {p}) \in Nat
      <3>1. IsFiniteSet(WorkerGroups)
        BY <1>q, FS_Subset DEF WorkerAssumption
      <3> QED
        <4>1. /\ IsFiniteSet(WorkerGroups \cup {p})
              /\ \/ Cardinality(WorkerGroups \cup {p}) = Cardinality(WorkerGroups)
                 \/ Cardinality(WorkerGroups \cup {p}) = Cardinality(WorkerGroups) + 1
          BY <3>1, FS_AddElement
        <4> QED
          BY <1>t, <4>1
    <2>4. Cardinality(WorkerGroups') <= Cardinality(WorkerGroups \cup {p})
          /\ Cardinality(WorkerGroups') \in Nat
      BY <1>q, <2>2, FewerGroups
    <2>5. launches <= lost
      BY <1>2, <1>t DEF Launched, Trace, RunPCs, Failures, Certified
    <2>6. launches' = launches + 1 /\ lost' = lost /\ at' \in RunPCs
      BY <1>2 DEF Launched, RunPCs
    <2> QED
      BY <1>q, <1>t, <2>3, <2>4, <2>5, <2>6 DEF Traced
  <1>3. CASE Calm
    <2>1. Settles
      BY <1>3, QuietStep
    <2>2. WorkerGroups' \subseteq WorkerGroups
      BY <2>1, GroupsShrink
    <2>3. Cardinality(WorkerGroups') <= Cardinality(WorkerGroups)
          /\ Cardinality(WorkerGroups') \in Nat
      BY <1>q, <2>2, FewerGroups
    <2>4. launches' = launches /\ lost' \in Nat /\ lost <= lost'
      BY <1>3, <1>q, CountsKept
    <2>5. Trace'
      <3>1. CASE Outside
        BY <1>t, <3>1 DEF Outside, control, history, Trace
      <3>2. CASE Invoke
        <4>1. launches <= lost \/ journal \/ terminal \/ record.state # "absent"
          BY <1>t, <3>2 DEF Invoke, Trace, RunPCs
        <4> QED
          BY <3>2, <4>1 DEF Invoke, history, Trace
      <3>3. CASE EndInvocation
        <4>1. launches <= lost \/ journal' \/ terminal' \/ record.state # "absent"
          BY <1>t, <3>3 DEF EndInvocation, MustTerminate, Trace, RunPCs
        <4> QED
          BY <3>3, <4>1 DEF EndInvocation, history, Trace
      <3>4. CASE ControllerCrash
        <4>1. CASE launches <= lost
          BY <1>q, <2>4, <4>1 DEF Trace
        <4>2. CASE journal \/ terminal \/ record.state # "absent"
          BY <3>4, <4>2 DEF ControllerCrash, Trace
        <4>3. CASE ~(launches <= lost) /\ ~journal /\ ~terminal /\ record.state = "absent"
          <5>1. lost' = lost + 1
            BY <1>q, <3>4, <4>3 DEF ControllerCrash, Unrecorded
          <5> QED
            BY <1>q, <1>t, <2>4, <5>1 DEF Trace
        <4> QED
          BY <4>1, <4>2, <4>3
      <3>5. CASE NotLaunched
        BY <3>5 DEF NotLaunched, Trace, Failures
      <3>6. CASE Controller
        <4>1. lost' = lost
          BY <3>6, ControllerCounts
        <4> QED
          BY <1>t, <2>4, <3>6, <4>1, ControllerTraces
      <3> QED
        BY <1>3, <3>1, <3>2, <3>3, <3>4, <3>5, <3>6, QuietCases
    <2>6. Cardinality(WorkerGroups') <= launches'
      BY <1>q, <1>t, <2>3, <2>4
    <2>7. launches' <= 1 + lost'
      <3>1. \A a, b, c \in Nat : a <= 1 + b /\ b <= c => a <= 1 + c
        OBVIOUS
      <3>2. launches <= 1 + lost
        BY <1>t
      <3> QED
        BY <1>q, <2>4, <3>1, <3>2
    <2> QED
      BY <2>5, <2>6, <2>7 DEF Traced, Trace
  <1> QED
    BY <1>1, <1>2, <1>3, StepCases

\* A group that is seen to be gone holds no worker.
LEMMA GoneGroup ==
    ASSUME NEW p \in Pids, ~GroupExists(p), WorkerGroups \subseteq {p}
    PROVE  WorkerGroups = {}
  BY DEF WorkerGroups

\* What Confined says, without its condition.
Places ==
    /\ at \in FreshPCs => WorkerGroups \subseteq {popen}
    /\ at \in OwningPCs \cup {"certify"} => WorkerGroups \subseteq {ident.pid}
    /\ record.state = "whole" => WorkerGroups \subseteq {record.id.pid}
    /\ at \in {"remove", "r_remove"} => WorkerGroups = {}
    /\ at = "idle" /\ result \in Certified => WorkerGroups = {}
    /\ (at \in {"down", "load"} \/ (at = "idle" /\ result = "no_state"))
       /\ record.state = "absent" /\ ~terminal => WorkerGroups = {}

LEMMA ControllerPlaces ==
    ASSUME WorkerTypeOK, Parent, Concluded, Places, Controller,
           WorkerGroups' \subseteq WorkerGroups
    PROVE  Places'
  <1> USE DEF Places, FreshPCs, OwningPCs
  <1>1. CASE Capture
    BY <1>1 DEF Capture, disk
  <1>2. CASE KillUncaptured
    BY <1>2 DEF KillUncaptured, disk
  <1>3. CASE WaitUncaptured
    BY <1>3 DEF WaitUncaptured, Finish, Certified, disk
  <1>4. CASE PersistCreate
    <2>1. [NoRecord EXCEPT !.state = "torn"].state = "torn"
      BY DEF NoRecord
    <2> QED
      BY <1>4, <2>1 DEF PersistCreate
  <1>5. CASE PersistWrite
    BY <1>5 DEF PersistWrite
  <1>6. CASE WaitWorker
    BY <1>6 DEF WaitWorker, disk
  <1>7. CASE Terminate
    BY <1>7 DEF Terminate, disk
  <1>8. CASE Check
    BY <1>8 DEF Check, Finish, Certified, disk
  <1>9. CASE Send
    BY <1>9 DEF Send, disk
  <1>10. CASE Reap
    BY <1>10 DEF Reap, Finish, Certified, disk
  <1>11. CASE Certify
    <2>1. ident.pid \in Pids /\ WorkerGroups \subseteq {ident.pid}
      BY <1>11 DEF Certify, Parent, Identity
    <2>2. CASE GroupExists(ident.pid)
      BY <1>11, <2>2 DEF Certify, Finish, Certified, disk
    <2>3. CASE ~GroupExists(ident.pid)
      <3>1. WorkerGroups = {}
        BY <2>1, <2>3, GoneGroup
      <3> QED
        BY <1>11, <2>3, <3>1 DEF Certify, disk
    <2> QED
      BY <2>2, <2>3
  <1>12. CASE Remove
    <2>1. WorkerGroups' = {}
      BY <1>12 DEF Remove
    <2> QED
      BY <1>12, <2>1 DEF Remove, Finish
  <1>13. CASE Load
    BY <1>13 DEF Load, Finish, Certified, disk
  <1>14. CASE Snapshot
    BY <1>14 DEF Snapshot, Finish, Certified, disk
  <1>15. CASE Group
    <2>1. ident.pid \in Pids /\ WorkerGroups \subseteq {ident.pid}
      BY <1>15 DEF Group, Concluded, Identity, RecoverPCs
    <2>2. CASE GroupExists(ident.pid)
      BY <1>15, <2>2 DEF Group, Finish, Certified, disk
    <2>3. CASE ~GroupExists(ident.pid)
      <3>1. WorkerGroups = {}
        BY <2>1, <2>3, GoneGroup
      <3> QED
        BY <1>15, <2>3, <3>1 DEF Group, disk
    <2> QED
      BY <2>2, <2>3
  <1>16. CASE RecoveryWait
    BY <1>16 DEF RecoveryWait, Finish, Certified, disk
  <1>17. CASE RecoveryRemove
    <2>1. WorkerGroups' = {}
      BY <1>17 DEF RecoveryRemove
    <2> QED
      BY <1>17, <2>1 DEF RecoveryRemove, Finish
  <1> QED
    BY <1>1, <1>2, <1>3, <1>4, <1>5, <1>6, <1>7, <1>8, <1>9, <1>10, <1>11, <1>12,
       <1>13, <1>14, <1>15, <1>16, <1>17 DEF Controller

LEMMA ConfinedStep ==
    ASSUME WorkerInv, WorkerAssumption, [WorkerNext]_workerVars
    PROVE  Confined'
  <1> USE DEF WorkerInv
  <1> SUFFICES ASSUME lost' = 0 PROVE Places'
    BY DEF Confined, Places
  <1>q. MaxTick \in Nat /\ lost \in Nat
    BY DEF WorkerAssumption, WorkerTypeOK
  <1>p. ASSUME lost = 0 PROVE Places
    BY <1>p DEF Confined, Places
  <1>1. CASE StrangerStarts
    <2>1. PICK p \in Pids : NewProcess(p, FALSE)
      BY <1>1 DEF StrangerStarts
    <2>2. Creates(p, FALSE)
      BY <1>q, <2>1, ProcessCreated DEF WorkerTypeOK
    <2>3. WorkerGroups' \subseteq WorkerGroups
      BY <2>2, StrangersAreNoWorkers
    <2>4. UNCHANGED <<record, control, lost>>
      BY <1>1 DEF StrangerStarts, history
    <2> QED
      BY <1>p, <2>3, <2>4 DEF Places, control
  <1>2. ASSUME NEW p \in Pids, NewProcess(p, TRUE), Launched(p) PROVE Places'
    <2>1. Creates(p, TRUE)
      BY <1>2, <1>q, ProcessCreated DEF WorkerTypeOK
    <2>2. WorkerGroups' \subseteq WorkerGroups \cup {p}
      BY <2>1, GroupLaunched
    <2>3. WorkerGroups = {}
      BY <1>2, <1>p DEF Launched, Places
    <2> QED
      BY <1>2, <2>2, <2>3 DEF Launched, Places, disk, FreshPCs, OwningPCs
  <1>3. CASE Calm
    <2>1. Settles
      BY <1>3, QuietStep
    <2>2. WorkerGroups' \subseteq WorkerGroups
      BY <2>1, GroupsShrink
    <2>3. lost = 0
      BY <1>3, <1>q, CountsKept
    <2>4. Places
      BY <1>p, <2>3
    <2>5. CASE Outside
      BY <2>2, <2>4, <2>5 DEF Outside, control, Places
    <2>6. CASE Invoke
      BY <2>2, <2>4, <2>6 DEF Invoke, Places, FreshPCs, OwningPCs
    <2>7. CASE EndInvocation
      <3>1. ~terminal' => ~terminal /\ result \in Certified \cup {"no_state"}
        BY <2>7 DEF EndInvocation, MustTerminate, WorkerTypeOK, Results, Concluded
      <3> QED
        BY <2>2, <2>4, <2>7, <3>1 DEF EndInvocation, Gone, Places, FreshPCs, OwningPCs
    <2>8. CASE ControllerCrash
      <3>1. record.state = "absent" => WorkerGroups = {}
        BY <2>3, <2>8 DEF ControllerCrash, Unrecorded
      <3> QED
        BY <2>2, <2>4, <2>8, <3>1 DEF ControllerCrash, Gone, Places, FreshPCs, OwningPCs
    <2>9. CASE NotLaunched
      BY <2>2, <2>4, <2>9 DEF NotLaunched, Places, FreshPCs, OwningPCs, Certified, disk
    <2>10. CASE Controller
      BY <2>2, <2>4, <2>10, ControllerPlaces
    <2> QED
      BY <1>3, <2>5, <2>6, <2>7, <2>8, <2>9, <2>10, QuietCases
  <1> QED
    BY <1>1, <1>2, <1>3, StepCases

(***************************************************************************)
(* Results.                                                                 *)
(***************************************************************************)

LEMMA InitInv ==
    ASSUME WorkerAssumption, WorkerInit
    PROVE  WorkerInv
  <1> USE DEF WorkerInit
  <1>q. MaxTick \in Nat /\ MaxCrashes \in Nat
    BY DEF WorkerAssumption
  <1>f. Free \in Process /\ Free.leader = "none" /\ ~Free.member /\ Free.tick = 0
    BY <1>q DEF Free, Process
  <1>1. WorkerTypeOK
    <2>1. record \in [state : {"absent", "torn", "whole"},
                      id : Identity \cup {NoIdentity}]
      BY DEF NoRecord
    <2>2. proc \in [Pids -> Process] /\ clock \in 0..MaxTick
      BY <1>q, <1>f
    <2>3. /\ crashes \in 0..MaxCrashes /\ lost \in 0..MaxCrashes
          /\ launches \in 0..MaxTick
      BY <1>q
    <2>4. at \in PCs /\ result \in Results
      BY DEF PCs, Results
    <2> QED
      BY <2>1, <2>2, <2>3, <2>4 DEF WorkerTypeOK
  <1>2. WorkerGroups = {}
    BY <1>f DEF WorkerGroups, GroupExists
  <1>3. Ticks
    BY <1>f DEF Ticks, GroupExists, NoRecord, NoIdentity
  <1>4. Parent /\ Concluded /\ Absent
    BY DEF Parent, Concluded, Absent, FreshPCs, OwningPCs, RecoverPCs, NoRecord
  <1>6. Confined
    BY <1>2 DEF Confined
  <1>5. Traced
    BY <1>2, FS_EmptySet DEF Traced
  <1> QED
    BY <1>1, <1>3, <1>4, <1>5, <1>6 DEF WorkerInv

\* The invariant is inductive: it holds of every reachable state.
THEOREM WorkerInvariant == WorkerSpec => []WorkerInv
  <1>1. WorkerInit => WorkerInv
    BY InitInv, WorkerAssumption
  <1>2. WorkerInv /\ [WorkerNext]_workerVars => WorkerInv'
    <2> SUFFICES ASSUME WorkerInv, [WorkerNext]_workerVars PROVE WorkerInv'
      OBVIOUS
    <2>1. WorkerTypeOK' /\ Ticks' /\ Parent' /\ Concluded'
      BY TypeStep, TicksStep, ParentStep, VerdictStep, WorkerAssumption DEF WorkerInv
    <2>2. Absent' /\ Traced'
      BY AbsentStep, TracedStep, WorkerAssumption DEF WorkerInv
    <2> QED
      BY <2>1, <2>2, ConfinedStep, WorkerAssumption DEF WorkerInv
  <1> QED
    BY <1>1, <1>2, PTL DEF WorkerSpec

\* Whatever the number of pids, processes and crashes: a second worker of a cell
\* is launched or exists only after a launch that a crash left without a trace, a
\* worker without a controller is named by worker.json or blocks further
\* launches, and a controller that is the parent signals only its own child.
THEOREM WorkerAlwaysOwned == WorkerSpec => []WorkerOwned
  <1>1. WorkerInv => WorkerOwned
    <2> SUFFICES ASSUME WorkerInv PROVE WorkerOwned
      OBVIOUS
    <2> USE DEF WorkerInv
    <2>1. Cardinality(WorkerGroups) \in Nat
      <3>1. WorkerGroups \subseteq Pids
        BY DEF WorkerGroups
      <3> QED
        BY <3>1, FewerGroups, WorkerAssumption
    <2>2. AtMostOneWorker
      <3>1. launches \in Nat /\ lost \in Nat
        BY DEF WorkerTypeOK
      <3> QED
        BY <2>1, <3>1 DEF AtMostOneWorker, Traced
    <2>3. DownMeansRecorded
      BY DEF DownMeansRecorded, Confined, WorkerTypeOK
    <2>4. OwnChildOnly
      BY DEF OwnChildOnly, Parent
    <2> QED
      BY <2>2, <2>3, <2>4 DEF WorkerOwned
  <1> QED
    BY <1>1, WorkerInvariant, PTL

\* worker.json is removed only when the process group that it names is gone, or
\* when its number belongs to a later process.
THEOREM RecordRemovedLast == WorkerSpec => RecordOutlivesWorker
  <1> DEFINE Last ==
        (record.state = "whole" /\ record'.state = "absent")
          => LET p == record.id.pid
             IN  ~(GroupExists(p) /\ proc[p].tick = record.id.tick)
  <1>1. WorkerInv /\ [WorkerNext]_workerVars => [Last]_workerVars
    <2> SUFFICES ASSUME WorkerInv, [WorkerNext]_workerVars, record.state = "whole",
                        record'.state = "absent"
                 PROVE  ~(GroupExists(record.id.pid)
                            /\ proc[record.id.pid].tick = record.id.tick)
      OBVIOUS
    <2> USE DEF WorkerInv
    <2>1. CASE StrangerStarts \/ Outside
      BY <2>1 DEF StrangerStarts, Outside
    <2>2. ASSUME NEW p \in Pids, Launched(p) PROVE FALSE
      BY <2>2 DEF Launched
    <2>3. CASE Invoke \/ EndInvocation \/ ControllerCrash \/ NotLaunched
      BY <2>3 DEF Invoke, EndInvocation, ControllerCrash, NotLaunched, disk
    <2>4. CASE Controller
      <3>1. CASE Capture \/ KillUncaptured \/ WaitUncaptured \/ WaitWorker
                 \/ Terminate \/ Check \/ Send \/ Reap \/ Certify
        BY <3>1 DEF Capture, KillUncaptured, WaitUncaptured, WaitWorker, Terminate,
                    Check, Send, Reap, Certify, disk
      <3>2. CASE Load \/ Snapshot \/ Group \/ RecoveryWait
        BY <3>2 DEF Load, Snapshot, Group, RecoveryWait, disk
      <3>3. CASE PersistCreate \/ PersistWrite
        BY <3>3 DEF PersistCreate, PersistWrite
      <3>4. CASE Remove
        <4>1. record = [state |-> "whole", id |-> ident]
          BY <3>4 DEF Remove
        <4> QED
          BY <3>4, <4>1 DEF Remove, Absent
      <3>5. CASE RecoveryRemove
        BY <3>5 DEF RecoveryRemove, Absent, Concluded, RecoverPCs
      <3> QED
        BY <2>4, <3>1, <3>2, <3>3, <3>4, <3>5 DEF Controller
    <2> QED
      BY <2>1, <2>2, <2>3, <2>4, StepCases, QuietCases
  <1> QED
    BY <1>1, WorkerInvariant, PTL DEF WorkerSpec, RecordOutlivesWorker

(***************************************************************************)
(* The round: its inductive invariant.                                      *)
(***************************************************************************)

\* From the start of the watchdog to its end, a lifetime up to its record, and
\* all that happens under the results lock.
WatchPcs == {"starting", "waiting", "case", "interrupt", "logs", "stop", "unwatch"}
LifePcs == WatchPcs \cup {"static", "lifetime"}
LockPcs == LifePcs \cup {"arm", "preflight", "abort", "complete", "score"}

\* The campaign's files are written by the holder of the lock, and by nobody any
\* more once there is a summary; the first arm was begun before anything else.
Writes(q) ==
    /\ lock = q
    /\ child # None => pc[q] = "arm" /\ o(q) = 1
    /\ pc[q] # "arm" => arms[Arm(o(q))] # Blank
    /\ o(q) # 1 \/ pc[q] # "arm" => arms[1] # Blank

\* Where the campaign is in its order of arms and lifetimes.
Place(q) ==
    /\ pc[q] = "arm" => ~Timed(o(q))
    /\ pc[q] = "complete" => Timed(o(q))
    /\ Len(job[q].rows) = IF pc[q] = "score" THEN Arm(o(q)) ELSE Arm(o(q)) - 1

\* A lifetime in which something went wrong knows of it.
Noted(q) ==
    /\ pc[q] \in {"preflight", "static", "complete"} => Arm(o(q)) \notin tainted
    /\ pc[q] \in WatchPcs /\ Arm(o(q)) \in tainted =>
          job[q].err # "none" \/ job[q].tripped \/ job[q].expired \/ job[q].cleanup
    /\ pc[q] = "lifetime" /\ Arm(o(q)) \in tainted =>
          job[q].err # "none" \/ job[q].expired

\* The rows that count so far are those of clean arms.
RowsClean(q) ==
    \A a \in 1 .. Len(job[q].rows) : Admitted(job[q].rows[a]) => a \notin tainted

\* A server of a failed lifetime was interrupted before its logs are collected.
Halted(q) ==
    pc[q] = "logs" /\ job[q].err # "none" /\ ~job[q].cleanup /\ Mine(q) =>
        ~container.runs

Own(q) ==
    /\ job[q].watch => pc[q] \in WatchPcs
    /\ pc[q] \in LockPcs =>
          Writes(q) /\ Place(q) /\ Noted(q) /\ RowsClean(q) /\ Halted(q)

\* What the files say: a summary comes after the first arm, nothing went wrong
\* in an arm that was not begun, and what the summary counts is clean.
OnFile ==
    /\ child # None => arms[1] # Blank
    /\ \A a \in Arms : arms[a] = Blank => a \notin tainted
    /\ child # None => \A a \in Arms : Admitted(child.rows[a]) => a \notin tainted

\* The types.
JobShape == job \in [Controllers -> Job]

JournalShape ==
    /\ DOMAIN arms = Arms
    /\ \A a \in Arms : \A k \in Kinds : arms[a][k] \in Seq(Entry(k))

Shape ==
    /\ pc \in [Controllers -> Pcs]
    /\ JobShape /\ JournalShape
    /\ lock \in Controllers \cup {None}
    /\ container \in [by : Controllers, o : Lifetimes, runs : BOOLEAN] \cup {None}
    /\ tainted \subseteq Arms

RoundInv == Shape /\ OnFile /\ \A q \in Controllers : Own(q)

(***************************************************************************)
(* The order of arms and lifetimes.                                         *)
(***************************************************************************)

LEMMA ArmFacts ==
    ASSUME RoundAssumption, NEW x \in Lifetimes
    PROVE  /\ Arm(x) \in Arms /\ Arm(x) \in Nat
           /\ ~Timed(x) => x + 1 \in Lifetimes /\ Arm(x + 1) = Arm(x) /\ Timed(x + 1)
           /\ Timed(x) /\ Arm(x) # NArms =>
                 x + 1 \in Lifetimes /\ Arm(x + 1) = Arm(x) + 1 /\ ~Timed(x + 1)
           /\ Timed(x) /\ Arm(x) # NArms => x + 1 # 1
  BY DEF RoundAssumption, Lifetimes, Arms, Arm, Timed

LEMMA FirstArm ==
    ASSUME RoundAssumption
    PROVE  /\ 1 \in Lifetimes /\ 1 \in Arms /\ Arm(1) = 1 /\ ~Timed(1)
  BY DEF RoundAssumption, Lifetimes, Arms, Arm, Timed

LEMMA NoJobTyped ==
    ASSUME RoundAssumption
    PROVE  NoJob \in Job /\ Len(NoJob.rows) = 0
  BY FirstArm DEF NoJob, Job, Stages

(***************************************************************************)
(* Steps outside of the campaign.                                           *)
(***************************************************************************)

\* A step of p is nobody else's.
Only(p) == \A q \in Controllers \ {p} : pc'[q] = pc[q] /\ job'[q] = job[q]

\* The lock is as it was, or p has let go of it.
Releases(p) == lock' = lock \/ (lock = p /\ lock' = None)

\* The steps of a round around its campaign.
RoundMoves(p) ==
    \/ run_autoresearch_v2(p) \/ Started(p) \/ Audit(p) \/ Project(p) \/ Scored(p)
    \/ Completed(p) \/ Summary(p) \/ Refuses(p) \/ _record_terminal_failure(p)
    \/ Receipt(p) \/ EnterChild(p)

\* They leave the campaign's files, the container and the lock's holder alone.
Outsider(p) ==
    /\ pc[p] \notin LockPcs /\ pc'[p] \notin LockPcs
    /\ UNCHANGED <<arms, child, container, tainted>>
    /\ Releases(p)
    /\ job'[p].watch => job[p].watch

LEMMA GotoFrame ==
    ASSUME pc \in [Controllers -> Pcs], NEW p \in Controllers, NEW where \in Pcs,
           Goto(p, where)
    PROVE  /\ pc' \in [Controllers -> Pcs] /\ pc'[p] = where
           /\ \A q \in Controllers \ {p} : pc'[q] = pc[q]
  BY DEF Goto

LEMMA JobReset ==
    ASSUME RoundAssumption, JobShape, NEW p \in Controllers,
           NEW s \in Stages,
           job' = [job EXCEPT ![p] = [NoJob EXCEPT !.stage = s]]
    PROVE  /\ JobShape' /\ ~job'[p].watch
           /\ \A q \in Controllers \ {p} : job'[q] = job[q]
  <1>1. job \in [Controllers -> Job]
    BY DEF JobShape
  <1>2. [NoJob EXCEPT !.stage = s] \in Job
        /\ [NoJob EXCEPT !.stage = s].watch = FALSE
    BY NoJobTyped DEF Job, NoJob
  <1>3. job' \in [Controllers -> Job]
    BY <1>1, <1>2
  <1> QED
    BY <1>1, <1>2, <1>3 DEF JobShape

LEMMA RaisesFrame ==
    ASSUME RoundAssumption, Shape, NEW p \in Controllers, Raises(p)
    PROVE  /\ pc' \in [Controllers -> Pcs] /\ JobShape' /\ Only(p)
           /\ pc'[p] = "failure" /\ Releases(p) /\ ~job'[p].watch
           /\ lock' \in Controllers \cup {None}
  <1>1. /\ pc' \in [Controllers -> Pcs] /\ pc'[p] = "failure"
        /\ \A q \in Controllers \ {p} : pc'[q] = pc[q]
    BY GotoFrame DEF Raises, Shape, Pcs
  <1>2. /\ JobShape' /\ ~job'[p].watch
        /\ \A q \in Controllers \ {p} : job'[q] = job[q]
    BY JobReset DEF Raises, Shape, JobShape, Stages
  <1> QED
    BY <1>1, <1>2 DEF Raises, Only, Releases, Shape

LEMMA AuditKept ==
    ASSUME NEW j \in Job, NEW b \in BOOLEAN
    PROVE  /\ [j EXCEPT !.audit = b] \in Job
           /\ [j EXCEPT !.audit = b].watch = j.watch
  BY DEF Job

LEMMA StageKept ==
    ASSUME NEW j \in Job,
           NEW s \in Stages
    PROVE  /\ [j EXCEPT !.stage = s] \in Job
           /\ [j EXCEPT !.stage = s].watch = j.watch
  BY DEF Job

LEMMA RoundStep ==
    ASSUME RoundAssumption, Shape, NEW p \in Controllers, RoundMoves(p)
    PROVE  Outsider(p) /\ Only(p) /\ Shape'
  <1> USE DEF LockPcs, LifePcs, WatchPcs
  <1>s. JobShape /\ pc \in [Controllers -> Pcs] /\ lock \in Controllers \cup {None}
    BY DEF Shape, JobShape
  <1>k. ASSUME NEW where \in Pcs \ LockPcs, Goto(p, where), pc[p] \notin LockPcs,
               Round(p), UNCHANGED job
        PROVE  Outsider(p) /\ Only(p) /\ Shape'
    <2>1. /\ pc' \in [Controllers -> Pcs] /\ pc'[p] = where
          /\ \A q \in Controllers \ {p} : pc'[q] = pc[q]
      BY <1>k, <1>s, GotoFrame
    <2> QED
      BY <1>k, <2>1 DEF Outsider, Only, Releases, Round, Shape, JournalShape, JobShape
  <1>j. ASSUME NEW where \in Pcs \ LockPcs, Goto(p, where), pc[p] \notin LockPcs,
               Round(p), job \in [Controllers -> Job],
               NEW v \in Job, v.watch = job[p].watch,
               job' = [job EXCEPT ![p] = v]
        PROVE  Outsider(p) /\ Only(p) /\ Shape'
    <2>1. /\ pc' \in [Controllers -> Pcs] /\ pc'[p] = where
          /\ \A q \in Controllers \ {p} : pc'[q] = pc[q]
      BY <1>j, <1>s, GotoFrame
    <2>2. job' \in [Controllers -> Job] /\ job'[p] = v
          /\ \A q \in Controllers \ {p} : job'[q] = job[q]
      BY <1>j
    <2> QED
      BY <1>j, <2>1, <2>2 DEF Outsider, Only, Releases, Round, Shape, JournalShape, JobShape
  <1>1. CASE run_autoresearch_v2(p)
    BY <1>1, <1>k DEF run_autoresearch_v2, Pcs
  <1>2. CASE Started(p)
    BY <1>2, <1>k DEF Started, Append1, Pcs
  <1>3. CASE Scored(p) \/ Completed(p)
    BY <1>3, <1>k DEF Scored, Completed, Append1, Pcs
  <1>4. CASE _record_terminal_failure(p)
    BY <1>4, <1>k DEF _record_terminal_failure, Append1, Pcs
  <1>5. CASE Summary(p) \/ Receipt(p)
    BY <1>5, <1>k DEF Summary, Receipt, WriteSummary, Pcs
  <1>6. CASE Refuses(p)
    BY <1>6, <1>k DEF Refuses, Pcs
  <1>7. CASE Audit(p)
    <2>1. job \in [Controllers -> Job]
      BY <1>s DEF JobShape
    <2>2. ASSUME NEW b \in BOOLEAN, job' = [job EXCEPT ![p].audit = b],
                 Goto(p, "project")
          PROVE  Outsider(p) /\ Only(p) /\ Shape'
      <3>0. PICK v : v = [job[p] EXCEPT !.audit = b]
        OBVIOUS
      <3>1. v \in Job /\ v.watch = job[p].watch
        BY <2>1, <2>2, <3>0, AuditKept
      <3>2. job' = [job EXCEPT ![p] = v]
        BY <2>2, <3>0
      <3> QED
        BY <1>7, <2>1, <2>2, <3>1, <3>2, <1>j DEF Audit, Pcs
    <2>3. CASE job' = [job EXCEPT ![p].stage = "child_audit"] /\ Goto(p, "failure")
      <3>0. PICK v : v = [job[p] EXCEPT !.stage = "child_audit"]
        OBVIOUS
      <3>1. v \in Job /\ v.watch = job[p].watch
        BY <2>1, <3>0, StageKept DEF Stages
      <3>2. job' = [job EXCEPT ![p] = v]
        BY <2>3, <3>0
      <3> QED
        BY <1>7, <2>1, <2>3, <3>1, <3>2, <1>j DEF Audit, Pcs
    <2>4. audit_sm121_cache_performance_campaign(TRUE) \in BOOLEAN
          /\ audit_sm121_cache_performance_campaign(FALSE) \in BOOLEAN
      BY DEF audit_sm121_cache_performance_campaign
    <2> QED
      BY <1>7, <2>2, <2>3, <2>4 DEF Audit
  <1>8. CASE Project(p)
    <2>1. job \in [Controllers -> Job]
      BY <1>s DEF JobShape
    <2>2. CASE UNCHANGED job /\ Goto(p, "scored")
      BY <1>8, <2>2, <1>k DEF Project, Pcs
    <2>3. CASE job' = [job EXCEPT ![p].stage = "projection"] /\ Goto(p, "failure")
      <3>0. PICK v : v = [job[p] EXCEPT !.stage = "projection"]
        OBVIOUS
      <3>1. v \in Job /\ v.watch = job[p].watch
        BY <2>1, <3>0, StageKept DEF Stages
      <3>2. job' = [job EXCEPT ![p] = v]
        BY <2>3, <3>0
      <3> QED
        BY <1>8, <2>1, <2>3, <3>1, <3>2, <1>j DEF Project, Pcs
    <2> QED
      BY <1>8, <2>2, <2>3 DEF Project
  <1>9. CASE EnterChild(p)
    <2>1. CASE Goto(p, "lock") /\ UNCHANGED <<lock, job, tainted>>
      <3>1. /\ pc' \in [Controllers -> Pcs] /\ pc'[p] = "lock"
            /\ \A q \in Controllers \ {p} : pc'[q] = pc[q]
        BY <1>s, <2>1, GotoFrame DEF Pcs
      <3> QED
        BY <1>9, <2>1, <3>1 DEF EnterChild, Outsider, Only, Releases, Shape, JournalShape, JobShape
    <2>2. CASE Raises(p) /\ UNCHANGED tainted
      <3>1. /\ pc' \in [Controllers -> Pcs] /\ JobShape' /\ Only(p)
            /\ pc'[p] = "failure" /\ Releases(p) /\ ~job'[p].watch
            /\ lock' \in Controllers \cup {None}
        BY <2>2, RaisesFrame
      <3> QED
        BY <1>9, <2>2, <3>1 DEF EnterChild, Outsider, Shape, JobShape, JournalShape
    <2> QED
      BY <1>9, <2>1, <2>2 DEF EnterChild, Quiet
  <1> QED
    BY <1>1, <1>2, <1>3, <1>4, <1>5, <1>6, <1>7, <1>8, <1>9 DEF RoundMoves

(***************************************************************************)
(* What a step writes into its controller's locals.                         *)
(***************************************************************************)

OthersKept(p) == \A q \in Controllers \ {p} : job'[q] = job[q]

LEMMA Replaced ==
    ASSUME job \in [Controllers -> Job], NEW p \in Controllers,
           NEW v \in Job, job' = [job EXCEPT ![p] = v]
    PROVE  JobShape' /\ OthersKept(p) /\ job'[p] = v
  <1>1. job' \in [Controllers -> Job] /\ job'[p] = v
        /\ \A q \in Controllers \ {p} : job'[q] = job[q]
    OBVIOUS
  <1> QED
    BY <1>1 DEF JobShape, OthersKept

LEMMA ErrSet ==
    ASSUME JobShape, NEW p \in Controllers, NEW e \in {"none", "safety", "other"},
           job' = [job EXCEPT ![p].err = e]
    PROVE  /\ JobShape' /\ OthersKept(p)
           /\ job'[p].err = e
           /\ job'[p].o = job[p].o /\ job'[p].rows = job[p].rows
           /\ job'[p].cleanup = job[p].cleanup /\ job'[p].watch = job[p].watch
           /\ job'[p].tripped = job[p].tripped /\ job'[p].callback = job[p].callback
           /\ job'[p].expired = job[p].expired
  <1>1. job \in [Controllers -> Job]
    BY DEF JobShape
  <1>2. PICK r : r = [job[p] EXCEPT !.err = e]
    OBVIOUS
  <1>3. /\ r \in Job /\ r.err = e /\ r.o = job[p].o /\ r.rows = job[p].rows
        /\ r.cleanup = job[p].cleanup /\ r.watch = job[p].watch
        /\ r.tripped = job[p].tripped /\ r.callback = job[p].callback
        /\ r.expired = job[p].expired
    BY <1>1, <1>2 DEF Job
  <1>4. job' = [job EXCEPT ![p] = r]
    BY <1>1, <1>2
  <1>5. JobShape' /\ OthersKept(p) /\ job'[p] = r
    BY <1>1, <1>3, <1>4, Replaced
  <1> QED
    BY <1>3, <1>5

LEMMA ErrWatchSet ==
    ASSUME JobShape, NEW p \in Controllers, NEW e \in {"none", "safety", "other"},
           job' = [job EXCEPT ![p].err = e, ![p].watch = FALSE]
    PROVE  /\ JobShape' /\ OthersKept(p)
           /\ job'[p].err = e /\ job'[p].watch = FALSE
           /\ job'[p].o = job[p].o /\ job'[p].rows = job[p].rows
           /\ job'[p].cleanup = job[p].cleanup /\ job'[p].tripped = job[p].tripped
           /\ job'[p].callback = job[p].callback /\ job'[p].expired = job[p].expired
  <1>1. job \in [Controllers -> Job]
    BY DEF JobShape
  <1>2. PICK r : r = [job[p] EXCEPT !.err = e]
    OBVIOUS
  <1>3. PICK s : s = [r EXCEPT !.watch = FALSE]
    OBVIOUS
  <1>4. job' = [job EXCEPT ![p] = s]
    BY <1>1, <1>2, <1>3
  <1>5. /\ r \in Job
        /\ r.err = e /\ r.o = job[p].o /\ r.rows = job[p].rows
        /\ r.cleanup = job[p].cleanup /\ r.tripped = job[p].tripped
        /\ r.callback = job[p].callback /\ r.expired = job[p].expired
    BY <1>1, <1>2 DEF Job
  <1>6. /\ s \in Job
        /\ s.err = e /\ s.watch = FALSE
        /\ s.o = job[p].o /\ s.rows = job[p].rows
        /\ s.cleanup = job[p].cleanup /\ s.tripped = job[p].tripped
        /\ s.callback = job[p].callback /\ s.expired = job[p].expired
    BY <1>3, <1>5 DEF Job
  <1>7. JobShape' /\ OthersKept(p) /\ job'[p] = s
    BY <1>1, <1>4, <1>6, Replaced
  <1> QED
    BY <1>6, <1>7

LEMMA WatchSet ==
    ASSUME JobShape, NEW p \in Controllers,
           job' = [job EXCEPT ![p].watch = TRUE]
    PROVE  /\ JobShape' /\ OthersKept(p)
           /\ job'[p].watch = TRUE
           /\ job'[p].o = job[p].o /\ job'[p].rows = job[p].rows
           /\ job'[p].err = job[p].err /\ job'[p].cleanup = job[p].cleanup
           /\ job'[p].tripped = job[p].tripped /\ job'[p].callback = job[p].callback
           /\ job'[p].expired = job[p].expired
  <1>1. job \in [Controllers -> Job]
    BY DEF JobShape
  <1>2. PICK r : r = [job[p] EXCEPT !.watch = TRUE]
    OBVIOUS
  <1>3. /\ r \in Job /\ r.watch = TRUE /\ r.o = job[p].o
        /\ r.rows = job[p].rows /\ r.err = job[p].err /\ r.cleanup = job[p].cleanup
        /\ r.tripped = job[p].tripped /\ r.callback = job[p].callback
        /\ r.expired = job[p].expired
    BY <1>1, <1>2 DEF Job
  <1>4. job' = [job EXCEPT ![p] = r]
    BY <1>1, <1>2
  <1>5. JobShape' /\ OthersKept(p) /\ job'[p] = r
    BY <1>1, <1>3, <1>4, Replaced
  <1> QED
    BY <1>3, <1>5

LEMMA CallbackSet ==
    ASSUME JobShape, NEW p \in Controllers,
           job' = [job EXCEPT ![p].callback = "set"]
    PROVE  /\ JobShape' /\ OthersKept(p)
           /\ job'[p].callback = "set"
           /\ job'[p].o = job[p].o /\ job'[p].rows = job[p].rows
           /\ job'[p].err = job[p].err /\ job'[p].cleanup = job[p].cleanup
           /\ job'[p].watch = job[p].watch /\ job'[p].tripped = job[p].tripped
           /\ job'[p].expired = job[p].expired
  <1>1. job \in [Controllers -> Job]
    BY DEF JobShape
  <1>2. PICK r : r = [job[p] EXCEPT !.callback = "set"]
    OBVIOUS
  <1>3. /\ r \in Job /\ r.callback = "set" /\ r.o = job[p].o
        /\ r.rows = job[p].rows /\ r.err = job[p].err /\ r.cleanup = job[p].cleanup
        /\ r.watch = job[p].watch /\ r.tripped = job[p].tripped
        /\ r.expired = job[p].expired
    BY <1>1, <1>2 DEF Job
  <1>4. job' = [job EXCEPT ![p] = r]
    BY <1>1, <1>2
  <1>5. JobShape' /\ OthersKept(p) /\ job'[p] = r
    BY <1>1, <1>3, <1>4, Replaced
  <1> QED
    BY <1>3, <1>5

LEMMA CleanupSet ==
    ASSUME JobShape, NEW p \in Controllers, NEW b \in BOOLEAN,
           job' = [job EXCEPT ![p].cleanup = b]
    PROVE  /\ JobShape' /\ OthersKept(p)
           /\ job'[p].cleanup = b
           /\ job'[p].o = job[p].o /\ job'[p].rows = job[p].rows
           /\ job'[p].err = job[p].err /\ job'[p].watch = job[p].watch
           /\ job'[p].tripped = job[p].tripped /\ job'[p].callback = job[p].callback
           /\ job'[p].expired = job[p].expired
  <1>1. job \in [Controllers -> Job]
    BY DEF JobShape
  <1>2. PICK r : r = [job[p] EXCEPT !.cleanup = b]
    OBVIOUS
  <1>3. /\ r \in Job /\ r.cleanup = b /\ r.o = job[p].o /\ r.rows = job[p].rows
        /\ r.err = job[p].err /\ r.watch = job[p].watch
        /\ r.tripped = job[p].tripped /\ r.callback = job[p].callback
        /\ r.expired = job[p].expired
    BY <1>1, <1>2 DEF Job
  <1>4. job' = [job EXCEPT ![p] = r]
    BY <1>1, <1>2
  <1>5. JobShape' /\ OthersKept(p) /\ job'[p] = r
    BY <1>1, <1>3, <1>4, Replaced
  <1> QED
    BY <1>3, <1>5

LEMMA TrippedSet ==
    ASSUME JobShape, NEW p \in Controllers,
           job' = [job EXCEPT ![p].tripped = TRUE]
    PROVE  /\ JobShape' /\ OthersKept(p)
           /\ job'[p].tripped = TRUE
           /\ job'[p].o = job[p].o /\ job'[p].rows = job[p].rows
           /\ job'[p].err = job[p].err /\ job'[p].cleanup = job[p].cleanup
           /\ job'[p].watch = job[p].watch /\ job'[p].callback = job[p].callback
           /\ job'[p].expired = job[p].expired
  <1>1. job \in [Controllers -> Job]
    BY DEF JobShape
  <1>2. PICK r : r = [job[p] EXCEPT !.tripped = TRUE]
    OBVIOUS
  <1>3. /\ r \in Job /\ r.tripped = TRUE /\ r.o = job[p].o
        /\ r.rows = job[p].rows /\ r.err = job[p].err /\ r.cleanup = job[p].cleanup
        /\ r.watch = job[p].watch /\ r.callback = job[p].callback
        /\ r.expired = job[p].expired
    BY <1>1, <1>2 DEF Job
  <1>4. job' = [job EXCEPT ![p] = r]
    BY <1>1, <1>2
  <1>5. JobShape' /\ OthersKept(p) /\ job'[p] = r
    BY <1>1, <1>3, <1>4, Replaced
  <1> QED
    BY <1>3, <1>5

LEMMA TrippedFailedSet ==
    ASSUME JobShape, NEW p \in Controllers,
           job' = [job EXCEPT ![p].tripped = TRUE, ![p].callback = "failed"]
    PROVE  /\ JobShape' /\ OthersKept(p)
           /\ job'[p].tripped = TRUE /\ job'[p].callback = "failed"
           /\ job'[p].o = job[p].o /\ job'[p].rows = job[p].rows
           /\ job'[p].err = job[p].err /\ job'[p].cleanup = job[p].cleanup
           /\ job'[p].watch = job[p].watch /\ job'[p].expired = job[p].expired
  <1>1. job \in [Controllers -> Job]
    BY DEF JobShape
  <1>2. PICK r : r = [job[p] EXCEPT !.tripped = TRUE]
    OBVIOUS
  <1>3. PICK s : s = [r EXCEPT !.callback = "failed"]
    OBVIOUS
  <1>4. job' = [job EXCEPT ![p] = s]
    BY <1>1, <1>2, <1>3
  <1>5. /\ r \in Job
        /\ r.tripped = TRUE /\ r.err = job[p].err /\ r.watch = job[p].watch
        /\ r.o = job[p].o /\ r.rows = job[p].rows
        /\ r.cleanup = job[p].cleanup /\ r.expired = job[p].expired
    BY <1>1, <1>2 DEF Job
  <1>6. /\ s \in Job
        /\ s.tripped = TRUE /\ s.callback = "failed"
        /\ s.o = job[p].o /\ s.rows = job[p].rows
        /\ s.err = job[p].err /\ s.cleanup = job[p].cleanup
        /\ s.watch = job[p].watch /\ s.expired = job[p].expired
    BY <1>3, <1>5 DEF Job
  <1>7. JobShape' /\ OthersKept(p) /\ job'[p] = s
    BY <1>1, <1>4, <1>6, Replaced
  <1> QED
    BY <1>6, <1>7

LEMMA ExpiredSet ==
    ASSUME JobShape, NEW p \in Controllers,
           job' = [job EXCEPT ![p].expired = TRUE]
    PROVE  /\ JobShape' /\ OthersKept(p)
           /\ job'[p].expired = TRUE
           /\ job'[p].o = job[p].o /\ job'[p].rows = job[p].rows
           /\ job'[p].err = job[p].err /\ job'[p].cleanup = job[p].cleanup
           /\ job'[p].watch = job[p].watch /\ job'[p].tripped = job[p].tripped
           /\ job'[p].callback = job[p].callback
  <1>1. job \in [Controllers -> Job]
    BY DEF JobShape
  <1>2. PICK r : r = [job[p] EXCEPT !.expired = TRUE]
    OBVIOUS
  <1>3. /\ r \in Job /\ r.expired = TRUE /\ r.o = job[p].o
        /\ r.rows = job[p].rows /\ r.err = job[p].err /\ r.cleanup = job[p].cleanup
        /\ r.watch = job[p].watch /\ r.tripped = job[p].tripped
        /\ r.callback = job[p].callback
    BY <1>1, <1>2 DEF Job
  <1>4. job' = [job EXCEPT ![p] = r]
    BY <1>1, <1>2
  <1>5. JobShape' /\ OthersKept(p) /\ job'[p] = r
    BY <1>1, <1>3, <1>4, Replaced
  <1> QED
    BY <1>3, <1>5

(***************************************************************************)
(* The journals of the arms.                                                *)
(***************************************************************************)

\* Journals keep their types, and one that has an event is not blank again.
Grown ==
    /\ JournalShape'
    /\ \A b \in Arms : arms'[b] = Blank => arms[b] = Blank

\* An arm that was begun is not begun again.
NeverAgain == \A b \in Arms : arms[b] # Blank => arms'[b].run_start = arms[b].run_start

LEMMA NothingLogged ==
    ASSUME Shape, UNCHANGED arms
    PROVE  Grown /\ NeverAgain
  BY DEF Grown, NeverAgain, Shape, JournalShape

\* What a logged event changes, by the kind of the event.
LEMMA LogSets ==
    ASSUME DOMAIN arms = Arms, NEW a \in Arms, NEW new, Log(a, new)
    PROVE  /\ DOMAIN arms' = Arms
           /\ \A b \in Arms \ {a} : arms'[b] = arms[b]
           /\ \A k \in Kinds : k \in DOMAIN new => arms'[a][k] = Append(arms[a][k], new[k])
           /\ \A k \in Kinds : k \notin DOMAIN new => arms'[a][k] = arms[a][k]
  BY DEF Log

LEMMA Logged ==
    ASSUME Shape, NEW a \in Arms, NEW new, Log(a, new),
           DOMAIN new \subseteq Kinds, DOMAIN new # {},
           \A k \in DOMAIN new : new[k] \in Entry(k)
    PROVE  /\ Grown /\ arms'[a] # Blank
           /\ "run_start" \notin DOMAIN new \/ arms[a] = Blank => NeverAgain
  <1>1. JournalShape
    BY DEF Shape
  <1>2. /\ DOMAIN arms' = Arms
        /\ \A b \in Arms \ {a} : arms'[b] = arms[b]
        /\ \A k \in Kinds : k \in DOMAIN new => arms'[a][k] = Append(arms[a][k], new[k])
        /\ \A k \in Kinds : k \notin DOMAIN new => arms'[a][k] = arms[a][k]
    BY <1>1, LogSets DEF JournalShape
  <1>3. ASSUME NEW k \in Kinds
        PROVE  arms'[a][k] \in Seq(Entry(k)) /\ (k \in DOMAIN new => arms'[a][k] # <<>>)
    <2>1. arms[a][k] \in Seq(Entry(k))
      BY <1>1 DEF JournalShape
    <2>2. CASE k \in DOMAIN new
      <3>1. PICK s, e : s = arms[a][k] /\ e = new[k]
        OBVIOUS
      <3>2. s \in Seq(Entry(k)) /\ e \in Entry(k)
        BY <2>1, <2>2, <3>1
      <3>3. Append(s, e) \in Seq(Entry(k)) /\ Append(s, e) # <<>>
        BY <3>2, AppendProperties
      <3> QED
        BY <1>2, <2>2, <3>1, <3>3
    <2>3. CASE k \notin DOMAIN new
      BY <1>2, <2>1, <2>3
    <2> QED
      BY <2>2, <2>3
  <1>4. arms'[a] # Blank
    BY <1>3 DEF Blank
  <1>5. JournalShape'
    <2>1. \A b \in Arms : \A k \in Kinds : arms'[b][k] \in Seq(Entry(k))
      BY <1>1, <1>2, <1>3 DEF JournalShape
    <2> QED
      BY <1>2, <2>1 DEF JournalShape
  <1>6. Grown
    BY <1>2, <1>4, <1>5 DEF Grown
  <1>7. "run_start" \notin DOMAIN new \/ arms[a] = Blank => NeverAgain
    <2>1. "run_start" \in Kinds
      BY DEF Kinds
    <2> QED
      BY <1>2, <2>1 DEF NeverAgain
  <1> QED
    BY <1>4, <1>6, <1>7

\* The steps of the holder of the results lock.
HolderMoves(p) ==
    \/ ArmBegins(p) \/ Preflight(p) \/ Static(p) \/ StartServer(p) \/ ServerReady(p)
    \/ StartFails(p) \/ ReadyFails(p) \/ Answer(p) \/ CaseFails(p) \/ Interrupts(p)
    \/ LastCheckFails(p) \/ SaveLogs(p) \/ StopServer(p) \/ Unwatch(p)
    \/ LifetimeComplete(p) \/ ArmAborts(p) \/ ArmCompletes(p) \/ Score(p)

LEMMA JournalStep ==
    ASSUME RoundAssumption, Shape, NEW p \in Controllers, HolderMoves(p)
    PROVE  Grown /\ NeverAgain
  <1>k. ASSUME UNCHANGED arms PROVE Grown /\ NeverAgain
    BY <1>k, NothingLogged
  <1>a. o(p) \in Lifetimes /\ Arm(o(p)) \in Arms
    <2>1. o(p) \in Lifetimes
      BY DEF Shape, JobShape, o, Job
    <2> QED
      BY <2>1, ArmFacts
  <1>l. ASSUME NEW new, Log(Arm(o(p)), new), DOMAIN new \subseteq Kinds, DOMAIN new # {},
               \A k \in DOMAIN new : new[k] \in Entry(k), "run_start" \notin DOMAIN new
        PROVE  Grown /\ NeverAgain
    BY <1>a, <1>l, Logged
  <1> USE DEF Entry, Kinds, Attested
  <1>1. CASE ArmBegins(p)
    <2>1. CASE UNCHANGED arms
      BY <2>1, <1>k
    <2>2. CASE /\ arms[Arm(o(p))] = Blank
               /\ Log(Arm(o(p)), [run_start |-> Arm(o(p)), measurement_started |-> Arm(o(p))])
      BY <1>a, <2>2, Logged
    <2> QED
      BY <1>1, <2>1, <2>2 DEF ArmBegins, ArmFresh, o
  <1>2. CASE Preflight(p) \/ StartServer(p) \/ StartFails(p) \/ LastCheckFails(p)
             \/ SaveLogs(p) \/ Unwatch(p) \/ Score(p)
    BY <1>2, <1>k DEF Preflight, StartServer, StartFails, LastCheckFails, SaveLogs,
                      Unwatch, Score
  <1>3. CASE Static(p)
    <2>1. CASE Log(Arm(o(p)), [static |-> o(p)])
      BY <1>a, <1>l, <2>1
    <2> QED
      BY <1>3, <1>k, <2>1 DEF Static
  <1>4. CASE ServerReady(p)
    <2>1. Log(Arm(o(p)), [runtime |-> o(p), ready |-> o(p), case_start |-> o(p)])
      BY <1>4 DEF ServerReady
    <2> QED
      BY <1>a, <1>l, <2>1
  <1>4a. CASE ReadyFails(p)
    <2>1. CASE Log(Arm(o(p)), [runtime |-> o(p)])
      BY <1>a, <1>l, <2>1
    <2>2. CASE Log(Arm(o(p)), [runtime |-> o(p), ready |-> o(p)])
      BY <1>a, <1>l, <2>2
    <2> QED
      BY <1>4a, <1>k, <2>1, <2>2 DEF ReadyFails
  <1>5. CASE Answer(p)
    <2>1. CASE Log(Arm(o(p)), [case_complete |-> o(p)])
      BY <1>a, <1>l, <2>1
    <2>2. ASSUME NEW b \in BOOLEAN, Log(Arm(o(p)), [turn |-> b, case_complete |-> o(p)])
          PROVE  Grown /\ NeverAgain
      BY <1>a, <1>l, <2>2
    <2>3. ASSUME NEW b \in BOOLEAN, Log(Arm(o(p)), [turn |-> b])
          PROVE  Grown /\ NeverAgain
      BY <1>a, <1>l, <2>3
    <2> QED
      BY <1>5, <2>1, <2>2, <2>3 DEF Answer
  <1>6. CASE CaseFails(p)
    <2>1. ASSUME NEW b \in BOOLEAN, Log(Arm(o(p)), [turn |-> b])
          PROVE  Grown /\ NeverAgain
      BY <1>a, <1>l, <2>1
    <2> QED
      BY <1>6, <1>k, <2>1 DEF CaseFails
  <1>7. CASE Interrupts(p)
    <2>1. CASE Log(Arm(o(p)), [interrupt_failed |-> Arm(o(p))])
      BY <1>a, <1>l, <2>1
    <2> QED
      BY <1>7, <1>k, <2>1 DEF Interrupts
  <1>8. CASE StopServer(p)
    <2>1. CASE Log(Arm(o(p)), [stopped |-> o(p)])
      BY <1>a, <1>l, <2>1
    <2> QED
      BY <1>8, <1>k, <2>1 DEF StopServer
  <1>9. CASE LifetimeComplete(p)
    <2>1. ASSUME NEW ok \in BOOLEAN, Log(Arm(o(p)), [lifetime |-> <<o(p), ok>>])
          PROVE  Grown /\ NeverAgain
      BY <1>a, <1>l, <2>1
    <2>2. PICK ok : ok = (job[p].err = "none" /\ ~job[p].expired)
      OBVIOUS
    <2>3. ok \in BOOLEAN
      BY <2>2
    <2>4. \/ UNCHANGED arms
          \/ Log(Arm(o(p)), [lifetime |-> <<o(p), ok>>])
      BY <1>9, <2>2 DEF LifetimeComplete
    <2> QED
      BY <1>k, <2>1, <2>3, <2>4
  <1>10. CASE ArmAborts(p)
    <2>1. CASE Log(Arm(o(p)), [breach |-> Arm(o(p)), run_aborted |-> Arm(o(p))])
      BY <1>a, <1>l, <2>1
    <2>2. CASE Log(Arm(o(p)), [run_aborted |-> Arm(o(p))])
      BY <1>a, <1>l, <2>2
    <2> QED
      BY <1>10, <1>k, <2>1, <2>2 DEF ArmAborts
  <1>11. CASE ArmCompletes(p)
    <2>1. CASE Log(Arm(o(p)), [measurement_complete |-> Arm(o(p)), run_complete |-> Arm(o(p))])
      BY <1>a, <1>l, <2>1
    <2> QED
      BY <1>11, <1>k, <2>1 DEF ArmCompletes
  <1> QED
    BY <1>1, <1>2, <1>3, <1>4, <1>4a, <1>5, <1>6, <1>7, <1>8, <1>9, <1>10, <1>11
    DEF HolderMoves

(***************************************************************************)
(* What a step means for the invariant of everyone.                         *)
(***************************************************************************)

\* A step in which p changes nothing that anybody else relies on.
LEMMA OutsiderStep ==
    ASSUME RoundAssumption, RoundInv, NEW p \in Controllers, Outsider(p), Only(p), Shape'
    PROVE  RoundInv'
  <1>1. OnFile'
    BY DEF RoundInv, OnFile, Outsider
  <1>2. ASSUME NEW q \in Controllers \ {p} PROVE Own(q)'
    <2>1. Own(q) /\ pc'[q] = pc[q] /\ job'[q] = job[q]
      BY <1>2 DEF RoundInv, Only
    <2>2. pc[q] \in LockPcs => lock' = q
      BY <1>2, <2>1 DEF Own, Writes, Outsider, Releases
    <2>3. (job[q].watch => pc[q] \in WatchPcs)'
      BY <2>1 DEF Own
    <2>4. ASSUME pc'[q] \in LockPcs
          PROVE  (Writes(q) /\ Place(q) /\ Noted(q) /\ RowsClean(q) /\ Halted(q))'
      <3>1. Writes(q) /\ Place(q) /\ Noted(q) /\ RowsClean(q) /\ Halted(q)
        BY <2>1, <2>4 DEF Own
      <3>2. Writes(q)'
        BY <2>1, <2>2, <2>4, <3>1 DEF Writes, Outsider, o
      <3>3. Place(q)'
        BY <2>1, <3>1 DEF Place, o
      <3>4. Noted(q)'
        BY <2>1, <3>1 DEF Noted, Outsider, o
      <3>5. RowsClean(q)'
        BY <2>1, <3>1 DEF RowsClean, Outsider
      <3>6. Halted(q)'
        BY <2>1, <3>1 DEF Halted, Outsider, Mine, o
      <3> QED
        BY <3>2, <3>3, <3>4, <3>5, <3>6
    <2> QED
      BY <2>3, <2>4 DEF Own
  <1>3. Own(p)'
    BY DEF RoundInv, Own, Outsider, LockPcs, LifePcs
  <1> QED
    BY <1>1, <1>2, <1>3 DEF RoundInv

\* Nobody else is in the campaign while p holds the lock.
LEMMA Alone ==
    ASSUME RoundAssumption, RoundInv, NEW p \in Controllers, lock \in {p, None}, Only(p)
    PROVE  \A q \in Controllers \ {p} : Own(q)'
  <1> SUFFICES ASSUME NEW q \in Controllers \ {p} PROVE Own(q)'
    OBVIOUS
  <1>1. Own(q) /\ pc'[q] = pc[q] /\ job'[q] = job[q]
    BY DEF RoundInv, Only
  <1>2. pc[q] \notin LockPcs
    BY <1>1 DEF Own, Writes, RoundAssumption
  <1> QED
    BY <1>1, <1>2 DEF Own

\* The holder leaves the campaign.
LEMMA LeaveStep ==
    ASSUME RoundAssumption, RoundInv, NEW p \in Controllers, lock \in {p, None}, Only(p),
           Shape', pc'[p] \notin LockPcs, ~job'[p].watch, OnFile'
    PROVE  RoundInv'
  <1>1. Own(p)'
    BY DEF Own
  <1> QED
    BY <1>1, Alone DEF RoundInv

\* The holder goes on within an arm.
LEMMA WithinStep ==
    ASSUME RoundAssumption, RoundInv, NEW p \in Controllers,
           pc[p] \in LockPcs \ {"score"}, child = None,
           pc' \in [Controllers -> Pcs], pc'[p] \in LockPcs \ {"arm", "score"},
           \A q \in Controllers \ {p} : pc'[q] = pc[q],
           JobShape', OthersKept(p),
           job'[p].o = job[p].o, job'[p].rows = job[p].rows,
           job'[p].watch => pc'[p] \in WatchPcs,
           pc'[p] = "complete" => Timed(o(p)),
           Grown, arms'[Arm(o(p))] # Blank, UNCHANGED <<child, lock>>,
           container' \in [by : Controllers, o : Lifetimes, runs : BOOLEAN] \cup {None},
           UNCHANGED tainted \/ Taint(p),
           Noted(p)', Halted(p)'
    PROVE  RoundInv'
  <1>1. job \in [Controllers -> Job]
    BY DEF RoundInv, Shape, JobShape
  <1>2. o(p) \in Lifetimes /\ Arm(o(p)) \in Arms /\ Arm(o(p)) \in Nat
    <2>1. o(p) \in Lifetimes
      BY <1>1 DEF o, Job
    <2> QED
      BY <2>1, ArmFacts
  <1>3. Writes(p) /\ Place(p) /\ RowsClean(p) /\ OnFile /\ Shape
    BY DEF RoundInv, Own
  <1>4. tainted' \subseteq tainted \cup {Arm(o(p))} /\ tainted' \subseteq Arms
    BY <1>2, <1>3 DEF Taint, Shape
  <1>5. Shape'
    BY <1>3, <1>4 DEF Shape, JobShape, Grown
  <1>6. Only(p)
    BY DEF Only, OthersKept
  <1>7. OnFile'
    BY <1>3, <1>4 DEF OnFile, Grown
  <1>8. o(p)' = o(p)
    BY DEF o
  <1>9. arms'[1] # Blank
    <2>1. CASE o(p) = 1 /\ pc[p] = "arm"
      BY <2>1, FirstArm
    <2>2. CASE o(p) # 1 \/ pc[p] # "arm"
      BY <2>2, <1>3, FirstArm DEF Writes, Grown
    <2> QED
      BY <2>1, <2>2
  <1>10. Writes(p)'
    BY <1>3, <1>8, <1>9 DEF Writes
  <1>11. Place(p)'
    BY <1>3, <1>8 DEF Place
  <1>12. RowsClean(p)'
    <2>1. Len(job[p].rows) = Arm(o(p)) - 1
      BY <1>3 DEF Place
    <2>2. \A a \in 1 .. Len(job[p].rows) : a # Arm(o(p))
      BY <1>2, <2>1
    <2> QED
      BY <1>3, <1>4, <2>2 DEF RowsClean
  <1>13. Own(p)'
    BY <1>10, <1>11, <1>12 DEF Own
  <1>14. lock = p
    BY <1>3 DEF Writes
  <1> QED
    BY <1>5, <1>6, <1>7, <1>13, <1>14, Alone DEF RoundInv

LEMMA HolderFacts ==
    ASSUME RoundAssumption, RoundInv, NEW p \in Controllers, pc[p] \in LockPcs
    PROVE  /\ Shape /\ JobShape /\ OnFile /\ pc \in [Controllers -> Pcs]
           /\ o(p) \in Lifetimes /\ Arm(o(p)) \in Arms
           /\ Writes(p) /\ Place(p) /\ Noted(p) /\ RowsClean(p) /\ Halted(p)
           /\ lock = p
           /\ job[p].watch => pc[p] \in WatchPcs
           /\ pc[p] # "arm" => child = None /\ arms[Arm(o(p))] # Blank
           /\ job[p].err \in {"none", "safety", "other"}
           /\ job[p].cleanup \in BOOLEAN /\ job[p].tripped \in BOOLEAN
           /\ job[p].expired \in BOOLEAN /\ job[p].watch \in BOOLEAN
  <1>1. job \in [Controllers -> Job]
    BY DEF RoundInv, Shape, JobShape
  <1>2. /\ o(p) \in Lifetimes /\ job[p].err \in {"none", "safety", "other"}
        /\ job[p].cleanup \in BOOLEAN /\ job[p].tripped \in BOOLEAN
        /\ job[p].expired \in BOOLEAN /\ job[p].watch \in BOOLEAN
    BY <1>1 DEF o, Job
  <1>3. Arm(o(p)) \in Arms
    BY <1>2, ArmFacts
  <1> QED
    BY <1>1, <1>2, <1>3 DEF RoundInv, Own, Writes, Shape, JobShape

\* The holder leaves the campaign with an exception, or crashes.
LEMMA RaiseStep ==
    ASSUME RoundAssumption, RoundInv, NEW p \in Controllers, pc[p] \in LockPcs,
           Raises(p), UNCHANGED <<arms, child, container, tainted>>
    PROVE  RoundInv'
  <1>1. /\ pc' \in [Controllers -> Pcs] /\ JobShape' /\ Only(p)
        /\ pc'[p] = "failure" /\ ~job'[p].watch
        /\ lock' \in Controllers \cup {None}
    BY RaisesFrame DEF RoundInv
  <1>2. Shape'
    BY <1>1 DEF RoundInv, Shape, JobShape, JournalShape
  <1>3. OnFile'
    BY DEF RoundInv, OnFile
  <1>4. lock = p
    BY HolderFacts
  <1> QED
    BY <1>1, <1>2, <1>3, <1>4, LeaveStep DEF LockPcs, LifePcs, WatchPcs

LEMMA BeginStep ==
    ASSUME RoundAssumption, RoundInv, NEW p \in Controllers, ArmBegins(p)
    PROVE  RoundInv'
  <1>1. pc[p] = "arm" /\ pc[p] \in LockPcs
    BY DEF ArmBegins, LockPcs
  <1>2. /\ Shape /\ JobShape /\ OnFile /\ pc \in [Controllers -> Pcs]
        /\ o(p) \in Lifetimes /\ Arm(o(p)) \in Arms /\ Writes(p)
        /\ job[p].watch => pc[p] \in WatchPcs
    BY <1>1, HolderFacts
  <1>3. CASE /\ arms[Arm(o(p))] = Blank
             /\ Log(Arm(o(p)), [run_start |-> Arm(o(p)), measurement_started |-> Arm(o(p))])
             /\ Goto(p, "preflight") /\ UNCHANGED <<tainted, lock, job, child, container>>
    <2>1. Grown
      BY <1>2, JournalStep DEF HolderMoves
    <2>2. arms'[Arm(o(p))] # Blank
      <3>1. PICK new : new = [run_start |-> Arm(o(p)), measurement_started |-> Arm(o(p))]
        OBVIOUS
      <3>2. /\ Log(Arm(o(p)), new) /\ DOMAIN new \subseteq Kinds /\ DOMAIN new # {}
            /\ \A k \in DOMAIN new : new[k] \in Entry(k)
        BY <1>2, <1>3, <3>1 DEF Kinds, Entry, Attested
      <3> QED
        BY <1>2, <3>2, Logged
    <2>3. child = None
      BY <1>1, <1>2, <1>3, FirstArm DEF Writes, OnFile
    <2>4. /\ pc' \in [Controllers -> Pcs] /\ pc'[p] = "preflight"
          /\ \A q \in Controllers \ {p} : pc'[q] = pc[q]
      BY <1>2, <1>3, GotoFrame DEF Pcs
    <2>5. Noted(p)' /\ Halted(p)'
      BY <1>2, <1>3, <2>4 DEF Noted, Halted, OnFile, o, WatchPcs
    <2>6. ~job[p].watch
      BY <1>1, <1>2 DEF WatchPcs
    <2>7. /\ JobShape' /\ OthersKept(p)
          /\ job'[p].o = job[p].o /\ job'[p].rows = job[p].rows
          /\ ~job'[p].watch
          /\ container' \in [by : Controllers, o : Lifetimes, runs : BOOLEAN] \cup {None}
      BY <1>2, <1>3, <2>6 DEF JobShape, OthersKept, Shape
    <2>8. pc[p] \in LockPcs \ {"score"} /\ pc'[p] \in LockPcs \ {"arm", "score"}
          /\ pc'[p] # "complete"
      BY <1>1, <2>4 DEF LockPcs
    <2> QED
      BY <1>3, <2>1, <2>2, <2>3, <2>4, <2>5, <2>7, <2>8, WithinStep
  <1>4. CASE Raises(p) /\ UNCHANGED <<arms, child, container, tainted>>
    BY <1>1, <1>4, RaiseStep
  <1> QED
    BY <1>3, <1>4 DEF ArmBegins, ArmFresh, Quiet, o

\* What WithinStep asks of a step that changes one of the locals only.
Continues(p) ==
    /\ JobShape' /\ OthersKept(p)
    /\ job'[p].o = job[p].o /\ job'[p].rows = job[p].rows
    /\ UNCHANGED <<child, lock>>
    /\ container' \in [by : Controllers, o : Lifetimes, runs : BOOLEAN] \cup {None}

LEMMA GoesOn ==
    ASSUME RoundAssumption, RoundInv, NEW p \in Controllers,
           pc[p] \in LockPcs \ {"arm", "score"}, NEW where \in LockPcs \ {"arm", "score"},
           Goto(p, where), Grown, Continues(p),
           job'[p].watch => where \in WatchPcs,
           where = "complete" => Timed(o(p)),
           UNCHANGED tainted \/ Taint(p),
           Noted(p)', Halted(p)'
    PROVE  RoundInv'
  <1>1. /\ pc \in [Controllers -> Pcs] /\ child = None /\ arms[Arm(o(p))] # Blank
        /\ Arm(o(p)) \in Arms
    BY HolderFacts
  <1>2. where \in Pcs
    BY DEF LockPcs, LifePcs, WatchPcs, Pcs
  <1>3. /\ pc' \in [Controllers -> Pcs] /\ pc'[p] = where
        /\ \A q \in Controllers \ {p} : pc'[q] = pc[q]
    BY <1>1, <1>2, GotoFrame
  <1>4. arms'[Arm(o(p))] # Blank
    BY <1>1 DEF Grown
  <1> QED
    BY <1>1, <1>3, <1>4, WithinStep DEF Continues

(***************************************************************************)
(* The steps of a lifetime.                                                 *)
(***************************************************************************)

LEMMA FailsSets ==
    ASSUME RoundAssumption, RoundInv, NEW p \in Controllers, pc[p] \in LockPcs,
           NEW where \in Pcs, Fails(p, where)
    PROVE  /\ JobShape' /\ OthersKept(p) /\ job'[p].err # "none"
           /\ job'[p].o = job[p].o /\ job'[p].rows = job[p].rows
           /\ job'[p].cleanup = job[p].cleanup /\ job'[p].watch = job[p].watch
           /\ job'[p].tripped = job[p].tripped /\ job'[p].expired = job[p].expired
           /\ Goto(p, where) /\ pc'[p] = where
  <1>1. JobShape /\ pc \in [Controllers -> Pcs]
    BY HolderFacts
  <1>2. PICK e : e = IF job[p].tripped THEN "safety" ELSE "other"
    OBVIOUS
  <1>3. e \in {"none", "safety", "other"} /\ e # "none"
        /\ job' = [job EXCEPT ![p].err = e]
    BY <1>2 DEF Fails
  <1> QED
    BY <1>1, <1>3, ErrSet, GotoFrame DEF Fails

LEMMA PreflightStep ==
    ASSUME RoundAssumption, RoundInv, NEW p \in Controllers, Preflight(p)
    PROVE  RoundInv'
  <1>1. pc[p] = "preflight" /\ pc[p] \in LockPcs \ {"arm", "score"}
    BY DEF Preflight, LockPcs
  <1>2. /\ Shape /\ JobShape /\ pc \in [Controllers -> Pcs]
        /\ Arm(o(p)) \notin tainted /\ ~job[p].watch
    BY <1>1, HolderFacts DEF Noted, WatchPcs
  <1>3. Grown
    BY <1>2, JournalStep DEF HolderMoves
  <1>4. CASE Goto(p, "static") /\ UNCHANGED job
    <2>1. pc'[p] = "static"
      BY <1>2, <1>4, GotoFrame DEF Pcs
    <2>2. Noted(p)' /\ Halted(p)'
      BY <1>2, <1>4, <2>1 DEF Noted, Halted, Preflight, Quiet, o, WatchPcs
    <2>3. Continues(p) /\ ~job'[p].watch /\ UNCHANGED tainted
      BY <1>2, <1>4 DEF Continues, Preflight, JobShape, OthersKept, Shape, Quiet
    <2> QED
      BY <1>1, <1>3, <1>4, <2>2, <2>3, GoesOn DEF LockPcs, LifePcs
  <1>5. CASE Goto(p, "abort") /\ job' = [job EXCEPT ![p].err = "other"]
    <2>1. pc'[p] = "abort"
      BY <1>2, <1>5, GotoFrame DEF Pcs
    <2>2. Noted(p)' /\ Halted(p)'
      BY <2>1 DEF Noted, Halted, WatchPcs
    <2>3. Continues(p) /\ ~job'[p].watch /\ UNCHANGED tainted
      BY <1>2, <1>5, ErrSet DEF Continues, Preflight, Shape, Quiet
    <2> QED
      BY <1>1, <1>3, <1>5, <2>2, <2>3, GoesOn DEF LockPcs
  <1> QED
    BY <1>4, <1>5 DEF Preflight

LEMMA StaticStep ==
    ASSUME RoundAssumption, RoundInv, NEW p \in Controllers, Static(p)
    PROVE  RoundInv'
  <1>1. pc[p] = "static" /\ pc[p] \in LockPcs \ {"arm", "score"}
    BY DEF Static, LockPcs, LifePcs
  <1>2. /\ Shape /\ JobShape /\ pc \in [Controllers -> Pcs]
        /\ Arm(o(p)) \notin tainted /\ ~job[p].watch
    BY <1>1, HolderFacts DEF Noted, WatchPcs
  <1>3. Grown
    BY <1>2, JournalStep DEF HolderMoves
  <1>4. CASE Goto(p, "starting") /\ job' = [job EXCEPT ![p].watch = TRUE] /\ Quiet
    <2>1. pc'[p] = "starting"
      BY <1>2, <1>4, GotoFrame DEF Pcs
    <2>2. Continues(p) /\ UNCHANGED tainted /\ o(p)' = o(p)
      BY <1>2, <1>4, WatchSet DEF Continues, Static, Lifetime, Shape, Quiet, o
    <2>3. Noted(p)' /\ Halted(p)'
      BY <1>2, <2>1, <2>2 DEF Noted, Halted, WatchPcs
    <2> QED
      BY <1>1, <1>3, <1>4, <2>2, <2>3, GoesOn DEF LockPcs, LifePcs, WatchPcs
  <1>5. CASE Taint(p) /\ Fails(p, "unwatch")
    <2>1. /\ JobShape' /\ OthersKept(p) /\ job'[p].err # "none"
          /\ job'[p].o = job[p].o /\ job'[p].rows = job[p].rows
          /\ job'[p].watch = job[p].watch
          /\ Goto(p, "unwatch") /\ pc'[p] = "unwatch"
      BY <1>1, <1>5, FailsSets DEF Pcs
    <2>2. Continues(p)
      BY <1>2, <2>1 DEF Continues, Static, Lifetime, Shape
    <2>3. Noted(p)' /\ Halted(p)'
      BY <2>1 DEF Noted, Halted, WatchPcs
    <2> QED
      BY <1>1, <1>3, <1>5, <2>1, <2>2, <2>3, GoesOn DEF LockPcs, LifePcs, WatchPcs
  <1> QED
    BY <1>4, <1>5 DEF Static

LEMMA StartStep ==
    ASSUME RoundAssumption, RoundInv, NEW p \in Controllers, StartServer(p)
    PROVE  RoundInv'
  <1>1. pc[p] = "starting" /\ pc[p] \in LockPcs \ {"arm", "score"} /\ pc[p] \in WatchPcs
    BY DEF StartServer, LockPcs, LifePcs, WatchPcs
  <1>2. /\ Shape /\ JobShape /\ pc \in [Controllers -> Pcs] /\ Noted(p)
        /\ o(p) \in Lifetimes
    BY <1>1, HolderFacts
  <1>3. Grown
    BY <1>2, JournalStep DEF HolderMoves
  <1>4. container' \in [by : Controllers, o : Lifetimes, runs : BOOLEAN] \cup {None}
    <2>1. [by |-> p, o |-> o(p), runs |-> TRUE]
            \in [by : Controllers, o : Lifetimes, runs : BOOLEAN]
      BY <1>2
    <2>2. container' \in {container, None, [by |-> p, o |-> o(p), runs |-> TRUE]}
      BY DEF StartServer
    <2> QED
      BY <1>2, <2>1, <2>2 DEF Shape
  <1>5. CASE /\ Goto(p, "waiting") /\ job' = [job EXCEPT ![p].callback = "set"]
             /\ UNCHANGED tainted
    <2>1. pc'[p] = "waiting"
      BY <1>2, <1>5, GotoFrame DEF Pcs
    <2>2. /\ Continues(p) /\ o(p)' = o(p)
          /\ job'[p].err = job[p].err /\ job'[p].cleanup = job[p].cleanup
          /\ job'[p].tripped = job[p].tripped /\ job'[p].expired = job[p].expired
      BY <1>2, <1>4, <1>5, CallbackSet DEF Continues, StartServer, Lifetime, o
    <2>3. Noted(p)' /\ Halted(p)'
      BY <1>1, <1>2, <1>5, <2>1, <2>2 DEF Noted, Halted, WatchPcs
    <2> QED
      BY <1>1, <1>3, <1>5, <2>2, <2>3, GoesOn DEF LockPcs, LifePcs, WatchPcs
  <1>6. CASE (UNCHANGED tainted \/ Taint(p)) /\ Fails(p, "unwatch")
    <2>1. /\ JobShape' /\ OthersKept(p) /\ job'[p].err # "none"
          /\ job'[p].o = job[p].o /\ job'[p].rows = job[p].rows
          /\ Goto(p, "unwatch") /\ pc'[p] = "unwatch"
      BY <1>1, <1>6, FailsSets DEF Pcs
    <2>2. Continues(p)
      BY <1>4, <2>1 DEF Continues, StartServer, Lifetime
    <2>3. Noted(p)' /\ Halted(p)'
      BY <2>1 DEF Noted, Halted, WatchPcs
    <2> QED
      BY <1>1, <1>3, <1>6, <2>1, <2>2, <2>3, GoesOn DEF LockPcs, LifePcs, WatchPcs
  <1> QED
    BY <1>5, <1>6 DEF StartServer

LEMMA ReadyStep ==
    ASSUME RoundAssumption, RoundInv, NEW p \in Controllers, ServerReady(p)
    PROVE  RoundInv'
  <1>1. pc[p] = "waiting" /\ pc[p] \in LockPcs \ {"arm", "score"} /\ pc[p] \in WatchPcs
    BY DEF ServerReady, LockPcs, LifePcs, WatchPcs
  <1>2. /\ Shape /\ JobShape /\ pc \in [Controllers -> Pcs] /\ Noted(p)
    BY <1>1, HolderFacts
  <1>3. Grown
    BY <1>2, JournalStep DEF HolderMoves
  <1>4. Goto(p, "case") /\ pc'[p] = "case"
    BY <1>2, GotoFrame DEF ServerReady, Pcs
  <1>5. /\ Continues(p) /\ UNCHANGED tainted /\ o(p)' = o(p)
        /\ job'[p].err = job[p].err /\ job'[p].cleanup = job[p].cleanup
        /\ job'[p].tripped = job[p].tripped /\ job'[p].expired = job[p].expired
    BY <1>2 DEF Continues, ServerReady, Lifetime, Shape, JobShape, OthersKept, Quiet, o
  <1>6. Noted(p)' /\ Halted(p)'
    BY <1>1, <1>2, <1>4, <1>5 DEF Noted, Halted, WatchPcs
  <1> QED
    BY <1>1, <1>3, <1>4, <1>5, <1>6, GoesOn DEF LockPcs, LifePcs, WatchPcs

LEMMA StartFailsStep ==
    ASSUME RoundAssumption, RoundInv, NEW p \in Controllers, StartFails(p)
    PROVE  RoundInv'
  <1>1. pc[p] = "waiting" /\ pc[p] \in LockPcs \ {"arm", "score"}
    BY DEF StartFails, LockPcs, LifePcs, WatchPcs
  <1>2. Shape /\ (UNCHANGED tainted \/ Taint(p))
    BY <1>1, HolderFacts DEF StartFails, Quiet
  <1>3. Grown
    BY <1>2, JournalStep DEF HolderMoves
  <1>4. /\ JobShape' /\ OthersKept(p) /\ job'[p].err # "none"
        /\ job'[p].o = job[p].o /\ job'[p].rows = job[p].rows
        /\ Goto(p, "unwatch") /\ pc'[p] = "unwatch"
    BY <1>1, FailsSets DEF StartFails, Pcs
  <1>5. Continues(p)
    BY <1>2, <1>4 DEF Continues, StartFails, Lifetime, Shape
  <1>6. Noted(p)' /\ Halted(p)'
    BY <1>4 DEF Noted, Halted, WatchPcs
  <1> QED
    BY <1>1, <1>2, <1>3, <1>4, <1>5, <1>6, GoesOn DEF LockPcs, LifePcs, WatchPcs

LEMMA ReadyFailsStep ==
    ASSUME RoundAssumption, RoundInv, NEW p \in Controllers, ReadyFails(p)
    PROVE  RoundInv'
  <1>1. pc[p] = "waiting" /\ pc[p] \in LockPcs \ {"arm", "score"}
    BY DEF ReadyFails, LockPcs, LifePcs, WatchPcs
  <1>2. Shape /\ (UNCHANGED tainted \/ Taint(p))
    BY <1>1, HolderFacts DEF ReadyFails, Quiet
  <1>3. Grown
    BY <1>2, JournalStep DEF HolderMoves
  <1>4. /\ JobShape' /\ OthersKept(p) /\ job'[p].err # "none"
        /\ job'[p].o = job[p].o /\ job'[p].rows = job[p].rows
        /\ Goto(p, "interrupt") /\ pc'[p] = "interrupt"
    BY <1>1, FailsSets DEF ReadyFails, Pcs
  <1>5. Continues(p)
    BY <1>2, <1>4 DEF Continues, ReadyFails, Lifetime, Shape
  <1>6. Noted(p)' /\ Halted(p)'
    BY <1>4 DEF Noted, Halted, WatchPcs
  <1> QED
    BY <1>1, <1>2, <1>3, <1>4, <1>5, <1>6, GoesOn DEF LockPcs, LifePcs, WatchPcs

LEMMA AnswerStep ==
    ASSUME RoundAssumption, RoundInv, NEW p \in Controllers, Answer(p)
    PROVE  RoundInv'
  <1>1. pc[p] = "case" /\ pc[p] \in LockPcs \ {"arm", "score"} /\ pc[p] \in WatchPcs
    BY DEF Answer, LockPcs, LifePcs, WatchPcs
  <1>2. /\ Shape /\ JobShape /\ pc \in [Controllers -> Pcs] /\ Noted(p)
    BY <1>1, HolderFacts
  <1>3. Grown
    BY <1>2, JournalStep DEF HolderMoves
  <1>4. PICK where \in {"case", "interrupt"} : Goto(p, where)
    BY DEF Answer
  <1>5. pc'[p] = where
    BY <1>2, <1>4, GotoFrame DEF Pcs
  <1>6. Continues(p) /\ UNCHANGED <<tainted, job>> /\ o(p)' = o(p)
    BY <1>2 DEF Continues, Answer, Lifetime, Shape, JobShape, OthersKept, Quiet, o
  <1>7. Noted(p)' /\ Halted(p)'
    BY <1>1, <1>2, <1>5, <1>6 DEF Noted, Halted, WatchPcs
  <1> QED
    BY <1>1, <1>3, <1>4, <1>6, <1>7, GoesOn DEF LockPcs, LifePcs, WatchPcs

LEMMA CaseFailsStep ==
    ASSUME RoundAssumption, RoundInv, NEW p \in Controllers, CaseFails(p)
    PROVE  RoundInv'
  <1>1. pc[p] = "case" /\ pc[p] \in LockPcs \ {"arm", "score"}
    BY DEF CaseFails, LockPcs, LifePcs, WatchPcs
  <1>2. Shape
    BY <1>1, HolderFacts
  <1>3. Grown
    BY <1>2, JournalStep DEF HolderMoves
  <1>4. /\ JobShape' /\ OthersKept(p) /\ job'[p].err # "none"
        /\ job'[p].o = job[p].o /\ job'[p].rows = job[p].rows
        /\ Goto(p, "interrupt") /\ pc'[p] = "interrupt"
    BY <1>1, FailsSets DEF CaseFails, Pcs
  <1>5. Continues(p) /\ UNCHANGED tainted
    BY <1>2, <1>4 DEF Continues, CaseFails, Lifetime, Shape, Quiet
  <1>6. Noted(p)' /\ Halted(p)'
    BY <1>4 DEF Noted, Halted, WatchPcs
  <1> QED
    BY <1>1, <1>3, <1>4, <1>5, <1>6, GoesOn DEF LockPcs, LifePcs, WatchPcs

LEMMA LastCheckStep ==
    ASSUME RoundAssumption, RoundInv, NEW p \in Controllers, LastCheckFails(p)
    PROVE  RoundInv'
  <1>1. pc[p] = "interrupt" /\ pc[p] \in LockPcs \ {"arm", "score"}
    BY DEF LastCheckFails, LockPcs, LifePcs, WatchPcs
  <1>2. Shape
    BY <1>1, HolderFacts
  <1>3. Grown
    BY <1>2, JournalStep DEF HolderMoves
  <1>4. /\ JobShape' /\ OthersKept(p) /\ job'[p].err # "none"
        /\ job'[p].o = job[p].o /\ job'[p].rows = job[p].rows
        /\ Goto(p, "interrupt") /\ pc'[p] = "interrupt"
    BY <1>1, FailsSets DEF LastCheckFails, Pcs
  <1>5. Continues(p) /\ UNCHANGED tainted
    BY <1>2, <1>4 DEF Continues, LastCheckFails, Lifetime, Shape, Quiet
  <1>6. Noted(p)' /\ Halted(p)'
    BY <1>4 DEF Noted, Halted, WatchPcs
  <1> QED
    BY <1>1, <1>3, <1>4, <1>5, <1>6, GoesOn DEF LockPcs, LifePcs, WatchPcs

\* A cleanup that failed is remembered.
LEMMA CleanupSets ==
    ASSUME RoundAssumption, RoundInv, NEW p \in Controllers, pc[p] \in LockPcs,
           Cleanup(p, TRUE)
    PROVE  /\ JobShape' /\ OthersKept(p) /\ job'[p].cleanup
           /\ job'[p].o = job[p].o /\ job'[p].rows = job[p].rows
           /\ job'[p].err = job[p].err /\ job'[p].watch = job[p].watch
           /\ job'[p].tripped = job[p].tripped /\ job'[p].expired = job[p].expired
  <1>1. JobShape
    BY HolderFacts
  <1>2. job' = [job EXCEPT ![p].cleanup = TRUE]
    BY DEF Cleanup
  <1> QED
    BY <1>1, <1>2, CleanupSet

\* A container that was interrupted, removed or left.
LEMMA ContainerKept ==
    ASSUME Shape, NEW p \in Controllers,
           container' \in {container, None}
           \/ (container # None /\ container' = [container EXCEPT !.runs = FALSE])
    PROVE  container' \in [by : Controllers, o : Lifetimes, runs : BOOLEAN] \cup {None}
  BY DEF Shape

LEMMA InterruptStep ==
    ASSUME RoundAssumption, RoundInv, NEW p \in Controllers, Interrupts(p)
    PROVE  RoundInv'
  <1>1. /\ pc[p] = "interrupt" /\ pc[p] \in LockPcs \ {"arm", "score"}
        /\ pc[p] \in WatchPcs
    BY DEF Interrupts, LockPcs, LifePcs, WatchPcs
  <1>2. /\ Shape /\ JobShape /\ pc \in [Controllers -> Pcs] /\ Noted(p)
    BY <1>1, HolderFacts
  <1>3. Grown
    BY <1>2, JournalStep DEF HolderMoves
  <1>4. Goto(p, "logs") /\ pc'[p] = "logs"
    BY <1>2, GotoFrame DEF Interrupts, Pcs
  <1>5. container' \in [by : Controllers, o : Lifetimes, runs : BOOLEAN] \cup {None}
    BY <1>2, ContainerKept DEF Interrupts, Mine
  <1>6. CASE ~_interrupt_terminal_server(p) /\ UNCHANGED <<job, container, tainted>>
    <2>1. Continues(p) /\ o(p)' = o(p)
      BY <1>2, <1>5, <1>6 DEF Continues, Interrupts, Lifetime, JobShape, OthersKept, o
    <2>2. Noted(p)' /\ Halted(p)'
      BY <1>1, <1>2, <1>4, <1>6, <2>1
      DEF Noted, Halted, WatchPcs, _interrupt_terminal_server
    <2> QED
      BY <1>1, <1>3, <1>4, <1>6, <2>1, <2>2, GoesOn DEF LockPcs, LifePcs, WatchPcs
  <1>7. CASE /\ container' = IF Mine(p) THEN [container EXCEPT !.runs = FALSE]
                             ELSE container
             /\ UNCHANGED <<job, tainted>>
    <2>1. Continues(p) /\ o(p)' = o(p)
      BY <1>2, <1>5, <1>7 DEF Continues, Interrupts, Lifetime, JobShape, OthersKept, o
    <2>2. Noted(p)'
      BY <1>1, <1>2, <1>4, <1>7, <2>1 DEF Noted, WatchPcs
    <2>3. Halted(p)'
      <3>1. CASE Mine(p)
        BY <1>2, <1>7, <3>1 DEF Halted, Mine, Shape
      <3>2. CASE ~Mine(p)
        BY <1>7, <2>1, <3>2 DEF Halted, Mine
      <3> QED
        BY <3>1, <3>2
    <2> QED
      BY <1>1, <1>3, <1>4, <1>7, <2>1, <2>2, <2>3, GoesOn DEF LockPcs, LifePcs, WatchPcs
  <1>8. CASE Taint(p) /\ Cleanup(p, TRUE)
    <2>1. /\ JobShape' /\ OthersKept(p) /\ job'[p].cleanup
          /\ job'[p].o = job[p].o /\ job'[p].rows = job[p].rows
      BY <1>1, <1>8, CleanupSets
    <2>2. Continues(p)
      BY <1>5, <2>1 DEF Continues, Interrupts, Lifetime
    <2>3. Noted(p)' /\ Halted(p)'
      BY <1>4, <2>1 DEF Noted, Halted, WatchPcs
    <2> QED
      BY <1>1, <1>3, <1>4, <1>8, <2>2, <2>3, GoesOn DEF LockPcs, LifePcs, WatchPcs
  <1> QED
    BY <1>6, <1>7, <1>8 DEF Interrupts, Quiet

LEMMA LogsStep ==
    ASSUME RoundAssumption, RoundInv, NEW p \in Controllers, SaveLogs(p)
    PROVE  RoundInv'
  <1>1. pc[p] = "logs" /\ pc[p] \in LockPcs \ {"arm", "score"} /\ pc[p] \in WatchPcs
    BY DEF SaveLogs, LockPcs, LifePcs, WatchPcs
  <1>2. /\ Shape /\ JobShape /\ pc \in [Controllers -> Pcs] /\ Noted(p)
    BY <1>1, HolderFacts
  <1>3. Grown
    BY <1>2, JournalStep DEF HolderMoves
  <1>4. Goto(p, "stop") /\ pc'[p] = "stop"
    BY <1>2, GotoFrame DEF SaveLogs, Pcs
  <1>5. CASE UNCHANGED <<job, tainted>>
    <2>1. Continues(p) /\ o(p)' = o(p)
      BY <1>2, <1>5 DEF Continues, SaveLogs, Lifetime, Shape, JobShape, OthersKept, o
    <2>2. Noted(p)' /\ Halted(p)'
      BY <1>1, <1>2, <1>4, <1>5, <2>1 DEF Noted, Halted, WatchPcs
    <2> QED
      BY <1>1, <1>3, <1>4, <1>5, <2>1, <2>2, GoesOn DEF LockPcs, LifePcs, WatchPcs
  <1>6. CASE Taint(p) /\ Cleanup(p, TRUE)
    <2>1. /\ JobShape' /\ OthersKept(p) /\ job'[p].cleanup
          /\ job'[p].o = job[p].o /\ job'[p].rows = job[p].rows
      BY <1>1, <1>6, CleanupSets
    <2>2. Continues(p)
      BY <1>2, <2>1 DEF Continues, SaveLogs, Lifetime, Shape
    <2>3. Noted(p)' /\ Halted(p)'
      BY <1>4, <2>1 DEF Noted, Halted, WatchPcs
    <2> QED
      BY <1>1, <1>3, <1>4, <1>6, <2>2, <2>3, GoesOn DEF LockPcs, LifePcs, WatchPcs
  <1> QED
    BY <1>5, <1>6 DEF SaveLogs, Quiet

LEMMA StopStep ==
    ASSUME RoundAssumption, RoundInv, NEW p \in Controllers, StopServer(p)
    PROVE  RoundInv'
  <1>1. pc[p] = "stop" /\ pc[p] \in LockPcs \ {"arm", "score"} /\ pc[p] \in WatchPcs
    BY DEF StopServer, LockPcs, LifePcs, WatchPcs
  <1>2. /\ Shape /\ JobShape /\ pc \in [Controllers -> Pcs] /\ Noted(p)
    BY <1>1, HolderFacts
  <1>3. Grown
    BY <1>2, JournalStep DEF HolderMoves
  <1>4. Goto(p, "unwatch") /\ pc'[p] = "unwatch"
    BY <1>2, GotoFrame DEF StopServer, Pcs
  <1>5. container' \in [by : Controllers, o : Lifetimes, runs : BOOLEAN] \cup {None}
    BY <1>2, ContainerKept DEF StopServer
  <1>6. CASE UNCHANGED <<job, tainted>>
    <2>1. Continues(p) /\ o(p)' = o(p)
      BY <1>2, <1>5, <1>6 DEF Continues, StopServer, Lifetime, JobShape, OthersKept, o
    <2>2. Noted(p)' /\ Halted(p)'
      BY <1>1, <1>2, <1>4, <1>6, <2>1 DEF Noted, Halted, WatchPcs
    <2> QED
      BY <1>1, <1>3, <1>4, <1>6, <2>1, <2>2, GoesOn DEF LockPcs, LifePcs, WatchPcs
  <1>7. CASE Taint(p) /\ Cleanup(p, TRUE)
    <2>1. /\ JobShape' /\ OthersKept(p) /\ job'[p].cleanup
          /\ job'[p].o = job[p].o /\ job'[p].rows = job[p].rows
      BY <1>1, <1>7, CleanupSets
    <2>2. Continues(p)
      BY <1>5, <2>1 DEF Continues, StopServer, Lifetime
    <2>3. Noted(p)' /\ Halted(p)'
      BY <1>4, <2>1 DEF Noted, Halted, WatchPcs
    <2> QED
      BY <1>1, <1>3, <1>4, <1>7, <2>2, <2>3, GoesOn DEF LockPcs, LifePcs, WatchPcs
  <1> QED
    BY <1>6, <1>7 DEF StopServer, Quiet

LEMMA UnwatchStep ==
    ASSUME RoundAssumption, RoundInv, NEW p \in Controllers, Unwatch(p)
    PROVE  RoundInv'
  <1>1. pc[p] = "unwatch" /\ pc[p] \in LockPcs \ {"arm", "score"} /\ pc[p] \in WatchPcs
    BY DEF Unwatch, LockPcs, LifePcs, WatchPcs
  <1>2. /\ Shape /\ JobShape /\ pc \in [Controllers -> Pcs] /\ Noted(p)
        /\ job[p].err \in {"none", "safety", "other"}
    BY <1>1, HolderFacts
  <1>3. Grown
    BY <1>2, JournalStep DEF HolderMoves
  <1>4. Goto(p, "lifetime") /\ pc'[p] = "lifetime"
    BY <1>2, GotoFrame DEF Unwatch, Pcs
  <1>5. Verdict(p) \in {"none", "safety", "other"}
    BY <1>2 DEF Verdict
  <1>6. job' = [job EXCEPT ![p].err = Verdict(p), ![p].watch = FALSE]
    BY DEF Unwatch
  <1>7. /\ JobShape' /\ OthersKept(p)
        /\ job'[p].err = Verdict(p) /\ ~job'[p].watch
        /\ job'[p].o = job[p].o /\ job'[p].rows = job[p].rows
        /\ job'[p].expired = job[p].expired
    BY <1>2, <1>5, <1>6, ErrWatchSet
  <1>8. Continues(p) /\ o(p)' = o(p) /\ UNCHANGED tainted
    BY <1>2, <1>7 DEF Continues, Unwatch, Lifetime, Shape, Quiet, o
  <1>9. Noted(p)'
    <2>1. Arm(o(p)) \in tainted =>
            job[p].err # "none" \/ job[p].tripped \/ job[p].expired \/ job[p].cleanup
      BY <1>1, <1>2 DEF Noted
    <2>2. Arm(o(p)) \in tainted => Verdict(p) # "none" \/ job[p].expired
      BY <2>1 DEF Verdict
    <2> QED
      BY <1>4, <1>7, <1>8, <2>2 DEF Noted, WatchPcs
  <1>10. Halted(p)'
    BY <1>4 DEF Halted
  <1> QED
    BY <1>1, <1>3, <1>4, <1>7, <1>8, <1>9, <1>10, GoesOn DEF LockPcs, LifePcs

\* The locals of a lifetime end with it.
LEMMA EndsSets ==
    ASSUME RoundAssumption, JobShape, NEW p \in Controllers, NEW x \in Lifetimes,
           job' = [job EXCEPT ![p] = [Ends(p) EXCEPT !.o = x]]
    PROVE  /\ JobShape' /\ OthersKept(p) /\ job'[p].o = x
           /\ job'[p].rows = job[p].rows /\ ~job'[p].watch /\ job'[p].err = "none"
  <1>1. job \in [Controllers -> Job]
    BY DEF JobShape
  <1>2. PICK r : r = Ends(p)
    OBVIOUS
  <1>3. r \in Job /\ r.rows = job[p].rows /\ ~r.watch /\ r.err = "none"
    BY <1>1, <1>2, NoJobTyped DEF Ends, Job, NoJob, o
  <1>4. PICK s : s = [r EXCEPT !.o = x]
    OBVIOUS
  <1>5. s \in Job /\ s.o = x /\ s.rows = job[p].rows /\ ~s.watch /\ s.err = "none"
    BY <1>3, <1>4 DEF Job
  <1>6. job' = [job EXCEPT ![p] = s]
    BY <1>2, <1>4
  <1>7. job' \in [Controllers -> Job] /\ job'[p] = s
        /\ \A q \in Controllers \ {p} : job'[q] = job[q]
    BY <1>1, <1>5, <1>6
  <1> QED
    BY <1>5, <1>7 DEF JobShape, OthersKept

\* The holder goes on to another lifetime or to the scores.
LEMMA BeyondStep ==
    ASSUME RoundAssumption, RoundInv, NEW p \in Controllers,
           pc[p] \in LockPcs \ {"arm", "score"},
           NEW where \in {"static", "arm", "score"}, Goto(p, where), Grown,
           JobShape', OthersKept(p), ~job'[p].watch, job'[p].o \in Lifetimes,
           UNCHANGED <<child, lock, container, tainted>>,
           where = "arm" => ~Timed(job'[p].o),
           where # "arm" => Arm(job'[p].o) = Arm(o(p)),
           where = "static" => Arm(o(p)) \notin tainted,
           Len(job'[p].rows) = IF where = "score" THEN Arm(job'[p].o)
                               ELSE Arm(job'[p].o) - 1,
           \A a \in 1 .. Len(job'[p].rows) : Admitted(job'[p].rows[a]) => a \notin tainted
    PROVE  RoundInv'
  <1>1. /\ Shape /\ OnFile /\ pc \in [Controllers -> Pcs] /\ child = None /\ lock = p
        /\ arms[Arm(o(p))] # Blank /\ Arm(o(p)) \in Arms /\ Writes(p)
    BY HolderFacts
  <1>2. /\ pc' \in [Controllers -> Pcs] /\ pc'[p] = where
        /\ \A q \in Controllers \ {p} : pc'[q] = pc[q]
    BY <1>1, GotoFrame DEF Pcs
  <1>3. Shape'
    BY <1>1, <1>2 DEF Shape, JobShape, Grown
  <1>4. Only(p)
    BY <1>2 DEF Only, OthersKept
  <1>5. OnFile'
    BY <1>1 DEF OnFile, Grown
  <1>6. o(p)' = job'[p].o
    BY DEF o
  <1>7. Writes(p)'
    BY <1>1, <1>2, <1>6, FirstArm DEF Writes, Grown
  <1>8. Place(p)' /\ Noted(p)' /\ Halted(p)'
    BY <1>2, <1>6 DEF Place, Noted, Halted, WatchPcs
  <1>9. RowsClean(p)'
    BY DEF RowsClean
  <1>10. Own(p)'
    BY <1>7, <1>8, <1>9 DEF Own
  <1> QED
    BY <1>1, <1>3, <1>4, <1>5, <1>10, Alone DEF RoundInv

LEMMA LifetimeStep ==
    ASSUME RoundAssumption, RoundInv, NEW p \in Controllers, LifetimeComplete(p)
    PROVE  RoundInv'
  <1>1. pc[p] = "lifetime" /\ pc[p] \in LockPcs \ {"arm", "score"}
    BY DEF LifetimeComplete, LockPcs, LifePcs
  <1>2. /\ Shape /\ JobShape /\ pc \in [Controllers -> Pcs] /\ Noted(p) /\ ~job[p].watch
        /\ job[p].err \in {"none", "safety", "other"} /\ RowsClean(p) /\ Place(p)
        /\ o(p) \in Lifetimes
    BY <1>1, HolderFacts DEF WatchPcs
  <1>3. Grown
    BY <1>2, JournalStep DEF HolderMoves
  <1>4. ASSUME job[p].err = "none", ~job[p].expired
        PROVE  Arm(o(p)) \notin tainted
    BY <1>1, <1>2, <1>4 DEF Noted
  <1>5. CASE /\ job[p].err = "none" /\ ~job[p].expired /\ Timed(o(p))
             /\ Goto(p, "complete") /\ UNCHANGED <<job, tainted>>
    <2>1. pc'[p] = "complete"
      BY <1>2, <1>5, GotoFrame DEF Pcs
    <2>2. Continues(p) /\ o(p)' = o(p)
      BY <1>2, <1>5 DEF Continues, LifetimeComplete, Lifetime, Shape, JobShape,
                        OthersKept, o
    <2>3. Noted(p)' /\ Halted(p)'
      BY <1>4, <1>5, <2>1, <2>2 DEF Noted, Halted, WatchPcs
    <2> QED
      BY <1>1, <1>2, <1>3, <1>5, <2>2, <2>3, GoesOn DEF LockPcs
  <1>6. CASE /\ job[p].err = "none" /\ ~job[p].expired /\ ~Timed(o(p))
             /\ Goto(p, "static") /\ UNCHANGED tainted
             /\ job' = [job EXCEPT ![p] = [Ends(p) EXCEPT !.o = @ + 1]]
    <2>0. Ends(p).o = o(p)
      BY DEF Ends, NoJob
    <2>1. job' = [job EXCEPT ![p] = [Ends(p) EXCEPT !.o = o(p) + 1]]
      BY <1>6, <2>0
    <2>2. o(p) + 1 \in Lifetimes /\ Arm(o(p) + 1) = Arm(o(p))
      BY <1>2, <1>6, ArmFacts
    <2>3. /\ JobShape' /\ OthersKept(p) /\ job'[p].o = o(p) + 1
          /\ job'[p].rows = job[p].rows /\ ~job'[p].watch
      BY <1>2, <2>1, <2>2, EndsSets
    <2>4. Len(job'[p].rows) = Arm(job'[p].o) - 1
      BY <1>1, <1>2, <2>2, <2>3 DEF Place
    <2>5. UNCHANGED <<child, lock, container, tainted>>
      BY <1>6 DEF LifetimeComplete, Lifetime
    <2>6. \A a \in 1 .. Len(job'[p].rows) : Admitted(job'[p].rows[a]) => a \notin tainted
      BY <1>2, <2>3 DEF RowsClean
    <2> QED
      BY <1>1, <1>3, <1>4, <1>6, <2>2, <2>3, <2>4, <2>5, <2>6, BeyondStep
  <1>7. ASSUME Goto(p, "abort"), UNCHANGED tainted \/ Taint(p),
               NEW e \in {"none", "safety", "other"}, job' = [job EXCEPT ![p].err = e]
        PROVE  RoundInv'
    <2>1. pc'[p] = "abort"
      BY <1>2, <1>7, GotoFrame DEF Pcs
    <2>2. Continues(p) /\ ~job'[p].watch
      BY <1>2, <1>7, ErrSet DEF Continues, LifetimeComplete, Lifetime, Shape
    <2>3. Noted(p)' /\ Halted(p)'
      BY <2>1 DEF Noted, Halted, WatchPcs
    <2> QED
      BY <1>1, <1>3, <1>7, <2>2, <2>3, GoesOn DEF LockPcs
  <1>8. CASE /\ Goto(p, "abort") /\ UNCHANGED tainted
             /\ job' = [job EXCEPT ![p].err = IF @ = "none" THEN "other" ELSE @]
    <2>1. PICK e : e = IF job[p].err = "none" THEN "other" ELSE job[p].err
      OBVIOUS
    <2>2. e \in {"none", "safety", "other"} /\ job' = [job EXCEPT ![p].err = e]
      BY <1>2, <1>8, <2>1
    <2> QED
      BY <1>7, <1>8, <2>2
  <1>9. CASE /\ Goto(p, "abort") /\ Taint(p) /\ job' = [job EXCEPT ![p].err = "other"]
    BY <1>7, <1>9
  <1> QED
    BY <1>5, <1>6, <1>8, <1>9 DEF LifetimeComplete

(***************************************************************************)
(* The end of an arm and of the campaign.                                   *)
(***************************************************************************)

\* The arm's row is added, and p is at lifetime x with its locals cleared.
AddsRow(p, row, x) ==
    \E new, s, t :
        /\ new = Append(job[p].rows, row)
        /\ s = [Ends(p) EXCEPT !.rows = new] /\ t = [s EXCEPT !.o = x]
        /\ job' = [job EXCEPT ![p] = t]

LEMMA RowAdded ==
    ASSUME RoundAssumption, JobShape, NEW p \in Controllers, NEW row \in Row,
           NEW x \in Lifetimes, AddsRow(p, row, x)
    PROVE  /\ JobShape' /\ OthersKept(p) /\ job'[p].o = x /\ ~job'[p].watch
           /\ job'[p].err = "none"
           /\ Len(job'[p].rows) = Len(job[p].rows) + 1 /\ Len(job[p].rows) \in Nat
           /\ job'[p].rows[Len(job[p].rows) + 1] = row
           /\ \A a \in 1 .. Len(job[p].rows) : job'[p].rows[a] = job[p].rows[a]
  <1>0. PICK new, s, t :
          /\ new = Append(job[p].rows, row)
          /\ s = [Ends(p) EXCEPT !.rows = new] /\ t = [s EXCEPT !.o = x]
          /\ job' = [job EXCEPT ![p] = t]
    BY DEF AddsRow
  <1>1. PICK old : old = job[p].rows
    OBVIOUS
  <1>2. old \in Seq(Row)
    BY <1>1 DEF JobShape, Job
  <1>3. /\ new \in Seq(Row) /\ Len(new) = Len(old) + 1 /\ Len(old) \in Nat
        /\ new[Len(old) + 1] = row /\ \A a \in 1 .. Len(old) : new[a] = old[a]
    BY <1>0, <1>1, <1>2
  <1>4. PICK r : r = Ends(p)
    OBVIOUS
  <1>5. r \in Job /\ ~r.watch /\ r.err = "none"
    BY <1>1, <1>2, <1>4, NoJobTyped DEF Ends, Job, NoJob, o, JobShape
  <1>6. s \in Job /\ s.rows = new /\ ~s.watch /\ s.err = "none"
    BY <1>0, <1>3, <1>4, <1>5 DEF Job
  <1>7. t \in Job /\ t.rows = new /\ t.o = x /\ ~t.watch /\ t.err = "none"
    BY <1>0, <1>6 DEF Job
  <1>8. job' \in [Controllers -> Job] /\ job'[p] = t
         /\ \A q \in Controllers \ {p} : job'[q] = job[q]
    BY <1>0, <1>7 DEF JobShape
  <1> QED
    BY <1>1, <1>3, <1>7, <1>8 DEF JobShape, OthersKept

LEMMA Appends ==
    ASSUME NEW p, NEW row, NEW x, NEW new, NEW s, NEW t,
           new = Append(job[p].rows, row), s = [Ends(p) EXCEPT !.rows = new],
           t = [s EXCEPT !.o = x], job' = [job EXCEPT ![p] = t]
    PROVE  AddsRow(p, row, x)
  BY DEF AddsRow

LEMMA RowAppended ==
    ASSUME NEW p \in Controllers, NEW row,
           job' = [job EXCEPT ![p] = [Ends(p) EXCEPT !.rows = Append(@, row)]]
    PROVE  AddsRow(p, row, o(p))
  <1>1. Ends(p).rows = job[p].rows /\ Ends(p).o = o(p)
    BY DEF Ends, NoJob
  <1>2. PICK new : new = Append(job[p].rows, row)
    OBVIOUS
  <1>3. PICK s : s = [Ends(p) EXCEPT !.rows = new]
    OBVIOUS
  <1>4. [s EXCEPT !.o = o(p)] = s
    BY <1>1, <1>3 DEF Ends, NoJob
  <1>5. job' = [job EXCEPT ![p] = s]
    BY <1>1, <1>2, <1>3
  <1>6. PICK t : t = [s EXCEPT !.o = o(p)]
    OBVIOUS
  <1>7. job' = [job EXCEPT ![p] = t]
    BY <1>4, <1>5, <1>6
  <1> QED
    BY <1>2, <1>3, <1>6, <1>7, Appends

LEMMA RowAppendedOn ==
    ASSUME NEW p \in Controllers, NEW row, NEW x,
           x = IF Arm(o(p)) = NArms THEN o(p) ELSE o(p) + 1,
           job' = [job EXCEPT ![p] = [Ends(p) EXCEPT !.rows = Append(@, row),
                                          !.o = IF Arm(o(p)) = NArms THEN @ ELSE @ + 1]]
    PROVE  AddsRow(p, row, x)
  <1>1. Ends(p).rows = job[p].rows /\ Ends(p).o = o(p)
    BY DEF Ends, NoJob
  <1>2. PICK new, s, t : /\ new = Append(job[p].rows, row)
                         /\ s = [Ends(p) EXCEPT !.rows = new]
                         /\ t = [s EXCEPT !.o = x]
    OBVIOUS
  <1>3. [Ends(p) EXCEPT !.rows = Append(@, row),
                        !.o = IF Arm(o(p)) = NArms THEN @ ELSE @ + 1] = t
    BY <1>1, <1>2 DEF Ends, NoJob
  <1>4. job' = [job EXCEPT ![p] = t]
    BY <1>3
  <1> QED
    BY <1>2, <1>4, Appends

\* The rows of an arm that was aborted and of one that was completed.
AbortedRow(p) ==
    [quality |-> Timed(o(p)), timed |-> FALSE, within |-> FALSE,
     turns |-> IF Timed(o(p)) THEN _timed_turn_prefix_from_journal(Arm(o(p))) ELSE <<>>]
CompletedRow(p) ==
    [quality |-> TRUE, timed |-> TRUE, within |-> TRUE, turns |-> TurnsOf(Arm(o(p)))]

LEMMA RowTypes ==
    ASSUME RoundAssumption, Shape, NEW p \in Controllers, Arm(o(p)) \in Arms
    PROVE  AbortedRow(p) \in Row /\ CompletedRow(p) \in Row
  <1>1. PICK t, b, u :
          /\ t = TurnsOf(Arm(o(p))) /\ b = Timed(o(p))
          /\ u = IF b THEN _timed_turn_prefix_from_journal(Arm(o(p))) ELSE <<>>
    OBVIOUS
  <1>2. t \in Seq(BOOLEAN) /\ b \in BOOLEAN
    BY <1>1 DEF Shape, JournalShape, TurnsOf, Kinds, Entry, Attested, Timed
  <1>3. u \in {t, <<>>}
    BY <1>1 DEF _timed_turn_prefix_from_journal
  <1>4. u \in Seq(BOOLEAN)
    <2>1. <<>> \in Seq(BOOLEAN)
      OBVIOUS
    <2> QED
      BY <1>2, <1>3, <2>1
  <1>5. /\ AbortedRow(p) = [quality |-> b, timed |-> FALSE, within |-> FALSE, turns |-> u]
        /\ CompletedRow(p) = [quality |-> TRUE, timed |-> TRUE, within |-> TRUE, turns |-> t]
    BY <1>1 DEF AbortedRow, CompletedRow
  <1> QED
    BY <1>2, <1>4, <1>5 DEF Row

LEMMA AbortStep ==
    ASSUME RoundAssumption, RoundInv, NEW p \in Controllers, ArmAborts(p)
    PROVE  RoundInv'
  <1>1. pc[p] = "abort" /\ pc[p] \in LockPcs \ {"arm", "score"}
    BY DEF ArmAborts, LockPcs
  <1>2. /\ Shape /\ JobShape /\ pc \in [Controllers -> Pcs] /\ RowsClean(p) /\ Place(p)
        /\ o(p) \in Lifetimes /\ Arm(o(p)) \in Nat /\ Arm(o(p)) \in Arms
    BY <1>1, HolderFacts, ArmFacts
  <1>3. Grown
    BY <1>2, JournalStep DEF HolderMoves
  <1>4. CASE Raises(p) /\ UNCHANGED arms
    BY <1>1, <1>4, RaiseStep DEF ArmAborts
  <1>5. ASSUME NEW row \in Row, ~row.timed, Goto(p, "score"), UNCHANGED lock,
               job' = [job EXCEPT ![p] = [Ends(p) EXCEPT !.rows = Append(@, row)]]
        PROVE  RoundInv'
    <2>1. /\ JobShape' /\ OthersKept(p) /\ job'[p].o = o(p) /\ ~job'[p].watch
          /\ Len(job'[p].rows) = Len(job[p].rows) + 1 /\ Len(job[p].rows) \in Nat
          /\ job'[p].rows[Len(job[p].rows) + 1] = row
          /\ \A a \in 1 .. Len(job[p].rows) : job'[p].rows[a] = job[p].rows[a]
      <3>1. AddsRow(p, row, o(p))
        BY <1>5, RowAppended
      <3> QED
        BY <1>2, <3>1, RowAdded
    <2>2. Len(job[p].rows) = Arm(o(p)) - 1
      BY <1>1, <1>2 DEF Place
    <2>3. Len(job'[p].rows) = Arm(o(p))
      BY <1>2, <2>1, <2>2
    <2>4. \A a \in 1 .. Len(job'[p].rows) :
             a \in 1 .. Len(job[p].rows) \/ a = Len(job[p].rows) + 1
      BY <2>1
    <2>5. \A a \in 1 .. Len(job'[p].rows) :
              Admitted(job'[p].rows[a]) => a \notin tainted
      BY <1>2, <1>5, <2>1, <2>4 DEF RowsClean, Admitted
    <2>6. UNCHANGED <<child, lock, container, tainted>>
      BY <1>5 DEF ArmAborts
    <2> QED
      BY <1>1, <1>2, <1>3, <1>5, <2>1, <2>3, <2>5, <2>6, BeyondStep
  <1>6. \/ Raises(p) /\ UNCHANGED arms
        \/ \E row \in Row : /\ ~row.timed /\ Goto(p, "score") /\ UNCHANGED lock
                    /\ job' = [job EXCEPT ![p] = [Ends(p) EXCEPT !.rows = Append(@, row)]]
    BY <1>2, RowTypes DEF ArmAborts, AbortedRow
  <1> QED
    BY <1>4, <1>5, <1>6

LEMMA CompleteStep ==
    ASSUME RoundAssumption, RoundInv, NEW p \in Controllers, ArmCompletes(p)
    PROVE  RoundInv'
  <1>1. pc[p] = "complete" /\ pc[p] \in LockPcs \ {"arm", "score"}
    BY DEF ArmCompletes, LockPcs
  <1>2. /\ Shape /\ JobShape /\ pc \in [Controllers -> Pcs] /\ RowsClean(p) /\ Place(p)
        /\ Arm(o(p)) \notin tainted
        /\ o(p) \in Lifetimes /\ Arm(o(p)) \in Nat /\ Arm(o(p)) \in Arms
    BY <1>1, HolderFacts, ArmFacts DEF Noted
  <1>3. Grown
    BY <1>2, JournalStep DEF HolderMoves
  <1>4. CASE Raises(p) /\ UNCHANGED arms
    BY <1>1, <1>4, RaiseStep DEF ArmCompletes
  <1>5. ASSUME NEW row \in Row, NEW x, NEW where,
               x = IF Arm(o(p)) = NArms THEN o(p) ELSE o(p) + 1,
               where = IF Arm(o(p)) = NArms THEN "score" ELSE "arm",
               Goto(p, where), UNCHANGED lock,
               AddsRow(p, row, x)
        PROVE  RoundInv'
    <2>1. /\ x \in Lifetimes /\ where \in {"arm", "score"}
          /\ where = "arm" => ~Timed(x) /\ Arm(x) = Arm(o(p)) + 1
          /\ where = "score" => Arm(x) = Arm(o(p))
      BY <1>1, <1>2, <1>5, ArmFacts DEF Place
    <2>2. /\ JobShape' /\ OthersKept(p) /\ job'[p].o = x /\ ~job'[p].watch
          /\ Len(job'[p].rows) = Len(job[p].rows) + 1 /\ Len(job[p].rows) \in Nat
          /\ job'[p].rows[Len(job[p].rows) + 1] = row
          /\ \A a \in 1 .. Len(job[p].rows) : job'[p].rows[a] = job[p].rows[a]
      BY <1>2, <1>5, <2>1, RowAdded
    <2>3. Len(job[p].rows) = Arm(o(p)) - 1
      BY <1>1, <1>2 DEF Place
    <2>4. Len(job'[p].rows) = IF where = "score" THEN Arm(x) ELSE Arm(x) - 1
      BY <1>2, <2>1, <2>2, <2>3
    <2>5. \A a \in 1 .. Len(job'[p].rows) :
             a \in 1 .. Len(job[p].rows) \/ a = Len(job[p].rows) + 1
      BY <2>2
    <2>6. Len(job[p].rows) + 1 = Arm(o(p))
      BY <1>2, <2>3
    <2>7. \A a \in 1 .. Len(job'[p].rows) :
              Admitted(job'[p].rows[a]) => a \notin tainted
      BY <1>2, <2>2, <2>5, <2>6 DEF RowsClean
    <2>8. UNCHANGED <<child, lock, container, tainted>>
      BY <1>5 DEF ArmCompletes
    <2> QED
      BY <1>1, <1>3, <1>5, <2>1, <2>2, <2>4, <2>7, <2>8, BeyondStep
  <1>6. ASSUME ~Raises(p) PROVE RoundInv'
    <2>1. PICK row, x, where :
            /\ row = CompletedRow(p)
            /\ x = IF Arm(o(p)) = NArms THEN o(p) ELSE o(p) + 1
            /\ where = IF Arm(o(p)) = NArms THEN "score" ELSE "arm"
      OBVIOUS
    <2>2. /\ Goto(p, where) /\ UNCHANGED lock
          /\ job' = [job EXCEPT ![p] = [Ends(p) EXCEPT !.rows = Append(@, row),
                                          !.o = IF Arm(o(p)) = NArms THEN @ ELSE @ + 1]]
      BY <1>6, <2>1 DEF ArmCompletes, CompletedRow
    <2>3. AddsRow(p, row, x)
      BY <2>1, <2>2, RowAppendedOn
    <2>4. row \in Row
      BY <1>2, <2>1, RowTypes
    <2> QED
      BY <1>5, <2>1, <2>2, <2>3, <2>4
  <1>7. Raises(p) => UNCHANGED arms
    BY <1>2 DEF ArmCompletes, Raises, Goto
  <1> QED
    BY <1>4, <1>6, <1>7

LEMMA ClearSets ==
    ASSUME RoundAssumption, JobShape, NEW p \in Controllers,
           job' = [job EXCEPT ![p] = NoJob]
    PROVE  /\ JobShape' /\ OthersKept(p) /\ ~job'[p].watch
           /\ job'[p].o = 1 /\ Len(job'[p].rows) = 0 /\ job'[p].err = "none"
  <1>1. job \in [Controllers -> Job]
    BY DEF JobShape
  <1>2. NoJob \in Job /\ Len(NoJob.rows) = 0 /\ NoJob.o = 1 /\ ~NoJob.watch
        /\ NoJob.err = "none"
    BY NoJobTyped DEF NoJob
  <1>3. job' \in [Controllers -> Job] /\ job'[p] = NoJob
        /\ \A q \in Controllers \ {p} : job'[q] = job[q]
    BY <1>1, <1>2
  <1> QED
    BY <1>2, <1>3 DEF JobShape, OthersKept

LEMMA ScoreStep ==
    ASSUME RoundAssumption, RoundInv, NEW p \in Controllers, Score(p)
    PROVE  RoundInv'
  <1>1. pc[p] = "score" /\ pc[p] \in LockPcs
    BY DEF Score, LockPcs
  <1>2. /\ Shape /\ JobShape /\ OnFile /\ pc \in [Controllers -> Pcs]
        /\ RowsClean(p) /\ lock = p /\ arms[1] # Blank
    BY <1>1, HolderFacts DEF Writes
  <1>3. CASE Raises(p) /\ UNCHANGED child
    BY <1>1, <1>3, RaiseStep DEF Score
  <1>4. CASE ~(Raises(p) /\ UNCHANGED child)
    <2>1. PICK rows :
            rows = [a \in Arms |-> IF a <= Len(job[p].rows) THEN job[p].rows[a]
                                   ELSE _unstarted_lifetime]
      OBVIOUS
    <2>2. /\ \E d : child' = [rows |-> rows, decision |-> d]
          /\ lock' = None /\ Goto(p, "audit") /\ job' = [job EXCEPT ![p] = NoJob]
          /\ UNCHANGED <<arms, container, tainted>>
      BY <1>4, <2>1 DEF Score
    <2>3. /\ JobShape' /\ OthersKept(p) /\ ~job'[p].watch
      BY <1>2, <2>2, ClearSets
    <2>4. /\ pc' \in [Controllers -> Pcs] /\ pc'[p] = "audit"
          /\ \A q \in Controllers \ {p} : pc'[q] = pc[q]
      BY <1>2, <2>2, GotoFrame DEF Pcs
    <2>5. Shape' /\ Only(p)
      BY <1>2, <2>2, <2>3, <2>4 DEF Shape, JobShape, JournalShape, Only, OthersKept
    <2>6. \A a \in Arms : Admitted(rows[a]) => a \notin tainted
      <3>1. ASSUME NEW a \in Arms, Admitted(rows[a]) PROVE a \notin tainted
        <4>1. a <= Len(job[p].rows)
          BY <2>1, <3>1 DEF Admitted, _unstarted_lifetime
        <4>2. a \in 1 .. Len(job[p].rows)
          <5>1. job \in [Controllers -> Job]
            BY <1>2 DEF JobShape
          <5>2. Len(job[p].rows) \in Nat
            BY <5>1 DEF Job
          <5> QED
            BY <3>1, <4>1, <5>2 DEF Arms, RoundAssumption
        <4> QED
          BY <1>2, <2>1, <3>1, <4>1, <4>2 DEF RowsClean
      <3> QED
        BY <3>1
    <2>7. child'.rows = rows
      BY <2>2
    <2>8. OnFile'
      BY <1>2, <2>2, <2>6, <2>7 DEF OnFile
    <2> QED
      BY <1>2, <2>3, <2>4, <2>5, <2>8, LeaveStep DEF LockPcs, LifePcs, WatchPcs
  <1> QED
    BY <1>3, <1>4

LEMMA LockStep ==
    ASSUME RoundAssumption, RoundInv, NEW p \in Controllers, TakeLock(p)
    PROVE  RoundInv'
  <1>1. pc[p] = "lock" /\ pc[p] \notin LockPcs
    BY DEF TakeLock, LockPcs, LifePcs, WatchPcs
  <1>2. Shape /\ JobShape /\ OnFile /\ UNCHANGED <<arms, child, container, tainted>>
    BY DEF RoundInv, Shape, JobShape, TakeLock, Quiet
  <1>3. CASE /\ lock = None /\ Goto(p, "arm") /\ lock' = p
             /\ job' = [job EXCEPT ![p] = NoJob]
    <2>1. /\ JobShape' /\ OthersKept(p) /\ ~job'[p].watch
          /\ job'[p].o = 1 /\ Len(job'[p].rows) = 0
      BY <1>2, <1>3, ClearSets
    <2>2. /\ pc' \in [Controllers -> Pcs] /\ pc'[p] = "arm"
          /\ \A q \in Controllers \ {p} : pc'[q] = pc[q]
      BY <1>2, <1>3, GotoFrame DEF Pcs, Shape
    <2>3. Shape' /\ Only(p) /\ OnFile'
      BY <1>2, <1>3, <2>1, <2>2 DEF Shape, JobShape, JournalShape, Only, OthersKept, OnFile
    <2>4. o(p)' = 1
      BY <2>1 DEF o
    <2>5. Writes(p)'
      BY <1>3, <2>2, <2>4 DEF Writes
    <2>6. Place(p)'
      BY <2>1, <2>2, <2>4, FirstArm DEF Place
    <2>7. Noted(p)' /\ Halted(p)'
      BY <2>2 DEF Noted, Halted, WatchPcs
    <2>8. RowsClean(p)'
      BY <2>1 DEF RowsClean
    <2>9. Own(p)'
      BY <2>1, <2>5, <2>6, <2>7, <2>8 DEF Own
    <2> QED
      BY <1>3, <2>3, <2>9, Alone DEF RoundInv
  <1>4. CASE Raises(p)
    <2>1. /\ pc' \in [Controllers -> Pcs] /\ JobShape' /\ Only(p)
          /\ pc'[p] = "failure" /\ Releases(p) /\ ~job'[p].watch
          /\ lock' \in Controllers \cup {None}
      BY <1>2, <1>4, RaisesFrame
    <2>2. Shape'
      BY <1>2, <2>1 DEF Shape, JobShape, JournalShape
    <2>3. Outsider(p)
      BY <1>1, <1>2, <2>1 DEF Outsider, LockPcs, LifePcs, WatchPcs
    <2> QED
      BY <2>1, <2>2, <2>3, OutsiderStep
  <1> QED
    BY <1>3, <1>4 DEF TakeLock

LEMMA TripStep ==
    ASSUME RoundAssumption, RoundInv, NEW p \in Controllers, Trip(p)
    PROVE  RoundInv'
  <1>1. pc[p] \in WatchPcs /\ pc[p] \in LockPcs \ {"arm", "score"}
    BY DEF Trip, RoundInv, Own, WatchPcs, LifePcs, LockPcs
  <1>2. /\ Shape /\ JobShape /\ pc \in [Controllers -> Pcs] /\ Noted(p) /\ Halted(p)
        /\ child = None /\ arms[Arm(o(p))] # Blank
    BY <1>1, HolderFacts
  <1>3. UNCHANGED <<files, lock, pc>> /\ Taint(p)
    BY DEF Trip
  <1>4. /\ JobShape' /\ OthersKept(p) /\ job'[p].tripped
        /\ job'[p].o = job[p].o /\ job'[p].rows = job[p].rows
        /\ job'[p].err = job[p].err /\ job'[p].cleanup = job[p].cleanup
    BY <1>2, TrippedSet, TrippedFailedSet DEF Trip
  <1>5. container' \in [by : Controllers, o : Lifetimes, runs : BOOLEAN] \cup {None}
    BY <1>2, ContainerKept DEF Trip, Mine
  <1>6. Noted(p)'
    BY <1>1, <1>3, <1>4 DEF Noted, WatchPcs
  <1>7. Halted(p)'
    <2>1. CASE UNCHANGED container
      BY <1>2, <1>3, <1>4, <2>1 DEF Halted, Mine, o
    <2>2. CASE Mine(p) /\ container' = [container EXCEPT !.runs = FALSE]
      BY <1>2, <2>2 DEF Halted, Mine, Shape
    <2> QED
      BY <2>1, <2>2 DEF Trip
  <1>8. Grown
    BY <1>2, <1>3, NothingLogged DEF files
  <1>9. pc'[p] \in LockPcs \ {"arm", "score"} /\ pc'[p] # "complete" /\ pc'[p] \in WatchPcs
    BY <1>1, <1>3 DEF WatchPcs
  <1>10. arms'[Arm(o(p))] # Blank /\ UNCHANGED <<child, lock>>
         /\ pc' \in [Controllers -> Pcs] /\ \A q \in Controllers \ {p} : pc'[q] = pc[q]
    BY <1>2, <1>3 DEF files
  <1> QED
    BY <1>1, <1>2, <1>3, <1>4, <1>5, <1>6, <1>7, <1>8, <1>9, <1>10, WithinStep

LEMMA ExpireStep ==
    ASSUME RoundAssumption, RoundInv, NEW p \in Controllers, Expire(p)
    PROVE  RoundInv'
  <1>1. pc[p] \in WatchPcs \cup {"lifetime"} /\ pc[p] \in LockPcs \ {"arm", "score"}
    BY DEF Expire, WatchPcs, LifePcs, LockPcs
  <1>2. /\ Shape /\ JobShape /\ pc \in [Controllers -> Pcs] /\ Noted(p) /\ Halted(p)
        /\ child = None /\ arms[Arm(o(p))] # Blank
        /\ job[p].watch => pc[p] \in WatchPcs
    BY <1>1, HolderFacts
  <1>3. UNCHANGED <<files, lock, container, pc>> /\ Taint(p)
    BY DEF Expire
  <1>4. /\ JobShape' /\ OthersKept(p) /\ job'[p].expired
        /\ job'[p].o = job[p].o /\ job'[p].rows = job[p].rows
        /\ job'[p].err = job[p].err /\ job'[p].cleanup = job[p].cleanup
        /\ job'[p].watch = job[p].watch
    BY <1>2, ExpiredSet DEF Expire
  <1>5. container' \in [by : Controllers, o : Lifetimes, runs : BOOLEAN] \cup {None}
    BY <1>2, <1>3 DEF Shape
  <1>6. Noted(p)'
    BY <1>1, <1>3, <1>4 DEF Noted, WatchPcs
  <1>7. Halted(p)'
    BY <1>2, <1>3, <1>4 DEF Halted, Mine, o
  <1>8. Grown
    BY <1>2, <1>3, NothingLogged DEF files
  <1>9. pc'[p] \in LockPcs \ {"arm", "score"} /\ pc'[p] # "complete"
        /\ (job'[p].watch => pc'[p] \in WatchPcs)
    BY <1>1, <1>2, <1>3, <1>4 DEF WatchPcs
  <1>10. arms'[Arm(o(p))] # Blank /\ UNCHANGED <<child, lock>>
         /\ pc' \in [Controllers -> Pcs] /\ \A q \in Controllers \ {p} : pc'[q] = pc[q]
    BY <1>2, <1>3 DEF files
  <1> QED
    BY <1>1, <1>2, <1>3, <1>4, <1>5, <1>6, <1>7, <1>8, <1>9, <1>10, WithinStep

LEMMA CrashStep ==
    ASSUME RoundAssumption, RoundInv, NEW p \in Controllers, Crash(p)
    PROVE  RoundInv'
  <1>1. Shape /\ JobShape /\ OnFile
    BY DEF RoundInv, Shape, JobShape
  <1>2. /\ UNCHANGED <<arms, child, container, tainted>> /\ Goto(p, "dead")
        /\ lock' = IF lock = p THEN None ELSE lock
        /\ job' = [job EXCEPT ![p] = NoJob]
    BY DEF Crash, files
  <1>3. JobShape' /\ OthersKept(p) /\ ~job'[p].watch
    BY <1>1, <1>2, ClearSets
  <1>4. /\ pc' \in [Controllers -> Pcs] /\ pc'[p] = "dead"
        /\ \A q \in Controllers \ {p} : pc'[q] = pc[q]
    BY <1>1, <1>2, GotoFrame DEF Pcs, Shape
  <1>5. Shape' /\ Only(p) /\ OnFile'
    BY <1>1, <1>2, <1>3, <1>4 DEF Shape, JobShape, JournalShape, Only, OthersKept, OnFile
  <1>6. pc'[p] \notin LockPcs
    BY <1>4 DEF LockPcs, LifePcs, WatchPcs
  <1>7. CASE pc[p] \in LockPcs
    BY <1>3, <1>5, <1>6, <1>7, HolderFacts, LeaveStep
  <1>8. CASE pc[p] \notin LockPcs
    <2>1. Outsider(p)
      BY <1>2, <1>3, <1>6, <1>8 DEF Outsider, Releases
    <2> QED
      BY <1>5, <2>1, OutsiderStep
  <1> QED
    BY <1>7, <1>8

(***************************************************************************)
(* The theorems.                                                            *)
(***************************************************************************)

\* Whatever the holder does, once there is a summary it writes nothing.
LEMMA NothingAfterSummary ==
    ASSUME RoundAssumption, RoundInv, NEW p \in Controllers, HolderMoves(p), child # None
    PROVE  UNCHANGED <<child, arms>>
  <1>1. pc[p] \in LockPcs
    BY DEF HolderMoves, ArmBegins, Preflight, Static, StartServer, ServerReady,
           StartFails, ReadyFails, Answer, CaseFails, Interrupts, LastCheckFails, SaveLogs,
           StopServer, Unwatch, LifetimeComplete, ArmAborts, ArmCompletes, Score,
           LockPcs, LifePcs, WatchPcs
  <1>2. pc[p] = "arm" /\ o(p) = 1 /\ arms[1] # Blank
    BY <1>1, HolderFacts DEF Writes, OnFile
  <1>3. ArmBegins(p)
    BY <1>2 DEF HolderMoves, ArmBegins, Preflight, Static, StartServer, ServerReady,
           StartFails, ReadyFails, Answer, CaseFails, Interrupts, LastCheckFails, SaveLogs,
           StopServer, Unwatch, LifetimeComplete, ArmAborts, ArmCompletes, Score
  <1> QED
    BY <1>2, <1>3, FirstArm DEF ArmBegins, ArmFresh, o

LEMMA HolderStep ==
    ASSUME RoundAssumption, RoundInv, NEW p \in Controllers, HolderMoves(p)
    PROVE  RoundInv'
  BY BeginStep, PreflightStep, StaticStep, StartStep, ReadyStep, StartFailsStep,
     ReadyFailsStep, AnswerStep, CaseFailsStep, InterruptStep, LastCheckStep, LogsStep, StopStep,
     UnwatchStep, LifetimeStep, AbortStep, CompleteStep, ScoreStep DEF HolderMoves

LEMMA RoundInitially ==
    ASSUME RoundAssumption, Init
    PROVE  RoundInv
  <1>1. job \in [Controllers -> Job]
    BY NoJobTyped DEF Init
  <1>2. JournalShape
    BY DEF Init, JournalShape, Blank
  <1>3. Shape
    BY <1>1, <1>2 DEF Init, Shape, JobShape, Pcs
  <1>4. OnFile
    BY DEF Init, OnFile
  <1>5. \A q \in Controllers : Own(q)
    BY DEF Init, Own, NoJob, LockPcs, LifePcs, WatchPcs
  <1> QED
    BY <1>3, <1>4, <1>5 DEF RoundInv

\* The steps that may touch the campaign, and those that may not.
LEMMA RoundCases ==
    ASSUME [Next]_vars
    PROVE  \/ UNCHANGED <<arms, child, lock, container, tainted, pc, job>>
           \/ \E p \in Controllers :
                 \/ RoundMoves(p) \/ HolderMoves(p) \/ TakeLock(p) \/ Trip(p)
                 \/ Expire(p) \/ Crash(p)
  BY DEF Next, vars, files, env, freeze_autoresearch_v2, Step, RoundMoves, HolderMoves

LEMMA RoundInductive ==
    ASSUME RoundAssumption, RoundInv, [Next]_vars
    PROVE  RoundInv'
  <1>1. CASE UNCHANGED <<arms, child, lock, container, tainted, pc, job>>
    <2>1. Shape'
      BY <1>1 DEF RoundInv, Shape, JobShape, JournalShape
    <2>2. OnFile'
      BY <1>1 DEF RoundInv, OnFile
    <2>3. \A q \in Controllers : Own(q)'
      BY <1>1 DEF RoundInv, Own, Writes, Place, Noted, RowsClean, Halted, Mine, o
    <2> QED
      BY <2>1, <2>2, <2>3 DEF RoundInv
  <1>2. ASSUME NEW p \in Controllers, RoundMoves(p) PROVE RoundInv'
    BY <1>2, RoundStep, OutsiderStep DEF RoundInv
  <1>3. ASSUME NEW p \in Controllers,
               HolderMoves(p) \/ TakeLock(p) \/ Trip(p) \/ Expire(p) \/ Crash(p)
        PROVE  RoundInv'
    BY <1>3, HolderStep, LockStep, TripStep, ExpireStep, CrashStep
  <1> QED
    BY <1>1, <1>2, <1>3, RoundCases

\* The round and its campaign keep their invariant (bench/autoresearch_v2.py,
\* execute_sm121_cache_performance_campaign of bench/runner.py).
THEOREM RoundInvariant == Spec => []RoundInv
  <1>1. Init => RoundInv
    BY RoundInitially, RoundAssumption
  <1>2. RoundInv /\ [Next]_vars => RoundInv'
    BY RoundInductive, RoundAssumption
  <1> QED
    BY <1>1, <1>2, PTL DEF Spec

\* Whatever number of invocations, arms and turns: an arm that the summary counts
\* had no trip, expiry or failed step, and the server of a failed lifetime does
\* not work while its logs are collected.
THEOREM MeasuredArmsClean == Spec => []MeasuredClean
  <1>1. RoundInv => MeasuredClean
    BY DEF RoundInv, MeasuredClean, OnFile, Own, Halted, LockPcs, LifePcs, WatchPcs
  <1> QED
    BY <1>1, RoundInvariant, PTL

LEMMA OnceStep ==
    ASSUME RoundAssumption, RoundInv, [Next]_vars
    PROVE  /\ child # None => UNCHANGED <<child, arms>>
           /\ NeverAgain
  <1>s. Shape
    BY DEF RoundInv
  <1>1. CASE UNCHANGED <<child, arms>>
    BY <1>1, <1>s, NothingLogged
  <1>2. ASSUME NEW p \in Controllers, RoundMoves(p) PROVE UNCHANGED <<child, arms>>
    BY <1>2, <1>s, RoundStep DEF Outsider
  <1>3. ASSUME NEW p \in Controllers, TakeLock(p) \/ Trip(p) \/ Expire(p) \/ Crash(p)
        PROVE  UNCHANGED <<child, arms>>
    BY <1>3 DEF TakeLock, Trip, Expire, Crash, files
  <1>4. ASSUME NEW p \in Controllers, HolderMoves(p)
        PROVE  (child # None => UNCHANGED <<child, arms>>) /\ NeverAgain
    BY <1>4, <1>s, JournalStep, NothingAfterSummary
  <1> QED
    BY <1>1, <1>2, <1>3, <1>4, RoundCases

\* Whatever invocations overlap, crash or retry: an arm is begun once, and no file
\* of the campaign changes once its summary is there.
THEOREM CampaignRunsOnce == Spec => ChildOnce
  <1>1. RoundInv /\ [Next]_vars =>
          [/\ child # None => UNCHANGED <<child, arms>>
           /\ \A a \in Arms : arms[a] # Blank =>
                 arms'[a].run_start = arms[a].run_start]_vars
    BY OnceStep, RoundAssumption DEF NeverAgain
  <1> QED
    BY <1>1, RoundInvariant, PTL DEF Spec, ChildOnce

(***************************************************************************)
(* The files of a round that nothing else went wrong with.                  *)
(***************************************************************************)

\* The entries of an arm for its lifetimes before lifetime x, and up to it.
Before(x) == IF Timed(x) THEN <<x - 1>> ELSE <<>>
Upto(x) == Append(Before(x), x)
EndedBefore(x) == IF Timed(x) THEN <<<<x - 1, TRUE>>>> ELSE <<>>
EndedUpto(x, ok) == Append(EndedBefore(x), <<x, ok>>)

\* The attested kinds that have an entry for lifetime x, in the journal j.
Has(j, x, kinds) == \A k \in Attested : j[k] = IF k \in kinds THEN Upto(x) ELSE Before(x)

\* In lifetime x the runtime is attested after the static configuration.
Marked(j, x) ==
    /\ \A k \in Attested : j[k] \in {Before(x), Upto(x)}
    /\ j.static = Before(x) => j.runtime = Before(x)
EndedSome(j, x) == j.lifetime \in {EndedBefore(x), EndedUpto(x, TRUE), EndedUpto(x, FALSE)}

\* The arm is begun and not at its end.
Opened(j) ==
    /\ Len(j.run_start) = 1 /\ Len(j.measurement_started) = 1
    /\ j.measurement_complete = <<>> /\ j.run_complete = <<>> /\ j.run_aborted = <<>>

\* Only the last turn may be rejected.
Turned(j, x) ==
    /\ Len(j.turn) <= NTurns /\ \A i \in 1 .. Len(j.turn) - 1 : j.turn[i]
    /\ ~Timed(x) => j.turn = <<>>
AllTurns(j) == Len(j.turn) = NTurns /\ \A i \in 1 .. NTurns : j.turn[i]

Underway(j, x) == Marked(j, x) /\ EndedSome(j, x) /\ Opened(j) /\ Turned(j, x)

FreshPcs == {"preflight", "static"}
AskedPcs == {"starting", "waiting"}
ClosingPcs == {"interrupt", "logs", "stop"}
Running == {"static", "runtime", "ready", "case_start"}

\* The attested kinds that a lifetime which failed has reached before its stop.
Partial == {{"static"}, {"static", "runtime"}, {"static", "runtime", "ready"}, Running}

\* How far the journal j of its current arm is when the campaign of q is where it is.
Reached(q, j, x) ==
    LET ok == job[q].err = "none" IN
    /\ pc[q] \in FreshPcs \cup AskedPcs \cup {"case"} => ok
    /\ pc[q] = "preflight" => ~Timed(x)
    /\ pc[q] \in LifePcs \cup {"preflight"} => j.lifetime = EndedBefore(x)
    /\ pc[q] \in FreshPcs => Has(j, x, {}) /\ j.turn = <<>>
    /\ pc[q] \in AskedPcs => Has(j, x, {"static"}) /\ j.turn = <<>>
    /\ pc[q] = "case" =>
          /\ Has(j, x, Running)
          /\ Len(j.turn) < NTurns /\ \A i \in 1 .. Len(j.turn) : j.turn[i]
    /\ pc[q] \in ClosingPcs =>
          \/ Has(j, x, Running \cup {"case_complete"})
          \/ ~ok /\ \E kinds \in Partial : Has(j, x, kinds)
    /\ pc[q] = "unwatch" /\ ok /\ ~job[q].cleanup => Has(j, x, Attested)
    /\ pc[q] = "lifetime" /\ ok => Has(j, x, Attested)
    /\ pc[q] \in ClosingPcs \cup {"unwatch", "lifetime"} /\ ok /\ Timed(x) => AllTurns(j)
    /\ pc[q] = "complete" =>
          Has(j, x, Attested) /\ j.lifetime = EndedUpto(x, TRUE) /\ AllTurns(j)

\* The row of an arm that was admitted, or of the one the campaign failed in, is
\* borne out by the arm's journal.
Good(a, row) ==
    /\ Admitted(row) /\ row.turns = TurnsOf(a)
    /\ AllTurns(arms[a]) /\ completed_lifecycle(a) /\ quality_attestation(a)
Bad(a, row) ==
    /\ ~row.timed /\ ~row.within /\ row.turns = TurnsOf(a)
    /\ Len(row.turns) <= NTurns /\ \A i \in 1 .. Len(row.turns) - 1 : row.turns[i]
    /\ ~row.quality => row.turns = <<>>
    /\ row.quality => quality_attestation(a)
    /\ PrefixOf(arms[a].static, Both(a)) /\ PrefixOf(arms[a].runtime, arms[a].static)

\* The rows so far are borne out, and the arms to come are blank.
Course(q) ==
    /\ \A a \in 1 .. Len(job[q].rows) :
          \/ Good(a, job[q].rows[a])
          \/ pc[q] = "score" /\ a = Len(job[q].rows) /\ Bad(a, job[q].rows[a])
    /\ \A a \in Arms : a > Len(job[q].rows) =>
          arms[a] = Blank \/ (pc[q] \notin {"arm", "score"} /\ a = Arm(o(q)))
    /\ pc[q] = "score" /\ Len(job[q].rows) # NArms =>
          Bad(Len(job[q].rows), job[q].rows[Len(job[q].rows)])
    /\ pc[q] = "arm" => job[q].err = "none"
    /\ pc[q] \notin {"arm", "score"} =>
          Underway(arms[Arm(o(q))], o(q)) /\ Reached(q, arms[Arm(o(q))], o(q))

Untouched == child = None /\ \A a \in Arms : arms[a] = Blank
Borne == child \in ChildSummary /\ _validate_sm121_cache_performance_source = "terminal"
Opening == <<<<"started">>>>

\* The events of a round that was scored.
ScoredEvents == Append(Opening, <<"scored", _summary_payload(TRUE)>>)
CompleteEvents == Append(ScoredEvents, <<"complete", _summary_payload(TRUE)>>)

AuditPcs == {"audit", "project", "scored", "completed", "summary"}
LastPcs == {"receipt", "completed", "summary", "done"}

\* What the files say while the only invocation there was is where it is.
Path(q) ==
    /\ pc[q] # "dead"
    /\ pc[q] # "done" => summary = None
    /\ pc[q] = "started" => events = <<>>
    /\ pc[q] \notin LastPcs \cup {"started"} => events = Opening
    /\ pc[q] \in {"started", "enter", "lock"} => Untouched
    /\ pc[q] \in LockPcs => child = None /\ Course(q)
    /\ pc[q] \in AuditPcs => Borne
    /\ pc[q] \in AuditPcs \ {"audit"} => job[q].audit = TRUE
    /\ pc[q] = "completed" => events = ScoredEvents
    /\ pc[q] = "summary" => events = CompleteEvents
    /\ pc[q] \in {"failure", "receipt"} =>
          /\ _validate_failure_child_source(q)
          /\ job[q].stage # "child_execution" => child # None
    /\ pc[q] = "receipt" => events = Append(Opening, <<"failed", job[q].stage>>)
    /\ pc[q] = "done" => _validate_autoresearch_v2_source_topology

\* If nothing else went wrong there was at most one invocation.
Sole(q) == plan = 4 /\ \A r \in Controllers \ {q} : pc[r] = "idle"
Unblamed ==
    blame = {} =>
        /\ (\A q \in Controllers : pc[q] = "idle") =>
              events = <<>> /\ summary = None /\ Untouched
        /\ \A q \in Controllers : pc[q] # "idle" => Sole(q) /\ Path(q)

(***************************************************************************)
(* Short sequences and what a journal says of two lifetimes.                *)
(***************************************************************************)

LEMMA OneEntry == ASSUME NEW x PROVE Append(<<>>, x) = <<x>>
  OBVIOUS

LEMMA OneLong == ASSUME NEW x PROVE Len(Append(<<>>, x)) = 1
  BY OneEntry

LEMMA TwoEntries == ASSUME NEW x, NEW y PROVE Append(<<x>>, y) = <<x, y>>
  <1>1. PICK S : S = {x, y}
    OBVIOUS
  <1>2. <<x>> \in Seq(S) /\ <<x, y>> \in Seq(S) /\ y \in S
    BY <1>1
  <1>3. PICK s, t : s = Append(<<x>>, y) /\ t = <<x, y>>
    OBVIOUS
  <1>4. /\ s \in Seq(S) /\ t \in Seq(S) /\ Len(s) = 2 /\ Len(t) = 2
        /\ s[1] = x /\ s[2] = y /\ t[1] = x /\ t[2] = y
    BY <1>2, <1>3, AppendProperties
  <1>5. \A i \in 1 .. Len(s) : s[i] = t[i]
    BY <1>4
  <1>6. s = t
    BY <1>4, <1>5, SeqEqual
  <1> QED
    BY <1>3, <1>6

LEMMA ThreeEntries == ASSUME NEW x, NEW y, NEW z PROVE Append(<<x, y>>, z) = <<x, y, z>>
  <1>1. PICK S : S = {x, y, z}
    OBVIOUS
  <1>2. <<x, y>> \in Seq(S) /\ <<x, y, z>> \in Seq(S) /\ z \in S
    BY <1>1
  <1>3. PICK s, t : s = Append(<<x, y>>, z) /\ t = <<x, y, z>>
    OBVIOUS
  <1>4. /\ s \in Seq(S) /\ t \in Seq(S) /\ Len(s) = 3 /\ Len(t) = 3
        /\ s[1] = x /\ s[2] = y /\ s[3] = z /\ t[1] = x /\ t[2] = y /\ t[3] = z
    BY <1>2, <1>3, AppendProperties
  <1>5. \A i \in 1 .. Len(s) : s[i] = t[i]
    BY <1>4
  <1>6. s = t
    BY <1>4, <1>5, SeqEqual
  <1> QED
    BY <1>3, <1>6

LEMMA QualityEntries ==
    ASSUME NEW x, ~Timed(x)
    PROVE  /\ Before(x) = <<>> /\ Upto(x) = <<x>>
           /\ EndedBefore(x) = <<>> /\ EndedUpto(x, TRUE) = <<<<x, TRUE>>>>
  BY OneEntry DEF Before, Upto, EndedBefore, EndedUpto

LEMMA TimedEntries ==
    ASSUME NEW x, Timed(x)
    PROVE  /\ Before(x) = <<x - 1>> /\ Upto(x) = <<x - 1, x>>
           /\ EndedBefore(x) = <<<<x - 1, TRUE>>>>
           /\ \A ok : EndedUpto(x, ok) = <<<<x - 1, TRUE>>, <<x, ok>>>>
  BY TwoEntries DEF Before, Upto, EndedBefore, EndedUpto

\* The timed lifetime starts where the quality lifetime ended.
LEMMA NextLifetime ==
    ASSUME RoundAssumption, NEW x \in Lifetimes, ~Timed(x)
    PROVE  Before(x + 1) = Upto(x) /\ EndedBefore(x + 1) = EndedUpto(x, TRUE)
  <1>1. Timed(x + 1) /\ (x + 1) - 1 = x
    BY ArmFacts DEF Lifetimes, RoundAssumption
  <1> QED
    BY <1>1, QualityEntries DEF Before, EndedBefore

LEMMA NotYet ==
    ASSUME NEW x
    PROVE  Before(x) # Upto(x)
  <1>1. CASE ~Timed(x)
    <2>1. <<>> # <<x>>
      OBVIOUS
    <2> QED
      BY <1>1, <2>1, QualityEntries
  <1>2. CASE Timed(x)
    <2>1. <<x - 1>> # <<x - 1, x>>
      OBVIOUS
    <2> QED
      BY <1>2, <2>1, TimedEntries
  <1> QED
    BY <1>1, <1>2

LEMMA ArmOf ==
    ASSUME RoundAssumption, NEW x \in Lifetimes
    PROVE  /\ Timed(x) => 2 * Arm(x) = x /\ 2 * Arm(x) - 1 = x - 1 /\ Both(Arm(x)) = <<x - 1, x>>
           /\ ~Timed(x) => 2 * Arm(x) - 1 = x /\ Both(Arm(x)) = <<x, x + 1>>
  <1>1. x \in Nat
    BY DEF Lifetimes, RoundAssumption
  <1>2. Timed(x) => 2 * Arm(x) = x
    BY <1>1 DEF Timed, Arm
  <1>3. ~Timed(x) => 2 * Arm(x) = x + 1
    BY <1>1 DEF Timed, Arm
  <1> QED
    BY <1>1, <1>2, <1>3 DEF Both

\* An event of each of some kinds is added to the attested ones.
LEMMA HasMore ==
    ASSUME NEW i, NEW j, NEW x, NEW old, NEW added, Has(i, x, old),
           \A k \in Attested : k \in added => k \notin old /\ j[k] = Append(i[k], x),
           \A k \in Attested : k \notin added => j[k] = i[k]
    PROVE  Has(j, x, old \cup added)
  BY DEF Has, Upto

LEMMA HasMarked ==
    ASSUME NEW j, NEW x, NEW kinds, Has(j, x, kinds), "runtime" \in kinds => "static" \in kinds
    PROVE  Marked(j, x)
  <1>1. "runtime" \in Attested /\ "static" \in Attested
    BY DEF Attested
  <1>2. \A k \in Attested : j[k] \in {Before(x), Upto(x)}
    BY DEF Has
  <1>3. "static" \in kinds \/ j["runtime"] = Before(x)
    BY <1>1 DEF Has
  <1>4. "static" \in kinds => j["static"] # Before(x)
    BY <1>1, NotYet DEF Has
  <1> QED
    BY <1>2, <1>3, <1>4 DEF Marked

(***************************************************************************)
(* What the source validator makes of a journal.                            *)
(***************************************************************************)

\* quality_attestation, of any journal.
QualityOf(j, q) ==
    /\ \A k \in {"ready", "stopped", "case_start", "case_complete"} :
          \E i \in DOMAIN j[k] : {m \in DOMAIN j[k] : j[k][m] = q} = {i}
    /\ \E i \in DOMAIN j.lifetime :
          {m \in DOMAIN j.lifetime : j.lifetime[m][1] = q} = {i} /\ j.lifetime[i][2]

\* Only the first entry is about the quality lifetime.
LEMMA FirstOnly ==
    ASSUME NEW x \in Nat, NEW s \in {<<x - 1>>, <<x - 1, x>>}
    PROVE  \E i \in DOMAIN s : {m \in DOMAIN s : s[m] = x - 1} = {i}
  <1>1. x # x - 1
    OBVIOUS
  <1>2. 1 \in DOMAIN s /\ {m \in DOMAIN s : s[m] = x - 1} = {1}
    BY <1>1
  <1> QED
    BY <1>2

LEMMA FirstEnded ==
    ASSUME NEW q, NEW e, NEW f, e[1] = q, e[2] = TRUE, f[1] # q,
           NEW s \in {<<e>>, <<e, f>>}
    PROVE  \E i \in DOMAIN s : {m \in DOMAIN s : s[m][1] = q} = {i} /\ s[i][2]
  <1>1. 1 \in DOMAIN s /\ s[1] = e
    OBVIOUS
  <1>2. \A m \in DOMAIN s : m # 1 => s[m] = f
    OBVIOUS
  <1>3. {m \in DOMAIN s : s[m][1] = q} = {1} /\ s[1][2]
    BY <1>1, <1>2
  <1> QED
    BY <1>1, <1>3

LEMMA QualityBorne ==
    ASSUME NEW x \in Nat, Timed(x), NEW j, Marked(j, x), EndedSome(j, x)
    PROVE  QualityOf(j, x - 1)
  <1>1. \A k \in {"ready", "stopped", "case_start", "case_complete"} :
           j[k] \in {<<x - 1>>, <<x - 1, x>>}
    BY TimedEntries DEF Marked, Attested
  <1>2. PICK e, f, g : e = <<x - 1, TRUE>> /\ f = <<x, TRUE>> /\ g = <<x, FALSE>>
    OBVIOUS
  <1>3. e[1] = x - 1 /\ e[2] = TRUE /\ f[1] # x - 1 /\ g[1] # x - 1
    BY <1>2
  <1>4. j.lifetime \in {<<e>>, <<e, f>>} \/ j.lifetime \in {<<e>>, <<e, g>>}
    BY <1>2, TimedEntries DEF EndedSome
  <1>5. \E i \in DOMAIN j.lifetime :
           {m \in DOMAIN j.lifetime : j.lifetime[m][1] = x - 1} = {i} /\ j.lifetime[i][2]
    BY <1>3, <1>4, FirstEnded
  <1> QED
    BY <1>1, <1>5, FirstOnly DEF QualityOf

\* The attestations of an arm in lifetime x are in their order.
LEMMA InOrder ==
    ASSUME RoundAssumption, NEW x \in Lifetimes, NEW j, Marked(j, x)
    PROVE  PrefixOf(j.static, Both(Arm(x))) /\ PrefixOf(j.runtime, j.static)
  <1>1. /\ j.static \in {Before(x), Upto(x)} /\ j.runtime \in {Before(x), Upto(x)}
        /\ j.static = Before(x) => j.runtime = Before(x)
    BY DEF Marked, Attested
  <1>2. PICK b, u : b = Before(x) /\ u = Upto(x)
    OBVIOUS
  <1>3. CASE Timed(x)
    <2>1. b = <<x - 1>> /\ u = <<x - 1, x>> /\ Both(Arm(x)) = <<x - 1, x>>
      BY <1>2, <1>3, TimedEntries, ArmOf
    <2>2. PrefixOf(b, u) /\ PrefixOf(b, b) /\ PrefixOf(u, u)
      BY <2>1 DEF PrefixOf
    <2> QED
      BY <1>1, <1>2, <2>1, <2>2
  <1>4. CASE ~Timed(x)
    <2>1. b = <<>> /\ u = <<x>> /\ Both(Arm(x)) = <<x, x + 1>>
      BY <1>2, <1>4, QualityEntries, ArmOf
    <2>2. /\ PrefixOf(b, u) /\ PrefixOf(b, b) /\ PrefixOf(u, u)
          /\ PrefixOf(b, <<x, x + 1>>) /\ PrefixOf(u, <<x, x + 1>>)
      BY <2>1 DEF PrefixOf
    <2> QED
      BY <1>1, <1>2, <2>1, <2>2
  <1> QED
    BY <1>3, <1>4

\* The journal of an arm that the campaign failed in bears out its row.
LEMMA FailedJournal ==
    ASSUME RoundAssumption, NEW x \in Lifetimes, NEW j,
           Marked(j, x), EndedSome(j, x)
    PROVE  /\ Timed(x) => QualityOf(j, 2 * Arm(x) - 1)
           /\ PrefixOf(j.static, Both(Arm(x))) /\ PrefixOf(j.runtime, j.static)
  <1>1. x \in Nat
    BY DEF Lifetimes, RoundAssumption
  <1>2. ASSUME Timed(x) PROVE QualityOf(j, 2 * Arm(x) - 1)
    BY <1>1, <1>2, QualityBorne, ArmOf
  <1> QED
    BY <1>2, InOrder

\* And so does that of an arm that was completed.
LEMMA CompletedJournal ==
    ASSUME RoundAssumption, NEW x \in Lifetimes, Timed(x), NEW a, a = Arm(x), NEW j,
           Has(j, x, Attested), j.lifetime = EndedUpto(x, TRUE)
    PROVE  /\ \A k \in Attested : j[k] = Both(a)
           /\ j.lifetime = <<<<2 * a - 1, TRUE>>, <<2 * a, TRUE>>>>
           /\ QualityOf(j, 2 * a - 1)
  <1>1. x \in Nat /\ 2 * a = x /\ 2 * a - 1 = x - 1 /\ Both(a) = <<x - 1, x>>
    BY ArmOf DEF Lifetimes, RoundAssumption
  <1>2. \A k \in Attested : j[k] = Both(a)
    BY <1>1, TimedEntries DEF Has
  <1>3. j.lifetime = <<<<2 * a - 1, TRUE>>, <<2 * a, TRUE>>>>
    BY <1>1, TimedEntries, ZenonT(60)
  <1>4. QualityOf(j, 2 * a - 1)
    <2>1. Marked(j, x)
      BY HasMarked DEF Attested
    <2> QED
      BY <1>1, <2>1, QualityBorne DEF EndedSome
  <1> QED
    BY <1>2, <1>3, <1>4

(***************************************************************************)
(* What steps leave as it is.                                               *)
(***************************************************************************)

LEMMA GoodKept ==
    ASSUME NEW a, arms'[a] = arms[a], NEW row
    PROVE  Good(a, row)' <=> Good(a, row)
  BY DEF Good, TurnsOf, completed_lifecycle, quality_attestation

LEMMA BadKept ==
    ASSUME NEW a, arms'[a] = arms[a], NEW row
    PROVE  Bad(a, row)' <=> Bad(a, row)
  BY DEF Bad, TurnsOf, quality_attestation

LEMMA TopologyKept ==
    ASSUME UNCHANGED arms, NEW a, NEW row
    PROVE  /\ TurnsOf(a)' = TurnsOf(a)
           /\ quality_attestation(a)' <=> quality_attestation(a)
           /\ completed_lifecycle(a)' <=> completed_lifecycle(a)
           /\ attestation_topology(a, row)' <=> attestation_topology(a, row)
  BY DEF TurnsOf, completed_lifecycle, quality_attestation, attestation_topology

LEMMA SourceKept ==
    ASSUME UNCHANGED <<child, arms>>
    PROVE  _validate_sm121_cache_performance_source'
             = _validate_sm121_cache_performance_source
  BY DEF _validate_sm121_cache_performance_source, TurnsOf, completed_lifecycle,
         quality_attestation, attestation_topology

LEMMA SummaryKept ==
    ASSUME UNCHANGED child, NEW b
    PROVE  _summary_payload(b)' = _summary_payload(b)
  BY DEF _summary_payload, _decision_from_child

\* Events go into the journal of arm a in its lifetime x, all but a turn and an
\* interrupt that failed attested; old are the attested ones before.
Goes(a, x, old, new) ==
    /\ a \in Arms /\ Underway(arms[a], x) /\ Has(arms[a], x, old) /\ Log(a, new)
    /\ DOMAIN new \subseteq Attested \cup {"turn", "interrupt_failed"}
    /\ \A k \in DOMAIN new : k \in Attested => k \notin old /\ new[k] = x
    /\ "runtime" \in old \cup DOMAIN new => "static" \in old \cup DOMAIN new

LEMMA JournalGoes ==
    ASSUME Shape, NEW a, NEW x, NEW new, NEW old, Goes(a, x, old, new)
    PROVE  /\ \A b \in Arms : b # a => arms'[b] = arms[b]
           /\ Has(arms'[a], x, old \cup DOMAIN new)
           /\ Marked(arms'[a], x) /\ EndedSome(arms'[a], x) /\ Opened(arms'[a])
           /\ arms'[a].lifetime = arms[a].lifetime
           /\ "turn" \in DOMAIN new => arms'[a].turn = Append(arms[a].turn, new["turn"])
           /\ "turn" \notin DOMAIN new => arms'[a].turn = arms[a].turn
  <1>1. /\ \A b \in Arms \ {a} : arms'[b] = arms[b]
        /\ \A k \in Kinds : k \in DOMAIN new => arms'[a][k] = Append(arms[a][k], new[k])
        /\ \A k \in Kinds : k \notin DOMAIN new => arms'[a][k] = arms[a][k]
    BY LogSets DEF Shape, JournalShape, Goes
  <1>2. Attested \subseteq Kinds
    BY DEF Kinds
  <1>3. /\ \A k \in Attested : k \in DOMAIN new =>
               k \notin old /\ arms'[a][k] = Append(arms[a][k], x)
        /\ \A k \in Attested : k \notin DOMAIN new => arms'[a][k] = arms[a][k]
    BY <1>1, <1>2 DEF Goes
  <1>4. Has(arms'[a], x, old \cup DOMAIN new)
    BY <1>3, HasMore DEF Goes
  <1>5. Marked(arms'[a], x)
    BY <1>4, HasMarked DEF Goes
  <1>6. \A k \in {"lifetime", "run_start", "measurement_started", "measurement_complete",
                  "run_complete", "run_aborted"} : arms'[a][k] = arms[a][k]
    BY <1>1 DEF Goes, Kinds, Attested
  <1>7. EndedSome(arms'[a], x) /\ Opened(arms'[a]) /\ arms'[a].lifetime = arms[a].lifetime
    BY <1>6 DEF Goes, Underway, EndedSome, Opened
  <1>8. "turn" \in Kinds
    BY DEF Kinds
  <1> QED
    BY <1>1, <1>4, <1>5, <1>7, <1>8

\* A campaign goes on within an arm.
LEMMA PathAlong ==
    ASSUME RoundAssumption, RoundInv, NEW p \in Controllers, Path(p),
           pc[p] \in LockPcs \ {"score"}, pc'[p] \in LockPcs \ {"arm", "score"},
           Arm(o(p))' = Arm(o(p)), job'[p].rows = job[p].rows,
           \A b \in Arms : b # Arm(o(p)) => arms'[b] = arms[b],
           UNCHANGED <<events, summary, child>>,
           Underway(arms[Arm(o(p))], o(p))', Reached(p, arms[Arm(o(p))], o(p))'
    PROVE  Path(p)'
  <1> USE DEF LockPcs, LifePcs, WatchPcs
  <1>1. /\ o(p) \in Lifetimes /\ Arm(o(p)) \in Arms /\ Place(p) /\ Shape
    BY HolderFacts
  <1>2. Len(job[p].rows) = Arm(o(p)) - 1 /\ Arm(o(p)) \in Nat
    BY <1>1, ArmFacts DEF Place
  <1>3. PICK n : n = Len(job[p].rows)
    OBVIOUS
  <1>4. n + 1 = Arm(o(p)) /\ n \in Nat
    BY <1>1, <1>2, <1>3 DEF Arms, RoundAssumption
  <1>5. \A a \in 1 .. n : a \in Arms /\ a # Arm(o(p))
    BY <1>1, <1>4 DEF Arms, RoundAssumption
  <1>6. summary = None /\ events = Opening /\ child = None /\ Course(p)
    BY DEF Path, LastPcs
  <1>7. Arm(o(p))' = Arm(o(p)) /\ job'[p].rows = job[p].rows
    OBVIOUS
  <1>8. \A a \in 1 .. n : Good(a, job[p].rows[a])
    BY <1>3, <1>6 DEF Course
  <1>9. \A a \in 1 .. n : Good(a, job[p].rows[a])'
    <2>1. TAKE a \in 1 .. n
    <2>2. arms'[a] = arms[a] /\ Good(a, job[p].rows[a])
      BY <1>5, <1>8
    <2>3. PICK row : row = job[p].rows[a]
      OBVIOUS
    <2>4. Good(a, row)'
      BY <2>2, <2>3, GoodKept
    <2> QED
      BY <1>7, <2>3, <2>4 DEF Good
  <1>10. \A a \in Arms : a > n => arms'[a] = Blank \/ a = Arm(o(p))
    BY <1>3, <1>6 DEF Course
  <1>11. Course(p)'
    BY <1>3, <1>7, <1>9, <1>10 DEF Course
  <1> QED
    BY <1>6, <1>11 DEF Path, AuditPcs

LEMMA PathWithin ==
    ASSUME RoundAssumption, RoundInv, NEW p \in Controllers, Path(p),
           pc[p] \in LockPcs \ {"arm", "score"}, pc'[p] \in LockPcs \ {"arm", "score"},
           job'[p].o = job[p].o, job'[p].rows = job[p].rows,
           \A b \in Arms : b # Arm(o(p)) => arms'[b] = arms[b],
           UNCHANGED <<events, summary, child>>,
           Underway(arms[Arm(o(p))], o(p))', Reached(p, arms[Arm(o(p))], o(p))'
    PROVE  Path(p)'
  <1>1. Arm(o(p))' = Arm(o(p))
    BY DEF o
  <1> QED
    BY <1>1, PathAlong

(***************************************************************************)
(* The files along an arm.                                                  *)
(***************************************************************************)

\* What is known of the campaign within an arm.
LEMMA ArmUnderway ==
    ASSUME RoundAssumption, RoundInv, NEW p \in Controllers, Path(p),
           pc[p] \in LockPcs \ {"arm", "score"}
    PROVE  /\ Shape /\ JobShape /\ pc \in [Controllers -> Pcs]
           /\ o(p) \in Lifetimes /\ Arm(o(p)) \in Arms
           /\ job[p].err \in {"none", "safety", "other"} /\ job[p].cleanup \in BOOLEAN
           /\ Underway(arms[Arm(o(p))], o(p)) /\ Reached(p, arms[Arm(o(p))], o(p))
  <1>1. Course(p)
    BY DEF Path
  <1> QED
    BY <1>1, HolderFacts DEF Course

\* A step of which the journals show nothing.
LEMMA PathQuiet ==
    ASSUME RoundAssumption, RoundInv, NEW p \in Controllers, Path(p),
           pc[p] \in LockPcs \ {"arm", "score"}, pc'[p] \in LockPcs \ {"arm", "score"},
           job'[p].o = job[p].o, job'[p].rows = job[p].rows,
           UNCHANGED <<arms, events, summary, child>>,
           Reached(p, arms[Arm(o(p))], o(p))'
    PROVE  Path(p)'
  <1>1. o(p)' = o(p)
    BY DEF o
  <1>2. Underway(arms[Arm(o(p))], o(p))'
    BY <1>1, ArmUnderway
  <1> QED
    BY <1>2, PathWithin

\* A lifetime that fails before anything more is logged, in the journal too.
LEMMA FailsPath ==
    ASSUME RoundAssumption, RoundInv, NEW p \in Controllers, Path(p),
           pc[p] \in {"static", "starting", "waiting"}, Fails(p, "unwatch"),
           UNCHANGED <<arms, events, summary, child>>
    PROVE  Path(p)'
  <1> USE DEF LockPcs, LifePcs, WatchPcs
  <1>1. /\ job'[p].err # "none" /\ job'[p].o = job[p].o /\ job'[p].rows = job[p].rows
        /\ pc'[p] = "unwatch"
    BY FailsSets DEF Pcs
  <1>2. Reached(p, arms[Arm(o(p))], o(p))
    BY ArmUnderway
  <1>3. Reached(p, arms[Arm(o(p))], o(p))'
    BY <1>1, <1>2 DEF Reached, o, FreshPcs, AskedPcs, ClosingPcs
  <1> QED
    BY <1>1, <1>3, PathQuiet

LEMMA PreflightPath ==
    ASSUME RoundAssumption, RoundInv, NEW p \in Controllers, Path(p), Preflight(p)
    PROVE  Path(p)'
  <1> USE DEF LockPcs, LifePcs, WatchPcs
  <1>1. pc[p] = "preflight" /\ UNCHANGED <<arms, events, summary, child>>
    BY DEF Preflight, Campaign
  <1>2. /\ Reached(p, arms[Arm(o(p))], o(p)) /\ JobShape /\ pc \in [Controllers -> Pcs]
    BY <1>1, ArmUnderway
  <1>3. CASE Goto(p, "static") /\ UNCHANGED job
    <2>1. pc'[p] = "static"
      BY <1>2, <1>3, GotoFrame DEF Pcs
    <2>2. Reached(p, arms[Arm(o(p))], o(p))'
      BY <1>1, <1>2, <1>3, <2>1 DEF Reached, o, FreshPcs, AskedPcs, ClosingPcs
    <2> QED
      BY <1>1, <1>3, <2>1, <2>2, PathQuiet
  <1>4. CASE Goto(p, "abort") /\ job' = [job EXCEPT ![p].err = "other"]
    <2>1. pc'[p] = "abort" /\ job'[p].o = job[p].o /\ job'[p].rows = job[p].rows
      BY <1>2, <1>4, GotoFrame, ErrSet DEF Pcs
    <2>2. Reached(p, arms[Arm(o(p))], o(p))'
      BY <2>1 DEF Reached, FreshPcs, AskedPcs, ClosingPcs
    <2> QED
      BY <1>1, <2>1, <2>2, PathQuiet
  <1> QED
    BY <1>3, <1>4 DEF Preflight

LEMMA StaticPath ==
    ASSUME RoundAssumption, RoundInv, NEW p \in Controllers, Path(p), Static(p)
    PROVE  Path(p)'
  <1> USE DEF LockPcs, LifePcs, WatchPcs
  <1>1. pc[p] = "static" /\ UNCHANGED <<events, summary, child>>
    BY DEF Static, Lifetime, Campaign
  <1>2. /\ Shape /\ JobShape /\ pc \in [Controllers -> Pcs] /\ Arm(o(p)) \in Arms
        /\ Underway(arms[Arm(o(p))], o(p)) /\ Reached(p, arms[Arm(o(p))], o(p))
    BY <1>1, ArmUnderway
  <1>3. CASE /\ Log(Arm(o(p)), [static |-> o(p)]) /\ Goto(p, "starting")
             /\ job' = [job EXCEPT ![p].watch = TRUE]
    <2>1. PICK a, x, new : a = Arm(o(p)) /\ x = o(p) /\ new = [static |-> x]
      OBVIOUS
    <2>2. /\ Has(arms[a], x, {}) /\ arms[a].turn = <<>> /\ job[p].err = "none"
          /\ arms[a].lifetime = EndedBefore(x)
      BY <1>1, <1>2, <2>1 DEF Reached, FreshPcs
    <2>3. DOMAIN new = {"static"} /\ new["static"] = x
      BY <2>1
    <2>4. Log(a, new)
      BY <1>3, <2>1
    <2>5. /\ \A b \in Arms : b # a => arms'[b] = arms[b]
          /\ Has(arms'[a], x, {"static"})
          /\ Marked(arms'[a], x) /\ EndedSome(arms'[a], x) /\ Opened(arms'[a])
          /\ arms'[a].lifetime = arms[a].lifetime /\ arms'[a].turn = arms[a].turn
      <3>1. PICK old : old = {}
        OBVIOUS
      <3>2. old \cup DOMAIN new = {"static"} /\ "turn" \notin DOMAIN new
        BY <2>3, <3>1
      <3>3. Goes(a, x, old, new)
        BY <1>2, <2>1, <2>2, <2>3, <2>4, <3>1 DEF Goes, Attested
      <3>4. Shape
        BY <1>2
      <3>5. /\ \A b \in Arms : b # a => arms'[b] = arms[b]
            /\ Has(arms'[a], x, old \cup DOMAIN new)
            /\ Marked(arms'[a], x) /\ EndedSome(arms'[a], x) /\ Opened(arms'[a])
            /\ arms'[a].lifetime = arms[a].lifetime
            /\ "turn" \notin DOMAIN new => arms'[a].turn = arms[a].turn
        BY <3>3, <3>4, JournalGoes
      <3> QED
        BY <3>2, <3>5
    <2>6. /\ pc'[p] = "starting" /\ job'[p].o = job[p].o /\ job'[p].rows = job[p].rows
          /\ job'[p].err = job[p].err /\ o(p)' = x
      BY <1>2, <1>3, <2>1, GotoFrame, WatchSet DEF Pcs, o
    <2>7. Underway(arms'[a], x)
      BY <1>2, <2>1, <2>5 DEF Underway, Turned
    <2>8. Reached(p, arms[a], x)'
      BY <2>2, <2>5, <2>6 DEF Reached, FreshPcs, AskedPcs, ClosingPcs
    <2> QED
      BY <1>1, <2>1, <2>5, <2>6, <2>7, <2>8, PathWithin
  <1>4. CASE Fails(p, "unwatch") /\ UNCHANGED arms
    BY <1>1, <1>4, FailsPath
  <1> QED
    BY <1>3, <1>4 DEF Static

LEMMA StartPath ==
    ASSUME RoundAssumption, RoundInv, NEW p \in Controllers, Path(p), StartServer(p)
    PROVE  Path(p)'
  <1> USE DEF LockPcs, LifePcs, WatchPcs
  <1>1. pc[p] = "starting" /\ UNCHANGED <<arms, events, summary, child>>
    BY DEF StartServer, Lifetime, Campaign
  <1>2. /\ JobShape /\ pc \in [Controllers -> Pcs] /\ Reached(p, arms[Arm(o(p))], o(p))
    BY <1>1, ArmUnderway
  <1>3. CASE Goto(p, "waiting") /\ job' = [job EXCEPT ![p].callback = "set"]
    <2>1. /\ pc'[p] = "waiting" /\ job'[p].o = job[p].o /\ job'[p].rows = job[p].rows
          /\ job'[p].err = job[p].err
      BY <1>2, <1>3, GotoFrame, CallbackSet DEF Pcs
    <2>2. Reached(p, arms[Arm(o(p))], o(p))'
      BY <1>1, <1>2, <2>1 DEF Reached, o, FreshPcs, AskedPcs, ClosingPcs
    <2> QED
      BY <1>1, <2>1, <2>2, PathQuiet
  <1>4. CASE Fails(p, "unwatch")
    BY <1>1, <1>4, FailsPath
  <1> QED
    BY <1>3, <1>4 DEF StartServer

LEMMA StartFailsPath ==
    ASSUME RoundAssumption, RoundInv, NEW p \in Controllers, Path(p), StartFails(p)
    PROVE  Path(p)'
  BY FailsPath DEF StartFails, Lifetime, Campaign

LEMMA ReadyPath ==
    ASSUME RoundAssumption, RoundInv, NEW p \in Controllers, Path(p), ServerReady(p)
    PROVE  Path(p)'
  <1> USE DEF LockPcs, LifePcs, WatchPcs
  <1>1. pc[p] = "waiting" /\ UNCHANGED <<events, summary, child>>
    BY DEF ServerReady, Lifetime, Campaign
  <1>2. /\ Shape /\ JobShape /\ pc \in [Controllers -> Pcs] /\ Arm(o(p)) \in Arms
        /\ Underway(arms[Arm(o(p))], o(p)) /\ Reached(p, arms[Arm(o(p))], o(p))
    BY <1>1, ArmUnderway
  <1>3. PICK a, x, new :
          a = Arm(o(p)) /\ x = o(p) /\ new = [runtime |-> x, ready |-> x, case_start |-> x]
    OBVIOUS
  <1>4. /\ Has(arms[a], x, {"static"}) /\ arms[a].turn = <<>> /\ job[p].err = "none"
        /\ arms[a].lifetime = EndedBefore(x)
    BY <1>1, <1>2, <1>3 DEF Reached, AskedPcs
  <1>5. /\ DOMAIN new = {"runtime", "ready", "case_start"}
        /\ \A k \in DOMAIN new : new[k] = x
    BY <1>3
  <1>6. Log(a, new) /\ Goto(p, "case") /\ UNCHANGED job
    BY <1>3 DEF ServerReady
  <1>7. {"static"} \cup DOMAIN new = Running
    BY <1>5 DEF Running
  <1>8. /\ \A b \in Arms : b # a => arms'[b] = arms[b]
        /\ Has(arms'[a], x, Running)
        /\ Marked(arms'[a], x) /\ EndedSome(arms'[a], x) /\ Opened(arms'[a])
        /\ arms'[a].lifetime = arms[a].lifetime /\ arms'[a].turn = arms[a].turn
    <2>1. PICK old : old = {"static"}
      OBVIOUS
    <2>2. old \cup DOMAIN new = Running /\ "turn" \notin DOMAIN new
      BY <1>5, <1>7, <2>1
    <2>3. Goes(a, x, old, new)
      BY <1>2, <1>3, <1>4, <1>5, <1>6, <2>1 DEF Goes, Attested
    <2> QED
      BY <1>2, <2>2, <2>3, JournalGoes
  <1>9. /\ pc'[p] = "case" /\ job'[p].o = job[p].o /\ job'[p].rows = job[p].rows
        /\ job'[p].err = job[p].err /\ o(p)' = x
    BY <1>2, <1>3, <1>6, GotoFrame DEF Pcs, o
  <1>10. Underway(arms'[a], x)
    BY <1>2, <1>3, <1>8 DEF Underway, Turned
  <1>11. Len(arms'[a].turn) < NTurns /\ \A i \in 1 .. Len(arms'[a].turn) : arms'[a].turn[i]
    BY <1>4, <1>8 DEF RoundAssumption
  <1>12. Reached(p, arms[a], x)'
    BY <1>4, <1>8, <1>9, <1>11 DEF Reached, FreshPcs, AskedPcs, ClosingPcs
  <1> QED
    BY <1>1, <1>3, <1>8, <1>9, <1>10, <1>12, PathWithin

\* A lifetime that fails between its server's return and its case.
LEMMA ReadyFailsPath ==
    ASSUME RoundAssumption, RoundInv, NEW p \in Controllers, Path(p), ReadyFails(p)
    PROVE  Path(p)'
  <1> USE DEF LockPcs, LifePcs, WatchPcs
  <1>1. pc[p] = "waiting" /\ UNCHANGED <<events, summary, child>>
    BY DEF ReadyFails, Lifetime, Campaign
  <1>2. /\ Shape /\ JobShape /\ pc \in [Controllers -> Pcs] /\ Arm(o(p)) \in Arms
        /\ Underway(arms[Arm(o(p))], o(p)) /\ Reached(p, arms[Arm(o(p))], o(p))
    BY <1>1, ArmUnderway
  <1>3. PICK a, x : a = Arm(o(p)) /\ x = o(p)
    OBVIOUS
  <1>4. /\ Has(arms[a], x, {"static"}) /\ arms[a].turn = <<>>
        /\ arms[a].lifetime = EndedBefore(x)
    BY <1>1, <1>2, <1>3 DEF Reached, AskedPcs
  <1>5. /\ job'[p].err # "none" /\ job'[p].o = job[p].o /\ job'[p].rows = job[p].rows
        /\ pc'[p] = "interrupt" /\ o(p)' = x
    BY <1>1, <1>3, FailsSets DEF ReadyFails, Pcs, o
  <1>6. CASE UNCHANGED arms
    <2>1. Reached(p, arms[a], x)'
      BY <1>4, <1>5, <1>6 DEF Reached, Partial, FreshPcs, AskedPcs, ClosingPcs
    <2> QED
      BY <1>1, <1>3, <1>5, <1>6, <2>1, PathQuiet
  <1>7. ASSUME NEW new, Log(a, new), \A k \in DOMAIN new : new[k] = x,
               DOMAIN new \in {{"runtime"}, {"runtime", "ready"}}
        PROVE  Path(p)'
    <2>1. PICK old : old = {"static"}
      OBVIOUS
    <2>2. old \cup DOMAIN new \in Partial /\ "turn" \notin DOMAIN new
      BY <1>7, <2>1 DEF Partial
    <2>3. Goes(a, x, old, new)
      BY <1>2, <1>3, <1>4, <1>7, <2>1 DEF Goes, Attested
    <2>4. /\ \A b \in Arms : b # a => arms'[b] = arms[b]
          /\ Has(arms'[a], x, old \cup DOMAIN new)
          /\ Marked(arms'[a], x) /\ EndedSome(arms'[a], x) /\ Opened(arms'[a])
          /\ arms'[a].lifetime = arms[a].lifetime /\ arms'[a].turn = arms[a].turn
      BY <1>2, <2>2, <2>3, JournalGoes
    <2>5. Underway(arms'[a], x)
      BY <1>2, <1>3, <2>4 DEF Underway, Turned
    <2>6. Reached(p, arms[a], x)'
      BY <1>4, <1>5, <2>2, <2>4 DEF Reached, FreshPcs, AskedPcs, ClosingPcs
    <2> QED
      BY <1>1, <1>3, <1>5, <2>4, <2>5, <2>6, PathWithin
  <1>8. CASE Log(a, [runtime |-> x])
    <2>1. PICK new : new = [runtime |-> x]
      OBVIOUS
    <2> QED
      BY <1>7, <1>8, <2>1
  <1>9. CASE Log(a, [runtime |-> x, ready |-> x])
    <2>1. PICK new : new = [runtime |-> x, ready |-> x]
      OBVIOUS
    <2> QED
      BY <1>7, <1>9, <2>1
  <1> QED
    BY <1>3, <1>6, <1>8, <1>9 DEF ReadyFails

\* A turn is added to those of a timed lifetime that were all admitted.
LEMMA TurnAdded ==
    ASSUME NEW s \in Seq(BOOLEAN), NEW b \in BOOLEAN, NEW t, t = Append(s, b),
           \A i \in 1 .. Len(s) : s[i]
    PROVE  /\ t \in Seq(BOOLEAN) /\ Len(t) = Len(s) + 1 /\ Len(s) \in Nat
           /\ \A i \in 1 .. Len(t) - 1 : t[i]
           /\ b => \A i \in 1 .. Len(t) : t[i]
  <1>1. /\ t \in Seq(BOOLEAN) /\ Len(t) = Len(s) + 1 /\ Len(s) \in Nat
        /\ t[Len(s) + 1] = b /\ \A i \in 1 .. Len(s) : t[i] = s[i]
    BY AppendProperties
  <1>2. \A i \in 1 .. Len(s) : t[i]
    BY <1>1
  <1>3. \A i \in 1 .. Len(t) : i \in 1 .. Len(s) \/ i = Len(s) + 1
    BY <1>1
  <1>4. 1 .. Len(t) - 1 = 1 .. Len(s)
    BY <1>1
  <1>5. ASSUME b PROVE \A i \in 1 .. Len(t) : t[i]
    BY <1>1, <1>2, <1>3, <1>5
  <1> QED
    BY <1>1, <1>2, <1>4, <1>5

LEMMA AnswerPath ==
    ASSUME RoundAssumption, RoundInv, NEW p \in Controllers, Path(p), Answer(p)
    PROVE  Path(p)'
  <1> USE DEF LockPcs, LifePcs, WatchPcs
  <1>1. pc[p] = "case" /\ UNCHANGED <<events, summary, child, job>>
    BY DEF Answer, Lifetime, Campaign
  <1>2. /\ Shape /\ JobShape /\ pc \in [Controllers -> Pcs] /\ Arm(o(p)) \in Arms
        /\ Underway(arms[Arm(o(p))], o(p)) /\ Reached(p, arms[Arm(o(p))], o(p))
    BY <1>1, ArmUnderway
  <1>3. PICK a, x, s : a = Arm(o(p)) /\ x = o(p) /\ s = arms[a].turn
    OBVIOUS
  <1>4. /\ Has(arms[a], x, Running) /\ job[p].err = "none"
        /\ arms[a].lifetime = EndedBefore(x)
        /\ Len(s) < NTurns /\ \A i \in 1 .. Len(s) : s[i]
    BY <1>1, <1>2, <1>3 DEF Reached
  <1>5. s \in Seq(BOOLEAN)
    BY <1>2, <1>3 DEF Shape, JournalShape, Kinds, Entry, Attested
  <1>6. o(p)' = x /\ job'[p].err = "none" /\ job'[p].o = job[p].o /\ job'[p].rows = job[p].rows
    BY <1>1, <1>3, <1>4 DEF o
  <1>7. ASSUME NEW new, Log(a, new), DOMAIN new \subseteq {"turn", "case_complete"},
               "case_complete" \in DOMAIN new => new["case_complete"] = x
        PROVE  /\ \A b \in Arms : b # a => arms'[b] = arms[b]
               /\ Has(arms'[a], x, Running \cup DOMAIN new)
               /\ Marked(arms'[a], x) /\ EndedSome(arms'[a], x) /\ Opened(arms'[a])
               /\ arms'[a].lifetime = arms[a].lifetime
               /\ "turn" \in DOMAIN new => arms'[a].turn = Append(s, new["turn"])
               /\ "turn" \notin DOMAIN new => arms'[a].turn = s
    <2>1. Goes(a, x, Running, new)
      BY <1>2, <1>3, <1>4, <1>7 DEF Goes, Attested, Running
    <2> QED
      BY <1>2, <1>3, <2>1, JournalGoes
  <1>8. CASE ~Timed(x) /\ Log(a, [case_complete |-> x]) /\ Goto(p, "interrupt")
    <2>1. PICK new : new = [case_complete |-> x]
      OBVIOUS
    <2>2. DOMAIN new = {"case_complete"} /\ new["case_complete"] = x
      BY <2>1
    <2>3. Log(a, new)
      BY <1>8, <2>1
    <2>4. /\ \A b \in Arms : b # a => arms'[b] = arms[b]
          /\ Has(arms'[a], x, Running \cup {"case_complete"})
          /\ Marked(arms'[a], x) /\ EndedSome(arms'[a], x) /\ Opened(arms'[a])
          /\ arms'[a].lifetime = arms[a].lifetime /\ arms'[a].turn = s
      BY <1>7, <2>2, <2>3
    <2>5. Underway(arms'[a], x)
      BY <1>2, <1>3, <2>4 DEF Underway, Turned
    <2>6. pc'[p] = "interrupt"
      BY <1>2, <1>8, GotoFrame DEF Pcs
    <2>7. Reached(p, arms[a], x)'
      BY <1>4, <1>6, <1>8, <2>4, <2>6 DEF Reached, FreshPcs, AskedPcs, ClosingPcs
    <2> QED
      BY <1>1, <1>3, <1>6, <2>4, <2>5, <2>6, <2>7, PathWithin
  <1>9. CASE /\ Timed(x) /\ Len(s) + 1 = NTurns /\ Goto(p, "interrupt")
             /\ Log(a, [turn |-> TRUE, case_complete |-> x])
    <2>1. PICK b, new : b = TRUE /\ new = [turn |-> b, case_complete |-> x]
      OBVIOUS
    <2>2. /\ DOMAIN new = {"turn", "case_complete"} /\ new["case_complete"] = x
          /\ new["turn"] = b
      BY <2>1
    <2>3. Log(a, new)
      BY <1>9, <2>1
    <2>4. /\ \A c \in Arms : c # a => arms'[c] = arms[c]
          /\ Has(arms'[a], x, Running \cup DOMAIN new)
          /\ Marked(arms'[a], x) /\ EndedSome(arms'[a], x) /\ Opened(arms'[a])
          /\ arms'[a].lifetime = arms[a].lifetime /\ arms'[a].turn = Append(s, b)
      BY <1>7, <2>2, <2>3
    <2>5. Has(arms'[a], x, Running \cup {"case_complete"})
      BY <2>2, <2>4 DEF Has, Attested
    <2>6. /\ Len(arms'[a].turn) = NTurns
          /\ \A i \in 1 .. Len(arms'[a].turn) : arms'[a].turn[i]
      BY <1>4, <1>5, <1>9, <2>1, <2>4, TurnAdded
    <2>7. AllTurns(arms'[a])
      BY <2>6 DEF AllTurns
    <2>8. Underway(arms'[a], x)
      BY <1>9, <2>4, <2>6 DEF Underway, Turned, RoundAssumption
    <2>9. pc'[p] = "interrupt"
      BY <1>2, <1>9, GotoFrame DEF Pcs
    <2>10. Reached(p, arms[a], x)'
      BY <1>4, <1>6, <2>4, <2>5, <2>7, <2>9 DEF Reached, FreshPcs, AskedPcs, ClosingPcs
    <2> QED
      BY <1>1, <1>3, <1>6, <2>4, <2>8, <2>9, <2>10, PathWithin
  <1>10. CASE /\ Timed(x) /\ Len(s) + 1 # NTurns /\ Goto(p, "case")
              /\ Log(a, [turn |-> TRUE])
    <2>1. PICK b, new : b = TRUE /\ new = [turn |-> b]
      OBVIOUS
    <2>2. DOMAIN new = {"turn"} /\ new["turn"] = b
      BY <2>1
    <2>3. Log(a, new)
      BY <1>10, <2>1
    <2>4. /\ \A c \in Arms : c # a => arms'[c] = arms[c]
          /\ Has(arms'[a], x, Running \cup DOMAIN new)
          /\ Marked(arms'[a], x) /\ EndedSome(arms'[a], x) /\ Opened(arms'[a])
          /\ arms'[a].lifetime = arms[a].lifetime /\ arms'[a].turn = Append(s, b)
      BY <1>7, <2>2, <2>3
    <2>5. Has(arms'[a], x, Running)
      BY <2>2, <2>4 DEF Has, Attested
    <2>6. /\ Len(arms'[a].turn) = Len(s) + 1 /\ Len(s) \in Nat
          /\ \A i \in 1 .. Len(arms'[a].turn) : arms'[a].turn[i]
      BY <1>4, <1>5, <2>1, <2>4, TurnAdded
    <2>7. Len(arms'[a].turn) < NTurns
      BY <1>4, <1>10, <2>6 DEF RoundAssumption
    <2>8. Underway(arms'[a], x)
      <3>1. \A i \in 1 .. Len(arms'[a].turn) - 1 : i \in 1 .. Len(arms'[a].turn)
        BY <2>6
      <3>2. Len(arms'[a].turn) <= NTurns
        BY <2>6, <2>7 DEF RoundAssumption
      <3> QED
        BY <1>10, <2>4, <2>6, <3>1, <3>2 DEF Underway, Turned
    <2>9. pc'[p] = "case"
      BY <1>2, <1>10, GotoFrame DEF Pcs
    <2>10. Reached(p, arms[a], x)'
      BY <1>4, <1>6, <2>4, <2>5, <2>6, <2>7, <2>9 DEF Reached, FreshPcs, AskedPcs, ClosingPcs
    <2> QED
      BY <1>1, <1>3, <1>6, <2>4, <2>8, <2>9, <2>10, PathWithin
  <1> QED
    BY <1>3, <1>8, <1>9, <1>10 DEF Answer, Turns, TurnsOf

LEMMA CaseFailsPath ==
    ASSUME RoundAssumption, RoundInv, NEW p \in Controllers, Path(p), CaseFails(p)
    PROVE  Path(p)'
  <1> USE DEF LockPcs, LifePcs, WatchPcs
  <1>1. pc[p] = "case" /\ UNCHANGED <<events, summary, child>>
    BY DEF CaseFails, Lifetime, Campaign
  <1>2. /\ Shape /\ JobShape /\ pc \in [Controllers -> Pcs] /\ Arm(o(p)) \in Arms
        /\ Underway(arms[Arm(o(p))], o(p)) /\ Reached(p, arms[Arm(o(p))], o(p))
    BY <1>1, ArmUnderway
  <1>3. PICK a, x, s : a = Arm(o(p)) /\ x = o(p) /\ s = arms[a].turn
    OBVIOUS
  <1>4. /\ Has(arms[a], x, Running) /\ arms[a].lifetime = EndedBefore(x)
        /\ Len(s) < NTurns /\ \A i \in 1 .. Len(s) : s[i]
    BY <1>1, <1>2, <1>3 DEF Reached
  <1>5. s \in Seq(BOOLEAN)
    BY <1>2, <1>3 DEF Shape, JournalShape, Kinds, Entry, Attested
  <1>6. /\ job'[p].err # "none" /\ job'[p].o = job[p].o /\ job'[p].rows = job[p].rows
        /\ pc'[p] = "interrupt" /\ o(p)' = x
    BY <1>1, <1>3, FailsSets DEF CaseFails, Pcs, o
  <1>7. CASE UNCHANGED arms
    <2>1. Reached(p, arms[a], x)'
      BY <1>4, <1>6, <1>7 DEF Reached, Partial, FreshPcs, AskedPcs, ClosingPcs
    <2> QED
      BY <1>1, <1>3, <1>6, <1>7, <2>1, PathQuiet
  <1>8. CASE Timed(x) /\ Log(a, [turn |-> FALSE])
    <2>1. PICK b, new : b = FALSE /\ new = [turn |-> b]
      OBVIOUS
    <2>2. DOMAIN new = {"turn"} /\ new["turn"] = b
      BY <2>1
    <2>3. Log(a, new)
      BY <1>8, <2>1
    <2>4. /\ \A c \in Arms : c # a => arms'[c] = arms[c]
          /\ Has(arms'[a], x, Running \cup DOMAIN new)
          /\ Marked(arms'[a], x) /\ EndedSome(arms'[a], x) /\ Opened(arms'[a])
          /\ arms'[a].lifetime = arms[a].lifetime /\ arms'[a].turn = Append(s, b)
      <3>1. Goes(a, x, Running, new)
        BY <1>2, <1>3, <1>4, <2>2, <2>3 DEF Goes, Attested, Running
      <3> QED
        BY <1>2, <1>3, <2>2, <3>1, JournalGoes, ZenonT(60)
    <2>5. Has(arms'[a], x, Running)
      BY <2>2, <2>4 DEF Has, Attested
    <2>6. /\ Len(arms'[a].turn) = Len(s) + 1 /\ Len(s) \in Nat
          /\ \A i \in 1 .. Len(arms'[a].turn) - 1 : arms'[a].turn[i]
      BY <1>4, <1>5, <2>1, <2>4, TurnAdded
    <2>7. Underway(arms'[a], x)
      <3>1. Len(arms'[a].turn) <= NTurns
        BY <1>4, <2>6 DEF RoundAssumption
      <3> QED
        BY <1>8, <2>4, <2>6, <3>1 DEF Underway, Turned
    <2>8. Reached(p, arms[a], x)'
      BY <1>4, <1>6, <2>4, <2>5 DEF Reached, Partial, FreshPcs, AskedPcs, ClosingPcs
    <2> QED
      BY <1>1, <1>3, <1>6, <2>4, <2>7, <2>8, PathWithin
  <1> QED
    BY <1>3, <1>7, <1>8 DEF CaseFails

\* The work of a lifetime is over: only its error and the cleanup's may change.
LEMMA ClosingPath ==
    ASSUME RoundAssumption, RoundInv, NEW p \in Controllers, Path(p),
           pc[p] \in ClosingPcs, pc'[p] \in ClosingPcs,
           job'[p].o = job[p].o, job'[p].rows = job[p].rows,
           job'[p].err = job[p].err \/ job'[p].err # "none",
           UNCHANGED <<arms, events, summary, child>>
    PROVE  Path(p)'
  <1>1. /\ pc[p] \in LockPcs \ {"arm", "score"} /\ pc'[p] \in LockPcs \ {"arm", "score"}
        /\ pc[p] \in LifePcs
    BY DEF ClosingPcs, LockPcs, LifePcs, WatchPcs
  <1>2. Reached(p, arms[Arm(o(p))], o(p))
    BY <1>1, ArmUnderway
  <1>3. Reached(p, arms[Arm(o(p))], o(p))'
    BY <1>1, <1>2 DEF Reached, o, FreshPcs, AskedPcs, ClosingPcs
  <1> QED
    BY <1>1, <1>3, PathQuiet

LEMMA InterruptsPath ==
    ASSUME RoundAssumption, RoundInv, NEW p \in Controllers, Path(p), Interrupts(p)
    PROVE  Path(p)'
  <1> USE DEF LockPcs, LifePcs, WatchPcs
  <1>1. pc[p] = "interrupt" /\ UNCHANGED <<events, summary, child>> /\ Goto(p, "logs")
    BY DEF Interrupts, Lifetime, Campaign
  <1>2. /\ Shape /\ JobShape /\ pc \in [Controllers -> Pcs] /\ Arm(o(p)) \in Arms
        /\ Underway(arms[Arm(o(p))], o(p)) /\ Reached(p, arms[Arm(o(p))], o(p))
    BY <1>1, ArmUnderway
  <1>3. pc'[p] = "logs"
    BY <1>1, <1>2, GotoFrame DEF Pcs
  <1>4. CASE UNCHANGED <<job, arms>>
    BY <1>1, <1>3, <1>4, ClosingPath DEF ClosingPcs
  <1>5. CASE Cleanup(p, TRUE) /\ UNCHANGED arms
    <2>1. /\ job'[p].o = job[p].o /\ job'[p].rows = job[p].rows
          /\ job'[p].err = job[p].err
      BY <1>1, <1>5, CleanupSets
    <2> QED
      BY <1>1, <1>3, <1>5, <2>1, ClosingPath DEF ClosingPcs
  <1>6. CASE UNCHANGED job /\ Log(Arm(o(p)), [interrupt_failed |-> Arm(o(p))])
    <2>1. PICK a, x, new : a = Arm(o(p)) /\ x = o(p) /\ new = [interrupt_failed |-> a]
      OBVIOUS
    <2>2. Log(a, new) /\ o(p)' = x
      BY <1>6, <2>1 DEF o
    <2>3. DOMAIN new = {"interrupt_failed"}
      BY <2>1
    <2>4. /\ arms[a].lifetime = EndedBefore(x)
          /\ job[p].err = "none" /\ Timed(x) => AllTurns(arms[a])
      BY <1>1, <1>2, <2>1 DEF Reached, ClosingPcs
    <2>5. PICK old : /\ Has(arms[a], x, old) /\ "static" \in old
                     /\ \/ old = Running \cup {"case_complete"}
                        \/ job[p].err # "none" /\ old \in Partial
      <3>1. \/ Has(arms[a], x, Running \cup {"case_complete"})
            \/ job[p].err # "none" /\ \E kinds \in Partial : Has(arms[a], x, kinds)
        BY <1>1, <1>2, <2>1 DEF Reached, ClosingPcs
      <3>2. "static" \in Running /\ \A kinds \in Partial : "static" \in kinds
        BY DEF Running, Partial
      <3> QED
        BY <3>1, <3>2
    <2>6. Goes(a, x, old, new)
      BY <1>2, <2>1, <2>2, <2>3, <2>5 DEF Goes, Attested
    <2>7. /\ \A b \in Arms : b # a => arms'[b] = arms[b]
          /\ Has(arms'[a], x, old \cup DOMAIN new)
          /\ Marked(arms'[a], x) /\ EndedSome(arms'[a], x) /\ Opened(arms'[a])
          /\ arms'[a].lifetime = arms[a].lifetime
          /\ "turn" \notin DOMAIN new => arms'[a].turn = arms[a].turn
      BY <1>2, <2>6, JournalGoes
    <2>8. arms'[a].turn = arms[a].turn
      BY <2>3, <2>7
    <2>9. Has(arms'[a], x, old)
      BY <2>3, <2>7 DEF Has, Attested
    <2>10. Underway(arms'[a], x)
      BY <1>2, <2>1, <2>7, <2>8 DEF Underway, Turned
    <2>11. job[p].err = "none" /\ Timed(x) => AllTurns(arms'[a])
      BY <2>4, <2>8 DEF AllTurns
    <2>12. job'[p] = job[p]
      BY <1>6
    <2>13. Reached(p, arms[a], x)'
      BY <1>3, <2>4, <2>5, <2>7, <2>9, <2>11, <2>12 DEF Reached, FreshPcs, AskedPcs, ClosingPcs
    <2> QED
      BY <1>1, <1>3, <2>1, <2>2, <2>7, <2>10, <2>12, <2>13, PathWithin
  <1> QED
    BY <1>4, <1>5, <1>6 DEF Interrupts

LEMMA LastCheckPath ==
    ASSUME RoundAssumption, RoundInv, NEW p \in Controllers, Path(p), LastCheckFails(p)
    PROVE  Path(p)'
  <1>1. /\ pc[p] = "interrupt" /\ pc[p] \in LockPcs /\ Fails(p, "interrupt")
        /\ UNCHANGED <<arms, events, summary, child>>
    BY DEF LastCheckFails, Lifetime, Campaign, LockPcs, LifePcs, WatchPcs
  <1>2. /\ job'[p].err # "none" /\ job'[p].o = job[p].o /\ job'[p].rows = job[p].rows
        /\ pc'[p] = "interrupt"
    BY <1>1, FailsSets DEF Pcs
  <1> QED
    BY <1>1, <1>2, ClosingPath DEF ClosingPcs

LEMMA LogsPath ==
    ASSUME RoundAssumption, RoundInv, NEW p \in Controllers, Path(p), SaveLogs(p)
    PROVE  Path(p)'
  <1>1. /\ pc[p] = "logs" /\ pc[p] \in LockPcs /\ Goto(p, "stop")
        /\ UNCHANGED <<arms, events, summary, child>>
    BY DEF SaveLogs, Lifetime, Campaign, LockPcs, LifePcs, WatchPcs
  <1>2. pc'[p] = "stop"
    BY <1>1, HolderFacts, GotoFrame DEF Pcs
  <1>3. CASE UNCHANGED job
    BY <1>1, <1>2, <1>3, ClosingPath DEF ClosingPcs
  <1>4. CASE Cleanup(p, TRUE)
    <2>1. /\ job'[p].o = job[p].o /\ job'[p].rows = job[p].rows
          /\ job'[p].err = job[p].err
      BY <1>1, <1>4, CleanupSets
    <2> QED
      BY <1>1, <1>2, <2>1, ClosingPath DEF ClosingPcs
  <1> QED
    BY <1>3, <1>4 DEF SaveLogs

LEMMA StopPath ==
    ASSUME RoundAssumption, RoundInv, NEW p \in Controllers, Path(p), StopServer(p)
    PROVE  Path(p)'
  <1> USE DEF LockPcs, LifePcs, WatchPcs
  <1>1. pc[p] = "stop" /\ UNCHANGED <<events, summary, child>> /\ Goto(p, "unwatch")
    BY DEF StopServer, Lifetime, Campaign
  <1>2. /\ Shape /\ JobShape /\ pc \in [Controllers -> Pcs] /\ Arm(o(p)) \in Arms
        /\ Underway(arms[Arm(o(p))], o(p)) /\ Reached(p, arms[Arm(o(p))], o(p))
    BY <1>1, ArmUnderway
  <1>3. pc'[p] = "unwatch"
    BY <1>1, <1>2, GotoFrame DEF Pcs
  <1>4. /\ job'[p].o = job[p].o /\ job'[p].rows = job[p].rows
        /\ job'[p].err = job[p].err
        /\ UNCHANGED job \/ job'[p].cleanup
    <2>1. CASE UNCHANGED job
      BY <2>1
    <2>2. CASE Cleanup(p, TRUE)
      BY <1>1, <2>2, CleanupSets
    <2> QED
      BY <2>1, <2>2 DEF StopServer
  <1>5. CASE UNCHANGED arms /\ Cleanup(p, TRUE)
    <2>1. job'[p].cleanup
      BY <1>1, <1>5, CleanupSets
    <2>2. Reached(p, arms[Arm(o(p))], o(p))'
      BY <1>1, <1>2, <1>3, <1>4, <1>5, <2>1 DEF Reached, o, FreshPcs, AskedPcs, ClosingPcs
    <2> QED
      BY <1>1, <1>3, <1>4, <1>5, <2>2, PathQuiet
  <1>6. CASE Log(Arm(o(p)), [stopped |-> o(p)])
    <2>1. PICK a, x, new : a = Arm(o(p)) /\ x = o(p) /\ new = [stopped |-> x]
      OBVIOUS
    <2>2. Log(a, new) /\ o(p)' = x
      BY <1>4, <1>6, <2>1 DEF o
    <2>3. DOMAIN new = {"stopped"} /\ new["stopped"] = x
      BY <2>1
    <2>4. /\ arms[a].lifetime = EndedBefore(x)
          /\ job[p].err = "none" /\ Timed(x) => AllTurns(arms[a])
      BY <1>1, <1>2, <2>1 DEF Reached, ClosingPcs
    <2>5. PICK old : /\ Has(arms[a], x, old) /\ "static" \in old /\ "stopped" \notin old
                     /\ \/ old = Running \cup {"case_complete"}
                        \/ job[p].err # "none" /\ old \in Partial
      <3>1. \/ Has(arms[a], x, Running \cup {"case_complete"})
            \/ job[p].err # "none" /\ \E kinds \in Partial : Has(arms[a], x, kinds)
        BY <1>1, <1>2, <2>1 DEF Reached, ClosingPcs
      <3>2. /\ "static" \in Running /\ "stopped" \notin Running \cup {"case_complete"}
            /\ \A kinds \in Partial : "static" \in kinds /\ "stopped" \notin kinds
        BY DEF Running, Partial
      <3> QED
        BY <3>1, <3>2
    <2>6. Goes(a, x, old, new)
      BY <1>2, <2>1, <2>2, <2>3, <2>5 DEF Goes, Attested
    <2>7. /\ \A b \in Arms : b # a => arms'[b] = arms[b]
          /\ Has(arms'[a], x, old \cup DOMAIN new)
          /\ Marked(arms'[a], x) /\ EndedSome(arms'[a], x) /\ Opened(arms'[a])
          /\ arms'[a].lifetime = arms[a].lifetime
          /\ "turn" \notin DOMAIN new => arms'[a].turn = arms[a].turn
      BY <1>2, <2>6, JournalGoes
    <2>8. arms'[a].turn = arms[a].turn
      BY <2>3, <2>7
    <2>9. job[p].err = "none" => Has(arms'[a], x, Attested)
      <3>1. old = Running \cup {"case_complete"} => old \cup DOMAIN new = Attested
        BY <2>3 DEF Running, Attested
      <3> QED
        BY <2>5, <2>7, <3>1
    <2>10. Underway(arms'[a], x)
      BY <1>2, <2>1, <2>7, <2>8 DEF Underway, Turned
    <2>11. job[p].err = "none" /\ Timed(x) => AllTurns(arms'[a])
      BY <2>4, <2>8 DEF AllTurns
    <2>12. Reached(p, arms[a], x)'
      BY <1>3, <1>4, <2>4, <2>7, <2>9, <2>11 DEF Reached, FreshPcs, AskedPcs, ClosingPcs
    <2> QED
      BY <1>1, <1>3, <1>4, <2>1, <2>2, <2>7, <2>10, <2>12, PathWithin
  <1> QED
    BY <1>5, <1>6 DEF StopServer

LEMMA UnwatchPath ==
    ASSUME RoundAssumption, RoundInv, NEW p \in Controllers, Path(p), Unwatch(p)
    PROVE  Path(p)'
  <1> USE DEF LockPcs, LifePcs, WatchPcs
  <1>1. pc[p] = "unwatch" /\ UNCHANGED <<arms, events, summary, child>>
    BY DEF Unwatch, Lifetime, Campaign
  <1>2. /\ JobShape /\ pc \in [Controllers -> Pcs] /\ Reached(p, arms[Arm(o(p))], o(p))
        /\ job[p].err \in {"none", "safety", "other"}
    BY <1>1, ArmUnderway
  <1>3. PICK e : e = Verdict(p)
    OBVIOUS
  <1>4. /\ e \in {"none", "safety", "other"}
        /\ e = "none" => job[p].err = "none" /\ ~job[p].cleanup
    BY <1>2, <1>3 DEF Verdict
  <1>5. job' = [job EXCEPT ![p].err = e, ![p].watch = FALSE] /\ Goto(p, "lifetime")
    BY <1>3 DEF Unwatch
  <1>6. /\ job'[p].err = e /\ job'[p].o = job[p].o /\ job'[p].rows = job[p].rows
        /\ pc'[p] = "lifetime"
    BY <1>2, <1>4, <1>5, ErrWatchSet, GotoFrame DEF Pcs
  <1>7. Reached(p, arms[Arm(o(p))], o(p))'
    BY <1>1, <1>2, <1>4, <1>6 DEF Reached, o, FreshPcs, AskedPcs, ClosingPcs
  <1> QED
    BY <1>1, <1>6, <1>7, PathQuiet

\* The record of the end of lifetime x goes into the journal of arm a.
LEMMA LifetimeGoes ==
    ASSUME Shape, NEW a \in Arms, NEW x, NEW ok \in BOOLEAN, NEW new,
           new = [lifetime |-> <<x, ok>>], Log(a, new),
           Underway(arms[a], x), arms[a].lifetime = EndedBefore(x)
    PROVE  /\ \A b \in Arms : b # a => arms'[b] = arms[b]
           /\ \A k \in Attested : arms'[a][k] = arms[a][k]
           /\ arms'[a].turn = arms[a].turn /\ arms'[a].lifetime = EndedUpto(x, ok)
           /\ Underway(arms'[a], x)
  <1>1. DOMAIN new = {"lifetime"} /\ new["lifetime"] = <<x, ok>>
    OBVIOUS
  <1>2. /\ \A b \in Arms \ {a} : arms'[b] = arms[b]
        /\ \A k \in Kinds : k \in DOMAIN new => arms'[a][k] = Append(arms[a][k], new[k])
        /\ \A k \in Kinds : k \notin DOMAIN new => arms'[a][k] = arms[a][k]
    BY LogSets DEF Shape, JournalShape
  <1>3. \A k \in Attested : arms'[a][k] = arms[a][k]
    BY <1>1, <1>2 DEF Attested, Kinds
  <1>4. \A k \in {"turn", "run_start", "measurement_started", "measurement_complete",
                  "run_complete", "run_aborted"} : arms'[a][k] = arms[a][k]
    BY <1>1, <1>2 DEF Attested, Kinds
  <1>5. arms'[a].lifetime = EndedUpto(x, ok)
    BY <1>1, <1>2 DEF Kinds, EndedUpto
  <1>6. Marked(arms'[a], x)
    <2>1. "static" \in Attested /\ "runtime" \in Attested
      BY DEF Attested
    <2> QED
      BY <1>3, <2>1 DEF Underway, Marked
  <1>7. Opened(arms'[a])
    BY <1>4 DEF Underway, Opened
  <1>8. Turned(arms'[a], x)
    BY <1>4 DEF Underway, Turned
  <1>9. EndedSome(arms'[a], x)
    BY <1>5 DEF EndedSome
  <1> QED
    BY <1>2, <1>3, <1>4, <1>5, <1>6, <1>7, <1>8, <1>9 DEF Underway

LEMMA LifetimePath ==
    ASSUME RoundAssumption, RoundInv, NEW p \in Controllers, Path(p), LifetimeComplete(p)
    PROVE  Path(p)'
  <1> USE DEF LockPcs, LifePcs, WatchPcs
  <1>1. pc[p] = "lifetime" /\ UNCHANGED <<events, summary, child>>
    BY DEF LifetimeComplete, Lifetime, Campaign
  <1>2. /\ Shape /\ JobShape /\ pc \in [Controllers -> Pcs] /\ Arm(o(p)) \in Arms
        /\ o(p) \in Lifetimes /\ job[p].err \in {"none", "safety", "other"}
        /\ Underway(arms[Arm(o(p))], o(p)) /\ Reached(p, arms[Arm(o(p))], o(p))
    BY <1>1, ArmUnderway
  <1>3. PICK a, x : a = Arm(o(p)) /\ x = o(p)
    OBVIOUS
  <1>4. /\ arms[a].lifetime = EndedBefore(x)
        /\ job[p].err = "none" => Has(arms[a], x, Attested)
        /\ job[p].err = "none" /\ Timed(x) => AllTurns(arms[a])
    BY <1>1, <1>2, <1>3 DEF Reached, ClosingPcs
  <1>5. PICK ok \in BOOLEAN : ok = (job[p].err = "none" /\ ~job[p].expired)
    OBVIOUS
  <1>6. CASE ok /\ Log(a, [lifetime |-> <<x, ok>>]) /\ Timed(x) /\ Goto(p, "complete")
             /\ UNCHANGED job
    <2>1. /\ \A b \in Arms : b # a => arms'[b] = arms[b]
          /\ \A k \in Attested : arms'[a][k] = arms[a][k]
          /\ arms'[a].turn = arms[a].turn /\ arms'[a].lifetime = EndedUpto(x, ok)
          /\ Underway(arms'[a], x)
      BY <1>2, <1>3, <1>4, <1>6, LifetimeGoes
    <2>2. pc'[p] = "complete" /\ job'[p] = job[p] /\ o(p)' = x
      BY <1>2, <1>3, <1>6, GotoFrame DEF Pcs, o
    <2>3. ok = TRUE /\ job[p].err = "none"
      BY <1>5, <1>6
    <2>4. Has(arms'[a], x, Attested) /\ AllTurns(arms'[a])
      BY <1>4, <1>6, <2>1, <2>3 DEF Has, AllTurns
    <2>5. Reached(p, arms[a], x)'
      BY <2>1, <2>2, <2>3, <2>4 DEF Reached, FreshPcs, AskedPcs, ClosingPcs
    <2> QED
      BY <1>1, <1>3, <2>1, <2>2, <2>5, PathWithin
  <1>7. CASE ok /\ Log(a, [lifetime |-> <<x, ok>>]) /\ ~Timed(x) /\ Goto(p, "static")
             /\ job' = [job EXCEPT ![p] = [Ends(p) EXCEPT !.o = @ + 1]]
    <2>1. /\ \A b \in Arms : b # a => arms'[b] = arms[b]
          /\ \A k \in Attested : arms'[a][k] = arms[a][k]
          /\ arms'[a].turn = arms[a].turn /\ arms'[a].lifetime = EndedUpto(x, ok)
          /\ Underway(arms'[a], x)
      BY <1>2, <1>3, <1>4, <1>7, LifetimeGoes
    <2>2. PICK y : y = x + 1
      OBVIOUS
    <2>3. y \in Lifetimes /\ Arm(y) = a /\ Timed(y)
      BY <1>2, <1>3, <1>7, <2>2, ArmFacts
    <2>4. [Ends(p) EXCEPT !.o = @ + 1] = [Ends(p) EXCEPT !.o = y]
      BY <1>3, <2>2 DEF Ends, NoJob
    <2>5. job'[p].o = y /\ job'[p].rows = job[p].rows /\ job'[p].err = "none"
      BY <1>2, <1>7, <2>3, <2>4, EndsSets
    <2>6. pc'[p] = "static" /\ o(p)' = y /\ Arm(o(p))' = a
      BY <1>2, <1>7, <2>3, <2>5, GotoFrame DEF Pcs, o
    <2>7. Before(y) = Upto(x) /\ EndedBefore(y) = EndedUpto(x, TRUE)
      BY <1>2, <1>3, <1>7, <2>2, NextLifetime
    <2>8. ok = TRUE /\ job[p].err = "none"
      BY <1>5, <1>7
    <2>9. Has(arms'[a], y, {})
      BY <1>4, <2>1, <2>7, <2>8 DEF Has
    <2>10. arms'[a].turn = <<>> /\ Opened(arms'[a])
      BY <1>7, <2>1 DEF Underway, Turned
    <2>11. Turned(arms'[a], y)
      BY <2>3, <2>10 DEF Turned, RoundAssumption
    <2>12. arms'[a].lifetime = EndedBefore(y)
      BY <2>1, <2>7, <2>8
    <2>13. Underway(arms'[a], y)
      BY <2>9, <2>10, <2>11, <2>12, HasMarked DEF Underway, EndedSome
    <2>14. Reached(p, arms[a], y)'
      BY <2>5, <2>6, <2>9, <2>10, <2>12 DEF Reached, FreshPcs, AskedPcs, ClosingPcs
    <2>15. Underway(arms[Arm(o(p))], o(p))' /\ Reached(p, arms[Arm(o(p))], o(p))'
      BY <2>6, <2>13, <2>14
    <2> QED
      BY <1>1, <1>3, <2>1, <2>5, <2>6, <2>15, PathAlong
  <1>8. CASE ~ok /\ Log(a, [lifetime |-> <<x, ok>>]) /\ Goto(p, "abort")
             /\ job' = [job EXCEPT ![p].err = IF @ = "none" THEN "other" ELSE @]
    <2>1. /\ \A b \in Arms : b # a => arms'[b] = arms[b]
          /\ Underway(arms'[a], x)
      BY <1>2, <1>3, <1>4, <1>8, LifetimeGoes
    <2>2. PICK e : e = IF job[p].err = "none" THEN "other" ELSE job[p].err
      OBVIOUS
    <2>3. job' = [job EXCEPT ![p].err = e] /\ e \in {"none", "safety", "other"}
      BY <1>2, <1>8, <2>2
    <2>4. /\ job'[p].o = job[p].o /\ job'[p].rows = job[p].rows
          /\ pc'[p] = "abort" /\ o(p)' = x
      BY <1>2, <1>3, <1>8, <2>3, ErrSet, GotoFrame, ZenonT(60) DEF Pcs, o
    <2>5. Reached(p, arms[a], x)'
      BY <2>4 DEF Reached, FreshPcs, AskedPcs, ClosingPcs
    <2> QED
      BY <1>1, <1>3, <2>1, <2>4, <2>5, PathWithin
  <1>9. CASE UNCHANGED arms /\ Goto(p, "abort") /\ job' = [job EXCEPT ![p].err = "other"]
    <2>1. /\ job'[p].o = job[p].o /\ job'[p].rows = job[p].rows
          /\ pc'[p] = "abort"
      BY <1>2, <1>9, ErrSet, GotoFrame DEF Pcs
    <2>2. Reached(p, arms[Arm(o(p))], o(p))'
      BY <2>1 DEF Reached, FreshPcs, AskedPcs, ClosingPcs
    <2> QED
      BY <1>1, <1>9, <2>1, <2>2, PathQuiet
  <1> QED
    BY <1>3, <1>5, <1>6, <1>7, <1>8, <1>9 DEF LifetimeComplete

\* The watchdog and the deadline, of which the journals show nothing.
LEMMA TripPath ==
    ASSUME RoundAssumption, RoundInv, NEW p \in Controllers, Path(p),
           Trip(p) \/ Expire(p)
    PROVE  Path(p)'
  <1>1. /\ pc[p] \in LockPcs \ {"arm", "score"}
        /\ UNCHANGED <<arms, events, summary, child, pc>>
    BY DEF Trip, Expire, files, RoundInv, Own, WatchPcs, LifePcs, LockPcs
  <1>2. JobShape /\ Reached(p, arms[Arm(o(p))], o(p))
    BY <1>1, ArmUnderway
  <1>3. /\ job'[p].o = job[p].o /\ job'[p].rows = job[p].rows
        /\ job'[p].err = job[p].err /\ job'[p].cleanup = job[p].cleanup
    BY <1>2, TrippedSet, TrippedFailedSet, ExpiredSet DEF Trip, Expire
  <1>4. Reached(p, arms[Arm(o(p))], o(p))'
    BY <1>1, <1>2, <1>3 DEF Reached, o, FreshPcs, AskedPcs, ClosingPcs
  <1> QED
    BY <1>1, <1>3, <1>4, PathQuiet

(***************************************************************************)
(* The files at the ends of the arms and of the campaign.                   *)
(***************************************************************************)

LEMMA NoWriteFails ==
    ASSUME blame' = {}
    PROVE  ~WriteFails
  BY DEF WriteFails

LEMMA BeginPath ==
    ASSUME RoundAssumption, RoundInv, NEW p \in Controllers, Path(p), ArmBegins(p),
           blame' = {}
    PROVE  Path(p)'
  <1> USE DEF LockPcs, LifePcs, WatchPcs
  <1>1. pc[p] = "arm" /\ UNCHANGED <<events, summary, child>>
    BY DEF ArmBegins, Campaign
  <1>2. /\ Shape /\ JobShape /\ pc \in [Controllers -> Pcs] /\ Arm(o(p)) \in Arms
        /\ o(p) \in Lifetimes /\ Place(p) /\ Arm(o(p)) \in Nat
    BY <1>1, HolderFacts, ArmFacts
  <1>3. Course(p)
    BY <1>1 DEF Path
  <1>4. PICK a, x : a = Arm(o(p)) /\ x = o(p)
    OBVIOUS
  <1>5. /\ ~Timed(x) /\ job[p].err = "none" /\ arms[a] = Blank
    <2>1. Len(job[p].rows) = a - 1 /\ ~Timed(x)
      BY <1>1, <1>2, <1>4 DEF Place
    <2>2. a > Len(job[p].rows)
      BY <1>2, <1>4, <2>1
    <2> QED
      BY <1>1, <1>2, <1>3, <1>4, <2>1, <2>2 DEF Course
  <1>6. PICK new : new = [run_start |-> a, measurement_started |-> a]
    OBVIOUS
  <1>7. Log(a, new) /\ Goto(p, "preflight") /\ UNCHANGED job
    BY <1>4, <1>5, <1>6, NoWriteFails DEF ArmBegins, ArmFresh, o
  <1>8. DOMAIN new = {"run_start", "measurement_started"}
    BY <1>6
  <1>9. /\ \A b \in Arms \ {a} : arms'[b] = arms[b]
        /\ \A k \in Kinds : k \in DOMAIN new => arms'[a][k] = Append(<<>>, new[k])
        /\ \A k \in Kinds : k \notin DOMAIN new => arms'[a][k] = <<>>
    BY <1>2, <1>4, <1>5, <1>7, LogSets DEF Shape, JournalShape, Blank
  <1>10. Len(arms'[a].run_start) = 1 /\ Len(arms'[a].measurement_started) = 1
    <2>1. \A k \in {"run_start", "measurement_started"} : arms'[a][k] = Append(<<>>, new[k])
      BY <1>8, <1>9 DEF Kinds
    <2>2. \A k \in {"run_start", "measurement_started"} : Len(arms'[a][k]) = 1
      BY <2>1, OneLong
    <2> QED
      BY <2>2
  <1>11. \A k \in Kinds \ {"run_start", "measurement_started"} : arms'[a][k] = <<>>
    BY <1>8, <1>9
  <1>12. /\ \A k \in Attested : arms'[a][k] = <<>>
         /\ arms'[a].turn = <<>> /\ arms'[a].lifetime = <<>>
         /\ Opened(arms'[a])
    BY <1>10, <1>11 DEF Opened, Kinds, Attested
  <1>13. Before(x) = <<>> /\ EndedBefore(x) = <<>>
    BY <1>5, QualityEntries
  <1>14. Has(arms'[a], x, {})
    BY <1>12, <1>13 DEF Has
  <1>15. Turned(arms'[a], x)
    BY <1>12 DEF Turned, RoundAssumption
  <1>16. Underway(arms'[a], x)
    BY <1>12, <1>13, <1>14, <1>15, HasMarked DEF Underway, EndedSome
  <1>17. pc'[p] = "preflight" /\ job'[p] = job[p] /\ o(p)' = x
    BY <1>2, <1>4, <1>7, GotoFrame DEF Pcs, o
  <1>18. Reached(p, arms[a], x)'
    BY <1>5, <1>12, <1>13, <1>14, <1>17 DEF Reached, FreshPcs, AskedPcs, ClosingPcs
  <1>19. Underway(arms[Arm(o(p))], o(p))' /\ Reached(p, arms[Arm(o(p))], o(p))'
    BY <1>4, <1>16, <1>17, <1>18
  <1> QED
    BY <1>1, <1>4, <1>9, <1>17, <1>19, PathAlong

\* The row of an arm is added.
LEMMA RowPath ==
    ASSUME RoundAssumption, RoundInv, NEW p \in Controllers, Path(p),
           pc[p] \in {"abort", "complete"}, pc'[p] \in {"arm", "score"},
           NEW row \in Row, NEW x \in Lifetimes, AddsRow(p, row, x),
           NEW a, a = Arm(o(p)), \A b \in Arms : b # a => arms'[b] = arms[b],
           UNCHANGED <<events, summary, child>>,
           Good(a, row)' \/ (pc'[p] = "score" /\ Bad(a, row)'),
           pc'[p] = "score" /\ a # NArms => Bad(a, row)'
    PROVE  Path(p)'
  <1> USE DEF LockPcs, LifePcs, WatchPcs
  <1>1. /\ o(p) \in Lifetimes /\ a \in Arms /\ Place(p) /\ Shape /\ JobShape /\ a \in Nat
    BY HolderFacts, ArmFacts
  <1>2. PICK n, old, now : n = Len(job[p].rows) /\ old = job[p].rows /\ now = job'[p].rows
    OBVIOUS
  <1>3. n = a - 1
    BY <1>1, <1>2 DEF Place
  <1>4. /\ Len(now) = a /\ now[a] = row /\ job'[p].err = "none"
        /\ \A b \in 1 .. a - 1 : now[b] = old[b]
    <2>1. /\ job'[p].err = "none"
          /\ Len(now) = n + 1 /\ now[n + 1] = row
          /\ \A b \in 1 .. n : now[b] = old[b]
      BY <1>1, <1>2, RowAdded
    <2>2. n + 1 = a
      BY <1>1, <1>3
    <2> QED
      BY <1>3, <2>1, <2>2
  <1>5. \A b \in 1 .. a - 1 : b \in Arms /\ b # a
    BY <1>1 DEF Arms, RoundAssumption
  <1>6. \A b \in 1 .. a : b \in 1 .. a - 1 \/ b = a
    BY <1>1
  <1>7. summary = None /\ events = Opening /\ child = None /\ Course(p)
    BY DEF Path, LastPcs
  <1>8. \A b \in 1 .. a - 1 : Good(b, old[b])
    BY <1>2, <1>3, <1>7 DEF Course
  <1>9. \A b \in 1 .. a : Good(b, now[b])' \/ (pc'[p] = "score" /\ b = a /\ Bad(b, now[b])')
    <2>1. TAKE b \in 1 .. a
    <2>2. CASE b = a
      BY <1>4, <2>2
    <2>3. CASE b \in 1 .. a - 1
      <3>1. Good(b, now[b]) /\ arms'[b] = arms[b]
        BY <1>4, <1>5, <1>8, <2>3
      <3> QED
        BY <3>1, GoodKept
    <2> QED
      BY <1>6, <2>2, <2>3
  <1>10. \A b \in Arms : b > a => arms'[b] = Blank
    <2>1. TAKE b \in Arms
    <2>2. HAVE b > a
    <2>3. b > n /\ b # a /\ b \in Nat
      BY <1>1, <1>3, <2>2 DEF Arms, RoundAssumption
    <2> QED
      BY <1>2, <1>7, <2>3 DEF Course
  <1>11. Course(p)'
    <2>1. \A b \in 1 .. Len(now) : \/ Good(b, now[b])'
                                   \/ pc'[p] = "score" /\ b = Len(now) /\ Bad(b, now[b])'
      BY <1>4, <1>9
    <2>2. pc'[p] = "score" /\ Len(now) # NArms => Bad(Len(now), now[Len(now)])'
      BY <1>4
    <2> QED
      BY <1>2, <1>4, <1>10, <2>1, <2>2 DEF Course
  <1> QED
    BY <1>7, <1>11 DEF Path, AuditPcs

LEMMA AbortPath ==
    ASSUME RoundAssumption, RoundInv, NEW p \in Controllers, Path(p), ArmAborts(p),
           blame' = {}
    PROVE  Path(p)'
  <1> USE DEF LockPcs, LifePcs, WatchPcs
  <1>1. pc[p] = "abort" /\ UNCHANGED <<events, summary, child>>
    BY DEF ArmAborts, Campaign
  <1>2. /\ Shape /\ JobShape /\ pc \in [Controllers -> Pcs] /\ Arm(o(p)) \in Arms
        /\ o(p) \in Lifetimes /\ Underway(arms[Arm(o(p))], o(p))
    BY <1>1, ArmUnderway
  <1>3. PICK a, x, row, new :
          /\ a = Arm(o(p)) /\ x = o(p) /\ row = AbortedRow(p)
          /\ new = IF job[p].err = "safety" THEN [breach |-> a, run_aborted |-> a]
                   ELSE [run_aborted |-> a]
    OBVIOUS
  <1>4. /\ Log(a, new) /\ Goto(p, "score")
        /\ job' = [job EXCEPT ![p] = [Ends(p) EXCEPT !.rows = Append(@, row)]]
    BY <1>3, NoWriteFails DEF ArmAborts, AbortedRow
  <1>5. DOMAIN new \subseteq {"breach", "run_aborted"}
    BY <1>3
  <1>6. /\ \A b \in Arms \ {a} : arms'[b] = arms[b]
        /\ \A k \in Kinds : k \notin DOMAIN new => arms'[a][k] = arms[a][k]
    BY <1>2, <1>3, <1>4, LogSets DEF Shape, JournalShape
  <1>7. /\ \A k \in Attested : arms'[a][k] = arms[a][k]
        /\ arms'[a].turn = arms[a].turn /\ arms'[a].lifetime = arms[a].lifetime
    BY <1>5, <1>6 DEF Kinds, Attested
  <1>8. /\ Marked(arms'[a], x) /\ EndedSome(arms'[a], x) /\ Turned(arms'[a], x)
    <2>1. "static" \in Attested /\ "runtime" \in Attested
      BY DEF Attested
    <2> QED
      BY <1>2, <1>3, <1>7, <2>1 DEF Underway, Marked, EndedSome, Turned
  <1>9. row.quality = Timed(x) /\ ~row.timed /\ ~row.within /\ row.turns = arms'[a].turn
    BY <1>2, <1>3, <1>7
    DEF AbortedRow, _timed_turn_prefix_from_journal, TurnsOf, Underway, Turned
  <1>10. /\ Timed(x) => QualityOf(arms'[a], 2 * a - 1)
         /\ PrefixOf(arms'[a].static, Both(a)) /\ PrefixOf(arms'[a].runtime, arms'[a].static)
    BY <1>2, <1>3, <1>8, FailedJournal
  <1>11. Bad(a, row)'
    BY <1>8, <1>9, <1>10 DEF Bad, Turned, TurnsOf, quality_attestation, QualityOf
  <1>12. row \in Row /\ AddsRow(p, row, x) /\ pc'[p] = "score"
    BY <1>2, <1>3, <1>4, RowTypes, RowAppended, GotoFrame DEF Pcs
  <1> QED
    BY <1>1, <1>2, <1>3, <1>6, <1>11, <1>12, RowPath

LEMMA CompletePath ==
    ASSUME RoundAssumption, RoundInv, NEW p \in Controllers, Path(p), ArmCompletes(p),
           blame' = {}
    PROVE  Path(p)'
  <1> USE DEF LockPcs, LifePcs, WatchPcs
  <1>1. pc[p] = "complete" /\ UNCHANGED <<events, summary, child>>
    BY DEF ArmCompletes, Campaign
  <1>2. /\ Shape /\ JobShape /\ pc \in [Controllers -> Pcs] /\ Arm(o(p)) \in Arms
        /\ o(p) \in Lifetimes /\ Underway(arms[Arm(o(p))], o(p))
        /\ Reached(p, arms[Arm(o(p))], o(p))
    BY <1>1, ArmUnderway
  <1>3. Timed(o(p))
    BY <1>1, HolderFacts DEF Place
  <1>4. PICK a, x, row, next, where, new :
          /\ a = Arm(o(p)) /\ x = o(p) /\ row = CompletedRow(p)
          /\ next = IF a = NArms THEN x ELSE x + 1
          /\ where = IF a = NArms THEN "score" ELSE "arm"
          /\ new = [measurement_complete |-> a, run_complete |-> a]
    OBVIOUS
  <1>5. /\ Log(a, new) /\ Goto(p, where)
        /\ job' = [job EXCEPT ![p] = [Ends(p) EXCEPT !.rows = Append(@, row),
                                          !.o = IF Arm(o(p)) = NArms THEN @ ELSE @ + 1]]
    BY <1>4, NoWriteFails DEF ArmCompletes, CompletedRow
  <1>6. DOMAIN new = {"measurement_complete", "run_complete"}
    BY <1>4
  <1>7. /\ \A b \in Arms \ {a} : arms'[b] = arms[b]
        /\ \A k \in Kinds : k \in DOMAIN new => arms'[a][k] = Append(arms[a][k], new[k])
        /\ \A k \in Kinds : k \notin DOMAIN new => arms'[a][k] = arms[a][k]
    BY <1>2, <1>4, <1>5, LogSets DEF Shape, JournalShape
  <1>8. /\ \A k \in Attested : arms'[a][k] = arms[a][k]
        /\ \A k \in {"turn", "lifetime", "run_start", "measurement_started",
                     "run_aborted"} : arms'[a][k] = arms[a][k]
    BY <1>6, <1>7 DEF Kinds, Attested
  <1>9. /\ Len(arms'[a].run_start) = 1 /\ Len(arms'[a].measurement_started) = 1
        /\ arms'[a].run_aborted = <<>>
    BY <1>2, <1>4, <1>8 DEF Underway, Opened
  <1>10. Len(arms'[a].measurement_complete) = 1 /\ Len(arms'[a].run_complete) = 1
    <2>1. arms[a].measurement_complete = <<>> /\ arms[a].run_complete = <<>>
      BY <1>2, <1>4 DEF Underway, Opened
    <2>2. \A k \in {"measurement_complete", "run_complete"} :
             arms'[a][k] = Append(<<>>, new[k])
      BY <1>6, <1>7, <2>1 DEF Kinds
    <2>3. \A k \in {"measurement_complete", "run_complete"} : Len(arms'[a][k]) = 1
      BY <2>2, OneLong
    <2> QED
      BY <2>3
  <1>11. /\ Has(arms'[a], x, Attested) /\ arms'[a].lifetime = EndedUpto(x, TRUE)
         /\ AllTurns(arms'[a])
    BY <1>1, <1>2, <1>4, <1>8 DEF Reached, Has, AllTurns
  <1>12. /\ \A k \in Attested : arms'[a][k] = Both(a)
         /\ arms'[a].lifetime = <<<<2 * a - 1, TRUE>>, <<2 * a, TRUE>>>>
         /\ QualityOf(arms'[a], 2 * a - 1)
    <2>1. x \in Lifetimes /\ Timed(x) /\ a = Arm(x)
      BY <1>2, <1>3, <1>4
    <2>2. PICK j : j = arms'[a]
      OBVIOUS
    <2>3. Has(j, x, Attested) /\ j.lifetime = EndedUpto(x, TRUE)
      BY <1>11, <2>2
    <2>4. /\ \A k \in Attested : j[k] = Both(a)
          /\ j.lifetime = <<<<2 * a - 1, TRUE>>, <<2 * a, TRUE>>>>
          /\ QualityOf(j, 2 * a - 1)
      BY <2>1, <2>3, CompletedJournal
    <2> QED
      BY <2>2, <2>4
  <1>13. Admitted(row) /\ row.turns = arms'[a].turn
    BY <1>4, <1>8 DEF CompletedRow, Admitted, TurnsOf
  <1>14. completed_lifecycle(a)'
    BY <1>9, <1>10, <1>12 DEF completed_lifecycle
  <1>15. Good(a, row)'
    BY <1>11, <1>12, <1>13, <1>14 DEF Good, TurnsOf, quality_attestation, QualityOf
  <1>16. /\ next \in Lifetimes /\ where \in {"arm", "score"}
         /\ where = "score" => a = NArms
    BY <1>2, <1>3, <1>4, ArmFacts
  <1>17. row \in Row /\ AddsRow(p, row, next) /\ pc'[p] = where
    BY <1>2, <1>4, <1>5, <1>16, RowTypes, RowAppendedOn, GotoFrame DEF Pcs
  <1> QED
    BY <1>1, <1>4, <1>7, <1>15, <1>16, <1>17, RowPath

LEMMA SeqLength ==
    ASSUME NEW S, NEW n \in Nat, NEW s \in [1 .. n -> S]
    PROVE  Len(s) = n
  <1>1. s \in Seq(S)
    BY SeqDef
  <1>2. Len(s) \in Nat /\ DOMAIN s = 1 .. Len(s) /\ DOMAIN s = 1 .. n
    BY <1>1, LenProperties
  <1> QED
    BY <1>2

\* What a row of each kind is to validate_sm121_cache_performance_lifetimes.
LEMMA GoodRow ==
    ASSUME RoundAssumption, NEW a, NEW row, Good(a, row)
    PROVE  /\ Admitted(row) /\ Len(row.turns) = NTurns /\ \A i \in 1 .. NTurns : row.turns[i]
           /\ NTurns \in 1 .. NTurns
           /\ TurnsOf(a) = row.turns /\ quality_attestation(a) /\ completed_lifecycle(a)
           /\ attestation_topology(a, row)
  <1>1. /\ row.turns = arms[a].turn /\ AllTurns(arms[a]) /\ Admitted(row)
        /\ quality_attestation(a) /\ completed_lifecycle(a)
    BY DEF Good, TurnsOf
  <1>2. arms[a].static = Both(a) /\ arms[a].runtime = Both(a)
    BY <1>1 DEF completed_lifecycle, Attested
  <1>3. PrefixOf(Both(a), Both(a))
    BY DEF PrefixOf, Both
  <1> QED
    BY <1>1, <1>2, <1>3 DEF AllTurns, TurnsOf, attestation_topology, RoundAssumption

LEMMA BadRow ==
    ASSUME NEW a, NEW row, Bad(a, row)
    PROVE  /\ ~Admitted(row) /\ ~row.timed
           /\ Len(row.turns) <= NTurns /\ \A i \in 1 .. Len(row.turns) - 1 : row.turns[i]
           /\ ~row.quality => row.turns = <<>>
           /\ TurnsOf(a) = row.turns
           /\ row.quality => quality_attestation(a)
           /\ attestation_topology(a, row)
  BY DEF Bad, Admitted, attestation_topology

LEMMA UnstartedRow ==
    ASSUME RoundAssumption, NEW a, NEW row, arms[a] = Blank, row = _unstarted_lifetime
    PROVE  /\ ~row.quality /\ ~row.timed /\ ~row.within /\ row.turns = <<>>
           /\ ~Admitted(row) /\ row \in Row /\ attestation_topology(a, row)
  <1>1. /\ ~row.quality /\ ~row.timed /\ ~row.within /\ row.turns = <<>>
        /\ ~Admitted(row)
    BY DEF _unstarted_lifetime, Admitted
  <1>2. row \in Row
    <2>1. PICK e : e = <<>>
      OBVIOUS
    <2>2. e \in Seq(BOOLEAN)
      BY <2>1
    <2> QED
      BY <2>1, <2>2 DEF _unstarted_lifetime, Row
  <1>3. arms[a].static = <<>> /\ arms[a].runtime = <<>>
    BY DEF Blank, Kinds, Attested
  <1>4. PrefixOf(<<>>, Both(a)) /\ PrefixOf(<<>>, <<>>)
    BY DEF PrefixOf, Both
  <1> QED
    BY <1>1, <1>2, <1>3, <1>4 DEF attestation_topology

\* The rows that a campaign scores are valid, and the journals bear them out.
LEMMA ScoredRows ==
    ASSUME RoundAssumption, RoundInv, NEW p \in Controllers, Path(p), pc[p] = "score",
           NEW rows, rows = [a \in Arms |-> IF a <= Len(job[p].rows) THEN job[p].rows[a]
                                            ELSE _unstarted_lifetime]
    PROVE  /\ rows \in [Arms -> Row]
           /\ validate_sm121_cache_performance_lifetimes(rows)
           /\ \A a \in Arms : attestation_topology(a, rows[a])
           /\ \A a \in Arms : Admitted(rows[a]) =>
                 TurnsOf(a) = rows[a].turns /\ quality_attestation(a)
                 /\ completed_lifecycle(a)
           /\ \A a \in Arms : ~Admitted(rows[a]) /\ (\A b \in 1 .. a - 1 : Admitted(rows[b])) =>
                 /\ TurnsOf(a) = rows[a].turns
                 /\ rows[a].quality => quality_attestation(a)
                 /\ \A b \in a + 1 .. NArms : arms[b] = Blank
  <1>1. pc[p] \in LockPcs
    BY DEF LockPcs
  <1>2. PICK m, old : m = Len(job[p].rows) /\ old = job[p].rows
    OBVIOUS
  <1>3. /\ m \in Arms /\ m \in Nat /\ old \in Seq(Row)
    <2>1. m = Arm(o(p)) /\ m \in Arms /\ JobShape
      BY <1>1, <1>2, HolderFacts DEF Place
    <2> QED
      BY <1>2, <2>1 DEF JobShape, Job, Arms, RoundAssumption
  <1>4. Course(p)
    BY <1>1 DEF Path
  <1>5. /\ \A a \in Arms : a \in Nat /\ a >= 1 /\ a <= NArms
        /\ \A a \in Arms : a <= m => a \in 1 .. m /\ rows[a] = old[a]
        /\ \A a \in Arms : ~(a <= m) => rows[a] = _unstarted_lifetime
    BY <1>2, <1>3 DEF Arms, RoundAssumption
  <1>6. ASSUME NEW a \in Arms, a <= m
        PROVE  Good(a, rows[a]) \/ (a = m /\ Bad(a, rows[a]))
    BY <1>2, <1>4, <1>5, <1>6 DEF Course
  <1>7. ASSUME NEW a \in Arms, ~(a <= m)
        PROVE  arms[a] = Blank /\ Bad(m, rows[m])
    <2>1. arms[a] = Blank
      BY <1>2, <1>3, <1>4, <1>5, <1>7 DEF Course
    <2>2. m # NArms
      BY <1>3, <1>5, <1>7
    <2> QED
      BY <1>2, <1>3, <1>4, <1>5, <2>1, <2>2 DEF Course
  <1>8. rows \in [Arms -> Row]
    <2>1. ASSUME NEW a \in Arms PROVE rows[a] \in Row
      <3>1. CASE a <= m
        BY <1>2, <1>3, <1>5, <3>1
      <3>2. CASE ~(a <= m)
        BY <1>5, <1>7, <3>2, UnstartedRow
      <3> QED
        BY <3>1, <3>2
    <2> QED
      BY <2>1
  <1>9. Len(rows) = NArms
    BY <1>8, SeqLength DEF Arms, RoundAssumption
  <1>10. ASSUME NEW a \in Arms, a <= m
         PROVE  \A b \in 1 .. a - 1 : b \in Arms /\ Admitted(rows[b])
    <2>1. TAKE b \in 1 .. a - 1
    <2>2. b \in Arms /\ b <= m /\ b # m
      BY <1>3, <1>5, <1>10 DEF Arms, RoundAssumption
    <2>3. Good(b, rows[b])
      BY <1>6, <2>2
    <2> QED
      BY <2>2, <2>3, GoodRow
  <1>11. ASSUME NEW a \in Arms, NEW r, r = rows[a]
         PROVE  /\ Len(r.turns) <= NTurns
                /\ \A i \in 1 .. Len(r.turns) - 1 : r.turns[i]
                /\ ~r.quality => ~r.timed /\ r.turns = <<>>
                /\ r.timed => Len(r.turns) = NTurns /\ r.turns[NTurns]
                /\ (\E b \in 1 .. a - 1 : ~Admitted(rows[b])) =>
                      ~r.quality /\ ~r.timed /\ ~r.within /\ r.turns = <<>>
    <2>1. CASE ~(a <= m)
      BY <1>5, <1>7, <1>11, <2>1, UnstartedRow DEF RoundAssumption
    <2>2. CASE a <= m /\ Good(a, r)
      <3>1. /\ Admitted(r) /\ Len(r.turns) = NTurns /\ \A i \in 1 .. NTurns : r.turns[i]
            /\ NTurns \in 1 .. NTurns
        BY <2>2, GoodRow
      <3>2. NTurns \in Nat /\ \A i \in 1 .. NTurns - 1 : i \in 1 .. NTurns
        BY DEF RoundAssumption
      <3> QED
        BY <1>10, <2>2, <3>1, <3>2 DEF Admitted
    <2>3. CASE a <= m /\ Bad(a, r)
      BY <1>10, <2>3, BadRow
    <2> QED
      BY <1>6, <1>11, <2>1, <2>2, <2>3
  <1>12. validate_sm121_cache_performance_lifetimes(rows)
    BY <1>9, <1>11 DEF validate_sm121_cache_performance_lifetimes
  <1>13. ASSUME NEW a \in Arms
         PROVE  /\ attestation_topology(a, rows[a])
                /\ Admitted(rows[a]) => TurnsOf(a) = rows[a].turns
                                        /\ quality_attestation(a) /\ completed_lifecycle(a)
    <2>1. CASE ~(a <= m)
      BY <1>5, <1>7, <2>1, UnstartedRow
    <2>2. CASE Good(a, rows[a])
      BY <2>2, GoodRow
    <2>3. CASE Bad(a, rows[a])
      BY <2>3, BadRow
    <2> QED
      BY <1>6, <2>1, <2>2, <2>3
  <1>14. ASSUME NEW a \in Arms, ~Admitted(rows[a]), \A b \in 1 .. a - 1 : Admitted(rows[b])
         PROVE  /\ TurnsOf(a) = rows[a].turns
                /\ rows[a].quality => quality_attestation(a)
                /\ \A b \in a + 1 .. NArms : arms[b] = Blank
    <2>1. a <= m
      <3>1. SUFFICES ASSUME ~(a <= m) PROVE FALSE
        OBVIOUS
      <3>2. ~Admitted(rows[m])
        BY <1>7, <3>1, BadRow
      <3>3. m \in 1 .. a - 1
        <4>1. m \in Nat /\ a \in Nat /\ m >= 1 /\ ~(a <= m)
          BY <1>3, <1>5, <3>1
        <4> QED
          BY <4>1
      <3> QED
        BY <1>14, <3>2, <3>3
    <2>2. a = m /\ Bad(a, rows[a])
      BY <1>6, <1>14, <2>1, GoodRow
    <2>3. \A b \in a + 1 .. NArms : b \in Arms /\ ~(b <= m)
      BY <1>3, <2>2 DEF Arms, RoundAssumption
    <2>4. /\ TurnsOf(a) = rows[a].turns
          /\ rows[a].quality => quality_attestation(a)
      BY <2>2, BadRow
    <2>5. \A b \in a + 1 .. NArms : arms[b] = Blank
      BY <1>7, <2>3
    <2> QED
      BY <2>4, <2>5
  <1> QED
    BY <1>8, <1>12, <1>13, <1>14

\* A summary of such rows is a terminal one.
LEMMA Terminal ==
    ASSUME NEW rows, NEW d, child' = [rows |-> rows, decision |-> d], child' # None,
           UNCHANGED arms,
           validate_sm121_cache_performance_lifetimes(rows),
           \A a \in Arms : attestation_topology(a, rows[a]),
           \A a \in Arms : Admitted(rows[a]) =>
                 TurnsOf(a) = rows[a].turns /\ quality_attestation(a)
                 /\ completed_lifecycle(a),
           \A a \in Arms : ~Admitted(rows[a]) /\ (\A b \in 1 .. a - 1 : Admitted(rows[b])) =>
                 /\ TurnsOf(a) = rows[a].turns
                 /\ rows[a].quality => quality_attestation(a)
                 /\ \A b \in a + 1 .. NArms : arms[b] = Blank,
           d \in score_sm121_cache_performance_campaign(rows)
    PROVE  _validate_sm121_cache_performance_source' = "terminal"
  <1>1. child'.rows = rows /\ child'.decision = d
    OBVIOUS
  <1>2. \A a \in Arms : attestation_topology(a, rows[a])'
    BY TopologyKept
  <1>3. \A a \in Arms : Admitted(rows[a]) =>
           TurnsOf(a)' = rows[a].turns /\ quality_attestation(a)' /\ completed_lifecycle(a)'
    BY TopologyKept
  <1>4. \A a \in Arms : ~Admitted(rows[a]) /\ (\A b \in 1 .. a - 1 : Admitted(rows[b])) =>
           /\ TurnsOf(a)' = rows[a].turns
           /\ rows[a].quality => quality_attestation(a)'
           /\ \A b \in a + 1 .. NArms : arms'[b] = Blank
    BY TopologyKept
  <1> QED
    BY <1>1, <1>2, <1>3, <1>4 DEF _validate_sm121_cache_performance_source

LEMMA ScorePath ==
    ASSUME RoundAssumption, RoundInv, NEW p \in Controllers, Path(p), Score(p),
           blame' = {}
    PROVE  Path(p)'
  <1>1. /\ pc[p] = "score" /\ pc[p] \in LockPcs
        /\ UNCHANGED <<events, summary, arms>>
    BY DEF Score, Campaign, LockPcs
  <1>2. PICK rows :
          rows = [a \in Arms |-> IF a <= Len(job[p].rows) THEN job[p].rows[a]
                                 ELSE _unstarted_lifetime]
    OBVIOUS
  <1>3. /\ rows \in [Arms -> Row]
        /\ validate_sm121_cache_performance_lifetimes(rows)
        /\ \A a \in Arms : attestation_topology(a, rows[a])
        /\ \A a \in Arms : Admitted(rows[a]) =>
              TurnsOf(a) = rows[a].turns /\ quality_attestation(a)
              /\ completed_lifecycle(a)
        /\ \A a \in Arms : ~Admitted(rows[a]) /\ (\A b \in 1 .. a - 1 : Admitted(rows[b])) =>
              /\ TurnsOf(a) = rows[a].turns
              /\ rows[a].quality => quality_attestation(a)
              /\ \A b \in a + 1 .. NArms : arms[b] = Blank
    BY <1>1, <1>2, ScoredRows
  <1>4. PICK d \in score_sm121_cache_performance_campaign(rows) :
          /\ child' = [rows |-> rows, decision |-> d]
          /\ Goto(p, "audit") /\ job' = [job EXCEPT ![p] = NoJob]
    BY <1>2, <1>3, NoWriteFails DEF Score
  <1>5. d \in Decisions
    BY <1>4 DEF score_sm121_cache_performance_campaign, Decisions
  <1>6. child' \in ChildSummary /\ child' # None
    BY <1>3, <1>4, <1>5 DEF ChildSummary, RoundAssumption
  <1>7. _validate_sm121_cache_performance_source' = "terminal"
    BY <1>1, <1>3, <1>4, <1>6, Terminal
  <1>8. pc'[p] = "audit"
    BY <1>1, <1>4, HolderFacts, GotoFrame DEF Pcs
  <1>9. summary = None /\ events = Opening
    BY <1>1 DEF Path, LastPcs
  <1> QED
    BY <1>1, <1>6, <1>7, <1>8, <1>9
    DEF Path, Borne, AuditPcs, LastPcs, LockPcs, LifePcs, WatchPcs

(***************************************************************************)
(* The files around the campaign.                                           *)
(***************************************************************************)

\* The source validator of a campaign that was not started.
LEMMA UnstartedSource ==
    ASSUME Untouched
    PROVE  _validate_sm121_cache_performance_source = "unstarted"
  BY DEF Untouched, _validate_sm121_cache_performance_source

LEMMA SummaryTyped ==
    ASSUME RoundAssumption, child \in ChildSummary
    PROVE  _summary_payload(TRUE) \in ScoredSummary /\ _summary_payload(TRUE) # None
  <1>1. child.decision \in Decisions
    BY DEF ChildSummary
  <1>2. PICK v : v = _decision_from_child(TRUE)
    OBVIOUS
  <1>3. v \in [status : {"partial", "complete"}, decision : {"inconclusive", "retain", "reject"}]
    <2>1. PICK s, d : /\ s = ChildStatus(child.decision)
                      /\ d = CASE child.decision = "retain_b" -> "retain"
                               [] child.decision = "retain_a" -> "reject"
                               [] OTHER -> "inconclusive"
      OBVIOUS
    <2>2. s \in {"partial", "complete"} /\ d \in {"inconclusive", "retain", "reject"}
      BY <2>1 DEF ChildStatus
    <2>3. v = [status |-> s, decision |-> d]
      BY <1>2, <2>1 DEF _decision_from_child
    <2> QED
      BY <2>2, <2>3
  <1>4. PICK n : n = Cardinality({a \in Arms : Admitted(child.rows[a])})
    OBVIOUS
  <1>5. n \in 0 .. NArms
    <2>1. IsFiniteSet(Arms) /\ Cardinality(Arms) = NArms
      BY FS_Interval DEF Arms, RoundAssumption
    <2>2. {a \in Arms : Admitted(child.rows[a])} \subseteq Arms
      OBVIOUS
    <2>3. n \in Nat /\ n <= NArms
      BY <1>4, <2>1, <2>2, FS_Subset, FS_CardinalityType
    <2> QED
      BY <2>3 DEF RoundAssumption
  <1>6. PICK b \in BOOLEAN, d \in Decisions : b = TRUE /\ d = child.decision
    BY <1>1
  <1>7. _summary_payload(TRUE) =
          [kind |-> "scored", verdict |-> v, audit |-> b, decision |-> d, arms |-> n]
    BY <1>2, <1>4, <1>6 DEF _summary_payload
  <1>8. _summary_payload(TRUE) \in ScoredSummary
    <2>1. PICK V, N : /\ V = [status : {"partial", "complete"},
                              decision : {"inconclusive", "retain", "reject"}]
                      /\ N = 0 .. NArms
      OBVIOUS
    <2>2. v \in V /\ n \in N
      BY <1>3, <1>5, <2>1
    <2>3. ScoredSummary = [kind : {"scored"}, verdict : V, audit : BOOLEAN,
                           decision : Decisions, arms : N]
      BY <2>1 DEF ScoredSummary
    <2>4. [kind |-> "scored", verdict |-> v, audit |-> b, decision |-> d, arms |-> n]
            \in [kind : {"scored"}, verdict : V, audit : BOOLEAN,
                 decision : Decisions, arms : N]
      BY <2>2
    <2> QED
      BY <1>7, <2>3, <2>4
  <1> QED
    BY <1>8 DEF RoundAssumption

LEMMA FailureTyped ==
    ASSUME RoundAssumption, NEW s \in Stages
    PROVE  _failure_summary_payload(s) # None
  <1>1. _failure_summary_payload(s) \in FailureSummary
    BY DEF _failure_summary_payload, FailureSummary
  <1> QED
    BY <1>1 DEF RoundAssumption

\* The campaign was not started when it was left.
LEMMA RaisesPath ==
    ASSUME RoundAssumption, RoundInv, NEW p \in Controllers, Raises(p), Untouched,
           summary = None, events = Opening,
           UNCHANGED <<events, summary, child, arms>>
    PROVE  Path(p)'
  <1>1. Shape /\ JobShape
    BY DEF RoundInv, Shape
  <1>2. pc'[p] = "failure"
    BY <1>1, RaisesFrame
  <1>3. job'[p].stage = "child_execution"
    <2>1. PICK j : j = [NoJob EXCEPT !.stage = "child_execution"]
      OBVIOUS
    <2>2. j.stage = "child_execution"
      BY <2>1 DEF NoJob
    <2>3. job'[p] = j
      BY <1>1, <2>1 DEF Raises, JobShape
    <2> QED
      BY <2>2, <2>3
  <1>4. _validate_sm121_cache_performance_source' = "unstarted"
    BY UnstartedSource, SourceKept
  <1> QED
    BY <1>2, <1>3, <1>4
    DEF Path, _validate_failure_child_source, AuditPcs, LastPcs, LockPcs, LifePcs, WatchPcs

LEMMA StartedPath ==
    ASSUME RoundAssumption, RoundInv, NEW p \in Controllers, Path(p), Started(p),
           blame' = {}
    PROVE  Path(p)'
  <1>1. /\ pc[p] = "started" /\ UNCHANGED <<summary, child, arms>>
        /\ events' = Append(events, <<"started">>) /\ Goto(p, "enter")
    BY NoWriteFails DEF Started, Append1, Round
  <1>2. pc'[p] = "enter"
    BY <1>1, GotoFrame DEF RoundInv, Shape, Pcs
  <1>3. events = <<>> /\ summary = None /\ Untouched
    BY <1>1 DEF Path
  <1>4. events' = Opening /\ Untouched'
    BY <1>1, <1>3, OneEntry DEF Opening, Untouched
  <1> QED
    BY <1>1, <1>2, <1>3, <1>4 DEF Path, AuditPcs, LastPcs, LockPcs, LifePcs, WatchPcs

LEMMA EnterPath ==
    ASSUME RoundAssumption, RoundInv, NEW p \in Controllers, Path(p), EnterChild(p)
    PROVE  Path(p)'
  <1>1. pc[p] = "enter" /\ UNCHANGED <<events, summary, child, arms>>
    BY DEF EnterChild, Campaign
  <1>2. events = Opening /\ summary = None /\ Untouched
    BY <1>1 DEF Path, LastPcs
  <1>3. CASE Goto(p, "lock")
    <2>1. pc'[p] = "lock"
      BY <1>3, GotoFrame DEF RoundInv, Shape, Pcs
    <2>2. Untouched'
      BY <1>1, <1>2 DEF Untouched
    <2> QED
      BY <1>1, <1>2, <2>1, <2>2 DEF Path, AuditPcs, LastPcs, LockPcs, LifePcs, WatchPcs
  <1>4. CASE Raises(p)
    BY <1>1, <1>2, <1>4, RaisesPath
  <1> QED
    BY <1>3, <1>4 DEF EnterChild

LEMMA LockPath ==
    ASSUME RoundAssumption, RoundInv, NEW p \in Controllers, Path(p), TakeLock(p)
    PROVE  Path(p)'
  <1>1. pc[p] = "lock" /\ UNCHANGED <<events, summary, child, arms>>
    BY DEF TakeLock, Campaign
  <1>2. events = Opening /\ summary = None /\ Untouched
    BY <1>1 DEF Path, LastPcs
  <1>3. CASE Goto(p, "arm") /\ job' = [job EXCEPT ![p] = NoJob]
    <2>1. pc'[p] = "arm"
      BY <1>3, GotoFrame DEF RoundInv, Shape, Pcs
    <2>2. Len(job'[p].rows) = 0 /\ job'[p].err = "none"
      BY <1>3, ClearSets DEF RoundInv, Shape
    <2>3. child' = None /\ \A a \in Arms : arms'[a] = Blank
      BY <1>1, <1>2 DEF Untouched
    <2>4. Course(p)'
      BY <2>1, <2>2, <2>3 DEF Course
    <2> QED
      BY <1>1, <1>2, <2>1, <2>3, <2>4 DEF Path, AuditPcs, LastPcs
  <1>4. CASE Raises(p)
    BY <1>1, <1>2, <1>4, RaisesPath
  <1> QED
    BY <1>3, <1>4 DEF TakeLock

\* A failure after the campaign is over.
LEMMA LatePath ==
    ASSUME RoundAssumption, RoundInv, NEW p \in Controllers, Path(p),
           pc[p] \in {"audit", "project"}, NEW s \in Stages, Goto(p, "failure"),
           job' = [job EXCEPT ![p].stage = s],
           UNCHANGED <<events, summary, child, arms>>
    PROVE  Path(p)'
  <1>1. events = Opening /\ summary = None /\ Borne
    BY DEF Path, LastPcs, AuditPcs
  <1>2. pc'[p] = "failure"
    BY GotoFrame DEF RoundInv, Shape, Pcs
  <1>3. _validate_sm121_cache_performance_source' = "terminal" /\ child' # None
    BY <1>1, SourceKept DEF Borne, RoundAssumption
  <1> QED
    BY <1>1, <1>2, <1>3
    DEF Path, _validate_failure_child_source, AuditPcs, LastPcs, LockPcs, LifePcs, WatchPcs

LEMMA BorneKept ==
    ASSUME Borne, UNCHANGED <<child, arms>>
    PROVE  Borne'
  BY SourceKept DEF Borne

LEMMA AuditPath ==
    ASSUME RoundAssumption, RoundInv, NEW p \in Controllers, Path(p), Audit(p),
           blame' = {}
    PROVE  Path(p)'
  <1>1. pc[p] = "audit" /\ UNCHANGED <<events, summary, child, arms>>
    BY DEF Audit, Round
  <1>2. events = Opening /\ summary = None /\ Borne
    BY <1>1 DEF Path, LastPcs, AuditPcs
  <1>3. CASE /\ job' = [job EXCEPT ![p].audit = audit_sm121_cache_performance_campaign(TRUE)]
             /\ Goto(p, "project")
    <2>1. PICK b \in BOOLEAN : b = audit_sm121_cache_performance_campaign(TRUE) /\ b = TRUE
      BY <1>2 DEF audit_sm121_cache_performance_campaign, Borne
    <2>2. PICK v : v = [job[p] EXCEPT !.audit = b]
      OBVIOUS
    <2>3. job[p] \in Job /\ job \in [Controllers -> Job]
      BY DEF RoundInv, Shape, JobShape
    <2>4. v.audit = b /\ job'[p] = v
      BY <1>3, <2>1, <2>2, <2>3 DEF Job
    <2>5. pc'[p] = "project" /\ job'[p].audit = TRUE
      BY <1>3, <2>1, <2>4, GotoFrame DEF RoundInv, Shape, Pcs
    <2>6. Borne'
      BY <1>1, <1>2, BorneKept
    <2> QED
      BY <1>1, <1>2, <2>5, <2>6 DEF Path, AuditPcs, LastPcs, LockPcs, LifePcs, WatchPcs
  <1>4. CASE Goto(p, "failure") /\ job' = [job EXCEPT ![p].stage = "child_audit"]
    BY <1>1, <1>4, LatePath DEF Stages
  <1> QED
    BY <1>3, <1>4 DEF Audit

LEMMA ProjectPath ==
    ASSUME RoundAssumption, RoundInv, NEW p \in Controllers, Path(p), Project(p)
    PROVE  Path(p)'
  <1>1. pc[p] = "project" /\ UNCHANGED <<events, summary, child, arms>>
    BY DEF Project, Round
  <1>2. events = Opening /\ summary = None /\ Borne /\ job[p].audit = TRUE
    BY <1>1 DEF Path, LastPcs, AuditPcs
  <1>3. CASE Goto(p, "scored") /\ UNCHANGED job
    <2>1. pc'[p] = "scored" /\ Borne'
      BY <1>1, <1>2, <1>3, GotoFrame, BorneKept DEF RoundInv, Shape, Pcs
    <2> QED
      BY <1>1, <1>2, <1>3, <2>1 DEF Path, AuditPcs, LastPcs, LockPcs, LifePcs, WatchPcs
  <1>4. CASE Goto(p, "failure") /\ job' = [job EXCEPT ![p].stage = "projection"]
    BY <1>1, <1>4, LatePath DEF Stages
  <1> QED
    BY <1>3, <1>4 DEF Project

LEMMA ScoredPath ==
    ASSUME RoundAssumption, RoundInv, NEW p \in Controllers, Path(p), Scored(p),
           blame' = {}
    PROVE  Path(p)'
  <1>1. /\ pc[p] = "scored" /\ UNCHANGED <<summary, child, arms, job>>
        /\ events' = Append(events, <<"scored", _summary_payload(job[p].audit)>>)
        /\ Goto(p, "completed")
    BY NoWriteFails DEF Scored, Append1, Round
  <1>2. events = Opening /\ summary = None /\ Borne /\ job[p].audit = TRUE
    BY <1>1 DEF Path, LastPcs, AuditPcs
  <1>3. pc'[p] = "completed" /\ Borne'
    BY <1>1, <1>2, GotoFrame, BorneKept DEF RoundInv, Shape, Pcs
  <1>4. events' = ScoredEvents'
    BY <1>1, <1>2, SummaryKept DEF ScoredEvents, Opening
  <1> QED
    BY <1>1, <1>2, <1>3, <1>4 DEF Path, AuditPcs, LastPcs, LockPcs, LifePcs, WatchPcs

LEMMA CompletedPath ==
    ASSUME RoundAssumption, RoundInv, NEW p \in Controllers, Path(p), Completed(p),
           blame' = {}
    PROVE  Path(p)'
  <1>1. /\ pc[p] = "completed" /\ UNCHANGED <<summary, child, arms, job>>
        /\ events' = Append(events, <<"complete", _summary_payload(job[p].audit)>>)
        /\ Goto(p, "summary")
    BY NoWriteFails DEF Completed, Append1, Round
  <1>2. events = ScoredEvents /\ summary = None /\ Borne /\ job[p].audit = TRUE
    BY <1>1 DEF Path, LastPcs, AuditPcs
  <1>3. pc'[p] = "summary" /\ Borne'
    BY <1>1, <1>2, GotoFrame, BorneKept DEF RoundInv, Shape, Pcs
  <1>4. events' = CompleteEvents'
    BY <1>1, <1>2, SummaryKept DEF CompleteEvents, ScoredEvents, Opening
  <1> QED
    BY <1>1, <1>2, <1>3, <1>4 DEF Path, AuditPcs, LastPcs, LockPcs, LifePcs, WatchPcs

LEMMA SummaryPath ==
    ASSUME RoundAssumption, RoundInv, NEW p \in Controllers, Path(p), Summary(p),
           blame' = {}, plan = 4
    PROVE  Path(p)'
  <1>1. /\ pc[p] = "summary" /\ UNCHANGED <<plan, events, child, arms, job>>
        /\ summary' = _summary_payload(job[p].audit) /\ Goto(p, "done")
    BY NoWriteFails DEF Summary, WriteSummary, Round
  <1>2. events = CompleteEvents /\ Borne /\ job[p].audit = TRUE
    BY <1>1 DEF Path, LastPcs, AuditPcs
  <1>3. pc'[p] = "done" /\ Borne'
    BY <1>1, <1>2, GotoFrame, BorneKept DEF RoundInv, Shape, Pcs
  <1>4. /\ summary' = _summary_payload(TRUE) /\ summary' = _summary_payload(TRUE)'
        /\ summary' # None /\ child' # None
    BY <1>1, <1>2, SummaryKept, SummaryTyped DEF Borne, RoundAssumption
  <1>5. events' = <<<<"started">>, <<"scored", summary'>>, <<"complete", summary'>>>>
    <2>1. PICK x, y, z : /\ x = <<"started">> /\ y = <<"scored", summary'>>
                         /\ z = <<"complete", summary'>>
      OBVIOUS
    <2>2. events' = Append(Append(<<x>>, y), z)
      BY <1>1, <1>2, <1>4, <2>1 DEF CompleteEvents, ScoredEvents, Opening
    <2>3. Append(<<x>>, y) = <<x, y>> /\ Append(<<x, y>>, z) = <<x, y, z>>
      BY TwoEntries, ThreeEntries, Zenon
    <2>4. events' = <<x, y, z>>
      BY <2>2, <2>3, Zenon
    <2> QED
      BY <2>1, <2>4
  <1>6. _validate_autoresearch_v2_source_topology'
    <2>1. /\ child' # None /\ summary' = _summary_payload(TRUE)'
          /\ events' = <<<<"started">>, <<"scored", summary'>>, <<"complete", summary'>>>>
      BY <1>4, <1>5
    <2>2. plan' # 2 /\ _validate_sm121_cache_performance_source' # "invalid"
      BY <1>1, <1>3 DEF Borne
    <2> QED
      BY <1>4, <2>1, <2>2, Zenon DEF _validate_autoresearch_v2_source_topology
  <1> QED
    BY <1>3, <1>6 DEF Path, AuditPcs, LastPcs, LockPcs, LifePcs, WatchPcs

LEMMA RefusesNever ==
    ASSUME NEW p \in Controllers, Path(p)
    PROVE  ~Refuses(p)
  BY DEF Refuses, Path

LEMMA RecordPath ==
    ASSUME RoundAssumption, RoundInv, NEW p \in Controllers, Path(p),
           _record_terminal_failure(p), blame' = {}
    PROVE  Path(p)'
  <1>1. /\ pc[p] = "failure" /\ UNCHANGED <<summary, child, arms, job>>
        /\ events' = Append(events, <<"failed", job[p].stage>>)
        /\ Goto(p, "receipt")
    BY NoWriteFails DEF _record_terminal_failure, Append1, Round
  <1>2. /\ events = Opening /\ summary = None /\ _validate_failure_child_source(p)
        /\ job[p].stage # "child_execution" => child # None
    BY <1>1 DEF Path, LastPcs
  <1>3. pc'[p] = "receipt" /\ _validate_failure_child_source(p)'
    BY <1>1, <1>2, GotoFrame, SourceKept
    DEF RoundInv, Shape, Pcs, _validate_failure_child_source
  <1> QED
    BY <1>1, <1>2, <1>3 DEF Path, Opening, AuditPcs, LastPcs, LockPcs, LifePcs, WatchPcs

LEMMA ReceiptPath ==
    ASSUME RoundAssumption, RoundInv, NEW p \in Controllers, Path(p), Receipt(p),
           blame' = {}, plan = 4
    PROVE  Path(p)'
  <1>1. /\ pc[p] = "receipt" /\ UNCHANGED <<plan, events, child, arms, job>>
        /\ summary' = _failure_summary_payload(job[p].stage) /\ Goto(p, "done")
    BY NoWriteFails DEF Receipt, WriteSummary, Round
  <1>2. PICK s : s = job[p].stage
    OBVIOUS
  <1>3. s \in Stages
    BY <1>2 DEF RoundInv, Shape, JobShape, Job
  <1>4. /\ events = Append(Opening, <<"failed", s>>)
        /\ _validate_sm121_cache_performance_source # "invalid"
        /\ s # "child_execution" => child # None
    BY <1>1, <1>2 DEF Path, _validate_failure_child_source
  <1>5. pc'[p] = "done" /\ _validate_sm121_cache_performance_source' # "invalid"
    BY <1>1, <1>4, GotoFrame, SourceKept DEF RoundInv, Shape, Pcs
  <1>6. events' = <<<<"started">>, <<"failed", s>>>>
    BY <1>1, <1>4, TwoEntries DEF Opening
  <1>7. summary' = _failure_summary_payload(s) /\ summary' # None
    BY <1>1, <1>2, <1>3, FailureTyped
  <1>8. _validate_autoresearch_v2_source_topology'
    <2>1. \E stage \in Stages :
             /\ events' = <<<<"started">>, <<"failed", stage>>>>
             /\ summary' = _failure_summary_payload(stage)
             /\ stage # "child_execution" => child' # None
      BY <1>1, <1>3, <1>4, <1>6, <1>7
    <2> QED
      BY <1>1, <1>5, <1>7, <2>1
      DEF _validate_autoresearch_v2_source_topology, _failure_summary_payload
  <1> QED
    BY <1>5, <1>8 DEF Path, AuditPcs, LastPcs, LockPcs, LifePcs, WatchPcs

(***************************************************************************)
(* Rounds that nothing else went wrong with.                                *)
(***************************************************************************)

\* The steps of an invocation that has begun and does not crash.
Runs(p) ==
    Step(p) \/ ServerReady(p) \/ ReadyFails(p) \/ Answer(p) \/ Trip(p) \/ Expire(p)

LEMMA PathStep ==
    ASSUME RoundAssumption, RoundInv, NEW p \in Controllers, Path(p), Runs(p),
           blame' = {}, plan = 4
    PROVE  Path(p)'
  <1>1. CASE \/ Started(p) \/ Audit(p) \/ Project(p) \/ Scored(p) \/ Completed(p)
             \/ Summary(p) \/ Refuses(p) \/ _record_terminal_failure(p) \/ Receipt(p)
             \/ EnterChild(p) \/ TakeLock(p)
    BY <1>1, StartedPath, AuditPath, ProjectPath, ScoredPath, CompletedPath, SummaryPath,
       RefusesNever, RecordPath, ReceiptPath, EnterPath, LockPath
  <1>2. CASE \/ ArmBegins(p) \/ Preflight(p) \/ Static(p) \/ StartServer(p)
             \/ ServerReady(p) \/ StartFails(p) \/ ReadyFails(p) \/ Answer(p) \/ CaseFails(p)
    BY <1>2, BeginPath, PreflightPath, StaticPath, StartPath, ReadyPath, StartFailsPath,
       ReadyFailsPath, AnswerPath, CaseFailsPath
  <1>3. CASE \/ Interrupts(p) \/ LastCheckFails(p) \/ SaveLogs(p) \/ StopServer(p)
             \/ Unwatch(p) \/ LifetimeComplete(p)
    BY <1>3, InterruptsPath, LastCheckPath, LogsPath, StopPath, UnwatchPath, LifetimePath
  <1>4. CASE ArmAborts(p) \/ ArmCompletes(p) \/ Score(p) \/ Trip(p) \/ Expire(p)
    BY <1>4, AbortPath, CompletePath, ScorePath, TripPath
  <1> QED
    BY <1>1, <1>2, <1>3, <1>4 DEF Runs, Step

\* It begins once, and no step is anybody else's.
LEMMA RunsAlone ==
    ASSUME RoundAssumption, RoundInv, NEW p \in Controllers, Runs(p)
    PROVE  /\ pc[p] # "idle" /\ pc'[p] # "idle" /\ UNCHANGED plan
           /\ \A q \in Controllers \ {p} : pc'[q] = pc[q]
  <1>1. pc \in [Controllers -> Pcs]
    BY DEF RoundInv, Shape
  <1>2. ASSUME NEW where \in Pcs \ {"idle"}, Goto(p, where)
        PROVE  pc'[p] # "idle" /\ \A q \in Controllers \ {p} : pc'[q] = pc[q]
    BY <1>1, <1>2, GotoFrame
  <1>3. CASE \/ Started(p) \/ Audit(p) \/ Project(p) \/ Scored(p) \/ Completed(p)
             \/ Summary(p) \/ Refuses(p) \/ _record_terminal_failure(p) \/ Receipt(p)
    BY <1>2, <1>3 DEF Started, Audit, Project, Scored, Completed, Summary, Refuses,
       _record_terminal_failure, Receipt, Append1, WriteSummary, Round, Pcs
  <1>4. CASE EnterChild(p) \/ TakeLock(p) \/ ArmBegins(p) \/ Preflight(p)
    BY <1>2, <1>4 DEF EnterChild, TakeLock, ArmBegins, Preflight, Campaign, Raises, Pcs
  <1>5. CASE \/ Static(p) \/ StartServer(p) \/ ServerReady(p) \/ StartFails(p)
             \/ ReadyFails(p) \/ Answer(p) \/ CaseFails(p)
    BY <1>2, <1>5 DEF Static, StartServer, ServerReady, StartFails, ReadyFails, Answer, CaseFails,
       Lifetime, Campaign, Fails, Pcs
  <1>6. CASE \/ Interrupts(p) \/ LastCheckFails(p) \/ SaveLogs(p) \/ StopServer(p)
             \/ Unwatch(p) \/ LifetimeComplete(p)
    BY <1>2, <1>6 DEF Interrupts, LastCheckFails, SaveLogs, StopServer, Unwatch,
       LifetimeComplete, Lifetime, Campaign, Fails, Pcs
  <1>7. CASE ArmAborts(p) \/ ArmCompletes(p) \/ Score(p)
    BY <1>2, <1>7 DEF ArmAborts, ArmCompletes, Score, Campaign, Raises, Pcs
  <1>8. CASE Trip(p) \/ Expire(p)
    BY <1>8 DEF Trip, Expire, files, RoundInv, Own, WatchPcs
  <1> QED
    BY <1>3, <1>4, <1>5, <1>6, <1>7, <1>8 DEF Runs, Step

\* What went wrong stays on record.
LEMMA BlameKept ==
    ASSUME [Next]_vars
    PROVE  /\ blame \subseteq blame'
           /\ blame' \subseteq blame \cup {"write", "overlap", "crash", "evidence"}
  <1>1. CASE UNCHANGED blame
    BY <1>1
  <1>2. WriteFails => /\ blame \subseteq blame'
                      /\ blame' \subseteq blame \cup {"write", "overlap", "crash", "evidence"}
    BY DEF WriteFails
  <1>3. ASSUME NEW p \in Controllers, run_autoresearch_v2(p) \/ Crash(p) \/ Audit(p)
        PROVE  /\ blame \subseteq blame'
               /\ blame' \subseteq blame \cup {"write", "overlap", "crash", "evidence"}
    BY <1>3 DEF run_autoresearch_v2, Crash, Audit
  <1>4. ASSUME NEW p \in Controllers,
               \/ Started(p) \/ Project(p) \/ Scored(p) \/ Completed(p)
               \/ Summary(p) \/ Refuses(p) \/ _record_terminal_failure(p) \/ Receipt(p)
               \/ EnterChild(p) \/ TakeLock(p) \/ ArmBegins(p) \/ Preflight(p)
        PROVE  UNCHANGED blame \/ WriteFails
    BY <1>4 DEF Started, Project, Scored, Completed, Summary, Refuses,
       _record_terminal_failure, Receipt, Append1, WriteSummary, EnterChild, TakeLock,
       ArmBegins, Preflight, Quiet
  <1>5. ASSUME NEW p \in Controllers,
               \/ Static(p) \/ StartServer(p) \/ ServerReady(p) \/ StartFails(p)
               \/ ReadyFails(p) \/ Answer(p) \/ CaseFails(p) \/ Interrupts(p) \/ LastCheckFails(p)
               \/ SaveLogs(p) \/ StopServer(p) \/ Unwatch(p) \/ LifetimeComplete(p)
        PROVE  UNCHANGED blame
    BY <1>5 DEF Static, StartServer, ServerReady, StartFails, ReadyFails, Answer, CaseFails,
       Interrupts, LastCheckFails, SaveLogs, StopServer, Unwatch, LifetimeComplete,
       Lifetime
  <1>6. ASSUME NEW p \in Controllers,
               ArmAborts(p) \/ ArmCompletes(p) \/ Score(p) \/ Trip(p) \/ Expire(p)
        PROVE  UNCHANGED blame \/ WriteFails
    BY <1>6 DEF ArmAborts, ArmCompletes, Score, Trip, Expire
  <1> QED
    BY <1>1, <1>2, <1>3, <1>4, <1>5, <1>6
    DEF Next, Step, vars, env, freeze_autoresearch_v2

LEMMA UnblamedInitially ==
    ASSUME RoundAssumption, Init
    PROVE  Unblamed
  BY DEF Init, Unblamed, Untouched

\* The files of a campaign that nobody wrote to, read by a round at rest.
LEMMA PathKept ==
    ASSUME NEW q, Path(q), UNCHANGED <<plan, events, summary, arms, child, pc, job>>
    PROVE  Path(q)'
  <1>1. \A a, row : (Good(a, row)' <=> Good(a, row)) /\ (Bad(a, row)' <=> Bad(a, row))
    BY GoodKept, BadKept
  <1>2. Course(q)' <=> Course(q)
    <2>1. pc'[q] = pc[q] /\ job'[q] = job[q] /\ o(q)' = o(q) /\ arms' = arms
      BY DEF o
    <2>2. \A j, x : Reached(q, j, x)' <=> Reached(q, j, x)
      BY <2>1 DEF Reached
    <2> QED
      BY <1>1, <2>1, <2>2, Zenon DEF Course
  <1>3. /\ _validate_sm121_cache_performance_source'
             = _validate_sm121_cache_performance_source
        /\ \A b : _summary_payload(b)' = _summary_payload(b)
    BY SourceKept, SummaryKept
  <1>4. /\ Borne' <=> Borne
        /\ _validate_failure_child_source(q)' <=> _validate_failure_child_source(q)
        /\ Untouched' <=> Untouched
    BY <1>3 DEF Borne, _validate_failure_child_source, Untouched
  <1>5. ScoredEvents' = ScoredEvents /\ CompleteEvents' = CompleteEvents
    BY <1>3 DEF ScoredEvents, CompleteEvents
  <1>6. _validate_autoresearch_v2_source_topology'
          <=> _validate_autoresearch_v2_source_topology
    BY <1>3 DEF _validate_autoresearch_v2_source_topology
  <1> QED
    BY <1>2, <1>4, <1>5, <1>6 DEF Path

LEMMA UnblamedInductive ==
    ASSUME RoundAssumption, RoundInv, Unblamed, [Next]_vars
    PROVE  Unblamed'
  <1> SUFFICES ASSUME blame' = {}
               PROVE  /\ (\A q \in Controllers : pc'[q] = "idle") =>
                            events' = <<>> /\ summary' = None /\ Untouched'
                      /\ \A q \in Controllers : pc'[q] # "idle" => Sole(q)' /\ Path(q)'
    BY DEF Unblamed
  <1>1. blame = {}
    BY BlameKept
  <1>2. /\ (\A q \in Controllers : pc[q] = "idle") =>
              events = <<>> /\ summary = None /\ Untouched
        /\ \A q \in Controllers : pc[q] # "idle" => Sole(q) /\ Path(q)
    BY <1>1 DEF Unblamed
  <1>3. CASE UNCHANGED vars
    BY <1>2, <1>3, PathKept DEF vars, files, Untouched, Sole
  <1>4. CASE freeze_autoresearch_v2
    <2>1. \A q \in Controllers : pc[q] = "idle"
      BY <1>2, <1>4 DEF freeze_autoresearch_v2, Sole
    <2> QED
      BY <1>2, <1>4, <2>1 DEF freeze_autoresearch_v2, Untouched
  <1>5. ASSUME NEW p \in Controllers, run_autoresearch_v2(p)
        PROVE  /\ \E q \in Controllers : pc'[q] # "idle"
               /\ \A q \in Controllers : pc'[q] # "idle" => Sole(q)' /\ Path(q)'
    <2>1. \A q \in Controllers : pc[q] = "idle"
      BY <1>5 DEF run_autoresearch_v2
    <2>2. /\ pc'[p] = "started" /\ \A q \in Controllers \ {p} : pc'[q] = pc[q]
      BY <1>5, GotoFrame DEF run_autoresearch_v2, RoundInv, Shape, Pcs
    <2>3. events' = <<>> /\ summary' = None /\ Untouched' /\ plan' = 4
      BY <1>2, <1>5, <2>1 DEF run_autoresearch_v2, Round, Untouched
    <2>4. Path(p)'
      BY <2>2, <2>3 DEF Path, AuditPcs, LastPcs, LockPcs, LifePcs, WatchPcs
    <2> QED
      BY <2>1, <2>2, <2>3, <2>4 DEF Sole
  <1>6. ASSUME NEW p \in Controllers, Runs(p)
        PROVE  /\ \E q \in Controllers : pc'[q] # "idle"
               /\ \A q \in Controllers : pc'[q] # "idle" => Sole(q)' /\ Path(q)'
    <2>1. /\ pc[p] # "idle" /\ pc'[p] # "idle" /\ UNCHANGED plan
          /\ \A q \in Controllers \ {p} : pc'[q] = pc[q]
      BY <1>6, RunsAlone
    <2>2. Sole(p) /\ Path(p)
      BY <1>2, <2>1
    <2>3. Path(p)'
      BY <1>6, <2>2, PathStep DEF Sole
    <2> QED
      BY <2>1, <2>2, <2>3 DEF Sole
  <1>7. ASSUME NEW p \in Controllers PROVE ~Crash(p)
    BY DEF Crash
  <1> QED
    BY <1>3, <1>4, <1>5, <1>6, <1>7 DEF Next, Runs

\* The counters, and what there is to go wrong.
Tally ==
    /\ plan \in 0 .. 4 /\ faults \in 0 .. MaxFaults
    /\ blame \subseteq {"write", "overlap", "crash", "evidence"}

LEMMA TallyInductive ==
    ASSUME RoundAssumption, Tally, [Next]_vars
    PROVE  Tally'
  <1>1. plan' \in 0 .. 4
    <2>1. UNCHANGED plan \/ (plan < 4 /\ plan' = plan + 1)
      <3>1. CASE UNCHANGED vars \/ freeze_autoresearch_v2
        BY <3>1 DEF vars, files, freeze_autoresearch_v2
      <3>2. ASSUME NEW p \in Controllers,
                   \/ run_autoresearch_v2(p) \/ Started(p) \/ Audit(p) \/ Project(p)
                   \/ Scored(p) \/ Completed(p) \/ Summary(p) \/ Refuses(p)
                   \/ _record_terminal_failure(p) \/ Receipt(p)
            PROVE  UNCHANGED plan
        BY <3>2 DEF run_autoresearch_v2, Started, Audit, Project, Scored, Completed,
           Summary, Refuses, _record_terminal_failure, Receipt, Append1, WriteSummary, Round
      <3>3. ASSUME NEW p \in Controllers,
                   HolderMoves(p) \/ EnterChild(p) \/ TakeLock(p) \/ Trip(p) \/ Expire(p)
                   \/ Crash(p)
            PROVE  UNCHANGED plan
        BY <3>3 DEF HolderMoves, ArmBegins, Preflight, Static, StartServer, ServerReady,
           StartFails, ReadyFails, Answer, CaseFails, Interrupts, LastCheckFails, SaveLogs,
           StopServer, Unwatch, LifetimeComplete, ArmAborts, ArmCompletes, Score,
           EnterChild, TakeLock, Trip, Expire, Crash, Lifetime, Campaign, files
      <3> QED
        BY <3>1, <3>2, <3>3 DEF Next, Step, HolderMoves
    <2> QED
      BY <2>1 DEF Tally
  <1>2. UNCHANGED faults \/ Fault
    <2>1. CASE UNCHANGED vars \/ freeze_autoresearch_v2
      BY <2>1 DEF vars, env, freeze_autoresearch_v2
    <2>2. ASSUME NEW p \in Controllers,
                 \/ run_autoresearch_v2(p) \/ Started(p) \/ Audit(p) \/ Project(p)
                 \/ Scored(p) \/ Completed(p) \/ Summary(p) \/ Refuses(p)
                 \/ _record_terminal_failure(p) \/ Receipt(p)
          PROVE  UNCHANGED faults \/ Fault
      BY <2>2 DEF run_autoresearch_v2, Started, Audit, Project, Scored, Completed,
         Summary, Refuses, _record_terminal_failure, Receipt, Append1, WriteSummary,
         WriteFails
    <2>3. ASSUME NEW p \in Controllers,
                 \/ EnterChild(p) \/ TakeLock(p) \/ ArmBegins(p) \/ Preflight(p)
                 \/ Static(p) \/ StartServer(p) \/ ServerReady(p) \/ StartFails(p)
          PROVE  UNCHANGED faults \/ Fault
      BY <2>3 DEF EnterChild, TakeLock, ArmBegins, Preflight, Static, StartServer,
         ServerReady, StartFails, Quiet, WriteFails
    <2>4. ASSUME NEW p \in Controllers,
                 \/ ReadyFails(p) \/ Answer(p) \/ CaseFails(p) \/ Interrupts(p)
                 \/ LastCheckFails(p) \/ SaveLogs(p) \/ StopServer(p) \/ Unwatch(p) \/ LifetimeComplete(p)
          PROVE  UNCHANGED faults \/ Fault
      BY <2>4 DEF ReadyFails, Answer, CaseFails, Interrupts, LastCheckFails, SaveLogs, StopServer,
         Unwatch, LifetimeComplete, Quiet
    <2>5. ASSUME NEW p \in Controllers,
                 \/ ArmAborts(p) \/ ArmCompletes(p) \/ Score(p) \/ Trip(p) \/ Expire(p)
                 \/ Crash(p)
          PROVE  UNCHANGED faults \/ Fault
      BY <2>5 DEF ArmAborts, ArmCompletes, Score, Trip, Expire, Crash, WriteFails
    <2> QED
      BY <2>1, <2>2, <2>3, <2>4, <2>5 DEF Next, Step
  <1>3. faults' \in 0 .. MaxFaults
    BY <1>2 DEF Fault, Tally, RoundAssumption
  <1> QED
    BY <1>1, <1>3, BlameKept DEF Tally

LEMMA TypesHold ==
    ASSUME RoundInv, Tally
    PROVE  TypeOK
  BY DEF RoundInv, Tally, TypeOK, Shape, JobShape, JournalShape

LEMMA AtRest ==
    ASSUME RoundInv, Unblamed, plan # 2, blame = {},
           \A p \in Controllers : pc[p] \in {"idle", "done", "dead"}
    PROVE  _validate_autoresearch_v2_source_topology
  <1>1. CASE \A q \in Controllers : pc[q] = "idle"
    <2>1. events = <<>> /\ summary = None /\ Untouched
      BY <1>1 DEF Unblamed
    <2>2. _validate_sm121_cache_performance_source = "unstarted"
      BY <2>1, UnstartedSource
    <2> QED
      BY <2>1, <2>2 DEF _validate_autoresearch_v2_source_topology
  <1>2. ASSUME NEW q \in Controllers, pc[q] # "idle"
        PROVE  _validate_autoresearch_v2_source_topology
    BY <1>2 DEF Unblamed, Path
  <1> QED
    BY <1>1, <1>2

\* Whatever number of invocations, arms, turns and faults: an idle round keeps the
\* exporter from publishing only if its planning or an invocation was cut short, a
\* record could not be written, two invocations overlapped, or the prerequisite
\* evidence changed (_validate_autoresearch_v2_source_topology).
THEOREM RoundBlockedOnlyBy == Spec => []BlockedOnlyBy
  <1>1. Init => Unblamed /\ Tally
    BY UnblamedInitially, RoundAssumption DEF Init, Tally
  <1>2. RoundInv /\ Unblamed /\ Tally /\ [Next]_vars => Unblamed' /\ Tally'
    BY UnblamedInductive, TallyInductive, RoundAssumption
  <1>3. RoundInv /\ Unblamed /\ Tally => BlockedOnlyBy
    BY TypesHold, AtRest DEF BlockedOnlyBy
  <1> QED
    BY <1>1, <1>2, <1>3, RoundInvariant, PTL DEF Spec

=============================================================================
