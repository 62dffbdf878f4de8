----------------------------- MODULE CellWorker -----------------------------
(***************************************************************************)
(* Ownership of the worker process of one campaign cell:                   *)
(* bench/autoresearch_worker.py (run_owned_worker, recover_owned_worker)   *)
(* as bench/autoresearch_campaign.py drives it (run_frozen_cell,           *)
(* _recover_interrupted_cells).                                            *)
(*                                                                         *)
(* The kernel's process table, the worker and strangers move on their own; *)
(* the controller may crash at any step and is then restarted.  Between    *)
(* two steps of the controller the table may change: a /proc read and the  *)
(* signal that follows it are two steps.                                   *)
(***************************************************************************)
EXTENDS Integers, FiniteSets

CONSTANTS
    Pids,               \* process ids the kernel may hand out
    MaxTick,            \* bound: how many processes are ever created
    MaxCrashes          \* bound: how often the controller crashes

ASSUME WorkerAssumption ==
    /\ IsFiniteSet(Pids) /\ Pids # {}
    /\ MaxTick \in Nat \ {0} /\ MaxCrashes \in Nat
    /\ 0 \notin Pids

NoPid == 0

VARIABLES
    proc,       \* process table: per pid its group leader and other members
    clock,      \* start ticks: number of processes created so far
    record,     \* worker.json: its state and the identity it holds
    journal,    \* events.jsonl of the cell is non-empty
    at,         \* the controller's program counter, "down" when it is dead
    popen,      \* the unreaped child of the live controller, or NoPid
    ident,      \* the WorkerIdentity the controller works with
    after,      \* what the current signal is: "SIGINT" or "SIGKILL"
    sent,       \* sigint_sent / sigkill_sent of the current attempt
    require,    \* require_state of _terminate_current_process
    result,     \* how the last controller call ended
    terminal,   \* the campaign has been terminated: nothing is launched again
    crashes,    \* number of crashes so far
    lost,       \* history: crashes that left a launch without a trace on disk
    launches,   \* history: workers launched for this cell
    stray       \* history: the pcs from which a stranger was signalled

workerVars == <<proc, clock, record, journal, at, popen, ident, after, sent,
                require, result, terminal, crashes, lost, launches, stray>>
kernel == <<proc, clock>>
control == <<at, popen, ident, after, sent, require, result, terminal>>
history == <<crashes, lost, launches, stray>>

NoIdentity == [pid |-> NoPid, tick |-> 0]
Identity == [pid : Pids, tick : 1..MaxTick]
Process == [leader : {"none", "running", "zombie"}, member : BOOLEAN,
            tick : 0..MaxTick, worker : BOOLEAN, killed : BOOLEAN]
Free == [leader |-> "none", member |-> FALSE, tick |-> 0, worker |-> FALSE,
         killed |-> FALSE]

\* run_owned_worker and recover_owned_worker share the signalling steps.
RunPCs == {"capture", "uncaptured", "uncaptured_wait", "persist", "write",
           "wait", "terminate", "check", "send", "reap", "certify", "remove"}
RecoverPCs == {"load", "snapshot", "group", "r_check", "r_send", "r_wait",
               "r_remove"}
PCs == {"down", "idle"} \cup RunPCs \cup RecoverPCs

Certified == {"completed", "already_exited", "interrupted", "killed"}
Failures == {"worker_state_exists", "worker_launch_failed",
             "identity_capture_failed", "identity_capture_cleanup_failed",
             "worker_state_write_failed", "reap_timeout",
             "process_group_survived", "worker_state_changed",
             "worker_state_malformed", "ownership_ambiguous",
             "identity_mismatch", "owned_process_missing",
             "process_lookup_race", "termination_timeout"}
Results == Certified \cup Failures \cup {"none", "no_state"}

WorkerTypeOK ==
    /\ proc \in [Pids -> Process]
    /\ clock \in 0..MaxTick
    /\ record \in [state : {"absent", "torn", "whole"},
                   id : Identity \cup {NoIdentity}]
    /\ journal \in BOOLEAN
    /\ at \in PCs
    /\ popen \in Pids \cup {NoPid}
    /\ ident \in Identity \cup {NoIdentity}
    /\ after \in {"SIGINT", "SIGKILL"}
    /\ sent \in BOOLEAN /\ require \in BOOLEAN
    /\ result \in Results
    /\ terminal \in BOOLEAN
    /\ crashes \in 0..MaxCrashes
    /\ lost \in 0..MaxCrashes /\ launches \in 0..MaxTick
    /\ stray \subseteq {"send", "r_send"}

NoRecord == [state |-> "absent", id |-> NoIdentity]

WorkerInit ==
    /\ proc = [p \in Pids |-> Free] /\ clock = 0
    /\ record = NoRecord /\ journal = FALSE
    /\ at = "down" /\ popen = NoPid /\ ident = NoIdentity
    /\ after = "SIGINT" /\ sent = FALSE /\ require = TRUE
    /\ result = "none" /\ terminal = FALSE
    /\ crashes = 0 /\ lost = 0 /\ launches = 0 /\ stray = {}

-----------------------------------------------------------------------------
(* The kernel, the worker and strangers.                                   *)

\* The process group p exists: killpg(p, 0) succeeds.
GroupExists(p) == proc[p].leader # "none" \/ proc[p].member

\* The process with pid p is the one that identity id names.
IsOwned(p, id) == proc[p].leader # "none" /\ proc[p].tick = id.tick

\* A new process gets a pid whose group is gone, and a new start time.
NewProcess(p, isWorker) ==
    /\ clock < MaxTick
    /\ ~GroupExists(p)
    /\ clock' = clock + 1
    /\ proc' = [proc EXCEPT ![p] = [Free EXCEPT !.leader = "running",
                       !.tick = clock + 1, !.worker = isWorker]]

StrangerStarts ==
    /\ \E p \in Pids : NewProcess(p, FALSE)
    /\ UNCHANGED <<record, journal, control, history>>

\* A leader exits.  The unreaped child of the live controller stays a zombie
\* and keeps its pid; any other process is reaped by its parent or by init.
LeaderExits(p) ==
    /\ proc[p].leader = "running"
    /\ proc' = [proc EXCEPT ![p].leader = IF p = popen THEN "zombie" ELSE "none"]
    /\ UNCHANGED <<clock, record, journal, control, history>>

\* The worker starts a helper in its own process group, or the helper exits.
MemberMoves(p) ==
    /\ \/ /\ proc[p].leader = "running" /\ proc[p].worker
          /\ ~proc[p].killed /\ ~proc[p].member
       \/ proc[p].member
    /\ proc' = [proc EXCEPT ![p].member = ~@]
    /\ UNCHANGED <<clock, record, journal, control, history>>

\* The worker writes the first event of the cell's journal.
WorkerJournals(p) ==
    /\ proc[p].leader = "running" /\ proc[p].worker /\ ~proc[p].killed
    /\ ~journal
    /\ journal' = TRUE
    /\ UNCHANGED <<kernel, record, control, history>>

Kernel ==
    \/ StrangerStarts
    \/ \E p \in Pids : LeaderExits(p) \/ MemberMoves(p) \/ WorkerJournals(p)

-----------------------------------------------------------------------------
(* Invocations of the controller.                                          *)

Finish(code) == at' = "idle" /\ result' = code

\* The controller process is gone: its child is reparented, a zombie reaped.
Orphaned(table) ==
    IF popen # NoPid /\ table[popen].leader = "zombie"
    THEN [table EXCEPT ![popen].leader = "none"] ELSE table

Gone ==
    /\ at' = "down" /\ popen' = NoPid /\ ident' = NoIdentity
    /\ after' = "SIGINT" /\ sent' = FALSE /\ require' = TRUE
    /\ result' = "none"

\* run_campaign starts; recovery comes before everything else.
Invoke ==
    /\ at = "down"
    /\ at' = "load"
    /\ UNCHANGED <<kernel, record, journal, popen, ident, after, sent, require,
                   result, terminal, history>>

\* The results after which run_campaign records a terminal transition: any
\* failure, and a worker that left no journal.
MustTerminate ==
    \/ result \in Failures
    \/ result \in Certified /\ ~journal

\* The invocation ends, with the durable terminal transition when one is due.
\* A non-empty journal is projected, which may accept it or refuse it.
EndInvocation ==
    /\ at = "idle"
    /\ \/ MustTerminate /\ terminal' = TRUE
       \/ ~MustTerminate /\ UNCHANGED terminal
       \/ journal /\ terminal' = TRUE
    /\ Gone
    /\ proc' = Orphaned(proc)
    /\ UNCHANGED <<clock, record, journal, history>>

WorkerGroups == {p \in Pids : proc[p].worker /\ GroupExists(p)}

\* A worker exists that worker.json does not name, or the latest launch left
\* nothing on disk: no record, no journal, no terminal event.
Unrecorded ==
    /\ record.state = "absent"
    /\ WorkerGroups # {} \/ (launches > lost /\ ~journal /\ ~terminal)

ControllerCrash ==
    /\ at # "down"
    /\ crashes < MaxCrashes
    /\ crashes' = crashes + 1
    /\ lost' = IF Unrecorded THEN lost + 1 ELSE lost
    /\ Gone
    /\ proc' = Orphaned(proc)
    /\ UNCHANGED <<clock, record, journal, terminal, launches, stray>>

-----------------------------------------------------------------------------
(* run_owned_worker, entered from run_frozen_cell.                         *)

disk == <<record, journal>>

\* run_frozen_cell launches only for an empty journal, run_owned_worker only
\* without a worker.json; Popen then creates the child or fails.
Launch ==
    /\ at = "idle" /\ result = "no_state" /\ ~terminal /\ ~journal
    /\ \/ /\ Finish(IF record.state # "absent" THEN "worker_state_exists"
                                              ELSE "worker_launch_failed")
          /\ UNCHANGED <<kernel, popen, launches>>
       \/ /\ record.state = "absent"
          /\ \E p \in Pids : NewProcess(p, TRUE) /\ popen' = p
          /\ launches' = launches + 1
          /\ at' = "capture"
          /\ UNCHANGED result
    /\ UNCHANGED <<disk, ident, after, sent, require, terminal, crashes, lost, stray>>

\* _capture_identity reads /proc; an unreadable entry leaves the child to
\* _cleanup_uncaptured_process.
Capture ==
    /\ at = "capture"
    /\ \/ /\ ident' = [pid |-> popen, tick |-> proc[popen].tick]
          /\ at' = "persist"
       \/ at' = "uncaptured" /\ UNCHANGED ident
    /\ UNCHANGED <<kernel, disk, popen, after, sent, require, result, terminal,
                   history>>

\* _cleanup_uncaptured_process: SIGKILL to the group and to the child.
KillUncaptured ==
    /\ at = "uncaptured"
    /\ proc' = [proc EXCEPT ![popen].killed = TRUE]
    /\ at' = "uncaptured_wait"
    /\ UNCHANGED <<clock, disk, popen, ident, after, sent, require, result,
                   terminal, history>>

Reaped == [proc EXCEPT ![popen].leader = "none"]

WaitUncaptured ==
    /\ at = "uncaptured_wait"
    /\ \/ /\ proc[popen].leader = "zombie"
          /\ proc' = Reaped /\ popen' = NoPid
          /\ Finish("identity_capture_failed")
       \/ Finish("identity_capture_cleanup_failed") /\ UNCHANGED <<proc, popen>>
    /\ UNCHANGED <<clock, disk, ident, after, sent, require, terminal, history>>

\* _persist_worker_identity: exclusive creation, then the content and fsync.
\* Either may fail, and the live child is then terminated without a record.
PersistCreate ==
    /\ at = "persist"
    /\ \/ /\ record.state = "absent"
          /\ record' = [NoRecord EXCEPT !.state = "torn"]
          /\ at' = "write" /\ UNCHANGED require
       \/ at' = "terminate" /\ require' = FALSE /\ UNCHANGED record
    /\ UNCHANGED <<kernel, journal, popen, ident, after, sent, result, terminal,
                   history>>

PersistWrite ==
    /\ at = "write"
    /\ \/ /\ record' = [state |-> "whole", id |-> ident]
          /\ at' \in {"wait", "terminate"}     \* the directory fsync may fail
          /\ require' = (at' = "wait")
       \/ at' = "terminate" /\ require' = FALSE /\ UNCHANGED record
    /\ UNCHANGED <<kernel, journal, popen, ident, after, sent, result, terminal,
                   history>>

\* The wait ends with the child's exit, or with a timeout, a refused progress
\* marker or an interrupt, which all lead to _terminate_current_process.
WaitWorker ==
    /\ at = "wait"
    /\ \/ /\ proc[popen].leader = "zombie"
          /\ proc' = Reaped /\ popen' = NoPid
          /\ result' = "completed" /\ at' = "certify"
       \/ at' = "terminate" /\ UNCHANGED <<proc, popen, result>>
    /\ UNCHANGED <<clock, disk, ident, after, sent, require, terminal, history>>

\* _terminate_current_process: an exit found by poll() needs no signal.
Terminate ==
    /\ at = "terminate"
    /\ IF proc[popen].leader = "zombie"
       THEN /\ proc' = Reaped /\ popen' = NoPid
            /\ result' = "already_exited" /\ at' = "certify"
            /\ UNCHANGED after
       ELSE at' = "check" /\ after' = "SIGINT" /\ UNCHANGED <<proc, popen, result>>
    /\ UNCHANGED <<clock, disk, ident, sent, require, terminal, history>>

\* _signal_exact_group, first half: _assert_owned_process.
Check ==
    /\ at \in {"check", "r_check"}
    /\ IF IsOwned(ident.pid, ident)
       THEN /\ at' = IF at = "check" THEN "send" ELSE "r_send"
            /\ UNCHANGED result
       ELSE Finish(IF proc[ident.pid].leader = "none" THEN "owned_process_missing"
                                                      ELSE "identity_mismatch")
    /\ UNCHANGED <<kernel, disk, popen, ident, after, sent, require, terminal,
                   history>>

\* _signal_exact_group, second half: killpg reaches whoever has the group id.
Send ==
    /\ at \in {"send", "r_send"}
    /\ sent' = GroupExists(ident.pid)
    /\ proc' = IF sent' /\ after = "SIGKILL"
               THEN [proc EXCEPT ![ident.pid].killed = TRUE] ELSE proc
    /\ stray' = IF sent' /\ proc[ident.pid].tick # ident.tick
                THEN stray \cup {at} ELSE stray
    /\ at' = IF at = "send" THEN "reap" ELSE "r_wait"
    /\ UNCHANGED <<clock, disk, popen, ident, after, require, result, terminal,
                   crashes, lost, launches>>

\* The bounded process.wait after a signal; SIGINT escalates to SIGKILL.
Reap ==
    /\ at = "reap"
    /\ \/ /\ proc[popen].leader = "zombie"
          /\ proc' = Reaped /\ popen' = NoPid
          /\ result' = IF after = "SIGINT" THEN "interrupted" ELSE "killed"
          /\ at' = "certify" /\ UNCHANGED after
       \/ /\ IF after = "SIGKILL" THEN Finish("reap_timeout") /\ UNCHANGED after
             ELSE at' = "check" /\ after' = "SIGKILL" /\ UNCHANGED result
          /\ UNCHANGED <<proc, popen>>
    /\ UNCHANGED <<clock, disk, ident, sent, require, terminal, history>>

\* A seeded error: absence of the process group is not certified.
Certify_Trusting ==
    /\ at = "certify"
    /\ at' = "remove" /\ UNCHANGED result
    /\ UNCHANGED <<kernel, disk, popen, ident, after, sent, require, terminal,
                   history>>

\* _certify_absent_and_remove: the leader is reaped, its group must be gone.
Certify ==
    /\ at = "certify"
    /\ IF GroupExists(ident.pid) THEN Finish("process_group_survived")
                                 ELSE at' = "remove" /\ UNCHANGED result
    /\ UNCHANGED <<kernel, disk, popen, ident, after, sent, require, terminal,
                   history>>

\* _certify_absent_and_remove: only the exact record is removed.  A failed
\* persistence is reported even after a certified cleanup.
Remove ==
    /\ at = "remove"
    /\ record' = IF record = [state |-> "whole", id |-> ident] THEN NoRecord
                                                              ELSE record
    /\ Finish(IF ~require THEN "worker_state_write_failed"
              ELSE IF record' # record THEN result ELSE "worker_state_changed")
    /\ UNCHANGED <<kernel, journal, popen, ident, after, sent, require, terminal,
                   history>>

-----------------------------------------------------------------------------
(* recover_owned_worker, entered from _recover_interrupted_cells.          *)

\* A seeded error: a record that cannot be parsed counts as no record.
Load_IgnoresTorn ==
    /\ at = "load"
    /\ IF record.state = "whole"
       THEN ident' = record.id /\ at' = "snapshot" /\ UNCHANGED <<result, record>>
       ELSE Finish("no_state") /\ record' = NoRecord /\ UNCHANGED ident
    /\ UNCHANGED <<kernel, journal, popen, after, sent, require, terminal, history>>

\* load_worker_identity: absent, unusable, or an exact identity.
Load ==
    /\ at = "load"
    /\ IF record.state = "whole"
       THEN ident' = record.id /\ at' = "snapshot" /\ UNCHANGED result
       ELSE /\ Finish(IF record.state = "absent" THEN "no_state"
                                                ELSE "worker_state_malformed")
            /\ UNCHANGED ident
    /\ UNCHANGED <<kernel, disk, popen, after, sent, require, terminal, history>>

\* The first look at /proc for the recorded pid.
Snapshot ==
    /\ at = "snapshot"
    /\ IF proc[ident.pid].leader = "none"
       THEN at' = "group" /\ result' = "already_exited"
       ELSE IF IsOwned(ident.pid, ident) THEN at' = "r_check" /\ UNCHANGED result
       ELSE Finish("identity_mismatch")
    /\ UNCHANGED <<kernel, disk, popen, ident, after, sent, require, terminal,
                   history>>

\* The leader was absent: its group must be absent too.
Group ==
    /\ at = "group"
    /\ IF GroupExists(ident.pid) THEN Finish("ownership_ambiguous")
                                 ELSE at' = "r_remove" /\ UNCHANGED result
    /\ UNCHANGED <<kernel, disk, popen, ident, after, sent, require, terminal,
                   history>>

\* A seeded error: the recovery wait has no deadline.
RecoveryWait_Unbounded ==
    /\ at = "r_wait"
    /\ \/ /\ proc[ident.pid].leader = "none"
          /\ at' = "group"
          /\ result' = IF after = "SIGINT" THEN "interrupted" ELSE "killed"
       \/ /\ proc[ident.pid].leader # "none" /\ ~IsOwned(ident.pid, ident)
          /\ Finish("identity_mismatch")
    /\ UNCHANGED <<kernel, disk, popen, ident, after, sent, require, terminal,
                   history>>

\* _wait_for_recovery_exit: absent, reused, or alive at the deadline.
RecoveryWait ==
    /\ at = "r_wait"
    /\ \/ /\ proc[ident.pid].leader = "none"
          /\ at' = "group"
          /\ result' = IF after = "SIGINT" THEN "interrupted" ELSE "killed"
          /\ UNCHANGED after
       \/ /\ proc[ident.pid].leader # "none" /\ ~IsOwned(ident.pid, ident)
          /\ Finish("identity_mismatch") /\ UNCHANGED after
       \/ /\ IsOwned(ident.pid, ident)
          /\ IF after = "SIGKILL"
             THEN Finish("termination_timeout") /\ UNCHANGED after
             ELSE IF ~sent THEN Finish("process_lookup_race") /\ UNCHANGED after
             ELSE at' = "r_check" /\ after' = "SIGKILL" /\ UNCHANGED result
    /\ UNCHANGED <<kernel, disk, popen, ident, sent, require, terminal, history>>

\* _remove_matching_state at the end of a certified recovery.
RecoveryRemove ==
    /\ at = "r_remove"
    /\ record' = NoRecord
    /\ Finish(result)
    /\ UNCHANGED <<kernel, journal, popen, ident, after, sent, require, terminal,
                   history>>

-----------------------------------------------------------------------------
Controller ==
    \/ Capture \/ KillUncaptured \/ WaitUncaptured
    \/ PersistCreate \/ PersistWrite \/ WaitWorker \/ Terminate
    \/ Check \/ Send \/ Reap \/ Certify \/ Remove
    \/ Load \/ Snapshot \/ Group \/ RecoveryWait \/ RecoveryRemove

WorkerNext == Kernel \/ Invoke \/ EndInvocation \/ ControllerCrash \/ Launch \/ Controller

\* Every wait of the controller is bounded, so it always has a next step; the
\* kernel, the worker and the operator owe nothing.
FairWorkerSpec == WorkerInit /\ [][WorkerNext]_workerVars /\ WF_workerVars(Controller)
WorkerSpec == WorkerInit /\ [][WorkerNext]_workerVars

-----------------------------------------------------------------------------
(* Properties.                                                             *)

\* A second worker of the same cell exists, or is launched after the first, only
\* if the controller died while the launch had no trace on disk, and then only
\* once per such death: over other crashes, restarts and reused pids a cell is
\* launched once (run_owned_worker, recover_owned_worker).
AtMostOneWorker ==
    /\ Cardinality(WorkerGroups) <= 1 + lost
    /\ launches <= 1 + lost

\* While no controller runs, a surviving worker is named by worker.json, or
\* worker.json is unusable and blocks a launch, or the campaign is over, or the
\* controller died before the record.
DownMeansRecorded ==
    (at = "down" /\ WorkerGroups # {}) =>
        (record.state # "absent" \/ terminal \/ lost > 0)

\* worker.json is removed only when the process group it names is gone
\* (_certify_absent_and_remove, recover_owned_worker).
RecordOutlivesWorker ==
    [][(record.state = "whole" /\ record'.state = "absent")
         => LET p == record.id.pid
            IN  ~(GroupExists(p) /\ proc[p].tick = record.id.tick)]_workerVars

\* A controller that is the worker's parent signals nobody else: the child it
\* has not reaped keeps its pid (_terminate_current_process).  A recovering
\* controller is no parent: between its check and its signal the pid can be reused,
\* and no property denies it (recover_owned_worker).
OwnChildOnly == "send" \notin stray

\* The exclusive ownership of a cell's worker, over every crash of the controller
\* and every reuse of a pid; of the signals only those of a parent.
WorkerOwned == WorkerTypeOK /\ AtMostOneWorker /\ DownMeansRecorded /\ OwnChildOnly

\* run_owned_worker and recover_owned_worker always return: every wait is
\* bounded, SIGINT escalates to SIGKILL once.
ControllerReturns == (at \notin {"down", "idle"}) ~> (at \in {"down", "idle"})

=============================================================================
