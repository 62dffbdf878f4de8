---------------------------- MODULE RunLifecycle ----------------------------
(***************************************************************************)
(* bench/runner.py: execute_plan, one invocation after another (or two at  *)
(* once) over one frozen run directory, with bench/runtime.py:             *)
(* ManagedServer, the owned container it drives, the recovery of what an   *)
(* earlier invocation left behind, and the host-memory watchdog as seen by *)
(* its owner (HostSafety models its inside).                               *)
(*                                                                         *)
(* events.jsonl is the sequence log.  An append is one step: a torn line   *)
(* is skipped by Journal.events(), so a crash inside an append is a crash  *)
(* just before it.  Events no later step reads (measurement_started,       *)
(* first_request_complete, metric snapshots, summary_failed) are left out. *)
(* The backend is a container backend (sglang, vllm); llama.cpp, Ollama    *)
(* and external endpoints take the same path with another ManagedServer.   *)
(***************************************************************************)
EXTENDS Integers, Sequences

CONSTANTS Procs,          \* operating-system processes that run the harness
          NCases,         \* cases of the frozen suite
          Unsupported,    \* cases the profile cannot serve
          Watchdog,       \* the profile configures host-safety thresholds
          KeepChoices,    \* the values of --keep-server in use
          MaxCalls,       \* bound: invocations
          MaxCrashes,     \* bound: processes killed
          MaxFaults,      \* bound: failed docker commands
          None

Cases == 1..NCases

ASSUME ConstantsAssumption ==
  /\ NCases \in Nat \ {0}
  /\ Unsupported \subseteq Cases
  /\ Watchdog \in BOOLEAN
  /\ KeepChoices \subseteq BOOLEAN
  /\ MaxCalls \in Nat /\ MaxCrashes \in Nat /\ MaxFaults \in Nat
  /\ None \notin Procs

VARIABLES
  log,        \* events.jsonl
  lock,       \* holder of results/.sparkbench.lock
  container,  \* the container with the managed name
  pc,         \* where each process is
  read,       \* the journal as each process read it, before the lock
  keep,       \* --keep-server of each process
  run,        \* locals of the lock holder
  wd,         \* the lock holder's watchdog
  calls, crashes, faults

vars == <<log, lock, container, pc, read, keep, run, wd, calls, crashes, faults>>
-----------------------------------------------------------------------------
(***************************************************************************)
(* The journal.                                                            *)
(***************************************************************************)
EventNames ==
  {"run_start", "case_skipped", "server_ready", "case_start", "case_complete",
   "case_failed", "server_stopped", "server_kept", "cleanup_failed",
   "host_safety_breach", "host_safety_interrupt_failed", "run_aborted",
   "run_complete"}

\* kind: the error type of an abort, the status of a completion
Event(name) == [event |-> name, case |-> 0, kind |-> ""]
CaseEvent(name, c) == [Event(name) EXCEPT !.case = c]
KindEvent(name, k) == [Event(name) EXCEPT !.kind = k]

Has(l, name) == \E i \in DOMAIN l : l[i].event = name

\* One of names occurs behind the last of marks.
After(l, names, marks) ==
  \E i \in DOMAIN l :
    /\ l[i].event \in names
    /\ \A j \in DOMAIN l : j > i => l[j].event \notin marks

\* In the current attempt: after the last run_start.
Since(l, name) == After(l, {name}, {"run_start"})

completed_cases(l) ==
  {l[i].case : i \in {i \in DOMAIN l : l[i].event = "case_complete"}}

terminal_cases(l) ==
  {l[i].case : i \in {i \in DOMAIN l : l[i].event \in {"case_complete", "case_skipped"}}}

\* The status in summary.json as far as execute_plan looks at it.
Status(l) ==
  IF ~Has(l, "run_start") THEN "not_started"
  ELSE IF After(l, {"run_aborted"}, {"run_start", "run_complete"}) THEN "aborted"
  ELSE IF ~Since(l, "run_complete") THEN "incomplete"
  ELSE "finished"

\* Is a server of an earlier attempt to be looked for?
Pending(l) ==
  /\ Has(l, "run_start")
  /\ IF Since(l, "server_ready")
     THEN ~After(l, {"server_stopped", "server_kept"}, {"server_ready"})
     ELSE ~Since(l, "run_complete")

\* The current attempt's last abort record names the watchdog.
SafetyAborted(l) ==
  \E i \in DOMAIN l :
    /\ l[i].event = "run_aborted" /\ l[i].kind = "HostSafetyError"
    /\ \A j \in DOMAIN l : j > i => l[j].event \notin {"run_start", "run_aborted"}
-----------------------------------------------------------------------------
(***************************************************************************)
(* State.                                                                  *)
(***************************************************************************)
NoContainer == [owner |-> "none", up |-> FALSE, kept |-> FALSE]
Started     == [owner |-> "run", up |-> TRUE, kept |-> FALSE]

\* server: execute_plan's variable; cid, immediate: the ManagedServer object
\* (container_id, _immediate_stop_complete); failed: primary_error; broken:
\* an exception in the cleanup; from: who called stop()
NoRun == [todo |-> {}, server |-> FALSE, cid |-> FALSE, immediate |-> FALSE,
          failed |-> FALSE, broken |-> FALSE, from |-> "cleanup"]

\* cb: the abort callback, "due" between the trip and the end of the call
NoWatch == [state |-> "off", tripped |-> FALSE, cb |-> "none"]

Steps == {"idle", "lock", "recover", "recovered", "plan", "skip", "preflight",
          "watch", "start", "register", "callback", "waiting", "ready", "prime",
          "cases", "measure", "retry", "stop", "rm", "unwatch", "record",
          "close", "complete", "breach", "interrupt", "abort"}

TypeOK ==
  /\ log \in Seq([event : EventNames, case : 0..NCases,
                  kind : {"", "error", "HostSafetyError", "completed",
                          "completed_server_kept", "no_work",
                          "recovered_all_terminal"}])
  /\ lock \in Procs \cup {None}
  /\ container \in [owner : {"none", "run", "other"}, up : BOOLEAN, kept : BOOLEAN]
  /\ pc \in [Procs -> Steps]
  /\ read \in [Procs -> [completed : SUBSET Cases, terminal : SUBSET Cases]]
  /\ keep \in [Procs -> BOOLEAN]
  /\ run \in [todo : SUBSET Cases, server : BOOLEAN, cid : BOOLEAN,
              immediate : BOOLEAN, failed : BOOLEAN, broken : BOOLEAN,
              from : {"recover", "startup", "cleanup"}]
  /\ wd \in [state : {"off", "on", "closed"}, tripped : BOOLEAN,
             cb : {"none", "set", "due", "done", "failed"}]
  /\ calls \in 0..MaxCalls /\ crashes \in 0..MaxCrashes /\ faults \in 0..MaxFaults

Init ==
  /\ log = <<>> /\ lock = None /\ container = NoContainer
  /\ pc = [p \in Procs |-> "idle"]
  /\ read = [p \in Procs |-> [completed |-> {}, terminal |-> {}]]
  /\ keep = [p \in Procs |-> FALSE]
  /\ run = NoRun /\ wd = NoWatch
  /\ calls = 0 /\ crashes = 0 /\ faults = 0

Goto(p, step) == pc' = [pc EXCEPT ![p] = step]

Record(e) == log' = Append(log, e)

\* A docker command that fails or runs into its timeout.
Fault == faults < MaxFaults /\ faults' = faults + 1

\* The process leaves the with-block of the lock; its daemon threads end.
Release(p) == lock' = None /\ Goto(p, "idle") /\ run' = NoRun /\ wd' = NoWatch
-----------------------------------------------------------------------------
(***************************************************************************)
(* Entry: the journal is read first, the lock is tried afterwards.         *)
(***************************************************************************)
Invoke(p) ==
  /\ pc[p] = "idle" /\ calls < MaxCalls
  /\ \E k \in KeepChoices : keep' = [keep EXCEPT ![p] = k]
  /\ read' = [read EXCEPT ![p] = [completed |-> completed_cases(log),
                                  terminal |-> terminal_cases(log)]]
  /\ calls' = calls + 1
  /\ Goto(p, "lock")
  /\ UNCHANGED <<log, lock, container, run, wd, crashes, faults>>

Lock(p) ==
  /\ pc[p] = "lock"
  /\ IF lock = None THEN lock' = p /\ Goto(p, "recover")
                    ELSE lock' = lock /\ Goto(p, "idle")
  /\ UNCHANGED <<log, container, read, keep, run, wd, calls, crashes, faults>>

(***************************************************************************)
(* _recover_pending_lifecycle.  A container of another owner is left alone *)
(* and the recovery still counts as done.                                  *)
(***************************************************************************)
Recover(p) ==
  /\ pc[p] = "recover"
  /\ \/ ~Pending(log) /\ Goto(p, "plan") /\ UNCHANGED run
     \/ /\ Pending(log) /\ container.owner = "run"
        /\ run' = [run EXCEPT !.cid = TRUE, !.from = "recover"]
        /\ Goto(p, "stop")
     \/ /\ Pending(log) /\ container.owner # "run"
        /\ Goto(p, "recovered") /\ UNCHANGED run
  /\ UNCHANGED <<log, lock, container, read, keep, wd, calls, crashes, faults>>

RecoverFails(p) ==
  /\ pc[p] = "recover" /\ Pending(log) /\ Fault
  /\ Goto(p, "abort")
  /\ UNCHANGED <<log, lock, container, read, keep, run, wd, calls, crashes>>

Recovered(p) ==
  /\ pc[p] = "recovered"
  /\ Record(Event("server_stopped"))
  /\ run' = NoRun
  /\ Goto(p, "plan")
  /\ UNCHANGED <<lock, container, read, keep, wd, calls, crashes, faults>>

FinishKind(p) ==
  IF read[p].completed # {} THEN "recovered_all_terminal" ELSE "no_work"

\* Every case terminal: finish without a server.  Otherwise a new attempt.
Plan(p) ==
  /\ pc[p] = "plan"
  /\ \/ /\ Cases \subseteq read[p].terminal
        /\ IF Status(log) \in {"aborted", "incomplete", "not_started"}
           THEN Record(KindEvent("run_complete", FinishKind(p)))
           ELSE UNCHANGED log
        /\ Release(p)
     \/ /\ ~(Cases \subseteq read[p].terminal)
        /\ Record(Event("run_start"))
        /\ run' = [NoRun EXCEPT !.todo = Cases \ read[p].terminal]
        /\ Goto(p, "skip")
        /\ UNCHANGED <<lock, wd>>
  /\ UNCHANGED <<container, read, keep, calls, crashes, faults>>

Skip(p) ==
  /\ pc[p] = "skip"
  /\ \/ \E c \in run.todo \cap Unsupported :
          /\ \A d \in run.todo \cap Unsupported : c <= d
          /\ Record(CaseEvent("case_skipped", c))
          /\ run' = [run EXCEPT !.todo = @ \ {c}]
          /\ UNCHANGED <<pc, lock, wd>>
     \/ /\ run.todo = {}
        /\ Record(KindEvent("run_complete", "no_work"))
        /\ Release(p)
     \/ /\ run.todo # {} /\ run.todo \cap Unsupported = {}
        /\ Goto(p, "preflight")
        /\ UNCHANGED <<log, run, lock, wd>>
  /\ UNCHANGED <<container, read, keep, calls, crashes, faults>>

\* The watchdog's policy and _preflight, outside the inner try.
Preflight(p) ==
  /\ pc[p] = "preflight"
  /\ \/ ~(Watchdog /\ keep[p]) /\ Goto(p, "watch")
     \/ Goto(p, "abort")
  /\ UNCHANGED <<log, lock, container, read, keep, run, wd, calls, crashes, faults>>
-----------------------------------------------------------------------------
(***************************************************************************)
(* The inner try.  Every raise_if_tripped is the guard ~wd.tripped of the  *)
(* step behind it; Raise is the way out, by a trip or any other exception. *)
(***************************************************************************)
StartWatch(p) ==
  /\ pc[p] = "watch"
  /\ \/ ~Watchdog /\ wd' = wd /\ Goto(p, "start")
     \/ Watchdog /\ wd' = [wd EXCEPT !.state = "on"] /\ Goto(p, "start")
     \/ Watchdog /\ wd' = [wd EXCEPT !.tripped = TRUE] /\ UNCHANGED pc
  /\ wd.tripped = FALSE
  /\ UNCHANGED <<log, lock, container, read, keep, run, calls, crashes, faults>>

\* docker run; when it fails or times out the container may exist all the same.
StartServer(p) ==
  /\ pc[p] = "start" /\ ~wd.tripped /\ container.owner = "none"
  /\ \/ /\ container' = Started
        /\ run' = [run EXCEPT !.cid = TRUE]
        /\ Goto(p, IF Watchdog THEN "register" ELSE "waiting")
        /\ UNCHANGED faults
     \/ /\ Fault
        /\ container' \in {container, Started}
        /\ run' = [run EXCEPT !.failed = TRUE]
        /\ Goto(p, "close")
  /\ UNCHANGED <<log, lock, read, keep, wd, calls, crashes>>

\* on_server_created: register_abort_callback(interrupt_owned); after a trip
\* the callback runs at once, in this thread.
Register(p) ==
  /\ pc[p] = "register"
  /\ wd' = [wd EXCEPT !.cb = IF wd.tripped THEN "due" ELSE "set"]
  /\ Goto(p, IF wd.tripped THEN "callback" ELSE "waiting")
  /\ UNCHANGED <<log, lock, container, read, keep, run, calls, crashes, faults>>

CallbackReturns(p) ==
  /\ pc[p] = "callback" /\ wd.cb # "due"
  /\ Goto(p, "waiting")
  /\ UNCHANGED <<log, lock, container, read, keep, run, wd, calls, crashes, faults>>

\* wait_for_endpoint; start_server returns the server.
EndpointReady(p) ==
  /\ pc[p] = "waiting" /\ ~wd.tripped /\ container.up
  /\ run' = [run EXCEPT !.server = TRUE]
  /\ Goto(p, "ready")
  /\ UNCHANGED <<log, lock, container, read, keep, wd, calls, crashes, faults>>

ServerReady(p) ==
  /\ pc[p] = "ready" /\ ~wd.tripped
  /\ Record(Event("server_ready"))
  /\ Goto(p, "prime")
  /\ UNCHANGED <<lock, container, read, keep, run, wd, calls, crashes, faults>>

Prime(p) ==
  /\ pc[p] = "prime" /\ ~wd.tripped /\ container.up
  /\ Goto(p, "cases")
  /\ UNCHANGED <<log, lock, container, read, keep, run, wd, calls, crashes, faults>>

CaseStart(p) ==
  /\ pc[p] = "cases" /\ ~wd.tripped
  /\ \E c \in run.todo :
       /\ \A d \in run.todo : c <= d
       /\ Record(CaseEvent("case_start", c))
  /\ Goto(p, "measure")
  /\ UNCHANGED <<lock, container, read, keep, run, wd, calls, crashes, faults>>

\* A failed case ends the attempt after a trip or under --fail-fast.
CaseEnds(p) ==
  /\ pc[p] = "measure"
  /\ \E c \in run.todo :
       /\ \A d \in run.todo : c <= d
       /\ \/ /\ container.up
             /\ Record(CaseEvent("case_complete", c))
             /\ run' = [run EXCEPT !.todo = @ \ {c}]
             /\ Goto(p, "cases")
          \/ /\ Record(CaseEvent("case_failed", c))
             /\ \/ /\ ~wd.tripped
                   /\ run' = [run EXCEPT !.todo = @ \ {c}]
                   /\ Goto(p, "cases")
                \/ /\ run' = [run EXCEPT !.todo = @ \ {c}, !.failed = TRUE]
                   /\ Goto(p, "retry")
  /\ UNCHANGED <<lock, container, read, keep, wd, calls, crashes, faults>>

MeasurementComplete_Unwatched(p) ==
  /\ pc[p] = "cases" /\ ~wd.tripped /\ run.todo = {}
  /\ wd' = [wd EXCEPT !.state = "closed"]
  /\ Goto(p, "retry")
  /\ UNCHANGED <<log, lock, container, read, keep, run, calls, crashes, faults>>

MeasurementComplete(p) ==
  /\ pc[p] = "cases" /\ ~wd.tripped /\ run.todo = {}
  /\ Goto(p, "retry")
  /\ UNCHANGED <<log, lock, container, read, keep, run, wd, calls, crashes, faults>>

\* stages that may raise: before there is a container, while start_server owns
\* it, and once execute_plan has it
Unlaunched == {"watch", "start"}
Serving    == {"ready", "prime", "cases", "measure"}

Handler_NoStartupStop ==
  [s \in Unlaunched \cup {"waiting"} \cup Serving |->
     IF s \in Serving THEN "retry" ELSE "close"]

\* Where an exception leads; start_server stops its container itself.
Handler ==
  [s \in Unlaunched \cup {"waiting"} \cup Serving |->
     CASE s \in Unlaunched -> "close" [] s = "waiting" -> "stop" [] s \in Serving -> "retry"]

Raise(p) ==
  /\ pc[p] \in DOMAIN Handler
  /\ run' = [run EXCEPT !.failed = TRUE,
                        !.from = IF pc[p] = "waiting" THEN "startup" ELSE "cleanup"]
  /\ Goto(p, Handler[pc[p]])
  /\ UNCHANGED <<log, lock, container, read, keep, wd, calls, crashes, faults>>
-----------------------------------------------------------------------------
(***************************************************************************)
(* The cleanup.                                                            *)
(***************************************************************************)
LifecycleLocked_FromCreation == lock # None /\ pc[lock] \in {"callback", "rm"}

\* stop() holds _lifecycle_lock between its two docker commands.
LifecycleLocked == lock # None /\ pc[lock] = "rm"

RequireOwned_ByName == container.owner # "none"

\* _require_owned_container: the labels of the exact container id.
RequireOwned == container.owner = "run"

\* interrupt_owned: docker stop --time 0 of the exact container, once.  It
\* succeeds or raises (ok) and leaves _immediate_stop_complete = done.
interrupt_owned(ok, done) ==
  \/ /\ ~run.cid \/ run.immediate
     /\ ok /\ done = run.immediate
     /\ UNCHANGED <<container, faults>>
  \/ /\ run.cid /\ ~run.immediate /\ RequireOwned
     /\ ok /\ done
     /\ container' = [container EXCEPT !.up = FALSE]
     /\ UNCHANGED faults
  \/ /\ run.cid /\ ~run.immediate /\ ~RequireOwned
     /\ ~ok /\ ~done
     /\ UNCHANGED <<container, faults>>
  \/ /\ run.cid /\ ~run.immediate /\ RequireOwned
     /\ ~ok /\ ~done
     /\ Fault
     /\ container' \in {container, [container EXCEPT !.up = FALSE]}

\* _retry_host_safety_interrupt_if_needed and the metrics and logs, whose
\* failure skips to the stop.
Retry(p) ==
  /\ pc[p] = "retry"
  /\ \/ /\ wd.tripped /\ wd.cb = "failed"
        /\ \E ok, done, bad \in BOOLEAN :
             /\ interrupt_owned(ok, done)
             /\ ok \/ bad
             /\ IF ok /\ ~Since(log, "host_safety_interrupt_failed")
                THEN Record(Event("host_safety_interrupt_failed"))
                ELSE UNCHANGED log
             /\ run' = [run EXCEPT !.immediate = done, !.broken = bad,
                                   !.from = "cleanup"]
     \/ /\ ~(wd.tripped /\ wd.cb = "failed")
        /\ \E bad \in BOOLEAN :
             run' = [run EXCEPT !.broken = bad, !.from = "cleanup"]
        /\ UNCHANGED <<log, container, faults>>
  /\ Goto(p, "stop")
  /\ UNCHANGED <<lock, read, keep, wd, calls, crashes>>

\* Where an exception of stop() leads, by its caller.
StopFailed(p) ==
  /\ Goto(p, CASE run.from = "recover" -> "abort"
               [] run.from = "startup" -> "close"
               [] run.from = "cleanup" -> "record")
  /\ run' = [run EXCEPT !.broken = @ \/ run.from = "cleanup"]

\* stop(), up to docker stop (already done by a completed interrupt).
Stop(p) ==
  /\ pc[p] = "stop"
  /\ \/ /\ run.from = "cleanup" /\ keep[p]
        /\ Goto(p, "unwatch")
        /\ UNCHANGED <<run, container, faults>>
     \/ /\ ~(run.from = "cleanup" /\ keep[p])
        /\ \/ /\ RequireOwned
              /\ container' = [container EXCEPT !.up = FALSE]
              /\ Goto(p, "rm")
              /\ UNCHANGED <<run, faults>>
           \/ /\ ~RequireOwned
              /\ StopFailed(p)
              /\ UNCHANGED <<container, faults>>
           \/ /\ RequireOwned /\ Fault
              /\ StopFailed(p)
              /\ container' \in {container, [container EXCEPT !.up = FALSE]}
  /\ UNCHANGED <<log, lock, read, keep, wd, calls, crashes>>

Rm(p) ==
  /\ pc[p] = "rm"
  /\ \/ /\ RequireOwned
        /\ container' = NoContainer
        /\ run' = [run EXCEPT !.cid = FALSE, !.immediate = FALSE]
        /\ Goto(p, CASE run.from = "recover" -> "recovered"
                     [] run.from = "startup" -> "close"
                     [] run.from = "cleanup" -> "unwatch")
        /\ UNCHANGED faults
     \/ /\ ~RequireOwned
        /\ StopFailed(p)
        /\ UNCHANGED <<container, faults>>
     \/ /\ RequireOwned /\ Fault
        /\ StopFailed(p)
        /\ container' \in {container, NoContainer}
  /\ UNCHANGED <<log, lock, read, keep, wd, calls, crashes>>

\* HostSafetyWatchdog.stop(): the last sample or an expired join may trip it.
StopWatch ==
  \/ wd' = [wd EXCEPT !.state = IF Watchdog THEN "closed" ELSE @]
  \/ /\ wd.state = "on" /\ ~wd.tripped
     /\ wd' = [state |-> "closed", tripped |-> TRUE,
               cb |-> IF wd.cb = "set" THEN "due" ELSE wd.cb]

Unwatch(p) ==
  /\ pc[p] = "unwatch"
  /\ StopWatch
  /\ Goto(p, "record")
  /\ UNCHANGED <<log, lock, container, read, keep, run, calls, crashes, faults>>

CleanupEvent_IgnoresErrors(p) ==
  IF keep[p] THEN "server_kept" ELSE "server_stopped"

CleanupEvent(p) ==
  CASE run.broken -> "cleanup_failed"
    [] ~run.broken /\ keep[p] -> "server_kept"
    [] ~run.broken /\ ~keep[p] -> "server_stopped"

RecordCleanup(p) ==
  /\ pc[p] = "record"
  /\ Record(Event(CleanupEvent(p)))
  /\ container' = [container EXCEPT
                     !.kept = @ \/ (CleanupEvent(p) = "server_kept" /\ container.owner = "run")]
  /\ Goto(p, "close")
  /\ UNCHANGED <<lock, read, keep, run, wd, calls, crashes, faults>>

Outcome_Unchecked == IF run.failed \/ run.broken THEN "breach" ELSE "complete"

\* primary_error, an error of the cleanup, or raise_if_tripped at the end
Outcome == IF run.failed \/ run.broken \/ wd'.tripped THEN "breach" ELSE "complete"

\* The innermost finally stops the watchdog, whatever happened.
Close(p) ==
  /\ pc[p] = "close"
  /\ StopWatch
  /\ Goto(p, Outcome)
  /\ UNCHANGED <<log, lock, container, read, keep, run, calls, crashes, faults>>

Complete(p) ==
  /\ pc[p] = "complete"
  /\ Record(KindEvent("run_complete",
                      IF keep[p] THEN "completed_server_kept" ELSE "completed"))
  /\ Release(p)
  /\ UNCHANGED <<container, read, keep, calls, crashes, faults>>

\* The outer except: the watchdog's failure goes before any other error.
Breach(p) ==
  /\ pc[p] = "breach"
  /\ IF wd.tripped /\ ~Since(log, "host_safety_breach")
     THEN Record(Event("host_safety_breach")) ELSE UNCHANGED log
  /\ Goto(p, "interrupt")
  /\ UNCHANGED <<lock, container, read, keep, run, wd, calls, crashes, faults>>

InterruptFailed(p) ==
  /\ pc[p] = "interrupt"
  /\ IF /\ wd.tripped /\ wd.cb = "failed"
        /\ ~Since(log, "host_safety_interrupt_failed")
     THEN Record(Event("host_safety_interrupt_failed")) ELSE UNCHANGED log
  /\ Goto(p, "abort")
  /\ UNCHANGED <<lock, container, read, keep, run, wd, calls, crashes, faults>>

AbortKind == IF wd.tripped THEN "HostSafetyError" ELSE "error"

\* _record_run_aborted: once per attempt, unless a safety error comes later.
AbortDue ==
  /\ Has(log, "run_start")
  /\ ~Since(log, "run_aborted") \/ (wd.tripped /\ ~SafetyAborted(log))

Abort(p) ==
  /\ pc[p] = "abort"
  /\ IF AbortDue THEN Record(KindEvent("run_aborted", AbortKind)) ELSE UNCHANGED log
  /\ Release(p)
  /\ UNCHANGED <<container, read, keep, calls, crashes, faults>>
-----------------------------------------------------------------------------
(***************************************************************************)
(* The watchdog's thread and the surroundings.                             *)
(***************************************************************************)
Trip ==
  /\ wd.state = "on" /\ ~wd.tripped
  /\ wd' = [wd EXCEPT !.tripped = TRUE,
                      !.cb = IF wd.cb = "set" THEN "due" ELSE @]
  /\ UNCHANGED <<log, lock, container, pc, read, keep, run, calls, crashes, faults>>

AbortCallback ==
  /\ wd.cb = "due" /\ ~LifecycleLocked
  /\ \E ok, done \in BOOLEAN :
       /\ interrupt_owned(ok, done)
       /\ run' = [run EXCEPT !.immediate = done]
       /\ wd' = [wd EXCEPT !.cb = IF ok THEN "done" ELSE "failed"]
  /\ UNCHANGED <<log, lock, pc, read, keep, calls, crashes>>

ServerDies ==
  /\ container.owner = "run" /\ container.up
  /\ container' = [container EXCEPT !.up = FALSE]
  /\ UNCHANGED <<log, lock, pc, read, keep, run, wd, calls, crashes, faults>>

OperatorRemoves ==
  /\ container.owner = "run" /\ Fault
  /\ container' = NoContainer
  /\ UNCHANGED <<log, lock, pc, read, keep, run, wd, calls, crashes>>

\* A container that is not this run's takes the name, or gives it up.
OtherRun ==
  /\ \/ /\ container.owner = "none"
        /\ container' = [owner |-> "other", up |-> TRUE, kept |-> TRUE]
     \/ container.owner = "other" /\ container' = NoContainer
  /\ UNCHANGED <<log, lock, pc, read, keep, run, wd, calls, crashes, faults>>

\* The process is killed: the kernel drops its lock, its threads end.
Crash(p) ==
  /\ pc[p] # "idle" /\ crashes < MaxCrashes
  /\ crashes' = crashes + 1
  /\ IF lock = p THEN Release(p) ELSE Goto(p, "idle") /\ UNCHANGED <<lock, run, wd>>
  /\ UNCHANGED <<log, container, read, keep, calls, faults>>

Step(p) ==
  \/ Lock(p) \/ Recover(p) \/ RecoverFails(p) \/ Recovered(p) \/ Plan(p) \/ Skip(p) \/ Preflight(p)
  \/ StartWatch(p) \/ StartServer(p) \/ Register(p) \/ CallbackReturns(p)
  \/ EndpointReady(p) \/ ServerReady(p) \/ Prime(p) \/ CaseStart(p) \/ CaseEnds(p)
  \/ MeasurementComplete(p) \/ Raise(p) \/ Retry(p) \/ Stop(p) \/ Rm(p)
  \/ Unwatch(p) \/ RecordCleanup(p) \/ Close(p) \/ Complete(p) \/ Breach(p)
  \/ InterruptFailed(p) \/ Abort(p)

Next ==
  \/ \E p \in Procs : Invoke(p) \/ Step(p) \/ Crash(p)
  \/ Trip \/ AbortCallback \/ ServerDies \/ OperatorRemoves \/ OtherRun

\* Threads are scheduled, docker commands have timeouts.  Nothing obliges the
\* operator, the watchdog to trip, or a process to be killed.
Fairness == (\A p \in Procs : WF_vars(Step(p))) /\ WF_vars(AbortCallback)

Spec == Init /\ [][Next]_vars /\ Fairness
-----------------------------------------------------------------------------
(***************************************************************************)
(* Properties.                                                             *)
(***************************************************************************)
Owned == container.owner = "run"

\* This step appends the named event.
Recorded(name) == Len(log') > Len(log) /\ log'[Len(log')].event = name

\* An owned container is never forgotten: when nobody works on the run, the
\* journal either makes the next invocation recover it or says it was kept
\* (_recover_pending_lifecycle, after any crash or docker failure).
OwnedIsPending == lock = None /\ Owned => Pending(log) \/ container.kept
Accounted == TypeOK /\ OwnedIsPending

\* A run recorded as complete has no server left, but one it kept, whichever
\* of the ways to run_complete was taken.
CompleteMeansStopped ==
  [][Recorded("run_complete") /\ Owned => container.kept]_vars

\* A trip at any moment of an attempt, the cleanup included, keeps it from
\* being recorded as complete (host_safety.stop() and then raise_if_tripped).
TripNeverCompletes ==
  [][wd.tripped => ~Recorded("run_complete")]_vars

\* When an attempt ends after a trip its last abort record names the watchdog
\* and the breach is on file, whatever error came first.
SafetyRecorded ==
  [][lock # None /\ lock' = None /\ crashes' = crashes /\ wd.tripped
       => Since(log', "host_safety_breach") /\ SafetyAborted(log')]_vars

\* A process that leaves by itself leaves no attempt open: every run_start is
\* answered by run_complete or run_aborted.
EveryAttemptEnds ==
  [][lock # None /\ lock' = None /\ crashes' = crashes
       => Status(log') # "incomplete"]_vars

\* The journal tells the truth about an attempt that ended: complete means that
\* the server is down or kept and that the watchdog never tripped, a trip is on
\* record, and no attempt is left open.
RecordsHonest ==
  CompleteMeansStopped /\ TripNeverCompletes /\ SafetyRecorded /\ EveryAttemptEnds

\* "Keep monitoring through the exact owned stop": while no docker command has
\* failed, a server that is up in an attempt has a live or a tripped watchdog.
MonitoredUntilStopped ==
  Watchdog /\ run.cid /\ run.from # "recover" /\ container.up /\ faults = 0
    => wd.state = "on" \/ wd.tripped

\* A container of another owner is never touched by a step of the harness, not
\* even when it takes the name of an owned one that somebody removed
\* (_require_owned_container, _existing_container).
OthersUntouched ==
  [][container.owner = "other" /\ (pc' # pc \/ wd' # wd) => container' = container]_vars

\* An invocation returns: neither the lifecycle lock nor the abort callback
\* can hold it up for ever.
InvocationReturns == \A p \in Procs : pc[p] # "idle" ~> pc[p] = "idle"

\* A trip takes the server down, unless docker fails or the process is killed.
TripStopsServer ==
  wd.tripped /\ Owned /\ container.up
    ~> ~(Owned /\ container.up) \/ faults > 0 \/ crashes > 0
=============================================================================
