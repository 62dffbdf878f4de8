-------------------------------- MODULE Harbor --------------------------------
(***************************************************************************)
(* One Harbor campaign: run_campaign and _execute_campaign_locked of        *)
(* bench/harbor_campaign_lifecycle.py and run_harbor_invocation of          *)
(* bench/harbor_terminal.py.  The owner admits and acquires its resources   *)
(* stage by stage, runs the trials one by one, tears everything down and    *)
(* writes one envelope, which its own validator may still reject.           *)
(*                                                                         *)
(* The process is single-threaded; a signal raises CampaignInterrupted at   *)
(* whatever point it has reached, and only the first one counts.            *)
(***************************************************************************)
EXTENDS Integers, Sequences, FiniteSets

CONSTANTS
    NTrials,       \* EXPECTED_TRIALS; trials 2k-1 and 2k are one task's pair
    MaxFaults      \* bound on the failures of commands, files and trials

ASSUME HarborAssumption == NTrials \in Nat \ {0} /\ MaxFaults \in Nat

Trials == 1 .. NTrials

\* The stages before the first trial: the stop_reason in force, what the stage
\* acquires, and what it may leave when it ends in an exception.  A tree may be
\* there in part; a server or a bridge stays if its own cleanup fails too.
Stage(reason, acquires, leaves) ==
    [reason |-> reason, acquires |-> acquires, leaves |-> leaves]
Admission(reason) == Stage(reason, {}, {})
Acquisition(reason, r) == Stage(reason, {r}, {r})

validate_llamacpp_artifacts == Admission("artifact_admission")
derive_private_task_dataset == Acquisition("dataset_admission", "dataset")
acquire_npm_artifacts == Acquisition("npm_admission", "npm")
verify_harbor_runtime == Admission("runtime_admission")
_stage_runtime_assets == Acquisition("runtime_admission", "assets")
stage_head_agent_source == Acquisition("runtime_admission", "source")
admit_native_platform == Admission("platform_admission")
\* A key that was not written whole is unlinked.
create_ephemeral_key == Stage("preflight", {"key"}, {})
StartTelemetry == Acquisition("preflight", "telemetry")
start_llamacpp == Acquisition("model_start", "server")
run_model_admission == Admission("model_admission")
_start_unix_bridge == Acquisition("bridge_start", "bridge")
admit_unix_bridge == Admission("bridge_admission")

Stages == << validate_llamacpp_artifacts, derive_private_task_dataset,
             acquire_npm_artifacts, verify_harbor_runtime, _stage_runtime_assets,
             stage_head_agent_source, admit_native_platform, create_ephemeral_key,
             StartTelemetry, start_llamacpp, run_model_admission,
             _start_unix_bridge, admit_unix_bridge >>

\* The finally block, in order; "cache" is the last look at the bytecode cache
\* and "jobs" the certification of the raw jobs, which removes nothing.
Teardown == << "bridge", "server", "telemetry", "key", "dataset", "overlays",
               "assets", "sockets", "npm", "cache", "source", "jobs" >>

Resources == {"dataset", "npm", "assets", "source", "key", "telemetry", "server",
              "bridge", "overlays", "sockets"}
Handles == {"telemetry", "server", "bridge"}
Flags == Resources \cup {"harbor", "jobs"}

\* What a running trial owns: its process group, its compose project, its image.
Parts == {"group", "compose", "image"}

\* What a loaded result says: a terminal outcome, a rejected credential, a failed
\* endpoint, anything else, or something the projection refuses.
Classes == {"final", "auth", "endpoint", "other", "malformed"}
Attempt == [exit : {"zero", "nonzero", "timeout"}, clean : BOOLEAN,
            admitted : BOOLEAN, result : BOOLEAN, class : Classes,
            match : BOOLEAN]

VARIABLES
    pc, lock, sig,
    stage,       \* stages passed
    exists,      \* resources that exist
    handles,     \* those of Handles the owner has a variable for
    docker,      \* parts of trials that exist
    invocations, \* invocations_started
    statuses,    \* of the invocations that returned one: was it clean
    attempts,
    cur,         \* the invocation in progress
    summary,     \* campaign_summary
    error, reason, cutoff,
    failed,      \* cleanup flags that are False
    todo,        \* teardown steps left
    late,        \* the first signal came during the teardown
    dirty,       \* the bytecode cache is not empty
    cacheOk,     \* python_bytecode_cache_empty
    bridgeUp, left, faults,
    out          \* the envelope

owner == <<stage, handles, invocations, statuses, attempts, cur, summary, error,
           reason, cutoff, failed, todo, late, cacheOk>>
env == <<sig, dirty, bridgeUp, left>>
vars == <<pc, lock, exists, docker, owner, env, faults, out>>

NoCur == [exit |-> "zero", clean |-> FALSE, admitted |-> FALSE, short |-> FALSE,
          raising |-> "none", known |-> FALSE]
NoSummary == [n |-> -1, done |-> 0, cutoff |-> FALSE]
NoEnvelope == [state |-> "none", status |-> "none", clean |-> FALSE]

TypeOK ==
    /\ pc \in {"idle", "stage", "trial", "overlay", "argv", "snapshot", "run",
               "inspect", "clean", "image", "load", "gate", "summary", "teardown",
               "outcome", "envelope", "done"}
    /\ lock \in BOOLEAN /\ sig \in {"armed", "ignored"}
    /\ stage \in 0 .. Len(Stages)
    /\ exists \subseteq Resources /\ handles \subseteq Handles
    /\ docker \subseteq Trials \X Parts
    /\ invocations \in 0 .. NTrials
    /\ statuses \in Seq(BOOLEAN) /\ attempts \in Seq(Attempt)
    /\ failed \subseteq Flags
    /\ {cutoff, late, dirty, cacheOk, bridgeUp} \subseteq BOOLEAN
    /\ error \in {"none", "interrupted", "other"}
    /\ left \in {"plenty", "short", "over"} /\ faults \in 0 .. MaxFaults

Init ==
    /\ pc = "idle" /\ lock = FALSE /\ sig = "armed"
    /\ stage = 0 /\ exists = {} /\ handles = {} /\ docker = {}
    /\ invocations = 0 /\ statuses = <<>> /\ attempts = <<>> /\ cur = NoCur
    /\ summary = NoSummary /\ error = "none" /\ reason = "artifact_admission"
    /\ cutoff = FALSE /\ failed = {} /\ todo = Teardown /\ late = FALSE
    /\ dirty = FALSE /\ cacheOk = FALSE /\ bridgeUp = FALSE /\ left = "plenty"
    /\ faults = 0 /\ out = NoEnvelope

Fault == faults < MaxFaults /\ faults' = faults + 1
NoFault == UNCHANGED faults

\* The trial that runs or is about to.
T == Len(attempts) + 1

(***************************************************************************)
(* Leaving the try block: by an error, or by break or completion.           *)
(***************************************************************************)

Leave(e, why) == pc' = "summary" /\ error' = e /\ reason' = why

(***************************************************************************)
(* The lock and the stages.                                                 *)
(***************************************************************************)

run_campaign ==
    /\ pc = "idle"
    /\ pc' = "stage" /\ lock' = TRUE
    /\ exists' = exists \cup {"overlays", "sockets"}
    /\ UNCHANGED <<docker, owner, env, faults, out>>

Passed(s) == \E i \in 1 .. stage : Stages[i] = s

StagePasses ==
    /\ pc = "stage"
    /\ LET got == Stages[stage + 1].acquires IN
       /\ exists' = exists \cup got
       /\ handles' = handles \cup (got \cap Handles)
       /\ bridgeUp' = (bridgeUp \/ "bridge" \in got)
       /\ cacheOk' = (cacheOk \/ "source" \in got)
    /\ stage' = stage + 1
    /\ IF stage + 1 = Len(Stages) THEN pc' = "trial" /\ reason' = "trial_failure"
       ELSE pc' = "stage" /\ reason' = Stages[stage + 2].reason
    /\ UNCHANGED <<lock, docker, invocations, statuses, attempts, cur, summary,
                   error, cutoff, failed, todo, late, sig, dirty, left, faults, out>>

\* A stage is left by an exception.  The sampler is assigned before it is started.
StageAborts(e, why) ==
    /\ LET rest == Stages[stage + 1].leaves IN
       /\ exists' \in {exists, exists \cup rest}
       /\ handles' = handles \cup (rest \cap {"telemetry"})
    /\ Leave(e, why)
    /\ UNCHANGED <<lock, stage, docker, invocations, statuses, attempts, cur,
                   summary, cutoff, failed, todo, late, cacheOk, dirty, bridgeUp,
                   left, out>>

StageFails ==
    /\ pc = "stage" /\ Fault /\ UNCHANGED sig
    /\ StageAborts("other", reason)

(***************************************************************************)
(* A trial.                                                                 *)
(***************************************************************************)

InTry == UNCHANGED <<lock, stage, exists, handles, summary, failed, todo, late,
                     cacheOk, out>>

\* assert_healthy and the cutoff; the trial's timeout is what is left now.
TrialBegins ==
    /\ pc = "trial" /\ NoFault
    /\ \/ ~bridgeUp /\ Leave("other", "trial_failure") /\ UNCHANGED <<cutoff, cur>>
       \/ /\ bridgeUp /\ left = "over" /\ cutoff' = TRUE
          /\ Leave("none", "hard_cutoff") /\ UNCHANGED cur
       \/ /\ bridgeUp /\ left # "over" /\ pc' = "overlay"
          /\ cur' = [NoCur EXCEPT !.short = left = "short"]
          /\ UNCHANGED <<error, reason, cutoff>>
    /\ InTry /\ UNCHANGED <<docker, invocations, statuses, attempts, env>>

\* The runtime is verified once more and the overlay written from fresh trees.
prepare_runtime_overlay ==
    /\ pc = "overlay"
    /\ \/ NoFault /\ pc' = "argv" /\ UNCHANGED <<error, reason>>
       \/ Fault /\ Leave("other", "trial_failure")
    /\ InTry /\ UNCHANGED <<docker, invocations, statuses, attempts, cur, cutoff, env>>

\* The command line is made of admitted parts; from here on it counts as started.
build_harbor_invocation ==
    /\ pc = "argv"
    /\ \/ /\ NoFault /\ pc' = "snapshot" /\ invocations' = invocations + 1
          /\ UNCHANGED <<error, reason>>
       \/ Fault /\ Leave("other", "trial_failure") /\ UNCHANGED invocations
    /\ InTry /\ UNCHANGED <<docker, statuses, attempts, cur, cutoff, env>>

\* The baseline of docker resources and images, and the start of the process.
Snapshot ==
    /\ pc = "snapshot"
    /\ \/ /\ NoFault /\ pc' = "run"
          /\ docker' = docker \cup ({T} \X Parts) /\ UNCHANGED <<error, reason>>
       \/ Fault /\ Leave("other", "trial_failure") /\ UNCHANGED docker
    /\ InTry /\ UNCHANGED <<invocations, statuses, attempts, cur, cutoff, env>>

InvocationOnly ==
    InTry /\ UNCHANGED <<invocations, statuses, attempts, error, reason, cutoff>>

\* The process ends; its group is drained.
ProcessEnds ==
    /\ pc = "run"
    /\ \E e \in {"zero", "nonzero"} : cur' = [cur EXCEPT !.exit = e]
    /\ docker' = docker \ {<<T, "group">>} /\ pc' = "inspect"
    /\ \/ NoFault /\ UNCHANGED dirty
       \/ Fault /\ dirty' = TRUE
    /\ InvocationOnly /\ UNCHANGED <<sig, bridgeUp, left>>

\* SIGTERM only, and the group ignores it.
ProcessTimesOut_TermOnly == pc = "run" /\ UNCHANGED vars

\* process.wait times out: SIGTERM, then SIGKILL.  A group that survives raises.
ProcessTimesOut ==
    /\ pc = "run" /\ pc' = "inspect"
    /\ \/ /\ NoFault /\ docker' = docker \ {<<T, "group">>}
          /\ cur' = [cur EXCEPT !.exit = "timeout"]
       \/ /\ Fault /\ UNCHANGED docker
          /\ cur' = [cur EXCEPT !.raising = "other"]
    /\ InvocationOnly /\ UNCHANGED env

\* Images and the network marker are read; whatever fails is not admitted, and
\* an image that cannot be identified cannot be removed.
Inspect ==
    /\ pc = "inspect" /\ pc' = "clean"
    /\ \/ NoFault /\ cur' = [cur EXCEPT !.admitted = TRUE, !.known = TRUE]
       \/ Fault /\ \E k \in BOOLEAN : cur' = [cur EXCEPT !.known = k]
    /\ InvocationOnly /\ UNCHANGED <<docker, env>>

\* A failed cleanup, whatever the exception, is remembered and not raised.
cleanup_harbor_containers ==
    /\ pc = "clean" /\ pc' = "image"
    /\ \/ /\ NoFault /\ docker' = docker \ {<<T, "compose">>}
          /\ cur' = [cur EXCEPT !.clean = TRUE]
       \/ Fault /\ UNCHANGED <<docker, cur>>
    /\ InvocationOnly /\ UNCHANGED env

\* The built image is removed last; then the exception of the process, if there
\* was one, goes on, or the status is returned.
_remove_built_image ==
    /\ pc = "image"
    /\ \E ok \in BOOLEAN :
         /\ IF ok THEN cur.known /\ NoFault ELSE (~cur.known /\ NoFault) \/ Fault
         /\ docker' = IF ok THEN docker \ {<<T, "image">>} ELSE docker
         /\ cur' = [cur EXCEPT !.clean = @ /\ ok]
         /\ IF cur.raising = "none"
            THEN /\ pc' = "load" /\ statuses' = Append(statuses, cur.clean /\ ok)
                 /\ UNCHANGED <<error, reason>>
            ELSE /\ Leave(cur.raising, IF cur.raising = "other" THEN "trial_failure"
                                                             ELSE "interrupted")
                 /\ UNCHANGED statuses
    /\ InTry /\ UNCHANGED <<invocations, attempts, cutoff, env>>

NewAttempt(result, class, match) ==
    [exit |-> cur.exit, clean |-> cur.clean, admitted |-> cur.admitted,
     result |-> result, class |-> class, match |-> match]

\* _record_status_then_load: the attempt is recorded before its result is read.
\* Harbor may have written a result whatever became of its process.
LoadResult ==
    /\ pc = "load"
    /\ cur' = [NoCur EXCEPT !.short = cur.short]
    /\ \E match \in BOOLEAN :
         /\ T % 2 = 1 => match
         /\ \/ /\ ~dirty /\ NoFault /\ pc' = "gate" /\ UNCHANGED <<error, reason>>
               /\ \E r \in BOOLEAN, class \in Classes :
                    /\ ~(r /\ cur.exit = "zero") => class = "other"
                    /\ attempts' = Append(attempts, NewAttempt(r, class, match))
            \/ /\ (dirty /\ NoFault) \/ Fault
               /\ Leave("other", "trial_failure")
               /\ attempts' = Append(attempts, NewAttempt(FALSE, "other", match))
    /\ InTry /\ UNCHANGED <<docker, invocations, statuses, cutoff, env>>

\* summarize_campaign_results.  A result counts if its process ended well, and a
\* result that cannot be projected makes every later summary fail.
Available(a) == a.result /\ a.exit = "zero"
Malformed == \E i \in DOMAIN attempts :
                Available(attempts[i]) /\ attempts[i].class = "malformed"
Summarize(c) ==
    [n |-> Len(attempts), cutoff |-> c,
     done |-> Cardinality({i \in DOMAIN attempts : Available(attempts[i])})]

\* The exception class of the projection: a pair that does not match has its own.
Class(i) == IF Available(attempts[i]) /\ attempts[i].match
            THEN attempts[i].class ELSE "process"

_attempt_gate_LeavesContainers ==
    LET n == Len(attempts)
    IN IF Class(n) = "auth" THEN "auth_failure_gate"
       ELSE IF n > 1 /\ ~attempts[n].match THEN "image_identity_gate" ELSE "none"

_attempt_gate ==
    LET n == Len(attempts)
        a == attempts[n]
        unclean == ~(a.clean /\ a.admitted)
        canary == Available(a) /\ ~unclean /\ a.class = "final"
    IN IF Class(n) = "auth" THEN "auth_failure_gate"
       ELSE IF n = 1 THEN IF canary THEN "none" ELSE "canary_gate"
       ELSE IF unclean THEN "trial_failure"
       ELSE IF ~a.match THEN "image_identity_gate"
       ELSE IF Class(n) = "endpoint" /\ Class(n - 1) = "endpoint"
            THEN "endpoint_failure_gate" ELSE "none"

\* The bridge once more, the summary, the deadline, the gate, the next trial.
Gate ==
    /\ pc = "gate"
    /\ \/ /\ ((~bridgeUp \/ Malformed) /\ NoFault) \/ Fault
          /\ Leave("other", "trial_failure") /\ UNCHANGED <<cutoff, summary>>
       \/ /\ bridgeUp /\ ~Malformed /\ NoFault
          /\ summary' = Summarize(FALSE)
          /\ cutoff' = (attempts[Len(attempts)].exit = "timeout" /\ cur.short)
          /\ IF cutoff' THEN Leave("none", "hard_cutoff")
             ELSE IF _attempt_gate # "none" THEN Leave("none", _attempt_gate)
             ELSE IF Len(attempts) = NTrials THEN Leave("none", "completed")
             ELSE pc' = "trial" /\ UNCHANGED <<error, reason>>
    /\ UNCHANGED <<lock, stage, exists, handles, docker, invocations, statuses,
                   attempts, cur, failed, todo, late, cacheOk, env, out>>

(***************************************************************************)
(* The finally block.                                                       *)
(***************************************************************************)

\* An error of the finally block counts if there is no earlier one.
Secondary(e, why) ==
    /\ error' = IF error = "none" THEN e ELSE error
    /\ reason' = IF error = "none" THEN why ELSE reason

Certified_ReturnedOnly == \A i \in DOMAIN statuses : statuses[i]

\* _harbor_cleanup_certified
Certified == /\ invocations = Len(statuses)
             /\ \A i \in DOMAIN statuses : statuses[i]

Admitted == Passed(derive_private_task_dataset) /\ Passed(acquire_npm_artifacts)

\* The last summary, if the data set and the packages were admitted.
LastSummary(e) ==
    /\ \/ /\ e = "none" /\ ~Admitted /\ UNCHANGED <<summary, error, reason>>
       \/ /\ e = "none" /\ Admitted /\ ~Malformed
          /\ summary' = Summarize(cutoff) /\ UNCHANGED <<error, reason>>
       \/ /\ Admitted /\ (e # "none" \/ Malformed)
          /\ Secondary("other", "trial_failure") /\ UNCHANGED summary
    /\ failed' = IF Certified THEN {} ELSE {"harbor"}
    /\ pc' = "teardown"
    /\ UNCHANGED <<lock, stage, exists, handles, docker, invocations, statuses,
                   attempts, cur, cutoff, todo, cacheOk, dirty, bridgeUp, left, out>>

Finally ==
    /\ pc = "summary" /\ UNCHANGED <<sig, late>>
    /\ \/ NoFault /\ LastSummary("none")
       \/ Fault /\ LastSummary("other")

Advance == todo' = Tail(todo) /\ pc' = IF Tail(todo) = <<>> THEN "outcome"
                                                             ELSE "teardown"

\* What goes when a step of the teardown succeeds: the key is in the directory of
\* the sockets.
Gone(r) == IF r = "sockets" THEN {"sockets", "key"} ELSE {r}

\* Nothing is claimed of a handle the owner never had.
Skips(r) == r \in Handles \ handles

Removes ==
    /\ pc = "teardown" /\ Head(todo) # "cache"
    /\ LET r == Head(todo)
           ok == ~(r = "bridge" /\ ~bridgeUp)
       IN \/ Skips(r) /\ NoFault /\ UNCHANGED <<exists, failed>>
          \/ /\ ~Skips(r) /\ NoFault
             /\ exists' = exists \ Gone(r)
             /\ failed' = IF ok THEN failed ELSE failed \cup {r}
          \/ /\ ~Skips(r) /\ Fault /\ UNCHANGED exists
             /\ failed' = failed \cup {r}
    /\ Advance
    /\ UNCHANGED <<lock, docker, stage, handles, invocations, statuses, attempts, cur,
                   summary, error, reason, cutoff, late, cacheOk, env, out>>

\* A cache that is not empty takes the admission back.
ChecksCache ==
    /\ pc = "teardown" /\ Head(todo) = "cache"
    /\ \/ /\ ~Passed(stage_head_agent_source) \/ ~dirty
          /\ NoFault /\ UNCHANGED <<cacheOk, error, reason>>
       \/ /\ Passed(stage_head_agent_source) /\ ((dirty /\ NoFault) \/ Fault)
          /\ cacheOk' = FALSE /\ Secondary("other", "runtime_admission")
    /\ Advance
    /\ UNCHANGED <<lock, exists, docker, stage, handles, invocations, statuses,
                   attempts, cur, summary, cutoff, failed, late, env, out>>

\* Without a summary or the model's artifacts there is nothing to report.
Outcome ==
    /\ pc = "outcome" /\ lock' = FALSE
    /\ pc' = IF summary = NoSummary \/ ~Passed(validate_llamacpp_artifacts) THEN "done" ELSE "envelope"
    /\ reason' = IF failed # {} THEN "cleanup_failure" ELSE reason
    /\ UNCHANGED <<exists, docker, stage, handles, invocations, statuses, attempts,
                   cur, summary, error, cutoff, failed, todo, late, cacheOk, env,
                   faults, out>>

(***************************************************************************)
(* The envelope.                                                            *)
(***************************************************************************)

Completed == Cardinality({i \in DOMAIN attempts : attempts[i].result})

Status ==
    IF /\ Len(attempts) = NTrials /\ Completed = NTrials /\ reason = "completed"
       /\ error = "none" /\ failed = {}
    THEN "completed" ELSE IF attempts # <<>> THEN "partial" ELSE "aborted"

\* What it compares between the lifecycle and the summary.  Its checks of the clocks
\* (at most ten hours, no less than the trials took, not finished before it started)
\* hold unless the owner was stalled for hours or the wall clock was set back; they
\* are not modelled.
validate_lifecycle_envelope ==
    /\ summary = [n |-> Len(attempts), done |-> Completed, cutoff |-> cutoff]
    /\ attempts # <<>> => stage = Len(Stages) /\ cacheOk
    /\ reason = "hard_cutoff" => cutoff
    /\ cutoff => reason \in {"hard_cutoff", "cleanup_failure"}
    /\ (reason = "completed") = (Status = "completed")
    /\ reason = "cleanup_failure" => failed # {}

WriteEnvelope ==
    /\ pc = "envelope" /\ pc' = "done"
    /\ \/ /\ NoFault
          /\ out' = [state |-> IF validate_lifecycle_envelope THEN "written"
                                                            ELSE "rejected",
                     status |-> Status, clean |-> failed = {}]
       \/ Fault /\ UNCHANGED out
    /\ UNCHANGED <<lock, exists, docker, owner, env>>

(***************************************************************************)
(* The first signal.  Later ones are ignored until the lock is released.    *)
(***************************************************************************)

InterruptStage ==
    /\ pc = "stage" /\ StageAborts("interrupted", "interrupted") /\ NoFault

\* Between the steps of a trial and in those that let every exception through;
\* a process is terminated first, and its finally block still runs.
InterruptTrial ==
    /\ \/ /\ pc \in {"trial", "overlay", "argv", "snapshot", "inspect", "image", "gate"}
          /\ Leave("interrupted", "interrupted") /\ UNCHANGED <<docker, cur, attempts>>
       \/ /\ pc = "load" /\ Leave("interrupted", "interrupted")
          /\ attempts' = Append(attempts, NewAttempt(FALSE, "other", TRUE))
          /\ UNCHANGED <<docker, cur>>
       \/ /\ pc = "run" /\ pc' = "inspect"
          /\ docker' \in {docker, docker \ {<<T, "group">>}}
          /\ cur' = [cur EXCEPT !.raising = "interrupted"]
          /\ UNCHANGED <<error, reason, attempts>>
       \/ /\ pc = "clean" /\ pc' = "image"
          /\ docker' \in {docker, docker \ {<<T, "compose">>}}
          /\ UNCHANGED <<error, reason, attempts, cur>>
    /\ NoFault
    /\ InTry /\ UNCHANGED <<invocations, statuses, cutoff, dirty, bridgeUp, left>>

\* The teardown passes the exception on, except where it records a failed step.
InterruptTeardown ==
    /\ late' = (late \/ error # "interrupted")
    /\ \/ /\ pc = "summary" /\ LastSummary("other")
       \/ /\ pc \in {"summary", "teardown", "outcome"}
          /\ pc' = "done" /\ lock' = FALSE
          /\ UNCHANGED <<exists, docker, stage, handles, invocations, statuses,
                         attempts, cur, summary, error, reason, cutoff, failed, todo,
                         cacheOk, dirty, bridgeUp, left, out>>
       \/ /\ pc = "teardown"
          /\ Head(todo) \in handles \/ (Head(todo) = "dataset" /\ Passed(derive_private_task_dataset))
          /\ failed' = failed \cup {Head(todo)} /\ Advance
          /\ UNCHANGED <<lock, exists, docker, stage, handles, invocations, statuses,
                         attempts, cur, summary, error, reason, cutoff, cacheOk,
                         dirty, bridgeUp, left, out>>
       \/ /\ pc = "teardown" /\ Head(todo) = "cache" /\ Passed(stage_head_agent_source)
          /\ cacheOk' = FALSE /\ Secondary("interrupted", "runtime_admission")
          /\ Advance
          /\ UNCHANGED <<lock, exists, docker, stage, handles, invocations, statuses,
                         attempts, cur, summary, cutoff, failed, dirty, bridgeUp,
                         left, out>>
    /\ NoFault

Ignored_Never == UNCHANGED sig

\* interrupt() of termination_guard sets both signals to SIG_IGN.
Ignored == sig' = "ignored"

Interrupt ==
    /\ sig = "armed" /\ Ignored
    /\ InterruptStage \/ InterruptTrial \/ InterruptTeardown

(***************************************************************************)
(* The surroundings, and the specification.                                 *)
(***************************************************************************)

BridgeDies ==
    /\ bridgeUp /\ "bridge" \in exists /\ Fault
    /\ bridgeUp' = FALSE
    /\ UNCHANGED <<pc, lock, exists, docker, owner, sig, dirty, left, out>>

Tick ==
    /\ pc \in {"trial", "run"}
    /\ left' = CASE left = "plenty" -> "short" [] OTHER -> "over"
    /\ left' # left
    /\ UNCHANGED <<pc, lock, exists, docker, owner, sig, dirty, bridgeUp, faults, out>>

Owner ==
    \/ StagePasses \/ StageFails \/ TrialBegins
    \/ prepare_runtime_overlay \/ build_harbor_invocation \/ Snapshot
    \/ ProcessTimesOut \/ Inspect \/ cleanup_harbor_containers
    \/ _remove_built_image \/ LoadResult \/ Gate
    \/ Finally \/ Removes \/ ChecksCache \/ Outcome \/ WriteEnvelope

Next == run_campaign \/ Owner \/ ProcessEnds \/ Interrupt \/ BridgeDies \/ Tick

\* The owner takes its steps, its timeouts among them; a trial's process need
\* never end by itself.
Spec == Init /\ [][Next]_vars /\ WF_vars(Owner)

(***************************************************************************)
(* Properties.                                                              *)
(***************************************************************************)

\* What the envelope says is true.  With every cleanup flag set nothing of the
\* campaign is left, but for a server or bridge whose start failed and that
\* could not be stopped either; and "completed" means that every trial was
\* measured, admitted and cleaned up without a signal or an error.  And the
\* validator loses a measurement, by rejecting an outcome of its own lifecycle,
\* only if a trial has no usable result, the bytecode cache was not empty,
\* something failed after the cutoff had been reached, or two summaries in a
\* row could not be made (a refusal by its checks of the clocks apart).
EnvelopeTruthful ==
    /\ out.state = "written" =>
        /\ out.clean => docker = {} /\ exists \subseteq {"server", "bridge"} \ handles
        /\ out.status = "completed" =>
             /\ out.clean /\ sig = "armed" /\ ~dirty /\ Len(attempts) = NTrials
             /\ \A i \in Trials : Available(attempts[i]) /\ attempts[i].clean
                                  /\ attempts[i].admitted
    /\ out.state = "rejected" =>
        \/ \E i \in DOMAIN attempts : ~Available(attempts[i])
                                      \/ attempts[i].class = "malformed"
        \/ ~cacheOk
        \/ cutoff /\ error # "none"
        \/ summary.n # Len(attempts)

\* After a signal no trial is started, even where the exception was swallowed by
\* a cleanup.
InterruptStops == [][sig = "ignored" => invocations' = invocations]_vars

\* Unless the signal arrives in the teardown itself, the lock is not released
\* before every step of the teardown was tried.
TeardownComplete == pc \in {"envelope", "done"} /\ ~late => todo = <<>> /\ ~lock
Orderly == TypeOK /\ TeardownComplete

\* Every campaign ends, with the lock free, even if a trial hangs.
CampaignEnds == pc # "idle" ~> pc = "done" /\ ~lock
=============================================================================
