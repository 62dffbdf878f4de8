-------------------------------- MODULE Round --------------------------------
(***************************************************************************)
(* One autoresearch-v2 round and the cache-performance campaign it wraps:   *)
(* bench/autoresearch_v2.py, create_ and                                    *)
(* execute_sm121_cache_performance_campaign of bench/runner.py, the audit   *)
(* of bench/audit.py and the exporter's view of the files that are left     *)
(* (_validate_autoresearch_v2_source_topology and                           *)
(* _validate_sm121_cache_performance_source of bench/evidence.py).          *)
(*                                                                         *)
(* Neither can be resumed.  The campaign runs its arms under the results    *)
(* lock, each as two server lifetimes (a quality gate, then timed turns);    *)
(* the round takes no lock.  The exporter refuses everything, of every      *)
(* source, while one round is in a state it does not know.                  *)
(***************************************************************************)
EXTENDS Integers, Sequences, FiniteSets

CONSTANTS
    Controllers,   \* processes that call run_autoresearch_v2 for the round
    None,
    NArms,         \* SM121_CACHE_PERFORMANCE_ARM_ORDER: A, B, B, A
    NTurns,        \* SM121_CACHE_PERFORMANCE_TIMED_TURNS
    MaxFaults      \* bound on crashes and failures of docker, requests and writes

Arms == 1 .. NArms
\* Lifetime 2a - 1 is the quality lifetime of arm a, and 2a its timed one.
Lifetimes == 1 .. 2 * NArms
Arm(o) == (o + 1) \div 2
Timed(o) == o % 2 = 0

\* An arm's journal, by the kind of its events: whatever reads it selects the
\* events of one kind, so only their order within a kind is kept.  The entries
\* are lifetimes, how a lifetime ended, if a turn was admitted, or the arm.
Attested == {"static", "runtime", "ready", "stopped", "case_start", "case_complete"}
Kinds == Attested \cup
    {"lifetime", "turn", "run_start", "measurement_started", "measurement_complete",
     "run_complete", "run_aborted", "breach", "interrupt_failed"}
Entry(k) == IF k \in Attested THEN Lifetimes
            ELSE IF k = "lifetime" THEN Lifetimes \X BOOLEAN
            ELSE IF k = "turn" THEN BOOLEAN ELSE Arms
Blank == [k \in Kinds |-> <<>>]

\* An arm as the campaign's summary lists it, and what the two summaries are.
Row == [quality : BOOLEAN, timed : BOOLEAN, within : BOOLEAN, turns : Seq(BOOLEAN)]
Stages == {"child_execution", "child_audit", "projection"}
Decisions == {"retain_a", "retain_b", "no_retention", "guardrail_reject", "not_evaluated"}
ChildSummary == [rows : [Arms -> Row], decision : Decisions]
FailureSummary == [kind : {"failed"}, stage : Stages]
ScoredSummary ==
    [kind : {"scored"}, verdict : [status : {"partial", "complete"},
     decision : {"inconclusive", "retain", "reject"}], audit : BOOLEAN,
     decision : Decisions, arms : 0 .. NArms]

ASSUME RoundAssumption ==
    /\ NArms \in Nat \ {0} /\ NTurns \in Nat \ {0}
    /\ MaxFaults \in Nat /\ None \notin Controllers
    /\ None \notin ChildSummary /\ None \notin FailureSummary /\ None \notin ScoredSummary

VARIABLES
    plan,       \* what freeze_autoresearch_v2 has made so far, 0 .. 4
    events,     \* the round's events.jsonl
    summary,    \* the round's summary.json
    arms,       \* events.jsonl of each arm, by kind
    child,      \* the campaign's summary.json
    lock,       \* .sparkbench.lock
    container,  \* sparkbench-sglang: its creator, lifetime, and if it runs
    pc, job,
    faults,
    blame,      \* history: what went wrong outside of a lifetime
    tainted     \* history: arms with a trip, an expiry or a failure

files == <<plan, events, summary, arms, child>>
env == <<faults, blame, tainted>>
vars == <<files, lock, container, env, pc, job>>

Pcs == {"idle", "started", "enter", "lock", "arm", "preflight", "static", "starting",
        "waiting", "case", "interrupt", "logs", "stop", "unwatch", "lifetime", "abort",
        "complete", "score", "audit", "project", "scored", "completed", "summary",
        "failure", "receipt", "done", "dead"}

\* The locals of a controller and its campaign.
Job == [o : Lifetimes, err : {"none", "safety", "other"}, cleanup : BOOLEAN,
        watch : BOOLEAN, tripped : BOOLEAN, callback : {"none", "set", "failed"},
        expired : BOOLEAN, rows : Seq(Row), audit : BOOLEAN,
        stage : Stages]
NoJob == [o |-> 1, err |-> "none", cleanup |-> FALSE, watch |-> FALSE, tripped |-> FALSE,
          callback |-> "none", expired |-> FALSE, rows |-> <<>>,
          audit |-> FALSE, stage |-> "child_execution"]

Init ==
    /\ plan = 0 /\ events = <<>> /\ summary = None /\ child = None
    /\ arms = [a \in Arms |-> Blank]
    /\ lock = None /\ container = None
    /\ pc = [p \in Controllers |-> "idle"]
    /\ job = [p \in Controllers |-> NoJob]
    /\ faults = 0 /\ blame = {} /\ tainted = {}

Fault == faults < MaxFaults /\ faults' = faults + 1
\* A write that fails where nothing catches it.
WriteFails == Fault /\ blame' = blame \cup {"write"}
Goto(p, where) == pc' = [pc EXCEPT ![p] = where]

-----------------------------------------------------------------------------
(* Planning.                                                               *)

\* The round's directory, the campaign's directory, campaign.json with the bound
\* plans, round.json.  Every step may be the last.
freeze_autoresearch_v2 ==
    /\ plan < 4
    /\ plan' = plan + 1
    /\ UNCHANGED <<events, summary, arms, child, lock, container, env, pc, job>>

-----------------------------------------------------------------------------
(* What the files say: the source validator, the reducer, the audit and the *)
(* exporter.                                                               *)

TurnsOf(a) == arms[a].turn
Both(a) == <<2 * a - 1, 2 * a>>
Admitted(row) == row.quality /\ row.timed /\ row.within

\* Every row is consistent, only the last turn of a row may be rejected, and
\* nothing follows the first arm that was not admitted.
validate_sm121_cache_performance_lifetimes(rows) ==
    /\ Len(rows) = NArms
    /\ \A a \in Arms :
          LET r == rows[a] IN
          /\ Len(r.turns) <= NTurns
          /\ \A i \in 1 .. Len(r.turns) - 1 : r.turns[i]
          /\ ~r.quality => ~r.timed /\ r.turns = <<>>
          /\ r.timed => Len(r.turns) = NTurns /\ r.turns[NTurns]
          /\ (\E b \in 1 .. a - 1 : ~Admitted(rows[b])) =>
                 ~r.quality /\ ~r.timed /\ ~r.within /\ r.turns = <<>>

\* The ratios of the wall times decide if every arm was admitted.
score_sm121_cache_performance_campaign(rows) ==
    IF \A a \in Arms : Admitted(rows[a])
    THEN {"retain_a", "retain_b", "no_retention", "guardrail_reject"}
    ELSE {"not_evaluated"}
ChildStatus(decision) == IF decision = "not_evaluated" THEN "partial" ELSE "complete"

PrefixOf(s, t) == Len(s) <= Len(t) /\ \A i \in 1 .. Len(s) : s[i] = t[i]
attestation_topology(a, row) ==
    /\ PrefixOf(arms[a].static, Both(a))
    /\ PrefixOf(arms[a].runtime, arms[a].static)
    /\ Admitted(row) => arms[a].runtime = Both(a)

\* The quality lifetime has one event of each kind, and it succeeded.
quality_attestation(a) ==
    LET q == 2 * a - 1
        ended == arms[a].lifetime
    IN /\ \A k \in {"ready", "stopped", "case_start", "case_complete"} :
             \E i \in DOMAIN arms[a][k] : {j \in DOMAIN arms[a][k] : arms[a][k][j] = q} = {i}
       /\ \E i \in DOMAIN ended :
             {j \in DOMAIN ended : ended[j][1] = q} = {i} /\ ended[i][2]

completed_lifecycle(a) ==
    /\ \A k \in Attested : arms[a][k] = Both(a)
    /\ arms[a].lifetime = <<<<2 * a - 1, TRUE>>, <<2 * a, TRUE>>>>
    /\ \A k \in {"run_start", "measurement_started", "measurement_complete", "run_complete"} :
          Len(arms[a][k]) = 1
    /\ arms[a].run_aborted = <<>>

\* A started campaign has a summary that its arms' journals bear out.
_validate_sm121_cache_performance_source ==
    IF child = None
    THEN IF \E a \in Arms : arms[a] # Blank THEN "invalid" ELSE "unstarted"
    ELSE LET rows == child.rows
             First == {a \in Arms : ~Admitted(rows[a]) /\
                                    \A b \in 1 .. a - 1 : Admitted(rows[b])}
         IN IF /\ validate_sm121_cache_performance_lifetimes(rows)
               /\ \A a \in Arms : attestation_topology(a, rows[a])
               /\ \A a \in Arms : Admitted(rows[a]) =>
                     TurnsOf(a) = rows[a].turns /\ quality_attestation(a)
                     /\ completed_lifecycle(a)
               /\ \A a \in First :
                     /\ TurnsOf(a) = rows[a].turns
                     /\ rows[a].quality => quality_attestation(a)
                     /\ \A b \in a + 1 .. NArms : arms[b] = Blank
               /\ child.decision \in score_sm121_cache_performance_campaign(rows)
            THEN "terminal" ELSE "invalid"

\* Given that the prerequisite evidence still verifies, or not.
audit_sm121_cache_performance_campaign(prerequisites) ==
    prerequisites /\ _validate_sm121_cache_performance_source = "terminal"

\* retain_b retains the candidate and retain_a rejects it.
_decision_from_child(audit) ==
    IF ~audit THEN [status |-> "partial", decision |-> "inconclusive"]
    ELSE [status |-> ChildStatus(child.decision),
          decision |-> CASE child.decision = "retain_b" -> "retain"
                         [] child.decision = "retain_a" -> "reject"
                         [] OTHER -> "inconclusive"]

_summary_payload(audit) ==
    [kind |-> "scored", verdict |-> _decision_from_child(audit), audit |-> audit,
     decision |-> child.decision,
     arms |-> Cardinality({a \in Arms : Admitted(child.rows[a])})]
_failure_summary_payload(stage) == [kind |-> "failed", stage |-> stage]

\* What an export needs of the round and its campaign: an empty directory, a
\* frozen round whose child is unstarted, a failure receipt, or the three events
\* and the summary that an audit without findings gives.
_validate_autoresearch_v2_source_topology ==
    /\ plan # 2 /\ _validate_sm121_cache_performance_source # "invalid"
    /\ plan = 4 =>
          \/ /\ events = <<>> /\ summary = None
             /\ _validate_sm121_cache_performance_source = "unstarted"
          \/ /\ summary # None
             /\ \/ \E stage \in Stages :
                      /\ events = <<<<"started">>, <<"failed", stage>>>>
                      /\ summary = _failure_summary_payload(stage)
                      /\ stage # "child_execution" => child # None
                \/ /\ child # None /\ summary = _summary_payload(TRUE)
                   /\ events = <<<<"started">>, <<"scored", summary>>,
                                 <<"complete", summary>>>>

-----------------------------------------------------------------------------
(* The round.                                                              *)

Round(p) == UNCHANGED <<plan, arms, child, lock, container, tainted>>

\* Nothing was started, there is time left and the child is the frozen one.
run_autoresearch_v2(p) ==
    /\ pc[p] = "idle" /\ plan = 4 /\ summary = None /\ events = <<>>
    /\ Goto(p, "started")
    /\ blame' = IF \A q \in Controllers : pc[q] = "idle" THEN blame
                ELSE blame \cup {"overlap"}
    /\ Round(p) /\ UNCHANGED <<events, summary, job, faults>>

\* Each of the round's records; one that cannot be written ends the call.
Append1(p, at, event, next) ==
    /\ pc[p] = at
    /\ \/ events' = Append(events, event) /\ Goto(p, next) /\ UNCHANGED <<faults, blame>>
       \/ WriteFails /\ Goto(p, "done") /\ UNCHANGED events
    /\ Round(p) /\ UNCHANGED <<summary, job>>

WriteSummary(p, at, payload) ==
    /\ pc[p] = at /\ Goto(p, "done")
    /\ \/ summary' = payload /\ UNCHANGED <<faults, blame>>
       \/ WriteFails /\ UNCHANGED summary
    /\ Round(p) /\ UNCHANGED <<events, job>>

Started(p) == Append1(p, "started", <<"started">>, "enter")

Audit(p) ==
    /\ pc[p] = "audit"
    /\ \/ /\ job' = [job EXCEPT ![p].audit = audit_sm121_cache_performance_campaign(TRUE)]
          /\ Goto(p, "project") /\ UNCHANGED <<faults, blame>>
       \/ /\ job' = [job EXCEPT ![p].audit = audit_sm121_cache_performance_campaign(FALSE)]
          /\ Goto(p, "project") /\ Fault /\ blame' = blame \cup {"evidence"}
       \/ /\ Fault /\ Goto(p, "failure") /\ UNCHANGED blame
          /\ job' = [job EXCEPT ![p].stage = "child_audit"]
    /\ Round(p) /\ UNCHANGED <<events, summary>>

Project(p) ==
    /\ pc[p] = "project"
    /\ \/ Goto(p, "scored") /\ UNCHANGED <<faults, job>>
       \/ /\ Fault /\ Goto(p, "failure")
          /\ job' = [job EXCEPT ![p].stage = "projection"]
    /\ Round(p) /\ UNCHANGED <<events, summary, blame>>

Scored(p) == Append1(p, "scored", <<"scored", _summary_payload(job[p].audit)>>, "completed")
Completed(p) == Append1(p, "completed", <<"complete", _summary_payload(job[p].audit)>>,
                        "summary")
Summary(p) == WriteSummary(p, "summary", _summary_payload(job[p].audit))

\* A failure is recorded only over a child that the exporter would accept.
_validate_failure_child_source(p) ==
    \/ _validate_sm121_cache_performance_source = "terminal"
    \/ /\ _validate_sm121_cache_performance_source = "unstarted"
       /\ job[p].stage = "child_execution"

Refuses(p) ==
    /\ pc[p] = "failure" /\ ~_validate_failure_child_source(p)
    /\ Goto(p, "done")
    /\ Round(p) /\ UNCHANGED <<events, summary, job, faults, blame>>

_record_terminal_failure(p) ==
    /\ _validate_failure_child_source(p)
    /\ Append1(p, "failure", <<"failed", job[p].stage>>, "receipt")

Receipt(p) == WriteSummary(p, "receipt", _failure_summary_payload(job[p].stage))

-----------------------------------------------------------------------------
(* The campaign.                                                           *)

Campaign(p) == UNCHANGED <<plan, events, summary>>
Quiet == UNCHANGED <<faults, blame, tainted>>

\* One event of each of the kinds in new is appended to the journal of arm a.
Log(a, new) ==
    arms' = [arms EXCEPT ![a] =
        [k \in Kinds |-> IF k \in DOMAIN new THEN Append(@[k], new[k]) ELSE @[k]]]

\* An exception leaves the campaign: the lock is released, the round takes over.
Raises(p) ==
    /\ Goto(p, "failure") /\ lock' = IF lock = p THEN None ELSE lock
    /\ job' = [job EXCEPT ![p] = [NoJob EXCEPT !.stage = "child_execution"]]

\* Nothing of the campaign may exist yet: looked at before the lock is held.  The
\* plans or the prerequisite evidence may not verify.
EnterChild(p) ==
    /\ pc[p] = "enter"
    /\ IF child = None /\ \A a \in Arms : arms[a] = Blank
       THEN \/ Goto(p, "lock") /\ Quiet /\ UNCHANGED <<lock, job>>
            \/ Fault /\ Raises(p) /\ UNCHANGED <<blame, tainted>>
       ELSE Raises(p) /\ Quiet
    /\ Campaign(p) /\ UNCHANGED <<arms, child, container>>

TakeLock(p) ==
    /\ pc[p] = "lock"
    /\ IF lock = None
       THEN Goto(p, "arm") /\ lock' = p /\ job' = [job EXCEPT ![p] = NoJob]
       ELSE Raises(p)
    /\ Campaign(p) /\ Quiet /\ UNCHANGED <<arms, child, container>>

\* Mutant: the check before the lock is enough.
ArmFresh_Unchecked(a) == TRUE

\* The arm's own check, under the lock.
ArmFresh(a) == arms[a] = Blank

ArmBegins(p) ==
    /\ pc[p] = "arm"
    /\ LET a == Arm(job[p].o) IN
       \/ /\ ArmFresh(a) /\ Log(a, [run_start |-> a, measurement_started |-> a])
          /\ Goto(p, "preflight") /\ Quiet /\ UNCHANGED <<lock, job>>
       \/ ~ArmFresh(a) /\ Raises(p) /\ Quiet /\ UNCHANGED arms
       \/ WriteFails /\ Raises(p) /\ UNCHANGED <<arms, tainted>>
    /\ Campaign(p) /\ UNCHANGED <<child, container>>

\* No other container, no process on the GPU, enough memory.
Preflight(p) ==
    /\ pc[p] = "preflight"
    /\ \/ container = None /\ Goto(p, "static") /\ Quiet /\ UNCHANGED job
       \/ /\ (container # None /\ UNCHANGED faults) \/ Fault
          /\ Goto(p, "abort") /\ job' = [job EXCEPT ![p].err = "other"]
          /\ UNCHANGED <<blame, tainted>>
    /\ Campaign(p) /\ UNCHANGED <<arms, child, lock, container>>

-----------------------------------------------------------------------------
(* One server lifetime.                                                    *)

o(p) == job[p].o
Mine(p) == container # None /\ container.by = p /\ container.o = o(p)
Taint(p) == tainted' = tainted \cup {Arm(o(p))}
Abort(p) == job[p].tripped \/ job[p].expired
Lifetime(p) == Campaign(p) /\ UNCHANGED <<child, lock, blame>>

\* The except block: the watchdog's failure takes precedence.
Fails(p, next) ==
    /\ Goto(p, next)
    /\ job' = [job EXCEPT ![p].err = IF job[p].tripped THEN "safety" ELSE "other"]

\* The static attestation; the watchdog starts.
Static(p) ==
    /\ pc[p] = "static"
    /\ \/ /\ Log(Arm(o(p)), [static |-> o(p)])
          /\ job' = [job EXCEPT ![p].watch = TRUE]
          /\ Goto(p, "starting") /\ Quiet
       \/ Fault /\ Taint(p) /\ Fails(p, "unwatch") /\ UNCHANGED <<arms, blame>>
    /\ Lifetime(p) /\ UNCHANGED container

\* start_sglang refuses a container that exists; docker run may fail or time out
\* with or without having made one.
StartServer(p) ==
    /\ pc[p] = "starting"
    /\ \/ /\ container = None /\ ~Abort(p)
          /\ container' = [by |-> p, o |-> o(p), runs |-> TRUE]
          /\ job' = [job EXCEPT ![p].callback = "set"]
          /\ Goto(p, "waiting") /\ UNCHANGED <<faults, tainted>>
       \/ /\ container # None \/ Abort(p)
          /\ Fails(p, "unwatch") /\ UNCHANGED <<container, faults, tainted>>
       \/ /\ container = None /\ Fault /\ Taint(p) /\ Fails(p, "unwatch")
          /\ container' \in {None, [by |-> p, o |-> o(p), runs |-> TRUE]}
    /\ Lifetime(p) /\ UNCHANGED arms

\* The endpoint answers: the attestation of the runtime, and the case begins.
ServerReady(p) ==
    /\ pc[p] = "waiting" /\ ~Abort(p) /\ Mine(p) /\ container.runs
    /\ Log(Arm(o(p)), [runtime |-> o(p), ready |-> o(p), case_start |-> o(p)])
    /\ Goto(p, "case") /\ Quiet
    /\ Lifetime(p) /\ UNCHANGED <<job, container>>

\* Mutant: only the watchdog ends the wait.
StartFails_Unbounded(p) ==
    /\ pc[p] = "waiting" /\ Abort(p)
    /\ Fails(p, "unwatch") /\ container' = None /\ Quiet
    /\ Lifetime(p) /\ UNCHANGED arms

\* The abort check, the startup timeout or an error; start_server stops what it
\* started, if it can.
StartFails(p) ==
    /\ pc[p] = "waiting" /\ Fails(p, "unwatch")
    /\ \/ container' = (IF Mine(p) THEN None ELSE container) /\ Quiet
       \/ Fault /\ Taint(p) /\ UNCHANGED <<container, blame>>
    /\ Lifetime(p) /\ UNCHANGED arms

\* A server that did become ready: what fails before the case begins (the abort check,
\* the runtime's identity, one of the three records) is cleaned up like a case.
ReadyFails(p) ==
    /\ pc[p] = "waiting" /\ Mine(p) /\ Fails(p, "interrupt")
    /\ \/ Quiet /\ UNCHANGED arms
       \/ /\ Fault /\ Taint(p) /\ UNCHANGED blame
          /\ \/ Log(Arm(o(p)), [runtime |-> o(p)])
             \/ Log(Arm(o(p)), [runtime |-> o(p), ready |-> o(p)])
    /\ Lifetime(p) /\ UNCHANGED container

Turns(p) == Len(TurnsOf(Arm(o(p))))

\* The quality items, or one timed turn, answered and in order.
Answer(p) ==
    /\ pc[p] = "case" /\ ~Abort(p)
    /\ \/ /\ ~Timed(o(p)) /\ Log(Arm(o(p)), [case_complete |-> o(p)])
          /\ Goto(p, "interrupt")
       \/ /\ Timed(o(p)) /\ Turns(p) + 1 = NTurns
          /\ Log(Arm(o(p)), [turn |-> TRUE, case_complete |-> o(p)])
          /\ Goto(p, "interrupt")
       \/ /\ Timed(o(p)) /\ Turns(p) + 1 # NTurns
          /\ Log(Arm(o(p)), [turn |-> TRUE]) /\ Goto(p, "case")
    /\ Quiet /\ Lifetime(p) /\ UNCHANGED <<job, container>>

\* A wrong answer, a rejected turn (which is in the journal), a request that
\* fails or times out, the abort check.
CaseFails(p) ==
    /\ pc[p] = "case"
    /\ \/ UNCHANGED arms
       \/ Timed(o(p)) /\ ~Abort(p) /\ Log(Arm(o(p)), [turn |-> FALSE])
    /\ Fails(p, "interrupt")
    /\ Quiet /\ Lifetime(p) /\ UNCHANGED container

Cleanup(p, failed) == job' = [job EXCEPT ![p].cleanup = @ \/ failed]

\* After an error or an expiry the work on the GPU is stopped first.
_interrupt_terminal_server(p) ==
    job[p].err # "none" \/ job[p].expired \/ job[p].callback = "failed"

\* The retry of a failed callback and the interrupt, before anything that takes
\* long.  Without an error the last abort check has passed just before; it looked
\* before whatever trip or expiry there is now.
Interrupts(p) ==
    /\ pc[p] = "interrupt"
    /\ \/ ~_interrupt_terminal_server(p) /\ Quiet /\ UNCHANGED <<job, container, arms>>
       \/ /\ _interrupt_terminal_server(p) /\ Quiet
          /\ container' = IF Mine(p) THEN [container EXCEPT !.runs = FALSE] ELSE container
          /\ UNCHANGED job
          /\ IF job[p].callback = "failed" THEN Log(Arm(o(p)), [interrupt_failed |-> Arm(o(p))])
             ELSE UNCHANGED arms
       \/ /\ _interrupt_terminal_server(p) /\ Fault /\ Taint(p) /\ Cleanup(p, TRUE)
          /\ UNCHANGED <<container, arms, blame>>
    /\ Goto(p, "logs") /\ Lifetime(p)

\* The last abort check of the try block.
LastCheckFails(p) ==
    /\ pc[p] = "interrupt" /\ job[p].err = "none" /\ Abort(p)
    /\ Fails(p, "interrupt") /\ Quiet
    /\ Lifetime(p) /\ UNCHANGED <<arms, container>>

SaveLogs(p) ==
    /\ pc[p] = "logs" /\ Goto(p, "stop")
    /\ \/ Quiet /\ UNCHANGED job
       \/ Fault /\ Taint(p) /\ Cleanup(p, TRUE) /\ UNCHANGED blame
    /\ Lifetime(p) /\ UNCHANGED <<arms, container>>

\* The container is removed; a failure is retried once, and remembered.
StopServer(p) ==
    /\ pc[p] = "stop" /\ Goto(p, "unwatch")
    /\ \/ /\ container' = IF Mine(p) THEN None ELSE container
          /\ Log(Arm(o(p)), [stopped |-> o(p)])
          /\ \/ Quiet /\ UNCHANGED job
             \/ Fault /\ Taint(p) /\ Cleanup(p, TRUE) /\ UNCHANGED blame
       \/ /\ Fault /\ Taint(p) /\ Cleanup(p, TRUE)
          /\ UNCHANGED <<container, arms, blame>>
    /\ Lifetime(p)

\* Mutant: what happened after the last check is not looked at.
Verdict_Early(p) == job[p].err

\* The watchdog is stopped, and asked once more; then the cleanup's error counts.
Verdict(p) ==
    IF job[p].err # "none" THEN job[p].err
    ELSE IF job[p].tripped THEN "safety"
    ELSE IF job[p].cleanup THEN "other" ELSE "none"

Unwatch(p) ==
    /\ pc[p] = "unwatch" /\ Goto(p, "lifetime")
    /\ job' = [job EXCEPT ![p].err = Verdict(p), ![p].watch = FALSE]
    /\ Quiet /\ Lifetime(p) /\ UNCHANGED <<arms, container>>

Ends(p) == [NoJob EXCEPT !.o = o(p), !.rows = job[p].rows]

\* lifetime_complete, and on to the timed lifetime or the end of the arm.
LifetimeComplete(p) ==
    /\ pc[p] = "lifetime"
    /\ LET ok == job[p].err = "none" /\ ~job[p].expired
           wrote == UNCHANGED <<faults, tainted>>
                    /\ Log(Arm(o(p)), [lifetime |-> <<o(p), ok>>])
       IN \/ /\ ok /\ wrote
             /\ IF Timed(o(p)) THEN Goto(p, "complete") /\ UNCHANGED job
                ELSE Goto(p, "static") /\ job' = [job EXCEPT ![p] = [Ends(p) EXCEPT !.o = @ + 1]]
          \/ /\ ~ok /\ wrote /\ Goto(p, "abort")
             /\ job' = [job EXCEPT ![p].err = IF @ = "none" THEN "other" ELSE @]
          \/ /\ Fault /\ Taint(p) /\ UNCHANGED arms /\ Goto(p, "abort")
             /\ job' = [job EXCEPT ![p].err = "other"]
    /\ Lifetime(p) /\ UNCHANGED container

-----------------------------------------------------------------------------
(* The end of an arm and of the campaign.                                  *)

\* Mutant: a turn that was rejected is left out of the summary.
_timed_turn_prefix_from_journal_Admitted(a) == SelectSeq(TurnsOf(a), LAMBDA t : t)

\* The timed turns that are in the journal, if only the last was rejected.
_timed_turn_prefix_from_journal(a) ==
    IF \A i \in 1 .. Len(TurnsOf(a)) - 1 : TurnsOf(a)[i] THEN TurnsOf(a) ELSE <<>>

\* After an arm that failed no other is started.
ArmAborts(p) ==
    /\ pc[p] = "abort"
    /\ LET a == Arm(o(p))
           row == [quality |-> Timed(o(p)), timed |-> FALSE, within |-> FALSE,
                   turns |-> IF Timed(o(p)) THEN _timed_turn_prefix_from_journal(a) ELSE <<>>]
       IN \/ /\ Log(a, IF job[p].err = "safety" THEN [breach |-> a, run_aborted |-> a]
                     ELSE [run_aborted |-> a])
             /\ job' = [job EXCEPT ![p] = [Ends(p) EXCEPT !.rows = Append(@, row)]]
             /\ Goto(p, "score") /\ UNCHANGED <<lock, faults, blame>>
          \/ WriteFails /\ Raises(p) /\ UNCHANGED arms
    /\ Campaign(p) /\ UNCHANGED <<child, container, tainted>>

ArmCompletes(p) ==
    /\ pc[p] = "complete"
    /\ LET a == Arm(o(p))
           row == [quality |-> TRUE, timed |-> TRUE, within |-> TRUE, turns |-> TurnsOf(a)]
       IN \/ /\ Log(a, [measurement_complete |-> a, run_complete |-> a])
             /\ job' = [job EXCEPT ![p] = [Ends(p) EXCEPT !.rows = Append(@, row),
                                               !.o = IF a = NArms THEN @ ELSE @ + 1]]
             /\ Goto(p, IF a = NArms THEN "score" ELSE "arm")
             /\ UNCHANGED <<lock, faults, blame>>
          \/ WriteFails /\ Raises(p) /\ UNCHANGED arms
    /\ Campaign(p) /\ UNCHANGED <<child, container, tainted>>

_unstarted_lifetime == [quality |-> FALSE, timed |-> FALSE, within |-> FALSE, turns |-> <<>>]

\* The remaining arms are listed as unstarted, the rows are scored and the
\* summary is written; the lock is released with it.
Score(p) ==
    /\ pc[p] = "score"
    /\ LET rows == [a \in Arms |-> IF a <= Len(job[p].rows) THEN job[p].rows[a]
                                   ELSE _unstarted_lifetime]
       IN \/ /\ validate_sm121_cache_performance_lifetimes(rows)
             /\ \E d \in score_sm121_cache_performance_campaign(rows) :
                   child' = [rows |-> rows, decision |-> d]
             /\ lock' = None /\ Goto(p, "audit") /\ job' = [job EXCEPT ![p] = NoJob]
             /\ UNCHANGED <<faults, blame>>
          \/ /\ ~validate_sm121_cache_performance_lifetimes(rows)
             /\ Raises(p) /\ UNCHANGED <<child, faults, blame>>
          \/ WriteFails /\ Raises(p) /\ UNCHANGED child
    /\ Campaign(p) /\ UNCHANGED <<arms, container, tainted>>

-----------------------------------------------------------------------------
(* The surroundings.                                                       *)

\* Its callback, once registered, interrupts the server or fails.
Trip(p) ==
    /\ job[p].watch /\ ~job[p].tripped /\ Taint(p)
    /\ \/ /\ job' = [job EXCEPT ![p].tripped = TRUE] /\ UNCHANGED faults
          /\ container' = IF job[p].callback = "set" /\ Mine(p)
                          THEN [container EXCEPT !.runs = FALSE] ELSE container
       \/ /\ job[p].callback = "set" /\ Fault
          /\ job' = [job EXCEPT ![p].tripped = TRUE, ![p].callback = "failed"]
          /\ UNCHANGED container
    /\ UNCHANGED <<files, lock, blame, pc>>

\* 1,200 seconds after the lifetime began.
Expire(p) ==
    /\ pc[p] \in {"starting", "waiting", "case", "interrupt", "logs", "stop", "unwatch",
                  "lifetime"}
    /\ ~job[p].expired /\ Taint(p)
    /\ job' = [job EXCEPT ![p].expired = TRUE]
    /\ UNCHANGED <<files, lock, container, faults, blame, pc>>

Crash(p) ==
    /\ pc[p] \notin {"idle", "done", "dead"} /\ Fault
    /\ blame' = blame \cup {"crash"}
    /\ lock' = IF lock = p THEN None ELSE lock
    /\ Goto(p, "dead") /\ job' = [job EXCEPT ![p] = NoJob]
    /\ UNCHANGED <<files, container, tainted>>

-----------------------------------------------------------------------------
Step(p) ==
    \/ Started(p) \/ Audit(p) \/ Project(p) \/ Scored(p) \/ Completed(p) \/ Summary(p)
    \/ Refuses(p) \/ _record_terminal_failure(p) \/ Receipt(p)
    \/ EnterChild(p) \/ TakeLock(p) \/ ArmBegins(p) \/ Preflight(p)
    \/ Static(p) \/ StartServer(p) \/ StartFails(p) \/ CaseFails(p)
    \/ Interrupts(p) \/ LastCheckFails(p) \/ SaveLogs(p) \/ StopServer(p) \/ Unwatch(p)
    \/ LifetimeComplete(p) \/ ArmAborts(p) \/ ArmCompletes(p) \/ Score(p)

Next ==
    \/ freeze_autoresearch_v2
    \/ \E p \in Controllers :
          \/ run_autoresearch_v2(p) \/ Step(p)
          \/ ServerReady(p) \/ ReadyFails(p) \/ Answer(p) \/ Trip(p) \/ Expire(p) \/ Crash(p)

\* A controller takes its steps, its timeouts among them; a server need neither
\* become ready nor answer.
Spec == Init /\ [][Next]_vars /\ \A p \in Controllers : WF_vars(Step(p))

-----------------------------------------------------------------------------
TypeOK ==
    /\ plan \in 0 .. 4
    /\ DOMAIN arms = Arms
    /\ \A a \in Arms : \A k \in Kinds : arms[a][k] \in Seq(Entry(k))
    /\ lock \in Controllers \cup {None}
    /\ container \in [by : Controllers, o : Lifetimes, runs : BOOLEAN] \cup {None}
    /\ pc \in [Controllers -> Pcs] /\ job \in [Controllers -> Job]
    /\ faults \in 0 .. MaxFaults
    /\ blame \subseteq {"write", "overlap", "crash", "evidence"} /\ tainted \subseteq Arms

\* An arm that the campaign's summary counts had no trip, no expiry and no failed
\* step in either of its lifetimes, also none after its last answer; and while
\* logs of a failed lifetime are collected its server no longer works, unless it
\* could not be interrupted (_execute_sm121_cache_performance_*_lifetime).
MeasuredClean ==
    /\ child # None => \A a \in Arms : Admitted(child.rows[a]) => a \notin tainted
    /\ \A p \in Controllers :
          pc[p] = "logs" /\ job[p].err # "none" /\ ~job[p].cleanup /\ Mine(p) =>
              ~container.runs

\* Although its checks come before the lock, a campaign runs once: whatever
\* invocations overlap, an arm is begun once, and once there is a summary no file
\* of the campaign changes (execute_sm121_cache_performance_campaign).
ChildOnce ==
    [][/\ child # None => UNCHANGED <<child, arms>>
       /\ \A a \in Arms : arms[a] # Blank => arms'[a].run_start = arms[a].run_start]_vars

\* When nobody works on it, a round keeps the exporter from publishing only if
\* its planning or an invocation was cut short, a record could not be written,
\* two invocations overlapped, or the prerequisite evidence changed: no failure
\* of the server, the answers, the watchdog or the deadlines does
\* (_record_terminal_failure, _validate_autoresearch_v2_source_topology).  The
\* types of the state, the turns in the campaign's rows among them, go with it.
BlockedOnlyBy ==
    /\ TypeOK
    /\ plan # 2 /\ blame = {} /\ (\A p \in Controllers : pc[p] \in {"idle", "done", "dead"})
          => _validate_autoresearch_v2_source_topology

\* Every invocation ends and leaves the lock free, although a server may never
\* answer.
RoundEnds ==
    \A p \in Controllers :
        pc[p] # "idle" ~> pc[p] \in {"done", "dead"} /\ lock # p
=============================================================================
