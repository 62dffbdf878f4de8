------------------------------- MODULE Campaign -------------------------------
(***************************************************************************)
(* The campaign controller: bench/autoresearch_campaign.py, run_campaign   *)
(* and acknowledge_campaign_checkpoint, as the sequence of durable effects *)
(* an invocation makes, with a crash possible between any two of them.     *)
(* One invocation at a time holds the campaign lock.  What survives it is  *)
(* on disk: the controller journal (ctl, the state its replay gives), the  *)
(* admission journal, calibration.json, the cells' own journals, the       *)
(* worker record, the checkpoint acknowledgement.  A cell's worker is a    *)
(* process of its own and goes on when the controller dies.                *)
(*                                                                         *)
(* A cell's raw journal is abstracted to what the controller reads off it: *)
(*   empty      no bytes                                                   *)
(*   partial    run_start is readable, the run is not terminal             *)
(*   torn       a line is torn, and the file cannot be read               *)
(*   done       projects to a score                                        *)
(*   late       projects, but began too long after its pair's first cell   *)
(*   bad        terminal and unscoreable                                   *)
(***************************************************************************)
EXTENDS ReplayMachine

CONSTANTS
    MaxFaults,    \* bound: crashes and backward clock steps
    ClockSteps,   \* may the wall clock be set back
    MaxDenials,   \* bound: admissions denied before the campaign starts
    MaxVersion,   \* bound: changes of the published evidence
    MaxTime, Cutoff,  \* the clock, and when too little time is left for a pair
    Tearing,      \* may a crash tear the journal record being appended
    TornCells     \* may a dying worker tear the line it is writing

ASSUME BoundsAssumption ==
    /\ MaxFaults \in Nat /\ MaxDenials \in Nat /\ MaxVersion \in Nat
    /\ MaxTime \in Nat /\ Cutoff \in Nat
    /\ ClockSteps \in BOOLEAN /\ Tearing \in BOOLEAN /\ TornCells \in BOOLEAN

VARIABLES
    torn,        \* the journal that ends in a torn record, if one does
    admissions,  \* admissions.jsonl
    starts,      \* the pair_started events: target, position and time
    calib,       \* calibration.json
    cells,       \* each cell's journal
    firstStart,  \* when the first calibration worker wrote its run_start
    rec,         \* the cell whose worker record or container recovery finds
    alive,       \* the cells whose worker or server is up
    ack,         \* the checkpoint acknowledgement
    version,     \* the evidence published on the upstream
    clock, faults,
    pc, kind,    \* the invocation's place, and the failure it is handling
    run,         \* what this invocation has done so far
    result,      \* how the last invocation ended, if none runs
    launches     \* how often each cell was launched

disk == <<torn, admissions, starts, calib, ack>>
world == <<version, clock, faults>>
procs == <<cells, firstStart, rec, alive, launches>>
vars == <<ctl, disk, world, procs, pc, kind, run, result>>

-----------------------------------------------------------------------------
CellIds == ({<<0, 0>>} \cup (Candidates \X {1, 2})) \X Arms
NoCell == <<>>
Raw == {"empty", "partial", "torn", "done", "late", "bad"}
CellFailures == {"measurement", "audit", "cleanup_breach", "ownership_ambiguity"}

Calibration(arm) == <<<<0, 0>>, arm>>
Stage(s) == Len(Observations(s)) + 1
PairCell(s, arm) == <<<<s.cand, Stage(s)>>, arm>>
\* The next arm of the active pair, in the frozen order.
NextCell == PairCell(ctl, PairOrder(ctl.next)[ctl.arms + 1])

Promoted == \E c \in Candidates : ctl.decided[c] \in Promotions
AllRejected == \A c \in Candidates : ctl.decided[c] = "reject"
Undecided == {c \in Candidates : ctl.decided[c] = "none"}
NextProposal == CHOOSE c \in Undecided : \A d \in Undecided : c <= d

NoTarget == [kind |-> "none", cand |-> None, pair |-> 0]
Target(k, c, i) == [kind |-> k, cand |-> c, pair |-> i]
StageName(s) == IF Stage(s) = 1 THEN "screen" ELSE "confirmation"
\* _next_admission_target: the pair whose next cell could be launched now.
NextTarget ==
    CASE calib = "none" -> Target("calibration", None, 0)
      [] calib # "none" /\ ctl.phase = "pair" /\ ctl.arms < 2 ->
             Target(StageName(ctl), ctl.cand, ctl.next)
      [] calib # "none" /\ ctl.phase = "candidate" ->
             Target(StageName(ctl), ctl.cand, ctl.next)
      [] calib # "none" /\ ctl.phase = "idle" /\ ~Promoted /\ Undecided # {} ->
             Target("screen", NextProposal, ctl.next)
      [] OTHER -> NoTarget

\* _latest_checkpoint_completion: the sequence number of the newest whole pair.
LatestCompletion ==
    CASE ctl.next > 0 -> ctl.next + 1
      [] ctl.next = 0 /\ calib # "none" -> 1
      [] OTHER -> 0

\* Mutant: a confirmation needs no checkpoint.
CheckpointGateRequired_IdleOnly ==
    calib = "passed" /\ ctl.phase = "idle" /\ ~Promoted /\ ~AllRejected

CheckpointGateRequired ==
    /\ calib = "passed"
    /\ \/ ctl.phase = "candidate" /\ Stage(ctl) = 2 /\ ctl.mode # "none"
       \/ ctl.phase = "idle" /\ ~Promoted /\ ~AllRejected
GateReady == ack.seq = LatestCompletion /\ ack.version = version

\* _require_checkpoint_boundary: nothing may still settle or advance.
AtBoundary ==
    IF calib = "none"
    THEN /\ \A arm \in Arms : cells[Calibration(arm)] = "empty"
         /\ ctl.phase \in {"new", "terminal"}
    ELSE /\ ctl.phase \notin {"new", "pair", "scored"}
         /\ calib = "failed" => ctl.phase = "terminal"
         /\ ctl.phase = "candidate" => Stage(ctl) = 2 /\ ctl.mode # "none"
         /\ ctl.phase = "idle" => ~Promoted /\ ~AllRejected

\* _validate_admission_execution_coverage reads run_start of every calibration
\* cell that has a journal; one with a torn line raises.
CalibrationUnreadable ==
    \E arm \in Arms : cells[Calibration(arm)] = "torn"
Admitted(t, position, time) ==
    \E i \in 1 .. Len(admissions) :
        /\ admissions[i].outcome = "admitted" /\ admissions[i].target = t
        /\ admissions[i].count <= position /\ admissions[i].at <= time
Covered ==
    /\ (calib # "none" \/ \E arm \in Arms : cells[Calibration(arm)] # "empty") =>
           Admitted(Target("calibration", None, 0), 1, firstStart)
    /\ \A i \in 1 .. Len(starts) :
           Admitted(starts[i].target, starts[i].at, starts[i].time)
\* Mutant: a torn record is skipped, as Journal.events does.
Unsafe_Lenient == CalibrationUnreadable \/ ~Covered

\* What _controller_events and _read_campaign_admissions refuse to read.
Unsafe == torn # "none" \/ CalibrationUnreadable \/ ~Covered

\* Raw search work without its pair start, or out of order
\* (_validate_search_artifact_admission, _raw_search_prefix).
TopologyError ==
    \/ \E c \in Candidates, s \in {1, 2}, arm \in Arms :
           /\ cells[<<<<c, s>>, arm>>] # "empty"
           /\ \A i \in 1 .. Len(starts) :
                  starts[i].target.cand # c
                  \/ starts[i].target.kind # (IF s = 1 THEN "screen" ELSE "confirmation")
    \/ /\ ctl.phase = "pair" /\ ctl.arms = 0
       /\ cells[NextCell] = "empty"
       /\ cells[PairCell(ctl, PairOrder(ctl.next)[2])] # "empty"

-----------------------------------------------------------------------------
NoRun == [launched |-> {}, target |-> NoTarget, seen |-> 0, clean |-> TRUE]

Init ==
    /\ ctl = EmptyReplayState
    /\ torn = "none" /\ admissions = <<>> /\ starts = <<>> /\ calib = "none"
    /\ ack = [seq |-> 0, version |-> 0]
    /\ cells = [c \in CellIds |-> "empty"] /\ firstStart = MaxTime
    /\ rec = NoCell /\ alive = {} /\ launches = [c \in CellIds |-> 0]
    /\ version = 0 /\ clock = 0 /\ faults = 0
    /\ pc = "down" /\ kind = "none" /\ run = NoRun /\ result = "none"

Goto(place) == pc' = place /\ UNCHANGED <<kind, run, result>>
\* A handled failure: the campaign is terminated, and before the gate it is
\* first started, should it not be.
FailAt(place, k) == pc' = place /\ kind' = k /\ UNCHANGED <<run, result>>
Fail(k) == FailAt("fail", k)
\* The invocation releases the lock.  _summarize_campaign_locked reads the
\* admissions too, and raises where they cannot be read.
Finish(r) ==
    /\ pc' = "down" /\ kind' = "none" /\ run' = NoRun
    /\ result' = IF r = "summary" /\ (CalibrationUnreadable \/ ~Covered) THEN "raised" ELSE r

\* _append_frozen_transition: the event is appended if the replay of the
\* extended journal accepts it, and the invocation raises if it does not.
AppendTransition(accepted, after, place) ==
    IF accepted
    THEN ctl' = after /\ Goto(place)
    ELSE ctl' = ctl /\ pc' = "down" /\ kind' = "none" /\ run' = NoRun
         /\ result' = "rejected"

-----------------------------------------------------------------------------
(* The world: the worker, the operator's repository, the clock.            *)

WorkerStarts(c) ==
    /\ c \in alive /\ cells[c] = "empty"
    /\ cells' = [cells EXCEPT ![c] = "partial"]
    /\ firstStart' = IF c[1] = <<0, 0>> /\ clock < firstStart THEN clock ELSE firstStart
    /\ UNCHANGED <<ctl, disk, world, rec, alive, launches, pc, kind, run, result>>

\* The pair's other cell has run before this one.
Second(c) == \E arm \in Arms \ {c[2]} : cells[<<c[1], arm>>] # "empty"

WorkerFinishes(c) ==
    /\ c \in alive /\ cells[c] = "partial"
    /\ \E raw \in {"done", "bad"} \cup (IF Second(c) THEN {"late"} ELSE {}) :
           cells' = [cells EXCEPT ![c] = raw]
    /\ alive' = alive \ {c}
    /\ UNCHANGED <<ctl, disk, world, firstStart, rec, launches, pc, kind, run, result>>

\* The journal a worker leaves when it is killed: a line may be torn.
Killed(raw) ==
    IF raw \in {"empty", "partial"} /\ TornCells THEN {raw, "torn"} ELSE {raw}

WorkerDies(c) ==
    /\ c \in alive
    /\ \E raw \in Killed(cells[c]) : cells' = [cells EXCEPT ![c] = raw]
    /\ alive' = alive \ {c}
    /\ UNCHANGED <<ctl, disk, world, firstStart, rec, launches, pc, kind, run, result>>

Publish ==
    /\ version < MaxVersion
    /\ version' = version + 1
    /\ UNCHANGED <<ctl, disk, procs, clock, faults, pc, kind, run, result>>

Tick ==
    /\ clock < MaxTime
    /\ clock' = clock + 1
    /\ UNCHANGED <<ctl, disk, procs, version, faults, pc, kind, run, result>>

ClockStepsBack ==
    /\ ClockSteps /\ clock > 0 /\ faults < MaxFaults
    /\ clock' = clock - 1 /\ faults' = faults + 1
    /\ UNCHANGED <<ctl, disk, procs, version, pc, kind, run, result>>

-----------------------------------------------------------------------------
(* An invocation: run_campaign, or acknowledge_campaign_checkpoint.        *)

Invoke(place) ==
    /\ pc = "down"
    /\ pc' = place /\ run' = NoRun /\ result' = "none"
    /\ UNCHANGED <<ctl, disk, world, procs, kind>>
\* Bound: a campaign that has not started is denied at most MaxDenials times.
InvokeRun ==
    Invoke("recover") /\ (ctl.phase = "new" => Len(admissions) < MaxDenials)
InvokeAck == Invoke("ack_recover")

\* _recover_interrupted_cells, before anything is read.
AfterRecovery == IF pc = "recover" THEN "load" ELSE "ack"

RecoverNothing ==
    /\ pc \in {"recover", "ack_recover"} /\ rec = NoCell
    /\ Goto(AfterRecovery)
    /\ UNCHANGED <<ctl, disk, world, procs>>

\* Mutant: the record is removed, and its worker left alone.
RecoverWorker_RecordOnly ==
    /\ pc \in {"recover", "ack_recover"} /\ rec # NoCell
    /\ rec' = NoCell /\ pc' = AfterRecovery /\ UNCHANGED kind
    /\ UNCHANGED <<ctl, disk, world, cells, firstStart, alive, launches, run, result>>

\* Docker is asked about the container's one name for every frozen cell, worker
\* record or not: it may fail, or the container be another's.  A cell's journal may
\* be an unsafe file.
RecoveryFailures == CellFailures \ {"measurement"}

\* A worker that left no journal is a failed measurement.  What comes after the
\* workers may fail, too.
RecoverWorker ==
    /\ pc \in {"recover", "ack_recover"} /\ rec # NoCell
    /\ \E raw \in Killed(cells[rec]) :
           /\ cells' = [cells EXCEPT ![rec] = raw]
           /\ kind' \in RecoveryFailures
                       \cup {IF raw = "empty" THEN "measurement" ELSE "none"}
    /\ alive' = alive \ {rec} /\ rec' = NoCell
    /\ pc' = AfterRecovery
    /\ UNCHANGED <<ctl, disk, world, firstStart, launches, run, result>>

RecoveryFails ==
    /\ pc \in {"recover", "ack_recover"}
    /\ kind' \in RecoveryFailures
    /\ pc' = AfterRecovery
    /\ UNCHANGED <<ctl, disk, world, procs, run, result>>

\* The journals are read, strictly; a terminal campaign is only summarised.
LoadFailure ==
    IF kind # "none" THEN kind ELSE IF TopologyError THEN "audit" ELSE "none"

LoadRefused ==
    /\ pc = "load"
    /\ Unsafe \/ (ctl.phase = "terminal" /\ LoadFailure # "none")
    /\ Finish("raised")
    /\ UNCHANGED <<ctl, disk, world, procs>>

\* A failed recovery, of whatever kind, certifies no cleanup.
LoadFails ==
    /\ pc = "load" /\ ~Unsafe
    /\ ctl.phase # "terminal" /\ LoadFailure # "none"
    /\ pc' = "start" /\ kind' = LoadFailure
    /\ run' = [run EXCEPT !.clean = (kind = "none")]
    /\ UNCHANGED <<ctl, disk, world, procs, result>>

LoadTerminal ==
    /\ pc = "load" /\ ~Unsafe
    /\ ctl.phase = "terminal" /\ LoadFailure = "none"
    /\ Finish("summary")
    /\ UNCHANGED <<ctl, disk, world, procs>>

LoadContinues ==
    /\ pc = "load" /\ ~Unsafe
    /\ ctl.phase # "terminal" /\ LoadFailure = "none"
    /\ Goto("reconcile")
    /\ UNCHANGED <<ctl, disk, world, procs>>

\* Raw cells of the active pair that ran but were never indexed.
RawPrefix == ctl.phase = "pair" /\ ctl.arms < 2 /\ cells[NextCell] # "empty"

IndexCell(place) ==
    /\ RawPrefix /\ cells[NextCell] = "done"
    /\ AppendTransition(AcceptsCell(ctl, ctl.cand, ctl.next, NextCell[2]),
                        AfterCell(ctl), place)
    /\ UNCHANGED <<disk, world, procs>>

IndexFails(place) ==
    /\ RawPrefix /\ cells[NextCell] # "done"
    /\ \E k \in CellFailures : FailAt(place, k)
    /\ UNCHANGED <<ctl, disk, world, procs>>

ReconcileCell == pc = "reconcile" /\ IndexCell("reconcile")
ReconcileFails == pc = "reconcile" /\ IndexFails("start")
ReconcileDone ==
    /\ pc = "reconcile" /\ ~RawPrefix
    /\ Goto("calibration")
    /\ UNCHANGED <<ctl, disk, world, procs>>

\* calibration.json from two finished controls, whether this invocation ran
\* them or found them.
ControlsDone == \A arm \in Arms : cells[Calibration(arm)] = "done"
CalibrationBroken ==
    \/ calib = "failed"
    \/ calib = "none" /\ \E arm \in Arms : cells[Calibration(arm)] \notin {"empty", "done"}

\* Where a calibration failure is handled: before the gate, or in the launching half.
CalibrationHandler == IF pc = "calibration" THEN "start" ELSE "fail"

CalibrationFails ==
    /\ pc \in {"calibration", "run"} /\ CalibrationBroken
    /\ \E k \in CellFailures : FailAt(CalibrationHandler, k)
    /\ UNCHANGED <<ctl, disk, world, procs>>

RecordCalibration ==
    /\ pc \in {"calibration", "run"}
    /\ calib = "none" /\ ControlsDone
    /\ \/ calib' = "passed" /\ Finish("summary")
       \/ calib' = "failed" /\ FailAt(CalibrationHandler, "measurement")
    /\ UNCHANGED <<ctl, torn, admissions, starts, ack, world, procs>>

CalibrationSettled ==
    /\ pc = "calibration"
    /\ ~CalibrationBroken /\ ~(calib = "none" /\ ControlsDone)
    /\ Goto("gate")
    /\ UNCHANGED <<ctl, disk, world, procs>>

GateBlocks ==
    /\ pc = "gate" /\ CheckpointGateRequired /\ ~GateReady
    /\ Finish("checkpoint_required")
    /\ UNCHANGED <<ctl, disk, world, procs>>

GatePasses ==
    /\ pc = "gate" /\ (CheckpointGateRequired => GateReady)
    /\ Goto("admit")
    /\ UNCHANGED <<ctl, disk, world, procs>>

-----------------------------------------------------------------------------
(* Admission: one live preflight, journalled before anything is launched.  *)

HostBlockers ==
    {"harness_code_changed", "starting_swap_above_clean_limit",
     "insufficient_preflight_memavailable"}
TimeBlocker == "insufficient_time_for_pair"
AdmissionOutcome(blockers) ==
    CASE blockers = {} -> "admitted"
      [] blockers = {TimeBlocker} -> "cutoff"
      [] OTHER -> "blocked_environment"
AdmissionFailureKind(blockers) ==
    CASE "harness_code_changed" \in blockers -> "audit"
      [] "starting_swap_above_clean_limit" \in blockers
         /\ "harness_code_changed" \notin blockers -> "swap_pressure"
      [] blockers \cap HostBlockers = {"insufficient_preflight_memavailable"} ->
             "memory_pressure"
      [] OTHER -> "cutoff"

\* Mutant: observation times are not compared.
ClockAgrees_Unchecked == TRUE

\* _validate_chain: an observation may not be older than the last one.
ClockAgrees == admissions # <<>> => admissions[Len(admissions)].at <= clock

NothingToAdmit ==
    /\ pc = "admit" /\ NextTarget = NoTarget
    /\ Goto("run")
    /\ UNCHANGED <<ctl, disk, world, procs>>

AdmissionRaises ==
    /\ pc = "admit" /\ NextTarget # NoTarget /\ ~ClockAgrees
    /\ Finish("raised")
    /\ UNCHANGED <<ctl, disk, world, procs>>

Admission(blockers) ==
    [target |-> NextTarget, outcome |-> AdmissionOutcome(blockers),
     late |-> TimeBlocker \in blockers, count |-> ctl.events, at |-> clock]

Admit ==
    /\ pc = "admit" /\ NextTarget # NoTarget /\ ClockAgrees
    /\ \E host \in SUBSET HostBlockers :
          LET blockers == host \cup (IF clock >= Cutoff THEN {TimeBlocker} ELSE {})
          IN /\ admissions' = Append(admissions, Admission(blockers))
             /\ \/ /\ blockers = {}
                   /\ pc' = "run" /\ run' = [run EXCEPT !.target = NextTarget]
                   /\ UNCHANGED <<kind, result>>
                \/ /\ blockers # {} /\ ctl.events > 0
                   /\ Fail(AdmissionFailureKind(blockers))
                \/ /\ blockers # {} /\ ctl.events = 0
                   /\ Finish("denied")
    /\ UNCHANGED <<ctl, torn, starts, calib, ack, world, procs>>

-----------------------------------------------------------------------------
(* The launching half: at most one pair.                                   *)

StartCampaign ==
    /\ pc = "run" /\ ctl.phase = "new"
    /\ AppendTransition(AcceptsStart(ctl), AfterStart(ctl), "run")
    /\ UNCHANGED <<disk, world, procs>>

\* The cell that may be launched now: a control, or the next arm of the pair.
LaunchTarget ==
    CASE calib = "none" /\ ctl.phase = "idle" ->
             IF cells[Calibration("champion")] = "empty"
             THEN Calibration("champion") ELSE Calibration("candidate")
      [] calib = "passed" /\ ctl.phase = "pair" /\ ctl.arms < 2 -> NextCell
      [] OTHER -> NoCell

LaunchCell ==
    LET c == LaunchTarget IN
    /\ pc = "run" /\ c # NoCell /\ cells[c] = "empty" /\ ~CalibrationBroken
    /\ rec' = c /\ alive' = alive \cup {c}
    /\ launches' = [launches EXCEPT ![c] = @ + 1]
    /\ run' = [run EXCEPT !.launched = @ \cup {c}]
    /\ pc' = "wait"
    /\ UNCHANGED <<ctl, disk, world, cells, firstStart, kind, result>>

\* The harness changed, or the gap since the pair's first cell is too long.
LaunchRefused ==
    LET c == LaunchTarget IN
    /\ pc = "run" /\ c # NoCell /\ cells[c] = "empty" /\ ~CalibrationBroken
    /\ \/ Fail("audit")
       \/ Second(c) /\ Fail("measurement")
    /\ UNCHANGED <<ctl, disk, world, procs>>

CellReturns ==
    /\ pc = "wait" /\ rec \notin alive /\ cells[rec] \in {"done", "late"}
    /\ rec' = NoCell
    /\ Goto("run")
    /\ UNCHANGED <<ctl, disk, world, cells, firstStart, alive, launches>>

\* Mutant: there is no deadline.
CellFails_NoDeadline ==
    /\ pc = "wait" /\ rec \notin alive
    /\ rec' = NoCell
    /\ \E k \in CellFailures : Fail(k)
    /\ UNCHANGED <<ctl, disk, world, cells, firstStart, alive, launches>>

\* A deadline, a nonzero exit or an unscoreable journal: the worker is cleaned
\* up, or its absence cannot be certified.
CellFails ==
    /\ pc = "wait"
    /\ \/ /\ \E raw \in Killed(cells[rec]) : cells' = [cells EXCEPT ![rec] = raw]
          /\ alive' = alive \ {rec} /\ rec' = NoCell
          /\ \E k \in CellFailures : Fail(k)
       \/ /\ \E k \in {"cleanup_breach", "ownership_ambiguity"} : Fail(k)
          /\ UNCHANGED <<cells, alive, rec>>
    /\ UNCHANGED <<ctl, disk, world, firstStart, launches>>

StartCandidate ==
    /\ pc = "run" /\ calib = "passed" /\ ctl.phase = "idle"
    /\ ~Promoted /\ Undecided # {}
    /\ AppendTransition(AcceptsCandidate(ctl, NextProposal),
                        AfterCandidate(ctl, NextProposal), "run")
    /\ UNCHANGED <<disk, world, procs>>

StartPair ==
    /\ pc = "run" /\ calib = "passed" /\ ctl.phase = "candidate"
    /\ IF \E arm \in Arms : cells[PairCell(ctl, arm)] # "empty"
       THEN Fail("audit") /\ UNCHANGED <<ctl, starts>>
       ELSE /\ AppendTransition(AcceptsPair(ctl, ctl.cand, ctl.next),
                                AfterPair(ctl), "run")
            /\ starts' = Append(starts,
                   [target |-> Target(StageName(ctl), ctl.cand, ctl.next),
                    at |-> ctl.events, time |-> clock])
    /\ UNCHANGED <<torn, admissions, calib, ack, world, procs>>

CompleteCell == pc = "run" /\ IndexCell("run")
CompleteCellFails == pc = "run" /\ IndexFails("fail")

ScorePair ==
    /\ pc = "run" /\ ctl.phase = "pair" /\ ctl.arms = 2
    /\ \E out \in Outcomes :
           AppendTransition(AcceptsScore(ctl, ctl.cand, Scored(ctl, out)),
                            AfterScore(ctl, ctl.cand, Scored(ctl, out)), "run")
    /\ UNCHANGED <<disk, world, procs>>

LatestObservation == Observations(ctl)[Len(Observations(ctl))]

ScoreIneligible ==
    /\ pc = "run" /\ ctl.phase = "scored" /\ ~LatestObservation.eligible
    /\ Fail("measurement")
    /\ UNCHANGED <<ctl, disk, world, procs>>

Decision ==
    LET obs == Observations(ctl)
        c == ctl.cand IN
    CASE Len(obs) = 1 /\ c \in ReasoningAxis /\ SimplificationScreenPasses(c, obs[1]) ->
             "confirm_simplification"
      [] Len(obs) = 1 /\ ~(c \in ReasoningAxis /\ SimplificationScreenPasses(c, obs[1])) ->
             IF ScreenPasses(obs[1]) THEN "confirm" ELSE "reject"
      [] Len(obs) = 2 /\ ctl.mode = "simplification" ->
             IF SimplificationPromotionPasses(c, obs[1], obs[2])
             THEN "promote_simplification" ELSE "reject"
      [] OTHER -> IF PromotionPasses(obs[1], obs[2]) THEN "promote" ELSE "reject"

\* Mutant: the decision is appended without asking the replay.
Decide_Unchecked ==
    /\ pc = "run" /\ ctl.phase = "scored"
    /\ ctl' = AfterDecision(ctl, ctl.cand, Decision)
    /\ Goto("settle")
    /\ UNCHANGED <<disk, world, procs>>

Decide ==
    /\ pc = "run" /\ ctl.phase = "scored" /\ LatestObservation.eligible
    /\ AppendTransition(AcceptsDecision(ctl, ctl.cand, Decision),
                        AfterDecision(ctl, ctl.cand, Decision), "settle")
    /\ UNCHANGED <<disk, world, procs>>

\* A promotion, or a rejection that leaves nothing to try, ends the campaign.
Over == Promoted \/ AllRejected

Complete ==
    /\ \/ pc = "settle" /\ Over
       \/ pc = "run" /\ calib = "passed" /\ ctl.phase = "idle"
          /\ (Promoted \/ Undecided = {})
    /\ AppendTransition(AcceptsCompletion(ctl), AfterCompletion(ctl), "return")
    /\ UNCHANGED <<disk, world, procs>>

Return ==
    /\ pc = "return" \/ (pc = "settle" /\ ~Over)
    /\ Finish("summary")
    /\ UNCHANGED <<ctl, disk, world, procs>>

\* Mutant: a failure terminates whatever it finds.
FailStarts_Dropped ==
    /\ pc = "start"
    /\ Goto("fail")
    /\ UNCHANGED <<ctl, disk, world, procs>>

\* _append_campaign_started: only a started campaign can be terminated.
FailStarts ==
    /\ pc = "start"
    /\ IF ctl.phase = "new"
       THEN AppendTransition(AcceptsStart(ctl), AfterStart(ctl), "fail")
       ELSE Goto("fail") /\ UNCHANGED ctl
    /\ UNCHANGED <<disk, world, procs>>

\* Every handled failure terminates the campaign.
CleanupVerified == run.clean /\ kind \notin {"cleanup_breach", "ownership_ambiguity"}
FailTerminates ==
    /\ pc = "fail"
    /\ AppendTransition(AcceptsTermination(ctl, kind, CleanupVerified, FALSE),
                        AfterTermination(ctl, kind), "return")
    /\ UNCHANGED <<disk, world, procs>>

-----------------------------------------------------------------------------
(* Acknowledging the checkpoint: the proofs are read twice, then written.  *)

AckRefused ==
    /\ pc = "ack"
    /\ kind # "none" \/ torn = "controller" \/ ~AtBoundary \/ LatestCompletion = 0
    /\ Finish("unsettled")
    /\ UNCHANGED <<ctl, disk, world, procs>>

\* The evidence proof is the reader that a caller may inject; the default one is
\* refused by the campaign lock held here, which Publication models.
AckVerify ==
    /\ pc = "ack" /\ kind = "none" /\ torn # "controller"
    /\ AtBoundary /\ LatestCompletion > 0
    /\ pc' = "ack_write" /\ run' = [run EXCEPT !.seen = version]
    /\ UNCHANGED <<ctl, disk, world, procs, kind, result>>

AckWrite ==
    /\ pc = "ack_write"
    /\ IF version = run.seen
       THEN ack' = [seq |-> LatestCompletion, version |-> version] /\ Finish("acknowledged")
       ELSE UNCHANGED ack /\ Finish("race")
    /\ UNCHANGED <<ctl, torn, admissions, starts, calib, world, procs>>

-----------------------------------------------------------------------------
\* The next step appends a controller event.
Appending ==
    \/ pc = "fail" \/ (pc = "start" /\ ctl.phase = "new")
    \/ pc = "settle" /\ Over
    \/ pc \in {"reconcile", "run"} /\ RawPrefix
    \/ pc = "run" /\ \/ ctl.phase \in {"new", "candidate", "scored"}
                     \/ ctl.phase = "idle" /\ calib = "passed"
                     \/ ctl.phase = "pair" /\ ctl.arms = 2

\* The controller dies, and the lock with it; the record it was appending to
\* either journal may be torn.
Crash ==
    /\ pc # "down" /\ faults < MaxFaults
    /\ faults' = faults + 1
    /\ \/ UNCHANGED torn
       \/ Tearing /\ pc = "admit" /\ NextTarget # NoTarget /\ torn' = "admissions"
       \/ Tearing /\ Appending /\ torn' = "controller"
    /\ pc' = "down" /\ kind' = "none" /\ run' = NoRun /\ result' = "crashed"
    /\ UNCHANGED <<ctl, admissions, starts, calib, ack, version, clock, procs>>

-----------------------------------------------------------------------------
Step ==
    \/ RecoverNothing \/ RecoverWorker \/ RecoveryFails
    \/ LoadRefused \/ LoadFails \/ LoadTerminal \/ LoadContinues
    \/ ReconcileCell \/ ReconcileFails \/ ReconcileDone
    \/ CalibrationFails \/ RecordCalibration \/ CalibrationSettled
    \/ GateBlocks \/ GatePasses
    \/ NothingToAdmit \/ AdmissionRaises \/ Admit
    \/ StartCampaign \/ LaunchCell \/ LaunchRefused \/ CellReturns \/ CellFails
    \/ StartCandidate \/ StartPair \/ CompleteCell \/ CompleteCellFails
    \/ ScorePair \/ ScoreIneligible \/ Decide \/ Complete \/ Return
    \/ FailStarts \/ FailTerminates
    \/ AckRefused \/ AckVerify \/ AckWrite

Next ==
    \/ InvokeRun \/ InvokeAck \/ Step
    \/ \E c \in CellIds : WorkerStarts(c) \/ WorkerFinishes(c) \/ WorkerDies(c)
    \/ Publish \/ Tick \/ ClockStepsBack \/ Crash

\* A running invocation goes on, the operator keeps running and acknowledging the
\* campaign, and docker does not fail every one of the acknowledgements.  Nothing
\* is assumed of workers or of the clock.
Fairness ==
    /\ WF_vars(Step)
    /\ SF_vars(InvokeRun) /\ SF_vars(InvokeAck)
    /\ SF_vars(pc = "ack_recover" /\ RecoverNothing)

Spec == Init /\ [][Next]_vars
FairSpec == Spec /\ Fairness

-----------------------------------------------------------------------------
\* Every variable holds what its file, process or program counter can hold.
TypeOK ==
    /\ ctl \in ReplayState
    /\ torn \in {"none", "controller", "admissions"}
    /\ calib \in {"none", "passed", "failed"}
    /\ \A i \in 1 .. Len(admissions) :
           admissions[i].outcome \in {"admitted", "cutoff", "blocked_environment"}
    /\ cells \in [CellIds -> Raw] /\ firstStart \in 0 .. MaxTime
    /\ rec \in CellIds \cup {NoCell} /\ alive \subseteq CellIds
    /\ launches \in [CellIds -> Nat]
    /\ ack \in [seq : Nat, version : 0 .. MaxVersion]
    /\ version \in 0 .. MaxVersion /\ clock \in 0 .. MaxTime /\ faults \in 0 .. MaxFaults
    /\ kind \in FailureKind \cup {"none"}

\* The program's history is one the journal's replay accepts: every change of
\* the controller state is one accepted event (append_transition).
ImplementsReplay == ReplaySpec

\* What the journal says of the measurements, however often the controller died
\* between two events: no pair index is spent twice, a promoted candidate was
\* measured in two eligible pairs run back to back in opposite arm orders, and
\* the queue is worked off in order (replay_transitions).
JournalSound ==
    PairIndexesUnique /\ PromotionConfirmed /\ QueueOrder

\* The controller never attempts an event that the replay refuses, whatever
\* crashes it comes back from: a refusal would leave the campaign neither
\* running nor terminal (run_campaign, _append_frozen_transition).
NeverRejected == result # "rejected"

\* What the controller has indexed or scored is a cell that ran to its end.
IndexedIsDone ==
    /\ \A c \in Candidates : \A i \in 1 .. Len(ctl.scores[c]), arm \in Arms :
           cells[<<<<c, i>>, arm>>] = "done"
    /\ ctl.phase = "pair" =>
           \A i \in 1 .. ctl.arms : cells[PairCell(ctl, PairOrder(ctl.next)[i])] = "done"

\* The files agree: the variables are of their types, the journal is sound, no
\* event was refused, and what is indexed has run to its end.
FilesAgree == TypeOK /\ JournalSound /\ NeverRejected /\ IndexedIsDone

\* What an invocation launches was admitted by that invocation, for that very
\* pair: "A prior record never authorizes a launch".
TargetOf(c) ==
    CASE c[1] = <<0, 0>> -> [kind |-> "calibration", cand |-> None]
      [] c[1] # <<0, 0>> /\ c[1][2] = 1 -> [kind |-> "screen", cand |-> c[1][1]]
      [] OTHER -> [kind |-> "confirmation", cand |-> c[1][1]]
AdmittedNow ==
    \A c \in run.launched :
        [kind |-> run.target.kind, cand |-> run.target.cand] = TargetOf(c)

\* A denial for lack of time is not followed by an admission, even if the wall
\* clock is set back: "cutoff cannot reopen".
CutoffNeverReopens ==
    \A i, j \in 1 .. Len(admissions) :
        i < j /\ admissions[i].late => admissions[j].outcome # "admitted"

\* Admissions mean what they say: they authorize the launches of their own
\* invocation only, and lateness is final.
AdmissionSound == AdmittedNow /\ CutoffNeverReopens

\* A pair is active only if the pair before it (or the calibration) was
\* acknowledged, although the gate is skipped in three of the phases a restart
\* can find (_checkpoint_gate_required).
AcknowledgedBeforeNext == ctl.phase = "pair" => ack.seq = ctl.next + 1

\* When a worker may be launched, over crashes and restarts: never beside one
\* that is still up (_recover_interrupted_cells), never for a cell whose journal
\* holds anything, never after a promotion, also when the controller died before
\* it wrote the completion.
LaunchDiscipline ==
    [][launches' # launches =>
           /\ alive = {}
           /\ \A c \in CellIds : cells[c] # "empty" => launches'[c] = launches[c]
           /\ \A c \in Candidates : ctl.decided[c] \notin Promotions]_vars

\* A campaign that is terminal, or whose controller or admission journal ends in
\* a torn record, launches, admits and records nothing more, however often it is
\* run (strict_events, _decode_records, run_campaign's terminal return).
ClosedStaysClosed ==
    [][ctl.phase = "terminal" \/ torn # "none" =>
           UNCHANGED <<ctl, launches, admissions, calib>>]_vars

\* A campaign that has started reaches its terminal event if the operator keeps
\* running and acknowledging it: no crash between two records, failed recovery,
\* denial or pause leaves it stuck.  A clock that is set back, a torn record or a
\* torn cell journal may: the code then raises and writes nothing.
Settles == ctl.phase # "new" ~> ctl.phase = "terminal"
=============================================================================
