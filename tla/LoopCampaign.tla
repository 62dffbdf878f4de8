---------------------------- MODULE LoopCampaign ----------------------------
(***************************************************************************)
(* The deadline-bounded RLM and HALO campaign of bench/loop_campaign.py:    *)
(* execute_campaign (run or resume) and cleanup_campaign over one frozen    *)
(* plan.  Both hold the repository-wide lock, so one process at a time      *)
(* changes anything; it may be killed at any step.  An action is one        *)
(* durable effect (a journal record, a docker command) together with the    *)
(* tests the code makes before it.                                          *)
(*                                                                         *)
(* The journal is kept as what the code reads back from it.  Time is in     *)
(* units of 30 seconds, of which every margin in the code is a multiple.    *)
(***************************************************************************)
EXTENDS Integers, FiniteSetsExt

CONSTANTS
    NRlm, NHalo,       \* cases of the two phases, in plan order
    Held,              \* RLM cases the plan holds back (depth 2)
    Isolated,          \* cases whose worker is a container, not a process
    NProfiles,         \* frozen HALO profiles, one or two
    RlmStop, MeasurementStop, HardStop,   \* the plan's window
    Instants,          \* the times at which the code may look at the clock
    MaxCrashes, MaxFaults, MaxInvocations \* bounds

ASSUME LoopAssumption ==
    /\ NRlm \in Nat /\ NHalo \in Nat
    /\ Held \subseteq 1..NRlm /\ Isolated \subseteq 1..NRlm
    /\ NProfiles \in {1, 2}
    /\ Instants \subseteq Nat /\ 0 \in Instants
    /\ {RlmStop, MeasurementStop, HardStop} \subseteq Nat
    /\ {MaxCrashes, MaxFaults, MaxInvocations} \subseteq Nat

Cases == 1..(NRlm + NHalo)
Phases == {"rlm", "halo"}
PhaseCases(ph) == IF ph = "rlm" THEN 1..NRlm ELSE (NRlm + 1)..(NRlm + NHalo)

\* Profile 0 serves the RLM phase, 1 is HALO's primary, 2 its fallback.
Profiles == 0..NProfiles

VARIABLES
    \* what the journal says
    attempts,       \* case_started events of each case
    term,           \* the terminal event of each case
    by,             \* the profile that completed it
    primaryFailed,  \* a HALO case failed or timed out on the primary
    fallback,       \* the last halo_fallback_selected, 0 for none
    indexed,        \* halo_index_complete
    cleanup,        \* last cleanup event since the last start
    finished,       \* campaign_finished was recorded by this invocation
    \* docker and the host
    server,         \* the vLLM container: "none", "other" or a profile's
    network,        \* the worker network: "none", "own", "foreign"
    box,            \* cases that have a worker container
    hosts,          \* cases that have a worker process on the host
    \* the running process
    pc, cmd, run, stop, time,
    \* bounds
    crashes, faults, calls

journal == <<attempts, term, by, primaryFailed, fallback, indexed>>
marks == <<cleanup, finished>>
docker == <<server, network, box, hosts>>
bounds == <<crashes, faults, calls>>
vars == <<attempts, term, by, primaryFailed, fallback, indexed, cleanup,
          finished, server, network, box, hosts, pc, cmd, run, stop, time,
          crashes, faults, calls>>

Srv(p) == <<"profile", p>>
None == <<"none", 0>>
Other == <<"other", 0>>
Servers == {None, Other} \cup {Srv(p) : p \in Profiles}

Terminal == {"complete", "exhausted", "held", "deadline", "stop"}

NoRun == [phase |-> "rlm", profile |-> 0, case |-> 0, tries |-> 0,
          pending |-> 0, result |-> "none", handle |-> FALSE,
          network |-> FALSE, first |-> TRUE, used |-> FALSE,
          reason |-> "none", error |-> FALSE, unclean |-> FALSE]

Pcs == {"down", "preWorkers", "preServers", "preNetwork", "stage", "rlm",
        "ensure", "start", "starting", "connect", "loop", "launch", "working",
        "record", "failed", "restart", "reselect", "again", "stopServer",
        "removeNetwork", "ended", "skip", "halo", "index", "halo2", "selected",
        "workers", "servers", "network", "verdict", "report"}

TypeOK ==
    /\ attempts \in [Cases -> Nat]
    /\ term \in [Cases -> Terminal \cup {"none"}]
    /\ by \in [Cases -> Profiles]
    /\ primaryFailed \in BOOLEAN /\ indexed \in BOOLEAN
    /\ fallback \in Profiles
    /\ cleanup \in {"none", "verified", "failed"} /\ finished \in BOOLEAN
    /\ server \in Servers /\ network \in {"none", "own", "foreign"}
    /\ box \subseteq Cases /\ hosts \subseteq Cases
    /\ pc \in Pcs /\ cmd \in {"none", "run", "cleanup"}
    /\ stop \in BOOLEAN /\ time \in Instants
    /\ run \in [phase : Phases, profile : Profiles, case : Cases \cup {0},
                tries : 0..1, pending : Nat,
                result : {"none", "ok", "stopped", "timeout", "error"},
                handle : BOOLEAN, network : BOOLEAN, first : BOOLEAN,
                used : BOOLEAN, reason : {"none", "stop", "deadline"},
                error : BOOLEAN, unclean : BOOLEAN]

Init ==
    /\ attempts = [c \in Cases |-> 0]
    /\ term = [c \in Cases |-> "none"]
    /\ by = [c \in Cases |-> 0]
    /\ primaryFailed = FALSE /\ fallback = 0 /\ indexed = FALSE
    /\ cleanup = "none" /\ finished = FALSE
    /\ server = None /\ network = "none" /\ box = {} /\ hosts = {}
    /\ pc = "down" /\ cmd = "none" /\ run = NoRun /\ stop = FALSE /\ time = 0
    /\ crashes = 0 /\ faults = 0 /\ calls = 0

\* A docker command or a startup fails.
Fault == faults < MaxFaults /\ faults' = faults + 1
NoFault == UNCHANGED faults

\* _seconds_until(cutoff) < 30 * margin
Before(cutoff, margin) == cutoff - time < margin
Cutoff(ph) == IF ph = "rlm" THEN RlmStop ELSE MeasurementStop

Pending(ph) == {c \in PhaseCases(ph) : term[c] = "none"}

Reason == IF stop THEN "stop" ELSE "deadline"

(***************************************************************************)
(* The environment.                                                         *)
(***************************************************************************)

Tick ==
    /\ \E t \in Instants : t > time /\ time' = t
    /\ UNCHANGED <<journal, marks, docker, pc, cmd, run, stop, bounds>>

\* SIGINT or SIGTERM while the handlers are installed.
_request_stop ==
    /\ pc # "down" /\ cmd = "run" /\ ~stop
    /\ stop' = TRUE
    /\ UNCHANGED <<journal, marks, docker, pc, cmd, run, time, bounds>>

\* The process is killed.  Containers and worker processes live on.
Crash ==
    /\ pc # "down" /\ crashes < MaxCrashes
    /\ crashes' = crashes + 1
    /\ pc' = "down" /\ cmd' = "none" /\ run' = NoRun /\ stop' = FALSE
    /\ UNCHANGED <<journal, marks, docker, time, faults, calls>>

\* A worker nobody waits for ends by itself.
StrayEnds ==
    /\ \E c \in (box \cup hosts) \ (IF pc = "working" THEN {run.case} ELSE {}) :
         box' = box \ {c} /\ hosts' = hosts \ {c}
    /\ UNCHANGED <<journal, marks, server, network, pc, cmd, run, stop, time,
                   bounds>>

\* Somebody else's container takes the name.
OtherServer ==
    /\ server = None /\ Fault
    /\ server' = Other
    /\ UNCHANGED <<journal, marks, network, box, hosts, pc, cmd, run, stop,
                   time, crashes, calls>>

ForeignNetwork ==
    /\ network = "none" /\ Fault
    /\ network' = "foreign"
    /\ UNCHANGED <<journal, marks, server, box, hosts, pc, cmd, run, stop,
                   time, crashes, calls>>

OtherLeaves ==
    /\ server = Other
    /\ server' = None
    /\ UNCHANGED <<journal, marks, network, box, hosts, pc, cmd, run, stop,
                   time, bounds>>

(***************************************************************************)
(* Calls.  A second process finds the lock taken and changes nothing.       *)
(***************************************************************************)

execute_campaign ==
    /\ pc = "down" /\ calls < MaxInvocations /\ HardStop > time
    /\ calls' = calls + 1
    /\ pc' = "preWorkers" /\ cmd' = "run" /\ run' = NoRun /\ stop' = FALSE
    /\ cleanup' = "none" /\ finished' = FALSE
    /\ UNCHANGED <<journal, docker, time, crashes, faults>>

cleanup_campaign ==
    /\ pc = "down" /\ calls < MaxInvocations
    /\ calls' = calls + 1
    /\ pc' = "workers" /\ cmd' = "cleanup" /\ run' = NoRun /\ stop' = FALSE
    /\ UNCHANGED <<journal, marks, docker, time, crashes, faults>>

(***************************************************************************)
(* Recovery: workers, then servers, then the network; before the phases,    *)
(* after them, and as the cleanup command.                                  *)
(***************************************************************************)

\* docker ps by the plan's labels, and docker rm -f of what it lists.
_recover_plan_workers(ok) ==
    /\ \/ ok /\ NoFault /\ box' = {}
       \/ ~ok /\ Fault /\ box' \in SUBSET box
    /\ UNCHANGED <<server, network, hosts>>

\* Only a container of one of the plan's profiles is stopped.
_recover_plan_servers(ok) ==
    /\ \/ ok /\ server # Other /\ NoFault /\ server' = None
       \/ ~ok /\ server = Other /\ NoFault /\ UNCHANGED server
       \/ ~ok /\ server \notin {None, Other} /\ Fault /\ UNCHANGED server
    /\ UNCHANGED <<network, box, hosts>>

\* Only the plan's network is removed, and docker refuses while it is used.
_remove_worker_network(ok) ==
    /\ \/ ok /\ network = "none" /\ NoFault /\ UNCHANGED network
       \/ ok /\ network = "own" /\ box = {} /\ NoFault /\ network' = "none"
       \/ ~ok /\ network = "own" /\ box # {} /\ NoFault /\ UNCHANGED network
       \/ ~ok /\ network = "foreign" /\ NoFault /\ UNCHANGED network
       \/ ~ok /\ network # "foreign" /\ Fault /\ UNCHANGED network
    /\ UNCHANGED <<server, box, hosts>>

Recover(what, ok) ==
    \/ what = "workers" /\ _recover_plan_workers(ok)
    \/ what = "servers" /\ _recover_plan_servers(ok)
    \/ what = "network" /\ _remove_worker_network(ok)

\* What the phases leave is recovered whether or not they failed.
Failed == pc' = "workers" /\ run' = [run EXCEPT !.error = TRUE]

PreRecover(from, what, to) ==
    /\ pc = from
    /\ \/ Recover(what, TRUE) /\ pc' = to /\ UNCHANGED run
       \/ Recover(what, FALSE) /\ Failed
    /\ UNCHANGED <<journal, marks, cmd, stop, time, crashes, calls>>

Stage ==
    /\ pc = "stage"
    /\ \/ NoFault /\ pc' = "rlm" /\ UNCHANGED run
       \/ Fault /\ Failed
    /\ UNCHANGED <<journal, marks, docker, cmd, stop, time, crashes, calls>>

\* The end of a campaign gives up at the first failure; the cleanup command
\* tries all three.
Unclean_Forgotten(to) == pc' = to /\ UNCHANGED run

Unclean(to) ==
    /\ run' = [run EXCEPT !.unclean = TRUE]
    /\ pc' = IF cmd = "run" THEN "verdict" ELSE to

FinalRecover(what, to) ==
    /\ pc = what
    /\ \/ Recover(what, TRUE) /\ pc' = to /\ UNCHANGED run
       \/ Recover(what, FALSE) /\ Unclean(to)
    /\ UNCHANGED <<journal, marks, cmd, stop, time, crashes, calls>>

\* campaign_cleanup_verified or campaign_cleanup_failed
Verdict ==
    /\ pc = "verdict"
    /\ cleanup' = IF run.unclean THEN "failed" ELSE "verified"
    /\ pc' = "report"
    /\ UNCHANGED <<journal, finished, docker, cmd, run, stop, time, bounds>>

\* campaign_finished, unless an error is raised.
Report ==
    /\ pc = "report"
    /\ finished' = (cmd = "run" /\ ~run.error /\ ~run.unclean)
    /\ pc' = "down" /\ cmd' = "none"
    /\ UNCHANGED <<journal, cleanup, docker, run, stop, time, bounds>>

(***************************************************************************)
(* Entering and leaving a phase.                                            *)
(***************************************************************************)

Local == UNCHANGED <<journal, marks, docker, cmd, stop, time, bounds>>

SkipRest(reason) == pc' = "skip" /\ run' = [run EXCEPT !.reason = reason]

JournalHeld ==
    /\ pc = "rlm"
    /\ \E c \in Held \cap Pending("rlm") : term' = [term EXCEPT ![c] = "held"]
    /\ UNCHANGED <<attempts, by, primaryFailed, fallback, indexed, marks, docker,
                   pc, cmd, run, stop, time, bounds>>

EnterRlm ==
    /\ pc = "rlm" /\ Held \cap Pending("rlm") = {}
    /\ \/ (stop \/ Before(RlmStop, 4)) /\ SkipRest(Reason)
       \/ ~(stop \/ Before(RlmStop, 4)) /\ UNCHANGED run
            /\ pc' = IF Pending("rlm") = {} THEN "ended" ELSE "ensure"
    /\ Local

EnterHalo ==
    /\ pc = "halo"
    /\ \/ (stop \/ Before(MeasurementStop, 14)) /\ SkipRest(Reason)
       \/ ~(stop \/ Before(MeasurementStop, 14)) /\ UNCHANGED run
            /\ pc' = IF Pending("halo") = {} THEN "ended" ELSE "index"
    /\ Local

\* _journal_deadline_skips, one record at a time.
SkipCase ==
    /\ pc = "skip" /\ Pending(run.phase) # {}
    /\ term' = [term EXCEPT ![Min(Pending(run.phase))] = run.reason]
    /\ UNCHANGED <<attempts, by, primaryFailed, fallback, indexed, marks, docker,
                   pc, cmd, run, stop, time, bounds>>

Skipped ==
    /\ pc = "skip" /\ Pending(run.phase) = {}
    /\ pc' = "ended" /\ UNCHANGED run /\ Local

\* HALO follows RLM unless a stop was requested.
PhaseEnded ==
    /\ pc = "ended"
    /\ IF run.phase = "rlm" /\ ~stop
       THEN pc' = "halo" /\ run' = [NoRun EXCEPT !.phase = "halo"]
       ELSE pc' = "workers" /\ UNCHANGED run
    /\ Local

EnsureNetwork ==
    /\ pc = "ensure"
    /\ \/ /\ network # "foreign" /\ NoFault
          /\ network' = "own"
          /\ pc' = "start" /\ run' = [run EXCEPT !.network = TRUE]
       \/ /\ network = "foreign" /\ NoFault
          /\ pc' = "stopServer" /\ run' = [run EXCEPT !.error = TRUE]
          /\ UNCHANGED network
       \/ /\ network = "none" /\ Fault
          /\ network' \in {"none", "own"}
          /\ pc' = "stopServer" /\ run' = [run EXCEPT !.error = TRUE]
    /\ UNCHANGED <<journal, marks, server, box, hosts, cmd, stop, time, crashes,
                   calls>>

\* The finally block of a phase: the server the phase holds, then the network.
Raise == pc' = "stopServer" /\ run' = [run EXCEPT !.error = TRUE]

\* _safe_stop_server: saving the log and stopping may each fail.
StopServer(ok) ==
    /\ \/ ok /\ NoFault
          /\ server' = IF run.handle /\ server # Other THEN None ELSE server
       \/ ~ok /\ run.handle /\ Fault /\ server' \in {server, None}
    /\ UNCHANGED <<network, box, hosts>>

\* Without an error, what is still pending is skipped.
PhaseOver(error) ==
    IF error THEN pc' = "workers" /\ run' = [run EXCEPT !.error = TRUE]
             ELSE SkipRest(Reason)

CleanServer ==
    /\ pc = "stopServer"
    /\ \E ok \in BOOLEAN :
         /\ StopServer(ok)
         /\ IF run.network
            THEN /\ pc' = "removeNetwork"
                 /\ run' = [run EXCEPT !.error = @ \/ ~ok, !.handle = FALSE]
            ELSE PhaseOver(run.error \/ ~ok)
    /\ UNCHANGED <<journal, marks, cmd, stop, time, crashes, calls>>

CleanNetwork ==
    /\ pc = "removeNetwork"
    /\ \E ok \in BOOLEAN :
         _remove_worker_network(ok) /\ PhaseOver(run.error \/ ~ok)
    /\ UNCHANGED <<journal, marks, cmd, stop, time, crashes, calls>>

(***************************************************************************)
(* _start_campaign_server, and the choice of the HALO profile.              *)
(***************************************************************************)

\* _halo_profile_candidates: the profile that completed a case last, else the
\* fallback that was selected, else the fallback if the primary has failed.
Completed == {c \in PhaseCases("halo") : term[c] = "complete"}
Candidates ==
    IF Completed # {} THEN {by[Max(Completed)]}
    ELSE IF fallback # 0 THEN {fallback}
    ELSE IF primaryFailed /\ NProfiles > 1 THEN {2}
    ELSE 1..NProfiles

StartFailed_Retries == pc' = "start" /\ UNCHANGED run

\* At its first start HALO goes on to the next candidate; everything else that
\* cannot start is an error of the phase.
StartFailed ==
    IF run.phase = "halo" /\ run.first /\ run.profile + 1 \in Candidates
    THEN pc' = "start" /\ run' = [run EXCEPT !.profile = @ + 1]
    ELSE Raise

\* recover_owned_vllm finds a container (never one this profile left: see
\* StartsFresh), the time is too short, or the preflight or docker run fails.
StartRefused ==
    /\ pc = "start"
    /\ \/ NoFault /\ (server # None \/ Before(Cutoff(run.phase), 4))
       \/ server = None /\ Fault
    /\ StartFailed
    /\ UNCHANGED <<journal, marks, docker, cmd, stop, time, crashes, calls>>

StartServer ==
    /\ pc = "start" /\ server = None /\ ~Before(Cutoff(run.phase), 4)
    /\ server' = Srv(run.profile) /\ pc' = "starting"
    /\ UNCHANGED <<journal, marks, network, box, hosts, cmd, run, stop, time,
                   bounds>>

ServerReady ==
    /\ pc = "starting"
    /\ run' = [run EXCEPT !.handle = TRUE]
    /\ pc' = IF run.phase = "rlm" THEN "connect"
             ELSE IF run.first THEN "selected" ELSE "loop"
    /\ Local

\* start_server removes what it started, unless docker fails again.
StartupFails ==
    /\ pc = "starting" /\ Fault
    /\ server' \in {None, server}
    /\ StartFailed
    /\ UNCHANGED <<journal, marks, network, box, hosts, cmd, stop, time,
                   crashes, calls>>

ConnectServer ==
    /\ pc = "connect"
    /\ \/ NoFault /\ pc' = "loop" /\ UNCHANGED run
       \/ Fault /\ Raise
    /\ UNCHANGED <<journal, marks, docker, cmd, stop, time, crashes, calls>>

\* The index worker; a stop request or a failure is an error of the campaign.
PrepareIndex ==
    /\ pc = "index"
    /\ \/ /\ stop \/ Before(MeasurementStop, 11) \/ indexed
          /\ NoFault /\ pc' = "halo2" /\ UNCHANGED <<run, indexed>>
       \/ /\ ~stop /\ ~Before(MeasurementStop, 11) /\ ~indexed
          /\ NoFault /\ indexed' = TRUE /\ pc' = "halo2" /\ UNCHANGED run
       \/ ~indexed /\ ((stop /\ NoFault) \/ Fault) /\ Failed /\ UNCHANGED indexed
    /\ UNCHANGED <<attempts, term, by, primaryFailed, fallback, marks, docker,
                   cmd, stop, time, crashes, calls>>

\* Here a stop request, too, is recorded as a deadline.
ChooseProfile ==
    /\ pc = "halo2"
    /\ IF stop \/ Before(MeasurementStop, 6)
       THEN SkipRest("deadline")
       ELSE /\ pc' = "start"
            /\ run' = [run EXCEPT !.profile = Min(Candidates)]
    /\ Local

\* halo_fallback_selected is recorded once.
ProfileStarted ==
    /\ pc = "selected" /\ pc' = "loop"
    /\ fallback' = IF run.profile # 1 /\ fallback = 0 THEN run.profile
                                                      ELSE fallback
    /\ run' = [run EXCEPT !.first = FALSE, !.used = run.profile # 1]
    /\ UNCHANGED <<attempts, term, by, primaryFailed, indexed, marks, docker, cmd,
                   stop, time, bounds>>

(***************************************************************************)
(* The loop over the pending cases.                                         *)
(***************************************************************************)

First == Min(Pending(run.phase))

Spent_OneMore(n) == n > 2

\* A case has had its attempts.
Spent(n) == n >= 2

LoopEnds ==
    /\ pc = "loop"
    /\ \/ stop \/ Pending(run.phase) = {}
       \/ /\ Pending(run.phase) # {}
          /\ ~Spent(attempts[First]) /\ Before(Cutoff(run.phase), 3)
    /\ pc' = "stopServer" /\ UNCHANGED run /\ Local

CaseExhausted ==
    /\ pc = "loop" /\ ~stop /\ Pending(run.phase) # {}
    /\ Spent(attempts[First])
    /\ term' = [term EXCEPT ![First] = "exhausted"]
    /\ UNCHANGED <<attempts, by, primaryFailed, fallback, indexed, marks, docker,
                   pc, cmd, run, stop, time, bounds>>

CaseStarted ==
    /\ pc = "loop" /\ ~stop /\ Pending(run.phase) # {}
    /\ ~Spent(attempts[First]) /\ ~Before(Cutoff(run.phase), 3)
    /\ attempts' = [attempts EXCEPT ![First] = @ + 1]
    /\ run' = [run EXCEPT !.case = First, !.tries = attempts[First],
                          !.pending = Cardinality(Pending(run.phase))]
    /\ pc' = "launch"
    /\ UNCHANGED <<term, by, primaryFailed, fallback, indexed, marks, docker, cmd,
                   stop, time, bounds>>

Result(r) == pc' = "record" /\ run' = [run EXCEPT !.result = r]

\* A HALO case builds the index that the preparation left out.
IndexInCase ==
    /\ pc = "launch" /\ run.phase = "halo" /\ ~indexed
    /\ \/ ~stop /\ NoFault /\ indexed' = TRUE /\ UNCHANGED <<pc, run>>
       \/ ((stop /\ NoFault) \/ Fault) /\ UNCHANGED indexed /\ Result("error")
    /\ UNCHANGED <<attempts, term, by, primaryFailed, fallback, marks, docker,
                   cmd, stop, time, crashes, calls>>

\* run_worker up to the start of the worker.  A container of the same name that
\* could not be removed makes docker run fail.
Launch ==
    /\ pc = "launch" /\ (run.phase = "halo" => indexed)
    /\ LET c == run.case IN
       \/ stop /\ NoFault /\ Result("stopped") /\ UNCHANGED <<box, hosts>>
       \/ Fault /\ Result("error") /\ UNCHANGED <<box, hosts>>
       \/ c \in box /\ NoFault /\ Result("error") /\ UNCHANGED <<box, hosts>>
       \/ /\ ~stop /\ c \notin box /\ NoFault
          /\ pc' = "working" /\ UNCHANGED run
          /\ box' = IF c \in Isolated THEN box \cup {c} ELSE box
          /\ hosts' = IF c \in Isolated THEN hosts ELSE hosts \cup {c}
    /\ UNCHANGED <<journal, marks, server, network, cmd, stop, time, crashes,
                   calls>>

\* The worker answers within its time: the client reads the answer and the
\* container removes itself.
WorkerAnswers ==
    /\ pc = "working"
    /\ \E r \in {"ok", "error"} : Result(r)
    /\ box' = box \ {run.case} /\ hosts' = hosts \ {run.case}
    /\ UNCHANGED <<journal, marks, server, network, cmd, stop, time, bounds>>

\* The stop request, which is looked at first, or the deadline.
Expired == IF stop THEN "stopped" ELSE "timeout"

\* _terminate_worker_process: if the container cannot be removed the result is
\* an error and the container may stay.
TerminateWorker ==
    /\ pc = "working"
    /\ \/ NoFault /\ box' = box \ {run.case} /\ Result(Expired)
       \/ Fault /\ box' \in {box, box \ {run.case}} /\ Result("error")
    /\ hosts' = hosts \ {run.case}
    /\ UNCHANGED <<journal, marks, server, network, cmd, stop, time, crashes,
                   calls>>

\* _record_case_result
Record ==
    /\ pc = "record"
    /\ term' = [term EXCEPT ![run.case] =
         CASE run.result = "ok" -> "complete"
           [] run.result = "stopped" -> "stop"
           [] OTHER -> @]
    /\ by' = IF run.result = "ok" THEN [by EXCEPT ![run.case] = run.profile]
                                  ELSE by
    /\ primaryFailed' = 
         (primaryFailed \/ (run.profile = 1 /\ run.result \in {"timeout", "error"}))
    /\ pc' = IF run.result \in {"ok", "stopped"} THEN "loop" ELSE "failed"
    /\ UNCHANGED <<attempts, fallback, indexed, marks, docker, cmd, run, stop,
                   time, bounds>>

\* After the second failure the case is exhausted; the server is restarted
\* unless nothing is left to measure.
CaseFailed ==
    /\ pc = "failed"
    /\ term' = IF Spent(run.tries + 1)
               THEN [term EXCEPT ![run.case] = "exhausted"] ELSE term
    /\ pc' = IF run.tries + 1 < 2 \/ run.pending > 1 THEN "restart"
                                                     ELSE "stopServer"
    /\ UNCHANGED <<attempts, by, primaryFailed, fallback, indexed, marks, docker,
                   cmd, run, stop, time, bounds>>

RestartServer ==
    /\ pc = "restart"
    /\ \/ StopServer(TRUE) /\ run' = [run EXCEPT !.handle = FALSE]
            /\ pc' = IF run.phase = "rlm" THEN "again" ELSE "reselect"
       \/ StopServer(FALSE) /\ Raise
    /\ UNCHANGED <<journal, marks, cmd, stop, time, crashes, calls>>

FallsBack_AfterResults == ~run.used /\ run.profile = 1 /\ NProfiles > 1

\* HALO changes to the fallback only before anything was completed.
FallsBack == ~run.used /\ Completed = {} /\ run.profile = 1 /\ NProfiles > 1

Reselect ==
    /\ pc = "reselect" /\ pc' = "again"
    /\ fallback' = IF FallsBack THEN 2 ELSE fallback
    /\ run' = IF FallsBack THEN [run EXCEPT !.profile = 2, !.used = TRUE]
                           ELSE run
    /\ UNCHANGED <<attempts, term, by, primaryFailed, indexed, marks, docker, cmd,
                   stop, time, bounds>>

StartAgain ==
    /\ pc = "again"
    /\ pc' = IF Before(Cutoff(run.phase), 6) THEN "stopServer" ELSE "start"
    /\ UNCHANGED run /\ Local

(***************************************************************************)
(* The specification.                                                       *)
(***************************************************************************)

Recovery ==
    \/ PreRecover("preWorkers", "workers", "preServers")
    \/ PreRecover("preServers", "servers", "preNetwork")
    \/ PreRecover("preNetwork", "network", "stage")
    \/ FinalRecover("workers", "servers")
    \/ FinalRecover("servers", "network")
    \/ FinalRecover("network", "verdict")

Step ==
    \/ Recovery \/ Stage \/ Verdict \/ Report
    \/ JournalHeld \/ EnterRlm \/ EnterHalo \/ SkipCase \/ Skipped \/ PhaseEnded
    \/ EnsureNetwork \/ CleanServer \/ CleanNetwork
    \/ StartRefused \/ StartServer \/ ServerReady \/ StartupFails
    \/ ConnectServer \/ PrepareIndex \/ ChooseProfile \/ ProfileStarted
    \/ LoopEnds \/ CaseExhausted \/ CaseStarted \/ IndexInCase \/ Launch
    \/ WorkerAnswers \/ TerminateWorker \/ Record \/ CaseFailed
    \/ RestartServer \/ Reselect \/ StartAgain

Next ==
    \/ Step \/ execute_campaign \/ cleanup_campaign
    \/ _request_stop \/ Crash \/ Tick
    \/ StrayEnds \/ OtherServer \/ OtherLeaves \/ ForeignNetwork

\* The process runs: every wait in it has a timeout.
Spec == Init /\ [][Next]_vars /\ WF_vars(Step)

(***************************************************************************)
(* Properties.                                                              *)
(***************************************************************************)

\* A case is started at most twice over all runs, resumes and crashes; once it
\* has a terminal event it is neither started nor settled again; and a campaign
\* that finishes without a stop request has settled every case.
CasesSettleOnce ==
    /\ [](\A c \in Cases : attempts[c] <= 2)
    /\ [][\A c \in Cases : term[c] # "none" =>
            term'[c] = term[c] /\ attempts'[c] = attempts[c]]_vars
    /\ [][finished' /\ ~finished /\ ~stop => \A c \in Cases : term[c] # "none"]_vars

\* campaign_cleanup_verified is the truth: until the next start no worker
\* container, no server and no network of the plan exists.
VerifiedMeansClean ==
    cleanup = "verified" => /\ box = {} /\ network # "own"
                            /\ server \in {None, Other}

\* A server is started where none of the same profile is left.
StartsFresh == pc = "start" => server # Srv(run.profile)

\* The results of the HALO phase come from one serving profile, whatever
\* failed, was restarted, fell back or was resumed in between, and a worker
\* runs only against the container of the profile its result is credited to.
OneHaloProfile ==
    /\ TypeOK
    /\ \A c, d \in Completed : by[c] = by[d]
    /\ pc = "working" => server = Srv(run.profile)
    /\ StartsFresh

\* Every invocation ends.
InvocationEnds == []<>(pc = "down")
=============================================================================
