------------------------- MODULE LoopCampaignProofs -------------------------
(***************************************************************************)
(* Theorems about LoopCampaign for any numbers of cases, crashes, faults and  *)
(* invocations and any window: what a verified cleanup says is so, the HALO   *)
(* results come from one profile, and every case is settled once.             *)
(*                                                                         *)
(* None of the three is inductive.  The record of a clean host rests on what  *)
(* the recovery has found so far (CleanInv); the profile a result is credited *)
(* to is the one that serves because of what each step of the phase leaves    *)
(* running (ServerInv), and it is the only one because the choice is bound    *)
(* by what was completed before (ProfileInv); a case is settled once because  *)
(* the loop works on a case that is pending (CaseInv), and all of them are    *)
(* because a phase ends with nothing pending (SettledInv).                    *)
(***************************************************************************)
EXTENDS LoopCampaign, TLAPS, WellFoundedInduction, NaturalsInduction,
        FiniteSetTheorems

(***************************************************************************)
(* The inductive invariant.                                                 *)
(***************************************************************************)

\* The recovery that ends an invocation and the report on it.
Ending == {"workers", "servers", "network", "verdict", "report"}
InPhases == Pcs \ (Ending \cup {"down"})

Gone == server \in {None, Other}

\* Only a start erases the record of a clean host, only phases undo what it says,
\* and the recovery has removed what it went through without a failure.
CleanInv ==
    /\ VerifiedMeansClean
    /\ pc \in InPhases => cleanup = "none" /\ cmd = "run"
    /\ pc \in Ending \ {"report"} /\ cmd = "run" => cleanup = "none"
    /\ pc \in {"servers", "network", "verdict"} /\ ~run.unclean => box = {}
    /\ pc \in {"network", "verdict"} /\ ~run.unclean => Gone
    /\ pc = "verdict" /\ ~run.unclean => network # "own"

\* What runs where: the phase's server while there is a handle on it, nothing of
\* the plan before a start, at most a profile given up when the next is tried.
Serving == {"connect", "selected", "loop", "launch", "working", "record",
            "failed", "restart"}
Vacated == {"preNetwork", "stage", "rlm", "ensure", "ended", "skip", "halo",
            "index", "halo2", "again", "reselect"}
ServerInv ==
    /\ pc \in Serving \cup {"starting"} => server = Srv(run.profile)
    /\ pc \in Serving => run.handle
    /\ pc \in Vacated => Gone
    /\ pc = "start" => Gone \/ \E q \in Profiles : q < run.profile /\ server = Srv(q)
    /\ pc = "stopServer" /\ ~run.error => run.handle \/ Gone
    /\ pc = "removeNetwork" /\ ~run.error => Gone

\* The steps of one phase only.
RlmOnly == {"preWorkers", "preServers", "preNetwork", "stage", "rlm", "ensure",
            "connect"}
HaloOnly == {"halo", "index", "halo2", "selected", "reselect"}
PhaseInv ==
    /\ pc \in RlmOnly => run.phase = "rlm"
    /\ pc \in HaloOnly => run.phase = "halo"

\* The profile in use is the one that completed whatever is complete.
InUse == {"start", "starting", "selected", "loop", "launch", "working", "record",
          "failed", "restart", "reselect", "again"}
ProfileInv ==
    /\ \A c, d \in Completed : by[c] = by[d]
    /\ pc \in InUse /\ run.phase = "halo" =>
         \A c \in Completed : by[c] = run.profile

\* The case at hand is one of the phase, and pending; none has a third attempt.
CaseInv ==
    /\ pc \in {"launch", "working", "record", "failed"} =>
         run.case \in Pending(run.phase)
    /\ \A c \in Cases : attempts[c] <= 2

\* A phase that has ended left nothing; HALO follows a phase that has; without an
\* error or a stop request both have.
SettledInv ==
    /\ pc = "ended" => Pending(run.phase) = {}
    /\ pc \in InPhases /\ run.phase = "halo" => Pending("rlm") = {}
    /\ pc \in Ending /\ cmd = "run" /\ ~run.error /\ ~stop =>
         Pending("rlm") = {} /\ Pending("halo") = {}

IInv == /\ TypeOK /\ CleanInv /\ ServerInv /\ PhaseInv
        /\ ProfileInv /\ CaseInv /\ SettledInv

(***************************************************************************)
(* What the model is computed with.                                         *)
(***************************************************************************)

LEMMA LeastOf ==
    ASSUME NEW S \in SUBSET Nat, S # {}
    PROVE  \E x \in S : \A y \in S : x <= y
<1>1. IsWellFoundedOn(OpToRel(<, Nat), Nat)
  BY NatLessThanWellFounded
<1>2. PICK x \in S : \A y \in S : ~(<<y, x>> \in OpToRel(<, Nat))
  BY <1>1, WFMin
<1>3. \A y \in S : ~(y < x)
  BY <1>2 DEF OpToRel
<1> QED BY <1>3

\* The least and the greatest of a bounded set of numbers are in it.
LEMMA MinIn ==
    ASSUME NEW S \in SUBSET Nat, S # {}
    PROVE  Min(S) \in S
BY LeastOf DEF Min

LEMMA MaxIn ==
    ASSUME NEW N \in Nat, NEW S \in SUBSET (0 .. N), S # {}
    PROVE  Max(S) \in S
<1> DEFINE T == {N - x : x \in S}
<1>1. T \in SUBSET Nat
  <2>1. ASSUME NEW x \in S PROVE N - x \in Nat
    BY x \in 0 .. N
  <2> QED BY <2>1
<1>2. PICK z \in S : TRUE
  OBVIOUS
<1>3. N - z \in T
  OBVIOUS
<1>4. PICK t \in T : \A y \in T : t <= y
  <2> HIDE DEF T
  <2> QED BY <1>1, <1>3, LeastOf
<1>5. PICK x \in S : t = N - x
  BY <1>4
<1>6. ASSUME NEW y \in S PROVE x >= y
  <2>1. N - y \in T
    OBVIOUS
  <2>2. N - x <= N - y
    BY <2>1, <1>4, <1>5
  <2>3. x \in Nat /\ y \in Nat
    OBVIOUS
  <2> QED BY <2>2, <2>3
<1> QED BY <1>6 DEF Max

\* Profile numbers tell servers apart.
LEMMA ServerNames ==
    /\ None # Other
    /\ \A p : Srv(p) # None /\ Srv(p) # Other
    /\ \A p, q : Srv(p) = Srv(q) => p = q
BY DEF None, Other, Srv

LEMMA CaseFacts ==
    /\ \A c \in Cases : c \in PhaseCases("rlm") \/ c \in PhaseCases("halo")
    /\ \A ph : PhaseCases(ph) \subseteq Cases
    /\ \A c \in PhaseCases("rlm") : c \notin PhaseCases("halo")
    /\ Cases \subseteq Nat /\ 0 \notin Cases
BY LoopAssumption DEF Cases, PhaseCases

\* The first of the pending cases is one of them.
LEMMA PendingFacts ==
    ASSUME NEW ph
    PROVE  /\ Pending(ph) \subseteq PhaseCases(ph)
           /\ Pending(ph) \subseteq Cases
           /\ \A c \in Pending(ph) : term[c] = "none"
           /\ Pending(ph) # {} => Min(Pending(ph)) \in Pending(ph)
           /\ Cardinality(Pending(ph)) \in Nat
<1>1. Pending(ph) \subseteq PhaseCases(ph) /\ Pending(ph) \subseteq Cases
  BY CaseFacts DEF Pending
<1>2. \A c \in Pending(ph) : term[c] = "none"
  BY DEF Pending
<1>3. Pending(ph) # {} => Min(Pending(ph)) \in Pending(ph)
  BY <1>1, CaseFacts, MinIn
<1>4. IsFiniteSet(Cases)
  BY LoopAssumption, FS_Interval DEF Cases
<1>5. Cardinality(Pending(ph)) \in Nat
  BY <1>1, <1>4, FS_Subset, FS_CardinalityType
<1> QED BY <1>1, <1>2, <1>3, <1>5

\* There is a profile to try, and once a case is complete it is the one that
\* completed it.
LEMMA CandidateFacts ==
    ASSUME TypeOK
    PROVE  /\ Candidates \subseteq Profiles
           /\ Min(Candidates) \in Candidates
           /\ Completed # {} => \E c \in Completed : Candidates = {by[c]}
<1>1. Completed \subseteq Cases
  BY CaseFacts DEF Completed
<1>2. Completed # {} => Max(Completed) \in Completed
  <2>1. Completed \subseteq 0 .. (NRlm + NHalo) /\ NRlm + NHalo \in Nat
    BY <1>1, LoopAssumption DEF Cases
  <2> QED BY <2>1, MaxIn
<1>3. Completed # {} => \E c \in Completed : Candidates = {by[c]}
  BY <1>2 DEF Candidates
<1>4. Candidates \subseteq Profiles /\ Candidates # {}
  <2>1. CASE Completed # {}
    BY <2>1, <1>1, <1>3 DEF TypeOK
  <2>2. CASE Completed = {}
    BY <2>2, LoopAssumption DEF Candidates, TypeOK, Profiles
  <2> QED BY <2>1, <2>2
<1>5. Profiles \subseteq Nat
  BY DEF Profiles
<1>6. Min(Candidates) \in Candidates
  BY <1>4, <1>5, MinIn
<1> QED BY <1>3, <1>4, <1>6

(***************************************************************************)
(* Types.                                                                   *)
(***************************************************************************)

RunSet ==
    [phase : Phases, profile : Profiles, case : Cases \cup {0}, tries : 0..1,
     pending : Nat, result : {"none", "ok", "stopped", "timeout", "error"},
     handle : BOOLEAN, network : BOOLEAN, first : BOOLEAN, used : BOOLEAN,
     reason : {"none", "stop", "deadline"}, error : BOOLEAN, unclean : BOOLEAN]

\* What the steps do to the invocation's own state.
LEMMA RunTypes ==
    /\ NoRun \in RunSet /\ [NoRun EXCEPT !.phase = "halo"] \in RunSet
    /\ \A r \in RunSet :
         /\ [r EXCEPT !.error = TRUE] \in RunSet
         /\ [r EXCEPT !.unclean = TRUE] \in RunSet
         /\ [r EXCEPT !.network = TRUE] \in RunSet
         /\ \A b \in BOOLEAN : [r EXCEPT !.handle = b] \in RunSet
         /\ \A b \in BOOLEAN : [r EXCEPT !.error = @ \/ ~b, !.handle = FALSE] \in RunSet
         /\ \A w \in {"stop", "deadline"} : [r EXCEPT !.reason = w] \in RunSet
         /\ \A p \in Profiles : [r EXCEPT !.profile = p] \in RunSet
         /\ \A p \in Profiles : [r EXCEPT !.profile = p, !.used = TRUE] \in RunSet
         /\ \A b \in BOOLEAN : [r EXCEPT !.first = FALSE, !.used = b] \in RunSet
         /\ \A s \in {"ok", "stopped", "timeout", "error"} :
               [r EXCEPT !.result = s] \in RunSet
         /\ \A c \in Cases, t \in 0..1, n \in Nat :
               [r EXCEPT !.case = c, !.tries = t, !.pending = n] \in RunSet
<1>1. 0 \in Profiles /\ "rlm" \in Phases /\ "halo" \in Phases
  BY LoopAssumption DEF Profiles, Phases
<1>2. NoRun \in RunSet
  BY <1>1 DEF NoRun, RunSet
<1>3. [NoRun EXCEPT !.phase = "halo"] \in RunSet
  BY <1>1, <1>2 DEF RunSet
<1>4. ASSUME NEW r \in RunSet
      PROVE  /\ [r EXCEPT !.error = TRUE] \in RunSet
             /\ [r EXCEPT !.unclean = TRUE] \in RunSet
             /\ [r EXCEPT !.network = TRUE] \in RunSet
  BY DEF RunSet
<1>5. ASSUME NEW r \in RunSet, NEW b \in BOOLEAN
      PROVE  /\ [r EXCEPT !.handle = b] \in RunSet
             /\ [r EXCEPT !.first = FALSE, !.used = b] \in RunSet
  BY DEF RunSet
<1>6. ASSUME NEW r \in RunSet, NEW b \in BOOLEAN
      PROVE  [r EXCEPT !.error = @ \/ ~b, !.handle = FALSE] \in RunSet
  BY DEF RunSet
<1>7. ASSUME NEW r \in RunSet, NEW w \in {"stop", "deadline"}
      PROVE  [r EXCEPT !.reason = w] \in RunSet
  BY DEF RunSet
<1>8. ASSUME NEW r \in RunSet, NEW p \in Profiles
      PROVE  /\ [r EXCEPT !.profile = p] \in RunSet
             /\ [r EXCEPT !.profile = p, !.used = TRUE] \in RunSet
  BY DEF RunSet
<1>9. ASSUME NEW r \in RunSet, NEW s \in {"ok", "stopped", "timeout", "error"}
      PROVE  [r EXCEPT !.result = s] \in RunSet
  BY DEF RunSet
<1>10. ASSUME NEW r \in RunSet, NEW c \in Cases, NEW t \in 0..1, NEW n \in Nat
       PROVE  [r EXCEPT !.case = c, !.tries = t, !.pending = n] \in RunSet
  BY DEF RunSet
<1> QED BY <1>2, <1>3, <1>4, <1>5, <1>6, <1>7, <1>8, <1>9, <1>10

\* The first pending case.
LEMMA FirstCase ==
    ASSUME TypeOK, Pending(run.phase) # {}
    PROVE  First \in Pending(run.phase) /\ First \in Cases
BY PendingFacts DEF First

LEMMA RunStep ==
    ASSUME TypeOK, [Next]_vars
    PROVE  run' \in RunSet
<1>0. /\ run \in RunSet /\ stop \in BOOLEAN
      /\ (NProfiles > 1 => 2 \in Profiles) /\ Profiles \subseteq Nat
      /\ attempts \in [Cases -> Nat]
  BY LoopAssumption DEF TypeOK, RunSet, Profiles
<1>a. Candidates \subseteq Profiles /\ Min(Candidates) \in Profiles
  BY CandidateFacts
<1>b. run.profile + 1 \in Candidates => [run EXCEPT !.profile = @ + 1] \in RunSet
  BY <1>0, <1>a, RunTypes
<1>c. Pending(run.phase) # {} =>
        /\ First \in Cases /\ Cardinality(Pending(run.phase)) \in Nat
        /\ ~Spent(attempts[First]) => attempts[First] \in 0..1
  BY <1>0, FirstCase, PendingFacts DEF Spent
<1> USE <1>0
<1>1. CASE \/ Tick \/ _request_stop \/ StrayEnds \/ OtherServer
           \/ OtherLeaves \/ ForeignNetwork \/ Verdict \/ Report
           \/ JournalHeld \/ SkipCase \/ Skipped \/ StartServer
           \/ LoopEnds \/ CaseExhausted \/ Record \/ CaseFailed
           \/ StartAgain
  BY <1>1
     DEF Tick, _request_stop, StrayEnds, OtherServer, Fault, OtherLeaves,
         ForeignNetwork, Verdict, Report, JournalHeld, SkipCase, Skipped,
         Local, StartServer, LoopEnds, CaseExhausted, Record, CaseFailed,
         StartAgain
<1>2. CASE execute_campaign \/ cleanup_campaign \/ Crash
  BY <1>2, RunTypes
     DEF execute_campaign, cleanup_campaign, Crash
<1>3. CASE \/ PreRecover("preWorkers", "workers", "preServers")
           \/ PreRecover("preServers", "servers", "preNetwork")
           \/ PreRecover("preNetwork", "network", "stage") \/ Stage
  BY <1>3, RunTypes
     DEF PreRecover, Recover, Failed, _recover_plan_workers,
         _recover_plan_servers, _remove_worker_network, NoFault, Fault, Stage
<1>4. CASE \/ FinalRecover("workers", "servers")
           \/ FinalRecover("servers", "network")
           \/ FinalRecover("network", "verdict")
  BY <1>4, RunTypes
     DEF FinalRecover, Recover, Unclean, _recover_plan_workers,
         _recover_plan_servers, _remove_worker_network, NoFault, Fault
<1>5. CASE EnterRlm \/ EnterHalo \/ PhaseEnded
  BY <1>5, RunTypes
     DEF EnterRlm, SkipRest, Local, EnterHalo, PhaseEnded, Reason
<1>6. CASE EnsureNetwork
  BY <1>6, RunTypes
     DEF EnsureNetwork, NoFault, Fault
<1>7. CASE CleanServer
  BY <1>7, RunTypes
     DEF CleanServer, StopServer, PhaseOver, NoFault, Fault, SkipRest, Reason
<1>8. CASE CleanNetwork
  BY <1>8, RunTypes
     DEF CleanNetwork, _remove_worker_network, PhaseOver, NoFault, Fault,
         SkipRest, Reason
<1>9. CASE StartRefused \/ StartupFails
  BY <1>9, <1>b, RunTypes
     DEF StartRefused, NoFault, Fault, StartFailed, Raise, StartupFails
<1>10. CASE ServerReady \/ ConnectServer \/ PrepareIndex
  BY <1>10, RunTypes
     DEF ServerReady, Local, ConnectServer, NoFault, Fault, Raise,
         PrepareIndex, Failed
<1>11. CASE ChooseProfile
  BY <1>11, <1>a, RunTypes
     DEF ChooseProfile, SkipRest, Local
<1>12. CASE ProfileStarted
  BY <1>12, RunTypes
     DEF ProfileStarted
<1>13. CASE CaseStarted
  BY <1>13, <1>c, RunTypes
     DEF CaseStarted
<1>14. CASE IndexInCase \/ Launch
  BY <1>14, RunTypes
     DEF IndexInCase, NoFault, Fault, Result, Launch
<1>15. CASE WorkerAnswers \/ TerminateWorker
  BY <1>15, RunTypes
     DEF WorkerAnswers, Result, TerminateWorker, NoFault, Fault, Expired
<1>16. CASE RestartServer
  BY <1>16, RunTypes
     DEF RestartServer, StopServer, Raise, NoFault, Fault
<1>17. CASE Reselect
  BY <1>17, RunTypes
     DEF Reselect, FallsBack
<1>18. CASE UNCHANGED vars
  BY <1>18 DEF vars
<1> QED
  BY <1>1, <1>2, <1>3, <1>4, <1>5, <1>6, <1>7, <1>8, <1>9, <1>10, <1>11, <1>12,
     <1>13, <1>14, <1>15, <1>16, <1>17, <1>18
     DEF Next, Step, Recovery

LEMMA StepTypes ==
    ASSUME TypeOK, CaseInv, [Next]_vars
    PROVE  TypeOK'
<1> USE DEF journal, marks, docker, bounds
<1>a. run' \in RunSet
  BY RunStep
<1>b. /\ run.profile \in Profiles /\ (pc = "launch" => run.case \in Cases)
      /\ run.error \in BOOLEAN /\ run.unclean \in BOOLEAN
      /\ run.reason \in {"none", "stop", "deadline"}
      /\ (NProfiles > 1 => 2 \in Profiles)
  BY LoopAssumption, PendingFacts DEF TypeOK, Profiles, CaseInv
<1>c. SUFFICES /\ attempts' \in [Cases -> Nat]
               /\ term' \in [Cases -> Terminal \cup {"none"}]
               /\ by' \in [Cases -> Profiles]
               /\ primaryFailed' \in BOOLEAN /\ indexed' \in BOOLEAN
               /\ fallback' \in Profiles
               /\ cleanup' \in {"none", "verified", "failed"} /\ finished' \in BOOLEAN
               /\ server' \in Servers /\ network' \in {"none", "own", "foreign"}
               /\ box' \subseteq Cases /\ hosts' \subseteq Cases
               /\ pc' \in Pcs /\ cmd' \in {"none", "run", "cleanup"}
               /\ stop' \in BOOLEAN /\ time' \in Instants
  BY <1>a DEF TypeOK, RunSet
<1>d. /\ attempts \in [Cases -> Nat]
      /\ term \in [Cases -> Terminal \cup {"none"}]
      /\ by \in [Cases -> Profiles]
      /\ primaryFailed \in BOOLEAN /\ indexed \in BOOLEAN
      /\ fallback \in Profiles
      /\ cleanup \in {"none", "verified", "failed"} /\ finished \in BOOLEAN
      /\ server \in Servers /\ network \in {"none", "own", "foreign"}
      /\ box \subseteq Cases /\ hosts \subseteq Cases
      /\ pc \in Pcs /\ cmd \in {"none", "run", "cleanup"}
      /\ stop \in BOOLEAN /\ time \in Instants
  BY DEF TypeOK
<1> USE <1>b, <1>d DEF Pcs, Terminal
<1>1. CASE \/ PreRecover("preWorkers", "workers", "preServers")
           \/ PreRecover("preServers", "servers", "preNetwork")
           \/ PreRecover("preNetwork", "network", "stage")
           \/ FinalRecover("workers", "servers")
           \/ FinalRecover("servers", "network")
           \/ FinalRecover("network", "verdict")
  BY <1>1
     DEF PreRecover, Recover, Failed, _recover_plan_workers,
         _recover_plan_servers, _remove_worker_network, NoFault, Fault,
         FinalRecover, Unclean, Servers
<1>2. CASE Stage \/ Verdict
  BY <1>2
     DEF Stage, NoFault, Fault, Failed, Verdict
<1>3. CASE Report
  BY <1>3
     DEF Report
<1>4. CASE EnterRlm \/ EnterHalo
  BY <1>4
     DEF EnterRlm, SkipRest, Local, EnterHalo
<1>5. CASE Skipped \/ PhaseEnded
  BY <1>5
     DEF Skipped, Local, PhaseEnded
<1>6. CASE JournalHeld
  BY <1>6, ZenonT(60)
     DEF JournalHeld
<1>7. CASE SkipCase
  <2> DEFINE m == Min(Pending(run.phase))
  <2>1. run.reason \in Terminal \cup {"none"}
    BY <1>b
  <2>2. term' = [term EXCEPT ![m] = run.reason]
    BY <1>7 DEF SkipCase
  <2> HIDE DEF m
  <2>3. term' \in [Cases -> Terminal \cup {"none"}]
    BY <2>1, <2>2
  <2> QED BY <1>7, <2>3
     DEF SkipCase
<1>8. CASE EnsureNetwork
  BY <1>8
     DEF EnsureNetwork, NoFault, Fault
<1>9. CASE CleanServer
  BY <1>9
     DEF CleanServer, StopServer, PhaseOver, NoFault, Fault, SkipRest, Servers
<1>10. CASE CleanNetwork
  BY <1>10
     DEF CleanNetwork, _remove_worker_network, PhaseOver, NoFault, Fault,
         SkipRest
<1>11. CASE StartRefused \/ StartServer \/ StartupFails
  BY <1>11
     DEF StartRefused, NoFault, Fault, StartFailed, Raise, StartServer,
         StartupFails, Servers
<1>12. CASE ServerReady \/ ConnectServer
  BY <1>12
     DEF ServerReady, Local, ConnectServer, NoFault, Fault, Raise
<1>13. CASE PrepareIndex
  <2>1. pc' \in Pcs /\ indexed' \in BOOLEAN
    BY <1>13 DEF PrepareIndex, Failed
  <2> QED BY <1>13, <2>1 DEF PrepareIndex
<1>14. CASE ChooseProfile \/ ProfileStarted
  BY <1>14
     DEF ChooseProfile, SkipRest, Local, ProfileStarted
<1>15. CASE LoopEnds \/ CaseExhausted
  BY <1>15
     DEF LoopEnds, Local, CaseExhausted
<1>16. CASE CaseStarted
  BY <1>16, FirstCase
     DEF CaseStarted
<1>17. CASE IndexInCase
  BY <1>17, ZenonT(60)
     DEF IndexInCase, NoFault, Fault, Result
<1>18. CASE Launch
  BY <1>18
     DEF Launch, NoFault, Result, Fault
<1>19. CASE WorkerAnswers \/ TerminateWorker
  BY <1>19
     DEF WorkerAnswers, Result, TerminateWorker, NoFault, Fault
<1>20. CASE Record
  BY <1>20
     DEF Record
<1>21. CASE CaseFailed \/ RestartServer
  BY <1>21
     DEF CaseFailed, RestartServer, StopServer, Raise, NoFault, Fault, Servers
<1>22. CASE Reselect \/ StartAgain
  BY <1>22
     DEF Reselect, StartAgain, Local, FallsBack
<1>23. CASE execute_campaign \/ cleanup_campaign \/ _request_stop
  BY <1>23, ZenonT(60)
     DEF execute_campaign, cleanup_campaign, _request_stop
<1>24. CASE Crash
  BY <1>24
     DEF Crash
<1>25. CASE Tick
  BY <1>25
     DEF Tick
<1>26. CASE StrayEnds \/ OtherServer \/ OtherLeaves \/ ForeignNetwork
  BY <1>26
     DEF StrayEnds, OtherServer, Fault, OtherLeaves, ForeignNetwork, Servers
<1>27. CASE UNCHANGED vars
  BY <1>27 DEF vars
<1> QED
  BY <1>1, <1>2, <1>3, <1>4, <1>5, <1>6, <1>7, <1>8, <1>9, <1>10, <1>11, <1>12,
     <1>13, <1>14, <1>15, <1>16, <1>17, <1>18, <1>19, <1>20, <1>21, <1>22,
     <1>23, <1>24, <1>25, <1>26, <1>27
     DEF Next, Step, Recovery

(***************************************************************************)
(* The parts of the invariant.                                              *)
(***************************************************************************)

LEMMA StepPhase ==
    ASSUME TypeOK, PhaseInv, [Next]_vars
    PROVE  PhaseInv'
<1>0. run \in RunSet /\ NoRun \in RunSet
  BY RunTypes DEF TypeOK, RunSet
<1> USE <1>0 DEF PhaseInv, RlmOnly, HaloOnly, RunSet, Phases
<1>1. CASE \/ PreRecover("preWorkers", "workers", "preServers")
           \/ PreRecover("preServers", "servers", "preNetwork")
           \/ PreRecover("preNetwork", "network", "stage")
           \/ FinalRecover("workers", "servers")
           \/ FinalRecover("servers", "network")
           \/ FinalRecover("network", "verdict")
  BY <1>1
     DEF PreRecover, Recover, Failed, _recover_plan_workers,
         _recover_plan_servers, _remove_worker_network, NoFault, Fault,
         FinalRecover, Unclean
<1>2. CASE \/ Stage \/ Verdict \/ Report \/ JournalHeld \/ EnterRlm
           \/ EnterHalo \/ SkipCase \/ Skipped
  BY <1>2
     DEF Stage, NoFault, Fault, Failed, Verdict, Report, JournalHeld, EnterRlm,
         SkipRest, Local, EnterHalo, SkipCase, Skipped
<1>3. CASE PhaseEnded
  BY <1>3
     DEF PhaseEnded, Local, NoRun
<1>4. CASE EnsureNetwork \/ CleanServer \/ CleanNetwork
  BY <1>4
     DEF EnsureNetwork, NoFault, Fault, CleanServer, StopServer, PhaseOver,
         SkipRest, CleanNetwork, _remove_worker_network
<1>5. CASE StartRefused \/ StartServer \/ ServerReady \/ StartupFails
  BY <1>5
     DEF StartRefused, NoFault, Fault, StartFailed, Raise, StartServer,
         ServerReady, Local, StartupFails
<1>6. CASE \/ ConnectServer \/ PrepareIndex \/ ChooseProfile
           \/ ProfileStarted
  BY <1>6
     DEF ConnectServer, NoFault, Fault, Raise, PrepareIndex, Failed,
         ChooseProfile, SkipRest, Local, ProfileStarted
<1>7. CASE \/ LoopEnds \/ CaseExhausted \/ CaseStarted \/ IndexInCase
           \/ Launch
  BY <1>7
     DEF LoopEnds, Local, CaseExhausted, CaseStarted, IndexInCase, NoFault,
         Fault, Result, Launch
<1>8. CASE WorkerAnswers \/ TerminateWorker \/ Record \/ CaseFailed
  BY <1>8
     DEF WorkerAnswers, Result, TerminateWorker, NoFault, Fault, Record,
         CaseFailed
<1>9. CASE RestartServer \/ Reselect \/ StartAgain
  BY <1>9
     DEF RestartServer, StopServer, Raise, NoFault, Fault, Reselect,
         StartAgain, Local
<1>10. CASE \/ execute_campaign \/ cleanup_campaign \/ _request_stop
           \/ Crash \/ Tick \/ StrayEnds \/ OtherServer \/ OtherLeaves
           \/ ForeignNetwork
  BY <1>10
     DEF execute_campaign, cleanup_campaign, _request_stop, Crash, Tick,
         StrayEnds, OtherServer, Fault, OtherLeaves, ForeignNetwork, NoRun
<1>11. CASE UNCHANGED vars
  BY <1>11 DEF vars
<1> QED
  BY <1>1, <1>2, <1>3, <1>4, <1>5, <1>6, <1>7, <1>8, <1>9, <1>10, <1>11
     DEF Next, Step, Recovery

LEMMA StepClean ==
    ASSUME TypeOK, CleanInv, [Next]_vars
    PROVE  CleanInv'
<1>0. run \in RunSet
  BY DEF TypeOK, RunSet
<1> USE <1>0, ServerNames
    DEF CleanInv, VerifiedMeansClean, InPhases, Ending, Gone, Pcs, RunSet, TypeOK,
        journal, marks, docker, bounds
<1>1. CASE \/ PreRecover("preWorkers", "workers", "preServers")
           \/ PreRecover("preServers", "servers", "preNetwork")
           \/ PreRecover("preNetwork", "network", "stage")
           \/ FinalRecover("workers", "servers")
           \/ FinalRecover("servers", "network")
           \/ FinalRecover("network", "verdict")
  BY <1>1
     DEF PreRecover, Recover, Failed, _recover_plan_workers,
         _recover_plan_servers, _remove_worker_network, NoFault, Fault,
         FinalRecover, Unclean
<1>2. CASE \/ Stage \/ Verdict \/ Report \/ JournalHeld \/ EnterRlm
           \/ EnterHalo \/ SkipCase \/ Skipped
  BY <1>2
     DEF Stage, NoFault, Fault, Failed, Verdict, Report, JournalHeld, EnterRlm,
         SkipRest, Local, EnterHalo, SkipCase, Skipped
<1>3. CASE PhaseEnded
  BY <1>3
     DEF PhaseEnded, Local
<1>4. CASE EnsureNetwork \/ CleanServer \/ CleanNetwork
  BY <1>4
     DEF EnsureNetwork, NoFault, Fault, CleanServer, StopServer, PhaseOver,
         SkipRest, CleanNetwork, _remove_worker_network
<1>5. CASE StartRefused \/ StartServer \/ ServerReady \/ StartupFails
  BY <1>5
     DEF StartRefused, NoFault, Fault, StartFailed, Raise, StartServer,
         ServerReady, Local, StartupFails
<1>6. CASE \/ ConnectServer \/ PrepareIndex \/ ChooseProfile
           \/ ProfileStarted
  BY <1>6
     DEF ConnectServer, NoFault, Fault, Raise, PrepareIndex, Failed,
         ChooseProfile, SkipRest, Local, ProfileStarted
<1>7. CASE \/ LoopEnds \/ CaseExhausted \/ CaseStarted \/ IndexInCase
           \/ Launch
  BY <1>7
     DEF LoopEnds, Local, CaseExhausted, CaseStarted, IndexInCase, NoFault,
         Fault, Result, Launch
<1>8. CASE WorkerAnswers \/ TerminateWorker \/ Record \/ CaseFailed
  BY <1>8
     DEF WorkerAnswers, Result, TerminateWorker, NoFault, Fault, Record,
         CaseFailed
<1>9. CASE RestartServer \/ Reselect \/ StartAgain
  BY <1>9
     DEF RestartServer, StopServer, Raise, NoFault, Fault, Reselect,
         StartAgain, Local
<1>10. CASE \/ execute_campaign \/ cleanup_campaign \/ _request_stop
           \/ Crash \/ Tick \/ StrayEnds \/ OtherServer \/ OtherLeaves
           \/ ForeignNetwork
  BY <1>10
     DEF execute_campaign, cleanup_campaign, _request_stop, Crash, Tick,
         StrayEnds, OtherServer, Fault, OtherLeaves, ForeignNetwork
<1>11. CASE UNCHANGED vars
  BY <1>11 DEF vars
<1> QED
  BY <1>1, <1>2, <1>3, <1>4, <1>5, <1>6, <1>7, <1>8, <1>9, <1>10, <1>11
     DEF Next, Step, Recovery

LEMMA StepServer ==
    ASSUME TypeOK, PhaseInv, ServerInv, [Next]_vars
    PROVE  ServerInv'
<1>0. run \in RunSet /\ NoRun \in RunSet
  BY RunTypes DEF TypeOK, RunSet
<1>b. Profiles \subseteq Nat
  BY DEF Profiles
<1>a. server \in {None, Other} \/ \E p \in Profiles : server = Srv(p)
  BY DEF TypeOK, Servers
<1> USE <1>0, <1>a, <1>b, ServerNames
    DEF ServerInv, Serving, Vacated, Gone, RunSet, journal, marks, docker, bounds
<1>1. CASE \/ PreRecover("preWorkers", "workers", "preServers")
           \/ PreRecover("preServers", "servers", "preNetwork")
           \/ PreRecover("preNetwork", "network", "stage")
           \/ FinalRecover("workers", "servers")
           \/ FinalRecover("servers", "network")
           \/ FinalRecover("network", "verdict")
  BY <1>1
     DEF PreRecover, Recover, Failed, _recover_plan_workers,
         _recover_plan_servers, _remove_worker_network, NoFault, Fault,
         FinalRecover, Unclean
<1>2. CASE \/ Stage \/ Verdict \/ Report \/ JournalHeld \/ EnterRlm
           \/ EnterHalo \/ SkipCase \/ Skipped
  BY <1>2
     DEF Stage, NoFault, Fault, Failed, Verdict, Report, JournalHeld, EnterRlm,
         SkipRest, Local, EnterHalo, SkipCase, Skipped
<1>3. CASE PhaseEnded
  BY <1>3
     DEF PhaseEnded, Local
<1>4. CASE EnsureNetwork \/ CleanServer \/ CleanNetwork
  BY <1>4
     DEF EnsureNetwork, NoFault, Fault, CleanServer, StopServer, PhaseOver,
         SkipRest, CleanNetwork, _remove_worker_network
<1>5. CASE StartRefused \/ StartServer \/ ServerReady \/ StartupFails
  BY <1>5
     DEF StartRefused, NoFault, Fault, StartFailed, Raise, StartServer,
         ServerReady, Local, StartupFails
<1>6. CASE \/ ConnectServer \/ PrepareIndex \/ ChooseProfile
           \/ ProfileStarted
  BY <1>6
     DEF ConnectServer, NoFault, Fault, Raise, PrepareIndex, Failed,
         ChooseProfile, SkipRest, Local, ProfileStarted
<1>7. CASE \/ LoopEnds \/ CaseExhausted \/ CaseStarted \/ IndexInCase
           \/ Launch
  BY <1>7
     DEF LoopEnds, Local, CaseExhausted, CaseStarted, IndexInCase, NoFault,
         Fault, Result, Launch
<1>8. CASE WorkerAnswers \/ TerminateWorker \/ Record \/ CaseFailed
  BY <1>8
     DEF WorkerAnswers, Result, TerminateWorker, NoFault, Fault, Record,
         CaseFailed
<1>9. CASE RestartServer \/ Reselect \/ StartAgain
  BY <1>9
     DEF RestartServer, StopServer, Raise, NoFault, Fault, Reselect,
         StartAgain, Local
<1>10. CASE \/ execute_campaign \/ cleanup_campaign \/ _request_stop
           \/ Crash \/ Tick \/ StrayEnds \/ OtherServer \/ OtherLeaves
           \/ ForeignNetwork
  BY <1>10
     DEF execute_campaign, cleanup_campaign, _request_stop, Crash, Tick,
         StrayEnds, OtherServer, Fault, OtherLeaves, ForeignNetwork
<1>11. CASE UNCHANGED vars
  BY <1>11 DEF vars
<1> QED
  BY <1>1, <1>2, <1>3, <1>4, <1>5, <1>6, <1>7, <1>8, <1>9, <1>10, <1>11
     DEF Next, Step, Recovery

\* What an invocation settles it settles once.
LEMMA StepSettles ==
    ASSUME TypeOK, CaseInv, [Next]_vars
    PROVE  \A c \in Cases : term[c] # "none" =>
             term'[c] = term[c] /\ attempts'[c] = attempts[c]
<1>a. Pending(run.phase) # {} =>
        /\ First \in Cases /\ term[First] = "none"
        /\ First = Min(Pending(run.phase))
  BY FirstCase, PendingFacts DEF First
<1>b. /\ \A c \in Pending("rlm") : term[c] = "none"
      /\ pc \in {"record", "failed"} => term[run.case] = "none"
  BY PendingFacts DEF CaseInv
<1>c. term \in [Cases -> Terminal \cup {"none"}] /\ attempts \in [Cases -> Nat]
  BY DEF TypeOK
<1> USE <1>a, <1>b, <1>c DEF journal
<1>1. CASE JournalHeld \/ SkipCase
  BY <1>1
     DEF JournalHeld, SkipCase
<1>2. CASE CaseExhausted \/ CaseStarted
  BY <1>2
     DEF CaseExhausted, CaseStarted
<1>3. CASE Record \/ CaseFailed
  BY <1>3
     DEF Record, CaseFailed
<1>4. CASE \/ PreRecover("preWorkers", "workers", "preServers")
           \/ PreRecover("preServers", "servers", "preNetwork")
           \/ PreRecover("preNetwork", "network", "stage")
           \/ FinalRecover("workers", "servers")
           \/ FinalRecover("servers", "network")
           \/ FinalRecover("network", "verdict") \/ Stage \/ Verdict
           \/ Report \/ EnterRlm \/ EnterHalo \/ Skipped \/ PhaseEnded
           \/ EnsureNetwork \/ CleanServer \/ CleanNetwork \/ StartRefused
           \/ StartServer \/ ServerReady \/ StartupFails \/ ConnectServer
           \/ PrepareIndex \/ ChooseProfile \/ ProfileStarted \/ LoopEnds
           \/ IndexInCase \/ Launch \/ WorkerAnswers \/ TerminateWorker
           \/ RestartServer \/ Reselect \/ StartAgain \/ execute_campaign
           \/ cleanup_campaign \/ _request_stop \/ Crash \/ Tick
           \/ StrayEnds \/ OtherServer \/ OtherLeaves \/ ForeignNetwork
  BY <1>4
     DEF PreRecover, Recover, Failed, _recover_plan_workers,
         _recover_plan_servers, _remove_worker_network, NoFault, Fault,
         FinalRecover, Unclean, Stage, Verdict, Report, EnterRlm, SkipRest,
         Local, EnterHalo, Skipped, PhaseEnded, EnsureNetwork, CleanServer,
         StopServer, PhaseOver, CleanNetwork, StartRefused, StartFailed, Raise,
         StartServer, ServerReady, StartupFails, ConnectServer, PrepareIndex,
         ChooseProfile, ProfileStarted, LoopEnds, IndexInCase, Result, Launch,
         WorkerAnswers, TerminateWorker, RestartServer, Reselect, StartAgain,
         execute_campaign, cleanup_campaign, _request_stop, Crash, Tick,
         StrayEnds, OtherServer, OtherLeaves, ForeignNetwork
<1>5. CASE UNCHANGED vars
  BY <1>5 DEF vars
<1> QED
  BY <1>1, <1>2, <1>3, <1>4, <1>5
     DEF Next, Step, Recovery

LEMMA PendingShrinks ==
    ASSUME TypeOK, CaseInv, [Next]_vars, NEW ph
    PROVE  Pending(ph)' \subseteq Pending(ph)
BY StepSettles, CaseFacts DEF Pending

LEMMA StepCase ==
    ASSUME TypeOK, CaseInv, [Next]_vars
    PROVE  CaseInv'
<1>0. /\ run \in RunSet /\ attempts \in [Cases -> Nat]
      /\ term \in [Cases -> Terminal \cup {"none"}]
  BY DEF TypeOK, RunSet
<1>a. Pending(run.phase) # {} =>
        First \in PhaseCases(run.phase) /\ First \in Cases /\ term[First] = "none"
  BY FirstCase, PendingFacts
<1>b. SUFFICES /\ pc' \in {"launch", "working", "record", "failed"} =>
                    /\ run'.case \in PhaseCases(run'.phase)
                    /\ term'[run'.case] = "none"
               /\ \A c \in Cases : attempts'[c] <= 2
  BY DEF CaseInv, Pending
<1>c. pc \in {"launch", "working", "record", "failed"} =>
        /\ run.case \in PhaseCases(run.phase) /\ run.case \in Cases
        /\ term[run.case] = "none"
  BY CaseFacts DEF CaseInv, Pending
<1>d. \A c \in Cases : attempts[c] <= 2
  BY DEF CaseInv
<1> USE <1>0, <1>c, <1>d DEF RunSet, journal, marks, docker, bounds
<1>1. CASE CaseStarted
  BY <1>1, <1>a
     DEF CaseStarted, Spent
<1>2. CASE Record
  BY <1>2
     DEF Record
<1>3. CASE CaseFailed
  BY <1>3
     DEF CaseFailed
<1>4. CASE Launch \/ IndexInCase \/ WorkerAnswers \/ TerminateWorker
  BY <1>4
     DEF Launch, NoFault, Result, Fault, IndexInCase, WorkerAnswers,
         TerminateWorker
<1>5. CASE LoopEnds \/ CaseExhausted \/ JournalHeld \/ SkipCase
  BY <1>5
     DEF LoopEnds, Local, CaseExhausted, JournalHeld, SkipCase
<1>6. CASE \/ PreRecover("preWorkers", "workers", "preServers")
           \/ PreRecover("preServers", "servers", "preNetwork")
           \/ PreRecover("preNetwork", "network", "stage")
           \/ FinalRecover("workers", "servers")
           \/ FinalRecover("servers", "network")
           \/ FinalRecover("network", "verdict") \/ Stage \/ Verdict
           \/ Report \/ EnterRlm \/ EnterHalo \/ Skipped \/ PhaseEnded
           \/ EnsureNetwork \/ CleanServer \/ CleanNetwork \/ StartRefused
           \/ StartServer \/ ServerReady \/ StartupFails \/ ConnectServer
           \/ PrepareIndex \/ ChooseProfile \/ ProfileStarted
           \/ RestartServer \/ Reselect \/ StartAgain
  BY <1>6
     DEF PreRecover, Recover, Failed, _recover_plan_workers,
         _recover_plan_servers, _remove_worker_network, NoFault, Fault,
         FinalRecover, Unclean, Stage, Verdict, Report, EnterRlm, SkipRest,
         Local, EnterHalo, Skipped, PhaseEnded, EnsureNetwork, CleanServer,
         StopServer, PhaseOver, CleanNetwork, StartRefused, StartFailed, Raise,
         StartServer, ServerReady, StartupFails, ConnectServer, PrepareIndex,
         ChooseProfile, ProfileStarted, RestartServer, Reselect, StartAgain
<1>7. CASE \/ execute_campaign \/ cleanup_campaign \/ _request_stop
           \/ Crash \/ Tick \/ StrayEnds \/ OtherServer \/ OtherLeaves
           \/ ForeignNetwork
  BY <1>7
     DEF execute_campaign, cleanup_campaign, _request_stop, Crash, Tick,
         StrayEnds, OtherServer, Fault, OtherLeaves, ForeignNetwork
<1>8. CASE UNCHANGED vars
  BY <1>8 DEF vars
<1> QED
  BY <1>1, <1>2, <1>3, <1>4, <1>5, <1>6, <1>7, <1>8
     DEF Next, Step, Recovery

LEMMA StepSettled ==
    ASSUME TypeOK, PhaseInv, CaseInv, CleanInv, SettledInv, [Next]_vars
    PROVE  SettledInv'
<1>0. run \in RunSet /\ NoRun \in RunSet
  BY RunTypes DEF TypeOK, RunSet
<1>a. \A ph : Pending(ph)' \subseteq Pending(ph)
  BY PendingShrinks
<1> USE <1>0, <1>a
    DEF SettledInv, PhaseInv, InPhases, Ending, RlmOnly, HaloOnly, Pcs, Phases,
        RunSet, journal, marks, docker, bounds
<1>1. CASE \/ PreRecover("preWorkers", "workers", "preServers")
           \/ PreRecover("preServers", "servers", "preNetwork")
           \/ PreRecover("preNetwork", "network", "stage")
           \/ FinalRecover("workers", "servers")
           \/ FinalRecover("servers", "network")
           \/ FinalRecover("network", "verdict")
  BY <1>1
     DEF PreRecover, Recover, Failed, _recover_plan_workers,
         _recover_plan_servers, _remove_worker_network, NoFault, Fault,
         FinalRecover, Unclean
<1>2. CASE \/ Stage \/ Verdict \/ Report \/ JournalHeld \/ EnterRlm
           \/ EnterHalo \/ SkipCase \/ Skipped
  BY <1>2
     DEF Stage, NoFault, Fault, Failed, Verdict, Report, JournalHeld, EnterRlm,
         SkipRest, Local, EnterHalo, SkipCase, Skipped
<1>3. CASE PhaseEnded
  BY <1>3
     DEF PhaseEnded, Local, NoRun
<1>4. CASE EnsureNetwork \/ CleanServer \/ CleanNetwork
  BY <1>4, ZenonT(60)
     DEF EnsureNetwork, NoFault, Fault, CleanServer, StopServer, PhaseOver,
         SkipRest, CleanNetwork, _remove_worker_network
<1>5. CASE StartRefused \/ StartServer \/ ServerReady \/ StartupFails
  BY <1>5
     DEF StartRefused, NoFault, Fault, StartFailed, Raise, StartServer,
         ServerReady, Local, StartupFails
<1>6. CASE \/ ConnectServer \/ PrepareIndex \/ ChooseProfile
           \/ ProfileStarted
  BY <1>6
     DEF ConnectServer, NoFault, Fault, Raise, PrepareIndex, Failed,
         ChooseProfile, SkipRest, Local, ProfileStarted
<1>7. CASE \/ LoopEnds \/ CaseExhausted \/ CaseStarted \/ IndexInCase
           \/ Launch
  BY <1>7
     DEF LoopEnds, Local, CaseExhausted, CaseStarted, IndexInCase, NoFault,
         Fault, Result, Launch
<1>8. CASE WorkerAnswers \/ TerminateWorker \/ Record \/ CaseFailed
  BY <1>8
     DEF WorkerAnswers, Result, TerminateWorker, NoFault, Fault, Record,
         CaseFailed
<1>9. CASE RestartServer \/ Reselect \/ StartAgain
  BY <1>9
     DEF RestartServer, StopServer, Raise, NoFault, Fault, Reselect,
         StartAgain, Local
<1>10. CASE \/ execute_campaign \/ cleanup_campaign \/ _request_stop
           \/ Crash \/ Tick \/ StrayEnds \/ OtherServer \/ OtherLeaves
           \/ ForeignNetwork
  BY <1>10
     DEF execute_campaign, cleanup_campaign, _request_stop, Crash, Tick,
         StrayEnds, OtherServer, Fault, OtherLeaves, ForeignNetwork, NoRun
<1>11. CASE UNCHANGED vars
  BY <1>11 DEF vars
<1> QED
  BY <1>1, <1>2, <1>3, <1>4, <1>5, <1>6, <1>7, <1>8, <1>9, <1>10, <1>11
     DEF Next, Step, Recovery

\* Only the record of a result completes a case.
LEMMA ResultsKept ==
    ASSUME TypeOK, [Next]_vars, ~Record
    PROVE  by' = by /\ Completed' \subseteq Completed
<1>0. /\ term \in [Cases -> Terminal \cup {"none"}]
      /\ PhaseCases("halo") \subseteq Cases
      /\ run.reason # "complete"
  BY CaseFacts DEF TypeOK
<1> USE <1>0 DEF Completed, journal
<1>1. CASE Record
  BY <1>1
     DEF Record
<1>2. CASE JournalHeld \/ SkipCase \/ CaseExhausted \/ CaseFailed
  BY <1>2
     DEF JournalHeld, SkipCase, CaseExhausted, CaseFailed
<1>3. CASE \/ PreRecover("preWorkers", "workers", "preServers")
           \/ PreRecover("preServers", "servers", "preNetwork")
           \/ PreRecover("preNetwork", "network", "stage")
           \/ FinalRecover("workers", "servers")
           \/ FinalRecover("servers", "network")
           \/ FinalRecover("network", "verdict") \/ Stage \/ Verdict
           \/ Report \/ EnterRlm \/ EnterHalo \/ Skipped \/ PhaseEnded
           \/ EnsureNetwork \/ CleanServer \/ CleanNetwork \/ StartRefused
           \/ StartServer \/ ServerReady \/ StartupFails \/ ConnectServer
           \/ PrepareIndex \/ ChooseProfile \/ ProfileStarted \/ LoopEnds
           \/ CaseStarted \/ IndexInCase \/ Launch \/ WorkerAnswers
           \/ TerminateWorker \/ RestartServer \/ Reselect \/ StartAgain
  BY <1>3
     DEF PreRecover, Recover, Failed, _recover_plan_workers,
         _recover_plan_servers, _remove_worker_network, NoFault, Fault,
         FinalRecover, Unclean, Stage, Verdict, Report, EnterRlm, SkipRest,
         Local, EnterHalo, Skipped, PhaseEnded, EnsureNetwork, CleanServer,
         StopServer, PhaseOver, CleanNetwork, StartRefused, StartFailed, Raise,
         StartServer, ServerReady, StartupFails, ConnectServer, PrepareIndex,
         ChooseProfile, ProfileStarted, LoopEnds, CaseStarted, IndexInCase,
         Result, Launch, WorkerAnswers, TerminateWorker, RestartServer,
         Reselect, StartAgain
<1>4. CASE \/ execute_campaign \/ cleanup_campaign \/ _request_stop
           \/ Crash \/ Tick \/ StrayEnds \/ OtherServer \/ OtherLeaves
           \/ ForeignNetwork
  BY <1>4
     DEF execute_campaign, cleanup_campaign, _request_stop, Crash, Tick,
         StrayEnds, OtherServer, Fault, OtherLeaves, ForeignNetwork
<1>5. CASE UNCHANGED vars
  BY <1>5 DEF vars
<1> QED
  BY <1>1, <1>2, <1>3, <1>4, <1>5
     DEF Next, Step, Recovery

LEMMA StepProfile ==
    ASSUME TypeOK, PhaseInv, CaseInv, ProfileInv, [Next]_vars
    PROVE  ProfileInv'
<1>0. run \in RunSet
  BY DEF TypeOK, RunSet
<1>a. /\ term \in [Cases -> Terminal \cup {"none"}] /\ by \in [Cases -> Profiles]
      /\ PhaseCases("halo") \subseteq Cases
      /\ \A c \in PhaseCases("rlm") : c \notin PhaseCases("halo")
  BY CaseFacts DEF TypeOK
<1>b. \A c \in Completed : Candidates = {by[c]}
  BY CandidateFacts DEF ProfileInv
<1>c. /\ Min(Candidates) \in Candidates
      /\ \A c \in Completed : by[c] + 1 \notin Candidates
  <2>1. Completed \subseteq Cases /\ Profiles \subseteq Nat
    BY CaseFacts DEF Profiles, Completed
  <2>2. ASSUME NEW c \in Completed PROVE by[c] + 1 \notin Candidates
    <3>1. by[c] \in Nat /\ Candidates = {by[c]}
      BY <1>a, <1>b, <2>1
    <3> QED BY <3>1
  <2> QED BY <2>2, CandidateFacts
<1>d. pc = "record" => run.case \in PhaseCases(run.phase) /\ run.case \in Cases
  BY PendingFacts DEF CaseInv
<1>r. CASE Record
  BY <1>r, <1>0, <1>a, <1>d DEF Record, ProfileInv, Completed, InUse, RunSet, Phases
<1>s. SUFFICES ASSUME ~Record PROVE ProfileInv'
  BY <1>r
<1>e. by' = by /\ Completed' \subseteq Completed
  BY <1>s, ResultsKept
<1> USE <1>0 DEF ProfileInv, PhaseInv, RlmOnly, HaloOnly, InUse, RunSet, Phases, journal
<1>1. CASE \/ PreRecover("preWorkers", "workers", "preServers")
           \/ PreRecover("preServers", "servers", "preNetwork")
           \/ PreRecover("preNetwork", "network", "stage")
           \/ FinalRecover("workers", "servers")
           \/ FinalRecover("servers", "network")
           \/ FinalRecover("network", "verdict")
  BY <1>1, <1>e
     DEF PreRecover, Recover, Failed, _recover_plan_workers,
         _recover_plan_servers, _remove_worker_network, NoFault, Fault,
         FinalRecover, Unclean
<1>2. CASE \/ Stage \/ Verdict \/ Report \/ JournalHeld \/ EnterRlm
           \/ EnterHalo \/ SkipCase \/ Skipped
  BY <1>2, <1>e
     DEF Stage, NoFault, Fault, Failed, Verdict, Report, JournalHeld, EnterRlm,
         SkipRest, Local, EnterHalo, SkipCase, Skipped
<1>3. CASE PhaseEnded
  BY <1>3, <1>e
     DEF PhaseEnded, Local
<1>4. CASE EnsureNetwork \/ CleanServer \/ CleanNetwork
  BY <1>4, <1>e, ZenonT(60)
     DEF EnsureNetwork, NoFault, Fault, CleanServer, StopServer, PhaseOver,
         SkipRest, CleanNetwork, _remove_worker_network
<1>5. CASE StartRefused \/ StartServer \/ ServerReady \/ StartupFails
  BY <1>5, <1>c, <1>e
     DEF StartRefused, NoFault, Fault, StartFailed, Raise, StartServer,
         ServerReady, Local, StartupFails
<1>6. CASE ConnectServer \/ PrepareIndex
  BY <1>6, <1>e
     DEF ConnectServer, NoFault, Fault, Raise, PrepareIndex, Failed
<1>7. CASE ProfileStarted
  BY <1>7, <1>e
     DEF ProfileStarted
<1>8. CASE ChooseProfile
  BY <1>8, <1>b, <1>c, <1>e
     DEF ChooseProfile, SkipRest, Local
<1>9. CASE \/ LoopEnds \/ CaseExhausted \/ CaseStarted \/ IndexInCase
           \/ Launch
  BY <1>9, <1>e, ZenonT(60)
     DEF LoopEnds, Local, CaseExhausted, CaseStarted, IndexInCase, NoFault,
         Fault, Result, Launch
<1>10. CASE WorkerAnswers \/ TerminateWorker \/ CaseFailed
  BY <1>10, <1>e
     DEF WorkerAnswers, Result, TerminateWorker, NoFault, Fault, CaseFailed
<1>11. CASE RestartServer \/ StartAgain
  BY <1>11, <1>e
     DEF RestartServer, StopServer, Raise, NoFault, Fault, StartAgain, Local
<1>12. CASE Reselect
  BY <1>12, <1>e
     DEF Reselect, FallsBack
<1>13. CASE \/ execute_campaign \/ cleanup_campaign \/ _request_stop
           \/ Crash \/ Tick \/ StrayEnds \/ OtherServer \/ OtherLeaves
           \/ ForeignNetwork
  BY <1>13, <1>e
     DEF execute_campaign, cleanup_campaign, _request_stop, Crash, Tick,
         StrayEnds, OtherServer, Fault, OtherLeaves, ForeignNetwork
<1>14. CASE UNCHANGED vars
  BY <1>14, <1>e DEF vars
<1> QED
  BY <1>s, <1>1, <1>2, <1>3, <1>4, <1>5, <1>6, <1>7, <1>8, <1>9, <1>10, <1>11, <1>12,
     <1>13, <1>14
     DEF Next, Step, Recovery

\* Only Report says that a campaign has finished.
LEMMA FinishedBy ==
    ASSUME TypeOK, [Next]_vars, finished', ~finished
    PROVE  Report
<1> USE DEF marks
<1>1. CASE Report
  BY <1>1
     DEF Report
<1>2. CASE \/ PreRecover("preWorkers", "workers", "preServers")
           \/ PreRecover("preServers", "servers", "preNetwork")
           \/ PreRecover("preNetwork", "network", "stage")
           \/ FinalRecover("workers", "servers")
           \/ FinalRecover("servers", "network")
           \/ FinalRecover("network", "verdict") \/ Stage \/ Verdict
           \/ JournalHeld \/ EnterRlm \/ EnterHalo \/ SkipCase \/ Skipped
           \/ PhaseEnded \/ EnsureNetwork \/ CleanServer \/ CleanNetwork
           \/ StartRefused \/ StartServer \/ ServerReady \/ StartupFails
           \/ ConnectServer \/ PrepareIndex \/ ChooseProfile
           \/ ProfileStarted \/ LoopEnds \/ CaseExhausted \/ CaseStarted
           \/ IndexInCase \/ Launch \/ WorkerAnswers \/ TerminateWorker
           \/ Record \/ CaseFailed \/ RestartServer \/ Reselect
           \/ StartAgain
  BY <1>2
     DEF PreRecover, Recover, Failed, _recover_plan_workers,
         _recover_plan_servers, _remove_worker_network, NoFault, Fault,
         FinalRecover, Unclean, Stage, Verdict, JournalHeld, EnterRlm,
         SkipRest, Local, EnterHalo, SkipCase, Skipped, PhaseEnded,
         EnsureNetwork, CleanServer, StopServer, PhaseOver, CleanNetwork,
         StartRefused, StartFailed, Raise, StartServer, ServerReady,
         StartupFails, ConnectServer, PrepareIndex, ChooseProfile,
         ProfileStarted, LoopEnds, CaseExhausted, CaseStarted, IndexInCase,
         Result, Launch, WorkerAnswers, TerminateWorker, Record, CaseFailed,
         RestartServer, Reselect, StartAgain
<1>3. CASE \/ execute_campaign \/ cleanup_campaign \/ _request_stop
           \/ Crash \/ Tick \/ StrayEnds \/ OtherServer \/ OtherLeaves
           \/ ForeignNetwork
  BY <1>3
     DEF execute_campaign, cleanup_campaign, _request_stop, Crash, Tick,
         StrayEnds, OtherServer, Fault, OtherLeaves, ForeignNetwork
<1>4. CASE UNCHANGED vars
  BY <1>4 DEF vars
<1> QED
  BY <1>1, <1>2, <1>3, <1>4
     DEF Next, Step, Recovery

(***************************************************************************)
(* The theorems.                                                            *)
(***************************************************************************)

LEMMA InitInv == Init => IInv
<1> SUFFICES ASSUME Init PROVE IInv
  OBVIOUS
<1>1. 0 \in Profiles /\ 0 \in Instants
  BY LoopAssumption DEF Profiles
<1>2. TypeOK
  <2>1. run \in RunSet
    BY RunTypes DEF Init
  <2>2. /\ attempts \in [Cases -> Nat] /\ by \in [Cases -> Profiles]
        /\ term \in [Cases -> Terminal \cup {"none"}]
        /\ fallback \in Profiles /\ time \in Instants
    BY <1>1 DEF Init
  <2>3. /\ primaryFailed \in BOOLEAN /\ indexed \in BOOLEAN
        /\ cleanup \in {"none", "verified", "failed"} /\ finished \in BOOLEAN
        /\ server \in Servers /\ network \in {"none", "own", "foreign"}
        /\ box \subseteq Cases /\ hosts \subseteq Cases
        /\ pc \in Pcs /\ cmd \in {"none", "run", "cleanup"} /\ stop \in BOOLEAN
    BY DEF Init, Servers, Pcs
  <2> QED BY <2>1, <2>2, <2>3 DEF TypeOK, RunSet
<1>3. Completed = {}
  BY CaseFacts DEF Init, Completed
<1>4. CleanInv /\ ServerInv /\ PhaseInv /\ ProfileInv /\ SettledInv
  BY <1>3 DEF Init, CleanInv, VerifiedMeansClean, InPhases, Ending, Gone,
     ServerInv, Serving, Vacated, PhaseInv, RlmOnly, HaloOnly, ProfileInv, InUse,
     SettledInv
<1>5. CaseInv
  BY DEF Init, CaseInv
<1> QED BY <1>2, <1>4, <1>5 DEF IInv

LEMMA NextInv == IInv /\ [Next]_vars => IInv'
BY StepTypes, StepClean, StepServer, StepPhase, StepProfile, StepCase, StepSettled
   DEF IInv

\* Every behaviour of execute_campaign and cleanup_campaign, with whatever crashes,
\* faults and stop requests, keeps the invariant.
THEOREM LoopCampaignInvariant == Spec => []IInv
BY InitInv, NextInv, PTL DEF Spec

\* campaign_cleanup_verified is the truth until the next start: nothing of the plan
\* is left, whichever recovery, of the run, a resume or the cleanup command, wrote it.
THEOREM CleanupVerified == Spec => []VerifiedMeansClean
<1>1. IInv => VerifiedMeansClean
  BY DEF IInv, CleanInv
<1> QED BY <1>1, LoopCampaignInvariant, PTL

\* HALO's results come from one profile, a worker runs against the server its
\* result is credited to, and no start finds a server of its own profile.
THEOREM HaloProfileUnique == Spec => []OneHaloProfile
<1>1. ASSUME IInv PROVE OneHaloProfile
  <2>1. TypeOK /\ \A c, d \in Completed : by[c] = by[d]
    BY <1>1 DEF IInv, ProfileInv
  <2>2. pc = "working" => server = Srv(run.profile)
    BY <1>1 DEF IInv, ServerInv, Serving
  <2>3. StartsFresh
    <3>1. Profiles \subseteq Nat /\ run.profile \in Profiles
      BY <2>1 DEF Profiles, TypeOK
    <3> QED BY <1>1, <3>1, ServerNames DEF StartsFresh, IInv, ServerInv, Gone
  <2> QED BY <2>1, <2>2, <2>3 DEF OneHaloProfile
<1> QED BY <1>1, LoopCampaignInvariant, PTL

\* A case is started at most twice, settled once, and settled when a campaign that
\* was not asked to stop has finished.
THEOREM CasesSettled == Spec => CasesSettleOnce
<1> DEFINE Kept == \A c \in Cases : term[c] # "none" =>
                     term'[c] = term[c] /\ attempts'[c] = attempts[c]
           Whole == finished' /\ ~finished /\ ~stop =>
                      \A c \in Cases : term[c] # "none"
<1>1. IInv => \A c \in Cases : attempts[c] <= 2
  BY DEF IInv, CaseInv
<1>2. IInv /\ [Next]_vars => Kept
  BY StepSettles DEF IInv
<1>3. IInv /\ [Next]_vars => Whole
  <2> SUFFICES ASSUME IInv, [Next]_vars, finished', ~finished, ~stop
               PROVE  \A c \in Cases : term[c] # "none"
    OBVIOUS
  <2>1. Report
    BY FinishedBy DEF IInv
  <2>2. Pending("rlm") = {} /\ Pending("halo") = {}
    BY <2>1 DEF Report, IInv, SettledInv, Ending
  <2> QED BY <2>2, CaseFacts DEF Pending
<1>4. Spec => [](\A c \in Cases : attempts[c] <= 2)
  BY <1>1, LoopCampaignInvariant, PTL
<1>5. Spec => [][Kept]_vars
  BY <1>2, LoopCampaignInvariant, PTL DEF Spec
<1>6. Spec => [][Whole]_vars
  BY <1>3, LoopCampaignInvariant, PTL DEF Spec
<1> QED BY <1>4, <1>5, <1>6, PTL DEF CasesSettleOnce

=====
