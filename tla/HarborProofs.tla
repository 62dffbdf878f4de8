----------------------------- MODULE HarborProofs -----------------------------
(***************************************************************************)
(* Theorems about a Harbor campaign of any number of trials and failures.  *)
(*                                                                         *)
(* Four arguments share one invariant.  A signal that a cleanup swallowed  *)
(* leaves an attempt that is not clean, so the gate ends the campaign      *)
(* (SignalInv).  What docker holds belongs to an invocation that returned  *)
(* no clean status (DockerInv), which is what the certificate asks about.  *)
(* What the teardown has passed and left standing is among the failed      *)
(* flags or was never handed over (RemovedInv).  And the stop reason, the  *)
(* error, the cutoff and the summary agree (ReasonInv, SummaryInv), which  *)
(* is what the validator compares.                                         *)
(***************************************************************************)
EXTENDS Harbor, FiniteSetTheorems, SequenceTheorems, TLAPS

-----------------------------------------------------------------------------
(* The invariant.                                                          *)

Loop  == {"trial", "overlay", "argv", "snapshot", "run", "inspect", "clean", "image",
          "load", "gate"}
Ending == {"teardown", "outcome", "envelope"}
After == {"summary", "done"} \cup Ending

\* What the teardown has left after k of its steps, and how many it has taken.
Rest(k) == [i \in 1 .. Len(Teardown) - k |-> Teardown[k + i]]
Taken == Len(Teardown) - Len(todo)

Invocation == [exit : {"zero", "nonzero", "timeout"}, clean : BOOLEAN,
               admitted : BOOLEAN, short : BOOLEAN,
               raising : {"none", "interrupted", "other"}, known : BOOLEAN]
Summary == [n : Int, done : Nat, cutoff : BOOLEAN]

TypeInv ==
    /\ TypeOK
    /\ cur \in Invocation /\ summary \in Summary
    /\ Taken \in 0 .. Len(Teardown) /\ todo = Rest(Taken)

\* How many trials were begun, returned and recorded, by the owner's place.
CountInv ==
    /\ Len(statuses) = Len(attempts) + (IF pc = "load" THEN 1 ELSE 0)
    /\ pc \in {"idle", "stage"} => invocations = 0
    /\ pc \in {"trial", "overlay", "argv"} => invocations = Len(attempts) /\ invocations < NTrials
    /\ pc \in {"snapshot", "run", "inspect", "clean", "image", "load"} =>
           invocations = Len(attempts) + 1
    /\ pc = "gate" => invocations = Len(attempts) /\ attempts # <<>>
    /\ Len(statuses) <= invocations

\* How far the stages and the teardown are.
PlaceInv ==
    /\ pc \in {"idle", "stage"} => stage < Len(Stages)
    /\ pc \in Loop => stage = Len(Stages)
    /\ attempts # <<>> => stage = Len(Stages)
    /\ pc \notin After \/ pc = "summary" => todo = Teardown
    /\ pc = "teardown" => Taken < Len(Teardown)
    /\ pc \in {"outcome", "envelope"} => Taken = Len(Teardown)
    /\ pc = "envelope" => ~lock
    /\ TeardownComplete

\* Where the owner may be once it was told to stop.
SignalInv ==
    /\ sig = "ignored" =>
         \/ pc \in After
         \/ pc \in {"inspect", "clean", "image"} /\ cur.raising # "none"
         \/ pc \in {"image", "load"} /\ ~cur.clean
         \/ pc = "gate" /\ ~attempts[Len(attempts)].clean
    /\ error = "interrupted" \/ cur.raising = "interrupted" => sig = "ignored"
    /\ pc \in {"overlay", "argv", "snapshot", "run", "inspect", "clean"} => ~cur.clean
    /\ pc \in {"overlay", "argv", "snapshot", "run", "load"} => cur.raising = "none"

\* What docker holds is of a trial that was begun and returned no clean status.
DockerInv ==
    /\ \A d \in docker : /\ d[1] <= invocations
                         /\ d[1] <= Len(statuses) => ~statuses[d[1]]
    /\ pc \in {"inspect", "clean", "image"} /\ cur.raising = "none" =>
           <<T, "group">> \notin docker
    /\ pc = "image" /\ cur.clean => <<T, "compose">> \notin docker
    /\ pc \in Ending /\ "harbor" \notin failed => docker = {}

\* Whatever passed the gate was clean and admitted, and the cache empty.
GateInv ==
    /\ pc \in Loop => \A i \in 1 .. Len(attempts) :
           i < Len(attempts) \/ pc # "gate" => attempts[i].clean /\ attempts[i].admitted
    /\ pc \in {"idle", "stage", "trial", "overlay", "argv", "snapshot", "run", "gate"} => ~dirty

\* The stop reason, the error and the cutoff.
ReasonInv ==
    /\ pc \notin After =>
         /\ error = "none" /\ ~cutoff /\ failed = {}
         /\ reason \notin {"completed", "hard_cutoff", "cleanup_failure"}
    /\ pc = "summary" => failed = {}
    /\ reason = "cleanup_failure" => pc \in {"envelope", "done"} /\ failed # {}
    /\ reason = "hard_cutoff" => cutoff
    /\ cutoff /\ error = "none" => reason \in {"hard_cutoff", "cleanup_failure"}
    /\ pc = "envelope" /\ reason = "completed" => failed = {}
    /\ reason = "completed" =>
         /\ error = "none" /\ Len(attempts) = NTrials /\ ~dirty
         /\ \A i \in 1 .. Len(attempts) : attempts[i].clean /\ attempts[i].admitted
         /\ pc # "done" /\ failed = {} => sig = "armed"

\* The summary counts what was recorded when it was made.
Counted ==
    summary # NoSummary =>
        /\ summary.n \in 0 .. Len(attempts)
        /\ summary.done = Cardinality({i \in 1 .. summary.n : Available(attempts[i])})
SummaryInv ==
    /\ Counted
    /\ summary # NoSummary /\ pc \notin Ending \cup {"done"} => stage = Len(Stages)
    /\ summary.cutoff => cutoff /\ pc \in After
    /\ pc \in Ending /\ summary # NoSummary /\ error = "none" => summary.cutoff = cutoff

\* What the teardown has passed is gone, reported, or was never handed over.
RemovedInv ==
    /\ \A i \in 1 .. Taken : Teardown[i] \in exists =>
           Teardown[i] \in failed \/ Teardown[i] \in Handles \ handles
    /\ "telemetry" \in exists => "telemetry" \in handles

OutInv ==
    /\ out.state # "none" => pc = "done"
    /\ EnvelopeTruthful

IInv == /\ TypeInv /\ CountInv /\ PlaceInv /\ SignalInv /\ DockerInv
        /\ GateInv /\ ReasonInv /\ SummaryInv /\ RemovedInv /\ OutInv
-----------------------------------------------------------------------------
(* The stages, the teardown and the summary as data.                       *)

StageSet == [reason : {"artifact_admission", "dataset_admission", "npm_admission",
                       "runtime_admission", "platform_admission", "preflight",
                       "model_start", "model_admission", "bridge_start",
                       "bridge_admission"},
             acquires : SUBSET Resources, leaves : SUBSET Resources]

LEMMA StageFacts ==
    /\ Len(Stages) = 13
    /\ \A i \in 1 .. 13 :
         /\ Stages[i].acquires \subseteq Resources /\ Stages[i].leaves \subseteq Resources
         /\ Stages[i].reason \notin {"completed", "hard_cutoff", "cleanup_failure"}
<1>1. Len(Stages) = 13
  BY DEF Stages
<1>2. /\ validate_llamacpp_artifacts \in StageSet
      /\ derive_private_task_dataset \in StageSet
      /\ acquire_npm_artifacts \in StageSet
      /\ verify_harbor_runtime \in StageSet
  BY DEF StageSet, Resources, Stage, Admission, Acquisition,
         validate_llamacpp_artifacts, derive_private_task_dataset, acquire_npm_artifacts, verify_harbor_runtime
<1>3. /\ _stage_runtime_assets \in StageSet
      /\ stage_head_agent_source \in StageSet
      /\ admit_native_platform \in StageSet
      /\ create_ephemeral_key \in StageSet
  BY DEF StageSet, Resources, Stage, Admission, Acquisition,
         _stage_runtime_assets, stage_head_agent_source, admit_native_platform, create_ephemeral_key
<1>4. /\ StartTelemetry \in StageSet
      /\ start_llamacpp \in StageSet
      /\ run_model_admission \in StageSet
  BY DEF StageSet, Resources, Stage, Admission, Acquisition,
         StartTelemetry, start_llamacpp, run_model_admission
<1>5. /\ _start_unix_bridge \in StageSet
      /\ admit_unix_bridge \in StageSet
  BY DEF StageSet, Resources, Stage, Admission, Acquisition,
         _start_unix_bridge, admit_unix_bridge
<1>6. ASSUME NEW i \in 1 .. 13 PROVE Stages[i] \in StageSet
  BY <1>2, <1>3, <1>4, <1>5 DEF Stages
<1> QED BY <1>1, <1>6 DEF StageSet

\* The trials begin with everything admitted.
LEMMA AllAdmitted == stage = Len(Stages) => Admitted
<1>1. Stages[2] = derive_private_task_dataset /\ Stages[3] = acquire_npm_artifacts
  BY DEF Stages
<1> QED BY <1>1, StageFacts DEF Admitted, Passed

LEMMA TeardownFacts ==
    /\ Len(Teardown) = 12 /\ Teardown \in Seq(Flags \cup {"cache"})
    /\ \A i \in 1 .. 12 : Teardown[i] \in Flags \cup {"cache"}
    /\ \A r \in Resources : \E i \in 1 .. 12 : Teardown[i] = r
<1>1. Len(Teardown) = 12
  BY DEF Teardown
<1>2. \A i \in 1 .. 12 : Teardown[i] \in Flags \cup {"cache"}
  BY DEF Teardown, Flags, Resources
<1>3. /\ Teardown[1] = "bridge" /\ Teardown[2] = "server" /\ Teardown[3] = "telemetry"
      /\ Teardown[4] = "key" /\ Teardown[5] = "dataset" /\ Teardown[6] = "overlays"
      /\ Teardown[7] = "assets" /\ Teardown[8] = "sockets" /\ Teardown[9] = "npm"
      /\ Teardown[11] = "source"
  BY DEF Teardown
<1>4. \A r \in Resources : \E i \in 1 .. 12 : Teardown[i] = r
  <2> HIDE DEF Teardown
  <2> QED BY <1>3 DEF Resources
<1>5. Teardown \in Seq(Flags \cup {"cache"})
  BY <1>2 DEF Teardown
<1> QED BY <1>1, <1>2, <1>4, <1>5

\* A step of the teardown takes the first of what is left.
LEMMA RestFacts ==
    /\ Rest(0) = Teardown
    /\ \A k \in 0 .. 12 : Rest(k) \in Seq(Flags \cup {"cache"}) /\ Len(Rest(k)) = 12 - k
    /\ \A k \in 0 .. 11 : /\ Head(Rest(k)) = Teardown[k + 1]
                          /\ Tail(Rest(k)) = Rest(k + 1)
<1>1. /\ Len(Teardown) = 12 /\ Teardown \in Seq(Flags \cup {"cache"})
      /\ \A i \in 1 .. 12 : Teardown[i] \in Flags \cup {"cache"}
  <2>1. Len(Teardown) = 12 /\ Teardown \in Seq(Flags \cup {"cache"})
    BY TeardownFacts
  <2> QED BY <2>1, ElementOfSeq
<1>2. ASSUME NEW k \in 0 .. 12 PROVE Rest(k) \in Seq(Flags \cup {"cache"}) /\ Len(Rest(k)) = 12 - k
  <2>1. Rest(k) = [i \in 1 .. 12 - k |-> Teardown[k + i]]
    BY <1>1 DEF Rest
  <2>2. \A i \in 1 .. 12 - k : Teardown[k + i] \in Flags \cup {"cache"}
    BY <1>1
  <2> QED BY <2>1, <2>2
<1>3. Rest(0) = Teardown
  <2>1. Teardown = [i \in 1 .. 12 |-> Teardown[i]]
    BY <1>1
  <2> QED BY <1>1, <2>1 DEF Rest
<1>4. ASSUME NEW k \in 0 .. 11
      PROVE  Head(Rest(k)) = Teardown[k + 1] /\ Tail(Rest(k)) = Rest(k + 1)
  <2>1. /\ Rest(k) = [i \in 1 .. 12 - k |-> Teardown[k + i]]
        /\ Rest(k + 1) = [i \in 1 .. 12 - (k + 1) |-> Teardown[(k + 1) + i]]
    BY <1>1 DEF Rest
  <2>2. /\ k \in 0 .. 12 /\ Rest(k) \in Seq(Flags \cup {"cache"}) /\ Len(Rest(k)) = 12 - k
        /\ k + 1 \in 0 .. 12 /\ Rest(k + 1) \in Seq(Flags \cup {"cache"}) /\ Len(Rest(k + 1)) = 12 - (k + 1)
    <3>1. k \in 0 .. 12 /\ k + 1 \in 0 .. 12
      OBVIOUS
    <3> QED BY <1>2, <3>1
  <2>3. Head(Rest(k)) = Teardown[k + 1]
    BY <2>1, <2>2
  <2>4. /\ Tail(Rest(k)) \in Seq(Flags \cup {"cache"}) /\ Len(Tail(Rest(k))) = 12 - (k + 1)
        /\ \A i \in 1 .. 12 - (k + 1) : Tail(Rest(k))[i] = Rest(k)[i + 1]
    <3>1. Rest(k) # <<>>
      BY <2>2
    <3> HIDE DEF Rest
    <3> QED BY <2>2, <3>1, HeadTailProperties
  <2>5. ASSUME NEW i \in 1 .. 12 - (k + 1) PROVE Rest(k)[i + 1] = Rest(k + 1)[i]
    <3>1. i + 1 \in 1 .. 12 - k /\ k + (i + 1) = (k + 1) + i
      OBVIOUS
    <3>2. /\ Rest(k)[i + 1] = Teardown[k + (i + 1)]
          /\ Rest(k + 1)[i] = Teardown[(k + 1) + i]
      BY <2>1, <3>1
    <3> QED BY <3>1, <3>2
  <2>6. Tail(Rest(k)) = Rest(k + 1)
    <3> HIDE DEF Rest
    <3> QED BY <2>2, <2>4, <2>5, SeqEqual
  <2> QED BY <2>3, <2>6
<1> QED BY <1>2, <1>3, <1>4

-----------------------------------------------------------------------------
(* What a step is.                                                         *)

SignalRaised == sig = "armed" /\ sig' = "ignored"

LEMMA Steps ==
    ASSUME [Next]_vars
    PROVE  \/ run_campaign \/ StagePasses \/ StageFails \/ TrialBegins
           \/ prepare_runtime_overlay \/ build_harbor_invocation \/ Snapshot
           \/ ProcessTimesOut \/ ProcessEnds \/ Inspect \/ cleanup_harbor_containers
           \/ _remove_built_image \/ LoadResult \/ Gate \/ Finally \/ Removes
           \/ ChecksCache \/ Outcome \/ WriteEnvelope
           \/ (SignalRaised /\ InterruptStage) \/ (SignalRaised /\ InterruptTrial)
           \/ (SignalRaised /\ InterruptTeardown)
           \/ BridgeDies \/ Tick \/ UNCHANGED vars
<1>1. CASE Owner
  BY <1>1 DEF Owner
<1>2. CASE Interrupt
  BY <1>2 DEF Interrupt, Ignored, SignalRaised
<1> QED BY <1>1, <1>2 DEF Next

\* The types, one by one.
LEMMA Types ==
    ASSUME TypeInv
    PROVE  /\ cutoff \in BOOLEAN /\ late \in BOOLEAN /\ dirty \in BOOLEAN
           /\ cacheOk \in BOOLEAN /\ bridgeUp \in BOOLEAN /\ lock \in BOOLEAN
           /\ statuses \in Seq(BOOLEAN) /\ attempts \in Seq(Attempt)
           /\ Len(statuses) \in Nat /\ Len(attempts) \in Nat /\ Len(todo) \in Nat
           /\ invocations \in Nat /\ NTrials \in Nat /\ stage \in 0 .. 13
           /\ Taken \in 0 .. 12 /\ Len(todo) = 12 - Taken
           /\ cur.clean \in BOOLEAN /\ cur.admitted \in BOOLEAN /\ cur.short \in BOOLEAN
           /\ cur.known \in BOOLEAN /\ cur.exit \in {"zero", "nonzero", "timeout"}
           /\ cur.raising \in {"none", "interrupted", "other"}
           /\ summary.n \in Int /\ summary.done \in Nat /\ summary.cutoff \in BOOLEAN
<1>1. Len(Teardown) = 12 /\ Len(Stages) = 13
  BY TeardownFacts, StageFacts
<1>2. Taken \in 0 .. 12 /\ Len(todo) = 12 - Taken
  <2>1. Taken \in 0 .. 12 /\ todo = Rest(Taken)
    BY <1>1 DEF TypeInv
  <2> QED BY <2>1, RestFacts
<1>3. {cutoff, late, dirty, cacheOk, bridgeUp} \subseteq BOOLEAN
  BY DEF TypeInv, TypeOK
<1>4. /\ cutoff \in BOOLEAN /\ late \in BOOLEAN /\ dirty \in BOOLEAN
      /\ cacheOk \in BOOLEAN /\ bridgeUp \in BOOLEAN
  BY <1>3
<1>5. statuses \in Seq(BOOLEAN) /\ attempts \in Seq(Attempt)
  BY DEF TypeInv, TypeOK
<1>6. Len(statuses) \in Nat /\ Len(attempts) \in Nat
  BY <1>5
<1>7. /\ cur.clean \in BOOLEAN /\ cur.admitted \in BOOLEAN /\ cur.short \in BOOLEAN
      /\ cur.known \in BOOLEAN /\ cur.exit \in {"zero", "nonzero", "timeout"}
      /\ cur.raising \in {"none", "interrupted", "other"}
  BY DEF TypeInv, Invocation
<1>8. summary.n \in Int /\ summary.done \in Nat /\ summary.cutoff \in BOOLEAN
  BY DEF TypeInv, Summary
<1>9. /\ lock \in BOOLEAN /\ invocations \in Nat /\ NTrials \in Nat /\ stage \in 0 .. 13
  BY <1>1, HarborAssumption DEF TypeInv, TypeOK
<1> QED BY <1>2, <1>4, <1>5, <1>6, <1>7, <1>8, <1>9

-----------------------------------------------------------------------------
(* The types are kept.                                                     *)

\* Everything but the sequences, the invocation, the summary and the teardown.
Scalars ==
    /\ pc \in {"idle", "summary", "done", "stage"} \cup Loop \cup Ending
    /\ lock \in BOOLEAN /\ sig \in {"armed", "ignored"} /\ stage \in 0 .. 13
    /\ exists \subseteq Resources /\ handles \subseteq Handles
    /\ docker \subseteq Trials \X Parts /\ invocations \in 0 .. NTrials
    /\ cutoff \in BOOLEAN /\ late \in BOOLEAN /\ dirty \in BOOLEAN
    /\ cacheOk \in BOOLEAN /\ bridgeUp \in BOOLEAN
    /\ error \in {"none", "interrupted", "other"}
    /\ left \in {"plenty", "short", "over"} /\ faults \in 0 .. MaxFaults

LEMMA ScalarsKept ==
    ASSUME TypeInv, CountInv, PlaceInv, [Next]_vars
    PROVE  Scalars'
<1> USE DEF Scalars, Loop, Ending, owner, env, InTry, InvocationOnly, Leave, NoFault,
            Fault, Advance, Secondary
<1>a. Scalars
  BY Types, StageFacts, HarborAssumption DEF TypeInv, TypeOK
<1>b. /\ MaxFaults \in Nat /\ NTrials \in Nat /\ Len(attempts) \in Nat
      /\ invocations \in Nat /\ cur.short \in BOOLEAN
      /\ cur.raising \in {"none", "interrupted", "other"}
  BY Types, HarborAssumption
<1>1. CASE run_campaign
  BY <1>1, <1>a, <1>b DEF run_campaign, Resources
<1>2. CASE StagePasses
  <2> DEFINE got == Stages[stage + 1].acquires
  <2>1. stage \in 0 .. 12 /\ stage + 1 \in 1 .. 13 /\ stage + 1 \in 0 .. 13
    BY <1>2, <1>a, StageFacts DEF StagePasses, PlaceInv
  <2>2. got \subseteq Resources
    BY <2>1, StageFacts
  <2>3. /\ exists' = exists \cup got /\ handles' = handles \cup (got \cap Handles)
        /\ bridgeUp' = (bridgeUp \/ "bridge" \in got)
        /\ cacheOk' = (cacheOk \/ "source" \in got) /\ stage' = stage + 1
    BY <1>2 DEF StagePasses
  <2>4. /\ UNCHANGED <<lock, docker, invocations, error, cutoff, late, sig, dirty, left, faults>>
        /\ pc' \in {"trial", "stage"}
    BY <1>2 DEF StagePasses
  <2> HIDE DEF got
  <2>5. bridgeUp' \in BOOLEAN /\ cacheOk' \in BOOLEAN
    BY <2>3
  <2>6. exists' \subseteq Resources /\ handles' \subseteq Handles
    BY <1>a, <2>2, <2>3
  <2> QED BY <1>a, <2>1, <2>3, <2>4, <2>5, <2>6
<1>3. CASE StageFails
  <2> DEFINE rest == Stages[stage + 1].leaves
  <2>1. stage \in 0 .. 12 /\ stage + 1 \in 1 .. 13
    BY <1>3, <1>a, StageFacts DEF StageFails, PlaceInv
  <2>2. rest \subseteq Resources
    BY <2>1, StageFacts
  <2>3. /\ exists' \in {exists, exists \cup rest}
        /\ handles' = handles \cup (rest \cap {"telemetry"})
        /\ UNCHANGED <<lock, stage, docker, invocations, cutoff, late, cacheOk, dirty, bridgeUp,
                       left, sig>>
        /\ pc' = "summary" /\ error' = "other" /\ faults' \in 0 .. MaxFaults
    BY <1>3, <1>a, <1>b DEF StageFails, StageAborts
  <2> HIDE DEF rest
  <2>4. exists' \subseteq Resources /\ handles' \subseteq Handles
    BY <1>a, <2>2, <2>3 DEF Handles
  <2> QED BY <1>a, <2>3, <2>4
<1>4. CASE TrialBegins
  BY <1>4, <1>a, <1>b, ZenonT(60) DEF TrialBegins
<1>5. CASE prepare_runtime_overlay \/ build_harbor_invocation
  <2>1. /\ UNCHANGED <<lock, stage, exists, handles, docker, cutoff, late, cacheOk, env>>
        /\ pc' \in {"argv", "snapshot", "summary"} /\ error' \in {error, "other"}
    BY <1>5 DEF prepare_runtime_overlay, build_harbor_invocation
  <2>2. faults' = faults \/ (faults < MaxFaults /\ faults' = faults + 1)
    BY <1>5 DEF prepare_runtime_overlay, build_harbor_invocation
  <2>3. invocations' = invocations \/ (invocations < NTrials /\ invocations' = invocations + 1)
    BY <1>5 DEF prepare_runtime_overlay, build_harbor_invocation, CountInv
  <2> QED BY <1>a, <1>b, <2>1, <2>2, <2>3
<1>6. CASE Snapshot
  BY <1>6, <1>a, <1>b DEF Snapshot, T, CountInv, Trials
<1>7. CASE ProcessTimesOut
  BY <1>7, <1>a, <1>b DEF ProcessTimesOut
<1>8. CASE ProcessEnds
  <2>1. dirty' \in BOOLEAN
    BY <1>8, <1>a DEF ProcessEnds
  <2>2. /\ UNCHANGED <<lock, sig, stage, exists, handles, invocations, cutoff, late, cacheOk,
                       bridgeUp, error, left>>
        /\ pc' = "inspect" /\ docker' \subseteq docker
        /\ faults' = faults \/ (faults < MaxFaults /\ faults' = faults + 1)
    BY <1>8 DEF ProcessEnds
  <2> QED BY <1>a, <1>b, <2>1, <2>2
<1>9. CASE Inspect \/ cleanup_harbor_containers
  BY <1>9, <1>a, <1>b DEF Inspect, cleanup_harbor_containers
<1>10. CASE _remove_built_image
  BY <1>10, <1>a, <1>b DEF _remove_built_image
<1>11. CASE LoadResult
  <2>1. /\ UNCHANGED <<lock, sig, stage, exists, handles, docker, invocations, cutoff, late,
                       dirty, cacheOk, bridgeUp, left>>
        /\ (pc' = "gate" /\ error' = error) \/ (pc' = "summary" /\ error' = "other")
    BY <1>11 DEF LoadResult
  <2>2. faults' = faults \/ (faults < MaxFaults /\ faults' = faults + 1)
    BY <1>11 DEF LoadResult
  <2> QED BY <1>a, <1>b, <2>1, <2>2
<1>12. CASE Gate
  <2>1. /\ UNCHANGED <<lock, sig, stage, exists, handles, docker, invocations, late,
                       dirty, cacheOk, bridgeUp, left>>
        /\ pc' \in {"summary", "trial"} /\ error' \in {error, "none", "other"}
    BY <1>12 DEF Gate
  <2>2. faults' = faults \/ (faults < MaxFaults /\ faults' = faults + 1)
    BY <1>12 DEF Gate
  <2>3. cutoff' \in BOOLEAN
    BY <1>12, <1>a DEF Gate
  <2> QED BY <1>a, <1>b, <2>1, <2>2, <2>3
<1>13. CASE Finally
  <2>1. /\ UNCHANGED <<lock, sig, stage, exists, handles, docker, invocations, cutoff, late,
                       dirty, cacheOk, bridgeUp, left>>
        /\ pc' = "teardown" /\ error' \in {error, "other"}
    BY <1>13 DEF Finally, LastSummary
  <2>2. faults' = faults \/ (faults < MaxFaults /\ faults' = faults + 1)
    BY <1>13 DEF Finally
  <2> QED BY <1>a, <1>b, <2>1, <2>2
<1>14. CASE Removes
  BY <1>14, <1>a, <1>b DEF Removes
<1>15. CASE ChecksCache
  <2>1. cacheOk' \in BOOLEAN
    BY <1>15, <1>a DEF ChecksCache
  <2>2. /\ UNCHANGED <<lock, exists, docker, stage, handles, invocations, cutoff, late, env>>
        /\ pc' \in {"outcome", "teardown"} /\ error' \in {error, "other"}
        /\ faults' = faults \/ (faults < MaxFaults /\ faults' = faults + 1)
    BY <1>15 DEF ChecksCache
  <2> QED BY <1>a, <1>b, <2>1, <2>2
<1>16. CASE Outcome
  BY <1>16, <1>a, <1>b DEF Outcome
<1>17. CASE WriteEnvelope
  <2>1. /\ UNCHANGED <<lock, exists, docker, owner, env>> /\ pc' = "done"
        /\ faults' = faults \/ (faults < MaxFaults /\ faults' = faults + 1)
    BY <1>17 DEF WriteEnvelope
  <2> QED BY <1>a, <1>b, <2>1
<1>18. CASE SignalRaised /\ InterruptStage
  <2> DEFINE rest == Stages[stage + 1].leaves
  <2>1. stage \in 0 .. 12 /\ stage + 1 \in 1 .. 13
    BY <1>18, <1>a, StageFacts DEF InterruptStage, PlaceInv
  <2>2. rest \subseteq Resources
    BY <2>1, StageFacts
  <2>3. /\ exists' \in {exists, exists \cup rest}
        /\ handles' = handles \cup (rest \cap {"telemetry"})
        /\ UNCHANGED <<lock, stage, docker, invocations, cutoff, late, cacheOk, dirty, bridgeUp,
                       left, faults>>
        /\ pc' = "summary" /\ error' = "interrupted" /\ sig' = "ignored"
    BY <1>18 DEF InterruptStage, StageAborts, SignalRaised
  <2> HIDE DEF rest
  <2>4. exists' \subseteq Resources /\ handles' \subseteq Handles
    BY <1>a, <2>2, <2>3 DEF Handles
  <2> QED BY <1>a, <2>3, <2>4
<1>19. CASE SignalRaised /\ InterruptTrial
  <2>1. /\ UNCHANGED <<lock, stage, exists, handles, invocations, cutoff, late, dirty, cacheOk,
                       bridgeUp, left, faults>>
        /\ pc' \in {"summary", "inspect", "image"} /\ sig' = "ignored"
        /\ docker' \subseteq docker /\ error' \in {error, "interrupted"}
    BY <1>19 DEF InterruptTrial, SignalRaised
  <2> QED BY <1>a, <2>1
<1>20. CASE SignalRaised /\ InterruptTeardown
  BY <1>20, <1>a, <1>b, ZenonT(60) DEF InterruptTeardown, LastSummary, SignalRaised
<1>21. CASE BridgeDies
  <2>1. bridgeUp' \in BOOLEAN
    BY <1>21 DEF BridgeDies
  <2>2. /\ UNCHANGED <<pc, lock, exists, docker, owner, sig, dirty, left>>
        /\ faults < MaxFaults /\ faults' = faults + 1
    BY <1>21 DEF BridgeDies
  <2> QED BY <1>a, <1>b, <2>1, <2>2
<1>22. CASE Tick
  BY <1>22, <1>a, <1>b DEF Tick
<1>23. CASE UNCHANGED vars
  BY <1>23, <1>a, <1>b DEF vars
<1> QED
  BY <1>1, <1>2, <1>3, <1>4, <1>5, <1>6, <1>7, <1>8, <1>9, <1>10, <1>11, <1>12, <1>13,
     <1>14, <1>15, <1>16, <1>17, <1>18, <1>19, <1>20, <1>21, <1>22, <1>23, Steps

\* What is recorded of a trial, and what a summary counts.
LEMMA AttemptType ==
    ASSUME TypeInv, NEW r \in BOOLEAN, NEW c \in Classes, NEW m \in BOOLEAN
    PROVE  NewAttempt(r, c, m) \in Attempt
  BY Types DEF NewAttempt, Attempt

LEMMA Counts ==
    ASSUME TypeInv, NEW n \in 0 .. Len(attempts)
    PROVE  /\ IsFiniteSet({i \in 1 .. n : Available(attempts[i])})
           /\ Cardinality({i \in 1 .. n : Available(attempts[i])}) \in Nat
           /\ Cardinality({i \in 1 .. n : Available(attempts[i])}) = n =>
                \A i \in 1 .. n : Available(attempts[i])
<1> DEFINE A == {i \in 1 .. n : Available(attempts[i])}
<1>1. n \in Nat /\ 1 \in Int /\ n \in Int
  BY Types
<1>2. IsFiniteSet(1 .. n) /\ Cardinality(1 .. n) = n
  BY <1>1, FS_Interval
<1>3. A \in SUBSET (1 .. n)
  OBVIOUS
<1>4. IsFiniteSet(A) /\ (Cardinality(1 .. n) = Cardinality(A) => 1 .. n = A)
  BY <1>2, <1>3, FS_Subset
<1>5. Cardinality(A) \in Nat
  BY <1>4, FS_CardinalityType
<1>6. ASSUME Cardinality(A) = n PROVE \A i \in 1 .. n : Available(attempts[i])
  <2>1. 1 .. n = A
    BY <1>2, <1>4, <1>6
  <2> QED BY <2>1
<1> QED BY <1>4, <1>5, <1>6

LEMMA SummaryType ==
    ASSUME TypeInv, NEW c \in BOOLEAN
    PROVE  /\ Summarize(c) \in Summary
           /\ Summarize(c).n = Len(attempts) /\ Summarize(c).cutoff = c
           /\ Summarize(c).done =
                Cardinality({i \in 1 .. Len(attempts) : Available(attempts[i])})
<1>1. /\ Len(attempts) \in Nat /\ Len(attempts) \in 0 .. Len(attempts)
      /\ DOMAIN attempts = 1 .. Len(attempts)
  BY Types
<1>2. Cardinality({i \in 1 .. Len(attempts) : Available(attempts[i])}) \in Nat
  BY <1>1, Counts
<1> DEFINE k == Cardinality({i \in 1 .. Len(attempts) : Available(attempts[i])})
<1>3. Summarize(c) = [n |-> Len(attempts), cutoff |-> c, done |-> k]
  BY <1>1 DEF Summarize
<1> HIDE DEF k
<1>4. k \in Nat
  BY <1>2 DEF k
<1>5. Summarize(c).done = k /\ Summarize(c) \in Summary /\ Summarize(c).n = Len(attempts)
      /\ Summarize(c).cutoff = c
  BY <1>1, <1>3, <1>4 DEF Summary
<1> QED BY <1>5 DEF k

\* The sequences, the invocation and the summary.
Values == /\ statuses \in Seq(BOOLEAN) /\ attempts \in Seq(Attempt)
          /\ cur \in Invocation /\ summary \in Summary

LEMMA ValuesKept ==
    ASSUME TypeInv, [Next]_vars
    PROVE  Values'
<1> USE DEF Values, owner, env, InTry, InvocationOnly, Leave, NoFault, Fault, Advance,
            Secondary
<1>a. Values
  BY DEF TypeInv, TypeOK
<1>b. /\ cutoff \in BOOLEAN /\ cur.short \in BOOLEAN /\ cur.clean \in BOOLEAN
      /\ NoCur \in Invocation
  BY Types DEF NoCur, Invocation
<1>c. "other" \in Classes /\ TRUE \in BOOLEAN /\ FALSE \in BOOLEAN
  BY DEF Classes
<1>1. CASE run_campaign \/ StagePasses
  BY <1>1, <1>a DEF run_campaign, StagePasses
<1>2. CASE StageFails \/ (SignalRaised /\ InterruptStage)
  BY <1>2, <1>a DEF StageFails, StageAborts, InterruptStage, SignalRaised
<1>3. CASE TrialBegins
  <2>1. cur' \in {cur} \cup {[NoCur EXCEPT !.short = b] : b \in BOOLEAN}
    BY <1>3 DEF TrialBegins
  <2>2. cur' \in Invocation
    BY <1>a, <2>1 DEF NoCur, Invocation
  <2> QED BY <1>3, <1>a, <2>2 DEF TrialBegins
<1>4. CASE prepare_runtime_overlay \/ build_harbor_invocation \/ Snapshot
  BY <1>4, <1>a DEF prepare_runtime_overlay, build_harbor_invocation, Snapshot
<1>5. CASE ProcessTimesOut
  BY <1>5, <1>a DEF ProcessTimesOut, Invocation
<1>6. CASE ProcessEnds
  BY <1>6, <1>a DEF ProcessEnds, Invocation
<1>7. CASE Inspect
  BY <1>7, <1>a DEF Inspect, Invocation
<1>8. CASE cleanup_harbor_containers
  BY <1>8, <1>a DEF cleanup_harbor_containers, Invocation
<1>9. CASE _remove_built_image
  <2>1. PICK ok \in BOOLEAN :
          /\ cur' = [cur EXCEPT !.clean = cur.clean /\ ok]
          /\ statuses' \in {statuses, Append(statuses, cur.clean /\ ok)}
    BY <1>9 DEF _remove_built_image
  <2>2. (cur.clean /\ ok) \in BOOLEAN
    BY <1>b
  <2>3. cur' \in Invocation /\ statuses' \in Seq(BOOLEAN)
    <3> DEFINE x == cur.clean /\ ok
    <3>1. x \in BOOLEAN /\ cur' = [cur EXCEPT !.clean = x]
          /\ statuses' \in {statuses, Append(statuses, x)}
      BY <2>1, <2>2
    <3> HIDE DEF x
    <3> QED BY <1>a, <3>1, SMTT(30) DEF Invocation
  <2> QED BY <1>9, <1>a, <2>3 DEF _remove_built_image
<1>10. CASE LoadResult
  <2>1. cur' = [NoCur EXCEPT !.short = cur.short] /\ UNCHANGED <<statuses, summary>>
    BY <1>10 DEF LoadResult
  <2>2. cur' \in Invocation
    BY <1>b, <2>1 DEF NoCur, Invocation
  <2>3. \E r \in BOOLEAN, c \in Classes, m \in BOOLEAN :
            attempts' = Append(attempts, NewAttempt(r, c, m))
    BY <1>10, <1>c DEF LoadResult
  <2>4. PICK a \in Attempt : attempts' = Append(attempts, a)
    BY <2>3, AttemptType
  <2> QED BY <1>a, <2>1, <2>2, <2>4
<1>11. CASE Gate
  <2>1. summary' = summary \/ summary' = Summarize(FALSE)
    BY <1>11 DEF Gate
  <2>2. summary' \in Summary
    BY <1>a, <1>c, <2>1, SummaryType
  <2> QED BY <1>11, <1>a, <2>2 DEF Gate
<1>12. CASE Finally
  <2>1. summary' = summary \/ summary' = Summarize(cutoff)
    BY <1>12 DEF Finally, LastSummary
  <2>2. summary' \in Summary
    BY <1>a, <1>b, <2>1, SummaryType
  <2> QED BY <1>12, <1>a, <2>2 DEF Finally, LastSummary
<1>13. CASE Removes \/ ChecksCache
  BY <1>13, <1>a DEF Removes, ChecksCache
<1>14. CASE Outcome \/ WriteEnvelope
  BY <1>14, <1>a DEF Outcome, WriteEnvelope
<1>15. CASE SignalRaised /\ InterruptTrial
  <2>1. /\ cur' \in {cur, [cur EXCEPT !.raising = "interrupted"]}
        /\ attempts' \in {attempts, Append(attempts, NewAttempt(FALSE, "other", TRUE))}
        /\ UNCHANGED <<statuses, summary>>
    BY <1>15 DEF InterruptTrial
  <2>2. NewAttempt(FALSE, "other", TRUE) \in Attempt
    BY <1>c, AttemptType
  <2>3. attempts' \in Seq(Attempt)
    <3> DEFINE a == NewAttempt(FALSE, "other", TRUE)
    <3>1. a \in Attempt /\ (attempts' = attempts \/ attempts' = Append(attempts, a))
      BY <2>1, <2>2
    <3> HIDE DEF a
    <3> QED BY <1>a, <3>1
  <2>4. cur' \in Invocation
    BY <1>a, <2>1 DEF Invocation
  <2> QED BY <1>a, <2>1, <2>3, <2>4
<1>16. CASE SignalRaised /\ InterruptTeardown
  <2>1. summary' = summary
    BY <1>16 DEF InterruptTeardown, LastSummary
  <2> QED BY <1>16, <1>a, <2>1 DEF InterruptTeardown, LastSummary
<1>17. CASE BridgeDies \/ Tick
  BY <1>17, <1>a DEF BridgeDies, Tick
<1>18. CASE UNCHANGED vars
  BY <1>18, <1>a DEF vars
<1> QED
  BY <1>1, <1>2, <1>3, <1>4, <1>5, <1>6, <1>7, <1>8, <1>9, <1>10, <1>11, <1>12, <1>13,
     <1>14, <1>15, <1>16, <1>17, <1>18, Steps

\* A step of the teardown, and what is left of it.
LEMMA TodoKept ==
    ASSUME TypeInv, PlaceInv, [Next]_vars
    PROVE  /\ Taken' \in 0 .. 12 /\ todo' = Rest(Taken')
           /\ \/ todo' = todo /\ Taken' = Taken
              \/ /\ pc = "teardown" /\ Taken \in 0 .. 11 /\ Taken' = Taken + 1
                 /\ Head(todo) = Teardown[Taken + 1]
                 /\ pc' = IF Taken' = 12 THEN "outcome" ELSE "teardown"
<1>1. Taken \in 0 .. 12 /\ todo = Rest(Taken) /\ Len(Teardown) = 12
  BY TeardownFacts DEF TypeInv
<1>2. CASE todo' = todo
  BY <1>1, <1>2 DEF Taken
<1>3. CASE pc = "teardown" /\ Advance
  <2>1. Taken \in 0 .. 11
    BY <1>1, <1>3 DEF PlaceInv
  <2>2. /\ todo' = Rest(Taken + 1) /\ Head(todo) = Teardown[Taken + 1]
        /\ pc' = IF Rest(Taken + 1) = <<>> THEN "outcome" ELSE "teardown"
    BY <1>1, <1>3, <2>1, RestFacts DEF Advance
  <2>3. /\ Rest(Taken + 1) \in Seq(Flags \cup {"cache"})
        /\ Len(Rest(Taken + 1)) = 12 - (Taken + 1) /\ Taken + 1 \in 0 .. 12
    <3>1. Taken + 1 \in 0 .. 12
      BY <2>1
    <3> QED BY <3>1, RestFacts
  <2>4. Taken' = Taken + 1
    <3>1. Len(todo') = 12 - (Taken + 1)
      BY <2>2, <2>3
    <3> QED BY <1>1, <2>1, <3>1 DEF Taken
  <2>5. Rest(Taken + 1) = <<>> <=> Taken + 1 = 12
    <3> DEFINE s == Rest(Taken + 1)
    <3>1. s \in Seq(Flags \cup {"cache"}) /\ Len(s) = 12 - (Taken + 1)
      BY <2>3
    <3> HIDE DEF s
    <3>2. s = <<>> <=> Len(s) = 0
      BY <3>1, EmptySeq
    <3>3. s = <<>> <=> Taken + 1 = 12
      BY <2>1, <3>1, <3>2
    <3> QED BY <3>3 DEF s
  <2> QED BY <1>3, <2>1, <2>2, <2>3, <2>4, <2>5
<1>4. todo' = todo \/ (pc = "teardown" /\ Advance)
  <2> USE DEF owner, env, InTry, InvocationOnly
  <2>1. CASE run_campaign \/ StagePasses \/ StageFails \/ TrialBegins
             \/ prepare_runtime_overlay \/ build_harbor_invocation \/ Snapshot
    BY <2>1 DEF run_campaign, StagePasses, StageFails, StageAborts, TrialBegins,
       prepare_runtime_overlay, build_harbor_invocation, Snapshot
  <2>2. CASE ProcessTimesOut \/ ProcessEnds \/ Inspect \/ cleanup_harbor_containers
             \/ _remove_built_image \/ LoadResult \/ Gate \/ Finally
    BY <2>2 DEF ProcessTimesOut, ProcessEnds, Inspect, cleanup_harbor_containers,
       _remove_built_image, LoadResult, Gate, Finally, LastSummary
  <2>3. CASE Removes \/ ChecksCache \/ Outcome \/ WriteEnvelope
    BY <2>3 DEF Removes, ChecksCache, Outcome, WriteEnvelope
  <2>4. CASE InterruptStage \/ InterruptTrial \/ InterruptTeardown
    BY <2>4 DEF InterruptStage, StageAborts, InterruptTrial, InterruptTeardown, LastSummary
  <2>5. CASE BridgeDies \/ Tick \/ UNCHANGED vars
    BY <2>5 DEF BridgeDies, Tick, vars
  <2> QED BY <2>1, <2>2, <2>3, <2>4, <2>5, Steps
<1> QED BY <1>2, <1>3, <1>4

\* Which flags are down: those of failed steps.
LEMMA FlagsKept ==
    ASSUME TypeInv, PlaceInv, [Next]_vars
    PROVE  failed' \subseteq Flags
<1>1. failed \subseteq Flags
  BY DEF TypeInv, TypeOK
<1>2. pc = "teardown" => Head(todo) \in Flags \cup {"cache"}
  <2>1. pc = "teardown" => Taken \in 0 .. 11
    BY Types, TeardownFacts DEF PlaceInv
  <2>2. ASSUME pc = "teardown" PROVE Head(todo) = Teardown[Taken + 1] /\ Taken + 1 \in 1 .. 12
    <3>1. todo = Rest(Taken) /\ Taken \in 0 .. 11
      BY <2>1, <2>2 DEF TypeInv
    <3>2. Head(Rest(Taken)) = Teardown[Taken + 1]
      BY <3>1, RestFacts
    <3> QED BY <3>1, <3>2
  <2> QED BY <2>2, TeardownFacts
<1>3. handles \subseteq Flags /\ "dataset" \in Flags /\ "harbor" \in Flags
  BY DEF TypeInv, TypeOK, Flags, Resources, Handles
<1> USE DEF owner, env, InTry, InvocationOnly
<1>4. CASE run_campaign \/ StagePasses \/ StageFails \/ TrialBegins
           \/ prepare_runtime_overlay \/ build_harbor_invocation \/ Snapshot
  BY <1>1, <1>4 DEF run_campaign, StagePasses, StageFails, StageAborts, TrialBegins,
     prepare_runtime_overlay, build_harbor_invocation, Snapshot
<1>5. CASE ProcessTimesOut \/ ProcessEnds \/ Inspect \/ cleanup_harbor_containers
           \/ _remove_built_image \/ LoadResult \/ Gate
  BY <1>1, <1>5 DEF ProcessTimesOut, ProcessEnds, Inspect, cleanup_harbor_containers,
     _remove_built_image, LoadResult, Gate
<1>6. CASE Finally
  BY <1>3, <1>6 DEF Finally, LastSummary
<1>7. CASE Removes
  BY <1>1, <1>2, <1>7 DEF Removes
<1>8. CASE ChecksCache \/ Outcome \/ WriteEnvelope
  BY <1>1, <1>8 DEF ChecksCache, Outcome, WriteEnvelope
<1>9. CASE InterruptStage \/ InterruptTrial
  BY <1>1, <1>9 DEF InterruptStage, StageAborts, InterruptTrial
<1>10. CASE InterruptTeardown
  BY <1>1, <1>3, <1>10 DEF InterruptTeardown, LastSummary
<1>11. CASE BridgeDies \/ Tick \/ UNCHANGED vars
  BY <1>1, <1>11 DEF BridgeDies, Tick, vars
<1> QED BY <1>4, <1>5, <1>6, <1>7, <1>8, <1>9, <1>10, <1>11, Steps

LEMMA TypeStep ==
    ASSUME TypeInv, CountInv, PlaceInv, [Next]_vars
    PROVE  TypeInv'
<1>1. Scalars' /\ Values' /\ failed' \subseteq Flags
  BY ScalarsKept, ValuesKept, FlagsKept
<1>2. Taken' \in 0 .. Len(Teardown) /\ todo' = Rest(Taken')
  BY TodoKept, TeardownFacts
<1>3. TypeOK'
  BY <1>1, StageFacts DEF Scalars, Values, TypeOK, Loop, Ending
<1> QED BY <1>1, <1>2, <1>3 DEF TypeInv, Values

-----------------------------------------------------------------------------
(* The trials are counted.                                                 *)

\* What is known of the attempt that is recorded.
LEMMA Recorded ==
    ASSUME TypeInv, NEW r, NEW c, NEW m, attempts' = Append(attempts, NewAttempt(r, c, m))
    PROVE  /\ Len(attempts') = Len(attempts) + 1 /\ attempts' # <<>>
           /\ \A i \in 1 .. Len(attempts) : attempts'[i] = attempts[i]
           /\ attempts'[Len(attempts')].clean = cur.clean
           /\ attempts'[Len(attempts')].admitted = cur.admitted
<1> DEFINE a == NewAttempt(r, c, m)
<1>1. a.clean = cur.clean /\ a.admitted = cur.admitted
  BY DEF NewAttempt
<1> HIDE DEF a
<1>2. attempts \in Seq(Attempt) /\ attempts' = Append(attempts, a) /\ Len(attempts) \in Nat
  BY Types DEF a
<1>3. /\ Len(attempts') = Len(attempts) + 1
      /\ \A i \in 1 .. Len(attempts) : attempts'[i] = attempts[i]
      /\ attempts'[Len(attempts) + 1] = a
  BY <1>2
<1>4. attempts' # <<>>
  BY <1>2, <1>3
<1> QED BY <1>1, <1>3, <1>4

LEMMA LoadEffect ==
    ASSUME TypeInv, LoadResult
    PROVE  /\ Len(attempts') = Len(attempts) + 1 /\ attempts' # <<>>
           /\ \A i \in 1 .. Len(attempts) : attempts'[i] = attempts[i]
           /\ attempts'[Len(attempts')].clean = cur.clean
           /\ attempts'[Len(attempts')].admitted = cur.admitted
           /\ cur' = [NoCur EXCEPT !.short = cur.short] /\ pc = "load"
           /\ \/ pc' = "gate" /\ ~dirty /\ UNCHANGED <<error, reason>>
              \/ pc' = "summary" /\ error' = "other" /\ reason' = "trial_failure"
           /\ UNCHANGED <<lock, stage, exists, handles, summary, failed, todo, late, cacheOk,
                          out, docker, invocations, statuses, cutoff, env>>
<1>1. \E r, c, m : attempts' = Append(attempts, NewAttempt(r, c, m))
  BY DEF LoadResult
<1>2. /\ Len(attempts') = Len(attempts) + 1 /\ attempts' # <<>>
      /\ \A i \in 1 .. Len(attempts) : attempts'[i] = attempts[i]
      /\ attempts'[Len(attempts')].clean = cur.clean
      /\ attempts'[Len(attempts')].admitted = cur.admitted
  BY <1>1, Recorded
<1> QED BY <1>2 DEF LoadResult, Leave, InTry

\* A signal inside a trial.
LEMMA InterruptEffect ==
    ASSUME TypeInv, InterruptTrial
    PROVE  /\ UNCHANGED <<lock, stage, exists, handles, summary, failed, todo, late, cacheOk,
                          out, invocations, statuses, cutoff, dirty, bridgeUp, left, faults>>
           /\ \/ /\ pc \in {"trial", "overlay", "argv", "snapshot", "inspect", "image", "gate"}
                 /\ pc' = "summary" /\ error' = "interrupted" /\ reason' = "interrupted"
                 /\ UNCHANGED <<docker, cur, attempts>>
              \/ /\ pc = "load"
                 /\ pc' = "summary" /\ error' = "interrupted" /\ reason' = "interrupted"
                 /\ UNCHANGED <<docker, cur>>
                 /\ Len(attempts') = Len(attempts) + 1
                 /\ \A i \in 1 .. Len(attempts) : attempts'[i] = attempts[i]
              \/ /\ pc = "run" /\ pc' = "inspect"
                 /\ docker' \in {docker, docker \ {<<T, "group">>}}
                 /\ cur' = [cur EXCEPT !.raising = "interrupted"]
                 /\ UNCHANGED <<error, reason, attempts>>
              \/ /\ pc = "clean" /\ pc' = "image"
                 /\ docker' \in {docker, docker \ {<<T, "compose">>}}
                 /\ UNCHANGED <<error, reason, attempts, cur>>
<1>1. CASE pc = "load" /\ attempts' = Append(attempts, NewAttempt(FALSE, "other", TRUE))
  <2>1. /\ Len(attempts') = Len(attempts) + 1
        /\ \A i \in 1 .. Len(attempts) : attempts'[i] = attempts[i]
    BY <1>1, Recorded
  <2> QED BY <1>1, <2>1 DEF InterruptTrial, Leave, InTry, NoFault
<1>2. CASE pc # "load"
  BY <1>2 DEF InterruptTrial, Leave, InTry, NoFault
<1> QED BY <1>1, <1>2 DEF InterruptTrial

\* The status of an invocation is added to the others.
LEMMA StatusEffect ==
    ASSUME TypeInv, _remove_built_image
    PROVE  \E ok \in BOOLEAN :
           /\ pc = "image" /\ (ok => docker' = docker \ {<<T, "image">>}) /\ docker' \subseteq docker
           /\ cur' = [cur EXCEPT !.clean = cur.clean /\ ok]
           /\ \/ /\ cur.raising = "none" /\ pc' = "load"
                 /\ Len(statuses') = Len(statuses) + 1
                 /\ \A i \in 1 .. Len(statuses) : statuses'[i] = statuses[i]
                 /\ statuses'[Len(statuses) + 1] = (cur.clean /\ ok)
                 /\ UNCHANGED <<error, reason>>
              \/ /\ cur.raising # "none" /\ pc' = "summary" /\ error' = cur.raising
                 /\ reason' \in {"trial_failure", "interrupted"}
                 /\ UNCHANGED statuses
           /\ UNCHANGED <<lock, stage, exists, handles, summary, failed, todo, late, cacheOk,
                          out, invocations, attempts, cutoff, env>>
<1>1. PICK ok \in BOOLEAN :
         /\ docker' = IF ok THEN docker \ {<<T, "image">>} ELSE docker
         /\ cur' = [cur EXCEPT !.clean = cur.clean /\ ok]
         /\ IF cur.raising = "none"
            THEN /\ pc' = "load" /\ statuses' = Append(statuses, cur.clean /\ ok)
                 /\ UNCHANGED <<error, reason>>
            ELSE /\ pc' = "summary" /\ error' = cur.raising
                 /\ reason' \in {"trial_failure", "interrupted"}
                 /\ UNCHANGED statuses
  BY DEF _remove_built_image, Leave
<1> DEFINE x == cur.clean /\ ok
<1>2. statuses' = Append(statuses, x) =>
        /\ Len(statuses') = Len(statuses) + 1
        /\ \A i \in 1 .. Len(statuses) : statuses'[i] = statuses[i]
        /\ statuses'[Len(statuses) + 1] = x
  <2>1. x \in BOOLEAN
    BY Types
  <2> HIDE DEF x
  <2> QED BY <2>1, Types
<1>3. pc = "image" /\ UNCHANGED <<lock, stage, exists, handles, summary, failed, todo, late,
                          cacheOk, out, invocations, attempts, cutoff, env>>
  BY DEF _remove_built_image, InTry
<1>4. CASE cur.raising = "none"
  BY <1>1, <1>2, <1>3, <1>4
<1>5. CASE cur.raising # "none"
  BY <1>1, <1>3, <1>5
<1> QED BY <1>4, <1>5

LEMMA CountStep ==
    ASSUME TypeInv, CountInv, [Next]_vars
    PROVE  CountInv'
<1> USE DEF CountInv, owner, env, InTry, InvocationOnly, Leave, NoFault, Fault
<1>a. /\ Len(statuses) \in Nat /\ Len(attempts) \in Nat /\ invocations \in Nat
      /\ NTrials \in Nat /\ NTrials > 0 /\ invocations <= NTrials
  BY Types, HarborAssumption DEF TypeInv, TypeOK
<1>1. CASE run_campaign \/ StagePasses
  BY <1>1, <1>a DEF run_campaign, StagePasses
<1>2. CASE StageFails \/ (SignalRaised /\ InterruptStage)
  BY <1>2, <1>a DEF StageFails, StageAborts, InterruptStage, SignalRaised
<1>3. CASE TrialBegins
  BY <1>3, <1>a DEF TrialBegins
<1>4. CASE prepare_runtime_overlay
  BY <1>4, <1>a DEF prepare_runtime_overlay
<1>5. CASE build_harbor_invocation
  BY <1>5, <1>a DEF build_harbor_invocation
<1>6. CASE Snapshot
  BY <1>6, <1>a DEF Snapshot
<1>7. CASE ProcessTimesOut
  BY <1>7, <1>a DEF ProcessTimesOut
<1>8. CASE ProcessEnds
  BY <1>8, <1>a DEF ProcessEnds
<1>9. CASE Inspect
  BY <1>9, <1>a DEF Inspect
<1>10. CASE cleanup_harbor_containers
  BY <1>10, <1>a DEF cleanup_harbor_containers
<1>11. CASE _remove_built_image
  BY <1>11, <1>a, StatusEffect
<1>12. CASE LoadResult
  BY <1>12, <1>a, LoadEffect
<1>13. CASE Gate
  <2>1. /\ UNCHANGED <<statuses, attempts, invocations>> /\ pc = "gate"
        /\ pc' = "summary" \/ (pc' = "trial" /\ Len(attempts) # NTrials)
    BY <1>13 DEF Gate
  <2> QED BY <1>a, <2>1
<1>14. CASE Finally
  BY <1>14, <1>a DEF Finally, LastSummary, Secondary
<1>15. CASE Removes \/ ChecksCache
  BY <1>15, <1>a DEF Removes, Advance, ChecksCache
<1>16. CASE Outcome \/ WriteEnvelope
  BY <1>16, <1>a DEF Outcome, WriteEnvelope
<1>17. CASE SignalRaised /\ InterruptTrial
  BY <1>17, <1>a, InterruptEffect
<1>18. CASE SignalRaised /\ InterruptTeardown
  BY <1>18, <1>a DEF InterruptTeardown, LastSummary, Advance, Secondary, SignalRaised
<1>19. CASE BridgeDies \/ Tick
  BY <1>19, <1>a DEF BridgeDies, Tick
<1>20. CASE UNCHANGED vars
  BY <1>20, <1>a DEF vars
<1> QED
  BY <1>1, <1>2, <1>3, <1>4, <1>5, <1>6, <1>7, <1>8, <1>9, <1>10, <1>11, <1>12, <1>13,
     <1>14, <1>15, <1>16, <1>17, <1>18, <1>19, <1>20, Steps

-----------------------------------------------------------------------------
(* What the gate, the last summary and a signal in the teardown do.        *)

LEMMA GateFacts ==
    ASSUME TypeInv, attempts # <<>>
    PROVE  /\ _attempt_gate \notin {"completed", "hard_cutoff", "cleanup_failure"}
           /\ _attempt_gate = "none" =>
                attempts[Len(attempts)].clean /\ attempts[Len(attempts)].admitted
<1> DEFINE a == attempts[Len(attempts)]
<1>1. Len(attempts) \in Nat \ {0} /\ attempts \in Seq(Attempt)
  BY Types
<1>2. a \in Attempt
  BY <1>1
<1>3. a.clean \in BOOLEAN /\ a.admitted \in BOOLEAN
  BY <1>2 DEF Attempt
<1>4. _attempt_gate \notin {"completed", "hard_cutoff", "cleanup_failure"}
  BY DEF _attempt_gate
<1>5. ASSUME _attempt_gate = "none" PROVE a.clean /\ a.admitted
  <2>1. CASE ~(a.clean /\ a.admitted)
    BY <1>5, <2>1 DEF _attempt_gate
  <2> QED BY <1>3, <2>1
<1> QED BY <1>4, <1>5

LEMMA GateEffect ==
    ASSUME TypeInv, Gate
    PROVE  /\ pc = "gate"
           /\ UNCHANGED <<lock, stage, exists, handles, docker, invocations, statuses,
                          attempts, cur, failed, todo, late, cacheOk, env, out>>
           /\ \/ /\ pc' = "summary" /\ error' = "other" /\ reason' = "trial_failure"
                 /\ UNCHANGED <<cutoff, summary>>
              \/ /\ summary' = Summarize(FALSE)
                 /\ \/ /\ cutoff' = TRUE /\ pc' = "summary" /\ error' = "none"
                       /\ reason' = "hard_cutoff"
                    \/ /\ cutoff' = FALSE /\ pc' = "summary" /\ error' = "none"
                       /\ reason' = _attempt_gate /\ _attempt_gate # "none"
                    \/ /\ cutoff' = FALSE /\ pc' = "summary" /\ error' = "none"
                       /\ reason' = "completed" /\ _attempt_gate = "none"
                       /\ Len(attempts) = NTrials
                    \/ /\ cutoff' = FALSE /\ pc' = "trial" /\ _attempt_gate = "none"
                       /\ UNCHANGED <<error, reason>>
<1>1. /\ pc = "gate"
      /\ UNCHANGED <<lock, stage, exists, handles, docker, invocations, statuses,
                     attempts, cur, failed, todo, late, cacheOk, env, out>>
  BY DEF Gate
<1>2. CASE Leave("other", "trial_failure") /\ UNCHANGED <<cutoff, summary>>
  BY <1>1, <1>2 DEF Leave
<1>3. CASE /\ summary' = Summarize(FALSE)
           /\ cutoff' = (attempts[Len(attempts)].exit = "timeout" /\ cur.short)
           /\ IF cutoff' THEN Leave("none", "hard_cutoff")
              ELSE IF _attempt_gate # "none" THEN Leave("none", _attempt_gate)
              ELSE IF Len(attempts) = NTrials THEN Leave("none", "completed")
              ELSE pc' = "trial" /\ UNCHANGED <<error, reason>>
  <2>1. cutoff' \in BOOLEAN
    BY <1>3
  <2>2. CASE cutoff' = TRUE
    BY <1>1, <1>3, <2>2 DEF Leave
  <2>3. CASE cutoff' = FALSE
    BY <1>1, <1>3, <2>3 DEF Leave
  <2> QED BY <2>1, <2>2, <2>3
<1> QED BY <1>2, <1>3 DEF Gate

LEMMA LastEffect ==
    ASSUME TypeInv, NEW e, LastSummary(e)
    PROVE  /\ pc' = "teardown" /\ failed' = (IF Certified THEN {} ELSE {"harbor"})
           /\ UNCHANGED <<lock, stage, exists, handles, docker, invocations, statuses,
                          attempts, cur, cutoff, todo, cacheOk, dirty, bridgeUp, left, out>>
           /\ \/ e = "none" /\ ~Admitted /\ UNCHANGED <<summary, error, reason>>
              \/ e = "none" /\ summary' = Summarize(cutoff) /\ UNCHANGED <<error, reason>>
              \/ /\ UNCHANGED summary /\ error' = (IF error = "none" THEN "other" ELSE error)
                 /\ reason' = IF error = "none" THEN "trial_failure" ELSE reason
  BY DEF LastSummary, Secondary

LEMMA LateEffect ==
    ASSUME TypeInv, InterruptTeardown
    PROVE  /\ UNCHANGED faults /\ late' = (late \/ error # "interrupted")
           /\ \/ pc = "summary" /\ LastSummary("other")
              \/ /\ pc \in {"summary", "teardown", "outcome"}
                 /\ pc' = "done" /\ lock' = FALSE
                 /\ UNCHANGED <<exists, docker, stage, handles, invocations, statuses,
                                attempts, cur, summary, error, reason, cutoff, failed, todo,
                                cacheOk, dirty, bridgeUp, left, out>>
              \/ /\ pc = "teardown" /\ pc' \in {"teardown", "outcome"}
                 /\ failed' = failed \cup {Head(todo)} /\ todo' = Tail(todo)
                 /\ UNCHANGED <<lock, exists, docker, stage, handles, invocations, statuses,
                                attempts, cur, summary, error, reason, cutoff, cacheOk,
                                dirty, bridgeUp, left, out>>
              \/ /\ pc = "teardown" /\ pc' \in {"teardown", "outcome"} /\ Head(todo) = "cache"
                 /\ cacheOk' = FALSE /\ todo' = Tail(todo)
                 /\ error' = (IF error = "none" THEN "interrupted" ELSE error)
                 /\ reason' = (IF error = "none" THEN "runtime_admission" ELSE reason)
                 /\ UNCHANGED <<lock, exists, docker, stage, handles, invocations, statuses,
                                attempts, cur, summary, cutoff, failed, dirty, bridgeUp,
                                left, out>>
<1>1. UNCHANGED faults /\ late' = (late \/ error # "interrupted")
  BY DEF InterruptTeardown, NoFault
<1> QED BY <1>1 DEF InterruptTeardown, Advance, Secondary

LEMMA CacheEffect ==
    ASSUME TypeInv, ChecksCache
    PROVE  /\ pc = "teardown" /\ pc' \in {"teardown", "outcome"} /\ Head(todo) = "cache"
           /\ todo' = Tail(todo)
           /\ \/ UNCHANGED <<cacheOk, error, reason>>
              \/ /\ cacheOk' = FALSE
                 /\ error' = (IF error = "none" THEN "other" ELSE error)
                 /\ reason' = (IF error = "none" THEN "runtime_admission" ELSE reason)
           /\ UNCHANGED <<lock, exists, docker, stage, handles, invocations, statuses,
                          attempts, cur, summary, cutoff, failed, late, env, out>>
  BY DEF ChecksCache, Advance, Secondary

LEMMA RemoveEffect ==
    ASSUME TypeInv, Removes
    PROVE  /\ pc = "teardown" /\ pc' \in {"teardown", "outcome"} /\ todo' = Tail(todo)
           /\ \/ Head(todo) \in Handles \ handles /\ UNCHANGED <<exists, failed>>
              \/ exists' = exists \ Gone(Head(todo)) /\ failed' \in {failed, failed \cup {Head(todo)}}
              \/ exists' = exists /\ failed' = failed \cup {Head(todo)}
           /\ UNCHANGED <<lock, docker, stage, handles, invocations, statuses, attempts, cur,
                          summary, error, reason, cutoff, late, cacheOk, env, out>>
  BY DEF Removes, Advance, Skips

-----------------------------------------------------------------------------
(* The stages and the teardown run in order.                               *)

LEMMA AdvanceEffect ==
    ASSUME TypeInv, PlaceInv, [Next]_vars, pc = "teardown", todo' = Tail(todo)
    PROVE  /\ Taken \in 0 .. 11 /\ Taken' = Taken + 1 /\ Head(todo) = Teardown[Taken + 1]
           /\ pc' = IF Taken' = 12 THEN "outcome" ELSE "teardown"
<1>1. Taken \in 0 .. 11 /\ todo = Rest(Taken)
  BY Types, TeardownFacts DEF TypeInv, PlaceInv
<1>2. todo' = Rest(Taken + 1) /\ Taken + 1 \in 0 .. 12 /\ Taken \in 0 .. 12
  <2>1. Tail(Rest(Taken)) = Rest(Taken + 1)
    BY <1>1, RestFacts
  <2> QED BY <1>1, <2>1
<1>3. Len(todo') = 12 - (Taken + 1) /\ Len(todo) = 12 - Taken
  BY <1>1, <1>2, RestFacts
<1>4. todo' # todo
  BY <1>1, <1>3
<1> QED BY <1>4, TodoKept

LEMMA PlaceStep ==
    ASSUME TypeInv, PlaceInv, SignalInv, [Next]_vars
    PROVE  PlaceInv'
<1> USE DEF PlaceInv, TeardownComplete, Loop, Ending, After, owner, env, InTry,
            InvocationOnly, Leave, NoFault, Fault
<1>a. /\ Len(Stages) = 13 /\ Len(Teardown) = 12 /\ stage \in 0 .. 13 /\ Taken \in 0 .. 12
      /\ (todo = Teardown => Taken = 0) /\ (Taken = 12 => todo = <<>>)
  <2>1. Len(Stages) = 13 /\ Len(Teardown) = 12 /\ stage \in 0 .. 13 /\ Taken \in 0 .. 12
    BY Types, StageFacts, TeardownFacts
  <2>2. todo = Teardown => Taken = 0
    BY <2>1 DEF Taken
  <2>3. ASSUME Taken = 12 PROVE todo = <<>>
    <3>1. todo = Rest(12) /\ 12 \in 0 .. 12
      BY <2>3 DEF TypeInv
    <3>2. todo \in Seq(Flags \cup {"cache"}) /\ Len(todo) = 0
      <4>1. Rest(12) \in Seq(Flags \cup {"cache"}) /\ Len(Rest(12)) = 12 - 12
        BY <3>1, RestFacts
      <4> QED BY <3>1, <4>1
    <3> QED BY <3>2, EmptySeq
  <2> QED BY <2>1, <2>2, <2>3
<1>b. (pc # "teardown" => todo' = todo) /\ (todo' = todo => Taken' = Taken)
  BY TodoKept DEF Taken
<1>1. CASE run_campaign
  BY <1>1, <1>a, <1>b DEF run_campaign
<1>2. CASE StagePasses
  BY <1>2, <1>a, <1>b DEF StagePasses
<1>3. CASE StageFails \/ (SignalRaised /\ InterruptStage)
  BY <1>3, <1>a, <1>b DEF StageFails, StageAborts, InterruptStage, SignalRaised
<1>4. CASE TrialBegins
  BY <1>4, <1>a, <1>b DEF TrialBegins
<1>5. CASE prepare_runtime_overlay \/ build_harbor_invocation
  BY <1>5, <1>a, <1>b DEF prepare_runtime_overlay, build_harbor_invocation
<1>6. CASE Snapshot
  BY <1>6, <1>a, <1>b DEF Snapshot
<1>7. CASE ProcessTimesOut
  BY <1>7, <1>a, <1>b DEF ProcessTimesOut
<1>8. CASE ProcessEnds
  BY <1>8, <1>a, <1>b DEF ProcessEnds
<1>9. CASE Inspect
  BY <1>9, <1>a, <1>b DEF Inspect
<1>10. CASE cleanup_harbor_containers
  BY <1>10, <1>a, <1>b DEF cleanup_harbor_containers
<1>11. CASE _remove_built_image
  BY <1>11, <1>a, <1>b, StatusEffect
<1>12. CASE LoadResult
  BY <1>12, <1>a, <1>b, LoadEffect
<1>13. CASE Gate
  BY <1>13, <1>a, <1>b, GateEffect
<1>14. CASE Finally
  <2>1. pc = "summary" /\ UNCHANGED late /\ \E e : LastSummary(e)
    BY <1>14 DEF Finally
  <2> QED BY <1>a, <1>b, <2>1, LastEffect
<1>15. CASE Removes
  BY <1>15, <1>a, RemoveEffect, AdvanceEffect
<1>16. CASE ChecksCache
  BY <1>16, <1>a, CacheEffect, AdvanceEffect
<1>17. CASE Outcome
  BY <1>17, <1>a, <1>b DEF Outcome
<1>18. CASE WriteEnvelope
  BY <1>18, <1>a, <1>b DEF WriteEnvelope
<1>19. CASE SignalRaised /\ InterruptTrial
  BY <1>19, <1>a, <1>b, InterruptEffect
<1>20. CASE SignalRaised /\ InterruptTeardown
  <2>1. late' = TRUE /\ pc \in {"summary", "teardown", "outcome"}
    <3>1. error # "interrupted"
      BY <1>20 DEF SignalRaised, SignalInv
    <3>2. late' = (late \/ error # "interrupted") /\ pc \in {"summary", "teardown", "outcome"}
      BY <1>20, LateEffect
    <3> QED BY <3>1, <3>2
  <2>2. CASE pc = "summary" /\ LastSummary("other")
    BY <1>a, <1>b, <2>1, <2>2, LastEffect
  <2>3. CASE pc' = "done"
    <3>1. UNCHANGED stage /\ UNCHANGED attempts
      BY <1>20, LateEffect, LastEffect
    <3> QED BY <2>1, <2>3, <3>1
  <2>4. CASE pc = "teardown" /\ pc' \in {"teardown", "outcome"}
    <3>1. UNCHANGED stage /\ UNCHANGED attempts /\ todo' = Tail(todo)
      BY <1>20, <2>4, LateEffect
    <3> QED BY <1>a, <2>1, <2>4, <3>1, AdvanceEffect
  <2> QED BY <1>20, <2>2, <2>3, <2>4, LateEffect
<1>21. CASE BridgeDies \/ Tick
  BY <1>21, <1>a, <1>b DEF BridgeDies, Tick
<1>22. CASE UNCHANGED vars
  BY <1>22, <1>a, <1>b DEF vars
<1> QED
  BY <1>1, <1>2, <1>3, <1>4, <1>5, <1>6, <1>7, <1>8, <1>9, <1>10, <1>11, <1>12, <1>13,
     <1>14, <1>15, <1>16, <1>17, <1>18, <1>19, <1>20, <1>21, <1>22, Steps

-----------------------------------------------------------------------------
(* A signal ends the campaign.                                             *)

LEMMA SignalStep ==
    ASSUME TypeInv, CountInv, SignalInv, ReasonInv, [Next]_vars
    PROVE  SignalInv'
<1> USE DEF SignalInv, Ending, After, owner, env, InTry, InvocationOnly, Leave, NoFault, Fault
<1>a. /\ cur \in Invocation /\ cur.clean \in BOOLEAN
      /\ cur.raising \in {"none", "interrupted", "other"}
      /\ Len(attempts) \in Nat /\ sig \in {"armed", "ignored"}
  BY Types DEF TypeInv, TypeOK
<1>1. CASE run_campaign
  BY <1>1, <1>a DEF run_campaign
<1>2. CASE StagePasses
  BY <1>2, <1>a DEF StagePasses
<1>3. CASE StageFails \/ (SignalRaised /\ InterruptStage)
  BY <1>3, <1>a DEF StageFails, StageAborts, InterruptStage, SignalRaised
<1>4. CASE TrialBegins
  <2>1. \/ pc' = "summary" /\ cur' = cur /\ error' \in {"other", "none"}
        \/ pc' = "overlay" /\ cur'.raising = "none" /\ cur'.clean = FALSE /\ error' = error
    BY <1>4 DEF TrialBegins, NoCur
  <2>2. pc = "trial" /\ UNCHANGED <<sig, attempts>>
    BY <1>4 DEF TrialBegins
  <2> QED BY <1>a, <2>1, <2>2
<1>5. CASE prepare_runtime_overlay \/ build_harbor_invocation
  BY <1>5, <1>a DEF prepare_runtime_overlay, build_harbor_invocation
<1>6. CASE Snapshot
  BY <1>6, <1>a DEF Snapshot
<1>7. CASE ProcessTimesOut
  BY <1>7, <1>a DEF ProcessTimesOut, Invocation
<1>8. CASE ProcessEnds
  BY <1>8, <1>a DEF ProcessEnds, Invocation
<1>9. CASE Inspect
  BY <1>9, <1>a DEF Inspect, Invocation
<1>10. CASE cleanup_harbor_containers
  BY <1>10, <1>a DEF cleanup_harbor_containers, Invocation
<1>11. CASE _remove_built_image
  <2>1. PICK ok \in BOOLEAN :
          /\ cur' = [cur EXCEPT !.clean = cur.clean /\ ok]
          /\ \/ cur.raising = "none" /\ pc' = "load" /\ UNCHANGED error
             \/ cur.raising # "none" /\ pc' = "summary" /\ error' = cur.raising
          /\ pc = "image" /\ UNCHANGED <<attempts, env>>
    BY <1>11, StatusEffect
  <2>2. cur'.raising = cur.raising /\ (~cur.clean => ~cur'.clean)
    BY <1>a, <2>1 DEF Invocation
  <2> QED BY <1>a, <2>1, <2>2
<1>12. CASE LoadResult
  <2>1. cur'.raising = "none"
    BY <1>12, LoadEffect DEF NoCur
  <2>2. /\ pc = "load" /\ UNCHANGED env /\ attempts'[Len(attempts')].clean = cur.clean
        /\ \/ pc' = "gate" /\ UNCHANGED error
           \/ pc' = "summary" /\ error' = "other"
    BY <1>12, LoadEffect
  <2> QED BY <1>a, <2>1, <2>2
<1>13. CASE Gate
  <2>1. /\ pc = "gate" /\ UNCHANGED <<attempts, cur, env>>
        /\ \/ pc' = "summary" /\ error' \in {"none", "other"}
           \/ pc' = "trial" /\ _attempt_gate = "none" /\ UNCHANGED error
    BY <1>13, GateEffect
  <2>2. attempts # <<>>
    BY <2>1 DEF CountInv
  <2>3. _attempt_gate = "none" => attempts[Len(attempts)].clean
    BY <2>2, GateFacts
  <2> QED BY <1>a, <2>1, <2>3
<1>14. CASE Finally
  <2>1. pc = "summary" /\ UNCHANGED sig /\ \E e : LastSummary(e)
    BY <1>14 DEF Finally
  <2> QED BY <1>a, <2>1, LastEffect
<1>15. CASE Removes
  BY <1>15, <1>a, RemoveEffect
<1>16. CASE ChecksCache
  BY <1>16, <1>a, CacheEffect
<1>17. CASE Outcome
  BY <1>17, <1>a DEF Outcome
<1>18. CASE WriteEnvelope
  BY <1>18, <1>a DEF WriteEnvelope
<1>19. CASE SignalRaised /\ InterruptTrial
  <2>1. sig' = "ignored" /\ UNCHANGED <<statuses, invocations>>
    BY <1>19, InterruptEffect DEF SignalRaised
  <2>2. CASE pc = "run"
    <3>1. pc' = "inspect" /\ cur' = [cur EXCEPT !.raising = "interrupted"] /\ UNCHANGED error
      BY <1>19, <2>2, InterruptEffect
    <3>2. cur'.raising = "interrupted" /\ cur'.clean = cur.clean
      BY <1>a, <3>1 DEF Invocation
    <3> QED BY <1>a, <2>1, <2>2, <3>1, <3>2
  <2>3. CASE pc # "run"
    BY <1>19, <1>a, <2>1, <2>3, InterruptEffect
  <2> QED BY <2>2, <2>3
<1>20. CASE SignalRaised /\ InterruptTeardown
  <2>1. sig' = "ignored" /\ pc' \in After
    BY <1>20, LateEffect, LastEffect DEF SignalRaised
  <2> QED BY <2>1
<1>21. CASE BridgeDies \/ Tick
  BY <1>21, <1>a DEF BridgeDies, Tick
<1>22. CASE UNCHANGED vars
  BY <1>22, <1>a DEF vars
<1> QED
  BY <1>1, <1>2, <1>3, <1>4, <1>5, <1>6, <1>7, <1>8, <1>9, <1>10, <1>11, <1>12, <1>13,
     <1>14, <1>15, <1>16, <1>17, <1>18, <1>19, <1>20, <1>21, <1>22, Steps

-----------------------------------------------------------------------------
(* What docker holds.                                                      *)

\* A certified campaign has left nothing in docker.
LEMMA CertifiedEmpty ==
    ASSUME TypeInv, DockerInv, Certified
    PROVE  docker = {}
<1>1. SUFFICES ASSUME NEW d \in docker PROVE FALSE
  OBVIOUS
<1>2. d[1] \in 1 .. NTrials
  BY <1>1 DEF TypeInv, TypeOK, Trials
<1>3. d[1] <= Len(statuses) /\ ~statuses[d[1]]
  BY <1>1 DEF DockerInv, Certified
<1>4. d[1] \in DOMAIN statuses
  BY <1>2, <1>3, Types
<1> QED BY <1>3, <1>4 DEF Certified

\* What an invocation's clean status says: its three parts are gone.
LEMMA StatusTruthful ==
    ASSUME TypeInv, CountInv, DockerInv, _remove_built_image
    PROVE  DockerInv'
<1>a. /\ Len(statuses) = Len(attempts) /\ invocations = Len(attempts) + 1 /\ T = Len(attempts) + 1
      /\ Len(attempts) \in Nat
  BY Types DEF CountInv, T, _remove_built_image
<1>1. PICK ok \in BOOLEAN :
           /\ pc = "image" /\ (ok => docker' = docker \ {<<T, "image">>}) /\ docker' \subseteq docker
           /\ \/ /\ cur.raising = "none" /\ pc' = "load"
                 /\ Len(statuses') = Len(statuses) + 1
                 /\ \A i \in 1 .. Len(statuses) : statuses'[i] = statuses[i]
                 /\ statuses'[Len(statuses) + 1] = (cur.clean /\ ok)
              \/ /\ cur.raising # "none" /\ pc' = "summary" /\ UNCHANGED statuses
           /\ UNCHANGED <<invocations, failed>>
  BY StatusEffect
<1>2. pc' \notin {"inspect", "clean", "image"} \cup Ending
  BY <1>1 DEF Ending
<1>3. ASSUME NEW d \in docker'
      PROVE  d[1] <= invocations' /\ (d[1] <= Len(statuses') => ~statuses'[d[1]])
  <2>1. /\ d \in docker /\ d[1] <= invocations /\ (d[1] <= Len(statuses) => ~statuses[d[1]])
        /\ d = <<d[1], d[2]>> /\ d[1] \in 1 .. NTrials /\ d[2] \in Parts
    BY <1>1, <1>3 DEF DockerInv, TypeInv, TypeOK, Trials
  <2>2. CASE cur.raising # "none"
    BY <1>1, <2>1, <2>2
  <2>3. CASE cur.raising = "none" /\ d[1] <= Len(statuses)
    BY <1>1, <1>a, <2>1, <2>3
  <2>4. CASE cur.raising = "none" /\ d[1] > Len(statuses)
    <3>1. d[1] = T /\ T = Len(statuses) + 1
      BY <1>a, <2>1, <2>4
    <3>2. CASE cur.clean /\ ok
      <4>1. <<T, "image">> \notin docker'
        BY <1>1, <3>2
      <4>2. <<T, "group">> \notin docker /\ <<T, "compose">> \notin docker
        BY <1>1, <2>4, <3>2 DEF DockerInv
      <4> QED BY <2>1, <3>1, <4>1, <4>2, <1>3 DEF Parts
    <3>3. CASE ~(cur.clean /\ ok)
      BY <1>1, <2>1, <2>4, <3>1, <3>3
    <3> QED BY <3>2, <3>3
  <2> QED BY <1>a, <2>1, <2>2, <2>3, <2>4
<1> QED BY <1>1, <1>2, <1>3 DEF DockerInv

LEMMA DockerStep ==
    ASSUME TypeInv, CountInv, SignalInv, DockerInv, [Next]_vars
    PROVE  DockerInv'
<1> USE DEF DockerInv, Ending, T, owner, env, InTry, InvocationOnly, Leave, NoFault, Fault
<1>a. /\ cur \in Invocation /\ cur.clean \in BOOLEAN
      /\ cur.raising \in {"none", "interrupted", "other"}
      /\ Len(attempts) \in Nat /\ Len(statuses) \in Nat /\ invocations \in Nat
      /\ \A d \in docker : d[1] \in Nat
  BY Types DEF TypeInv, TypeOK, Trials
<1>1. CASE run_campaign
  BY <1>1, <1>a DEF run_campaign
<1>2. CASE StagePasses
  BY <1>2, <1>a DEF StagePasses
<1>3. CASE StageFails \/ (SignalRaised /\ InterruptStage)
  BY <1>3, <1>a DEF StageFails, StageAborts, InterruptStage, SignalRaised
<1>4. CASE TrialBegins
  BY <1>4, <1>a DEF TrialBegins
<1>5. CASE prepare_runtime_overlay \/ build_harbor_invocation
  BY <1>5, <1>a DEF prepare_runtime_overlay, build_harbor_invocation
<1>6. CASE Snapshot
  <2>1. CASE UNCHANGED docker
    BY <1>6, <1>a, <2>1 DEF Snapshot
  <2>2. CASE docker' = docker \cup ({T} \X Parts) /\ pc' = "run"
    <3>1. invocations = Len(attempts) + 1 /\ Len(statuses) = Len(attempts)
      BY <1>6 DEF Snapshot, CountInv
    <3>2. \A d \in {T} \X Parts : d[1] = Len(attempts) + 1
      OBVIOUS
    <3>3. UNCHANGED <<invocations, statuses>>
      BY <1>6 DEF Snapshot
    <3> QED BY <1>a, <2>2, <3>1, <3>2, <3>3
  <2> QED BY <1>6, <2>1, <2>2 DEF Snapshot
<1>7. CASE ProcessTimesOut
  <2>1. /\ pc' = "inspect" /\ docker' \subseteq docker
        /\ UNCHANGED <<attempts, statuses, invocations, failed>>
        /\ \/ docker' = docker \ {<<T, "group">>}
           \/ cur' = [cur EXCEPT !.raising = "other"]
    BY <1>7 DEF ProcessTimesOut
  <2>2. <<T, "group">> \notin docker' \/ cur'.raising # "none"
    BY <1>a, <2>1 DEF Invocation
  <2> QED BY <1>a, <2>1, <2>2
<1>8. CASE ProcessEnds
  <2>1. /\ pc' = "inspect" /\ docker' = docker \ {<<T, "group">>}
        /\ UNCHANGED <<attempts, statuses, invocations, failed>>
    BY <1>8 DEF ProcessEnds
  <2> QED BY <1>a, <2>1
<1>9. CASE Inspect
  <2>1. /\ pc = "inspect" /\ pc' = "clean" /\ cur'.raising = cur.raising
        /\ UNCHANGED <<docker, attempts, statuses, invocations, failed>>
    BY <1>9, <1>a DEF Inspect, Invocation
  <2> QED BY <1>a, <2>1
<1>10. CASE cleanup_harbor_containers
  <2>1. /\ pc = "clean" /\ pc' = "image" /\ cur'.raising = cur.raising /\ docker' \subseteq docker
        /\ docker' = docker \ {<<T, "compose">>} \/ cur' = cur
        /\ UNCHANGED <<attempts, statuses, invocations, failed>>
    BY <1>10, <1>a DEF cleanup_harbor_containers, Invocation
  <2>2. ~cur.clean
    BY <2>1 DEF SignalInv
  <2> QED BY <1>a, <2>1, <2>2
<1>11. CASE _remove_built_image
  BY <1>11, StatusTruthful
<1>12. CASE LoadResult
  BY <1>12, <1>a, LoadEffect
<1>13. CASE Gate
  BY <1>13, <1>a, GateEffect
<1>14. CASE Finally
  <2>1. pc = "summary" /\ \E e : LastSummary(e)
    BY <1>14 DEF Finally
  <2>2. /\ failed' = (IF Certified THEN {} ELSE {"harbor"}) /\ pc' = "teardown"
        /\ UNCHANGED <<docker, statuses, invocations>>
    BY <2>1, LastEffect
  <2> QED BY <1>a, <2>2, CertifiedEmpty
<1>15. CASE Removes
  BY <1>15, <1>a, RemoveEffect
<1>16. CASE ChecksCache
  BY <1>16, <1>a, CacheEffect
<1>17. CASE Outcome
  BY <1>17, <1>a DEF Outcome
<1>18. CASE WriteEnvelope
  BY <1>18, <1>a DEF WriteEnvelope
<1>19. CASE SignalRaised /\ InterruptTrial
  <2>1. CASE pc = "run"
    <3>1. /\ pc' = "inspect" /\ cur' = [cur EXCEPT !.raising = "interrupted"]
          /\ docker' \subseteq docker /\ UNCHANGED <<attempts, statuses, invocations, failed>>
      BY <1>19, <2>1, InterruptEffect
    <3>2. cur'.raising = "interrupted"
      BY <1>a, <3>1 DEF Invocation
    <3> QED BY <1>a, <2>1, <3>1, <3>2
  <2>2. CASE pc = "clean"
    <3>1. /\ pc' = "image" /\ docker' \subseteq docker
          /\ UNCHANGED <<cur, attempts, statuses, invocations, failed>>
      BY <1>19, <2>2, InterruptEffect
    <3>2. ~cur.clean
      BY <2>2 DEF SignalInv
    <3> QED BY <1>a, <2>2, <3>1, <3>2
  <2>3. CASE pc \notin {"run", "clean"}
    <3>1. pc' = "summary" /\ UNCHANGED <<docker, statuses, invocations, failed>>
      BY <1>19, <2>3, InterruptEffect
    <3> QED BY <1>a, <3>1
  <2> QED BY <2>1, <2>2, <2>3
<1>20. CASE SignalRaised /\ InterruptTeardown
  <2>1. UNCHANGED <<docker, statuses, invocations, attempts>>
    BY <1>20, LateEffect, LastEffect
  <2>2. CASE LastSummary("other")
    <3>1. failed' = (IF Certified THEN {} ELSE {"harbor"}) /\ pc' = "teardown"
      BY <2>2, LastEffect
    <3> QED BY <1>a, <2>1, <3>1, CertifiedEmpty
  <2>3. CASE pc' = "done"
    BY <1>a, <2>1, <2>3
  <2>4. CASE pc = "teardown" /\ pc' \in {"teardown", "outcome"} /\ failed \subseteq failed'
    BY <1>a, <2>1, <2>4
  <2> QED BY <1>20, <2>2, <2>3, <2>4, LateEffect
<1>21. CASE BridgeDies \/ Tick
  BY <1>21, <1>a DEF BridgeDies, Tick
<1>22. CASE UNCHANGED vars
  BY <1>22, <1>a DEF vars
<1> QED
  BY <1>1, <1>2, <1>3, <1>4, <1>5, <1>6, <1>7, <1>8, <1>9, <1>10, <1>11, <1>12, <1>13,
     <1>14, <1>15, <1>16, <1>17, <1>18, <1>19, <1>20, <1>21, <1>22, Steps
-----------------------------------------------------------------------------
(* What passed the gate.                                                   *)

LEMMA GateStep ==
    ASSUME TypeInv, CountInv, GateInv, [Next]_vars
    PROVE  GateInv'
<1> USE DEF GateInv, Loop, Ending, owner, env, InTry, InvocationOnly, Leave, NoFault, Fault
<1>a. Len(attempts) \in Nat /\ dirty \in BOOLEAN
  BY Types
<1>1. CASE run_campaign
  BY <1>1, <1>a DEF run_campaign
<1>2. CASE StagePasses
  <2>1. Len(attempts) = 0
    BY <1>2, Types DEF StagePasses, CountInv
  <2>2. UNCHANGED <<attempts, dirty>> /\ pc = "stage"
    BY <1>2 DEF StagePasses
  <2> QED BY <2>1, <2>2
<1>3. CASE StageFails \/ (SignalRaised /\ InterruptStage)
  BY <1>3, <1>a DEF StageFails, StageAborts, InterruptStage, SignalRaised
<1>4. CASE TrialBegins
  BY <1>4, <1>a DEF TrialBegins
<1>5. CASE prepare_runtime_overlay \/ build_harbor_invocation
  BY <1>5, <1>a DEF prepare_runtime_overlay, build_harbor_invocation
<1>6. CASE Snapshot
  BY <1>6, <1>a DEF Snapshot
<1>7. CASE ProcessTimesOut
  BY <1>7, <1>a DEF ProcessTimesOut
<1>8. CASE ProcessEnds
  BY <1>8, <1>a DEF ProcessEnds
<1>9. CASE Inspect
  BY <1>9, <1>a DEF Inspect
<1>10. CASE cleanup_harbor_containers
  BY <1>10, <1>a DEF cleanup_harbor_containers
<1>11. CASE _remove_built_image
  BY <1>11, <1>a, StatusEffect
<1>12. CASE LoadResult
  BY <1>12, <1>a, LoadEffect
<1>13. CASE Gate
  <2>1. /\ pc = "gate" /\ UNCHANGED <<attempts, dirty>>
        /\ pc' = "summary" \/ (pc' = "trial" /\ _attempt_gate = "none")
    BY <1>13, GateEffect
  <2>2. attempts # <<>> /\ Len(attempts) > 0
    BY <2>1, Types DEF CountInv
  <2>3. _attempt_gate = "none" =>
           attempts[Len(attempts)].clean /\ attempts[Len(attempts)].admitted
    BY <2>2, GateFacts
  <2>4. \A i \in 1 .. Len(attempts) : i < Len(attempts) \/ i = Len(attempts)
    BY <1>a
  <2> QED BY <1>a, <2>1, <2>2, <2>3, <2>4
<1>14. CASE Finally
  <2>1. pc = "summary" /\ \E e : LastSummary(e)
    BY <1>14 DEF Finally
  <2> QED BY <1>a, <2>1, LastEffect
<1>15. CASE Removes
  BY <1>15, <1>a, RemoveEffect
<1>16. CASE ChecksCache
  BY <1>16, <1>a, CacheEffect
<1>17. CASE Outcome
  BY <1>17, <1>a DEF Outcome
<1>18. CASE WriteEnvelope
  BY <1>18, <1>a DEF WriteEnvelope
<1>19. CASE SignalRaised /\ InterruptTrial
  BY <1>19, <1>a, InterruptEffect
<1>20. CASE SignalRaised /\ InterruptTeardown
  BY <1>20, <1>a, LateEffect, LastEffect
<1>21. CASE BridgeDies \/ Tick
  BY <1>21, <1>a DEF BridgeDies, Tick
<1>22. CASE UNCHANGED vars
  BY <1>22, <1>a DEF vars
<1> QED
  BY <1>1, <1>2, <1>3, <1>4, <1>5, <1>6, <1>7, <1>8, <1>9, <1>10, <1>11, <1>12, <1>13,
     <1>14, <1>15, <1>16, <1>17, <1>18, <1>19, <1>20, <1>21, <1>22, Steps

-----------------------------------------------------------------------------
(* The stop reason, the error and the cutoff agree.                        *)

LEMMA ReasonStep ==
    ASSUME TypeInv, CountInv, PlaceInv, SignalInv, GateInv, ReasonInv, [Next]_vars
    PROVE  ReasonInv'
<1> USE DEF ReasonInv, Loop, Ending, After, owner, env, InTry, InvocationOnly, Leave, NoFault,
            Fault
<1>a. /\ Len(attempts) \in Nat /\ dirty \in BOOLEAN /\ cutoff \in BOOLEAN
      /\ sig \in {"armed", "ignored"}
      /\ cur.raising \in {"none", "interrupted", "other"}
  BY Types DEF TypeInv, TypeOK
<1>1. CASE run_campaign
  BY <1>1, <1>a DEF run_campaign
<1>2. CASE StagePasses
  <2>1. /\ pc = "stage" /\ stage \in 0 .. 12
        /\ UNCHANGED <<attempts, dirty, sig, error, cutoff, failed>>
    BY <1>2, Types, StageFacts DEF StagePasses, PlaceInv
  <2>2. reason' \notin {"completed", "hard_cutoff", "cleanup_failure"}
    <3>1. reason' = "trial_failure" \/ (stage + 1 # 13 /\ reason' = Stages[stage + 2].reason)
      BY <1>2, StageFacts DEF StagePasses
    <3>2. stage + 1 # 13 => stage + 2 \in 1 .. 13
      BY <2>1
    <3> QED BY <3>1, <3>2, StageFacts
  <2> QED BY <1>a, <2>1, <2>2
<1>3. CASE StageFails \/ (SignalRaised /\ InterruptStage)
  BY <1>3, <1>a DEF StageFails, StageAborts, InterruptStage, SignalRaised
<1>4. CASE TrialBegins
  <2>1. /\ pc = "trial" /\ UNCHANGED <<failed, attempts, sig, dirty>>
        /\ \/ pc' = "summary" /\ error' = "other" /\ reason' = "trial_failure" /\ cutoff' = cutoff
           \/ pc' = "summary" /\ error' = "none" /\ reason' = "hard_cutoff" /\ cutoff' = TRUE
           \/ pc' = "overlay" /\ error' = error /\ reason' = reason /\ cutoff' = cutoff
    BY <1>4 DEF TrialBegins
  <2> QED BY <1>a, <2>1
<1>5. CASE prepare_runtime_overlay \/ build_harbor_invocation
  BY <1>5, <1>a DEF prepare_runtime_overlay, build_harbor_invocation
<1>6. CASE Snapshot
  BY <1>6, <1>a DEF Snapshot
<1>7. CASE ProcessTimesOut
  BY <1>7, <1>a DEF ProcessTimesOut
<1>8. CASE ProcessEnds
  BY <1>8, <1>a DEF ProcessEnds
<1>9. CASE Inspect
  BY <1>9, <1>a DEF Inspect
<1>10. CASE cleanup_harbor_containers
  BY <1>10, <1>a DEF cleanup_harbor_containers
<1>11. CASE _remove_built_image
  <2>1. /\ pc = "image" /\ UNCHANGED <<failed, attempts, sig, dirty, cutoff>>
        /\ \/ pc' = "load" /\ UNCHANGED <<error, reason>>
           \/ /\ pc' = "summary" /\ error' # "none"
              /\ reason' \in {"trial_failure", "interrupted"}
    BY <1>11, StatusEffect
  <2> QED BY <1>a, <2>1
<1>12. CASE LoadResult
  <2>1. /\ pc = "load" /\ UNCHANGED <<failed, sig, dirty, cutoff>>
        /\ \/ pc' = "gate" /\ UNCHANGED <<error, reason>>
           \/ pc' = "summary" /\ error' = "other" /\ reason' = "trial_failure"
    BY <1>12, LoadEffect
  <2> QED BY <1>a, <2>1
<1>13. CASE Gate
  <2>1. pc = "gate" /\ UNCHANGED <<failed, attempts, sig, dirty>>
    BY <1>13, GateEffect
  <2>2. attempts # <<>> /\ Len(attempts) > 0
    BY <2>1, Types DEF CountInv
  <2>3. CASE /\ pc' = "summary" /\ error' = "other" /\ reason' = "trial_failure"
             /\ UNCHANGED cutoff
    BY <1>a, <2>1, <2>3
  <2>4. CASE /\ cutoff' = TRUE /\ pc' = "summary" /\ error' = "none"
             /\ reason' = "hard_cutoff"
    BY <1>a, <2>1, <2>4
  <2>5. CASE /\ cutoff' = FALSE /\ pc' = "summary" /\ error' = "none"
             /\ reason' = _attempt_gate /\ _attempt_gate # "none"
    <3>1. reason' \notin {"completed", "hard_cutoff", "cleanup_failure"}
      BY <2>2, <2>5, GateFacts
    <3> QED BY <1>a, <2>1, <2>5, <3>1
  <2>6. CASE /\ cutoff' = FALSE /\ pc' = "summary" /\ error' = "none"
             /\ reason' = "completed" /\ _attempt_gate = "none"
             /\ Len(attempts) = NTrials
    <3>1. attempts[Len(attempts)].clean /\ attempts[Len(attempts)].admitted
      BY <2>2, <2>6, GateFacts
    <3>2. \A i \in 1 .. Len(attempts) : attempts[i].clean /\ attempts[i].admitted
      <4>1. \A i \in 1 .. Len(attempts) : i < Len(attempts) \/ i = Len(attempts)
        BY <1>a
      <4> QED BY <2>1, <3>1, <4>1 DEF GateInv
    <3>3. sig = "armed" /\ ~dirty
      BY <1>a, <2>1, <3>1 DEF SignalInv, GateInv
    <3> QED BY <2>1, <2>6, <3>2, <3>3
  <2>7. CASE /\ cutoff' = FALSE /\ pc' = "trial" /\ _attempt_gate = "none"
             /\ UNCHANGED <<error, reason>>
    BY <1>a, <2>1, <2>7
  <2> QED BY <1>13, <2>3, <2>4, <2>5, <2>6, <2>7, GateEffect
<1>14. CASE Finally
  <2>1. pc = "summary" /\ UNCHANGED sig /\ \E e : LastSummary(e)
    BY <1>14 DEF Finally
  <2>2. /\ pc' = "teardown" /\ UNCHANGED <<attempts, dirty, cutoff>>
        /\ \/ UNCHANGED <<error, reason>>
           \/ error = "none" /\ error' = "other" /\ reason' = "trial_failure"
    BY <2>1, LastEffect
  <2> QED BY <1>a, <2>1, <2>2
<1>15. CASE Removes
  <2>1. /\ pc = "teardown" /\ pc' \in {"teardown", "outcome"} /\ failed \subseteq failed'
        /\ UNCHANGED <<attempts, sig, dirty, error, reason, cutoff>>
    BY <1>15, RemoveEffect
  <2> QED BY <1>a, <2>1
<1>16. CASE ChecksCache
  <2>1. /\ pc = "teardown" /\ pc' \in {"teardown", "outcome"}
        /\ UNCHANGED <<attempts, sig, dirty, failed, cutoff>>
        /\ \/ UNCHANGED <<error, reason>>
           \/ error = "none" /\ error' = "other" /\ reason' = "runtime_admission"
    BY <1>16, CacheEffect
  <2> QED BY <1>a, <2>1
<1>17. CASE Outcome
  BY <1>17, <1>a DEF Outcome
<1>18. CASE WriteEnvelope
  BY <1>18, <1>a DEF WriteEnvelope
<1>19. CASE SignalRaised /\ InterruptTrial
  <2>1. UNCHANGED <<failed, cutoff, dirty>> /\ sig' = "ignored"
    BY <1>19, InterruptEffect DEF SignalRaised
  <2>2. \/ /\ pc \in Loop /\ pc' = "summary" /\ error' = "interrupted"
           /\ reason' = "interrupted"
        \/ pc \in Loop /\ pc' \in {"inspect", "image"} /\ UNCHANGED <<error, reason>>
    BY <1>19, InterruptEffect
  <2> QED BY <1>a, <2>1, <2>2
<1>20. CASE SignalRaised /\ InterruptTeardown
  <2>1. UNCHANGED <<attempts, dirty, cutoff>> /\ sig' = "ignored"
    BY <1>20, LateEffect, LastEffect DEF SignalRaised
  <2>2. CASE pc = "summary" /\ LastSummary("other")
    <3>1. /\ pc' = "teardown"
          /\ error' = (IF error = "none" THEN "other" ELSE error)
          /\ reason' = (IF error = "none" THEN "trial_failure" ELSE reason)
      BY <2>2, LastEffect
    <3> QED BY <1>a, <2>1, <2>2, <3>1
  <2>3. CASE /\ pc \in {"summary", "teardown", "outcome"} /\ pc' = "done"
             /\ UNCHANGED <<error, reason, failed>>
    BY <1>a, <2>1, <2>3
  <2>4. CASE /\ pc = "teardown" /\ pc' \in {"teardown", "outcome"}
             /\ failed' = failed \cup {Head(todo)} /\ UNCHANGED <<error, reason>>
    <3>1. failed' # {}
      BY <2>4
    <3> QED BY <1>a, <2>1, <2>4, <3>1
  <2>5. CASE /\ pc = "teardown" /\ pc' \in {"teardown", "outcome"} /\ UNCHANGED failed
             /\ error' = (IF error = "none" THEN "interrupted" ELSE error)
             /\ reason' = (IF error = "none" THEN "runtime_admission" ELSE reason)
    BY <1>a, <2>1, <2>5
  <2> QED BY <1>20, <2>2, <2>3, <2>4, <2>5, LateEffect
<1>21. CASE BridgeDies \/ Tick
  BY <1>21, <1>a DEF BridgeDies, Tick
<1>22. CASE UNCHANGED vars
  BY <1>22, <1>a DEF vars
<1> QED
  BY <1>1, <1>2, <1>3, <1>4, <1>5, <1>6, <1>7, <1>8, <1>9, <1>10, <1>11, <1>12, <1>13,
     <1>14, <1>15, <1>16, <1>17, <1>18, <1>19, <1>20, <1>21, <1>22, Steps

-----------------------------------------------------------------------------
(* The summary.                                                            *)

\* A summary stays true of the first of the attempts it counted.
LEMMA CountedKept ==
    ASSUME TypeInv, Counted, UNCHANGED summary, Len(attempts') \in Nat,
           Len(attempts) <= Len(attempts'),
           \A i \in 1 .. Len(attempts) : attempts'[i] = attempts[i]
    PROVE  Counted'
<1>1. SUFFICES ASSUME summary # NoSummary
               PROVE  /\ summary.n \in 0 .. Len(attempts')
                      /\ summary.done =
                           Cardinality({i \in 1 .. summary.n : Available(attempts'[i])})
  BY DEF Counted
<1>2. /\ summary.n \in 0 .. Len(attempts) /\ Len(attempts) \in Nat
      /\ summary.done = Cardinality({i \in 1 .. summary.n : Available(attempts[i])})
  BY <1>1, Types DEF Counted
<1>3. {i \in 1 .. summary.n : Available(attempts'[i])}
      = {i \in 1 .. summary.n : Available(attempts[i])}
  BY <1>2
<1>4. summary.n \in 0 .. Len(attempts')
  BY <1>2
<1> QED BY <1>2, <1>3, <1>4

LEMMA CountedMade ==
    ASSUME TypeInv, NEW c \in BOOLEAN, summary' = Summarize(c), UNCHANGED attempts
    PROVE  Counted' /\ summary'.cutoff = c
<1>1. /\ summary'.n = Len(attempts) /\ summary'.cutoff = c /\ Len(attempts) \in Nat
      /\ summary'.done = Cardinality({i \in 1 .. Len(attempts) : Available(attempts[i])})
  BY SummaryType, Types
<1> QED BY <1>1 DEF Counted

\* A summary that is not made again agrees with the cutoff only if an error is
\* recorded instead.
LEMMA LastSummaryKept ==
    ASSUME TypeInv, SummaryInv, pc = "summary", NEW e, LastSummary(e)
    PROVE  SummaryInv'
<1>1. UNCHANGED <<attempts, stage, cutoff>> /\ pc' = "teardown"
  BY LastEffect
<1>2. /\ Len(attempts) \in Nat /\ cutoff \in BOOLEAN /\ summary.cutoff \in BOOLEAN
  BY Types
<1> USE DEF SummaryInv, Ending, After
<1>3. CASE ~Admitted /\ UNCHANGED <<summary, error, reason>>
  <2>1. summary = NoSummary
    BY <1>3, AllAdmitted
  <2> QED BY <1>1, <1>2, <1>3, <2>1, CountedKept
<1>4. CASE summary' = Summarize(cutoff)
  BY <1>1, <1>2, <1>4, CountedMade
<1>5. CASE UNCHANGED summary /\ error' = (IF error = "none" THEN "other" ELSE error)
  <2>1. error' # "none"
    BY <1>5
  <2> QED BY <1>1, <1>2, <1>5, <2>1, CountedKept
<1> QED BY <1>3, <1>4, <1>5, LastEffect

LEMMA SummaryStep ==
    ASSUME TypeInv, PlaceInv, SummaryInv, [Next]_vars
    PROVE  SummaryInv'
<1> USE DEF SummaryInv, Loop, Ending, After, owner, env, InTry, InvocationOnly, Leave, NoFault,
            Fault
<1>a. /\ Len(attempts) \in Nat /\ cutoff \in BOOLEAN /\ summary.cutoff \in BOOLEAN
      /\ NoSummary.cutoff = FALSE
  BY Types DEF NoSummary
<1>b. UNCHANGED <<summary, attempts>> => Counted'
  BY <1>a, CountedKept
<1>1. CASE run_campaign
  BY <1>1, <1>a, <1>b DEF run_campaign
<1>2. CASE StagePasses
  <2>1. /\ UNCHANGED <<summary, attempts, cutoff>> /\ pc = "stage" /\ stage # Len(Stages)
        /\ pc' \in {"stage", "trial"}
    BY <1>2, StageFacts, Types DEF StagePasses, PlaceInv
  <2> QED BY <1>a, <1>b, <2>1
<1>3. CASE StageFails \/ (SignalRaised /\ InterruptStage)
  BY <1>3, <1>a, <1>b DEF StageFails, StageAborts, InterruptStage, SignalRaised
<1>4. CASE TrialBegins
  <2>1. /\ UNCHANGED <<summary, attempts, stage>> /\ pc = "trial" /\ pc' \in {"summary", "overlay"}
    BY <1>4 DEF TrialBegins
  <2> QED BY <1>a, <1>b, <2>1
<1>5. CASE prepare_runtime_overlay \/ build_harbor_invocation
  BY <1>5, <1>a, <1>b DEF prepare_runtime_overlay, build_harbor_invocation
<1>6. CASE Snapshot
  BY <1>6, <1>a, <1>b DEF Snapshot
<1>7. CASE ProcessTimesOut
  BY <1>7, <1>a, <1>b DEF ProcessTimesOut
<1>8. CASE ProcessEnds
  <2>1. UNCHANGED <<summary, attempts, stage, cutoff>> /\ pc = "run" /\ pc' = "inspect"
    BY <1>8 DEF ProcessEnds
  <2> QED BY <1>a, <1>b, <2>1
<1>9. CASE Inspect
  BY <1>9, <1>a, <1>b DEF Inspect
<1>10. CASE cleanup_harbor_containers
  BY <1>10, <1>a, <1>b DEF cleanup_harbor_containers
<1>11. CASE _remove_built_image
  BY <1>11, <1>a, <1>b, StatusEffect
<1>12. CASE LoadResult
  <2>1. UNCHANGED <<summary, stage, cutoff>> /\ pc = "load" /\ pc' \in {"gate", "summary"}
    BY <1>12, LoadEffect
  <2>2. Counted'
    BY <1>12, <1>a, LoadEffect, CountedKept
  <2> QED BY <1>a, <2>1, <2>2
<1>13. CASE Gate
  <2>1. UNCHANGED <<attempts, stage>> /\ pc = "gate" /\ pc' \in {"summary", "trial"}
    BY <1>13, GateEffect
  <2>2. stage = Len(Stages)
    BY <2>1 DEF PlaceInv
  <2>3. CASE UNCHANGED summary
    BY <1>a, <1>b, <2>1, <2>2, <2>3
  <2>4. CASE summary' = Summarize(FALSE)
    BY <1>a, <2>1, <2>2, <2>4, CountedMade
  <2> QED BY <1>13, <2>3, <2>4, GateEffect
<1>14. CASE Finally
  <2>1. pc = "summary" /\ \E e : LastSummary(e)
    BY <1>14 DEF Finally
  <2> QED BY <2>1, LastSummaryKept
<1>15. CASE Removes
  BY <1>15, <1>a, <1>b, RemoveEffect
<1>16. CASE ChecksCache
  <2>1. /\ pc = "teardown" /\ pc' \in {"teardown", "outcome"}
        /\ UNCHANGED <<attempts, summary, cutoff>> /\ (error' = "none" => error = "none")
    BY <1>16, CacheEffect
  <2> QED BY <1>a, <1>b, <2>1
<1>17. CASE Outcome
  BY <1>17, <1>a, <1>b DEF Outcome
<1>18. CASE WriteEnvelope
  <2>1. UNCHANGED <<attempts, summary, cutoff, error>> /\ pc = "envelope" /\ pc' = "done"
    BY <1>18 DEF WriteEnvelope
  <2> QED BY <1>a, <1>b, <2>1
<1>19. CASE SignalRaised /\ InterruptTrial
  <2>1. UNCHANGED <<summary, stage, cutoff>> /\ pc \in Loop /\ pc' \in {"summary", "inspect", "image"}
    BY <1>19, InterruptEffect
  <2>2. Counted'
    <3>1. CASE UNCHANGED attempts
      BY <1>b, <2>1, <3>1
    <3>2. CASE /\ Len(attempts') = Len(attempts) + 1
               /\ \A i \in 1 .. Len(attempts) : attempts'[i] = attempts[i]
      BY <1>a, <2>1, <3>2, CountedKept
    <3> QED BY <1>19, <3>1, <3>2, InterruptEffect
  <2> QED BY <1>a, <2>1, <2>2
<1>20. CASE SignalRaised /\ InterruptTeardown
  <2>1. UNCHANGED <<attempts, stage, cutoff>> /\ pc \in After /\ pc' \in Ending \cup {"done"}
    BY <1>20, LateEffect, LastEffect
  <2>2. CASE pc = "summary" /\ LastSummary("other")
    BY <2>2, LastSummaryKept
  <2>3. CASE pc' = "done" /\ UNCHANGED summary
    BY <1>a, <1>b, <2>1, <2>3
  <2>4. CASE pc = "teardown" /\ UNCHANGED summary /\ (error' = "none" => error = "none")
    BY <1>a, <1>b, <2>1, <2>4
  <2> QED BY <1>20, <2>2, <2>3, <2>4, LateEffect
<1>21. CASE BridgeDies \/ Tick
  BY <1>21, <1>a, <1>b DEF BridgeDies, Tick
<1>22. CASE UNCHANGED vars
  BY <1>22, <1>a, <1>b DEF vars
<1> QED
  BY <1>1, <1>2, <1>3, <1>4, <1>5, <1>6, <1>7, <1>8, <1>9, <1>10, <1>11, <1>12, <1>13,
     <1>14, <1>15, <1>16, <1>17, <1>18, <1>19, <1>20, <1>21, <1>22, Steps

-----------------------------------------------------------------------------
(* What the teardown has passed.                                           *)

\* One more step of the teardown.
LEMMA RemovedAdvance ==
    ASSUME TypeInv, PlaceInv, RemovedInv, [Next]_vars, pc = "teardown", todo' = Tail(todo),
           exists' \subseteq exists, failed \subseteq failed', UNCHANGED handles,
           \/ Head(todo) \notin exists' \/ Head(todo) \in failed'
           \/ Head(todo) \in Handles \ handles
    PROVE  RemovedInv'
<1>1. Taken \in 0 .. 11 /\ Taken' = Taken + 1 /\ Head(todo) = Teardown[Taken + 1]
  BY AdvanceEffect
<1>2. \A i \in 1 .. Taken + 1 : i \in 1 .. Taken \/ i = Taken + 1
  BY <1>1
<1> QED BY <1>1, <1>2 DEF RemovedInv

LEMMA RemovedStep ==
    ASSUME TypeInv, PlaceInv, RemovedInv, [Next]_vars
    PROVE  RemovedInv'
<1> USE DEF RemovedInv, Loop, Ending, After, owner, env, InTry, InvocationOnly, Leave, NoFault,
            Fault
<1>a. /\ Taken \in 0 .. 12 /\ exists \subseteq Resources
      /\ (pc \notin After \/ pc = "summary" => Taken = 0)
  <2>1. Taken \in 0 .. 12 /\ exists \subseteq Resources
    BY Types DEF TypeInv, TypeOK
  <2>2. pc \notin After \/ pc = "summary" => todo = Teardown
    BY DEF PlaceInv
  <2>3. todo = Teardown => Taken = 0
    BY TeardownFacts DEF Taken
  <2> QED BY <2>1, <2>2, <2>3
<1>b. (pc # "teardown" => Taken' = Taken) /\ (todo' = todo => Taken' = Taken)
  BY TodoKept DEF Taken
<1>c. UNCHANGED <<exists, handles, failed, todo>> => RemovedInv'
  BY <1>b
<1>1. CASE run_campaign
  BY <1>1, <1>a, <1>b DEF run_campaign
<1>2. CASE StagePasses
  <2> DEFINE got == Stages[stage + 1].acquires
  <2>1. /\ pc = "stage" /\ exists' = exists \cup got
        /\ handles' = handles \cup (got \cap Handles)
    BY <1>2 DEF StagePasses
  <2> HIDE DEF got
  <2>2. "telemetry" \in Handles
    BY DEF Handles
  <2> QED BY <1>a, <1>b, <2>1, <2>2
<1>3. CASE StageFails \/ (SignalRaised /\ InterruptStage)
  <2> DEFINE rest == Stages[stage + 1].leaves
  <2>1. /\ pc = "stage" /\ exists' \in {exists, exists \cup rest}
        /\ handles' = handles \cup (rest \cap {"telemetry"})
    BY <1>3 DEF StageFails, InterruptStage, StageAborts
  <2> HIDE DEF rest
  <2> QED BY <1>a, <1>b, <2>1
<1>4. CASE TrialBegins
  BY <1>4, <1>c DEF TrialBegins
<1>5. CASE prepare_runtime_overlay \/ build_harbor_invocation
  BY <1>5, <1>c DEF prepare_runtime_overlay, build_harbor_invocation
<1>6. CASE Snapshot
  BY <1>6, <1>c DEF Snapshot
<1>7. CASE ProcessTimesOut
  BY <1>7, <1>c DEF ProcessTimesOut
<1>8. CASE ProcessEnds
  <2>1. UNCHANGED <<exists, handles, failed, todo>>
    BY <1>8 DEF ProcessEnds
  <2> QED BY <1>c, <2>1
<1>9. CASE Inspect
  BY <1>9, <1>c DEF Inspect
<1>10. CASE cleanup_harbor_containers
  BY <1>10, <1>c DEF cleanup_harbor_containers
<1>11. CASE _remove_built_image
  BY <1>11, <1>c, StatusEffect
<1>12. CASE LoadResult
  BY <1>12, <1>c, LoadEffect
<1>13. CASE Gate
  BY <1>13, <1>c, GateEffect
<1>14. CASE Finally
  <2>1. pc = "summary" /\ \E e : LastSummary(e)
    BY <1>14 DEF Finally
  <2> QED BY <1>a, <1>b, <2>1, LastEffect
<1>15. CASE Removes
  <2>1. /\ pc = "teardown" /\ todo' = Tail(todo) /\ UNCHANGED handles
        /\ exists' \subseteq exists /\ failed \subseteq failed'
    BY <1>15, RemoveEffect
  <2>2. Head(todo) \in Gone(Head(todo))
    BY DEF Gone
  <2>3. \/ Head(todo) \notin exists' \/ Head(todo) \in failed'
        \/ Head(todo) \in Handles \ handles
    BY <1>15, <2>2, RemoveEffect
  <2> QED BY <2>1, <2>3, RemovedAdvance
<1>16. CASE ChecksCache
  <2>1. "cache" \notin exists
    BY <1>a DEF Resources
  <2> QED BY <1>16, <2>1, CacheEffect, RemovedAdvance
<1>17. CASE Outcome
  BY <1>17, <1>c DEF Outcome
<1>18. CASE WriteEnvelope
  <2>1. UNCHANGED <<exists, handles, failed, todo>>
    BY <1>18 DEF WriteEnvelope
  <2> QED BY <1>c, <2>1
<1>19. CASE SignalRaised /\ InterruptTrial
  BY <1>19, <1>c, InterruptEffect
<1>20. CASE SignalRaised /\ InterruptTeardown
  <2>1. CASE pc = "summary" /\ LastSummary("other")
    BY <1>a, <1>b, <2>1, LastEffect
  <2>2. CASE UNCHANGED <<exists, handles, failed, todo>>
    BY <1>c, <2>2
  <2>3. CASE /\ pc = "teardown" /\ todo' = Tail(todo) /\ UNCHANGED <<exists, handles>>
             /\ failed' = failed \cup {Head(todo)}
    BY <2>3, RemovedAdvance
  <2>4. CASE /\ pc = "teardown" /\ todo' = Tail(todo) /\ UNCHANGED <<exists, handles, failed>>
             /\ Head(todo) = "cache"
    <3>1. "cache" \notin exists
      BY <1>a DEF Resources
    <3> QED BY <2>4, <3>1, RemovedAdvance
  <2> QED BY <1>20, <2>1, <2>2, <2>3, <2>4, LateEffect
<1>21. CASE BridgeDies \/ Tick
  BY <1>21, <1>c DEF BridgeDies, Tick
<1>22. CASE UNCHANGED vars
  BY <1>22, <1>c DEF vars
<1> QED
  BY <1>1, <1>2, <1>3, <1>4, <1>5, <1>6, <1>7, <1>8, <1>9, <1>10, <1>11, <1>12, <1>13,
     <1>14, <1>15, <1>16, <1>17, <1>18, <1>19, <1>20, <1>21, <1>22, Steps

-----------------------------------------------------------------------------
(* The envelope.                                                           *)

\* A clean envelope: what is left was never handed to the owner.
LEMMA CleanTruthful ==
    ASSUME TypeInv, PlaceInv, DockerInv, RemovedInv, pc = "envelope", failed = {}
    PROVE  docker = {} /\ exists \subseteq {"server", "bridge"} \ handles
<1>1. docker = {}
  BY DEF DockerInv, Ending
<1>2. Taken = 12
  BY TeardownFacts DEF PlaceInv
<1>3. ASSUME NEW r \in exists PROVE r \in {"server", "bridge"} \ handles
  <2>1. PICK i \in 1 .. 12 : Teardown[i] = r
    BY <1>3, TeardownFacts DEF TypeInv, TypeOK
  <2>2. r \in Handles \ handles
    BY <1>2, <1>3, <2>1 DEF RemovedInv
  <2> QED BY <1>3, <2>2 DEF RemovedInv, Handles
<1> QED BY <1>1, <1>3

\* An envelope that says "completed": every trial was measured.
LEMMA CompletedTruthful ==
    ASSUME TypeInv, ReasonInv, SummaryInv, pc = "envelope", Status = "completed",
           validate_lifecycle_envelope
    PROVE  /\ failed = {} /\ sig = "armed" /\ ~dirty /\ Len(attempts) = NTrials
           /\ \A i \in Trials : Available(attempts[i]) /\ attempts[i].clean
                                /\ attempts[i].admitted
<1>1. /\ Len(attempts) = NTrials /\ Completed = NTrials /\ reason = "completed"
      /\ error = "none" /\ failed = {}
  BY DEF Status
<1>2. /\ sig = "armed" /\ ~dirty
      /\ \A i \in 1 .. Len(attempts) : attempts[i].clean /\ attempts[i].admitted
  BY <1>1 DEF ReasonInv
<1>3. summary.n = NTrials /\ summary.done = NTrials
  BY <1>1 DEF validate_lifecycle_envelope
<1>4. NTrials \in Nat /\ NTrials \in 0 .. Len(attempts)
  BY <1>1, HarborAssumption
<1>5. summary # NoSummary
  BY <1>3, <1>4 DEF NoSummary
<1>6. Cardinality({i \in 1 .. NTrials : Available(attempts[i])}) = NTrials
  BY <1>3, <1>5 DEF SummaryInv, Counted
<1>7. \A i \in 1 .. NTrials : Available(attempts[i])
  BY <1>4, <1>6, Counts
<1> QED BY <1>1, <1>2, <1>7 DEF Trials

\* The validator accepts what none of the four reasons spoils.
LEMMA ValidatorAccepts ==
    ASSUME TypeInv, PlaceInv, ReasonInv, SummaryInv, pc = "envelope",
           \A i \in DOMAIN attempts : Available(attempts[i]),
           cacheOk, ~(cutoff /\ error # "none"), summary.n = Len(attempts)
    PROVE  validate_lifecycle_envelope
<1>1. /\ Len(attempts) \in Nat /\ DOMAIN attempts = 1 .. Len(attempts)
      /\ cutoff \in BOOLEAN /\ summary.cutoff \in BOOLEAN
  BY Types
<1>2. summary # NoSummary
  BY <1>1 DEF NoSummary
<1>3. /\ {i \in 1 .. Len(attempts) : Available(attempts[i])} = 1 .. Len(attempts)
      /\ {i \in DOMAIN attempts : attempts[i].result} = 1 .. Len(attempts)
  BY <1>1 DEF Available
<1>4. Cardinality(1 .. Len(attempts)) = Len(attempts)
  <2>1. \A n \in Nat : Cardinality(1 .. n) = n
    <3>1. \A n \in Nat : 1 \in Int /\ n \in Int /\ n - 1 + 1 = n /\ (1 > n <=> n = 0)
      OBVIOUS
    <3> QED BY <3>1, FS_Interval
  <2> QED BY <1>1, <2>1
<1>5. Completed = Len(attempts) /\ summary.done = Len(attempts)
  BY <1>2, <1>3, <1>4 DEF Completed, SummaryInv, Counted
<1>6. summary.cutoff = cutoff
  <2>1. CASE error = "none"
    BY <1>2, <2>1 DEF SummaryInv, Ending
  <2>2. CASE error # "none"
    BY <1>1, <2>2 DEF SummaryInv
  <2> QED BY <2>1, <2>2
<1>7. summary = [n |-> Len(attempts), done |-> Completed, cutoff |-> cutoff]
  BY <1>5, <1>6 DEF TypeInv, Summary
<1>8. attempts # <<>> => stage = Len(Stages) /\ cacheOk
  BY DEF PlaceInv
<1>9. /\ reason = "hard_cutoff" => cutoff
      /\ cutoff => reason \in {"hard_cutoff", "cleanup_failure"}
      /\ reason = "cleanup_failure" => failed # {}
  BY DEF ReasonInv
<1>10. (reason = "completed") = (Status = "completed")
  <2>1. ASSUME reason = "completed" PROVE Status = "completed"
    <3>1. Len(attempts) = NTrials /\ error = "none" /\ failed = {}
      BY <2>1 DEF ReasonInv
    <3> QED BY <1>5, <2>1, <3>1 DEF Status
  <2>2. ASSUME Status = "completed" PROVE reason = "completed"
    BY <2>2 DEF Status
  <2> QED BY <2>1, <2>2
<1> QED BY <1>7, <1>8, <1>9, <1>10 DEF validate_lifecycle_envelope

\* Once there is an envelope nothing it speaks of changes.
Spoken == <<pc, out, docker, exists, handles, sig, dirty, attempts, cacheOk, cutoff, error,
            summary>>

LEMMA OutKept ==
    ASSUME TypeInv, OutInv, [Next]_vars, ~WriteEnvelope
    PROVE  out' = out /\ (pc = "done" => UNCHANGED Spoken)
<1> USE DEF Spoken, owner, env, InTry, InvocationOnly
<1>1. CASE run_campaign \/ StagePasses \/ StageFails \/ TrialBegins
           \/ prepare_runtime_overlay \/ build_harbor_invocation \/ Snapshot
  BY <1>1 DEF run_campaign, StagePasses, StageFails, StageAborts, TrialBegins,
     prepare_runtime_overlay, build_harbor_invocation, Snapshot
<1>2. CASE ProcessTimesOut \/ ProcessEnds \/ Inspect \/ cleanup_harbor_containers
           \/ _remove_built_image
  BY <1>2 DEF ProcessTimesOut, ProcessEnds, Inspect, cleanup_harbor_containers,
     _remove_built_image
<1>3. CASE LoadResult \/ Gate \/ Finally
  BY <1>3 DEF LoadResult, Gate, Finally, LastSummary
<1>4. CASE Removes \/ ChecksCache \/ Outcome
  BY <1>4 DEF Removes, ChecksCache, Outcome
<1>5. CASE InterruptStage \/ InterruptTrial \/ InterruptTeardown
  BY <1>5 DEF InterruptStage, StageAborts, InterruptTrial, InterruptTeardown, LastSummary
<1>6. CASE BridgeDies \/ Tick \/ UNCHANGED vars
  BY <1>6 DEF BridgeDies, Tick, vars
<1> QED BY <1>1, <1>2, <1>3, <1>4, <1>5, <1>6, Steps

LEMMA OutStep ==
    ASSUME TypeInv, PlaceInv, DockerInv, ReasonInv, SummaryInv, RemovedInv, OutInv, [Next]_vars
    PROVE  OutInv'
<1>1. CASE ~WriteEnvelope
  <2>1. out' = out /\ (pc = "done" => UNCHANGED Spoken)
    BY <1>1, OutKept
  <2>2. CASE out.state = "none"
    BY <2>1, <2>2 DEF OutInv, EnvelopeTruthful, Spoken
  <2>3. CASE out.state # "none"
    <3>1. pc = "done" /\ UNCHANGED Spoken
      BY <2>1, <2>3 DEF OutInv
    <3> QED BY <3>1 DEF OutInv, EnvelopeTruthful, Spoken
  <2> QED BY <2>2, <2>3
<1>2. CASE WriteEnvelope
  <2>1. /\ pc = "envelope" /\ pc' = "done"
        /\ UNCHANGED <<docker, exists, handles, sig, dirty, attempts, cacheOk, cutoff, error,
                       summary>>
    BY <1>2 DEF WriteEnvelope, owner, env
  <2>2. CASE UNCHANGED out
    BY <2>1, <2>2 DEF OutInv, EnvelopeTruthful
  <2>3. CASE out' = [state |-> IF validate_lifecycle_envelope THEN "written" ELSE "rejected",
                     status |-> Status, clean |-> failed = {}]
    <3>1. /\ out'.status = Status /\ out'.clean = (failed = {})
          /\ out'.state = IF validate_lifecycle_envelope THEN "written" ELSE "rejected"
      BY <2>3
    <3>2. CASE validate_lifecycle_envelope
      <4>1. out'.state = "written"
        BY <3>1, <3>2
      <4>2. out'.clean => docker = {} /\ exists \subseteq {"server", "bridge"} \ handles
        BY <2>1, <3>1, CleanTruthful
      <4>3. out'.status = "completed" =>
             /\ out'.clean /\ sig = "armed" /\ ~dirty /\ Len(attempts) = NTrials
             /\ \A i \in Trials : Available(attempts[i]) /\ attempts[i].clean
                                  /\ attempts[i].admitted
        BY <2>1, <3>1, <3>2, CompletedTruthful
      <4> QED BY <2>1, <4>1, <4>2, <4>3 DEF OutInv, EnvelopeTruthful
    <3>3. CASE ~validate_lifecycle_envelope
      <4>1. out'.state = "rejected"
        BY <3>1, <3>3
      <4>2. \/ \E i \in DOMAIN attempts : ~Available(attempts[i])
            \/ ~cacheOk
            \/ cutoff /\ error # "none"
            \/ summary.n # Len(attempts)
        BY <2>1, <3>3, ValidatorAccepts
      <4> QED BY <2>1, <4>1, <4>2 DEF OutInv, EnvelopeTruthful
    <3> QED BY <3>2, <3>3
  <2> QED BY <1>2, <2>2, <2>3 DEF WriteEnvelope
<1> QED BY <1>1, <1>2

-----------------------------------------------------------------------------
(* The theorems.                                                           *)

LEMMA Begins == Init => IInv
<1> SUFFICES ASSUME Init PROVE IInv
  OBVIOUS
<1>1. Len(Teardown) = 12 /\ Len(Stages) = 13 /\ NTrials \in Nat \ {0} /\ MaxFaults \in Nat
  BY TeardownFacts, StageFacts, HarborAssumption
<1>2. Taken = 0 /\ todo = Rest(0)
  BY <1>1, RestFacts DEF Init, Taken
<1>3. TypeInv
  <2>1. cur \in Invocation /\ summary \in Summary
    BY DEF Init, NoCur, NoSummary, Invocation, Summary
  <2>2. {cutoff, late, dirty, cacheOk, bridgeUp} \subseteq BOOLEAN
    BY DEF Init
  <2>3. statuses \in Seq(BOOLEAN) /\ attempts \in Seq(Attempt) /\ stage \in 0 .. Len(Stages)
    BY <1>1 DEF Init
  <2>4. /\ exists \subseteq Resources /\ handles \subseteq Handles /\ failed \subseteq Flags
        /\ docker \subseteq Trials \X Parts
    BY DEF Init
  <2>5. invocations \in 0 .. NTrials /\ faults \in 0 .. MaxFaults
    <3>1. invocations = 0 /\ faults = 0
      BY DEF Init
    <3> QED BY <1>1, <3>1
  <2>6. lock \in BOOLEAN
    BY DEF Init
  <2>7. /\ pc = "idle" /\ sig \in {"armed", "ignored"}
        /\ error \in {"none", "interrupted", "other"} /\ left \in {"plenty", "short", "over"}
    BY DEF Init
  <2>8. TypeOK
    BY <2>2, <2>3, <2>4, <2>5, <2>6, <2>7 DEF TypeOK
  <2> QED BY <1>1, <1>2, <2>1, <2>8 DEF TypeInv
<1>4. CountInv
  BY <1>1 DEF Init, CountInv
<1>5. PlaceInv
  BY <1>1 DEF Init, PlaceInv, TeardownComplete, Loop, Ending, After
<1>6. SignalInv /\ DockerInv
  BY DEF Init, SignalInv, DockerInv, NoCur, Ending
<1>7. GateInv /\ ReasonInv
  BY DEF Init, GateInv, ReasonInv, Loop, Ending, After
<1>8. SummaryInv /\ RemovedInv
  BY <1>2 DEF Init, SummaryInv, Counted, RemovedInv, NoSummary
<1>9. OutInv
  BY DEF Init, OutInv, EnvelopeTruthful, NoEnvelope
<1> QED BY <1>3, <1>4, <1>5, <1>6, <1>7, <1>8, <1>9 DEF IInv

LEMMA Step == IInv /\ [Next]_vars => IInv'
<1> SUFFICES ASSUME IInv, [Next]_vars PROVE IInv'
  OBVIOUS
<1> USE DEF IInv
<1>1. TypeInv' /\ CountInv' /\ PlaceInv' /\ SignalInv'
  BY TypeStep, CountStep, PlaceStep, SignalStep
<1>2. DockerInv' /\ GateInv' /\ ReasonInv' /\ SummaryInv'
  BY DockerStep, GateStep, ReasonStep, SummaryStep
<1>3. RemovedInv' /\ OutInv'
  BY RemovedStep, OutStep
<1> QED BY <1>1, <1>2, <1>3

LEMMA Invariance == Spec => []IInv
  BY Begins, Step, PTL DEF Spec

\* The owner's records keep their types, and unless the first signal arrives in
\* the finally block itself the lock of _execute_campaign_locked is not released
\* before every step of the teardown was tried, whatever failed before.
THEOREM TeardownAlwaysTried == Spec => []Orderly
<1>1. IInv => Orderly
  BY DEF IInv, TypeInv, PlaceInv, Orderly
<1> QED BY <1>1, Invariance, PTL

\* What write_lifecycle_envelope publishes is true for every number of trials
\* and failures: a clean envelope leaves nothing behind but a server or a bridge
\* whose own start failed, a completed one has every trial measured, admitted
\* and cleaned up, and the validator refuses only what one of four reasons spoils.
THEOREM EnvelopesTruthful == Spec => []EnvelopeTruthful
<1>1. IInv => EnvelopeTruthful
  BY DEF IInv, OutInv
<1> QED BY <1>1, Invariance, PTL

\* No invocation is started after the first signal, also when the cleanup of a
\* trial swallowed the exception: the trial's gate then ends the campaign.
THEOREM SignalStopsTrials == Spec => InterruptStops
<1>1. IInv /\ [Next]_vars => [sig = "ignored" => invocations' = invocations]_vars
  <2> SUFFICES ASSUME IInv, [Next]_vars, sig = "ignored" PROVE invocations' = invocations
    OBVIOUS
  <2> USE DEF owner, env, InTry, InvocationOnly
  <2>1. CASE build_harbor_invocation
    BY <2>1 DEF build_harbor_invocation, IInv, SignalInv, After, Ending
  <2>2. CASE run_campaign \/ StagePasses \/ StageFails \/ TrialBegins
             \/ prepare_runtime_overlay \/ Snapshot
    BY <2>2 DEF run_campaign, StagePasses, StageFails, StageAborts, TrialBegins,
       prepare_runtime_overlay, Snapshot
  <2>3. CASE ProcessTimesOut \/ ProcessEnds \/ Inspect \/ cleanup_harbor_containers
             \/ _remove_built_image \/ LoadResult
    BY <2>3 DEF ProcessTimesOut, ProcessEnds, Inspect, cleanup_harbor_containers,
       _remove_built_image, LoadResult
  <2>4. CASE Gate \/ Finally \/ Removes \/ ChecksCache \/ Outcome \/ WriteEnvelope
    BY <2>4 DEF Gate, Finally, LastSummary, Removes, ChecksCache, Outcome, WriteEnvelope
  <2>5. CASE InterruptStage \/ InterruptTrial \/ InterruptTeardown
    BY <2>5 DEF InterruptStage, StageAborts, InterruptTrial, InterruptTeardown, LastSummary
  <2>6. CASE BridgeDies \/ Tick \/ UNCHANGED vars
    BY <2>6 DEF BridgeDies, Tick, vars
  <2> QED BY <2>1, <2>2, <2>3, <2>4, <2>5, <2>6, Steps
<1> QED BY <1>1, Invariance, PTL DEF Spec, InterruptStops
=============================================================================
