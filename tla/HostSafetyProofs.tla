-------------------------- MODULE HostSafetyProofs --------------------------
(***************************************************************************)
(* TLAPS proofs about HostSafety, for all thresholds and all texts.        *)
(*                                                                         *)
(* AbortAtMostOnce, AbortBeforeStopReturns and StopFreezesVerdict are not  *)
(* inductive.  Inv strengthens them with where the claim of the callback   *)
(* is (ClaimInv), with the correspondence between the monitor's program    *)
(* counter and the thread's liveness (MonitorInv), and with what is true   *)
(* while and after stop() runs (ClosedInv).  SilenceMeansSafe needs that    *)
(* the sample a thread has just taken is being judged (SilenceInv).        *)
(***************************************************************************)
EXTENDS HostSafety, TLAPS

\* The sample made of an accepted text is a sample: nothing negative.
LEMMA ParsedIsSample ==
    ASSUME NEW text \in Texts, parse_error(text) = "none"
    PROVE  parse_meminfo(text) \in Sample
<1>1. text \in [1..4 -> Field]
  BY TextAssumption
<1>2. \A i \in 1..4 : ~Unreadable(text[i]) /\ text[i] # Absent
  BY DEF parse_error
<1>3. \A i \in 1..4 : text[i] \in Nat
  BY <1>1, <1>2 DEF Unreadable, Field
<1>4. ~(text[4] > text[3])
  BY <1>2 DEF parse_error
<1>5. /\ text[2] \in Nat /\ text[3] \in Nat /\ text[4] \in Nat
      /\ text[3] - text[4] \in Nat
  BY <1>3, <1>4
<1>6. QED
  BY <1>5 DEF parse_meminfo, Sample

LEMMA ParseErrorIsCode ==
    ASSUME NEW text
    PROVE  parse_error(text) \in Codes \cup {"none"}
  BY DEF parse_error, Codes, ParseCodes

LEMMA VerdictIsCode ==
    ASSUME NEW s, NEW b, NEW starting \in BOOLEAN
    PROVE  verdict(s, b, starting) \in Codes \cup {"none"}
  BY DEF verdict, Codes, BreachCodes

-----------------------------------------------------------------------------
\* Whoever calls _trip has a failure to record.
PendInv == \A t \in Threads : pc[t] = "trip" => pend[t] # "none"

\* The callback is claimed exactly when it is due, by one thread, for one call.
ClaimInv ==
    /\ failure # "none" /\ registered => invoked
    /\ invoked => failure # "none" /\ registered
    /\ ~invoked => calls = 0 /\ ~InCallback(Owner) /\ ~InCallback(Monitor)
    /\ invoked => \/ calls = 0 /\ InCallback(Owner) /\ ~InCallback(Monitor)
                  \/ calls = 0 /\ ~InCallback(Owner) /\ InCallback(Monitor)
                  \/ calls = 1 /\ ~InCallback(Owner) /\ ~InCallback(Monitor)

\* The thread is alive exactly while its program counter is inside _run.
MonitorInv == thread = "alive" <=> pc[Monitor] \notin {"unborn", "done"}

\* start() cannot be under way on a closed watchdog, and a monitor that
\* outlives the join has been tripped.
ClosedInv ==
    closed => /\ pc[Owner] \in {"idle", "join", "trip", "callback", "raise",
                                "reraise"}
              /\ \/ thread # "alive"
                 \/ failure # "none"
                 \/ pc[Owner] \in {"join", "trip"}

\* Until start() spawns the monitor there is none, and start() is never
\* entered on a started or closed watchdog.
SpawnInv ==
    /\ pc[Monitor] # "unborn" => started \/ pc[Owner] = "mark"
    /\ pc[Owner] \in {"sample", "read", "evaluate", "spawn"} =>
            ~started /\ ~closed
    /\ pc[Owner] \in {"sample", "read", "evaluate"} =>
            ret[Owner] = "raise" /\ cont = "spawn"
    /\ (pc[Owner] = "raise" /\ cont = "spawn") => ~started /\ ~closed
    /\ (pc[Owner] \in {"trip", "callback"} /\ ret[Owner] = "raise"
          /\ cont = "spawn") => ~started /\ ~closed

Inv == TypeOK /\ PendInv /\ ClaimInv /\ MonitorInv /\ ClosedInv /\ SpawnInv

LEMMA InitInv == Init => Inv
<1> SUFFICES ASSUME Init PROVE Inv
  OBVIOUS
<1> USE DEF Threads, Owner, Monitor, OwnerPCs, MonitorPCs, InCallback
<1>1. /\ stop_event \in BOOLEAN /\ started \in BOOLEAN /\ closed \in BOOLEAN
      /\ registered \in BOOLEAN /\ invoked \in BOOLEAN
      /\ callback_error \in BOOLEAN
      /\ ~invoked /\ ~registered /\ ~closed /\ ~started
  BY Zenon DEF Init
<1>2. pc[Owner] = "idle" /\ pc[Monitor] = "unborn"
  BY DEF Init
<1>3. TypeOK
  BY <1>1, <1>2 DEF Init, TypeOK
<1>4. PendInv /\ MonitorInv
  BY <1>2 DEF Init, PendInv, MonitorInv
<1>5. calls = 0
  BY DEF Init
<1>6. ClaimInv
  BY <1>1, <1>2, <1>5 DEF ClaimInv
<1>7. ClosedInv /\ SpawnInv
  BY <1>1, <1>2 DEF ClosedInv, SpawnInv
<1>8. QED
  BY <1>3, <1>4, <1>6, <1>7 DEF Inv

-----------------------------------------------------------------------------
(* sample_once and _trip keep Inv, whichever thread runs them.             *)

LEMMA SampleOnceInv ==
    ASSUME Inv, NEW t \in Threads, SampleOnce(t)
    PROVE  Inv'
  BY DEF Inv, TypeOK, PendInv, ClaimInv, MonitorInv, ClosedInv, SpawnInv,
         InCallback, Threads, Owner, Monitor, OwnerPCs, MonitorPCs,
         SampleOnce, Goto, shared

LEMMA ReadMeminfoInv ==
    ASSUME Inv, NEW t \in Threads, ReadMeminfo(t)
    PROVE  Inv'
<1>1. /\ pc[t] = "read"
      /\ UNCHANGED <<shared, ret, cont, outcome>>
  BY DEF ReadMeminfo
<1>2. \/ /\ pc' = [pc EXCEPT ![t] = "trip"]
         /\ raw' = raw
         /\ \E c \in Codes : pend' = [pend EXCEPT ![t] = c]
      \/ /\ pc' = [pc EXCEPT ![t] = "evaluate"]
         /\ \E s \in Sample : raw' = [raw EXCEPT ![t] = s]
         /\ pend' = pend
  <2>1. CASE /\ pend' = [pend EXCEPT ![t] = "meminfo_read_failed"]
             /\ Goto(t, "trip")
             /\ UNCHANGED raw
    BY <2>1 DEF Goto, Codes
  <2>2. CASE \E text \in Texts :
            IF parse_error(text) # "none"
            THEN /\ pend' = [pend EXCEPT ![t] = parse_error(text)]
                 /\ Goto(t, "trip")
                 /\ UNCHANGED raw
            ELSE /\ raw' = [raw EXCEPT ![t] = parse_meminfo(text)]
                 /\ Goto(t, "evaluate")
                 /\ UNCHANGED pend
    BY <2>2, ParseErrorIsCode, ParsedIsSample DEF Goto
  <2>3. QED
    BY <2>1, <2>2 DEF ReadMeminfo
<1>3. "none" \notin Codes
  BY DEF Codes, ParseCodes, BreachCodes
<1>4. QED
  BY <1>1, <1>2, <1>3 DEF Inv, TypeOK, PendInv, ClaimInv, MonitorInv, ClosedInv,
         SpawnInv, InCallback, Threads, Owner, Monitor, OwnerPCs, MonitorPCs,
         shared

LEMMA EvaluateInv ==
    ASSUME Inv, NEW t \in Threads, Evaluate(t)
    PROVE  Inv'
<1> DEFINE starting == baseline = NoSample
           code == verdict(raw[t], IF starting THEN raw[t] ELSE baseline, starting)
<1>1. code \in Codes \cup {"none"}
  BY VerdictIsCode
<1>2. /\ pc[t] = "evaluate"
      /\ raw' = [raw EXCEPT ![t] = NoSample]
      /\ \/ /\ pc' = [pc EXCEPT ![t] = ret[t]]
            /\ UNCHANGED <<last_sample, baseline, first, pend>>
         \/ /\ last_sample' = raw[t]
            /\ first' \in {raw[t], first}
            /\ baseline' \in {raw[t], baseline}
            /\ pend' = [pend EXCEPT ![t] = code]
            /\ \/ code # "none" /\ pc' = [pc EXCEPT ![t] = "trip"]
               \/ pc' = [pc EXCEPT ![t] = ret[t]]
      /\ UNCHANGED <<failure, stop_event, started, closed, thread, registered,
                     invoked, callback_error, calls, ret, cont, outcome>>
  BY DEF Evaluate, Goto
<1> HIDE DEF code
<1>3. QED
  BY <1>1, <1>2 DEF Inv, TypeOK, PendInv, ClaimInv, MonitorInv, ClosedInv,
         SpawnInv, InCallback, Threads, Owner, Monitor, OwnerPCs, MonitorPCs

LEMMA TripInv ==
    ASSUME Inv, NEW t \in Threads, Trip(t)
    PROVE  Inv'
<1> USE DEF Threads, Owner, Monitor, OwnerPCs, MonitorPCs, InCallback
<1>1. pc[t] = "trip" /\ pend[t] \in Codes
  BY DEF Inv, TypeOK, PendInv, Trip
<1>2. "none" \notin Codes
  BY DEF Codes, ParseCodes, BreachCodes
<1>3. stop_event' \in BOOLEAN /\ invoked' \in BOOLEAN
  BY Zenon DEF Inv, TypeOK, Trip
<1>4. TypeOK'
  BY <1>1, <1>3 DEF Inv, TypeOK, Trip, Goto
<1>5. PendInv' /\ MonitorInv' /\ ClosedInv' /\ SpawnInv'
  BY <1>1, <1>2 DEF Inv, TypeOK, PendInv, ClaimInv, MonitorInv, ClosedInv,
         SpawnInv, Trip, Goto
<1>6. ClaimInv'
  <2>1. CASE failure # "none"
    BY <1>1, <2>1 DEF Inv, TypeOK, ClaimInv, Trip, Goto
  <2>2. CASE failure = "none" /\ registered
    <3>1. ~invoked /\ calls = 0 /\ \A u \in Threads : pc[u] # "callback"
      BY <2>2 DEF Inv, ClaimInv
    <3>2. invoked' /\ registered'
      BY <2>2, <3>1, Zenon DEF Trip
    <3>3. /\ pc' = [pc EXCEPT ![t] = "callback"]
          /\ failure' = pend[t] /\ calls' = calls
      BY <2>2, <3>1 DEF Trip, Goto
    <3>4. QED
      BY <1>1, <1>2, <3>1, <3>2, <3>3 DEF Inv, TypeOK, ClaimInv
  <2>3. CASE failure = "none" /\ ~registered
    BY <1>1, <2>3 DEF Inv, TypeOK, ClaimInv, Trip, Goto
  <2>4. QED
    BY <2>1, <2>2, <2>3
<1>7. QED
  BY <1>4, <1>5, <1>6 DEF Inv

LEMMA CallbackInv ==
    ASSUME Inv, NEW t \in Threads, InvokeAbortCallback(t)
    PROVE  Inv'
<1> USE DEF Threads, Owner, Monitor, OwnerPCs, MonitorPCs, InCallback
<1>1. callback_error' \in BOOLEAN
  BY Zenon DEF Inv, TypeOK, InvokeAbortCallback
<1>2. TypeOK'
  BY <1>1 DEF Inv, TypeOK, InvokeAbortCallback, Goto
<1>3. PendInv' /\ MonitorInv' /\ ClosedInv' /\ SpawnInv'
  BY DEF Inv, TypeOK, PendInv, ClaimInv, MonitorInv, ClosedInv, SpawnInv,
         InvokeAbortCallback, Goto
<1>4. ClaimInv'
  BY DEF Inv, TypeOK, ClaimInv, InvokeAbortCallback, Goto
<1>5. QED
  BY <1>2, <1>3, <1>4 DEF Inv

-----------------------------------------------------------------------------
(* The owner's calls and the monitor's loop keep Inv.                      *)

LEMMA OwnerCallInv == ASSUME Inv, OwnerCall PROVE Inv'
<1> USE DEF Inv, TypeOK, PendInv, ClaimInv, MonitorInv, ClosedInv, SpawnInv,
            InCallback, Threads, Owner, Monitor, OwnerPCs, MonitorPCs, Goto,
            Return, shared
<1>1. CASE Start
  BY <1>1 DEF Start
<1>2. CASE CallRaiseIfTripped
  BY <1>2 DEF CallRaiseIfTripped
<1>3. CASE Register
  <2>1. registered' \in BOOLEAN /\ invoked' \in BOOLEAN
    BY <1>3, Zenon DEF Register
  <2>2. CASE registered
    BY <1>3, <2>2 DEF Register
  <2>3. CASE ~registered
    <3>1. registered'
      BY <1>3, <2>3, Zenon DEF Register
    <3>2. CASE failure = "none"
      BY <1>3, <2>1, <2>3, <3>1, <3>2 DEF Register
    <3>3. CASE failure # "none"
      <4>1. invoked' /\ ~invoked
        BY <1>3, <2>3, <3>3, Zenon DEF Register
      <4>2. /\ pc' = [pc EXCEPT ![Owner] = "callback"]
            /\ ret' = [ret EXCEPT ![Owner] = "idle"]
            /\ outcome' = "returned"
            /\ UNCHANGED <<failure, stop_event, started, closed, thread,
                           baseline, last_sample, callback_error, calls, first,
                           pend, raw, cont>>
        BY <1>3, <2>3, <3>3, <4>1 DEF Register
      <4>3. pc[Owner] = "idle" /\ pc[Monitor] # "callback" /\ calls = 0
        BY <1>3, <4>1 DEF Register
      <4>4. TypeOK'
        BY <2>1, <4>2
      <4>5. ClaimInv'
        BY <3>1, <3>3, <4>1, <4>2, <4>3
      <4>6. (PendInv /\ MonitorInv /\ ClosedInv /\ SpawnInv)'
        BY <3>3, <4>2, <4>3
      <4>7. QED
        BY <4>4, <4>5, <4>6
    <3>4. QED
      BY <3>2, <3>3
  <2>4. QED
    BY <2>2, <2>3
<1>4. CASE Stop
  BY <1>4 DEF Stop
<1>5. QED
  BY <1>1, <1>2, <1>3, <1>4 DEF OwnerCall

LEMMA OwnerStepInv == ASSUME Inv, OwnerStep PROVE Inv'
<1>1. CASE ThreadStep(Owner)
  <2>1. Owner \in Threads
    BY DEF Threads
  <2>2. QED
    BY <1>1, <2>1, SampleOnceInv, ReadMeminfoInv, EvaluateInv, TripInv,
       CallbackInv DEF ThreadStep
<1> USE DEF Inv, TypeOK, PendInv, ClaimInv, MonitorInv, ClosedInv, SpawnInv,
            InCallback, Threads, Owner, Monitor, OwnerPCs, MonitorPCs, Goto,
            Return, shared
<1>2. CASE SpawnMonitor
  BY <1>2 DEF SpawnMonitor, Codes
<1>3. CASE MarkStarted
  BY <1>3 DEF MarkStarted
<1>4. CASE RaiseIfTripped
  BY <1>4 DEF RaiseIfTripped, Codes
<1>5. CASE Reraise
  BY <1>5 DEF Reraise
<1>6. CASE Join
  BY <1>6 DEF Join, Codes
<1>7. QED
  BY <1>1, <1>2, <1>3, <1>4, <1>5, <1>6 DEF OwnerStep

LEMMA MonitorInvKept == ASSUME Inv, MonitorStep \/ MonitorFault PROVE Inv'
<1>1. CASE ThreadStep(Monitor)
  <2>1. Monitor \in Threads
    BY DEF Threads
  <2>2. QED
    BY <1>1, <2>1, SampleOnceInv, ReadMeminfoInv, EvaluateInv, TripInv,
       CallbackInv DEF ThreadStep
<1> USE DEF Inv, TypeOK, PendInv, ClaimInv, MonitorInv, ClosedInv, SpawnInv,
            InCallback, Threads, Owner, Monitor, OwnerPCs, MonitorPCs, Goto,
            shared
<1>2. CASE MonitorLoop
  BY <1>2 DEF MonitorLoop
<1>3. CASE MonitorExit
  BY <1>3 DEF MonitorExit
<1>4. CASE MonitorFails
  BY <1>4 DEF MonitorFails, Codes
<1>5. CASE MonitorVanishes
  BY <1>5 DEF MonitorVanishes
<1>6. QED
  BY <1>1, <1>2, <1>3, <1>4, <1>5 DEF MonitorStep, MonitorFault

LEMMA StutterInv == ASSUME Inv, UNCHANGED vars PROVE Inv'
  BY DEF Inv, TypeOK, PendInv, ClaimInv, MonitorInv, ClosedInv, SpawnInv,
         InCallback, vars

LEMMA InductiveInv == Spec => []Inv
<1>1. Inv /\ [Next]_vars => Inv'
  BY OwnerCallInv, OwnerStepInv, MonitorInvKept, StutterInv DEF Next
<1>2. QED
  BY InitInv, <1>1, PTL DEF Spec

-----------------------------------------------------------------------------
\* Every variable keeps its type, whatever the kernel prints.
THEOREM TypeCorrect == Spec => []TypeOK
<1>1. Inv => TypeOK
  BY DEF Inv
<1>2. QED
  BY <1>1, InductiveInv, PTL

\* The abort callback is entered at most once over both threads, and only
\* for a recorded failure (_trip and register_abort_callback).
THEOREM AbortOnce == Spec => []AbortAtMostOnce
<1>1. Inv => AbortAtMostOnce
  BY DEF Inv, TypeOK, ClaimInv, AbortAtMostOnce, InCallback, Threads
<1>2. QED
  BY <1>1, InductiveInv, PTL

\* After a stop() whose join completed, a due abort has been delivered (stop, _trip);
\* of one whose join expired with the monitor still alive nothing is said.
THEOREM AbortDeliveredByStop == Spec => []AbortBeforeStopReturns
<1>1. Inv => AbortBeforeStopReturns
  BY DEF Inv, TypeOK, ClaimInv, MonitorInv, AbortBeforeStopReturns, InCallback,
         Threads, Owner, Monitor
<1>2. QED
  BY <1>1, InductiveInv, PTL

\* The verdict read after stop() returned is final (stop, _trip).
THEOREM VerdictFinal == Spec => StopFreezesVerdict
<1>1. Inv /\ [Next]_vars => [closed /\ pc[Owner] = "idle" => failure' = failure]_vars
  <2> SUFFICES ASSUME Inv, Next, closed, pc[Owner] = "idle"
               PROVE  failure' = failure
    BY DEF vars
  <2>1. thread # "alive" => pc[Monitor] \in {"unborn", "done"}
    BY DEF Inv, MonitorInv
  <2>2. thread # "alive" \/ failure # "none"
    BY DEF Inv, ClosedInv
  <2>3. CASE OwnerCall
    BY <2>3 DEF OwnerCall, Start, CallRaiseIfTripped, Register, Stop, shared
  <2>4. CASE OwnerStep
    BY <2>4 DEF OwnerStep, ThreadStep, SampleOnce, ReadMeminfo, Evaluate, Trip,
         InvokeAbortCallback, SpawnMonitor, MarkStarted, RaiseIfTripped,
         Reraise, Join, shared
  <2>5. CASE MonitorStep \/ MonitorFault
    BY <2>1, <2>2, <2>5 DEF MonitorStep, MonitorFault, ThreadStep, SampleOnce,
         ReadMeminfo, Evaluate, Trip, InvokeAbortCallback, MonitorLoop,
         MonitorExit, MonitorFails, MonitorVanishes, shared
  <2>6. QED
    BY <2>3, <2>4, <2>5 DEF Next
<1>2. QED
  BY <1>1, InductiveInv, PTL DEF Spec, StopFreezesVerdict

\* The first recorded failure is never replaced (_trip).
THEOREM FirstFailure == Spec => FirstFailureWins
<1>1. [Next]_vars => [failure # "none" => failure' = failure]_vars
  BY DEF Next, OwnerCall, OwnerStep, MonitorStep, MonitorFault, ThreadStep,
         Start, CallRaiseIfTripped, Register, Stop, SampleOnce, ReadMeminfo,
         Evaluate, Trip, InvokeAbortCallback, SpawnMonitor, MarkStarted,
         RaiseIfTripped, Reraise, Join, MonitorLoop, MonitorExit, MonitorFails,
         MonitorVanishes, shared, vars
<1>2. QED
  BY <1>1, PTL DEF Spec, FirstFailureWins

\* All of it at once: well-typed, one abort at most and only for a failure, and
\* delivered by the time stop() returns unless its bounded join expired with the
\* monitor still alive (the property the run checks).
THEOREM AbortExactTheorem == Spec => []AbortExact
<1>1. TypeOK /\ AbortAtMostOnce /\ AbortBeforeStopReturns => AbortExact
  BY DEF AbortExact
<1>2. QED
  BY <1>1, TypeCorrect, AbortOnce, AbortDeliveredByStop, PTL

-----------------------------------------------------------------------------
\* A verdict on its way has its thread in _trip; a sample about to be judged is
\* one; and the baseline is the first sample that was judged.
SilenceInv ==
    /\ \A t \in Threads : pend[t] # "none" => pc[t] = "trip"
    /\ \A t \in Threads : pc[t] = "evaluate" => raw[t] \in Sample
    /\ baseline = first
    /\ last_sample = NoSample <=> first = NoSample
    /\ SilenceMeansSafe

\* What a passing verdict says of the sample and of the baseline it is against.
LEMMA PassingVerdict ==
    ASSUME NEW s \in Sample, NEW b \in Sample, NEW starting \in BOOLEAN,
           verdict(s, b, starting) = "none"
    PROVE  /\ s.memavailable >= MinMemAvailable
           /\ s.swap_used - b.swap_used <= MaxSwapGrowth
           /\ ~starting => s.swap_total = b.swap_total
           /\ starting => s.swap_used <= MaxStartingSwap
BY ThresholdAssumption DEF verdict, Sample

\* The judgement of a sample: the second locked region of sample_once.
LEMMA EvaluateSilence ==
    ASSUME Inv, SilenceInv, NEW t \in Threads, Evaluate(t)
    PROVE  SilenceInv'
<1> DEFINE s == raw[t]
           starting == baseline = NoSample
           b == IF starting THEN s ELSE baseline
           code == verdict(s, b, starting)
<1>1. /\ s \in Sample /\ pc[t] = "evaluate" /\ pend[t] = "none"
      /\ raw' = [raw EXCEPT ![t] = NoSample] /\ failure' = failure
      /\ pend \in [Threads -> Codes \cup {"none"}] /\ raw \in [Threads -> Sample \cup {NoSample}]
      /\ pc \in [Threads -> OwnerPCs \cup MonitorPCs]
      /\ ret[t] # "trip" /\ ret[t] # "evaluate"
  BY DEF SilenceInv, Evaluate, Inv, TypeOK, Threads
<1>2. s # NoSample /\ b \in Sample
  BY <1>1, TextAssumption DEF Inv, TypeOK
<1>3. CASE failure # "none"
  <2>1. pc' = [pc EXCEPT ![t] = ret[t]] /\ UNCHANGED <<last_sample, baseline, first, pend>>
    BY <1>3 DEF Evaluate, Goto
  <2> QED BY <1>1, <1>3, <2>1 DEF SilenceInv, SilenceMeansSafe
<1>4. CASE failure = "none"
  <2>1. /\ last_sample' = s /\ baseline' = b
        /\ first' = (IF first = NoSample THEN s ELSE first)
        /\ pend' = [pend EXCEPT ![t] = code]
        /\ pc' = [pc EXCEPT ![t] = IF code # "none" THEN "trip" ELSE ret[t]]
    BY <1>4 DEF Evaluate, Goto
  <2>2. starting <=> first = NoSample BY DEF SilenceInv
  <2>3. baseline' = first' /\ first' = b /\ first' # NoSample
    BY <2>1, <2>2, <1>2 DEF SilenceInv
  <2>4. SilenceMeansSafe'
    <3> SUFFICES ASSUME \A u \in Threads : pend'[u] = "none"
                 PROVE  /\ s.memavailable >= MinMemAvailable
                        /\ s.swap_total = b.swap_total
                        /\ s.swap_used - b.swap_used <= MaxSwapGrowth
                        /\ b.swap_used <= MaxStartingSwap
      BY <2>1, <2>3 DEF SilenceMeansSafe
    <3>1. code = "none" BY <1>1, <2>1
    <3>2. \A u \in Threads : pend[u] = "none" BY <1>1, <2>1
    <3> HIDE DEF s, b, starting, code
    <3>3. starting \in BOOLEAN BY DEF starting
    <3>4. /\ s.memavailable >= MinMemAvailable
          /\ s.swap_used - b.swap_used <= MaxSwapGrowth
          /\ ~starting => s.swap_total = b.swap_total
          /\ starting => s.swap_used <= MaxStartingSwap
      BY <1>1, <1>2, <3>1, <3>3, PassingVerdict DEF code
    <3>5. CASE starting BY <3>4, <3>5 DEF b
    <3>6. CASE ~starting
      <4>1. b = first /\ last_sample # NoSample
        BY <2>2, <3>6 DEF b, starting, SilenceInv
      <4> QED BY <1>4, <3>2, <3>4, <3>6, <4>1 DEF SilenceInv, SilenceMeansSafe
    <3> QED BY <3>5, <3>6
  <2> HIDE DEF s, b, code
  <2>5. \A u \in Threads : pend'[u] # "none" => pc'[u] = "trip"
    BY <1>1, <2>1 DEF SilenceInv
  <2>6. \A u \in Threads : pc'[u] = "evaluate" => raw'[u] \in Sample
    BY <1>1, <2>1 DEF SilenceInv
  <2> QED BY <1>2, <2>1, <2>3, <2>4, <2>5, <2>6 DEF SilenceInv
<1> QED BY <1>3, <1>4

LEMMA SilenceStep == ASSUME Inv, SilenceInv, [Next]_vars PROVE SilenceInv'
<1> USE DEF Inv, TypeOK, SilenceInv, SilenceMeansSafe, Threads, Owner, Monitor, Goto,
            Return, shared
<1>1. ASSUME NEW t \in Threads, SampleOnce(t) PROVE SilenceInv'
  BY <1>1 DEF SampleOnce
<1>2. ASSUME NEW t \in Threads, ReadMeminfo(t) PROVE SilenceInv'
  <2>1. \/ /\ pc' = [pc EXCEPT ![t] = "trip"] /\ raw' = raw
           /\ \E c \in Codes : pend' = [pend EXCEPT ![t] = c]
        \/ /\ pc' = [pc EXCEPT ![t] = "evaluate"] /\ pend' = pend
           /\ \E s \in Sample : raw' = [raw EXCEPT ![t] = s]
    BY <1>2, ParseErrorIsCode, ParsedIsSample DEF ReadMeminfo, Codes
  <2>2. "none" \notin Codes BY DEF Codes, ParseCodes, BreachCodes
  <2> QED BY <1>2, <2>1, <2>2 DEF ReadMeminfo
<1>3. ASSUME NEW t \in Threads, Evaluate(t) PROVE SilenceInv'
  BY <1>3, EvaluateSilence
<1>4. ASSUME NEW t \in Threads, Trip(t) PROVE SilenceInv'
  BY <1>4 DEF Trip, PendInv
<1>5. ASSUME NEW t \in Threads, InvokeAbortCallback(t) PROVE SilenceInv'
  BY <1>5 DEF InvokeAbortCallback
<1>6. CASE OwnerCall
  BY <1>6 DEF OwnerCall, Start, CallRaiseIfTripped, Register, Stop
<1>7. CASE SpawnMonitor BY <1>7 DEF SpawnMonitor, SpawnInv
<1>8. CASE MarkStarted BY <1>8 DEF MarkStarted
<1>9. CASE RaiseIfTripped BY <1>9 DEF RaiseIfTripped
<1>10. CASE Reraise \/ Join BY <1>10 DEF Reraise, Join
<1>11. CASE MonitorLoop \/ MonitorExit \/ MonitorFault
  BY <1>11 DEF MonitorLoop, MonitorExit, MonitorFault, MonitorFails, MonitorVanishes
<1>12. CASE UNCHANGED vars BY <1>12 DEF vars
<1> QED BY <1>1, <1>2, <1>3, <1>4, <1>5, <1>6, <1>7, <1>8, <1>9, <1>10, <1>11, <1>12
        DEF Next, OwnerStep, MonitorStep, ThreadStep

\* Silence means safety: while no failure is recorded or on its way, the latest
\* sample is within every limit, measured against the first sample of the instance
\* and not a later one (sample_once).
THEOREM WatchdogSilence == Spec => []SilenceMeansSafe
<1>1. Init => SilenceInv
  BY DEF Init, SilenceInv, SilenceMeansSafe, Threads, Owner
<1>2. Inv /\ SilenceInv /\ [Next]_vars => SilenceInv' BY SilenceStep
<1>3. SilenceInv => SilenceMeansSafe BY DEF SilenceInv
<1> QED BY <1>1, <1>2, <1>3, InductiveInv, PTL DEF Spec

=============================================================================
