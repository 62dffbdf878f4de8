----------------------------- MODULE HostSafety -----------------------------
(***************************************************************************)
(* The host-memory watchdog of bench/host_safety.py.                       *)
(*                                                                         *)
(* Two threads share one HostSafetyWatchdog: the Owner, which calls        *)
(* start, register_abort_callback, raise_if_tripped and stop one after     *)
(* the other, and the Monitor, the daemon thread that start() spawns and   *)
(* that samples /proc/meminfo until the stop event is set.  An action is   *)
(* the code between two points at which the thread may be preempted: one   *)
(* `with self._lock' region, one meminfo read, one callback invocation.    *)
(***************************************************************************)
EXTENDS Integers

CONSTANTS
    MinMemAvailable,    \* min_memavailable_kib
    MaxSwapGrowth,      \* max_swap_growth_kib
    MaxStartingSwap,    \* max_starting_swap_kib
    Texts,              \* the /proc/meminfo texts the reader may return
    Absent, Garbled,    \* a required field that is missing / is not "<int> kB"
    NoSample            \* Python's None in place of a HostMemorySample

Sample == [memavailable : Nat, swap_total : Nat, swap_used : Nat]

\* A text lists the fields MemTotal, MemAvailable, SwapTotal, SwapFree in the
\* order the kernel prints them.
Field == Int \cup {Absent, Garbled}

ASSUME ThresholdAssumption ==
    /\ MinMemAvailable \in Nat
    /\ MaxSwapGrowth \in Nat
    /\ MaxStartingSwap \in Nat

ASSUME TextAssumption ==
    /\ Texts \subseteq [1..4 -> Field]
    /\ Absent \notin Int /\ Garbled \notin Int /\ Absent # Garbled
    /\ NoSample \notin Sample

Owner == "owner"
Monitor == "monitor"
Threads == {Owner, Monitor}

ParseCodes == {"meminfo_malformed", "meminfo_missing", "meminfo_inconsistent"}
BreachCodes == {"swap_total_changed", "memavailable_below_minimum",
                "starting_swap_above_maximum", "swap_growth_above_maximum"}
Codes == ParseCodes \cup BreachCodes
           \cup {"meminfo_read_failed", "monitor_thread_failed"}

VARIABLES
    failure,        \* _failure: the code of the first failure, or "none"
    stop_event,     \* _stop_event.is_set()
    started,        \* _started
    closed,         \* _closed
    thread,         \* _thread: "none", "alive" or "dead" (is_alive())
    baseline,       \* _starting_swap_total_kib and _starting_swap_used_kib
    last_sample,    \* _last_sample
    registered,     \* _abort_callback_registered
    invoked,        \* _abort_callback_invoked
    callback_error, \* _abort_callback_error is not None
    pc,             \* where each thread is
    ret,            \* where each thread continues when the current call returns
    pend,           \* the failure code each thread is about to hand to _trip
    raw,            \* the sample each thread has read but not yet evaluated
    cont,           \* where the Owner continues after raise_if_tripped
    outcome,        \* how the Owner's last call ended: "returned" or "raised"
    calls,          \* history: how often the abort callback was entered
    first           \* history: the first sample that was evaluated

shared == <<failure, stop_event, started, closed, thread, baseline,
            last_sample, registered, invoked, callback_error, calls, first>>
frames == <<pc, ret, pend, raw, cont, outcome>>
vars == <<failure, stop_event, started, closed, thread, baseline, last_sample,
          registered, invoked, callback_error, pc, ret, pend, raw, cont,
          outcome, calls, first>>

OwnerPCs == {"idle", "sample", "read", "evaluate", "trip", "callback",
             "raise", "reraise", "spawn", "mark", "join"}
MonitorPCs == {"unborn", "wait", "sample", "read", "evaluate", "trip",
               "callback", "exit", "done"}

TypeOK ==
    /\ failure \in Codes \cup {"none"}
    /\ stop_event \in BOOLEAN /\ started \in BOOLEAN /\ closed \in BOOLEAN
    /\ thread \in {"none", "alive", "dead"}
    /\ baseline \in Sample \cup {NoSample}
    /\ last_sample \in Sample \cup {NoSample}
    /\ registered \in BOOLEAN /\ invoked \in BOOLEAN
    /\ callback_error \in BOOLEAN
    /\ pc \in [Threads -> OwnerPCs \cup MonitorPCs]
    /\ pc[Owner] \in OwnerPCs /\ pc[Monitor] \in MonitorPCs
    /\ ret \in [Threads -> {"idle", "raise", "reraise", "wait", "exit"}]
    /\ ret[Owner] \in {"idle", "raise", "reraise"}
    /\ ret[Monitor] \in {"wait", "exit"}
    /\ pend \in [Threads -> Codes \cup {"none"}]
    /\ raw \in [Threads -> Sample \cup {NoSample}]
    /\ cont \in {"spawn", "idle"}
    /\ outcome \in {"returned", "raised"}
    /\ calls \in Nat
    /\ first \in Sample \cup {NoSample}

Init ==
    /\ failure = "none" /\ stop_event = FALSE
    /\ started = FALSE /\ closed = FALSE /\ thread = "none"
    /\ baseline = NoSample /\ last_sample = NoSample
    /\ registered = FALSE /\ invoked = FALSE /\ callback_error = FALSE
    /\ pc = [t \in Threads |-> IF t = Owner THEN "idle" ELSE "unborn"]
    /\ ret = [t \in Threads |-> IF t = Owner THEN "idle" ELSE "wait"]
    /\ pend = [t \in Threads |-> "none"]
    /\ raw = [t \in Threads |-> NoSample]
    /\ cont = "idle" /\ outcome = "returned" /\ calls = 0
    /\ first = NoSample

-----------------------------------------------------------------------------
(* Pure parts: parsing one text and judging one sample.                    *)

Unreadable(v) == v = Garbled \/ (v # Absent /\ v < 0)

\* The error code of a text, "none" when every cross-check passes.  The first
\* unreadable line decides; missing fields are noticed after the last line.
parse_error(text) ==
    IF \E i \in 1..4 : Unreadable(text[i])
    THEN LET line == CHOOSE i \in 1..4 :
                        /\ Unreadable(text[i])
                        /\ \A j \in 1..4 : j < i => ~Unreadable(text[j])
         IN  IF text[line] = Garbled THEN "meminfo_malformed"
                                      ELSE "meminfo_inconsistent"
    ELSE IF \E i \in 1..4 : text[i] = Absent THEN "meminfo_missing"
    ELSE IF text[2] > text[1] \/ text[4] > text[3] THEN "meminfo_inconsistent"
    ELSE "none"

\* The HostMemorySample of a text without error; swap_used is derived.
parse_meminfo(text) ==
    [memavailable |-> text[2], swap_total |-> text[3],
     swap_used |-> text[3] - text[4]]

\* The verdict on sample s against baseline b (s itself when starting).
verdict(s, b, starting) ==
    IF ~starting /\ s.swap_total # b.swap_total THEN "swap_total_changed"
    ELSE IF s.memavailable < MinMemAvailable THEN "memavailable_below_minimum"
    ELSE IF starting /\ s.swap_used > MaxStartingSwap
         THEN "starting_swap_above_maximum"
    ELSE IF s.swap_used - b.swap_used > MaxSwapGrowth
         THEN "swap_growth_above_maximum"
    ELSE "none"

-----------------------------------------------------------------------------
(* sample_once and _trip, run by whichever thread calls them.              *)

Goto(t, label) == pc' = [pc EXCEPT ![t] = label]

\* sample_once: the first locked look at _failure.
SampleOnce(t) ==
    /\ pc[t] = "sample"
    /\ Goto(t, IF failure # "none" THEN ret[t] ELSE "read")
    /\ UNCHANGED <<shared, ret, pend, raw, cont, outcome>>

\* sample_once: the reader raises, or returns a text that is parsed.
ReadMeminfo(t) ==
    /\ pc[t] = "read"
    /\ \/ /\ pend' = [pend EXCEPT ![t] = "meminfo_read_failed"]
          /\ Goto(t, "trip")
          /\ UNCHANGED raw
       \/ \E text \in Texts :
            IF parse_error(text) # "none"
            THEN /\ pend' = [pend EXCEPT ![t] = parse_error(text)]
                 /\ Goto(t, "trip")
                 /\ UNCHANGED raw
            ELSE /\ raw' = [raw EXCEPT ![t] = parse_meminfo(text)]
                 /\ Goto(t, "evaluate")
                 /\ UNCHANGED pend
    /\ UNCHANGED <<shared, ret, cont, outcome>>

\* A seeded error: every accepted sample becomes the new baseline.
Evaluate_MovingBaseline(t) ==
    LET s == raw[t]
        starting == baseline = NoSample
        b == IF starting THEN s ELSE baseline
        code == verdict(s, b, starting)
    IN  /\ pc[t] = "evaluate"
        /\ raw' = [raw EXCEPT ![t] = NoSample]
        /\ IF failure # "none"
           THEN /\ Goto(t, ret[t])
                /\ UNCHANGED <<last_sample, baseline, first, pend>>
           ELSE /\ last_sample' = s
                /\ first' = IF first = NoSample THEN s ELSE first
                /\ baseline' = s
                /\ pend' = [pend EXCEPT ![t] = code]
                /\ Goto(t, IF code # "none" THEN "trip" ELSE ret[t])
        /\ UNCHANGED <<failure, stop_event, started, closed, thread, registered,
                       invoked, callback_error, calls, ret, cont, outcome>>

\* sample_once: the second locked region.  A failure recorded meanwhile
\* discards the sample; the first sample fixes the baseline.
Evaluate(t) ==
    LET s == raw[t]
        starting == baseline = NoSample
        b == IF starting THEN s ELSE baseline
        code == verdict(s, b, starting)
    IN  /\ pc[t] = "evaluate"
        /\ raw' = [raw EXCEPT ![t] = NoSample]
        /\ IF failure # "none"
           THEN /\ Goto(t, ret[t])
                /\ UNCHANGED <<last_sample, baseline, first, pend>>
           ELSE /\ last_sample' = s
                /\ first' = IF first = NoSample THEN s ELSE first
                /\ baseline' = b
                /\ pend' = [pend EXCEPT ![t] = code]
                /\ Goto(t, IF code # "none" THEN "trip" ELSE ret[t])
        /\ UNCHANGED <<failure, stop_event, started, closed, thread, registered,
                       invoked, callback_error, calls, ret, cont, outcome>>

\* A seeded error: neither the early return nor the claim of the callback.
Trip_Unclaimed(t) ==
    /\ pc[t] = "trip"
    /\ pend' = [pend EXCEPT ![t] = "none"]
    /\ failure' = pend[t]
    /\ stop_event' = TRUE
    /\ Goto(t, IF registered THEN "callback" ELSE ret[t])
    /\ UNCHANGED <<started, closed, thread, baseline, last_sample, registered,
                   invoked, callback_error, calls, first, ret, raw, cont,
                   outcome>>

\* _trip: the locked region.  The first failure wins, the stop event is set
\* and the callback is claimed for the thread that recorded the failure.
Trip(t) ==
    /\ pc[t] = "trip"
    /\ pend' = [pend EXCEPT ![t] = "none"]
    /\ IF failure # "none"
       THEN Goto(t, ret[t]) /\ UNCHANGED <<failure, stop_event, invoked>>
       ELSE /\ failure' = pend[t]
            /\ stop_event' = TRUE
            /\ IF registered /\ ~invoked
               THEN invoked' = TRUE /\ Goto(t, "callback")
               ELSE UNCHANGED invoked /\ Goto(t, ret[t])
    /\ UNCHANGED <<started, closed, thread, baseline, last_sample, registered,
                   callback_error, calls, first, ret, raw, cont, outcome>>

\* _invoke_abort_callback: the callback returns or raises; an exception is
\* recorded and never replaces the failure.
InvokeAbortCallback(t) ==
    /\ pc[t] = "callback"
    /\ calls' = calls + 1
    /\ callback_error' \in {callback_error, TRUE}
    /\ Goto(t, ret[t])
    /\ UNCHANGED <<failure, stop_event, started, closed, thread, baseline,
                   last_sample, registered, invoked, first, ret, pend, raw,
                   cont, outcome>>

-----------------------------------------------------------------------------
(* The Owner's calls.                                                      *)

Return(result) == Goto(Owner, "idle") /\ outcome' = result

\* start(): the locked guard, then on to the synchronous first sample.
Start ==
    /\ pc[Owner] = "idle"
    /\ IF started \/ closed
       THEN Return("raised") /\ UNCHANGED <<ret, cont>>
       ELSE /\ Goto(Owner, "sample")
            /\ ret' = [ret EXCEPT ![Owner] = "raise"]
            /\ cont' = "spawn"
            /\ UNCHANGED outcome
    /\ UNCHANGED <<shared, pend, raw>>

\* start(): thread.start() succeeds, or raises and trips the watchdog.
SpawnMonitor ==
    /\ pc[Owner] = "spawn"
    /\ \/ /\ thread' = "alive"
          /\ pc' = [pc EXCEPT ![Owner] = "mark", ![Monitor] = "wait"]
          /\ UNCHANGED <<ret, pend, cont>>
       \/ /\ pend' = [pend EXCEPT ![Owner] = "monitor_thread_failed"]
          /\ ret' = [ret EXCEPT ![Owner] = "raise"]
          /\ cont' = "idle"
          /\ Goto(Owner, "trip")
          /\ UNCHANGED thread
    /\ UNCHANGED <<failure, stop_event, started, closed, baseline, last_sample,
                   registered, invoked, callback_error, calls, first, raw,
                   outcome>>

\* start(): _started is set only after the monitor already runs.
MarkStarted ==
    /\ pc[Owner] = "mark"
    /\ started' = TRUE
    /\ cont' = "idle"
    /\ Goto(Owner, "raise")
    /\ UNCHANGED <<failure, stop_event, closed, thread, baseline, last_sample,
                   registered, invoked, callback_error, calls, first, ret,
                   pend, raw, outcome>>

\* raise_if_tripped(), called by itself by the owner (abort_check).
CallRaiseIfTripped ==
    /\ pc[Owner] = "idle"
    /\ Goto(Owner, "raise")
    /\ cont' = "idle"
    /\ UNCHANGED <<shared, ret, pend, raw, outcome>>

\* raise_if_tripped(): the locked look at the failure and at the monitor.
RaiseIfTripped ==
    LET unexpectedly_stopped ==
            failure = "none" /\ started /\ ~closed /\ thread = "dead"
    IN  /\ pc[Owner] = "raise"
        /\ IF unexpectedly_stopped
           THEN /\ pend' = [pend EXCEPT ![Owner] = "monitor_thread_failed"]
                /\ ret' = [ret EXCEPT ![Owner] = "reraise"]
                /\ Goto(Owner, "trip")
                /\ UNCHANGED outcome
           ELSE /\ IF failure # "none"
                   THEN Return("raised")
                   ELSE /\ Goto(Owner, cont)
                        /\ outcome' = IF cont = "idle" THEN "returned"
                                                       ELSE outcome
                /\ UNCHANGED <<ret, pend>>
        /\ UNCHANGED <<shared, raw, cont>>

\* raise_if_tripped(): the failure is read again after _trip and raised.
Reraise ==
    /\ pc[Owner] = "reraise"
    /\ Return("raised")
    /\ UNCHANGED <<shared, ret, pend, raw, cont>>

\* A seeded error: a callback registered after the trip is never run.
Register_IgnoresEarlierTrip ==
    /\ pc[Owner] = "idle"
    /\ IF registered
       THEN Return("raised") /\ UNCHANGED <<registered, invoked, ret>>
       ELSE /\ registered' = TRUE
            /\ Return("returned")
            /\ UNCHANGED <<invoked, ret>>
    /\ UNCHANGED <<failure, stop_event, started, closed, thread, baseline,
                   last_sample, callback_error, calls, first, pend, raw, cont>>

\* register_abort_callback(): the sole callback; run at once when the
\* watchdog has already tripped.
Register ==
    /\ pc[Owner] = "idle"
    /\ IF registered
       THEN Return("raised") /\ UNCHANGED <<registered, invoked, ret>>
       ELSE /\ registered' = TRUE
            /\ IF failure # "none" /\ ~invoked
               THEN /\ invoked' = TRUE
                    /\ Goto(Owner, "callback")
                    /\ ret' = [ret EXCEPT ![Owner] = "idle"]
                    /\ outcome' = "returned"
               ELSE Return("returned") /\ UNCHANGED <<invoked, ret>>
    /\ UNCHANGED <<failure, stop_event, started, closed, thread, baseline,
                   last_sample, callback_error, calls, first, pend, raw, cont>>

\* stop(): the locked region.
Stop ==
    /\ pc[Owner] = "idle"
    /\ closed' = TRUE
    /\ stop_event' = TRUE
    /\ Goto(Owner, IF thread = "none" THEN "idle" ELSE "join")
    /\ outcome' = "returned"
    /\ UNCHANGED <<failure, started, thread, baseline, last_sample, registered,
                   invoked, callback_error, calls, first, ret, pend, raw, cont>>

\* A seeded error: an expired join is taken for a stopped monitor.
Join_Unchecked ==
    /\ pc[Owner] = "join"
    /\ Goto(Owner, "idle")
    /\ UNCHANGED <<shared, ret, pend, raw, cont, outcome>>

\* stop(): the bounded join sees the monitor end, or expires and trips.
Join ==
    /\ pc[Owner] = "join"
    /\ \/ /\ thread = "dead"
          /\ Goto(Owner, "idle")
          /\ UNCHANGED <<ret, pend>>
       \/ /\ thread = "alive"
          /\ pend' = [pend EXCEPT ![Owner] = "monitor_thread_failed"]
          /\ ret' = [ret EXCEPT ![Owner] = "idle"]
          /\ Goto(Owner, "trip")
    /\ UNCHANGED <<shared, raw, cont, outcome>>

-----------------------------------------------------------------------------
(* The monitor thread: _run.                                               *)

\* One turn of the loop up to the sample: the wait ends because stop was
\* requested, or the interval elapses without a stop request.
MonitorLoop ==
    /\ pc[Monitor] = "wait"
    /\ IF stop_event
       THEN Goto(Monitor, "exit") /\ UNCHANGED ret
       ELSE /\ Goto(Monitor, "sample")
            /\ ret' = [ret EXCEPT ![Monitor] = "wait"]
    /\ UNCHANGED <<shared, pend, raw, cont, outcome>>

\* The loop raises (a wait function that returns early or fails) and the
\* except clause trips the watchdog.
MonitorFails ==
    /\ pc[Monitor] = "wait"
    /\ ~stop_event
    /\ pend' = [pend EXCEPT ![Monitor] = "monitor_thread_failed"]
    /\ ret' = [ret EXCEPT ![Monitor] = "exit"]
    /\ Goto(Monitor, "trip")
    /\ UNCHANGED <<shared, raw, cont, outcome>>

\* _run returns and the thread is no longer alive.
MonitorExit ==
    /\ pc[Monitor] = "exit"
    /\ thread' = "dead"
    /\ Goto(Monitor, "done")
    /\ UNCHANGED <<failure, stop_event, started, closed, baseline, last_sample,
                   registered, invoked, callback_error, calls, first, ret, pend,
                   raw, cont, outcome>>

\* The thread ends without running its except clause to the end (the case
\* raise_if_tripped is written for).
MonitorVanishes ==
    /\ pc[Monitor] = "wait"
    /\ thread' = "dead"
    /\ Goto(Monitor, "done")
    /\ UNCHANGED <<failure, stop_event, started, closed, baseline, last_sample,
                   registered, invoked, callback_error, calls, first, ret, pend,
                   raw, cont, outcome>>

-----------------------------------------------------------------------------
\* What a thread does on its own once a call is under way.
ThreadStep(t) ==
    \/ SampleOnce(t) \/ ReadMeminfo(t) \/ Evaluate(t)
    \/ Trip(t) \/ InvokeAbortCallback(t)

OwnerStep ==
    \/ ThreadStep(Owner)
    \/ SpawnMonitor \/ MarkStarted \/ RaiseIfTripped \/ Reraise \/ Join

OwnerCall == Start \/ CallRaiseIfTripped \/ Register \/ Stop

MonitorStep == ThreadStep(Monitor) \/ MonitorLoop \/ MonitorExit

MonitorFault == MonitorFails \/ MonitorVanishes

Next == OwnerCall \/ OwnerStep \/ MonitorStep \/ MonitorFault

\* Both threads are scheduled; the Owner need never make another call and
\* the monitor need never fail.
Fairness == WF_vars(OwnerStep) /\ WF_vars(MonitorStep)

Spec == Init /\ [][Next]_vars
FairSpec == Spec /\ Fairness

-----------------------------------------------------------------------------
(* Properties.                                                             *)

InCallback(t) == pc[t] = "callback"

\* "request one exact, caller-owned abort": over both threads, and whether
\* the callback is registered before, during or after the trip, it is entered
\* at most once, and only for a recorded failure.
AbortAtMostOnce ==
    /\ calls <= 1
    /\ (calls = 1 \/ \E t \in Threads : InCallback(t)) => failure # "none"
    /\ ~(InCallback(Owner) /\ InCallback(Monitor))
    /\ calls = 1 => \A t \in Threads : ~InCallback(t)

\* As long as no failure is recorded or on its way, the latest sample is
\* within every limit, measured against the FIRST sample of the instance.
SilenceMeansSafe ==
    (/\ failure = "none" /\ last_sample # NoSample
     /\ \A t \in Threads : pend[t] = "none")
      => /\ last_sample.memavailable >= MinMemAvailable
         /\ last_sample.swap_total = first.swap_total
         /\ last_sample.swap_used - first.swap_used <= MaxSwapGrowth
         /\ first.swap_used <= MaxStartingSwap

\* Once stop() has returned the verdict is final: a caller that checks the
\* watchdog after stop() (as every runner does) cannot miss a later trip.
StopFreezesVerdict ==
    [][closed /\ pc[Owner] = "idle" => failure' = failure]_vars

\* The failure the owner sees first is the failure it sees for ever, also
\* when both threads trip at the same time.
FirstFailureWins == [][failure # "none" => failure' = failure]_vars

\* When stop() has returned after a completed join, an abort that was due has
\* been delivered, not merely claimed.  A join that expires leaves the monitor
\* alive, perhaps on its way into the callback: then stop() returns before the
\* abort is delivered, and AbortDelivered says that it still will be.
AbortBeforeStopReturns ==
    (/\ closed /\ pc[Owner] = "idle" /\ thread # "alive"
     /\ failure # "none" /\ registered) => calls = 1

\* The watchdog aborts exactly when it must: at most once, only for a failure, and,
\* if it was due at all, before a stop() returns whose join did not expire (_trip,
\* register_abort_callback, stop), in every state the threads can be in.
AbortExact == TypeOK /\ AbortAtMostOnce /\ AbortBeforeStopReturns

\* A tripped watchdog with a callback delivers the abort.
AbortDelivered == (failure # "none" /\ registered) ~> (calls >= 1)

\* After stop() is called the monitor thread ends.
StopEndsMonitor == closed ~> (thread # "alive")

\* The watchdog does its work and lets go: a trip reaches the owner's callback,
\* and a stop ends the monitor thread.
WatchdogLive == AbortDelivered /\ StopEndsMonitor
=============================================================================
