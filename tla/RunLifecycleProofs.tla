------------------------- MODULE RunLifecycleProofs -------------------------
(***************************************************************************)
(* Theorems about RunLifecycle for any number of processes, cases, calls,  *)
(* crashes and docker failures.                                            *)
(***************************************************************************)
EXTENDS RunLifecycle, TLAPS

Kinds == {"", "error", "HostSafetyError", "completed", "completed_server_kept",
          "no_work", "recovered_all_terminal"}

Events     == [event : EventNames, case : 0..NCases, kind : Kinds]
Containers == [owner : {"none", "run", "other"}, up : BOOLEAN, kept : BOOLEAN]
Runs       == [todo : SUBSET Cases, server : BOOLEAN, cid : BOOLEAN,
               immediate : BOOLEAN, failed : BOOLEAN, broken : BOOLEAN,
               from : {"recover", "startup", "cleanup"}]
Watches    == [state : {"off", "on", "closed"}, tripped : BOOLEAN,
               cb : {"none", "set", "due", "done", "failed"}]
Reads      == [completed : SUBSET Cases, terminal : SUBSET Cases]

\* Outside the lock.
Outside == {"idle", "lock"}

\* Only the holder of the lock is past the entry, and no watchdog outlives it.
LockInv ==
  /\ \A p \in Procs : pc[p] \notin Outside => lock = p
  /\ lock = None => wd = NoWatch

\* The journal names a case wherever it speaks of one.
CaseNamed(e) == e.event \in {"case_complete", "case_skipped"} => e.case \in Cases
CasesNamed(l) == \A i \in DOMAIN l : CaseNamed(l[i])

TypeInv ==
  /\ log \in Seq(Events) /\ CasesNamed(log)
  /\ lock \in Procs \cup {None}
  /\ container \in Containers
  /\ pc \in [Procs -> Steps]
  /\ read \in [Procs -> Reads]
  /\ keep \in [Procs -> BOOLEAN]
  /\ run \in Runs
  /\ wd \in Watches
  /\ calls \in 0..MaxCalls /\ crashes \in 0..MaxCrashes /\ faults \in 0..MaxFaults
-----------------------------------------------------------------------------
(***************************************************************************)
(* The journal's queries after an append.                                  *)
(***************************************************************************)
LEMMA AppendHas ==
  ASSUME NEW l \in Seq(Events), NEW e \in Events, NEW name
  PROVE  Has(Append(l, e), name) <=> Has(l, name) \/ e.event = name
<1> DEFINE m == Append(l, e)
<1>1. /\ DOMAIN m = DOMAIN l \cup {Len(l) + 1} /\ DOMAIN l = 1..Len(l)
      /\ \A i \in DOMAIN l : m[i] = l[i]
      /\ m[Len(l) + 1] = e
  OBVIOUS
<1>2. Has(m, name) => Has(l, name) \/ e.event = name
  BY <1>1 DEF Has
<1>3. Has(l, name) => Has(m, name)
  BY <1>1 DEF Has
<1>4. e.event = name => Has(m, name)
  BY <1>1 DEF Has
<1> QED BY <1>2, <1>3, <1>4

LEMMA AppendAfter ==
  ASSUME NEW l \in Seq(Events), NEW e \in Events, NEW names, NEW marks
  PROVE  After(Append(l, e), names, marks)
           <=> e.event \in names \/ (After(l, names, marks) /\ e.event \notin marks)
<1> DEFINE m == Append(l, e)
           n == Len(l) + 1
<1>1. /\ DOMAIN m = 1..n /\ DOMAIN l = 1..Len(l) /\ Len(l) \in Nat
      /\ \A i \in DOMAIN l : m[i] = l[i]
      /\ m[n] = e
  OBVIOUS
<1>2. e.event \in names => After(m, names, marks)
  BY <1>1 DEF After
<1>3. ASSUME After(l, names, marks), e.event \notin marks
      PROVE  After(m, names, marks)
  <2>1. PICK i \in DOMAIN l : /\ l[i].event \in names
                              /\ \A j \in DOMAIN l : j > i => l[j].event \notin marks
    BY <1>3 DEF After
  <2>2. i \in DOMAIN m /\ m[i].event \in names
    BY <2>1, <1>1
  <2>3. ASSUME NEW j \in DOMAIN m, j > i PROVE m[j].event \notin marks
    <3>1. CASE j = n BY <3>1, <1>1, <1>3
    <3>2. CASE j # n
      <4>1. j \in DOMAIN l /\ m[j] = l[j] BY <3>2, <1>1
      <4> QED BY <4>1, <2>1, <2>3
    <3> QED BY <3>1, <3>2
  <2> QED BY <2>2, <2>3 DEF After
<1>4. ASSUME After(m, names, marks), e.event \notin names
      PROVE  After(l, names, marks) /\ e.event \notin marks
  <2>1. PICK i \in DOMAIN m : /\ m[i].event \in names
                              /\ \A j \in DOMAIN m : j > i => m[j].event \notin marks
    BY <1>4 DEF After
  <2>2. i \in DOMAIN l /\ m[i] = l[i] /\ n > i
    BY <2>1, <1>1, <1>4
  <2>3. e.event \notin marks
    BY <2>1, <2>2, <1>1
  <2>4. \A j \in DOMAIN l : j > i => l[j].event \notin marks
    BY <2>1, <1>1
  <2> QED BY <2>1, <2>2, <2>3, <2>4 DEF After
<1> QED BY <1>2, <1>3, <1>4

LEMMA AppendSince ==
  ASSUME NEW l \in Seq(Events), NEW e \in Events, NEW name
  PROVE  Since(Append(l, e), name)
           <=> e.event = name \/ (Since(l, name) /\ e.event # "run_start")
BY AppendAfter DEF Since

LEMMA AppendSafety ==
  ASSUME NEW l \in Seq(Events), NEW e \in Events,
         e.event = "run_aborted", e.kind = "HostSafetyError"
  PROVE  SafetyAborted(Append(l, e))
BY DEF SafetyAborted

\* An abort behind the last run_start is the last word or was answered.
LEMMA AbortAnswered ==
  ASSUME NEW l \in Seq(Events), Since(l, "run_aborted"), ~Since(l, "run_complete")
  PROVE  After(l, {"run_aborted"}, {"run_start", "run_complete"})
BY DEF Since, After
-----------------------------------------------------------------------------
(***************************************************************************)
(* Types.                                                                  *)
(***************************************************************************)
LEMMA EventFields ==
  ASSUME NEW name \in EventNames, NEW z \in 0..NCases, NEW n \in Kinds,
         NEW c \in 0..NCases, NEW k \in Kinds,
         NEW r, r = [event |-> name, case |-> z, kind |-> n]
  PROVE  /\ r \in Events /\ r.event = name
         /\ [r EXCEPT !.case = c] \in Events /\ [r EXCEPT !.case = c].event = name
         /\ [r EXCEPT !.case = c].case = c
         /\ [r EXCEPT !.kind = k] \in Events /\ [r EXCEPT !.kind = k].event = name
         /\ [r EXCEPT !.kind = k].kind = k
BY DEF Events

LEMMA EventTypes ==
  ASSUME NEW name \in EventNames, NEW c \in 0..NCases, NEW k \in Kinds
  PROVE  /\ Event(name) \in Events /\ Event(name).event = name
         /\ CaseEvent(name, c) \in Events /\ CaseEvent(name, c).event = name
         /\ CaseEvent(name, c).case = c
         /\ KindEvent(name, k) \in Events /\ KindEvent(name, k).event = name
         /\ KindEvent(name, k).kind = k
<1>1. 0 \in 0..NCases
  BY ConstantsAssumption
<1>2. "" \in Kinds
  BY Zenon DEF Kinds
<1>3. PICK n \in Kinds : Event(name) = [event |-> name, case |-> 0, kind |-> n]
  BY <1>2, Zenon DEF Event
<1> QED BY <1>1, <1>3, EventFields DEF CaseEvent, KindEvent

\* An event that is no verdict on a case.
LEMMA PlainEvent ==
  ASSUME NEW name \in EventNames \ {"case_complete", "case_skipped"}, NEW k \in Kinds
  PROVE  /\ Event(name) \in Events /\ CaseNamed(Event(name))
         /\ KindEvent(name, k) \in Events /\ CaseNamed(KindEvent(name, k))
<1>1. 0 \in 0..NCases
  BY ConstantsAssumption
<1>2. name \notin {"case_complete", "case_skipped"} /\ name \in EventNames
  OBVIOUS
<1> QED BY <1>1, <1>2, EventTypes, Zenon DEF CaseNamed

LEMMA KindNames == Kinds # {}
BY Zenon DEF Kinds

LEMMA AppendType ==
  ASSUME NEW l \in Seq(Events), CasesNamed(l), NEW e \in Events, CaseNamed(e)
  PROVE  Append(l, e) \in Seq(Events) /\ CasesNamed(Append(l, e))
<1>1. Append(l, e) \in Seq(Events)
  OBVIOUS
<1>2. ASSUME NEW i \in DOMAIN Append(l, e) PROVE CaseNamed(Append(l, e)[i])
  <2>1. CASE i \in DOMAIN l BY <2>1 DEF CasesNamed
  <2>2. CASE i \notin DOMAIN l BY <2>2
  <2> QED BY <2>1, <2>2
<1> QED BY <1>1, <1>2 DEF CasesNamed

LEMMA Constants ==
  /\ NoContainer \in Containers /\ Started \in Containers
  /\ NoRun \in Runs /\ NoWatch \in Watches
BY DEF NoContainer, Started, NoRun, NoWatch, Containers, Runs, Watches

LEMMA ContainerFields ==
  ASSUME NEW c \in Containers, NEW b \in BOOLEAN
  PROVE  [c EXCEPT !.up = b] \in Containers /\ [c EXCEPT !.kept = b] \in Containers
BY DEF Containers

LEMMA StopWatchType ==
  ASSUME wd \in Watches, StopWatch PROVE wd' \in Watches
<1>1. CASE wd' = [wd EXCEPT !.state = IF Watchdog THEN "closed" ELSE @]
  BY <1>1 DEF Watches
<1>2. CASE wd' = [state |-> "closed", tripped |-> TRUE,
                  cb |-> IF wd.cb = "set" THEN "due" ELSE wd.cb]
  BY <1>2 DEF Watches
<1> QED BY <1>1, <1>2 DEF StopWatch

LEMMA RunEvent ==
  /\ \A name \in {"run_start", "server_ready", "server_stopped", "server_kept",
                  "cleanup_failed", "host_safety_breach",
                  "host_safety_interrupt_failed"} :
       Event(name) \in Events /\ CaseNamed(Event(name))
  /\ \A name \in {"run_aborted", "run_complete"}, k \in Kinds :
       KindEvent(name, k) \in Events /\ CaseNamed(KindEvent(name, k))
BY PlainEvent, KindNames DEF EventNames

LEMMA VerdictEvent ==
  ASSUME NEW c \in Cases, NEW name \in {"case_skipped", "case_complete", "case_failed"}
  PROVE  CaseEvent(name, c) \in Events /\ CaseNamed(CaseEvent(name, c))
<1>1. c \in 0..NCases
  BY ConstantsAssumption DEF Cases
<1>2. name \in EventNames
  BY DEF EventNames
<1> QED BY <1>1, <1>2, EventTypes, KindNames DEF CaseNamed

LEMMA ReleaseType ==
  ASSUME TypeInv, NEW p \in Procs, Release(p)
  PROVE  /\ lock' \in Procs \cup {None} /\ run' \in Runs /\ wd' \in Watches
         /\ pc' \in [Procs -> Steps]
BY Constants DEF TypeInv, Release, Goto, Steps

LEMMA InterruptType ==
  ASSUME TypeInv, NEW ok, NEW done, interrupt_owned(ok, done)
  PROVE  container' \in Containers /\ faults' \in 0..MaxFaults
<1>1. container' \in Containers
  BY ContainerFields DEF TypeInv, interrupt_owned
<1>2. faults' \in 0..MaxFaults
  BY ConstantsAssumption DEF TypeInv, interrupt_owned, Fault
<1> QED BY <1>1, <1>2

LEMMA TypeStep == TypeInv /\ [Next]_vars => TypeInv'
<1> SUFFICES ASSUME TypeInv, [Next]_vars PROVE TypeInv'
  OBVIOUS
<1>1. ASSUME NEW p \in Procs, Step(p) PROVE TypeInv'
  <2>1. CASE Lock(p)
    <3>1. pc' \in [Procs -> Steps]
      BY <2>1 DEF TypeInv, Lock, Goto, Steps
    <3> QED BY <2>1, <3>1 DEF TypeInv, Lock
  <2>2. CASE Recover(p)
    <3>1. pc' \in [Procs -> Steps]
      BY <2>2 DEF TypeInv, Recover, Goto, Steps
    <3>2. run' \in Runs
      BY <2>2 DEF TypeInv, Recover, Runs
    <3> QED BY <2>2, <3>1, <3>2 DEF TypeInv, Recover
  <2>3. CASE RecoverFails(p)
    <3>1. pc' \in [Procs -> Steps]
      BY <2>3 DEF TypeInv, RecoverFails, Goto, Steps
    <3>2. faults' \in 0..MaxFaults
      BY <2>3, ConstantsAssumption DEF TypeInv, RecoverFails, Fault
    <3> QED BY <2>3, <3>1, <3>2 DEF TypeInv, RecoverFails
  <2>4. CASE Recovered(p)
    <3>1. Event("server_stopped") \in Events /\ CaseNamed(Event("server_stopped"))
      BY PlainEvent, KindNames, Zenon DEF EventNames
    <3>2. log' \in Seq(Events) /\ CasesNamed(log')
      BY <2>4, <3>1, AppendType DEF TypeInv, Recovered, Record
    <3>3. pc' \in [Procs -> Steps]
      BY <2>4 DEF TypeInv, Recovered, Goto, Steps
    <3>4. run' \in Runs
      BY <2>4, Constants DEF TypeInv, Recovered
    <3> QED BY <2>4, <3>1, <3>2, <3>3, <3>4 DEF TypeInv, Recovered
  <2>5. CASE Preflight(p)
    <3>1. pc' \in [Procs -> Steps]
      BY <2>5 DEF TypeInv, Preflight, Goto, Steps
    <3> QED BY <2>5, <3>1 DEF TypeInv, Preflight
  <2>6. CASE StartWatch(p)
    <3>1. pc' \in [Procs -> Steps]
      BY <2>6 DEF TypeInv, StartWatch, Goto, Steps
    <3>2. wd' \in Watches
      BY <2>6 DEF TypeInv, StartWatch, Watches
    <3> QED BY <2>6, <3>1, <3>2 DEF TypeInv, StartWatch
  <2>7. CASE StartServer(p)
    <3>1. pc' \in [Procs -> Steps]
      BY <2>7 DEF TypeInv, StartServer, Goto, Steps
    <3>2. run' \in Runs
      BY <2>7 DEF TypeInv, StartServer, Runs
    <3>3. container' \in Containers
      BY <2>7, Constants DEF TypeInv, StartServer
    <3>4. faults' \in 0..MaxFaults
      BY <2>7, ConstantsAssumption DEF TypeInv, StartServer, Fault
    <3> QED BY <2>7, <3>1, <3>2, <3>3, <3>4 DEF TypeInv, StartServer
  <2>8. CASE Register(p)
    <3>1. pc' \in [Procs -> Steps]
      BY <2>8 DEF TypeInv, Register, Goto, Steps
    <3>2. wd' \in Watches
      BY <2>8 DEF TypeInv, Register, Watches
    <3> QED BY <2>8, <3>1, <3>2 DEF TypeInv, Register
  <2>9. CASE CallbackReturns(p)
    <3>1. pc' \in [Procs -> Steps]
      BY <2>9 DEF TypeInv, CallbackReturns, Goto, Steps
    <3> QED BY <2>9, <3>1 DEF TypeInv, CallbackReturns
  <2>10. CASE EndpointReady(p)
    <3>1. pc' \in [Procs -> Steps]
      BY <2>10 DEF TypeInv, EndpointReady, Goto, Steps
    <3>2. run' \in Runs
      BY <2>10 DEF TypeInv, EndpointReady, Runs
    <3> QED BY <2>10, <3>1, <3>2 DEF TypeInv, EndpointReady
  <2>11. CASE ServerReady(p)
    <3>1. Event("server_ready") \in Events /\ CaseNamed(Event("server_ready"))
      BY PlainEvent, KindNames, Zenon DEF EventNames
    <3>2. log' \in Seq(Events) /\ CasesNamed(log')
      BY <2>11, <3>1, AppendType DEF TypeInv, ServerReady, Record
    <3>3. pc' \in [Procs -> Steps]
      BY <2>11 DEF TypeInv, ServerReady, Goto, Steps
    <3> QED BY <2>11, <3>1, <3>2, <3>3 DEF TypeInv, ServerReady
  <2>12. CASE Prime(p)
    <3>1. pc' \in [Procs -> Steps]
      BY <2>12 DEF TypeInv, Prime, Goto, Steps
    <3> QED BY <2>12, <3>1 DEF TypeInv, Prime
  <2>13. CASE MeasurementComplete(p)
    <3>1. pc' \in [Procs -> Steps]
      BY <2>13 DEF TypeInv, MeasurementComplete, Goto, Steps
    <3> QED BY <2>13, <3>1 DEF TypeInv, MeasurementComplete
  <2>14. CASE Raise(p)
    <3>1. pc' \in [Procs -> Steps]
      BY <2>14 DEF TypeInv, Raise, Goto, Steps, Handler, Unlaunched, Serving
    <3>2. run' \in Runs
      BY <2>14 DEF TypeInv, Raise, Runs
    <3> QED BY <2>14, <3>1, <3>2 DEF TypeInv, Raise
  <2>15. CASE Stop(p)
    <3>1. pc' \in [Procs -> Steps]
      BY <2>15 DEF TypeInv, Stop, Goto, Steps, StopFailed, Runs
    <3>2. run' \in Runs
      BY <2>15 DEF TypeInv, Stop, Runs, StopFailed
    <3>3. container' \in Containers
      BY <2>15, ContainerFields DEF TypeInv, Stop
    <3>4. faults' \in 0..MaxFaults
      BY <2>15, ConstantsAssumption DEF TypeInv, Stop, Fault
    <3> QED BY <2>15, <3>1, <3>2, <3>3, <3>4 DEF TypeInv, Stop
  <2>16. CASE Rm(p)
    <3>1. pc' \in [Procs -> Steps]
      BY <2>16 DEF TypeInv, Rm, Goto, Steps, StopFailed, Runs
    <3>2. run' \in Runs
      BY <2>16 DEF TypeInv, Rm, Runs, StopFailed
    <3>3. container' \in Containers
      BY <2>16, Constants DEF TypeInv, Rm
    <3>4. faults' \in 0..MaxFaults
      BY <2>16, ConstantsAssumption DEF TypeInv, Rm, Fault
    <3> QED BY <2>16, <3>1, <3>2, <3>3, <3>4 DEF TypeInv, Rm
  <2>17. CASE Unwatch(p)
    <3>1. pc' \in [Procs -> Steps]
      BY <2>17 DEF TypeInv, Unwatch, Goto, Steps
    <3>2. wd' \in Watches
      BY <2>17, StopWatchType DEF TypeInv, Unwatch
    <3> QED BY <2>17, <3>1, <3>2 DEF TypeInv, Unwatch
  <2>18. CASE Close(p)
    <3>1. pc' \in [Procs -> Steps]
      BY <2>18 DEF TypeInv, Close, Goto, Steps, Outcome
    <3>2. wd' \in Watches
      BY <2>18, StopWatchType DEF TypeInv, Close
    <3> QED BY <2>18, <3>1, <3>2 DEF TypeInv, Close
  <2>19. CASE Complete(p)
    <3>1. (IF keep[p] THEN "completed_server_kept" ELSE "completed") \in Kinds
      BY Zenon DEF Kinds
    <3>2. log' \in Seq(Events) /\ CasesNamed(log')
      BY <2>19, <3>1, RunEvent, AppendType DEF TypeInv, Complete, Record
    <3> QED BY <2>19, <3>2, ReleaseType DEF TypeInv, Complete
  <2>20. CASE Plan(p)
    <3>1. CASE Cases \subseteq read[p].terminal
      <4>1. FinishKind(p) \in Kinds
        BY Zenon DEF Kinds, FinishKind
      <4>2. log' \in Seq(Events) /\ CasesNamed(log')
        BY <2>20, <3>1, <4>1, RunEvent, AppendType DEF TypeInv, Plan, Record
      <4> QED BY <2>20, <3>1, <4>2, ReleaseType DEF TypeInv, Plan
    <3>2. CASE ~(Cases \subseteq read[p].terminal)
      <4>1. log' \in Seq(Events) /\ CasesNamed(log')
        BY <2>20, <3>2, RunEvent, AppendType DEF TypeInv, Plan, Record
      <4>2. run' \in Runs
        BY <2>20, <3>2, Constants DEF Plan, Runs
      <4>3. pc' \in [Procs -> Steps]
        BY <2>20, <3>2 DEF TypeInv, Plan, Goto, Steps
      <4> QED BY <2>20, <3>2, <4>1, <4>2, <4>3 DEF TypeInv, Plan
    <3> QED BY <3>1, <3>2
  <2>21. CASE Skip(p)
    <3>1. ASSUME NEW c \in run.todo \cap Unsupported,
                 log' = Append(log, CaseEvent("case_skipped", c)),
                 run' = [run EXCEPT !.todo = @ \ {c}], UNCHANGED <<pc, lock, wd>>
          PROVE  TypeInv'
      <4>1. c \in Cases
        BY <3>1, ConstantsAssumption DEF Cases
      <4>2. log' \in Seq(Events) /\ CasesNamed(log')
        BY <3>1, <4>1, VerdictEvent, AppendType DEF TypeInv
      <4>3. run' \in Runs
        BY <3>1 DEF TypeInv, Runs
      <4> QED BY <2>21, <3>1, <4>2, <4>3 DEF TypeInv, Skip
    <3>2. CASE Record(KindEvent("run_complete", "no_work")) /\ Release(p)
      <4>1. "no_work" \in Kinds
        BY Zenon DEF Kinds
      <4>2. log' \in Seq(Events) /\ CasesNamed(log')
        BY <3>2, <4>1, RunEvent, AppendType DEF TypeInv, Record
      <4> QED BY <2>21, <3>2, <4>2, ReleaseType DEF TypeInv, Skip
    <3>3. CASE Goto(p, "preflight") /\ UNCHANGED <<log, run, lock, wd>>
      <4>1. pc' \in [Procs -> Steps]
        BY <3>3 DEF TypeInv, Goto, Steps
      <4> QED BY <2>21, <3>3, <4>1 DEF TypeInv, Skip
    <3> QED BY <2>21, <3>1, <3>2, <3>3 DEF Skip, Record
  <2>22. CASE CaseStart(p)
    <3>1. PICK c \in run.todo : log' = Append(log, CaseEvent("case_start", c))
      BY <2>22 DEF CaseStart, Record
    <3>2. c \in 0..NCases
      BY ConstantsAssumption DEF TypeInv, Runs, Cases
    <3>3. log' \in Seq(Events) /\ CasesNamed(log')
      BY <3>1, <3>2, EventTypes, KindNames, AppendType DEF TypeInv, EventNames, CaseNamed
    <3>4. pc' \in [Procs -> Steps]
      BY <2>22 DEF TypeInv, CaseStart, Goto, Steps
    <3> QED BY <2>22, <3>3, <3>4 DEF TypeInv, CaseStart
  <2>23. CASE CaseEnds(p)
    <3>1. PICK c \in run.todo :
            /\ \/ log' = Append(log, CaseEvent("case_complete", c))
               \/ log' = Append(log, CaseEvent("case_failed", c))
            /\ \/ run' = [run EXCEPT !.todo = @ \ {c}]
               \/ run' = [run EXCEPT !.todo = @ \ {c}, !.failed = TRUE]
            /\ Goto(p, "cases") \/ Goto(p, "retry")
      BY <2>23 DEF CaseEnds, Record
    <3>2. c \in Cases
      BY ConstantsAssumption DEF TypeInv, Runs, Cases
    <3>3. log' \in Seq(Events) /\ CasesNamed(log')
      BY <3>1, <3>2, VerdictEvent, AppendType DEF TypeInv
    <3>4. pc' \in [Procs -> Steps]
      BY <3>1 DEF TypeInv, Goto, Steps
    <3>5. run' \in Runs
      BY <3>1, ZenonT(60) DEF TypeInv, Runs
    <3> QED BY <2>23, <3>3, <3>4, <3>5 DEF TypeInv, CaseEnds
  <2>24. CASE RecordCleanup(p)
    <3>1. CleanupEvent(p) \in {"cleanup_failed", "server_kept", "server_stopped"}
      BY DEF TypeInv, Runs, CleanupEvent
    <3>2. log' \in Seq(Events) /\ CasesNamed(log')
      BY <2>24, <3>1, RunEvent, AppendType DEF TypeInv, RecordCleanup, Record
    <3>3. container' \in Containers
      BY <2>24 DEF TypeInv, RecordCleanup, Containers
    <3>4. pc' \in [Procs -> Steps]
      BY <2>24 DEF TypeInv, RecordCleanup, Goto, Steps
    <3> QED BY <2>24, <3>2, <3>3, <3>4 DEF TypeInv, RecordCleanup
  <2>25. CASE Breach(p)
    <3>1. log' \in Seq(Events) /\ CasesNamed(log')
      BY <2>25, RunEvent, AppendType DEF TypeInv, Breach, Record
    <3>2. pc' \in [Procs -> Steps]
      BY <2>25 DEF TypeInv, Breach, Goto, Steps
    <3> QED BY <2>25, <3>1, <3>2 DEF TypeInv, Breach
  <2>26. CASE InterruptFailed(p)
    <3>1. log' \in Seq(Events) /\ CasesNamed(log')
      BY <2>26, RunEvent, AppendType DEF TypeInv, InterruptFailed, Record
    <3>2. pc' \in [Procs -> Steps]
      BY <2>26 DEF TypeInv, InterruptFailed, Goto, Steps
    <3> QED BY <2>26, <3>1, <3>2 DEF TypeInv, InterruptFailed
  <2>27. CASE Abort(p)
    <3>1. AbortKind \in Kinds
      BY Zenon DEF Kinds, AbortKind
    <3>2. log' \in Seq(Events) /\ CasesNamed(log')
      BY <2>27, <3>1, RunEvent, AppendType DEF TypeInv, Abort, Record
    <3> QED BY <2>27, <3>2, ReleaseType DEF TypeInv, Abort
  <2>28. CASE Retry(p)
    <3>1. pc' \in [Procs -> Steps]
      BY <2>28 DEF TypeInv, Retry, Goto, Steps
    <3>0. log' = log \/ log' = Append(log, Event("host_safety_interrupt_failed"))
      BY <2>28 DEF Retry, Record
    <3>2. log' \in Seq(Events) /\ CasesNamed(log')
      BY <3>0, RunEvent, AppendType DEF TypeInv
    <3>3. run' \in Runs
      BY <2>28, ZenonT(60) DEF TypeInv, Retry, Runs
    <3>4. (\E ok, done \in BOOLEAN : interrupt_owned(ok, done)) \/ UNCHANGED <<container, faults>>
      BY <2>28 DEF Retry
    <3>5. container' \in Containers /\ faults' \in 0..MaxFaults
      BY <3>4, InterruptType DEF TypeInv
    <3> QED BY <2>28, <3>1, <3>2, <3>3, <3>5 DEF TypeInv, Retry
  <2> QED
    BY <1>1, <2>1, <2>2, <2>3, <2>4, <2>5, <2>6, <2>7, <2>8, <2>9, <2>10, <2>11, <2>12, <2>13, <2>14,
       <2>15, <2>16, <2>17, <2>18, <2>19, <2>20, <2>21, <2>22, <2>23, <2>24, <2>25, <2>26, <2>27, <2>28 DEF Step
<1>2. ASSUME NEW p \in Procs, Invoke(p) PROVE TypeInv'
  <2>1. completed_cases(log) \subseteq Cases /\ terminal_cases(log) \subseteq Cases
    BY DEF TypeInv, CasesNamed, CaseNamed, completed_cases, terminal_cases
  <2>2. read' \in [Procs -> Reads]
    BY <1>2, <2>1 DEF TypeInv, Invoke, Reads
  <2>3. keep' \in [Procs -> BOOLEAN]
    BY <1>2, ConstantsAssumption DEF TypeInv, Invoke
  <2>4. pc' \in [Procs -> Steps]
    BY <1>2 DEF TypeInv, Invoke, Goto, Steps
  <2>5. calls' \in 0..MaxCalls
    BY <1>2, ConstantsAssumption DEF TypeInv, Invoke
  <2> QED BY <1>2, <2>2, <2>3, <2>4, <2>5 DEF TypeInv, Invoke
<1>3. ASSUME NEW p \in Procs, Crash(p) PROVE TypeInv'
  <2>1. crashes' \in 0..MaxCrashes
    BY <1>3, ConstantsAssumption DEF TypeInv, Crash
  <2>2. pc' \in [Procs -> Steps]
    BY <1>3 DEF TypeInv, Crash, Release, Goto, Steps
  <2>3. lock' \in Procs \cup {None} /\ run' \in Runs /\ wd' \in Watches
    BY <1>3, Constants DEF TypeInv, Crash, Release
  <2> QED BY <1>3, <2>1, <2>2, <2>3 DEF TypeInv, Crash
<1>4. ASSUME Trip PROVE TypeInv'
  <2>1. wd' \in Watches
    BY <1>4 DEF TypeInv, Trip, Watches
  <2> QED BY <1>4, <2>1 DEF TypeInv, Trip
<1>5. ASSUME AbortCallback PROVE TypeInv'
  <2>1. wd' \in Watches
    BY <1>5 DEF TypeInv, AbortCallback, Watches
  <2>2. run' \in Runs
    BY <1>5 DEF TypeInv, AbortCallback, Runs
  <2>3. container' \in Containers /\ faults' \in 0..MaxFaults
    BY <1>5, InterruptType DEF TypeInv, AbortCallback
  <2> QED BY <1>5, <2>1, <2>2, <2>3 DEF TypeInv, AbortCallback
<1>6. ASSUME ServerDies PROVE TypeInv'
  BY <1>6, ContainerFields DEF TypeInv, ServerDies
<1>7. ASSUME OperatorRemoves PROVE TypeInv'
  BY <1>7, Constants, ConstantsAssumption DEF TypeInv, OperatorRemoves, Fault
<1>8. ASSUME OtherRun PROVE TypeInv'
  <2>1. [owner |-> "other", up |-> TRUE, kept |-> TRUE] \in Containers
    BY DEF Containers
  <2> QED BY <1>8, <2>1, Constants DEF TypeInv, OtherRun
<1>9. ASSUME UNCHANGED vars PROVE TypeInv'
  BY <1>9 DEF TypeInv, vars
<1> QED BY <1>1, <1>2, <1>3, <1>4, <1>5, <1>6, <1>7, <1>8, <1>9 DEF Next

LEMMA Typed == TypeInv => TypeOK
BY DEF TypeInv, TypeOK, Events, Kinds, Containers, Runs, Watches, Reads

LEMMA TypeInit == Init => TypeInv
<1> SUFFICES ASSUME Init PROVE TypeInv
  OBVIOUS
<1>1. /\ log \in Seq(Events) /\ CasesNamed(log) /\ lock \in Procs \cup {None}
      /\ container \in Containers /\ run \in Runs /\ wd \in Watches
  BY Constants DEF Init, CasesNamed
<1>2. pc \in [Procs -> Steps] /\ keep \in [Procs -> BOOLEAN]
  BY DEF Init, Steps
<1>3. read \in [Procs -> Reads]
  BY DEF Init, Reads
<1>4. calls \in 0..MaxCalls /\ crashes \in 0..MaxCrashes /\ faults \in 0..MaxFaults
  BY ConstantsAssumption DEF Init
<1> QED BY <1>1, <1>2, <1>3, <1>4 DEF TypeInv

\* Every variable keeps its type: the journal is a sequence of well-formed
\* events and no process is ever in a step the harness does not have.
THEOREM TypeCorrect == Spec => []TypeOK
<1>1. Spec => []TypeInv
  BY TypeInit, TypeStep, PTL DEF Spec
<1> QED BY <1>1, Typed, PTL
-----------------------------------------------------------------------------
(***************************************************************************)
(* The lock.                                                               *)
(***************************************************************************)
\* What a step of the holder does to the other processes: nothing.
LEMMA HolderStep ==
  ASSUME TypeInv, LockInv, NEW p \in Procs, Step(p), pc[p] # "lock"
  PROVE  /\ lock = p /\ pc[p] \notin Outside
         /\ \A q \in Procs : q # p => pc'[q] = pc[q] /\ pc[q] \in Outside
         /\ \/ lock' = p
            \/ Release(p)
<1>1. /\ pc[p] \notin Outside
      /\ \E s \in Steps : pc' = [pc EXCEPT ![p] = s]
      /\ lock' = lock \/ Release(p)
  <2>1. CASE Recover(p) \/ RecoverFails(p) \/ Recovered(p) \/ Preflight(p) \/ StartWatch(p)
    BY <2>1 DEF TypeInv, Outside, Goto, Steps, Recover, RecoverFails, Recovered, Preflight, StartWatch
  <2>2. CASE Plan(p) \/ Skip(p) \/ Complete(p) \/ Abort(p)
    BY <2>2 DEF TypeInv, Outside, Goto, Steps, Release, Plan, Skip, Complete, Abort
  <2>3. CASE StartServer(p) \/ Register(p) \/ CallbackReturns(p) \/ EndpointReady(p)
    BY <2>3 DEF TypeInv, Outside, Goto, Steps, StartServer, Register, CallbackReturns, EndpointReady
  <2>4. CASE ServerReady(p) \/ Prime(p) \/ CaseStart(p) \/ CaseEnds(p) \/ MeasurementComplete(p)
    BY <2>4 DEF TypeInv, Outside, Goto, Steps, ServerReady, Prime, CaseStart, CaseEnds, MeasurementComplete
  <2>5. CASE Raise(p)
    BY <2>5 DEF TypeInv, Outside, Goto, Steps, Raise, Handler, Unlaunched, Serving
  <2>6. CASE Retry(p)
    BY <2>6 DEF TypeInv, Outside, Goto, Steps, Retry
  <2>7. CASE Stop(p) \/ Rm(p)
    BY <2>7 DEF TypeInv, Outside, Goto, Steps, Stop, Rm, StopFailed, Runs
  <2>8. CASE Unwatch(p) \/ RecordCleanup(p) \/ Close(p) \/ Breach(p) \/ InterruptFailed(p)
    BY <2>8 DEF TypeInv, Outside, Goto, Steps, Unwatch, RecordCleanup, Close, Outcome, Breach, InterruptFailed
  <2> QED BY <2>1, <2>2, <2>3, <2>4, <2>5, <2>6, <2>7, <2>8 DEF Step, Lock
<1>2. lock = p
  BY <1>1 DEF LockInv
<1> QED BY <1>1, <1>2, ConstantsAssumption DEF TypeInv, LockInv

LEMMA OnlyLock ==
  ASSUME NEW p \in Procs, Step(p), pc[p] = "lock" PROVE Lock(p)
BY DEF Step, Lock, Recover, RecoverFails, Recovered, Plan, Skip, Preflight,
  StartWatch, StartServer, Register, CallbackReturns, EndpointReady, ServerReady,
  Prime, CaseStart, CaseEnds, MeasurementComplete, Raise, Handler, Unlaunched,
  Serving, Retry, Stop, Rm, Unwatch, RecordCleanup, Close, Complete, Breach,
  InterruptFailed, Abort

LEMMA LockStep == TypeInv /\ LockInv /\ [Next]_vars => LockInv'
<1> SUFFICES ASSUME TypeInv, LockInv, [Next]_vars PROVE LockInv'
  OBVIOUS
<1>1. ASSUME NEW p \in Procs, Step(p), pc[p] # "lock" PROVE LockInv'
  <2>1. CASE lock' = p
    BY <1>1, <2>1, HolderStep, ConstantsAssumption DEF LockInv, Outside
  <2>2. CASE Release(p)
    BY <1>1, <2>2, HolderStep DEF TypeInv, LockInv, Release, Goto, Outside
  <2> QED BY <1>1, <2>1, <2>2, HolderStep
<1>2. ASSUME NEW p \in Procs, Step(p), pc[p] = "lock" PROVE LockInv'
  <2>1. Lock(p)
    BY <1>2, OnlyLock
  <2>2. CASE lock = None
    BY <2>1, <2>2, ConstantsAssumption DEF Lock, TypeInv, LockInv, Goto, Outside
  <2>3. CASE lock # None
    BY <2>1, <2>3 DEF Lock, TypeInv, LockInv, Goto, Outside
  <2> QED BY <2>2, <2>3
<1>3. ASSUME NEW p \in Procs, Invoke(p) PROVE LockInv'
  BY <1>3 DEF Invoke, TypeInv, LockInv, Goto, Outside
<1>4. ASSUME NEW p \in Procs, Crash(p) PROVE LockInv'
  BY <1>4 DEF Crash, TypeInv, LockInv, Release, Goto, Outside
<1>5. ASSUME Trip \/ AbortCallback PROVE LockInv'
  <2>1. wd # NoWatch
    BY <1>5 DEF Trip, AbortCallback, NoWatch
  <2> QED BY <1>5, <2>1 DEF Trip, AbortCallback, LockInv
<1>6. ASSUME ServerDies \/ OperatorRemoves \/ OtherRun \/ UNCHANGED vars PROVE LockInv'
  BY <1>6 DEF ServerDies, OperatorRemoves, OtherRun, vars, LockInv
<1> QED BY <1>1, <1>2, <1>3, <1>4, <1>5, <1>6 DEF Next

LEMMA LockInit == Init => LockInv
BY DEF Init, LockInv, Outside
-----------------------------------------------------------------------------
(***************************************************************************)
(* The owned container.                                                    *)
(***************************************************************************)
\* The strengthening of OwnedIsPending: what the journal knows of an owned
\* container while somebody works on the run.
Settled == Owned => container.kept

OwnedInv ==
  /\ Owned => container.kept \/ Pending(log)
  /\ \A p \in Procs :
       /\ pc[p] = "recovered" => ~Owned
       /\ pc[p] = "plan" => Settled
       /\ pc[p] \in {"skip", "preflight", "watch", "start"} => Pending(log) /\ Settled
       /\ pc[p] \in {"stop", "rm"} /\ run.from = "startup" => run.failed
       /\ pc[p] = "unwatch" /\ ~keep[p] => ~Owned
       /\ pc[p] = "record" /\ ~keep[p] /\ ~run.broken => ~Owned
       /\ pc[p] = "close" /\ ~run.failed /\ ~run.broken => Settled
       /\ pc[p] = "complete" => Settled

\* Which events leave a pending server pending.
LEMMA PendingAppend ==
  ASSUME NEW l \in Seq(Events), NEW e \in Events
  PROVE  /\ e.event = "run_start" => Pending(Append(l, e))
         /\ Pending(l) /\ e.event \notin {"server_stopped", "server_kept", "run_complete"}
              => Pending(Append(l, e))
<1> DEFINE m == Append(l, e)
<1>1. Has(m, "run_start") <=> Has(l, "run_start") \/ e.event = "run_start"
  BY AppendHas
<1>2. Since(m, "server_ready")
        <=> e.event = "server_ready" \/ (Since(l, "server_ready") /\ e.event # "run_start")
  BY AppendSince
<1>3. Since(m, "run_complete")
        <=> e.event = "run_complete" \/ (Since(l, "run_complete") /\ e.event # "run_start")
  BY AppendSince
<1>4. After(m, {"server_stopped", "server_kept"}, {"server_ready"})
        <=> \/ e.event \in {"server_stopped", "server_kept"}
            \/ /\ After(l, {"server_stopped", "server_kept"}, {"server_ready"})
               /\ e.event # "server_ready"
  BY AppendAfter
<1> QED BY <1>1, <1>2, <1>3, <1>4 DEF Pending


\* A pending server stays pending through everything that is not the record
\* of its end.
LEMMA PendingKept ==
  ASSUME TypeInv, NEW p \in Procs, Pending(log),
         \/ (Skip(p) /\ pc'[p] # "idle")
         \/ ServerReady(p) \/ CaseStart(p) \/ CaseEnds(p)
         \/ Retry(p) \/ Breach(p) \/ InterruptFailed(p) \/ Abort(p)
  PROVE  Pending(log')
<1>1. \/ log' = log
      \/ \E e \in Events : /\ log' = Append(log, e)
                          /\ e.event \notin {"server_stopped", "server_kept", "run_complete"}
  <2>1. CASE Skip(p) /\ pc'[p] # "idle"
    <3>1. log' = log \/ \E c \in Cases : log' = Append(log, CaseEvent("case_skipped", c))
      BY <2>1, ConstantsAssumption DEF Skip, Record, Release, Goto, TypeInv
    <3> QED BY <3>1, ConstantsAssumption, EventTypes, KindNames DEF EventNames, Cases
  <2>2. CASE ServerReady(p)
    BY <2>2, RunEvent, EventTypes, KindNames, ConstantsAssumption DEF ServerReady, Record, EventNames
  <2>3. CASE CaseStart(p) \/ CaseEnds(p)
    <3>1. \E c \in Cases : \E n \in {"case_start", "case_complete", "case_failed"} :
            log' = Append(log, CaseEvent(n, c))
      BY <2>3 DEF CaseStart, CaseEnds, Record, TypeInv, Runs
    <3> QED BY <3>1, ConstantsAssumption, EventTypes, KindNames DEF EventNames, Cases
  <2>4. CASE Retry(p) \/ Breach(p) \/ InterruptFailed(p)
    <3>1. log' = log \/ \E n \in {"host_safety_interrupt_failed", "host_safety_breach"} :
                          log' = Append(log, Event(n))
      BY <2>4 DEF Retry, Breach, InterruptFailed, Record
    <3> QED BY <3>1, ConstantsAssumption, EventTypes, KindNames DEF EventNames
  <2>5. CASE Abort(p)
    <3>1. AbortKind \in Kinds
      BY Zenon DEF Kinds, AbortKind
    <3> QED BY <2>5, <3>1, ConstantsAssumption, EventTypes DEF Abort, Record, EventNames
  <2> QED BY <2>1, <2>2, <2>3, <2>4, <2>5
<1> QED BY <1>1, PendingAppend DEF TypeInv

\* The watchdog's stop changes nothing but whether the server is up.
LEMMA InterruptKeeps ==
  ASSUME container \in Containers,
         \/ \E ok, done \in BOOLEAN : interrupt_owned(ok, done)
         \/ UNCHANGED container
  PROVE  container'.owner = container.owner /\ container'.kept = container.kept
BY DEF interrupt_owned, Containers

LEMMA OwnedStep == TypeInv /\ LockInv /\ OwnedInv /\ [Next]_vars => OwnedInv'
<1> SUFFICES ASSUME TypeInv, LockInv, OwnedInv, [Next]_vars PROVE OwnedInv'
  OBVIOUS
<1>1. ASSUME NEW p \in Procs, Step(p), pc[p] # "lock" PROVE OwnedInv'
  <2>0. \A q \in Procs : q # p => pc'[q] \in Outside
    BY <1>1, HolderStep
  <2> USE DEF Settled, Owned
  <2>1. CASE Recover(p)
    <3>1. run' = run \/ run'.from = "recover"
      BY <2>1 DEF Recover, TypeInv, Runs
    <3>2. \/ pc'[p] = "plan" /\ ~Pending(log)
          \/ pc'[p] = "stop" /\ run'.from = "recover"
          \/ pc'[p] = "recovered" /\ ~Owned
      BY <2>1, <3>1 DEF Recover, TypeInv, Runs, Goto
    <3>3. log' = log /\ container' = container
      BY <2>1 DEF Recover
    <3> QED BY <2>0, <3>2, <3>3 DEF OwnedInv, Outside
  <2>17. CASE RecoverFails(p) \/ Preflight(p)
    BY <2>0, <2>17 DEF RecoverFails, Preflight, TypeInv, OwnedInv, Goto, Outside
  <2>2. CASE StartWatch(p) \/ Register(p) \/ CallbackReturns(p) \/ EndpointReady(p) \/ Prime(p)
    BY <2>0, <2>2 DEF StartWatch, Register, CallbackReturns, EndpointReady, Prime, TypeInv, OwnedInv, Goto, Outside
  <2>3. CASE MeasurementComplete(p) \/ Unwatch(p)
    BY <2>0, <2>3 DEF MeasurementComplete, Unwatch, TypeInv, OwnedInv, Goto, Outside
  <2>4. CASE Raise(p)
    BY <2>0, <2>4 DEF Raise, Handler, Unlaunched, Serving, TypeInv, Runs, OwnedInv, Goto, Outside
  <2>5. CASE Close(p)
    BY <2>0, <2>5 DEF Close, Outcome, TypeInv, OwnedInv, Goto, Outside
  <2>6. CASE Recovered(p)
    BY <2>0, <2>6 DEF Recovered, TypeInv, OwnedInv, Goto, Outside
  <2>7. CASE Plan(p)
    <3>1. CASE Cases \subseteq read[p].terminal
      BY <2>0, <2>7, <3>1 DEF Plan, Release, TypeInv, OwnedInv, Goto, Outside
    <3>2. CASE ~(Cases \subseteq read[p].terminal)
      <4>0. Event("run_start") \in Events /\ Event("run_start").event = "run_start"
        BY EventTypes, KindNames, ConstantsAssumption DEF EventNames
      <4>1. Pending(log')
        BY <2>7, <3>2, <4>0, PendingAppend DEF Plan, Record, TypeInv
      <4> QED BY <2>0, <2>7, <3>2, <4>1 DEF Plan, TypeInv, OwnedInv, Goto, Outside
    <3> QED BY <3>1, <3>2
  <2>8. CASE Skip(p)
    <3>1. CASE pc'[p] # "idle"
      <4>1. Pending(log')
        BY <2>8, <3>1, PendingKept DEF Skip, OwnedInv
      <4> QED BY <2>0, <2>8, <3>1, <4>1 DEF Skip, Release, TypeInv, OwnedInv, Goto, Outside
    <3>2. CASE pc'[p] = "idle"
      BY <2>0, <2>8, <3>2 DEF Skip, Release, TypeInv, OwnedInv, Goto, Outside
    <3> QED BY <3>1, <3>2
  <2>9. CASE ServerReady(p) \/ CaseStart(p) \/ CaseEnds(p)
    <3>1. Pending(log) => Pending(log')
      BY <2>9, PendingKept
    <3> QED BY <2>0, <2>9, <3>1, ZenonT(60) DEF ServerReady, CaseStart, CaseEnds, TypeInv, OwnedInv, Goto, Outside
  <2>10. CASE Breach(p) \/ InterruptFailed(p) \/ Abort(p)
    <3>1. Pending(log) => Pending(log')
      BY <2>10, PendingKept
    <3> QED BY <2>0, <2>10, <3>1 DEF Breach, InterruptFailed, Abort, Release, TypeInv, OwnedInv, Goto, Outside
  <2>11. CASE Complete(p)
    BY <2>0, <2>11 DEF Complete, Release, TypeInv, OwnedInv, Goto, Outside
  <2>12. CASE StartServer(p)
    <3>1. Pending(log) /\ log' = log
      BY <2>12 DEF StartServer, OwnedInv
    <3> QED BY <2>0, <2>12, <3>1 DEF StartServer, Fault, TypeInv, Runs, OwnedInv, Goto, Outside
  <2>13. CASE Retry(p)
    <3>1. Pending(log) => Pending(log')
      BY <2>13, PendingKept
    <3>2. container'.owner = container.owner /\ container'.kept = container.kept
      BY <2>13, InterruptKeeps DEF Retry, TypeInv
    <3>3. run'.from = "cleanup" /\ pc' = [pc EXCEPT ![p] = "stop"]
      BY <2>13 DEF Retry, TypeInv, Runs, Goto
    <3> QED BY <2>0, <3>1, <3>2, <3>3 DEF TypeInv, OwnedInv, Outside
  <2>14. CASE Stop(p)
    <3>1. container'.owner = container.owner /\ container'.kept = container.kept
      BY <2>14 DEF Stop, TypeInv, Containers
    <3>2. \/ pc'[p] = "unwatch" /\ keep[p]
          \/ pc'[p] = "rm" /\ run' = run
          \/ pc'[p] = "abort"
          \/ pc'[p] = "close" /\ run.from = "startup" /\ run'.failed = run.failed
          \/ pc'[p] = "record" /\ run'.broken
      BY <2>14 DEF Stop, StopFailed, TypeInv, Runs, Goto
    <3> QED BY <2>0, <2>14, <3>1, <3>2 DEF Stop, TypeInv, OwnedInv, Outside
  <2>15. CASE Rm(p)
    <3>1. container' = container \/ container' = NoContainer
      BY <2>15 DEF Rm
    <3>2. \/ pc'[p] = "recovered" /\ container' = NoContainer
          \/ pc'[p] = "unwatch" /\ container' = NoContainer
          \/ pc'[p] = "abort"
          \/ pc'[p] = "close" /\ run.from = "startup" /\ run'.failed = run.failed
          \/ pc'[p] = "record" /\ run'.broken
      BY <2>15 DEF Rm, StopFailed, TypeInv, Runs, Goto
    <3> QED BY <2>0, <2>15, <3>1, <3>2 DEF Rm, NoContainer, TypeInv, OwnedInv, Outside
  <2>16. CASE RecordCleanup(p)
    <3>1. CASE CleanupEvent(p) = "cleanup_failed"
      <4>1. Pending(log) => Pending(log')
        BY <2>16, <3>1, EventTypes, KindNames, ConstantsAssumption, PendingAppend, SMTT(30)
           DEF RecordCleanup, Record, TypeInv, EventNames
      <4>2. run.broken
        BY <3>1 DEF CleanupEvent, TypeInv, Runs
      <4> QED BY <2>0, <2>16, <3>1, <4>1, <4>2 DEF RecordCleanup, TypeInv, Containers, OwnedInv, Goto, Outside
    <3>2. CASE CleanupEvent(p) = "server_kept"
      BY <2>0, <2>16, <3>2 DEF RecordCleanup, TypeInv, Containers, OwnedInv, Goto, Outside
    <3>3. CASE CleanupEvent(p) = "server_stopped"
      <4>1. ~run.broken /\ ~keep[p]
        BY <3>3 DEF CleanupEvent, TypeInv, Runs
      <4>2. ~Owned /\ ~Owned'
        BY <2>16, <4>1 DEF RecordCleanup, TypeInv, Containers, OwnedInv
      <4> QED BY <2>0, <2>16, <4>2 DEF RecordCleanup, TypeInv, OwnedInv, Goto, Outside
    <3> QED BY <3>1, <3>2, <3>3 DEF CleanupEvent, TypeInv, Runs
  <2> QED
    BY <1>1, <2>1, <2>2, <2>3, <2>4, <2>5, <2>6, <2>7, <2>8, <2>9, <2>10, <2>11, <2>12,
       <2>13, <2>14, <2>15, <2>16, <2>17 DEF Step, Lock
<1>2. ASSUME NEW p \in Procs, Step(p), pc[p] = "lock" PROVE OwnedInv'
  <2>1. Lock(p)
    BY <1>2, OnlyLock
  <2> QED BY <2>1 DEF Lock, TypeInv, OwnedInv, Settled, Owned, Goto
<1>3. ASSUME NEW p \in Procs, Invoke(p) PROVE OwnedInv'
  BY <1>3 DEF Invoke, TypeInv, OwnedInv, Settled, Owned, Goto
<1>4. ASSUME NEW p \in Procs, Crash(p) PROVE OwnedInv'
  <2>1. CASE lock = p
    BY <1>4, <2>1, ConstantsAssumption DEF Crash, Release, TypeInv, LockInv, OwnedInv, Settled, Owned, Goto, Outside
  <2>2. CASE lock # p
    BY <1>4, <2>2 DEF Crash, TypeInv, OwnedInv, Settled, Owned, Goto
  <2> QED BY <2>1, <2>2
<1>5. ASSUME AbortCallback PROVE OwnedInv'
  <2>1. container'.owner = container.owner /\ container'.kept = container.kept
    BY <1>5, InterruptKeeps DEF AbortCallback, TypeInv
  <2>2. run'.from = run.from /\ run'.failed = run.failed /\ run'.broken = run.broken
    BY <1>5 DEF AbortCallback, TypeInv, Runs
  <2> QED BY <1>5, <2>1, <2>2 DEF AbortCallback, OwnedInv, Settled, Owned
<1>6. ASSUME Trip \/ UNCHANGED vars PROVE OwnedInv'
  BY <1>6 DEF Trip, vars, OwnedInv, Settled, Owned
<1>7. ASSUME ServerDies PROVE OwnedInv'
  <2>1. container'.owner = container.owner /\ container'.kept = container.kept
    BY <1>7 DEF ServerDies, TypeInv, Containers
  <2> QED BY <1>7, <2>1 DEF ServerDies, OwnedInv, Settled, Owned
<1>8. ASSUME OperatorRemoves \/ OtherRun PROVE OwnedInv'
  <2>1. container'.owner # "run"
    BY <1>8 DEF OperatorRemoves, OtherRun, NoContainer
  <2> QED BY <1>8, <2>1 DEF OperatorRemoves, OtherRun, OwnedInv, Settled, Owned
<1> QED BY <1>1, <1>2, <1>3, <1>4, <1>5, <1>6, <1>7, <1>8 DEF Next

LEMMA OwnedInit == Init => OwnedInv
BY DEF Init, OwnedInv, Settled, Owned, NoContainer

\* The owned container is never forgotten: after any crashes, docker failures
\* and interleavings of any number of processes, a container of the run that
\* exists while nobody works on it is one the next invocation's recovery looks
\* for, or one the journal says was kept.
THEOREM OwnedNeverForgotten == Spec => []OwnedIsPending
<1>1. TypeInv /\ LockInv /\ OwnedInv /\ [Next]_vars => (TypeInv /\ LockInv /\ OwnedInv)'
  BY TypeStep, LockStep, OwnedStep
<1>2. OwnedInv => OwnedIsPending
  BY DEF OwnedInv, OwnedIsPending
<1> QED BY <1>1, <1>2, TypeInit, LockInit, OwnedInit, PTL DEF Spec
-----------------------------------------------------------------------------
(***************************************************************************)
(* What is appended, and by whom.                                          *)
(***************************************************************************)
LEMMA LogStep ==
  ASSUME TypeInv, NEW p \in Procs, Step(p), log' # log
  PROVE  \E e \in Events :
           /\ log' = Append(log, e)
           /\ e.event = "run_complete" => (Plan(p) \/ Skip(p) \/ Complete(p)) /\ Release(p)
           /\ e.event = "run_start" => Plan(p)
<1>0. \A n \in EventNames : Event(n) \in Events /\ Event(n).event = n
  BY EventTypes, KindNames, ConstantsAssumption
<1>1. CASE Recovered(p) \/ ServerReady(p) \/ RecordCleanup(p) \/ Retry(p) \/ Breach(p)
           \/ InterruptFailed(p)
  <2>1. CleanupEvent(p) \in {"cleanup_failed", "server_kept", "server_stopped"}
    BY DEF TypeInv, Runs, CleanupEvent
  <2>2. \E n \in EventNames \ {"run_complete", "run_start"} : log' = Append(log, Event(n))
    BY <1>1, <2>1 DEF Recovered, ServerReady, RecordCleanup, Retry, Breach, InterruptFailed,
       Record, EventNames
  <2> QED BY <1>0, <2>2
<1>2. CASE CaseStart(p) \/ CaseEnds(p)
  <2>1. \E c \in Cases : \E n \in {"case_start", "case_complete", "case_failed"} :
          log' = Append(log, CaseEvent(n, c))
    BY <1>2 DEF CaseStart, CaseEnds, Record, TypeInv, Runs
  <2> QED BY <2>1, EventTypes, KindNames, ConstantsAssumption DEF EventNames, Cases
<1>3. CASE Plan(p)
  <2>1. CASE Cases \subseteq read[p].terminal
    <3>1. FinishKind(p) \in Kinds
      BY Zenon DEF Kinds, FinishKind
    <3>2. log' = Append(log, KindEvent("run_complete", FinishKind(p))) /\ Release(p)
      BY <1>3, <2>1 DEF Plan, Record
    <3> QED BY <1>3, <3>1, <3>2, EventTypes, ConstantsAssumption DEF EventNames
  <2>2. CASE ~(Cases \subseteq read[p].terminal)
    <3>1. log' = Append(log, Event("run_start"))
      BY <1>3, <2>2 DEF Plan, Record
    <3>2. "run_start" \in EventNames
      BY DEF EventNames
    <3> QED BY <1>0, <1>3, <3>1, <3>2
  <2> QED BY <2>1, <2>2
<1>4. CASE Skip(p)
  <2>1. \/ \E c \in Cases : log' = Append(log, CaseEvent("case_skipped", c))
        \/ log' = Append(log, KindEvent("run_complete", "no_work")) /\ Release(p)
    BY <1>4, ConstantsAssumption DEF Skip, Record
  <2>2. "no_work" \in Kinds
    BY Zenon DEF Kinds
  <2> QED BY <1>4, <2>1, <2>2, EventTypes, ConstantsAssumption DEF EventNames, Cases
<1>5. CASE Complete(p)
  <2>1. PICK k \in Kinds : log' = Append(log, KindEvent("run_complete", k))
    <3>1. (IF keep[p] THEN "completed_server_kept" ELSE "completed") \in Kinds
      BY Zenon DEF Kinds
    <3> QED BY <1>5, <3>1 DEF Complete, Record
  <2>2. Release(p)
    BY <1>5 DEF Complete
  <2> QED BY <1>5, <2>1, <2>2, EventTypes, ConstantsAssumption DEF EventNames
<1>6. CASE Abort(p)
  <2>1. AbortKind \in Kinds
    BY Zenon DEF Kinds, AbortKind
  <2>2. log' = Append(log, KindEvent("run_aborted", AbortKind))
    BY <1>6 DEF Abort, Record
  <2> QED BY <2>1, <2>2, EventTypes, ConstantsAssumption DEF EventNames
<1>7. \/ Recovered(p) \/ ServerReady(p) \/ RecordCleanup(p) \/ Retry(p) \/ Breach(p)
      \/ InterruptFailed(p) \/ CaseStart(p) \/ CaseEnds(p) \/ Plan(p) \/ Skip(p)
      \/ Complete(p) \/ Abort(p)
  BY DEF Step, Lock, Recover, RecoverFails, Preflight, StartWatch, StartServer, Register,
     CallbackReturns, EndpointReady, Prime, MeasurementComplete, Raise, Stop, Rm, Unwatch, Close
<1> QED BY <1>1, <1>2, <1>3, <1>4, <1>5, <1>6, <1>7

LEMMA OnlyStepsAppend ==
  ASSUME [Next]_vars, log' # log
  PROVE  \E p \in Procs : Step(p)
BY DEF Next, vars, Invoke, Crash, Trip, AbortCallback, ServerDies, OperatorRemoves, OtherRun

LEMMA WhoCompletes ==
  ASSUME TypeInv, [Next]_vars, Recorded("run_complete")
  PROVE  \E p \in Procs : (Plan(p) \/ Skip(p) \/ Complete(p)) /\ Release(p)
<1>1. log' # log
  BY DEF Recorded, TypeInv
<1>2. PICK p \in Procs : Step(p)
  BY <1>1, OnlyStepsAppend
<1>3. PICK e \in Events :
        /\ log' = Append(log, e)
        /\ e.event = "run_complete" => (Plan(p) \/ Skip(p) \/ Complete(p)) /\ Release(p)
  BY <1>1, <1>2, LogStep
<1>4. log'[Len(log')] = e
  BY <1>3 DEF TypeInv
<1> QED BY <1>3, <1>4 DEF Recorded

\* A run is recorded as complete only when its container is gone or kept.
THEOREM StoppedWhenComplete == Spec => CompleteMeansStopped
<1>1. TypeInv /\ LockInv /\ OwnedInv /\ [Next]_vars => (TypeInv /\ LockInv /\ OwnedInv)'
  BY TypeStep, LockStep, OwnedStep
<1>2. ASSUME TypeInv, OwnedInv, [Next]_vars
      PROVE  [Recorded("run_complete") /\ Owned => container.kept]_vars
  <2> SUFFICES ASSUME Recorded("run_complete"), Owned PROVE container.kept
    OBVIOUS
  <2>1. PICK p \in Procs : Plan(p) \/ Skip(p) \/ Complete(p)
    BY <1>2, WhoCompletes
  <2> QED BY <1>2, <2>1 DEF Plan, Skip, Complete, OwnedInv, Settled
<1> QED BY <1>1, <1>2, TypeInit, LockInit, OwnedInit, PTL DEF Spec, CompleteMeansStopped
-----------------------------------------------------------------------------
(***************************************************************************)
(* The watchdog.                                                           *)
(***************************************************************************)
\* Neither live nor tripped.
Unwatched == wd.state # "on" /\ ~wd.tripped

\* Where the watchdog can be in each stage, and what the journal then holds.
WatchInv ==
  /\ ~Watchdog => wd.state # "on"
  /\ wd.state = "on" \/ wd.tripped => Has(log, "run_start")
  /\ \A p \in Procs :
       /\ pc[p] \in {"recover", "recovered", "plan", "skip", "preflight"} => Unwatched
       /\ pc[p] \in {"stop", "rm"} /\ run.from = "recover" => Unwatched
       /\ pc[p] \in {"skip", "preflight", "watch"} => Has(log, "run_start")
       /\ pc[p] \in {"complete", "breach", "interrupt", "abort"} => wd.state # "on"
       /\ pc[p] = "complete" => ~wd.tripped
       /\ pc[p] \in {"interrupt", "abort"} /\ wd.tripped => Since(log, "host_safety_breach")

LEMMA HasGrows ==
  ASSUME TypeInv, [Next]_vars, Has(log, "run_start") PROVE Has(log', "run_start")
<1>1. CASE log' = log BY <1>1
<1>2. CASE log' # log
  <2>1. PICK p \in Procs : Step(p)
    BY <1>2, OnlyStepsAppend
  <2>2. PICK e \in Events : log' = Append(log, e)
    BY <1>2, <2>1, LogStep
  <2> QED BY <2>2, AppendHas DEF TypeInv
<1> QED BY <1>1, <1>2

LEMMA StopWatchEnds ==
  ASSUME wd \in Watches, StopWatch, ~Watchdog => wd.state # "on"
  PROVE  /\ wd'.state # "on"
         /\ wd'.tripped => wd.tripped \/ wd.state = "on"
<1>1. CASE wd' = [wd EXCEPT !.state = IF Watchdog THEN "closed" ELSE @]
  BY <1>1 DEF Watches
<1>2. CASE /\ wd.state = "on" /\ wd'.state = "closed"
  BY <1>2
<1> QED BY <1>1, <1>2 DEF StopWatch

LEMMA WatchStep == TypeInv /\ LockInv /\ WatchInv /\ [Next]_vars => WatchInv'
<1> SUFFICES ASSUME TypeInv, LockInv, WatchInv, [Next]_vars PROVE WatchInv'
  OBVIOUS
<1>0. Has(log, "run_start") => Has(log', "run_start")
  BY HasGrows
<1>1. ASSUME NEW p \in Procs, Step(p), pc[p] # "lock" PROVE WatchInv'
  <2>0. \A q \in Procs : q # p => pc'[q] \in Outside
    BY <1>1, HolderStep
  <2> USE DEF Unwatched
  <2>1. CASE Recover(p) \/ RecoverFails(p) \/ Recovered(p) \/ Preflight(p)
    <3>1. /\ wd' = wd /\ Unwatched
          /\ pc'[p] \in {"plan", "stop", "recovered", "abort", "watch"}
          /\ pc'[p] = "watch" => Has(log, "run_start")
      BY <2>1 DEF Recover, RecoverFails, Recovered, Preflight, WatchInv, TypeInv, Goto
    <3> QED BY <1>0, <2>0, <3>1 DEF WatchInv, Outside
  <2>2. CASE Plan(p)
    <3>1. CASE Release(p)
      BY <2>0, <3>1 DEF Release, NoWatch, WatchInv, TypeInv, Goto, Outside
    <3>2. CASE ~Release(p)
      <4>1. Event("run_start") \in Events /\ Event("run_start").event = "run_start"
        BY EventTypes, KindNames, ConstantsAssumption DEF EventNames
      <4>2. Has(log', "run_start") /\ wd' = wd /\ pc'[p] = "skip" /\ Unwatched
        BY <2>2, <3>2, <4>1, AppendHas, ZenonT(60) DEF Plan, Record, TypeInv, WatchInv, Goto
      <4> QED BY <2>0, <4>2 DEF WatchInv, Outside
    <3> QED BY <3>1, <3>2
  <2>3. CASE Skip(p) \/ Complete(p) \/ Abort(p)
    <3>1. CASE Release(p)
      BY <2>0, <3>1 DEF Release, NoWatch, WatchInv, TypeInv, Goto, Outside
    <3>2. CASE ~Release(p)
      <4>1. wd' = wd /\ pc'[p] \in {"skip", "preflight"} /\ Unwatched /\ Has(log, "run_start")
        BY <2>3, <3>2 DEF Skip, Complete, Abort, TypeInv, WatchInv, Goto
      <4> QED BY <1>0, <2>0, <4>1 DEF WatchInv, Outside
    <3> QED BY <3>1, <3>2
  <2>4. CASE StartWatch(p)
    <3>1. Has(log, "run_start") /\ log' = log /\ pc'[p] \in {"watch", "start"}
      BY <2>4 DEF StartWatch, WatchInv, TypeInv, Goto
    <3>2. ~Watchdog => wd' = wd
      BY <2>4 DEF StartWatch
    <3> QED BY <2>0, <3>1, <3>2 DEF WatchInv, Outside
  <2>5. CASE Register(p)
    <3>1. wd'.state = wd.state /\ wd'.tripped = wd.tripped
      BY <2>5 DEF Register, TypeInv, Watches
    <3> QED BY <1>0, <2>0, <2>5, <3>1 DEF Register, WatchInv, TypeInv, Goto, Outside
  <2>6. CASE StartServer(p) \/ CallbackReturns(p) \/ EndpointReady(p) \/ ServerReady(p) \/ Prime(p)
             \/ CaseStart(p) \/ CaseEnds(p) \/ MeasurementComplete(p) \/ RecordCleanup(p)
    <3>1. /\ wd' = wd
          /\ pc'[p] \in {"close", "register", "waiting", "ready", "prime", "cases", "measure", "retry"}
      BY <2>6 DEF StartServer, CallbackReturns, EndpointReady, ServerReady, Prime, CaseStart,
         CaseEnds, MeasurementComplete, RecordCleanup, TypeInv, Goto
    <3> QED BY <1>0, <2>0, <3>1 DEF WatchInv, Outside
  <2>7. CASE Raise(p) \/ Retry(p)
    <3>1. /\ wd' = wd /\ run'.from # "recover"
          /\ pc'[p] \in {"close", "stop", "retry"}
      BY <2>7 DEF Raise, Handler, Unlaunched, Serving, Retry, TypeInv, Runs, Goto
    <3> QED BY <1>0, <2>0, <3>1 DEF WatchInv, Outside
  <2>8. CASE Stop(p) \/ Rm(p)
    <3>1. /\ wd' = wd /\ run'.from = run.from
          /\ pc'[p] \in {"unwatch", "rm", "close", "record", "abort", "recovered"}
          /\ pc'[p] \in {"abort", "recovered"} => run.from = "recover"
      BY <2>8 DEF Stop, Rm, StopFailed, TypeInv, Runs, Goto
    <3>2. run.from = "recover" => Unwatched
      BY <2>8 DEF Stop, Rm, WatchInv
    <3> QED BY <1>0, <2>0, <3>1, <3>2 DEF WatchInv, Outside
  <2>9. CASE Unwatch(p)
    <3>1. /\ wd'.state # "on"
          /\ wd'.tripped => wd.tripped \/ wd.state = "on"
          /\ pc'[p] = "record"
      BY <2>9, StopWatchEnds DEF Unwatch, WatchInv, TypeInv, Goto
    <3> QED BY <1>0, <2>0, <3>1 DEF WatchInv, Outside
  <2>10. CASE Close(p)
    <3>1. /\ wd'.state # "on"
          /\ wd'.tripped => wd.tripped \/ wd.state = "on"
      BY <2>10, StopWatchEnds DEF Close, WatchInv, TypeInv
    <3>2. pc'[p] \in {"complete", "breach"} /\ (pc'[p] = "complete" => ~wd'.tripped)
      BY <2>10 DEF Close, Outcome, TypeInv, Goto
    <3> QED BY <1>0, <2>0, <3>1, <3>2 DEF WatchInv, Outside
  <2>11. CASE Breach(p)
    <3>1. Event("host_safety_breach") \in Events
          /\ Event("host_safety_breach").event = "host_safety_breach"
      BY EventTypes, KindNames, ConstantsAssumption DEF EventNames
    <3>2. wd.tripped => Since(log', "host_safety_breach")
      BY <2>11, <3>1, AppendSince DEF Breach, Record, TypeInv
    <3> QED BY <1>0, <2>0, <2>11, <3>2 DEF Breach, WatchInv, TypeInv, Goto, Outside
  <2>12. CASE InterruptFailed(p)
    <3>1. Event("host_safety_interrupt_failed") \in Events
          /\ Event("host_safety_interrupt_failed").event = "host_safety_interrupt_failed"
      BY EventTypes, KindNames, ConstantsAssumption DEF EventNames
    <3>2. Since(log, "host_safety_breach") => Since(log', "host_safety_breach")
      BY <2>12, <3>1, AppendSince DEF InterruptFailed, Record, TypeInv
    <3> QED BY <1>0, <2>0, <2>12, <3>2 DEF InterruptFailed, WatchInv, TypeInv, Goto, Outside
  <2> QED
    BY <1>1, <2>1, <2>2, <2>3, <2>4, <2>5, <2>6, <2>7, <2>8, <2>9, <2>10, <2>11, <2>12
       DEF Step, Lock
<1>2. ASSUME NEW p \in Procs, Step(p), pc[p] = "lock" PROVE WatchInv'
  <2>1. Lock(p)
    BY <1>2, OnlyLock
  <2> QED BY <2>1 DEF Lock, LockInv, NoWatch, TypeInv, WatchInv, Unwatched, Goto
<1>3. ASSUME NEW p \in Procs, Invoke(p) PROVE WatchInv'
  BY <1>3 DEF Invoke, TypeInv, WatchInv, Unwatched, Goto
<1>4. ASSUME NEW p \in Procs, Crash(p) PROVE WatchInv'
  BY <1>4 DEF Crash, Release, NoWatch, TypeInv, LockInv, WatchInv, Unwatched, Goto, Outside
<1>5. ASSUME Trip PROVE WatchInv'
  <2>1. wd.state = "on" /\ wd'.state = "on"
    BY <1>5 DEF Trip, TypeInv, Watches
  <2> QED BY <1>5, <2>1 DEF Trip, WatchInv, Unwatched
<1>6. ASSUME AbortCallback PROVE WatchInv'
  <2>1. wd'.state = wd.state /\ wd'.tripped = wd.tripped /\ run'.from = run.from
    BY <1>6 DEF AbortCallback, TypeInv, Watches, Runs
  <2> QED BY <1>6, <2>1 DEF AbortCallback, WatchInv, Unwatched
<1>7. ASSUME ServerDies \/ OperatorRemoves \/ OtherRun \/ UNCHANGED vars PROVE WatchInv'
  BY <1>7 DEF ServerDies, OperatorRemoves, OtherRun, vars, WatchInv, Unwatched
<1> QED BY <1>1, <1>2, <1>3, <1>4, <1>5, <1>6, <1>7 DEF Next

LEMMA WatchInit == Init => WatchInv
BY DEF Init, NoWatch, WatchInv, Unwatched

\* A trip at any moment, the cleanup included, keeps the attempt from being
\* recorded as complete.
THEOREM TrippedNeverCompletes == Spec => TripNeverCompletes
<1>1. TypeInv /\ LockInv /\ WatchInv /\ [Next]_vars => (TypeInv /\ LockInv /\ WatchInv)'
  BY TypeStep, LockStep, WatchStep
<1>2. ASSUME TypeInv, WatchInv, [Next]_vars
      PROVE  [wd.tripped => ~Recorded("run_complete")]_vars
  <2> SUFFICES ASSUME Recorded("run_complete") PROVE ~wd.tripped
    OBVIOUS
  <2>1. PICK p \in Procs : Plan(p) \/ Skip(p) \/ Complete(p)
    BY <1>2, WhoCompletes
  <2> QED BY <1>2, <2>1 DEF Plan, Skip, Complete, WatchInv, Unwatched
<1> QED BY <1>1, <1>2, TypeInit, LockInit, WatchInit, PTL DEF Spec, TripNeverCompletes

\* Who gives up the lock, other than by being killed.
LEMMA WhoReleases ==
  ASSUME TypeInv, LockInv, [Next]_vars, lock # None, lock' = None, crashes' = crashes
  PROVE  \E p \in Procs : (Plan(p) \/ Skip(p) \/ Complete(p) \/ Abort(p)) /\ Release(p)
<1>1. PICK p \in Procs : Step(p)
  BY DEF Next, vars, Invoke, Crash, Trip, AbortCallback, ServerDies, OperatorRemoves,
     OtherRun, TypeInv
<1> QED
  BY <1>1, ConstantsAssumption DEF Step, Lock, Recover, RecoverFails, Recovered, Plan, Skip,
     Preflight, StartWatch, StartServer, Register, CallbackReturns, EndpointReady, ServerReady,
     Prime, CaseStart, CaseEnds, MeasurementComplete, Raise, Retry, Stop, Rm, Unwatch,
     RecordCleanup, Close, Complete, Breach, InterruptFailed, Abort

\* An attempt that ends after a trip ends with the breach and the watchdog's
\* abort on file, whatever error was raised first.
THEOREM TripOnRecord == Spec => SafetyRecorded
<1>1. TypeInv /\ LockInv /\ WatchInv /\ [Next]_vars => (TypeInv /\ LockInv /\ WatchInv)'
  BY TypeStep, LockStep, WatchStep
<1>2. ASSUME TypeInv, LockInv, WatchInv, [Next]_vars
      PROVE  [lock # None /\ lock' = None /\ crashes' = crashes /\ wd.tripped
                => Since(log', "host_safety_breach") /\ SafetyAborted(log')]_vars
  <2> SUFFICES ASSUME lock # None, lock' = None, crashes' = crashes, wd.tripped
               PROVE  Since(log', "host_safety_breach") /\ SafetyAborted(log')
    OBVIOUS
  <2>1. PICK p \in Procs : Plan(p) \/ Skip(p) \/ Complete(p) \/ Abort(p)
    BY <1>2, WhoReleases
  <2>2. Abort(p)
    BY <1>2, <2>1 DEF Plan, Skip, Complete, WatchInv, Unwatched
  <2>3. Since(log, "host_safety_breach") /\ Has(log, "run_start")
    BY <1>2, <2>2 DEF Abort, WatchInv
  <2>4. CASE AbortDue
    <3> DEFINE e == KindEvent("run_aborted", "HostSafetyError")
    <3>1. "HostSafetyError" \in Kinds
      BY Zenon DEF Kinds
    <3>2. e \in Events /\ e.event = "run_aborted" /\ e.kind = "HostSafetyError"
      BY <3>1, EventTypes, ConstantsAssumption DEF EventNames
    <3>3. log' = Append(log, e)
      BY <2>2, <2>4 DEF Abort, Record, AbortKind
    <3>4. log \in Seq(Events)
      BY <1>2 DEF TypeInv
    <3> HIDE DEF e
    <3>5. SafetyAborted(log')
      BY <3>2, <3>3, <3>4, AppendSafety
    <3>6. Since(log', "host_safety_breach")
      BY <2>3, <3>2, <3>3, <3>4, AppendSince
    <3> QED BY <3>5, <3>6
  <2>5. CASE ~AbortDue
    BY <2>2, <2>3, <2>5 DEF Abort, AbortDue
  <2> QED BY <2>4, <2>5
<1> QED BY <1>1, <1>2, TypeInit, LockInit, WatchInit, PTL DEF Spec, SafetyRecorded

\* A process that leaves by itself leaves no attempt open in the journal.
THEOREM AttemptsEnd == Spec => EveryAttemptEnds
<1>1. TypeInv /\ LockInv /\ [Next]_vars => (TypeInv /\ LockInv)'
  BY TypeStep, LockStep
<1>2. ASSUME TypeInv, LockInv, [Next]_vars
      PROVE  [lock # None /\ lock' = None /\ crashes' = crashes
                => Status(log') # "incomplete"]_vars
  <2> SUFFICES ASSUME lock # None, lock' = None, crashes' = crashes
               PROVE  Status(log') # "incomplete"
    OBVIOUS
  <2>0. log \in Seq(Events)
    BY <1>2 DEF TypeInv
  <2>1. PICK p \in Procs : (Plan(p) \/ Skip(p) \/ Complete(p) \/ Abort(p)) /\ Release(p)
    BY <1>2, WhoReleases
  <2>2. ASSUME NEW k \in Kinds, log' = Append(log, KindEvent("run_complete", k))
        PROVE  Status(log') # "incomplete"
    <3>1. KindEvent("run_complete", k) \in Events
          /\ KindEvent("run_complete", k).event = "run_complete"
      BY EventTypes, ConstantsAssumption DEF EventNames
    <3>2. Since(log', "run_complete")
      BY <2>0, <2>2, <3>1, AppendSince
    <3> QED BY <3>2 DEF Status
  <2>3. CASE Plan(p)
    <3>1. FinishKind(p) \in Kinds
      BY Zenon DEF Kinds, FinishKind
    <3>2. pc'[p] = "idle"
      BY <1>2, <2>1 DEF Release, Goto, TypeInv
    <3>3. CASE Status(log) \in {"aborted", "incomplete", "not_started"}
      <4>1. log' = Append(log, KindEvent("run_complete", FinishKind(p)))
        BY <1>2, <2>3, <3>2, <3>3 DEF Plan, Record, Goto, TypeInv
      <4> QED BY <2>2, <3>1, <4>1
    <3>4. CASE Status(log) \notin {"aborted", "incomplete", "not_started"}
      BY <1>2, <2>3, <3>2, <3>4 DEF Plan, Goto, TypeInv
    <3> QED BY <3>3, <3>4
  <2>4. CASE Skip(p)
    <3>1. "no_work" \in Kinds
      BY Zenon DEF Kinds
    <3>2. log' = Append(log, KindEvent("run_complete", "no_work"))
      BY <1>2, <2>1, <2>4 DEF Skip, Record, Release, Goto, TypeInv
    <3> QED BY <2>2, <3>1, <3>2
  <2>5. CASE Complete(p)
    <3>1. (IF keep[p] THEN "completed_server_kept" ELSE "completed") \in Kinds
      BY Zenon DEF Kinds
    <3> QED BY <2>2, <2>5, <3>1 DEF Complete, Record
  <2>6. CASE Abort(p)
    <3>1. CASE AbortDue
      <4>1. AbortKind \in Kinds
        BY Zenon DEF Kinds, AbortKind
      <4>2. KindEvent("run_aborted", AbortKind) \in Events
            /\ KindEvent("run_aborted", AbortKind).event = "run_aborted"
        BY <4>1, EventTypes, ConstantsAssumption DEF EventNames
      <4>3. After(log', {"run_aborted"}, {"run_start", "run_complete"})
        <5> DEFINE e == KindEvent("run_aborted", AbortKind)
        <5>1. log' = Append(log, e)
          BY <2>6, <3>1 DEF Abort, Record
        <5>2. e \in Events /\ e.event \in {"run_aborted"}
          BY <4>2
        <5> HIDE DEF e
        <5> QED BY <2>0, <5>1, <5>2, AppendAfter
      <4> QED BY <4>3 DEF Status
    <3>2. CASE ~AbortDue
      <4>1. log' = log
        BY <2>6, <3>2 DEF Abort
      <4>2. ~Has(log, "run_start") \/ Since(log, "run_aborted")
        BY <3>2 DEF AbortDue
      <4> QED BY <2>0, <4>1, <4>2, AbortAnswered DEF Status
    <3> QED BY <3>1, <3>2
  <2> QED BY <2>1, <2>3, <2>4, <2>5, <2>6
<1> QED BY <1>1, <1>2, TypeInit, LockInit, PTL DEF Spec, EveryAttemptEnds
-----------------------------------------------------------------------------
\* A container of another owner is never touched by the harness, in whatever
\* step it finds the managed name taken.
THEOREM OthersSafe == Spec => OthersUntouched
<1>1. ASSUME TypeInv, [Next]_vars
      PROVE  [container.owner = "other" /\ (pc' # pc \/ wd' # wd)
                => container' = container]_vars
  <2> SUFFICES ASSUME container.owner = "other", pc' # pc \/ wd' # wd, container' # container
               PROVE  FALSE
    OBVIOUS
  <2>1. \A ok, done \in BOOLEAN : ~interrupt_owned(ok, done)
    BY DEF interrupt_owned, RequireOwned
  <2>2. ASSUME NEW p \in Procs, StartServer(p) \/ Stop(p) \/ Rm(p) PROVE FALSE
    BY <2>2 DEF StartServer, Stop, Rm, RequireOwned
  <2>3. ASSUME NEW p \in Procs, RecordCleanup(p) PROVE FALSE
    BY <1>1, <2>3 DEF RecordCleanup, TypeInv, Containers
  <2>4. ASSUME NEW p \in Procs, Retry(p) PROVE FALSE
    BY <2>1, <2>4 DEF Retry
  <2>5. ASSUME AbortCallback PROVE FALSE
    BY <2>1, <2>5 DEF AbortCallback
  <2>6. ASSUME NEW p \in Procs, Step(p) PROVE FALSE
    BY <2>2, <2>3, <2>4, <2>6 DEF Step, Lock, Recover, RecoverFails, Recovered, Plan, Skip,
       Preflight, StartWatch, Register, CallbackReturns, EndpointReady, ServerReady, Prime,
       CaseStart, CaseEnds, MeasurementComplete, Raise, Unwatch, Close, Complete, Breach,
       InterruptFailed, Abort
  <2> QED BY <1>1, <2>5, <2>6 DEF Next, vars, Invoke, Crash, Trip, ServerDies,
             OperatorRemoves, OtherRun
<1> QED BY <1>1, TypeInit, TypeStep, PTL DEF Spec, OthersUntouched

\* In every state, which is well typed, an owned container nobody works on is one
\* the next invocation recovers or one that was kept.
THEOREM ContainerAccounted == Spec => []Accounted
<1>1. TypeOK /\ OwnedIsPending => Accounted
  BY DEF Accounted
<1> QED BY <1>1, TypeCorrect, OwnedNeverForgotten, PTL

\* The journal is honest about every attempt that ended: what complete means, that
\* a trip is on record, and that no attempt is left open.
THEOREM JournalHonest == Spec => RecordsHonest
  BY StoppedWhenComplete, TrippedNeverCompletes, TripOnRecord, AttemptsEnd
     DEF RecordsHonest
-----------------------------------------------------------------------------
(***************************************************************************)
(* The watchdog and the server it watches.                                 *)
(***************************************************************************)
Watched == wd.state = "on" \/ wd.tripped

Early  == {"recover", "plan", "skip", "preflight", "watch", "start"}
\* The attempt has a server and has not begun to stop it.
Inside == {"register", "callback", "waiting", "ready", "prime", "cases", "measure", "retry"}
Late   == {"recovered", "unwatch", "record", "close", "complete", "breach", "interrupt",
           "abort"}

\* Which stages have a container at hand, and that it is still the run's own as long
\* as no docker command failed.
CidInv ==
  /\ lock = None => run = NoRun
  /\ lock # None => pc[lock] \notin Outside
  /\ run.cid /\ faults = 0 => Owned
  /\ \A p \in Procs :
       /\ pc[p] \in Early => ~run.cid
       /\ pc[p] \in Inside \cup {"stop", "rm"} => run.cid

\* A stop of the attempt's own server, other than one of the recovery.
Stopping(p) == pc[p] \in {"stop", "rm"} /\ run.from # "recover"

\* With thresholds configured the watchdog lives from before the server's start to
\* behind its removal, and the server is never kept; who has let go of the watchdog
\* with a container at hand has seen a docker command fail.
MonitorInv ==
  Watchdog => \A p \in Procs :
    /\ pc[p] \in {"start"} \cup Inside \/ Stopping(p) => Watched
    /\ pc[p] \in {"watch", "start"} \cup Inside \/ Stopping(p) => ~keep[p]
    /\ pc[p] \in Late /\ run.cid /\ run.from # "recover" => faults > 0

\* Failures are only counted up.
LEMMA FaultsGrow ==
  ASSUME TypeInv, Fault PROVE faults' > 0 /\ faults' # 0
BY DEF TypeInv, Fault

LEMMA CidStep ==
  ASSUME TypeInv, LockInv, OwnedInv, CidInv, [Next]_vars PROVE CidInv'
<1> USE DEF TypeInv, Goto, Early, Inside, Outside, Owned
<1>1. ASSUME NEW p \in Procs, Step(p), pc[p] # "lock" PROVE CidInv'
  <2>0. /\ lock = p /\ \A q \in Procs : q # p => pc'[q] \in Outside
        /\ lock' = p \/ Release(p)
    BY <1>1, HolderStep
  <2>r. CASE Release(p)
    BY <2>0, <2>r DEF Release, NoRun, CidInv
  <2> SUFFICES ASSUME lock' = p
      PROVE  /\ pc'[p] \notin Outside
             /\ run'.cid /\ faults' = 0 => container'.owner = "run"
             /\ pc'[p] \in Early => ~run'.cid
             /\ pc'[p] \in Inside \cup {"stop", "rm"} => run'.cid
    BY <2>0, <2>r, ConstantsAssumption DEF CidInv
  <2> USE <2>0, ConstantsAssumption DEF Runs, Containers
  <2>1. CASE Recover(p) \/ RecoverFails(p) \/ Recovered(p)
    <3>1. CASE Recover(p)
      <4>1. CASE UNCHANGED run BY <3>1, <4>1, ZenonT(60) DEF Recover, CidInv
      <4>2. CASE /\ container.owner = "run" /\ pc' = [pc EXCEPT ![p] = "stop"]
                 /\ run' = [run EXCEPT !.cid = TRUE, !.from = "recover"]
        <5>1. run'.cid /\ run'.from = "recover" /\ pc'[p] = "stop" BY <4>2
        <5> QED BY <3>1, <4>2, <5>1 DEF Recover
      <4> QED BY <3>1, <4>1, <4>2 DEF Recover
    <3>2. CASE RecoverFails(p) BY <3>2, FaultsGrow DEF RecoverFails, CidInv
    <3>3. CASE Recovered(p) BY <3>3 DEF Recovered, NoRun
    <3> QED BY <2>1, <3>1, <3>2, <3>3
  <2>2. CASE Plan(p) \/ Skip(p) \/ Complete(p) \/ Abort(p)
    BY <2>2 DEF Plan, Skip, Complete, Abort, Release, CidInv, NoRun
  <2>3. CASE Preflight(p) \/ StartWatch(p)
    BY <2>3 DEF Preflight, StartWatch, CidInv
  <2>4. CASE StartServer(p)
    BY <2>4, FaultsGrow DEF StartServer, Started, CidInv
  <2>5. CASE Register(p) \/ CallbackReturns(p) \/ EndpointReady(p)
    BY <2>5 DEF Register, CallbackReturns, EndpointReady, CidInv
  <2>6. CASE ServerReady(p) \/ Prime(p) \/ CaseStart(p) \/ CaseEnds(p) \/ MeasurementComplete(p)
    BY <2>6, ZenonT(60) DEF ServerReady, Prime, CaseStart, CaseEnds, MeasurementComplete, CidInv
  <2>7. CASE Raise(p)
    BY <2>7 DEF Raise, Handler, Unlaunched, Serving, CidInv
  <2>8. CASE Retry(p)
    <3>1. run.cid /\ pc'[p] = "stop" BY <2>8 DEF Retry, CidInv
    <3>2. run'.cid = run.cid BY <2>8 DEF Retry
    <3>3. /\ container'.owner = container.owner
          /\ UNCHANGED faults \/ Fault
      BY <2>8, ZenonT(60) DEF Retry, interrupt_owned
    <3> QED BY <3>1, <3>2, <3>3, FaultsGrow DEF CidInv
  <2>9. CASE Stop(p)
    BY <2>9, FaultsGrow DEF Stop, StopFailed, RequireOwned, CidInv
  <2>10. CASE Rm(p)
    <3>1. CASE run' = [run EXCEPT !.cid = FALSE, !.immediate = FALSE]
      <4>1. ~run'.cid BY <3>1
      <4>2. pc'[p] \in {"recovered", "close", "unwatch", "record", "abort"}
        BY <2>10 DEF Rm, StopFailed
      <4> QED BY <4>1, <4>2
    <3>2. CASE StopFailed(p) /\ ~RequireOwned /\ UNCHANGED <<container, faults>>
      BY <2>10, <3>2 DEF Rm, StopFailed, RequireOwned, CidInv
    <3>3. CASE StopFailed(p) /\ Fault
      <4>1. pc'[p] \in {"close", "record", "abort"} BY <2>10, <3>3 DEF Rm, StopFailed
      <4> QED BY <3>3, <4>1, FaultsGrow
    <3> QED BY <2>10, <3>1, <3>2, <3>3 DEF Rm
  <2>11. CASE Unwatch(p) \/ RecordCleanup(p) \/ Close(p) \/ Breach(p) \/ InterruptFailed(p)
    BY <2>11 DEF Unwatch, RecordCleanup, Close, Outcome, Breach, InterruptFailed, CidInv
  <2> QED BY <1>1, <2>1, <2>2, <2>3, <2>4, <2>5, <2>6, <2>7, <2>8, <2>9, <2>10, <2>11
          DEF Step, Lock
<1>2. ASSUME NEW p \in Procs, Step(p), pc[p] = "lock" PROVE CidInv'
  <2>1. Lock(p) BY <1>2, OnlyLock
  <2> QED BY <1>2, <2>1, ConstantsAssumption DEF Lock, LockInv, CidInv, NoRun
<1>3. ASSUME NEW p \in Procs, Invoke(p) PROVE CidInv'
  BY <1>3, ConstantsAssumption DEF Invoke, CidInv
<1>4. ASSUME NEW p \in Procs, Crash(p) PROVE CidInv'
  BY <1>4, ConstantsAssumption DEF Crash, Release, LockInv, CidInv, NoRun
<1>5. ASSUME Trip \/ OtherRun \/ ServerDies \/ UNCHANGED vars PROVE CidInv'
  BY <1>5 DEF Trip, OtherRun, ServerDies, vars, CidInv, Containers
<1>6. ASSUME AbortCallback PROVE CidInv'
  <2>1. run'.cid = run.cid /\ container'.owner = container.owner /\ lock # None
    BY <1>6 DEF AbortCallback, interrupt_owned, Runs, Containers, LockInv, NoWatch
  <2>2. faults' = 0 => faults = 0 BY <1>6, FaultsGrow DEF AbortCallback, interrupt_owned
  <2> QED BY <1>6, <2>1, <2>2 DEF AbortCallback, CidInv
<1>7. ASSUME OperatorRemoves PROVE CidInv'
  BY <1>7, FaultsGrow DEF OperatorRemoves, CidInv
<1> QED BY <1>1, <1>2, <1>3, <1>4, <1>5, <1>6, <1>7 DEF Next

LEMMA MonitorStep ==
  ASSUME TypeInv, LockInv, CidInv, MonitorInv, Watchdog, [Next]_vars PROVE MonitorInv'
<1> USE DEF TypeInv, Goto, Early, Inside, Late, Stopping, Watched, Outside, Owned
<1>1. ASSUME NEW p \in Procs, Step(p), pc[p] # "lock" PROVE MonitorInv'
  <2>0. /\ lock = p /\ \A q \in Procs : q # p => pc'[q] \in Outside
    BY <1>1, HolderStep
  <2> SUFFICES
        /\ pc'[p] \in {"start"} \cup Inside \/ Stopping(p)' => Watched'
        /\ pc'[p] \in {"watch", "start"} \cup Inside \/ Stopping(p)' => ~keep'[p]
        /\ pc'[p] \in Late /\ run'.cid /\ run'.from # "recover" => faults' > 0
    BY <2>0 DEF MonitorInv
  <2>r. CASE Release(p) BY <2>r DEF Release, NoRun
  <2> USE <2>0, ConstantsAssumption DEF Runs, Containers, Watches, MonitorInv
  <2>1. CASE Recover(p) \/ RecoverFails(p) \/ Recovered(p)
    <3>1. CASE Recover(p)
      <4>1. CASE UNCHANGED run
        <5>1. ~run'.cid BY <3>1, <4>1 DEF Recover, CidInv
        <5>2. pc'[p] \in {"plan", "recovered"}
          <6>1. CASE Goto(p, "plan") \/ Goto(p, "recovered") BY <6>1
          <6>2. ~(run' = [run EXCEPT !.cid = TRUE, !.from = "recover"]) BY <5>1
          <6> QED BY <3>1, <6>1, <6>2 DEF Recover
        <5> QED BY <5>1, <5>2
      <4>2. CASE /\ container.owner = "run" /\ pc' = [pc EXCEPT ![p] = "stop"]
                 /\ run' = [run EXCEPT !.cid = TRUE, !.from = "recover"]
        <5>1. run'.cid /\ run'.from = "recover" /\ pc'[p] = "stop" BY <4>2
        <5> QED BY <3>1, <4>2, <5>1 DEF Recover
      <4> QED BY <3>1, <4>1, <4>2 DEF Recover
    <3>2. CASE RecoverFails(p) BY <3>2 DEF RecoverFails, CidInv
    <3>3. CASE Recovered(p) BY <3>3 DEF Recovered
    <3> QED BY <2>1, <3>1, <3>2, <3>3
  <2>2. CASE Plan(p) \/ Skip(p) \/ Complete(p) \/ Abort(p)
    BY <2>2, <2>r DEF Plan, Skip, Complete, Abort, CidInv
  <2>3. CASE Preflight(p) \/ StartWatch(p)
    BY <2>3 DEF Preflight, StartWatch, CidInv
  <2>4. CASE StartServer(p)
    BY <2>4 DEF StartServer, CidInv
  <2>5. CASE Register(p) \/ CallbackReturns(p) \/ EndpointReady(p)
    BY <2>5 DEF Register, CallbackReturns, EndpointReady
  <2>6. CASE ServerReady(p) \/ Prime(p) \/ CaseStart(p) \/ CaseEnds(p) \/ MeasurementComplete(p)
    <3>1. CASE CaseEnds(p)
      <4>1. pc'[p] \in {"cases", "retry"} /\ wd' = wd /\ keep' = keep BY <3>1 DEF CaseEnds
      <4> QED BY <3>1, <4>1 DEF CaseEnds
    <3>2. CASE ~CaseEnds(p)
      BY <2>6, <3>2 DEF ServerReady, Prime, CaseStart, MeasurementComplete
    <3> QED BY <3>1, <3>2
  <2>7. CASE Raise(p)
    BY <2>7 DEF Raise, Handler, Unlaunched, Serving, CidInv
  <2>8. CASE Retry(p)
    BY <2>8, ZenonT(60) DEF Retry
  <2>9. CASE Stop(p)
    BY <2>9, FaultsGrow DEF Stop, StopFailed, RequireOwned, CidInv
  <2>10. CASE Rm(p)
    <3>1. CASE run' = [run EXCEPT !.cid = FALSE, !.immediate = FALSE]
      <4>1. ~run'.cid BY <3>1
      <4>2. pc'[p] \in {"recovered", "close", "unwatch", "record", "abort"}
        BY <2>10 DEF Rm, StopFailed
      <4> QED BY <4>1, <4>2
    <3>2. CASE StopFailed(p) /\ ~RequireOwned /\ UNCHANGED <<container, faults>>
      BY <2>10, <3>2 DEF Rm, StopFailed, RequireOwned, CidInv
    <3>3. CASE StopFailed(p) /\ Fault
      <4>1. pc'[p] \in {"close", "record", "abort"} BY <2>10, <3>3 DEF Rm, StopFailed
      <4> QED BY <3>3, <4>1, FaultsGrow
    <3> QED BY <2>10, <3>1, <3>2, <3>3 DEF Rm
  <2>11. CASE Unwatch(p) \/ RecordCleanup(p) \/ Close(p) \/ Breach(p) \/ InterruptFailed(p)
    BY <2>11 DEF Unwatch, RecordCleanup, Close, Outcome, Breach, InterruptFailed
  <2> QED BY <1>1, <2>1, <2>2, <2>3, <2>4, <2>5, <2>6, <2>7, <2>8, <2>9, <2>10, <2>11
          DEF Step, Lock
<1>2. ASSUME NEW p \in Procs, Step(p), pc[p] = "lock" PROVE MonitorInv'
  <2>1. Lock(p) BY <1>2, OnlyLock
  <2> QED BY <1>2, <2>1 DEF Lock, MonitorInv
<1>3. ASSUME NEW p \in Procs, Invoke(p) PROVE MonitorInv'
  BY <1>3 DEF Invoke, MonitorInv
<1>4. ASSUME NEW p \in Procs, Crash(p) PROVE MonitorInv'
  BY <1>4 DEF Crash, Release, LockInv, MonitorInv, NoRun
<1>5. ASSUME OtherRun \/ ServerDies \/ UNCHANGED vars PROVE MonitorInv'
  BY <1>5 DEF OtherRun, ServerDies, vars, MonitorInv
<1>6. ASSUME Trip PROVE MonitorInv'
  BY <1>6 DEF Trip, MonitorInv, Watches
<1>7. ASSUME AbortCallback PROVE MonitorInv'
  <2>1. /\ run'.cid = run.cid /\ run'.from = run.from
        /\ wd'.state = wd.state /\ wd'.tripped = wd.tripped
    BY <1>7 DEF AbortCallback, Runs, Watches
  <2>2. faults > 0 => faults' > 0 BY <1>7 DEF AbortCallback, interrupt_owned, Fault
  <2> QED BY <1>7, <2>1, <2>2 DEF AbortCallback, MonitorInv
<1>8. ASSUME OperatorRemoves PROVE MonitorInv'
  BY <1>8, FaultsGrow DEF OperatorRemoves, MonitorInv
<1> QED BY <1>1, <1>2, <1>3, <1>4, <1>5, <1>6, <1>7, <1>8 DEF Next

\* "Keep monitoring through the exact owned stop": as long as no docker command has
\* failed, a server that is up in an attempt has a live or a tripped watchdog, from
\* docker run to docker rm and through every way out of the attempt.
THEOREM ServerMonitored == Spec => []MonitoredUntilStopped
<1>1. Init => CidInv /\ MonitorInv
  BY DEF Init, CidInv, MonitorInv, NoRun, Early, Inside, Late, Stopping, Outside
<1>2. ASSUME TypeInv, LockInv, OwnedInv, CidInv, MonitorInv, [Next]_vars
      PROVE  (TypeInv /\ LockInv /\ OwnedInv /\ CidInv /\ MonitorInv)'
  <2>1. MonitorInv'
    <3>1. CASE Watchdog BY <1>2, <3>1, MonitorStep
    <3>2. CASE ~Watchdog BY <3>2 DEF MonitorInv
    <3> QED BY <3>1, <3>2
  <2> QED BY <1>2, <2>1, TypeStep, LockStep, OwnedStep, CidStep
<1>3. ASSUME TypeInv, LockInv, CidInv, MonitorInv PROVE MonitoredUntilStopped
  <2> SUFFICES ASSUME Watchdog, run.cid, run.from # "recover", faults = 0
               PROVE  Watched
    BY DEF MonitoredUntilStopped, Watched
  <2>1. lock # None /\ lock \in Procs BY <1>3 DEF CidInv, TypeInv, NoRun
  <2>2. pc[lock] \in Inside \cup {"stop", "rm"}
    BY <1>3, <2>1 DEF CidInv, MonitorInv, TypeInv, Steps, Early, Inside, Late, Outside
  <2> QED BY <1>3, <2>1, <2>2 DEF MonitorInv, Stopping
<1> QED BY <1>1, <1>2, <1>3, TypeInit, LockInit, OwnedInit, PTL DEF Spec

=============================================================================
