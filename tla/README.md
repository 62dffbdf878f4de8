# Verification of the SparkBench harness

SparkBench (`bench/`) measures language-model servers on one host. It starts a
server that it owns, drives a frozen plan of cases against it, journals
everything in append-only files, publishes what it measured, and promises a few
things about failure: no owned process is forgotten, nothing that was
interrupted is resumed or measured twice, a host that runs out of memory is
stopped before it freezes, and what is published is what was measured. Those
promises are kept by threads, signals, file locks, `docker` commands, renames and
journal replays: code in which the interesting case is a crash or another thread
between two lines. This project models that code in TLA+, checks small instances
with TLC and proves the central invariants with TLAPS.

Contents: [1 inventory](#1-inventory), [2 modules and code](#2-modules-and-the-code-they-model),
[3 runs](#3-runs), [4 bounds](#4-bounds), [5 fairness](#5-fairness),
[6 proofs](#6-proofs), [7 disagreements](#7-where-the-code-and-its-documentation-disagree),
[8 not modelled](#8-not-modelled), [9 plan](#9-plan).

To run: `tlc -config MCCampaign.cfg MCCampaign`, and so on for each pair of
`PROJECT.json`'s `runs`; `tlapm RunLifecycleProofs.tla`, and so on for the eight
`*Proofs` modules.

## 1 Inventory

### The parts that carry the protocol

| part | state it keeps | operations | hard behaviour | what makes it correct |
|---|---|---|---|---|
| Host-memory watchdog, `host_safety.py` | first and last sample, recorded failure, callback and its claim, thread and stop flag, under one lock | `start`, `check`, `set_abort_callback`, `raise_if_tripped`, `stop`; the monitor loop | two threads; a callback registered before, during or after the trip; a monitor that dies; `stop` during a trip | one abort per instance, never lost once due; after `stop` the verdict is final |
| Cell worker ownership, `autoresearch_worker.py` | `worker.json` (pid and `/proc` start time), the child and its process group | `run_owned_worker`, `recover_owned_worker` | controller crashes between any two steps; pid reuse; SIGINT then SIGKILL; zombies | the record outlives the worker; only an unrecorded window can lose one |
| Controller transitions, `autoresearch.py` | the replayed state: phase, queue, pair indexes, scores, decisions | `replay_transitions`, one event at a time; the gates | a long sequence of legal events that reaches an illegal state | indexes used once; promotion only after confirmation in both orders; terminal is final |
| Campaign controller, `autoresearch_campaign.py`, with the admission journal and the checkpoint gate | controller journal, admissions, calibration, cell journals, acknowledgement | `run_campaign`, `acknowledge_campaign_checkpoint` | several durable writes per decision, a crash between any two; torn lines; workers that outlive the controller; a wall clock that steps back | every history is one the replay accepts; nothing interrupted is resumed; one pair per invocation, admitted by it and acknowledged before the next |
| Run execution, `runner.py`, with the managed server of `runtime.py`, the status of `report.py` and the journal of `journal.py` | `events.jsonl` of the run, the benchmark lock, the owned container | `execute_plan`, `_recover_pending_lifecycle`, the abort records; `start_vllm`, `start_sglang`, `stop`, `interrupt_owned`, `recover_owned_*` | crash or docker failure anywhere; the watchdog trips in the cleanup; stop and abort race for one container; the name belongs to somebody else | an owned container is never forgotten; a tripped attempt never completes; another owner's container is never touched |
| Docker and Unix HTTP bridge, `docker_bridge.py` | listener, `_owned_sockets`, `_workers`, stop event, the socket's path; per connection two buffers | `start`, `serve_forever`, a worker, `request_stop`, `signal_stop`, `close`; `_relay` | acceptor, workers, closer and signal handler share the sets; a full worker set; one side closes while bytes for it are buffered | no socket or thread out of the books; a stop shuts what was accepted meanwhile; no byte lost or reordered, half-close last |
| Loop campaign, `loop_campaign.py` | journal, vLLM container, worker network, worker containers and processes | `execute_campaign`, `cleanup_campaign` | a worker's answer races its deadline and a stop; a crash with a container and a worker up; two phases with a fallback profile | a verified cleanup is one; one HALO profile; no case a third time |
| Harbor lifecycle and adapter, `harbor_campaign_lifecycle.py`, `harbor_terminal.py` | lock, server, bridge, key, sockets, data set; per trial containers, image, process group | `run_campaign`: thirteen admissions and acquisitions, trials, gates, teardown, envelope | one of several cleanups fails; a signal in any step, the teardown included; a trial that hangs | the envelope tells the truth; every teardown step is tried; no trial after a signal |
| Autoresearch v2 rounds, `autoresearch_v2.py`, over the SM121 cache-performance campaign of `runner.py` | the round's journal and summary, the arms' journals, the campaign's summary | `freeze_autoresearch_v2`, `run_autoresearch_v2`, `execute_sm121_cache_performance_campaign`, the audit | a cut between two records; a trip after the last answer; two invocations overlap; the exporter refuses a state it does not know | an arm that counts was clean; measured once; the export is blocked only for a listed reason |
| Evidence publication, `evidence.py` | the published tree, its backup, a temporary tree; shared locks | `export_evidence`: new, replace, compare | sources read in several passes; two renames; two exports at once; the checkpoint holds a lock the export wants | no corpus is lost; what is published is one state of the sources |

How they interact. The command line starts `execute_plan` (one run),
`run_campaign` (a queue of proposals), a v2 round, a loop campaign or a Harbor
campaign. `execute_plan` takes the host-wide benchmark lock, recovers what an
earlier attempt left, starts the watchdog and the server, registers the server's
`interrupt_owned` as the watchdog's abort callback, measures the cases, stops the
server, stops the watchdog and only then decides whether the attempt is complete.
The watchdog's thread may call back into the server at any of those steps.
`run_campaign` does not measure by itself: for every cell it starts a worker
process (an `execute_plan` in a process group of its own) through
`run_owned_worker`, reads the cell's journal when the worker has gone, and appends
the outcome to the controller journal. It keeps no state between invocations: each
one replays the journal. A v2 round does the same for one child campaign in its own
process. The Harbor campaign owns a llama.cpp server and the Unix bridge, through
which the containers of its trials reach the server. `export_evidence` reads what
all of these leave, under the shared sides of their locks, and the checkpoint of a
campaign compares the published tree with a new export.

### Parts without a model

Section 8 gives the reasons: benchmark client, telemetry sampler, the SM121
runners other than cache performance, the SM121 and SGLang contracts, build and
overlay preparation, Pi core prefix, acquisition and inventory, audit and
annotations, manifests, workloads and scoring, direct runners, metric parsers, the
command line.

The hazards of the code, each at the line where it bites and with the properties
that would catch it, are listed in `PROJECT.json` under `hazards`.

## 2 Modules and the code they model

`PROJECT.json` maps every definition to its lines. This section says how state
and actions correspond.

### HostSafety

`HostSafetyWatchdog`, one instance over its life. Two threads, `Owner` (the
runner) and `Monitor`, each with a program counter; an action is what a thread
does between two points at which the other can act: the entries and exits of the
lock, the sampling of `/proc/meminfo`, the callback, and the join. `pend[t]` is a
failure a thread has found and not yet recorded. A `meminfo` text is abstracted to
the four fields `parse_meminfo` reads, each a number, absent or garbled; `Texts` is
the set of texts that may be read. The owner may make any call in any order as often
as it likes. `MonitorFails` and `MonitorVanishes` are a monitor thread that ends
with an exception or without a trace.

### CellWorker

One cell. The kernel's process table (`proc`, `clock`) moves on its own:
processes fork members, exit, become zombies, are reaped by init, and freed pids
are reused by strangers. The controller's `/proc` reads, signals, waits and file
writes are steps of their own. `record` is `worker.json`, which the code creates
and then writes: a crash between the two leaves an unusable file. `ControllerCrash` may
hit any step of the controller, the window between `Popen` and the durable record
included, which the code cannot close: `WorkerOwned` counts the workers lost there
and admits no others. The deadlines of the progress probe
(`_wait_with_progress_deadlines`) are one nondeterministic timeout.

### Transitions and ReplayMachine

`Transitions` holds the pure part: the replayed state, for every kind of event
the condition under which `replay_transitions` accepts it (with the queue
bindings that `_replay_frozen_campaign` adds) and the state after it, and the
gates. Scores are logarithms in whole units: the gates compare sums with
thresholds, so only the order matters. `ReplayMachine` is the abstract
specification: start from nothing, append any event the replay accepts. It is
what a controller journal may look like.

### Campaign

`run_campaign` and `acknowledge_campaign_checkpoint` as processes that may crash
between any two durable effects. `ctl` is the replay of the controller journal;
`admissions`, `calib`, `ack` are the other files; `cells[c]` is what a cell's
journal holds (`empty`, `partial`, `torn`, `done`, `late`, `bad`); `rec` is the
worker record or owned container that a recovery can find and `alive` the cells
with a worker or server up, which survive the controller. One invocation walks
through recovery, loading and replay, reconciliation of the active pair,
calibration, the checkpoint gate, the admission, the launch, the wait, the
settlement and the return; failures go through one handler that terminates the
campaign. The recovery asks docker for every cell on every invocation, whether a worker
is on record or not, so it may fail at any time, also on a campaign that has not begun:
then the handler has two appends, `campaign_started` (`FailStarts`, place "start") and
the terminal event (`FailTerminates`, place "fail"), and a crash may fall between them.
`launches` counts launches per cell and exists for the properties.
`Campaign` extends `ReplayMachine`: the two share the journal's state `ctl` and the
operators that compute an event, the refinement mapping is the identity, and
`ImplementsReplay` is `ReplaySpec` itself.

The evidence behind an acknowledgement is an abstract version, and `AckVerify`
takes the default proof to answer. `Publication` shows that, as the code is
composed, it does not (section 7): an acknowledgement happens only with another
proof, as the tests inject one.

One piece of code is unreachable and left out: a `calibration.json` without a
controller journal.

### RunLifecycle

`execute_plan` for the container backends, any number of processes over one run
directory. `log` is `events.jsonl` as a sequence of `[event, case, kind]`, and
everything recovery, the skip of completed cases and the status read is computed
from it (`Pending`, `completed_cases`, `Status`). `lock` is the benchmark lock,
`container` what docker has under the run's container name (nothing, this run's,
another owner's; up or not; kept on purpose), `wd` the watchdog with its
callback, `run` the variables of the attempt that holds the lock. The watchdog
is used here through what `HostSafety` shows of it: it trips at most once and its
callback runs in another thread. Each docker command may fail (`Fault`); a
container may die or be removed by an operator; a container of another owner may
take the name. `docker run` is assumed to have created the container or not by
the time its timeout expires. A second interrupt in the middle of the cleanup is
not modelled.

### Bridge

The Unix variant of the bridge as the threads that share one object: `acceptor`
(`serve_forever`), one worker per connection, and `owner`, who starts, serves and
closes as the Harbor campaign does; `signal_stop` sets the event from anywhere. An
action is a section under `_lock` or a socket call outside of one. `owned` and
`workers` are `_owned_sockets` and `_workers`, `sock` what the sockets really are,
`snap` what a `request_stop` took from the set before it closes it without the
lock. `Join` of a worker that is registered and not started yet ends `close()` with
the `RuntimeError` of `threading`. Parsing and authorising a request only decides
between `ReadRequest` and `DropRequest`. What a connection carries is `Relay`.

### Streams and Relay

`Streams` is the abstract specification of a connection: two ordered streams, of
which each side gets a prefix and, after the last byte, the end. Bytes are named by
their position. `Relay` is `_relay`: the selector loop with `buffers`,
`read_open`, `write_closed`, what `select` returned (`ready`), partial sends into a
window that the kernel grants (`room`), and its four ways out (drained, stopped,
idle, socket error). The endpoints write, read and close as they like. `Relay`
instantiates `Streams` with `received <- out`, `eof <- write_closed`,
`state <- ended` and is proved to implement it.

### LoopCampaign

`execute_campaign` and `cleanup_campaign` over one frozen plan; an action is one
durable effect with the tests before it. The journal is kept as what the code reads
back: `attempts`, `term` (the terminal event of a case), `by` (the profile that
completed it), `primaryFailed`, `fallback`, `indexed`, `cleanup`, `finished`. The
host is `server`, `network`, `box` (worker containers), `hosts` (worker processes).
Time is in units of 30 seconds, of which every margin in the code is a multiple;
`Instants` are the times at which the clock may be read. The three recoveries
(`_recover_plan_workers`, `_recover_plan_servers`, `_remove_worker_network`) run
before the phases, after them and as the cleanup command; `Recover` picks one.

### Harbor

`run_campaign` of the lifecycle with the parts of the adapter it drives. `Stages`
is the sequence of the thirteen admissions and acquisitions, each a record of what
it brings into the world (`exists`) and what the owner then holds (`handles`); a
stage passes, fails, or fails after it made something. A trial is `TrialBegins`,
`prepare_runtime_overlay`, `build_harbor_invocation`, the docker `Snapshot`, the
process (which ends, times out or is killed), `Inspect`, the removal of containers
and image, `LoadResult` and `Gate`. Then the last summary, the teardown (`todo`, with the
failed steps in `failed`), `Outcome`, and `WriteEnvelope` behind
`validate_lifecycle_envelope`. `Interrupt` is the first signal at any of these
points: `InterruptStage`, `InterruptTrial` and `InterruptTeardown` follow the
`except` clauses that are in force there. The bridge may die (`Bridge` is one
process of it); the bytecode cache may be found dirty.

### Round

One v2 round, the cache-performance campaign inside it and the exporter's view of
the files they leave. Planning (`plan`) may stop after each of its four steps. The
round's records are a sequence of events. An arm's journal is kept by the kind of
its events (`arms[a].static`, `arms[a].lifetime`, ...): every check that reads it
selects the events of one kind first, and none compares the places of two kinds, so
the order between kinds is not kept. The validator of the source, the reducer, the
audit and the exporter's topology check are predicates on these
(`_validate_sm121_cache_performance_source`,
`_validate_autoresearch_v2_source_topology` and the operators they use), which is
what "the export is blocked" is computed from. A server lifetime has its
watchdog, its deadline, the abort callback, the log, the stop and the verdict after
it. `blame` and `tainted` record what went wrong and exist for the properties.

### Publication

`export_evidence` in its three modes, by several processes, over sources that
benchmark runs, the campaign controller and the planning of a campaign change. A
corpus is which state of the sources it shows. `readers` and `sharers` are the
shared sides of `.sparkbench.lock` and of the campaign locks, both taken with
`LOCK_NB`; `owner` the exclusive side of a campaign lock. `output`, `backup`,
`temp[x]` are the three trees; the renames are steps, and so are the deletion of the
backup's entries and of the directory. `window[x]` collects the states of the
sources during an export and exists for the properties. A checkpoint is an export
in compare mode whose process holds the campaign lock (`held`).

Planning a run or a matrix takes no lock. A plan that appears while an export is
under way can make the number of source files it reports older than its list of
runs; this is left out: a planned run has no results yet.

### How the pieces fit

`CellWorker` justifies what `Campaign` assumes of a worker: it is found by a
recovery through its record, and removed or reported before the cell is settled.
`HostSafety` justifies the watchdog of `RunLifecycle` and `Round`: one abort, a
verdict that is final after `stop`. `Campaign` takes a whole `execute_plan` as one
worker process that starts, finishes or dies. `Harbor` takes the bridge as one
resource that `Bridge` shows to stop completely, and `Bridge` takes a connection as
one step that `Relay` refines. `Publication` takes runs and campaigns as
writers under locks. These links are arguments on paper; the checked refinements
are `Campaign` to `ReplayMachine` and `Relay` to `Streams`.

## 3 Runs

Twelve, each for a question of its own. States and times are for two TLC workers.

| run | question | result |
|---|---|---|
| `host_safety` | whatever the owner calls and whenever the monitor trips, fails or vanishes: one abort, delivered by the time `stop` returns unless its join expired (`AbortExact`); a silent watchdog has a safe last sample (`SilenceMeansSafe`); after `stop` the verdict is final (`StopFreezesVerdict`); a due abort is delivered and `stop` ends the monitor (`WatchdogLive`) | holds, 11,114 states |
| `cell_worker` | over crashes, restarts and pid reuse: a second worker exists only for a crash in the unrecorded window, a worker without controller is on record, a parent signals only its own child (`WorkerOwned`); the record outlives the worker; every call returns | holds, 340,529 states |
| `campaign` | two proposals, one fault anywhere (a crash, with a torn journal or not, or a clock set back), recoveries that fail at any invocation: the journal implements `ReplayMachine`; the files agree and the controller never attempts an event its own replay refuses, the termination of a campaign that has not begun included (`FilesAgree`); it launches only what this invocation admitted and never reopens a cutoff (`AdmissionSound`), only when no worker is up, only into an empty cell, nothing after a promotion (`LaunchDiscipline`), and nothing once terminal or torn (`ClosedStaysClosed`) | holds, 1,728,375 states, about 2 min |
| `campaign_settles` | one proposal, one crash, failing recoveries, evidence that changes under the acknowledgement, no cutoff that would help: no pair starts unacknowledged; a started campaign becomes terminal | holds, 222,172 states |
| `run_lifecycle` | two invocations, the watchdog, one crash and one docker failure: an owned container is never forgotten (`Accounted`); the server is monitored until it is stopped; a tripped attempt never completes and is on record, complete means stopped, every attempt is closed (`RecordsHonest`); another owner's container is untouched; every invocation returns; a trip takes the server down | holds, 573,399 states, about 1.5 min |
| `bridge` | connections, a full worker set, a signal, `close()` twice and the acceptor's own stop in every order: nothing opened is out of the books (`Accounted`); after `request_stop` nobody waits on an open socket and the path is unlinked once (`StopComplete`); after a stop every worker ends and every socket is closed (`StopDrains`) | holds, 450,633 states, about 1.5 min |
| `relay` | endpoints that write, stall and close, buffers smaller than the streams: the loop implements `Streams`; every byte arrives and the loop returns, unless it is cut (`Progress`) | holds, 48,861 states |
| `loop` | two invocations (runs or cleanups), a crash, a docker failure, a stop and all deadlines: a verified cleanup left nothing of the plan's containers, server and network (`VerifiedMeansClean`); all HALO results are one profile's (`OneHaloProfile`); no case runs a third time, a terminal record is final, and a finished campaign settled all (`CasesSettleOnce`); every invocation ends | holds, 1,679,645 states, about 2 min |
| `harbor` | three trials, one failure and one signal anywhere: what the envelope says is so, and its validator rejects an outcome of its own lifecycle only in four listed cases, its checks of the clocks apart (`EnvelopeTruthful`); every teardown step is tried before the lock goes (`Orderly`); no trial after a signal (`InterruptStops`); the campaign ends although a trial hangs | holds, 1,236,264 states, about 1.5 min |
| `round` | two overlapping invocations, trips, deadlines, wrong answers, one crash or failure: an arm that counts had no trip or expiry, not even after its last answer (`MeasuredClean`); the exporter is blocked only after a cut, a failed write, an overlap or changed evidence (`BlockedOnlyBy`); measured once (`ChildOnce`); the round ends | holds, 177,549 states |
| `publication` | two exports of any mode with a run, a campaign and a new campaign directory meanwhile, one failure or crash: no corpus is lost (`EvidenceKept`); what is published is one state of the sources that was current, a replacement keeps the Harbor campaign it cannot rebuild, a comparison is about one tree (`ExportSound`); every export ends | holds, 246,497 states |
| `checkpoint_self_lock` | does a checkpoint that is alone prove current evidence? | no: section 7 |

Every property of a passing run has a mutant in `PROJECT.json`: an operator
beside the original that changes it the way a plausible slip in the code would
(`Join_Unchecked`, `RefuseClient_Leaks`, `EndAtOnce_Early`, `Restore_Never`, ...),
under which TLC finds the property violated.

`CHECK_DEADLOCK FALSE` is set where the system really may stop: after the operator's
last call (`run_lifecycle`, `loop`, `round`, `publication`), a bridge that was closed,
a relay that returned, a Harbor campaign that is done.

## 4 Bounds

Every bound is a CONSTANT with a comment.

- `HostSafety`: no bound on calls or samples. Eight texts, one for each way a
  sample is accepted or rejected, and thresholds of one or two units. The code
  compares numbers with thresholds and with the first sample, so a unit on either
  side of each limit is enough.
- `CellWorker`: two pids and three processes in all (`MaxTick`), so that a pid
  is reused while another is in use; two crashes, so that a recovery is itself
  interrupted.
- `Campaign`: two proposals and one fault for safety, one proposal and one crash for
  liveness. A controller that restarts reads nothing but its files, and a worker may
  die and a recovery fail without using up the fault, so one crash at every step, of a
  first, a resumed or a recovering invocation, already meets every kind of file it can
  leave. Two crashes in one campaign, and longer queues, are covered by the proofs
  only. `MaxDenials` bounds how
  often a campaign that has not started is refused; `MaxVersion` how often the
  evidence changes; `MaxTime` and `Cutoff` are the two times that matter.
- `RunLifecycle`: one process, two invocations, three cases of which the profile
  does not serve the second, with and without `--keep-server`, one crash, one docker
  failure or death. A recovery that fails in the second invocation leaves what a
  third would find; that third, and processes that wait for the lock, are covered by
  the proofs, which bound nothing.
- `Bridge`: three connections over a set of two workers, so that a connection
  meets a full set, and one that was full and has room again; two calls of
  `close()`, the second after the first returned or raised. The proofs of its
  invariants bound none of these.
- `Relay`: streams of up to three bytes, buffers and chunks of two and a window of
  one: a buffer fills, a send is partial, and an end of stream arrives at a full, a
  half-full and an empty buffer. The proof bounds none of these.
- `LoopCampaign`: two cases per phase, one of them held back and one isolated in
  a container; two HALO profiles; four instants, on either side of the margins that
  separate "start", "too late to start" and "past the cutoff" in both phases. The
  proofs cover any number of cases, faults and invocations and any window.
- `Harbor`: three trials (a canary, a pair's first and second image), one failure
  and one signal at any step. Two failures would also meet a cleanup that fails twice,
  which the teardown treats step by step and independently.
- `Round`: two arms (the first that fails and one that must then stay untouched),
  two timed turns, two controllers, one crash or failure. Trips, expiries and wrong
  answers are not counted against it.
- `Publication`: two exporters, each of the sources changes once, two calls, one
  failure or crash; it may also begin with a tree published, or with the backup that
  a crash between the renames has left. The proofs bound none of these.

## 5 Fairness

- `HostSafety`: weak fairness of the steps of both threads, which the
  interpreter schedules. None for the owner's calls, none for a failing monitor.
- `CellWorker`: weak fairness of the controller's steps, each wait of which has a
  timeout. The kernel, the worker and the operator owe nothing.
- `Campaign`: weak fairness of the running invocation's steps; strong fairness of
  invoking `run_campaign` and the acknowledgement, which is the operator who keeps at
  it and alternates the two, and of the acknowledgement's recovery succeeding: docker
  does not fail every one of them. (One that fails inside `run_campaign` ends the
  campaign.) Nothing is assumed of the clock, and the cutoff never comes in this run.
  Workers owe nothing: the deadline ends them. The liveness run has no backward clock
  step and no torn journal or cell: a clock set back between an admission and its
  execution, or a torn record, makes every later invocation refuse the journal. The
  code fails closed there by design, and such a campaign never settles.
- `RunLifecycle`: weak fairness of each process's steps (docker commands have
  timeouts) and of the abort callback, which runs in a thread. None for
  invocations, trips, crashes or failures.
- `Bridge`: weak fairness of the threads' own steps. Where a worker waits for a
  socket it is fair only once that socket is closed or, in the relay, whose poll is
  short, once the stop is set; the acceptor likewise. Clients and the idle timeout
  owe nothing.
- `Relay`: weak fairness of the loop and of an endpoint's reading. No timeout, error
  or stop is counted on, and no endpoint has to write or close.
- `LoopCampaign`, `Round`, `Publication`: weak fairness of the steps of a process that is
  up. Worker waits have deadlines, locks are tried without waiting.
- `Harbor`: weak fairness of the owner, the timeout of a trial included. A trial's
  process need never end by itself.

## 6 Proofs

Eight modules, checked by `tlapm` to the last leaf. Nothing is assumed but the
named ASSUMEs of the models, which only say what the constants are:
`ThresholdAssumption`, `TextAssumption` (HostSafety), `ProposalsAssumption`,
`AxisAssumption`, `OutcomesAssumption`, `PolicyAssumption` (Transitions),
`WorkerAssumption` (CellWorker), `RoundAssumption` (Round), `BoundsAssumption` (Campaign),
`ConstantsAssumption` (RunLifecycle), `BridgeAssumption` (Bridge), `RelayAssumption`
(Relay), `LoopAssumption` (LoopCampaign), `HarborAssumption` (Harbor),
`PublicationAssumption`, `NoneAssumption` (Publication). TLC evaluates each in the runs.
Every inductive invariant was an invariant of a TLC run of its component's configuration
before it was proved.

**HostSafetyProofs.** `TypeCorrect`, `AbortOnce`, `AbortDeliveredByStop`,
`VerdictFinal`, `FirstFailure`, `AbortExactTheorem`, which is the run's
`AbortExact`, and `WatchdogSilence`, which is `SilenceMeansSafe`, for all thresholds and
texts. Delivery by the return of `stop` is claimed for a join that did not expire: the
join is bounded, and a monitor still on its way into the callback, or inside it, then
outlives it. `AbortAtMostOnce` is not inductive: that
the callback is entered once depends on who has claimed it. The invariant adds
`PendInv` (whoever enters `_trip` has a failure to record), `ClaimInv` (the callback
is claimed exactly when it is due, and then either one thread is in it or it has been
called once), `MonitorInv` (the thread is alive exactly while its program counter is
inside `_run`), `ClosedInv` (a monitor that outlives the join of `stop` finds the
watchdog tripped) and `SpawnInv` (`start` spawns once, and not on a closed watchdog).
`SilenceInv` adds that a verdict on its way has its thread in `_trip` and that the
baseline is the first sample judged; `PassingVerdict` says once what a sample that
passes all limits satisfies.

**AutoresearchProofs.** Two parts, which share nothing but the module. The first is
about `CellWorker`: `WorkerAlwaysOwned` and `RecordRemovedLast`, the run's
`WorkerOwned` and `RecordOutlivesWorker`, for every set of pids and any number of
processes, crashes and restarts. `Ticks`: a start time is never given twice, so a
reused pid is told from the process that had it. `Parent`: the child that is not reaped
keeps its pid, and once captured it is the process the identity names; this is why the
check and the signal that follows it, two steps, cannot come apart for a parent (they
can in the recovery, which is no parent, and the invariant says nothing there).
`Absent`: when the record is about to be removed, whatever has the group's number is a
later process. `Traced`: every launch but the lost ones has left a journal, a record, a
terminal event or a failure that is about to become one, and each of them forbids
another launch. `Confined`: as long as no launch was lost, the one group that may hold a
worker is that of the child, of the identity or of the record. The steps are split once
(`StepCases`) into those that create a process and the quiet ones, after which groups can
only be gone (`Settles`).

The second part is about `Round`: `MeasuredArmsClean` and `CampaignRunsOnce`, the run's
`MeasuredClean` and `ChildOnce`, for every set of controllers and any number of arms,
turns, faults and crashes. Neither is inductive. `Writes`: whoever is inside the campaign
holds the results lock, and if there is a summary already it has not got beyond the check
of its first arm, which refuses; so the check made before the lock, which may be stale,
does no harm. `Place`: the rows so far are those of the arms before this one. `Noted`: a
lifetime in whose arm something went wrong has it in one of the four locals that the
verdict and the expiry check read (the error, the trip, the expiry, the failed cleanup);
once the watchdog is stopped in the error or the expiry alone, which is why an arm that
completes is clean. `OnFile`: nothing went wrong in an arm that was not begun. Steps are
of three kinds: those that touch nothing of the campaign (`OutsiderStep`), those of the
holder within an arm (`WithinStep`), and those with which it goes on or leaves
(`BeyondStep`, `LeaveStep`).

`RoundBlockedOnlyBy` is the run's `BlockedOnlyBy`: a round that nobody works on and in
which nothing went wrong outside of a lifetime passes the exporter's topology check,
whatever the server, the answers, the watchdog and the deadlines did; `TypeOK` goes with
it. The property speaks of the end alone, so the invariant has to say, for every place an
invocation can be at, what the files hold there. `Unblamed` does: while `blame` is empty
there was at most one invocation (`Sole`), and `Path` gives the round's events, its
summary and the campaign's files for each place of it. Inside the campaign, `Course`:
the journals of the arms behind it bear out their rows (`Good`; in the last row of a
campaign that failed, `Bad`), those of the arms to come are blank, and the journal of
the current one has the entries that its lifetime has reached (`Underway` and
`Reached`: the events before and up to this lifetime, by kind; `Partial` those of a
lifetime that failed between the server's start and its first answer). `Borne`: once there is
a summary the source validator calls it terminal, and so the audit and the projection
do not fail without a reason in `blame`. Per kind a journal has at most two entries,
which is why the sequences are given by name (`Before`, `Upto`) and no induction is
needed; the one open-ended sequence is that of the turns, bounded by `NTurns`.

**CampaignProofs.** Three parts. The first is about `ReplayMachine` alone:
`ReplayTypeCorrect`, `IndexesUnique`, `PromotionsConfirmed`, `QueueInOrder`,
`NothingAfterTerminal`, for every queue, every set of outcomes and every policy. The
strengthening `ActiveInv` says that the candidate under test is one of the queue and
not promoted: without it a score or a decision could disturb a promotion made earlier.

The second is `ControllerImplementsReplay`: the controller implements
`ReplayMachine`, for any queue and any number of crashes, torn journals and clock
steps. Two facts about the running invocation carry it, `KindInv` (the failure
being handled is one a terminal event may report) and `ArmsInv` (the number of
completed arms is a number). `JournalKept` then gives the replay's
invariants for the controller journal of every reachable state.

The third part is about the files beside that journal: `ControllerFilesAgree`,
`AdmissionsSound`, `PairsAcknowledged`, `LaunchesDisciplined` and
`ClosedCampaignsStay`, the five safety properties that the two campaign runs check. They
rest on one invariant, `CInv`. `QueueInv`: the program never discards a candidate, so whoever was
started before the active one is decided. `PlaceInv`: where an invocation can be in a
campaign that is over, not begun, or torn; a failure of one that has not begun is at
"start", not at "fail", so the termination is never the first event, which the replay
would refuse. `BeginInv`: nothing happens before
`campaign_started`, no candidate before the calibration. `WorkInv`: the only worker
there may be is the one of the record, and past the recovery there is no record; this
is why no launch happens beside a live worker. `AckInv`: the acknowledgement is that
of the last pair wherever the gate lies behind the invocation *or is skipped*: the
three phases in which `_checkpoint_gate_required` skips it are the ones in which it is
already known. `TargetInv`: the admission in hand is for the pair the next launch
belongs to. `AdmissionInv`: the times on file do not go back, so a late denial stays
late whatever the clock does.

**RunLifecycleProofs.** `TypeCorrect`, `OwnedNeverForgotten`,
`StoppedWhenComplete`, `TrippedNeverCompletes`, `TripOnRecord`, `AttemptsEnd`,
and the run's properties `Accounted`, `RecordsHonest`, `OthersUntouched` and
`MonitoredUntilStopped`
(`ContainerAccounted`, `JournalHonest`, `OthersSafe`, `ServerMonitored`), for any number
of processes,
cases, invocations, crashes and failures. The argument is in layers. `LockInv`: only
the holder of the lock is past the entry, and no watchdog outlives the lock.
`OwnedInv`: at every stage an owned container that is not kept is pending in the
journal, with the facts of that stage that keep it so; this is what a crash at any
stage needs. `WatchInv`: at every stage what the watchdog has done and whether the
breach is on file. `CidInv`: which stages have a container at hand. `MonitorInv`: with
thresholds configured the watchdog lives from before the server's start to behind its
removal, and who let go of it earlier saw a docker command fail. The lemmas about
journals (`AppendHas`, `AppendAfter`,
`AppendSince`, `PendingAppend`) say once how one more event changes what recovery
reads.

**BridgeProofs.** `BridgeAccounted` and `BridgeStopComplete`, for any number of
connections, workers and calls of `close()`. The parts of the invariant follow the
hands a socket passes through. `ConnInv` and `HandInv`: a client is with the acceptor,
between `accept` and the handover, or with its worker, and never with nobody.
`SnapInv`: a stopper that has copied the sets has copied everything that is still
open, because nothing is tracked after the event is set; with `StopInv` this is what
closes the connection that was accepted while a stop was under way. `PathInv` and
`ListenInv`: the socket's path exists exactly while its identity is on file or one
thread is about to unlink it, and the listener is open only while it is installed, being
installed, or in the hands of a stopper. `WorkersBounded` is a fact about
cardinalities.

Of what a connection carries, the same module proves `RelayTypeCorrect` and
`RelayImplementsStreams`: for every buffer,
chunk and window size and streams of any length the relay implements `Streams`. The
invariant `RelayInv` has four parts per side: `Carried` (what was sent to a side followed by
what is pending for it is the numbers 1, 2, ... up to what was taken from the other:
no byte lost, repeated or moved), `Bounded` (a buffer never exceeds `MaxPending`, and
no byte is taken that was not written), `Ends` (a side is told of the end only when the
other ended its stream, all of it was taken and nothing is pending) and `Selected` (a
socket that `select` returned for reading still has something to read, and room for it). `Selected` is
what makes it inductive: without it a `recv` of zero bytes, asked for none because the
buffer had filled since `select`, would be taken for the end of the stream. With it
every step of the loop is a `Deliver`, a `Finish`, a `Cut` or a
stutter.

**LoopCampaignProofs.** `CleanupVerified`, `HaloProfileUnique` and `CasesSettled`, the
run's three safety properties, for any numbers of cases, crashes, faults and
invocations and any window. `CleanInv`: until the next start nothing undoes what a
verified cleanup says, and the recovery has removed what it went through without a
failure. `ServerInv`: what each step of a phase leaves running, the server of the
profile in use or nothing of the plan or, when the next profile is tried, one given up
before. `ProfileInv`: the profile in use is the one that completed whatever is complete;
it survives a restart because the candidates are then that profile alone
(`CandidateFacts`), and a fallback because that needs an empty set of results.
`CaseInv`: the case at hand is pending, so that nothing is settled twice.
`SettledInv`: a phase that has ended left nothing pending. `MinIn` and `MaxIn` say that
the least and the greatest of a bounded set of numbers are in it; they rest on the
well-foundedness of the numbers and not on an induction over cases.

**HarborProofs.** `TeardownAlwaysTried`, `EnvelopesTruthful` and `SignalStopsTrials`,
the run's `Orderly`, `EnvelopeTruthful` and `InterruptStops`, for any number of trials
and failures. `CountInv`: how many trials were begun, returned and recorded at each
place, which is how the certificate of `_harbor_cleanup_certified` can speak of all of
them. `PlaceInv`: the stages and the teardown run in order; a signal in the teardown
counts as late because an error of the interrupted kind means that the first signal is
past. `SignalInv`: where the owner may be once it was told to stop. Only cleanups
swallow the exception, and each leaves an invocation that is not clean; its attempt is
then not clean either, and `_attempt_gate` lets no such attempt pass. `DockerInv`: what
docker holds belongs to an invocation that returned no clean status. `GateInv`: whatever
passed the gate was clean and admitted. `RemovedInv`: what the teardown has passed and
left standing is among the failed flags or was never handed over; with all ten
resources among its twelve steps (`TeardownFacts`) this is the clean envelope.
`ReasonInv` and `SummaryInv`: stop reason, error, cutoff and summary agree. They give
both halves of the envelope: what "completed" implies, and, read the other way
(`ValidatorAccepts`), that the validator refuses nothing but the four cases that
`EnvelopeTruthful` names (of the checks that are modelled; section 8).

**PublicationProofs.** `PublicationKeepsEvidence` and `PublicationSound`, the run's
`EvidenceKept` and `ExportSound`, for any number of exporters, calls, versions,
failures and crashes. `SwapInv`: one exporter at a time is between the two renames,
although there is no lock on the output: the first rename fails unless the backup's place
is vacant.
`KeptInv`: a corpus is somewhere. `IdInv`: trees are told apart by their inode.
`LockInv`: which shared lock an exporter holds at which step, and `ReadInv`: hence what
it read in several passes is one state of the sources, as long as no campaign was
planned since, which the last check refuses. `HarborInv`: the Harbor campaign of the
tree it looked in is in the tree it built. `CompareInv`: a comparison is about the tree
it began with, where "it" is an id that no other tree has (section 8).

Only model-checked: all liveness, which needs fairness and ENABLED and is out of this
prover's reach. Every invariant and every action property of the runs, and both
refinements, are proved.

## 7 Where the code and its documentation disagree

One disagreement is a run that TLC refutes; `PROJECT.json` quotes the lines.

`checkpoint_self_lock`: `acknowledge_campaign_checkpoint` holds the campaign's
`.autoresearch.lock` exclusively while its default evidence proof calls
`export_evidence`, which asks for the shared side of the same lock through another
descriptor and is refused. A checkpoint that is alone, over current evidence, fails.

The others were met while modelling. They are described and not run, because what
they say is a sequence of two or three steps that needs no model checker; the models
contain the behaviour.

Cell workers and campaigns:

- A recovering controller is not the worker's parent, so the pid can be reused between
  the `/proc` check and `killpg` (`autoresearch_worker.py:533`); the module says the
  start time prevents it. In `CellWorker` the parent never signals a stranger
  (`OwnChildOnly`); a recovery may, and no property denies it.
- `worker.json` is written after `Popen` (`autoresearch_worker.py:920`): a crash in
  between leaves a running worker without record, and the cell is launched again.
  `AtMostOneWorker` counts these. Likewise a worker that wrote nothing is cleaned up,
  record and all, before the terminal event: a crash in between lets the cell be
  launched again.
- A calibration journal with a torn line makes every later invocation raise before it
  can terminate the campaign (`autoresearch_campaign.py:2691`, called outside the
  handler).
- After a crash between a denied admission and the terminal event, the next
  invocation may admit the pair (`autoresearch_campaign.py:5017`).

Runs:

- `execute_plan` reads the completed cases before it takes the lock
  (`runner.py:6307`), so an invocation that waits out another one measures its cases
  again.
- A recovery without a `server_ready` after the last `run_start` stops the run's
  container even if it was kept on purpose (`runner.py:5776`).

Bridge: `close()` says that it reaps the workers (`docker_bridge.py:662`); `join` of a
worker that is registered and not started raises `RuntimeError`, and the rest is not
joined. The sockets are shut by then, so every worker still ends (`StopDrains`).

Loop campaign:

- The worker processes on the host are not recovered after a kill of the owner; only
  containers are.
- A worker container that cannot be removed runs on beside the next case.
- A stop in the HALO index step is recorded as `case_skipped_deadline`
  (`loop_campaign.py:3426`).
- `docs/rlm-halo-overnight-2026-08-25.md:323` says that after a graceful stop the
  remaining cases are terminal and "are not re-opened by `resume`". A stop in the RLM
  phase skips the HALO phase (`loop_campaign.py:3664`) without marking its cases, and a
  later invocation runs them.

Harbor:

- `BENCHMARK.md:1130` says that "a failure or timeout remains a measured failed
  attempt". A trial that timed out or has no usable result makes the envelope of an
  otherwise complete campaign invalid (`harbor_campaign_lifecycle.py:1450`), and no
  envelope is written: the first exception in `EnvelopeTruthful`.
- When `start_llamacpp` fails and its own stop fails too, the flag `server_stopped`
  stays true: the owner never had a handle (the exception in `EnvelopeTruthful`).
- The first signal during the teardown can skip the rest of it (the exception in
  `Orderly`), and a signal inside `cleanup_harbor_containers` is swallowed by an
  `except BaseException`; no trial follows nevertheless (`InterruptStops`).

Rounds:

- A round takes no lock. Two overlapping invocations both append `started`, and the
  second can overwrite the first one's summary with a failure receipt.
- A round that crashed, one whose audit returned findings, and a crash in the planning
  between the campaign's directory and `campaign.json` block every export of every
  source. A `KeyboardInterrupt` leaves no receipt. `BlockedOnlyBy` is the complete list.

Publication:

- Two concurrent `--replace` exports may replace a newer corpus by an older snapshot,
  or lose a Harbor campaign that the other published after the first had looked
  (the condition in `HarborKept`).
- A crash between the renames leaves no output and `.evidence.old`. A later export
  without `--replace` then publishes a corpus without the Harbor campaign, and
  `--replace` is refused until the backup is removed by hand.

## 8 Not modelled

The map covers about a ninth of the lines under `bench/`. It covers most of the code
that keeps state across a call, a process or a thread; most of the rest compares
documents with constants. `evidence.py` alone has 22,432 lines, of which the locks,
the snapshot and the publication are some hundreds, and the rest projects and
validates one kind of record after another, field by field; `manifest.py`, the
contracts and the scorers are of the same kind. A model of such a function is the
function.

- Content: the bytes of journals, digests, file modes and links, the frozen
  plan's integrity, what a case measures, how metrics are projected, the validators of
  `evidence.py` and `audit.py` except where `Round` needs their topology checks.
- Benchmark client: stream parsing and timing are data. The start barrier of a burst
  has as many parties as the pool has threads at every caller
  (`concurrency = len(requests)`), and a timeout of 30 seconds, so it cannot wait for
  itself.
- The progress probe of a cell (`_CellLifecycleProgress`) is one nondeterministic
  timeout in `CellWorker`: whatever it decides, the worker is interrupted or not, and
  the projection of a completed cell checks the budgets of its markers again.
- SM121 canaries, chunked-prefill and agent-admission runners: the pattern of the
  cache-performance runner of `Round`, a fixed sequence of fresh-server lifetimes with
  an abort record each. What the agent admission adds (a launch lease, the recovery of
  an owned server) stays inside one process.
- In `runner.py` the llama.cpp and Ollama variants of the recovery; in `runtime.py`
  command lines, caches, attestation and the native llama.cpp process (a stage of
  `Harbor` only). In `autoresearch_campaign.py` freezing and loading plans, the sealed
  legacy campaign, the summary file. In `harbor_terminal.py` command lines, compose
  files, pinned agents, the projection of a trial.
- The clock checks of Harbor's validator (`harbor_campaign_lifecycle.py:1252`, `:1410`):
  at most ten hours, no less than the trials took, not finished before it started. With
  the cutoff at 6.5 hours and a trial's hour after it they hold unless the owner is
  stalled for hours or the wall clock is set back; then the envelope is rejected for
  a reason `EnvelopeTruthful` does not list.
- Inodes in `Publication`: the code tells trees by `st_dev` and `st_ino`, the model
  gives each an id of its own. A file system may give a purged backup's inode to a later
  tree; that a comparison is about the tree it began with, and that a replaced Harbor
  campaign is kept, hold up to that. `Purge` leaves an empty directory where a failed
  `rmtree` may leave some entries: nothing relies on those.
- An identical controller event appended twice, which the replay accepts as the same
  event: a stutter here.
- Telemetry sampler: observational, no decision reads it. Direct runners (diffusion,
  TensorRT-LLM, perplexity): one child process with a deadline, no recovery. Build and
  overlay preparation, acquisition, inventory: one-shot file work checked by digests.
  SM121 and SGLang contracts, Pi core prefix, manifests: equality of documents with
  pinned constants. Workloads, scoring, metric parsers, command line: pure functions
  of their input.

## 9 Plan

Done, in the order of importance: the watchdog, the worker's ownership, the replay,
the controller, the run's lifecycle; then the bridge and its stream refinement, the
loop campaign, Harbor, the v2 round over its child campaign, and the publication.

Proved: every safety property that the runs check (section 6).

Next, models: the native llama.cpp server as a further backend of
`RunLifecycle`, and the agent-admission runner's launch lease.
