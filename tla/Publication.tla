----------------------------- MODULE Publication -----------------------------
(***************************************************************************)
(* Publishing the evidence corpus: export_evidence and                      *)
(* _export_evidence_locked of bench/evidence.py, with the locks that         *)
(* benchmark runs, the campaign controller and the checkpoint               *)
(* (prove_evidence of bench/autoresearch_checkpoint.py) take on the same     *)
(* sources.                                                                 *)
(*                                                                         *)
(* An export reads the sources into a temporary tree under two shared       *)
(* locks, gives the campaign lock back, and then compares or swaps the      *)
(* published tree with renames.  flock conflicts are between open files,     *)
(* not processes: a process may be refused because of its own lock.         *)
(***************************************************************************)
EXTENDS Integers, FiniteSets

CONSTANTS
    Exporters,     \* processes that export or compare
    Modes,         \* how each may be called
    None,
    MaxVersion,    \* bound on the changes of a source
    MaxDirs,       \* bound on the campaign directories
    MaxCalls,
    MaxFaults      \* bound on failures and crashes together

ASSUME PublicationAssumption ==
    /\ Modes \in [Exporters -> SUBSET {"publish", "replace", "compare"}]
    /\ {None, "controller"} \cap Exporters = {} /\ None # "controller"
    /\ MaxVersion \in Nat /\ MaxDirs \in Nat \ {0}
    /\ MaxCalls \in Nat /\ MaxFaults \in Nat

VARIABLES
    src,          \* the results tree: its runs, its campaign journals, its campaign set
    running,      \* a benchmark run holds .sparkbench.lock exclusively
    readers,      \* exporters that hold it shared
    owner,        \* who holds .autoresearch.lock exclusively
    sharers,      \* exporters that hold it shared
    output,       \* the published tree
    backup,       \* the tree moved aside
    pc, call,
    topology,     \* campaign directories found when they were locked
    temp,         \* the tree being built
    identity,     \* st_dev, st_ino of the output a comparison is about
    window,       \* history: every state of the sources since the call
    reused,       \* history: the tree the Harbor campaign was looked up in
    result,       \* of the export that ended last
    trees, calls, faults,
    crashed       \* an export died

world == <<src, running, owner>>
locks == <<readers, sharers>>
published == <<output, backup, trees>>
local == <<call, topology, temp, identity, reused>>
budget == <<calls, faults, crashed>>
vars == <<src, running, readers, owner, sharers, output, backup, pc, call,
          topology, temp, identity, reused, window, result, trees, calls, faults, crashed>>

Sources == [runs : 0 .. MaxVersion, campaign : 0 .. MaxVersion, dirs : 0 .. MaxDirs]
\* "cells" is the version of the campaign that its published runs are from.
Corpus == [src : Sources, cells : 0 .. MaxVersion, harbor : BOOLEAN]
\* A published directory: its inode, and what verify_evidence would find in it.
Tree == [id : Nat, corpus : Corpus]
\* A directory that rmtree has emptied and not yet removed.
Emptied == [id |-> 0, corpus |-> None]
ASSUME NoneAssumption == None \notin Corpus \cup Tree \cup {Emptied}

\* replace and require_existing_output exclude each other; a comparison under
\* the campaign's own lock is the checkpoint's.
Call == [mode : {"publish", "replace", "compare"}, harbor : BOOLEAN, held : BOOLEAN]
NoCall == [mode |-> "publish", harbor |-> FALSE, held |-> FALSE]

Pcs == {"idle", "campaigns", "sources", "runs", "harbor", "close", "look", "equal",
        "differs", "aside", "in", "restore", "purge", "rmdir", "new"}

Blank == [src |-> [runs |-> 0, campaign |-> 0, dirs |-> 0], cells |-> 0, harbor |-> FALSE]
Id(tree) == IF tree = None THEN 0 ELSE tree.id

\* What an earlier export published, or left behind between its renames.
First == [id |-> 1, corpus |-> [Blank EXCEPT !.harbor = TRUE]]

Init ==
    /\ src \in {[First.corpus.src EXCEPT !.dirs = d] : d \in 0 .. 1}
    /\ running = FALSE /\ readers = {} /\ owner = None /\ sharers = {}
    /\ \/ output = None /\ backup = None /\ trees = 0 /\ src.dirs = 0
       \/ output = First /\ backup = None /\ trees = 1
       \/ output = None /\ backup = First /\ trees = 1
    /\ crashed = (backup # None)
    /\ pc = [x \in Exporters |-> "idle"]
    /\ call = [x \in Exporters |-> NoCall]
    /\ topology = [x \in Exporters |-> 0]
    /\ temp = [x \in Exporters |-> Blank]
    /\ identity = [x \in Exporters |-> 0]
    /\ reused = [x \in Exporters |-> 0]
    /\ window = [x \in Exporters |-> {}]
    /\ result = "none"
    /\ calls = 0 /\ faults = 0

-----------------------------------------------------------------------------
(* The rest of the workspace.                                              *)

\* Whatever changes, every export under way has it in its window.
Observe ==
    window' = [x \in Exporters |->
                  IF pc'[x] = "idle" THEN {}
                  ELSE window[x] \cup {src'}]

\* A benchmark run: LOCK_EX | LOCK_NB, then new results.
RunBegins ==
    /\ ~running /\ readers = {} /\ src.runs < MaxVersion
    /\ running' = TRUE
    /\ UNCHANGED <<src, owner, locks, published, pc, local, result, budget>>

\* What it wrote is all there when it lets go of the lock.
RunEnds ==
    /\ running /\ running' = FALSE
    /\ src' = [src EXCEPT !.runs = @ + 1]
    /\ UNCHANGED <<owner, locks, published, pc, local, result, budget>>

\* The campaign controller: _campaign_lock, then its journals.
ControllerBegins ==
    /\ src.dirs > 0 /\ owner = None /\ sharers = {} /\ src.campaign < MaxVersion
    /\ owner' = "controller"
    /\ UNCHANGED <<src, running, locks, published, pc, local, result, budget>>

ControllerEnds ==
    /\ owner = "controller" /\ owner' = None
    /\ src' = [src EXCEPT !.campaign = @ + 1]
    /\ UNCHANGED <<running, locks, published, pc, local, result, budget>>

\* A new campaign is planned, under a lock of its own that nobody shares yet.
PlanCampaign ==
    /\ src.dirs < MaxDirs
    /\ src' = [src EXCEPT !.dirs = @ + 1]
    /\ UNCHANGED <<running, owner, locks, published, pc, local, result, budget>>

World ==
    /\ \/ RunBegins \/ RunEnds \/ ControllerBegins \/ ControllerEnds
       \/ PlanCampaign
    /\ Observe

-----------------------------------------------------------------------------
(* One export.                                                             *)

\* The call is over: the temporary tree is removed unless it was renamed, the
\* locks are released, and a checkpoint gives its campaign lock back.
Leave(x, why) ==
    /\ pc' = [pc EXCEPT ![x] = "idle"]
    /\ result' = why
    /\ readers' = readers \ {x} /\ sharers' = sharers \ {x}
    /\ owner' = IF owner = x THEN None ELSE owner
    /\ call' = [call EXCEPT ![x] = NoCall]
    /\ topology' = [topology EXCEPT ![x] = 0]
    /\ temp' = [temp EXCEPT ![x] = Blank]
    /\ identity' = [identity EXCEPT ![x] = 0]
    /\ reused' = [reused EXCEPT ![x] = 0]
    /\ UNCHANGED <<src, running, calls>>

Fails(x) == Leave(x, "error") /\ UNCHANGED <<published, faults, crashed>>

Goto(x, where) == pc' = [pc EXCEPT ![x] = where]

\* The call takes .sparkbench.lock shared, or is refused, without waiting
\* (LOCK_SH | LOCK_NB); a checkpoint holds its campaign's lock already.
Invoke(x) ==
    /\ pc[x] = "idle" /\ calls < MaxCalls /\ ~running
    /\ \E c \in Call :
          /\ c.mode \in Modes[x]
          /\ c.harbor => c.mode # "compare"
          /\ c.held => c.mode = "compare" /\ src.dirs > 0 /\ owner = None /\ sharers = {}
          /\ call' = [call EXCEPT ![x] = c]
          /\ owner' = IF c.held THEN x ELSE owner
    /\ calls' = calls + 1 /\ Goto(x, "campaigns")
    /\ readers' = readers \cup {x}
    /\ result' = "none"
    /\ UNCHANGED <<src, running, sharers, published, topology, temp, identity, reused,
                   faults, crashed>>

\* The locks are held: the output's path is checked, and a comparison remembers
\* which directory it is about.
Prepare(x) ==
    /\ call[x].mode = "compare" => output # None
    /\ identity' = [identity EXCEPT
           ![x] = IF call[x].mode = "compare" THEN Id(output) ELSE 0]

\* Mutant: the shared lock is waited for.
_hold_autoresearch_source_locks_Blocking(x) ==
    /\ pc[x] = "campaigns" /\ (src.dirs > 0 => owner = None)
    /\ sharers' = IF src.dirs > 0 THEN sharers \cup {x} ELSE sharers
    /\ topology' = [topology EXCEPT ![x] = src.dirs]
    /\ Prepare(x) /\ Goto(x, "sources")
    /\ UNCHANGED <<world, readers, published, call, temp, reused, result, budget>>

\* Every campaign found is locked shared, without waiting.
_hold_autoresearch_source_locks(x) ==
    /\ pc[x] = "campaigns"
    /\ \/ src.dirs > 0 /\ owner # None /\ Fails(x)
       \/ call[x].mode = "compare" /\ output = None /\ Fails(x)
       \/ /\ src.dirs > 0 => owner = None
          /\ sharers' = IF src.dirs > 0 THEN sharers \cup {x} ELSE sharers
          /\ topology' = [topology EXCEPT ![x] = src.dirs]
          /\ Prepare(x) /\ Goto(x, "sources")
          /\ UNCHANGED <<world, readers, published, call, temp, reused, result, budget>>

\* The set of campaign directories is the one that was locked.
_validate_autoresearch_source_topology(x) == src.dirs = topology[x]

\* The campaigns that are there are snapshotted; their runs follow later.
_autoresearch_sources(x) ==
    /\ pc[x] = "sources"
    /\ \/ ~_validate_autoresearch_source_topology(x) /\ Fails(x)
       \/ /\ _validate_autoresearch_source_topology(x)
          /\ temp' = [temp EXCEPT ![x].src.campaign = src.campaign,
                                  ![x].src.dirs = src.dirs]
          /\ Goto(x, "runs")
          /\ UNCHANGED <<world, locks, published, call, topology, identity, reused, result, budget>>

\* Every run and matrix is projected into the temporary tree, and the runs of the
\* snapshotted campaigns.
_export_runs(x) ==
    /\ pc[x] = "runs"
    /\ temp' = [temp EXCEPT ![x].src.runs = src.runs, ![x].cells = src.campaign]
    /\ Goto(x, "harbor")
    /\ UNCHANGED <<world, locks, published, call, topology, identity, reused, result, budget>>

\* The Harbor campaign comes from the results given or from the published tree.
_export_harbor(x) ==
    call[x].harbor \/ (output # None /\ output.corpus.harbor)

ExportHarbor(x) ==
    /\ pc[x] = "harbor"
    /\ temp' = [temp EXCEPT ![x].harbor = _export_harbor(x)]
    /\ reused' = [reused EXCEPT ![x] = Id(output)]
    /\ Goto(x, "close")
    /\ UNCHANGED <<world, locks, published, call, topology, identity, result, budget>>

\* The temporary tree is verified, the campaign set compared once more and the
\* campaign locks released before the output is looked at.
Close(x) ==
    /\ pc[x] = "close"
    /\ \/ ~_validate_autoresearch_source_topology(x) /\ Fails(x)
       \/ /\ _validate_autoresearch_source_topology(x)
          /\ sharers' = sharers \ {x} /\ Goto(x, "look")
          /\ UNCHANGED <<world, readers, published, local, result, budget>>

\* Mutant: the directory is compared when it is found and not after it was read.
SameDirectory_FirstOnly(x) == pc[x] = "look" => Id(output) = identity[x]

\* A comparison is still about the directory it began with.
SameDirectory(x) == Id(output) = identity[x]

\* A published tree is verified and read; equal means nothing to do.
Look(x) ==
    /\ pc[x] = "look"
    /\ \/ call[x].mode = "compare" /\ ~SameDirectory(x) /\ Fails(x)
       \/ /\ call[x].mode = "compare" => SameDirectory(x)
          /\ Goto(x, CASE output = None -> "new"
                      [] output # None /\ output.corpus = temp[x] -> "equal"
                      [] OTHER -> "differs")
          /\ UNCHANGED <<world, locks, published, local, result, budget>>

Unchanged(x) ==
    /\ pc[x] = "equal"
    /\ \/ call[x].mode = "compare" /\ ~SameDirectory(x) /\ Fails(x)
       \/ /\ call[x].mode = "compare" => SameDirectory(x)
          /\ Leave(x, "unchanged") /\ UNCHANGED <<published, faults, crashed>>

Differs(x) ==
    /\ pc[x] = "differs"
    /\ \/ (call[x].mode # "replace" \/ backup # None) /\ Fails(x)
       \/ /\ call[x].mode = "replace" /\ backup = None
          /\ Goto(x, "aside")
          /\ UNCHANGED <<world, locks, published, local, result, budget>>

\* os.replace moves a directory onto nothing or onto an empty directory.
Vacant(tree) == tree \in {None, Emptied}

MoveAside(x) ==
    /\ pc[x] = "aside"
    /\ \/ (output = None \/ ~Vacant(backup)) /\ Fails(x)
       \/ /\ output # None /\ Vacant(backup)
          /\ backup' = output /\ output' = None /\ Goto(x, "in")
          /\ UNCHANGED <<world, locks, trees, local, result, budget>>

\* The code tells trees by st_dev and st_ino.  Each gets an id of its own here; that a
\* file system gives a purged backup's inode to a later tree is not modelled.
NewTree(x) == [id |-> trees + 1, corpus |-> temp[x]]

\* The new tree takes the free place; the old one is deleted next.
Install(x) ==
    /\ pc[x] = "in"
    /\ \/ /\ output = None
          /\ output' = NewTree(x) /\ trees' = trees + 1
          /\ Goto(x, "purge") /\ UNCHANGED <<backup, faults>>
       \/ /\ output # None
          /\ Goto(x, "restore") /\ UNCHANGED <<published, faults>>
       \/ /\ faults < MaxFaults /\ faults' = faults + 1
          /\ Goto(x, "restore") /\ UNCHANGED published
    /\ UNCHANGED <<world, locks, local, result, calls, crashed>>

\* Mutant: a failed rename is only reported.
Restore_Never(x) == pc[x] = "restore" /\ Fails(x)

\* The old tree goes back if its place is still free.
Restore(x) ==
    /\ pc[x] = "restore"
    /\ \/ output # None /\ Fails(x)
       \/ /\ output = None /\ output' = backup /\ backup' = None
          /\ Leave(x, "error") /\ UNCHANGED <<trees, faults, crashed>>

\* rmtree(backup): the entries, then the directory.  It may stop half way; what is
\* left counts as no entry at all, so nothing relies on a tree deleted in part.
Purge(x) ==
    /\ pc[x] = "purge"
    /\ backup' = Emptied
    /\ \/ Goto(x, "rmdir") /\ UNCHANGED <<world, locks, local, result, budget>>
       \/ faults < MaxFaults /\ faults' = faults + 1 /\ Leave(x, "error") /\ UNCHANGED crashed
    /\ UNCHANGED <<output, trees>>

Rmdir(x) ==
    /\ pc[x] = "rmdir"
    /\ \/ backup # Emptied /\ Fails(x)
       \/ /\ backup = Emptied /\ backup' = None
          /\ Leave(x, "changed") /\ UNCHANGED <<output, trees, faults, crashed>>

\* Nothing was published when the export looked.
InstallNew(x) ==
    /\ pc[x] = "new"
    /\ \/ output # None /\ Fails(x)
       \/ /\ output = None
          /\ output' = NewTree(x) /\ trees' = trees + 1
          /\ Leave(x, "changed") /\ UNCHANGED <<backup, faults, crashed>>

\* A source that fails its checks, an unreadable or an unsafe file: wherever it is
\* found, nothing has been published yet.
ExportFails(x) ==
    /\ pc[x] = "runs"
    /\ faults < MaxFaults /\ faults' = faults + 1
    /\ Leave(x, "error") /\ UNCHANGED <<published, crashed>>

Crash(x) ==
    /\ pc[x] # "idle" /\ faults < MaxFaults
    /\ faults' = faults + 1 /\ crashed' = TRUE
    /\ Leave(x, "crashed") /\ UNCHANGED published

Step(x) ==
    /\ \/ _hold_autoresearch_source_locks(x)
       \/ _autoresearch_sources(x) \/ _export_runs(x) \/ ExportHarbor(x) \/ Close(x)
       \/ Look(x) \/ Unchanged(x) \/ Differs(x)
       \/ MoveAside(x) \/ Install(x) \/ Restore(x) \/ Purge(x) \/ Rmdir(x)
       \/ InstallNew(x)
    /\ Observe

Next ==
    \/ World
    \/ \E x \in Exporters : Step(x)
    \/ \E x \in Exporters : (Invoke(x) \/ ExportFails(x) \/ Crash(x)) /\ Observe

\* An export that has begun goes on; nothing is assumed of anybody else.
Fairness == \A x \in Exporters : WF_vars(Step(x))
Spec == Init /\ [][Next]_vars /\ Fairness

-----------------------------------------------------------------------------
TypeOK ==
    /\ src \in Sources /\ running \in BOOLEAN /\ crashed \in BOOLEAN
    /\ readers \subseteq Exporters /\ sharers \subseteq Exporters
    /\ owner \in Exporters \cup {"controller", None}
    /\ output \in Tree \cup {None} /\ backup \in Tree \cup {None, Emptied}
    /\ pc \in [Exporters -> Pcs] /\ call \in [Exporters -> Call]
    /\ topology \in [Exporters -> 0 .. MaxDirs]
    /\ temp \in [Exporters -> Corpus]
    /\ identity \in [Exporters -> Nat] /\ reused \in [Exporters -> Nat]
    /\ window \in [Exporters -> SUBSET Sources]
    /\ result \in {"none", "error", "unchanged", "changed", "crashed"}
    /\ trees \in Nat /\ calls \in 0 .. MaxCalls /\ faults \in 0 .. MaxFaults

\* What is published is one consistent state of the sources, and one that was
\* current while its export ran: no mixture of two states of a run, a campaign
\* and the campaign set, whatever starts or is planned meanwhile
\* (_hold_autoresearch_source_locks, _export_evidence_locked).
PublishedIsSnapshot ==
    [][\A x \in Exporters :
          pc[x] \in {"in", "new"} /\ trees' # trees /\ pc'[x] # pc[x] =>
              /\ output'.corpus.src \in window[x]
              /\ output'.corpus.cells = output'.corpus.src.campaign]_vars

\* No failure, race or crash leaves the workspace without a whole corpus once
\* there was one: it is in the output or, after a crash between the two renames,
\* in the backup; and without such a crash the output itself is there whenever
\* nobody is between the renames.
Swapping == \E x \in Exporters : pc[x] \in {"in", "restore"}
EvidenceKept ==
    /\ TypeOK
    /\ trees > 0 => /\ output # None \/ ~Vacant(backup)
                    /\ ~crashed /\ ~Swapping => output # None

\* A Harbor campaign that was published survives a replacement although the
\* raw results are no longer given, if it was in the tree that the export looked in
\* and moved aside: another export may publish in between.
HarborKept ==
    [][\A x \in Exporters :
          pc[x] = "in" /\ pc'[x] = "purge" /\ reused[x] = Id(backup) =>
              (backup.corpus.harbor => output'.corpus.harbor)]_vars

\* A comparison never touches the published tree, and if it answers that nothing
\* changed then the tree that is there now is the one it began with, as far as its
\* inode tells, and shows a state the sources had since.
CompareTruthful ==
    [][\A x \in Exporters :
          call[x].mode = "compare" /\ pc'[x] # pc[x] =>
              /\ UNCHANGED published
              /\ pc[x] = "equal" /\ result' = "unchanged" =>
                     /\ Id(output) = identity[x]
                     /\ output.corpus.src \in window[x]]_vars

\* What an export says of a tree is so: a replacement publishes a snapshot and
\* keeps what it cannot rebuild, and a comparison is about one tree.
ExportSound == PublishedIsSnapshot /\ HarborKept /\ CompareTruthful

\* Every export comes to an end: nobody waits for a lock, also not for one that
\* the process holds itself.
ExportEnds == \A x \in Exporters : pc[x] # "idle" ~> pc[x] = "idle"

\* "It proves the completed pair, journal prefix, evidence tree": a checkpoint
\* that is alone and whose evidence is current is not refused.
CheckpointProves ==
    [][\A x \in Exporters :
          /\ call[x].held /\ result' = "error" /\ pc[x] # "idle" /\ faults' = faults
          /\ ~running /\ \A y \in Exporters \ {x} : pc[y] = "idle"
          => output = None \/ output.corpus.src # src]_vars
=============================================================================
