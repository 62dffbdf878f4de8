-------------------------- MODULE PublicationProofs --------------------------
(***************************************************************************)
(* Theorems about Publication for any number of exporters, calls, versions   *)
(* of the sources, failures and crashes: no corpus is lost, and what an      *)
(* export says of a tree is so.                                             *)
(***************************************************************************)
EXTENDS Publication, TLAPS

(***************************************************************************)
(* The inductive invariant.                                                 *)
(***************************************************************************)

\* The exporter between the two renames, or deleting what it moved aside.
Busy(x) == pc[x] \in {"in", "restore", "purge"}

\* It is alone there, and the backup is the tree it moved; a new tree is in place
\* when the old one is deleted.
SwapInv ==
    /\ \A x \in Exporters : Busy(x) => backup \in Tree
    /\ \A x, y \in Exporters : Busy(x) /\ Busy(y) => x = y
    /\ \A x \in Exporters : pc[x] = "purge" => output # None

\* A corpus is somewhere.
KeptInv ==
    trees > 0 => /\ output # None \/ ~Vacant(backup)
                 /\ ~crashed /\ ~Swapping => output # None

\* Every tree has an inode of its own that was given out before.
IdInv ==
    /\ output # None => output.id \in 1 .. trees
    /\ backup \in Tree => backup.id \in 1 .. trees
    /\ output # None /\ backup \in Tree => output.id # backup.id

\* Who holds which lock: runs exclude exports, the controller excludes those that
\* found its campaign; and there is room for what they write.
Reading == {"sources", "runs", "harbor", "close"}
LockInv ==
    /\ \A x \in Exporters : pc[x] # "idle" => x \in readers
    /\ running => readers = {} /\ src.runs < MaxVersion
    /\ owner = "controller" => sharers = {} /\ src.dirs > 0 /\ src.campaign < MaxVersion
    /\ \A x \in Exporters : pc[x] \in Reading =>
          topology[x] <= src.dirs /\ (topology[x] > 0 => x \in sharers)

\* What an export has read is the state the sources are in, as long as no campaign
\* was planned since; after the last check it is one they were in.
Chosen == {"look", "equal", "differs", "aside", "in", "restore", "new"}
ReadInv ==
    \A x \in Exporters :
      /\ pc[x] # "idle" => src \in window[x]
      /\ pc[x] \in {"runs", "harbor", "close"} /\ src.dirs = topology[x] =>
           temp[x].src.campaign = src.campaign /\ temp[x].src.dirs = src.dirs
      /\ pc[x] \in {"harbor", "close"} /\ src.dirs = topology[x] =>
           temp[x].src.runs = src.runs /\ temp[x].cells = src.campaign
      /\ pc[x] \in Chosen =>
           temp[x].src \in window[x] /\ temp[x].cells = temp[x].src.campaign

\* The Harbor campaign of the tree an export looked in is in the tree it built.
HarborInv ==
    \A x \in Exporters : pc[x] \in {"close"} \cup Chosen =>
      /\ reused[x] \in 0 .. trees
      /\ output # None /\ output.id = reused[x] =>
           (output.corpus.harbor => temp[x].harbor)
      /\ backup \in Tree /\ backup.id = reused[x] =>
           (backup.corpus.harbor => temp[x].harbor)

\* A comparison has a tree in mind, never gets as far as a rename, and once it found
\* that tree equal the tree stays so.
CompareInv ==
    \A x \in Exporters : call[x].mode = "compare" =>
      /\ pc[x] \notin {"aside", "in", "restore", "purge", "rmdir", "new"}
      /\ pc[x] \in Reading \cup {"look", "equal", "differs"} =>
           identity[x] \in 1 .. trees
      /\ pc[x] = "equal" =>
           /\ output # None /\ output.id = identity[x] => output.corpus = temp[x]
           /\ backup \in Tree /\ backup.id = identity[x] => backup.corpus = temp[x]

IInv == /\ TypeOK /\ SwapInv /\ KeptInv /\ IdInv
        /\ LockInv /\ ReadInv /\ HarborInv /\ CompareInv

(***************************************************************************)
(* Types.                                                                   *)
(***************************************************************************)

\* Nothing that is no tree is taken for one.
LEMMA NoTree ==
    /\ None \notin Tree /\ None # Emptied /\ Emptied \notin Tree
    /\ None \notin Exporters /\ "controller" \notin Exporters /\ None # "controller"
    /\ \A tree : Vacant(tree) <=> tree = None \/ tree = Emptied
BY NoneAssumption, PublicationAssumption DEF Emptied, Tree, Vacant

\* What is written into a record belongs there.
LEMMA Records ==
    /\ Blank \in Corpus /\ NoCall \in Call
    /\ \A s \in Sources :
         /\ s.runs < MaxVersion => [s EXCEPT !.runs = @ + 1] \in Sources
         /\ s.campaign < MaxVersion => [s EXCEPT !.campaign = @ + 1] \in Sources
         /\ s.dirs < MaxDirs => [s EXCEPT !.dirs = @ + 1] \in Sources
         /\ s.dirs \in 0 .. MaxDirs
    /\ \A tree \in Tree \cup {None} : Id(tree) \in Nat
    /\ \A n \in Nat, c \in Corpus : [id |-> n, corpus |-> c] \in Tree
<1> USE PublicationAssumption
<1>1. Blank \in Corpus /\ NoCall \in Call
  BY DEF Blank, Corpus, Sources, NoCall, Call
<1>2. ASSUME NEW s \in Sources
      PROVE  /\ s.runs < MaxVersion => [s EXCEPT !.runs = @ + 1] \in Sources
             /\ s.campaign < MaxVersion => [s EXCEPT !.campaign = @ + 1] \in Sources
             /\ s.dirs < MaxDirs => [s EXCEPT !.dirs = @ + 1] \in Sources
             /\ s.dirs \in 0 .. MaxDirs
  BY DEF Sources
<1>3. \A tree \in Tree \cup {None} : Id(tree) \in Nat
  BY NoTree DEF Id, Tree
<1>4. \A n \in Nat, c \in Corpus : [id |-> n, corpus |-> c] \in Tree
  BY DEF Tree
<1> QED BY <1>1, <1>2, <1>3, <1>4

\* The trees that an export is building.
LEMMA TempTypes ==
    ASSUME TypeOK, NEW x \in Exporters
    PROVE  /\ [temp[x] EXCEPT !.src.runs = src.runs, !.cells = src.campaign] \in Corpus
           /\ \A b \in BOOLEAN : [temp[x] EXCEPT !.harbor = b] \in Corpus
<1>1. temp[x] \in Corpus /\ src \in Sources BY DEF TypeOK
<1> QED BY <1>1 DEF Corpus, Sources

\* All but the window.
TypeOK1 ==
    /\ src \in Sources /\ running \in BOOLEAN /\ crashed \in BOOLEAN
    /\ readers \subseteq Exporters /\ sharers \subseteq Exporters
    /\ owner \in Exporters \cup {"controller", None}
    /\ output \in Tree \cup {None} /\ backup \in Tree \cup {None, Emptied}
    /\ pc \in [Exporters -> Pcs] /\ call \in [Exporters -> Call]
    /\ topology \in [Exporters -> 0 .. MaxDirs]
    /\ temp \in [Exporters -> Corpus]
    /\ identity \in [Exporters -> Nat] /\ reused \in [Exporters -> Nat]
    /\ result \in {"none", "error", "unchanged", "changed", "crashed"}
    /\ trees \in Nat /\ calls \in 0 .. MaxCalls /\ faults \in 0 .. MaxFaults

LEMMA TypeSplit == TypeOK <=> TypeOK1 /\ window \in [Exporters -> SUBSET Sources]
BY DEF TypeOK, TypeOK1

\* An export that ends leaves nothing behind but the trees.
LEMMA LeaveTypes ==
    ASSUME TypeOK1, NEW x \in Exporters,
           NEW why \in {"none", "error", "unchanged", "changed", "crashed"}, Leave(x, why),
           output' \in Tree \cup {None}, backup' \in Tree \cup {None, Emptied},
           trees' \in Nat, faults' \in 0 .. MaxFaults, crashed' \in BOOLEAN
    PROVE  TypeOK1'
BY Records, PublicationAssumption DEF TypeOK1, Leave, Pcs

LEMMA TypeStep1 == ASSUME TypeOK, SwapInv, LockInv, [Next]_vars PROVE TypeOK1'
<1> USE PublicationAssumption DEF Goto
<1>a. TypeOK1 BY TypeSplit
<1>1. CASE World
  <2> USE <1>a, Records DEF TypeOK1, locks, published, local, budget
  <2>1. CASE RunBegins BY <2>1 DEF RunBegins
  <2>2. CASE RunEnds BY <2>2 DEF RunEnds, LockInv
  <2>3. CASE ControllerBegins BY <2>3 DEF ControllerBegins
  <2>4. CASE ControllerEnds BY <2>4 DEF ControllerEnds, LockInv
  <2>5. CASE PlanCampaign BY <2>5 DEF PlanCampaign
  <2> QED BY <1>1, <2>1, <2>2, <2>3, <2>4, <2>5 DEF World
<1>2. ASSUME NEW x \in Exporters, Invoke(x) PROVE TypeOK1'
  BY <1>2, <1>a DEF TypeOK1, Invoke, published, Pcs
<1>3. ASSUME NEW x \in Exporters, Fails(x) PROVE TypeOK1'
  BY <1>3, <1>a, LeaveTypes DEF TypeOK1, Fails, published
<1>4. ASSUME NEW x \in Exporters, _hold_autoresearch_source_locks(x) PROVE TypeOK1'
  <2>1. src.dirs \in 0 .. MaxDirs /\ Id(output) \in Nat BY <1>a, Records DEF TypeOK1
  <2>2. CASE /\ sharers' = IF src.dirs > 0 THEN sharers \cup {x} ELSE sharers
             /\ topology' = [topology EXCEPT ![x] = src.dirs]
             /\ Prepare(x) /\ Goto(x, "sources")
             /\ UNCHANGED <<world, readers, published, call, temp, reused, result, budget>>
    BY <2>1, <2>2, <1>a DEF TypeOK1, Prepare, Pcs, world, published, budget
  <2> QED BY <1>3, <1>4, <2>2 DEF _hold_autoresearch_source_locks
<1>5. ASSUME NEW x \in Exporters, _autoresearch_sources(x) PROVE TypeOK1'
  <2>1. CASE /\ temp' = [temp EXCEPT ![x].src.campaign = src.campaign,
                                     ![x].src.dirs = src.dirs]
             /\ Goto(x, "runs")
             /\ UNCHANGED <<world, locks, published, call, topology, identity, reused,
                            result, budget>>
    <3> DEFINE half == [temp EXCEPT ![x].src.campaign = src.campaign]
    <3>a. half \in [Exporters -> Corpus]
      <4>1. temp \in [Exporters -> Corpus] /\ temp[x] \in Corpus /\ src \in Sources
        BY <1>a DEF TypeOK1
      <4>2. [temp[x] EXCEPT !.src.campaign = src.campaign] \in Corpus
        BY <4>1 DEF Corpus, Sources
      <4> QED BY <4>1, <4>2
    <3>b. temp' = [half EXCEPT ![x].src.dirs = src.dirs]
      BY <2>1, <1>a DEF TypeOK1, Corpus, Sources
    <3>c. src.dirs \in 0 .. MaxDirs BY <1>a, Records DEF TypeOK1
    <3> HIDE DEF half
    <3>1. temp' \in [Exporters -> Corpus]
      BY <3>a, <3>b, <3>c DEF Corpus, Sources
    <3> QED BY <2>1, <3>1, <1>a DEF TypeOK1, Pcs, world, locks, published, budget
  <2> QED BY <1>3, <1>5, <2>1 DEF _autoresearch_sources
<1>6. ASSUME NEW x \in Exporters, _export_runs(x) PROVE TypeOK1'
  BY <1>6, <1>a, TempTypes DEF TypeOK1, _export_runs, Pcs, world, locks, published, budget
<1>7. ASSUME NEW x \in Exporters, ExportHarbor(x) PROVE TypeOK1'
  <2>1. _export_harbor(x) \in BOOLEAN
    <3>1. call[x] \in Call BY <1>7, <1>a DEF TypeOK1
    <3>2. output # None => output.corpus.harbor \in BOOLEAN
      BY <1>a DEF TypeOK1, Tree, Corpus
    <3> QED BY <3>1, <3>2 DEF _export_harbor, Call
  <2> QED BY <1>7, <1>a, <2>1, TempTypes, Records, ZenonT(60)
         DEF TypeOK1, ExportHarbor, Pcs, world,
             locks, published, budget
<1>8. ASSUME NEW x \in Exporters, Close(x) \/ Look(x) \/ Differs(x) PROVE TypeOK1'
  BY <1>3, <1>8, <1>a DEF TypeOK1, Close, Look, Differs, Pcs, world, locks, published,
       local, budget
<1>9. ASSUME NEW x \in Exporters, Unchanged(x) PROVE TypeOK1'
  BY <1>3, <1>9, <1>a, LeaveTypes DEF TypeOK1, Unchanged, published
<1>10. ASSUME NEW x \in Exporters, MoveAside(x) PROVE TypeOK1'
  BY <1>3, <1>10, <1>a DEF TypeOK1, MoveAside, Pcs, world, locks, local, budget
<1>11. ASSUME NEW x \in Exporters PROVE NewTree(x) \in Tree
  BY <1>11, <1>a, Records, SMTT(30) DEF TypeOK1, NewTree
<1>12. ASSUME NEW x \in Exporters, Install(x) PROVE TypeOK1'
  BY <1>12, <1>11, <1>a DEF TypeOK1, Install, Pcs, world, locks, local, published
<1>13. ASSUME NEW x \in Exporters, Restore(x) PROVE TypeOK1'
  <2>1. CASE output = None /\ output' = backup /\ backup' = None /\ Leave(x, "error")
             /\ UNCHANGED <<trees, faults, crashed>>
    BY <1>13, <1>a, <2>1, LeaveTypes DEF TypeOK1, Restore, SwapInv, Busy
  <2> QED BY <1>13, <1>3, <2>1 DEF Restore
<1>14. ASSUME NEW x \in Exporters, Purge(x) PROVE TypeOK1'
  <2>1. CASE Goto(x, "rmdir") /\ UNCHANGED <<world, locks, local, result, budget>>
    BY <1>14, <1>a, <2>1 DEF TypeOK1, Purge, Pcs, world, locks, local, budget
  <2>2. CASE faults < MaxFaults /\ faults' = faults + 1 /\ Leave(x, "error")
             /\ UNCHANGED crashed
    BY <1>14, <1>a, <2>2, LeaveTypes DEF TypeOK1, Purge
  <2> QED BY <1>14, <2>1, <2>2 DEF Purge
<1>15. ASSUME NEW x \in Exporters, Rmdir(x) PROVE TypeOK1'
  BY <1>3, <1>15, <1>a, LeaveTypes DEF TypeOK1, Rmdir
<1>16. ASSUME NEW x \in Exporters, InstallNew(x) PROVE TypeOK1'
  BY <1>3, <1>16, <1>11, <1>a, LeaveTypes DEF TypeOK1, InstallNew
<1>17. ASSUME NEW x \in Exporters, ExportFails(x) \/ Crash(x) PROVE TypeOK1'
  <2>1. /\ \E why \in {"error", "crashed"} : Leave(x, why)
        /\ UNCHANGED published /\ crashed' \in BOOLEAN
        /\ faults < MaxFaults /\ faults' = faults + 1
    BY <1>17, <1>a DEF TypeOK1, ExportFails, Crash
  <2>2. faults' \in 0 .. MaxFaults BY <2>1, <1>a DEF TypeOK1
  <2> QED BY <2>1, <2>2, <1>a, LeaveTypes DEF TypeOK1, published
<1>18. CASE UNCHANGED vars BY <1>18, <1>a DEF TypeOK1, vars
<1> QED BY <1>1, <1>2, <1>4, <1>5, <1>6, <1>7, <1>8, <1>9, <1>10, <1>12, <1>13, <1>14,
           <1>15, <1>16, <1>17, <1>18 DEF Next, Step

LEMMA TypeStep == ASSUME TypeOK, SwapInv, LockInv, [Next]_vars PROVE TypeOK'
<1>1. TypeOK1' BY TypeStep1
<1>2. CASE Observe
  <2>1. src' \in Sources BY <1>1 DEF TypeOK1
  <2> QED BY <1>1, <1>2, <2>1 DEF TypeOK, TypeOK1, Observe
<1>3. CASE UNCHANGED vars BY <1>1, <1>3 DEF TypeOK, TypeOK1, vars
<1> QED BY <1>2, <1>3 DEF Next, World, Step

(***************************************************************************)
(* Steps.                                                                   *)
(***************************************************************************)

\* The tree that an export puts in place is one, with an inode nobody has.
LEMMA NewTrees ==
    ASSUME TypeOK, NEW x \in Exporters
    PROVE  /\ NewTree(x) \in Tree /\ NewTree(x) # None
           /\ NewTree(x).id = trees + 1 /\ NewTree(x).corpus = temp[x]
BY Records, NoTree, SMTT(30) DEF TypeOK, NewTree

\* A backup is only taken for a tree's new place when nothing whole is there.
LEMMA SwapStep ==
    ASSUME IInv, [Next]_vars PROVE SwapInv'
<1> USE NoTree DEF TypeOK, Leave, Goto, world, locks, published, local, budget, IInv,
       SwapInv, Busy
<1>1. CASE World
  BY <1>1 DEF World, RunBegins, RunEnds, ControllerBegins, ControllerEnds,
       PlanCampaign
<1>2. ASSUME NEW x \in Exporters, Invoke(x), Observe PROVE SwapInv'
  BY <1>2 DEF Invoke
<1>3. ASSUME NEW x \in Exporters, _hold_autoresearch_source_locks(x), Observe PROVE SwapInv'
  BY <1>3 DEF _hold_autoresearch_source_locks, Prepare, Fails
<1>4. ASSUME NEW x \in Exporters, _autoresearch_sources(x), Observe PROVE SwapInv'
  BY <1>4 DEF _autoresearch_sources, Fails, _validate_autoresearch_source_topology
<1>5. ASSUME NEW x \in Exporters, _export_runs(x), Observe PROVE SwapInv'
  BY <1>5 DEF _export_runs
<1>6. ASSUME NEW x \in Exporters, ExportHarbor(x), Observe PROVE SwapInv'
  BY <1>6 DEF ExportHarbor
<1>7. ASSUME NEW x \in Exporters, Close(x), Observe PROVE SwapInv'
  BY <1>7 DEF Close, Fails, _validate_autoresearch_source_topology
<1>8. ASSUME NEW x \in Exporters, Look(x), Observe PROVE SwapInv'
  BY <1>8 DEF Look, Fails, SameDirectory
<1>9. ASSUME NEW x \in Exporters, Unchanged(x), Observe PROVE SwapInv'
  BY <1>9 DEF Unchanged, Fails, SameDirectory
<1>10. ASSUME NEW x \in Exporters, Differs(x), Observe PROVE SwapInv'
  BY <1>10 DEF Differs, Fails
<1>11. ASSUME NEW x \in Exporters, MoveAside(x), Observe PROVE SwapInv'
  BY <1>11 DEF MoveAside, Fails
<1>12. ASSUME NEW x \in Exporters, Install(x), Observe PROVE SwapInv'
  BY <1>12, NewTrees DEF Install
<1>13. ASSUME NEW x \in Exporters, Restore(x), Observe PROVE SwapInv'
  BY <1>13 DEF Restore, Fails
<1>14. ASSUME NEW x \in Exporters, Purge(x), Observe PROVE SwapInv'
  BY <1>14 DEF Purge
<1>15. ASSUME NEW x \in Exporters, Rmdir(x), Observe PROVE SwapInv'
  BY <1>15 DEF Rmdir, Fails
<1>16. ASSUME NEW x \in Exporters, InstallNew(x), Observe PROVE SwapInv'
  BY <1>16, NewTrees DEF InstallNew, Fails
<1>17. ASSUME NEW x \in Exporters, ExportFails(x), Observe PROVE SwapInv'
  BY <1>17 DEF ExportFails
<1>18. ASSUME NEW x \in Exporters, Crash(x), Observe PROVE SwapInv'
  BY <1>18 DEF Crash
<1>19. CASE UNCHANGED vars BY <1>19 DEF vars
<1> QED BY <1>1, <1>2, <1>3, <1>4, <1>5, <1>6, <1>7, <1>8, <1>9,
           <1>10, <1>11, <1>12, <1>13, <1>14, <1>15, <1>16, <1>17, <1>18, <1>19
       DEF Next, Step

\* A corpus moves from the output to the backup, or from there back.
LEMMA KeptStep ==
    ASSUME IInv, [Next]_vars PROVE KeptInv'
<1> USE NoTree DEF TypeOK, Leave, Goto, world, locks, published, local, budget, IInv,
       SwapInv, Busy, KeptInv, Swapping
<1>1. CASE World
  BY <1>1 DEF World, RunBegins, RunEnds, ControllerBegins, ControllerEnds,
       PlanCampaign
<1>2. ASSUME NEW x \in Exporters, Invoke(x), Observe PROVE KeptInv'
  BY <1>2 DEF Invoke
<1>3. ASSUME NEW x \in Exporters, _hold_autoresearch_source_locks(x), Observe PROVE KeptInv'
  BY <1>3 DEF _hold_autoresearch_source_locks, Prepare, Fails
<1>4. ASSUME NEW x \in Exporters, _autoresearch_sources(x), Observe PROVE KeptInv'
  BY <1>4 DEF _autoresearch_sources, Fails, _validate_autoresearch_source_topology
<1>5. ASSUME NEW x \in Exporters, _export_runs(x), Observe PROVE KeptInv'
  BY <1>5 DEF _export_runs
<1>6. ASSUME NEW x \in Exporters, ExportHarbor(x), Observe PROVE KeptInv'
  BY <1>6 DEF ExportHarbor
<1>7. ASSUME NEW x \in Exporters, Close(x), Observe PROVE KeptInv'
  BY <1>7 DEF Close, Fails, _validate_autoresearch_source_topology
<1>8. ASSUME NEW x \in Exporters, Look(x), Observe PROVE KeptInv'
  BY <1>8 DEF Look, Fails, SameDirectory
<1>9. ASSUME NEW x \in Exporters, Unchanged(x), Observe PROVE KeptInv'
  BY <1>9 DEF Unchanged, Fails, SameDirectory
<1>10. ASSUME NEW x \in Exporters, Differs(x), Observe PROVE KeptInv'
  BY <1>10 DEF Differs, Fails
<1>11. ASSUME NEW x \in Exporters, MoveAside(x), Observe PROVE KeptInv'
  BY <1>11 DEF MoveAside, Fails
<1>12. ASSUME NEW x \in Exporters, Install(x), Observe PROVE KeptInv'
  BY <1>12, NewTrees DEF Install
<1>13. ASSUME NEW x \in Exporters, Restore(x), Observe PROVE KeptInv'
  BY <1>13 DEF Restore, Fails
<1>14. ASSUME NEW x \in Exporters, Purge(x), Observe PROVE KeptInv'
  BY <1>14 DEF Purge
<1>15. ASSUME NEW x \in Exporters, Rmdir(x), Observe PROVE KeptInv'
  BY <1>15 DEF Rmdir, Fails
<1>16. ASSUME NEW x \in Exporters, InstallNew(x), Observe PROVE KeptInv'
  BY <1>16, NewTrees DEF InstallNew, Fails
<1>17. ASSUME NEW x \in Exporters, ExportFails(x), Observe PROVE KeptInv'
  BY <1>17 DEF ExportFails
<1>18. ASSUME NEW x \in Exporters, Crash(x), Observe PROVE KeptInv'
  BY <1>18 DEF Crash
<1>19. CASE UNCHANGED vars BY <1>19 DEF vars
<1> QED BY <1>1, <1>2, <1>3, <1>4, <1>5, <1>6, <1>7, <1>8, <1>9,
           <1>10, <1>11, <1>12, <1>13, <1>14, <1>15, <1>16, <1>17, <1>18, <1>19
       DEF Next, Step

\* New inodes are new.
LEMMA IdStep ==
    ASSUME IInv, [Next]_vars PROVE IdInv'
<1> USE NoTree DEF TypeOK, Leave, Goto, world, locks, published, local, budget, IInv,
       SwapInv, Busy, IdInv
<1>1. CASE World
  BY <1>1 DEF World, RunBegins, RunEnds, ControllerBegins, ControllerEnds,
       PlanCampaign
<1>2. ASSUME NEW x \in Exporters, Invoke(x), Observe PROVE IdInv'
  BY <1>2 DEF Invoke
<1>3. ASSUME NEW x \in Exporters, _hold_autoresearch_source_locks(x), Observe PROVE IdInv'
  BY <1>3 DEF _hold_autoresearch_source_locks, Prepare, Fails
<1>4. ASSUME NEW x \in Exporters, _autoresearch_sources(x), Observe PROVE IdInv'
  BY <1>4 DEF _autoresearch_sources, Fails, _validate_autoresearch_source_topology
<1>5. ASSUME NEW x \in Exporters, _export_runs(x), Observe PROVE IdInv'
  BY <1>5 DEF _export_runs
<1>6. ASSUME NEW x \in Exporters, ExportHarbor(x), Observe PROVE IdInv'
  BY <1>6 DEF ExportHarbor
<1>7. ASSUME NEW x \in Exporters, Close(x), Observe PROVE IdInv'
  BY <1>7 DEF Close, Fails, _validate_autoresearch_source_topology
<1>8. ASSUME NEW x \in Exporters, Look(x), Observe PROVE IdInv'
  BY <1>8 DEF Look, Fails, SameDirectory
<1>9. ASSUME NEW x \in Exporters, Unchanged(x), Observe PROVE IdInv'
  BY <1>9 DEF Unchanged, Fails, SameDirectory
<1>10. ASSUME NEW x \in Exporters, Differs(x), Observe PROVE IdInv'
  BY <1>10 DEF Differs, Fails
<1>11. ASSUME NEW x \in Exporters, MoveAside(x), Observe PROVE IdInv'
  BY <1>11 DEF MoveAside, Fails
<1>12. ASSUME NEW x \in Exporters, Install(x), Observe PROVE IdInv'
  BY <1>12, NewTrees DEF Install
<1>13. ASSUME NEW x \in Exporters, Restore(x), Observe PROVE IdInv'
  BY <1>13 DEF Restore, Fails
<1>14. ASSUME NEW x \in Exporters, Purge(x), Observe PROVE IdInv'
  BY <1>14 DEF Purge
<1>15. ASSUME NEW x \in Exporters, Rmdir(x), Observe PROVE IdInv'
  BY <1>15 DEF Rmdir, Fails
<1>16. ASSUME NEW x \in Exporters, InstallNew(x), Observe PROVE IdInv'
  BY <1>16, NewTrees DEF InstallNew, Fails
<1>17. ASSUME NEW x \in Exporters, ExportFails(x), Observe PROVE IdInv'
  BY <1>17 DEF ExportFails
<1>18. ASSUME NEW x \in Exporters, Crash(x), Observe PROVE IdInv'
  BY <1>18 DEF Crash
<1>19. CASE UNCHANGED vars BY <1>19 DEF vars
<1> QED BY <1>1, <1>2, <1>3, <1>4, <1>5, <1>6, <1>7, <1>8, <1>9,
           <1>10, <1>11, <1>12, <1>13, <1>14, <1>15, <1>16, <1>17, <1>18, <1>19
       DEF Next, Step

\* Nobody gets a lock that excludes it.
LEMMA LockStep ==
    ASSUME IInv, [Next]_vars PROVE LockInv'
<1> USE NoTree DEF TypeOK, Leave, Goto, world, locks, published, local, budget, IInv,
       LockInv, Reading, Sources
<1>1. CASE World
  BY <1>1 DEF World, RunBegins, RunEnds, ControllerBegins, ControllerEnds,
       PlanCampaign
<1>2. ASSUME NEW x \in Exporters, Invoke(x), Observe PROVE LockInv'
  BY <1>2 DEF Invoke
<1>3. ASSUME NEW x \in Exporters, _hold_autoresearch_source_locks(x), Observe PROVE LockInv'
  BY <1>3 DEF _hold_autoresearch_source_locks, Prepare, Fails
<1>4. ASSUME NEW x \in Exporters, _autoresearch_sources(x), Observe PROVE LockInv'
  BY <1>4 DEF _autoresearch_sources, Fails, _validate_autoresearch_source_topology
<1>5. ASSUME NEW x \in Exporters, _export_runs(x), Observe PROVE LockInv'
  BY <1>5 DEF _export_runs
<1>6. ASSUME NEW x \in Exporters, ExportHarbor(x), Observe PROVE LockInv'
  BY <1>6 DEF ExportHarbor
<1>7. ASSUME NEW x \in Exporters, Close(x), Observe PROVE LockInv'
  BY <1>7 DEF Close, Fails, _validate_autoresearch_source_topology
<1>8. ASSUME NEW x \in Exporters, Look(x), Observe PROVE LockInv'
  BY <1>8 DEF Look, Fails, SameDirectory
<1>9. ASSUME NEW x \in Exporters, Unchanged(x), Observe PROVE LockInv'
  BY <1>9 DEF Unchanged, Fails, SameDirectory
<1>10. ASSUME NEW x \in Exporters, Differs(x), Observe PROVE LockInv'
  BY <1>10 DEF Differs, Fails
<1>11. ASSUME NEW x \in Exporters, MoveAside(x), Observe PROVE LockInv'
  BY <1>11 DEF MoveAside, Fails
<1>12. ASSUME NEW x \in Exporters, Install(x), Observe PROVE LockInv'
  BY <1>12 DEF Install
<1>13. ASSUME NEW x \in Exporters, Restore(x), Observe PROVE LockInv'
  BY <1>13 DEF Restore, Fails
<1>14. ASSUME NEW x \in Exporters, Purge(x), Observe PROVE LockInv'
  BY <1>14 DEF Purge
<1>15. ASSUME NEW x \in Exporters, Rmdir(x), Observe PROVE LockInv'
  BY <1>15 DEF Rmdir, Fails
<1>16. ASSUME NEW x \in Exporters, InstallNew(x), Observe PROVE LockInv'
  BY <1>16 DEF InstallNew, Fails
<1>17. ASSUME NEW x \in Exporters, ExportFails(x), Observe PROVE LockInv'
  BY <1>17 DEF ExportFails
<1>18. ASSUME NEW x \in Exporters, Crash(x), Observe PROVE LockInv'
  BY <1>18 DEF Crash
<1>19. CASE UNCHANGED vars BY <1>19 DEF vars
<1> QED BY <1>1, <1>2, <1>3, <1>4, <1>5, <1>6, <1>7, <1>8, <1>9,
           <1>10, <1>11, <1>12, <1>13, <1>14, <1>15, <1>16, <1>17, <1>18, <1>19
       DEF Next, Step

\* What was read stays what there is while it may not change.
LEMMA ReadStep ==
    ASSUME IInv, [Next]_vars PROVE ReadInv'
<1> USE NoTree DEF TypeOK, Leave, Goto, Observe, world, locks, published, local, budget, IInv,
       LockInv, ReadInv, Reading, Chosen, Sources, Corpus
<1>1. CASE World
  BY <1>1 DEF World, RunBegins, RunEnds, ControllerBegins, ControllerEnds,
       PlanCampaign
<1>2. ASSUME NEW x \in Exporters, Invoke(x), Observe PROVE ReadInv'
  BY <1>2 DEF Invoke
<1>3. ASSUME NEW x \in Exporters, _hold_autoresearch_source_locks(x), Observe PROVE ReadInv'
  <2>1. CASE Fails(x) BY <1>3, <2>1 DEF Fails
  <2>2. CASE Goto(x, "sources") /\ UNCHANGED <<world, temp>>
    <3>1. \A y \in Exporters : y # x => topology'[y] = topology[y]
      BY <1>3, <2>1 DEF _hold_autoresearch_source_locks, Fails
    <3> QED BY <1>3, <2>2, <3>1 DEF _hold_autoresearch_source_locks
  <2> QED BY <1>3, <2>1, <2>2 DEF _hold_autoresearch_source_locks
<1>4. ASSUME NEW x \in Exporters, _autoresearch_sources(x), Observe PROVE ReadInv'
  BY <1>4 DEF _autoresearch_sources, Fails, _validate_autoresearch_source_topology
<1>5. ASSUME NEW x \in Exporters, _export_runs(x), Observe PROVE ReadInv'
  BY <1>5 DEF _export_runs
<1>6. ASSUME NEW x \in Exporters, ExportHarbor(x), Observe PROVE ReadInv'
  BY <1>6 DEF ExportHarbor
<1>7. ASSUME NEW x \in Exporters, Close(x), Observe PROVE ReadInv'
  <2>1. CASE Fails(x) BY <1>7, <2>1 DEF Fails
  <2>2. CASE src.dirs = topology[x] /\ Goto(x, "look") /\ UNCHANGED <<world, local>>
    <3>1. temp[x].src = src /\ temp[x].cells = temp[x].src.campaign
      <4>1. temp[x].src \in Sources /\ src \in Sources BY <1>7
      <4>2. /\ temp[x].src.runs = src.runs /\ temp[x].src.campaign = src.campaign
            /\ temp[x].src.dirs = src.dirs /\ temp[x].cells = src.campaign
        BY <1>7, <2>2 DEF Close
      <4>3. \A a, b \in Sources : /\ a.runs = b.runs /\ a.campaign = b.campaign
                                  /\ a.dirs = b.dirs
                                  => a = b
        BY DEF Sources
      <4> QED BY <4>1, <4>2, <4>3
    <3> QED BY <1>7, <2>2, <3>1 DEF Close
  <2> QED BY <1>7, <2>1, <2>2 DEF Close, _validate_autoresearch_source_topology
<1>8. ASSUME NEW x \in Exporters, Look(x), Observe PROVE ReadInv'
  BY <1>8 DEF Look, Fails, SameDirectory
<1>9. ASSUME NEW x \in Exporters, Unchanged(x), Observe PROVE ReadInv'
  BY <1>9 DEF Unchanged, Fails, SameDirectory
<1>10. ASSUME NEW x \in Exporters, Differs(x), Observe PROVE ReadInv'
  BY <1>10 DEF Differs, Fails
<1>11. ASSUME NEW x \in Exporters, MoveAside(x), Observe PROVE ReadInv'
  BY <1>11 DEF MoveAside, Fails
<1>12. ASSUME NEW x \in Exporters, Install(x), Observe PROVE ReadInv'
  BY <1>12 DEF Install
<1>13. ASSUME NEW x \in Exporters, Restore(x), Observe PROVE ReadInv'
  BY <1>13 DEF Restore, Fails
<1>14. ASSUME NEW x \in Exporters, Purge(x), Observe PROVE ReadInv'
  BY <1>14 DEF Purge
<1>15. ASSUME NEW x \in Exporters, Rmdir(x), Observe PROVE ReadInv'
  BY <1>15 DEF Rmdir, Fails
<1>16. ASSUME NEW x \in Exporters, InstallNew(x), Observe PROVE ReadInv'
  <2>1. \E why : Leave(x, why) BY <1>16 DEF InstallNew, Fails
  <2> QED BY <1>16, <2>1
<1>17. ASSUME NEW x \in Exporters, ExportFails(x), Observe PROVE ReadInv'
  BY <1>17 DEF ExportFails
<1>18. ASSUME NEW x \in Exporters, Crash(x), Observe PROVE ReadInv'
  BY <1>18 DEF Crash
<1>19. CASE UNCHANGED vars BY <1>19 DEF vars
<1> QED BY <1>1, <1>2, <1>3, <1>4, <1>5, <1>6, <1>7, <1>8, <1>9,
           <1>10, <1>11, <1>12, <1>13, <1>14, <1>15, <1>16, <1>17, <1>18, <1>19
       DEF Next, Step

\* The tree that was looked in keeps its inode wherever it is moved.
LEMMA HarborStep ==
    ASSUME IInv, [Next]_vars PROVE HarborInv'
<1> USE NoTree DEF TypeOK, Leave, Goto, world, locks, published, local, budget, IInv,
       SwapInv, Busy, IdInv, HarborInv, Chosen, Tree, Corpus
<1>1. CASE World
  BY <1>1 DEF World, RunBegins, RunEnds, ControllerBegins, ControllerEnds,
       PlanCampaign
<1>2. ASSUME NEW x \in Exporters, Invoke(x), Observe PROVE HarborInv'
  BY <1>2 DEF Invoke
<1>3. ASSUME NEW x \in Exporters, _hold_autoresearch_source_locks(x), Observe PROVE HarborInv'
  BY <1>3 DEF _hold_autoresearch_source_locks, Prepare, Fails
<1>4. ASSUME NEW x \in Exporters, _autoresearch_sources(x), Observe PROVE HarborInv'
  BY <1>4 DEF _autoresearch_sources, Fails, _validate_autoresearch_source_topology
<1>5. ASSUME NEW x \in Exporters, _export_runs(x), Observe PROVE HarborInv'
  BY <1>5 DEF _export_runs
<1>6. ASSUME NEW x \in Exporters, ExportHarbor(x), Observe PROVE HarborInv'
  BY <1>6 DEF ExportHarbor, _export_harbor, Id
<1>7. ASSUME NEW x \in Exporters, Close(x), Observe PROVE HarborInv'
  BY <1>7 DEF Close, Fails, _validate_autoresearch_source_topology
<1>8. ASSUME NEW x \in Exporters, Look(x), Observe PROVE HarborInv'
  BY <1>8 DEF Look, Fails, SameDirectory
<1>9. ASSUME NEW x \in Exporters, Unchanged(x), Observe PROVE HarborInv'
  BY <1>9 DEF Unchanged, Fails, SameDirectory
<1>10. ASSUME NEW x \in Exporters, Differs(x), Observe PROVE HarborInv'
  BY <1>10 DEF Differs, Fails
<1>11. ASSUME NEW x \in Exporters, MoveAside(x), Observe PROVE HarborInv'
  BY <1>11 DEF MoveAside, Fails
<1>12. ASSUME NEW x \in Exporters, Install(x), Observe PROVE HarborInv'
  BY <1>12, NewTrees DEF Install
<1>13. ASSUME NEW x \in Exporters, Restore(x), Observe PROVE HarborInv'
  BY <1>13 DEF Restore, Fails
<1>14. ASSUME NEW x \in Exporters, Purge(x), Observe PROVE HarborInv'
  BY <1>14 DEF Purge
<1>15. ASSUME NEW x \in Exporters, Rmdir(x), Observe PROVE HarborInv'
  BY <1>15 DEF Rmdir, Fails
<1>16. ASSUME NEW x \in Exporters, InstallNew(x), Observe PROVE HarborInv'
  BY <1>16, NewTrees DEF InstallNew, Fails
<1>17. ASSUME NEW x \in Exporters, ExportFails(x), Observe PROVE HarborInv'
  BY <1>17 DEF ExportFails
<1>18. ASSUME NEW x \in Exporters, Crash(x), Observe PROVE HarborInv'
  BY <1>18 DEF Crash
<1>19. CASE UNCHANGED vars BY <1>19 DEF vars
<1> QED BY <1>1, <1>2, <1>3, <1>4, <1>5, <1>6, <1>7, <1>8, <1>9,
           <1>10, <1>11, <1>12, <1>13, <1>14, <1>15, <1>16, <1>17, <1>18, <1>19
       DEF Next, Step

\* A comparison moves nothing, and the tree it read is not written to.
LEMMA CompareStep ==
    ASSUME IInv, [Next]_vars PROVE CompareInv'
<1> USE NoTree DEF TypeOK, Leave, Goto, world, locks, published, local, budget, IInv,
       SwapInv, Busy, IdInv, CompareInv, Reading, Call, NoCall
<1>1. CASE World
  BY <1>1 DEF World, RunBegins, RunEnds, ControllerBegins, ControllerEnds,
       PlanCampaign
<1>2. ASSUME NEW x \in Exporters, Invoke(x), Observe PROVE CompareInv'
  BY <1>2 DEF Invoke
<1>3. ASSUME NEW x \in Exporters, _hold_autoresearch_source_locks(x), Observe PROVE CompareInv'
  BY <1>3 DEF _hold_autoresearch_source_locks, Prepare, Fails, Id
<1>4. ASSUME NEW x \in Exporters, _autoresearch_sources(x), Observe PROVE CompareInv'
  BY <1>4, SMTT(30) DEF _autoresearch_sources, Fails, _validate_autoresearch_source_topology
<1>5. ASSUME NEW x \in Exporters, _export_runs(x), Observe PROVE CompareInv'
  BY <1>5 DEF _export_runs
<1>6. ASSUME NEW x \in Exporters, ExportHarbor(x), Observe PROVE CompareInv'
  BY <1>6 DEF ExportHarbor
<1>7. ASSUME NEW x \in Exporters, Close(x), Observe PROVE CompareInv'
  BY <1>7 DEF Close, Fails, _validate_autoresearch_source_topology
<1>8. ASSUME NEW x \in Exporters, Look(x), Observe PROVE CompareInv'
  BY <1>8 DEF Look, Fails, SameDirectory, Id
<1>9. ASSUME NEW x \in Exporters, Unchanged(x), Observe PROVE CompareInv'
  BY <1>9 DEF Unchanged, Fails, SameDirectory
<1>10. ASSUME NEW x \in Exporters, Differs(x), Observe PROVE CompareInv'
  BY <1>10, SMTT(30) DEF Differs, Fails
<1>11. ASSUME NEW x \in Exporters, MoveAside(x), Observe PROVE CompareInv'
  <2>1. CASE Fails(x)
    BY <2>1 DEF Fails
  <2>2. CASE /\ output # None /\ backup' = output /\ output' = None /\ Goto(x, "in")
             /\ UNCHANGED <<trees, local>>
    <3>1. call[x].mode # "compare"
      BY <1>11 DEF MoveAside
    <3> QED BY <2>2, <3>1
  <2> QED BY <1>11, <2>1, <2>2 DEF MoveAside
<1>12. ASSUME NEW x \in Exporters, Install(x), Observe PROVE CompareInv'
  BY <1>12, NewTrees DEF Install
<1>13. ASSUME NEW x \in Exporters, Restore(x), Observe PROVE CompareInv'
  BY <1>13 DEF Restore, Fails
<1>14. ASSUME NEW x \in Exporters, Purge(x), Observe PROVE CompareInv'
  BY <1>14 DEF Purge
<1>15. ASSUME NEW x \in Exporters, Rmdir(x), Observe PROVE CompareInv'
  BY <1>15 DEF Rmdir, Fails
<1>16. ASSUME NEW x \in Exporters, InstallNew(x), Observe PROVE CompareInv'
  BY <1>16, NewTrees DEF InstallNew, Fails
<1>17. ASSUME NEW x \in Exporters, ExportFails(x), Observe PROVE CompareInv'
  BY <1>17 DEF ExportFails
<1>18. ASSUME NEW x \in Exporters, Crash(x), Observe PROVE CompareInv'
  BY <1>18 DEF Crash
<1>19. CASE UNCHANGED vars BY <1>19 DEF vars
<1> QED BY <1>1, <1>2, <1>3, <1>4, <1>5, <1>6, <1>7, <1>8, <1>9,
           <1>10, <1>11, <1>12, <1>13, <1>14, <1>15, <1>16, <1>17, <1>18, <1>19
       DEF Next, Step

LEMMA InitInv == Init => IInv
<1> SUFFICES ASSUME Init PROVE IInv OBVIOUS
<1> USE PublicationAssumption DEF Init
<1>1. First \in Tree /\ First.id = 1 /\ First # None /\ First # Emptied
  <2>1. [Blank EXCEPT !.harbor = TRUE] \in Corpus BY Records DEF Corpus
  <2>2. First \in Tree /\ First.id = 1 BY <2>1, Records DEF First
  <2> QED BY <2>2, NoTree
<1>2. TypeOK
  <2>1. src \in Sources
    <3>1. First.corpus.src = [runs |-> 0, campaign |-> 0, dirs |-> 0]
      BY DEF First, Blank
    <3> QED BY <3>1 DEF Sources
  <2>2. Blank \in Corpus /\ NoCall \in Call BY Records
  <2>3. crashed \in BOOLEAN OBVIOUS
  <2>4. output \in Tree \cup {None} /\ backup \in Tree \cup {None, Emptied} /\ trees \in Nat
    BY <1>1
  <2>5. /\ pc \in [Exporters -> Pcs] /\ call \in [Exporters -> Call]
        /\ temp \in [Exporters -> Corpus]
    BY <2>2 DEF Pcs
  <2>6. /\ topology \in [Exporters -> 0 .. MaxDirs]
        /\ identity \in [Exporters -> Nat] /\ reused \in [Exporters -> Nat]
        /\ window \in [Exporters -> SUBSET Sources]
        /\ calls \in 0 .. MaxCalls /\ faults \in 0 .. MaxFaults
    OBVIOUS
  <2> QED BY <2>1, <2>3, <2>4, <2>5, <2>6 DEF TypeOK
<1>3. SwapInv /\ KeptInv /\ IdInv
  <2>1. \A x \in Exporters : pc[x] = "idle" OBVIOUS
  <2>2. SwapInv BY <2>1 DEF SwapInv, Busy
  <2>3. KeptInv
    <3>1. CASE trees = 0 BY <3>1 DEF KeptInv
    <3>2. CASE output = First BY <3>2, <1>1 DEF KeptInv
    <3>3. CASE backup = First
      <4>1. crashed BY <3>3, <1>1, Zenon
      <4> QED BY <3>3, <4>1, <1>1, NoTree DEF KeptInv
    <3> QED BY <3>1, <3>2, <3>3
  <2>4. IdInv BY <1>1, NoTree DEF IdInv
  <2> QED BY <2>2, <2>3, <2>4
<1>4. LockInv /\ ReadInv /\ HarborInv
  BY PublicationAssumption DEF LockInv, Reading, ReadInv, HarborInv, Chosen
<1>5. CompareInv BY DEF CompareInv, NoCall
<1> QED BY <1>2, <1>3, <1>4, <1>5 DEF IInv

\* Every state of every export satisfies the invariant, whatever runs, campaigns,
\* other exports, failures and crashes happen meanwhile.
THEOREM PublicationInvariant == Spec => []IInv
<1>1. ASSUME IInv, [Next]_vars PROVE IInv'
  <2>1. TypeOK' BY <1>1, TypeStep DEF IInv
  <2> QED BY <1>1, <2>1, SwapStep, KeptStep, IdStep, LockStep, ReadStep, HarborStep,
             CompareStep DEF IInv
<1> QED BY InitInv, <1>1, PTL DEF Spec

\* A whole corpus is always in the output or in the backup once there was one, and
\* in the output itself unless an export is between its renames or one crashed
\* (the two os.replace of _export_evidence_locked and its restore).
THEOREM PublicationKeepsEvidence == Spec => []EvidenceKept
<1>1. IInv => EvidenceKept BY DEF IInv, KeptInv, EvidenceKept
<1> QED BY <1>1, PublicationInvariant, PTL

\* The exporter that moves is the one whose program counter changes.
LEMMA Mover ==
    ASSUME TypeOK, [Next]_vars, NEW x \in Exporters, pc'[x] # pc[x]
    PROVE  Step(x) \/ Invoke(x) \/ ExportFails(x) \/ Crash(x)
<1> USE DEF TypeOK, Leave, Goto, Fails, world, locks, published, local, budget
<1>1. CASE World
  BY <1>1 DEF World, RunBegins, RunEnds, ControllerBegins, ControllerEnds, PlanCampaign
<1>2. ASSUME NEW y \in Exporters, Step(y) PROVE Step(x)
  <2>1. \E where : pc' = [pc EXCEPT ![y] = where]
    BY <1>2 DEF Step, _hold_autoresearch_source_locks, _autoresearch_sources, _export_runs,
       ExportHarbor, Close, Look, Unchanged, Differs, MoveAside, Install, Restore, Purge,
       Rmdir, InstallNew
  <2> QED BY <1>2, <2>1
<1>3. ASSUME NEW y \in Exporters, Invoke(y) \/ ExportFails(y) \/ Crash(y)
      PROVE  Invoke(x) \/ ExportFails(x) \/ Crash(x)
  <2>1. \E where : pc' = [pc EXCEPT ![y] = where]
    BY <1>3 DEF Invoke, ExportFails, Crash
  <2> QED BY <1>3, <2>1
<1> QED BY <1>1, <1>2, <1>3 DEF Next, vars

\* What is put in place is what was built.
LEMMA PlacedIsBuilt ==
    ASSUME IInv, [Next]_vars, NEW x \in Exporters,
           pc[x] \in {"in", "new"}, trees' # trees, pc'[x] # pc[x]
    PROVE  output' = NewTree(x)
BY Mover DEF IInv, Step, _hold_autoresearch_source_locks, _autoresearch_sources,
     _export_runs, ExportHarbor, Close, Look, Unchanged, Differs, MoveAside, Install,
     Restore, Purge, Rmdir, InstallNew, Invoke, ExportFails, Crash, Fails, published

\* What an export publishes is one state of the sources that was current while it
\* ran, a replaced Harbor campaign is kept, and a comparison moves nothing and is
\* about one tree (told by its id, which no other tree ever has).
THEOREM PublicationSound == Spec => ExportSound
<1>1. ASSUME IInv, [Next]_vars, NEW x \in Exporters,
             pc[x] \in {"in", "new"}, trees' # trees, pc'[x] # pc[x]
      PROVE  /\ output'.corpus.src \in window[x]
             /\ output'.corpus.cells = output'.corpus.src.campaign
  BY <1>1, PlacedIsBuilt, NewTrees DEF IInv, ReadInv, Chosen
<1>2. ASSUME IInv, [Next]_vars, NEW x \in Exporters,
             pc[x] = "in", pc'[x] = "purge", reused[x] = Id(backup), backup.corpus.harbor
      PROVE  output'.corpus.harbor
  <2>1. Install(x) /\ output' = NewTree(x)
    BY <1>2, Mover, ZenonT(60) DEF IInv, Step, _hold_autoresearch_source_locks, _autoresearch_sources,
       _export_runs, ExportHarbor, Close, Look, Unchanged, Differs, MoveAside, Install,
       Restore, Purge, Rmdir, InstallNew, Invoke, ExportFails, Crash, Fails, Leave, Goto,
       TypeOK
  <2>2. backup \in Tree BY <1>2 DEF IInv, SwapInv, Busy
  <2>3. Id(backup) = backup.id BY <2>2, NoTree DEF Id
  <2> QED BY <1>2, <2>1, <2>2, <2>3, NewTrees DEF IInv, HarborInv, Chosen
<1>3. ASSUME IInv, [Next]_vars, NEW x \in Exporters, call[x].mode = "compare",
             pc'[x] # pc[x]
      PROVE  /\ UNCHANGED published
             /\ pc[x] = "equal" /\ result' = "unchanged" =>
                    /\ Id(output) = identity[x]
                    /\ output.corpus.src \in window[x]
  <2>1. pc[x] \notin {"aside", "in", "restore", "purge", "rmdir", "new"}
    BY <1>3 DEF IInv, CompareInv
  <2>2. UNCHANGED published
    BY <1>3, <2>1, Mover DEF IInv, Step, _hold_autoresearch_source_locks,
       _autoresearch_sources, _export_runs, ExportHarbor, Close, Look, Unchanged, Differs,
       MoveAside, Install, Restore, Purge, Rmdir, InstallNew, Invoke, ExportFails, Crash,
       Fails, published
  <2>3. ASSUME pc[x] = "equal", result' = "unchanged"
        PROVE  Id(output) = identity[x] /\ output.corpus.src \in window[x]
    <3>1. Unchanged(x) /\ SameDirectory(x)
      BY <1>3, <2>3, Mover DEF IInv, Step, _hold_autoresearch_source_locks,
         _autoresearch_sources, _export_runs, ExportHarbor, Close, Look, Unchanged, Differs,
         MoveAside, Install, Restore, Purge, Rmdir, InstallNew, Invoke, ExportFails, Crash,
         Fails, Leave
    <3>2. output # None /\ output.id = identity[x]
      BY <1>3, <2>3, <3>1 DEF IInv, TypeOK, CompareInv, Reading, SameDirectory, Id
    <3>3. output.corpus = temp[x] BY <1>3, <2>3, <3>2 DEF IInv, CompareInv
    <3>4. temp[x].src \in window[x] BY <2>3, <1>3 DEF IInv, ReadInv, Chosen
    <3> QED BY <3>1, <3>3, <3>4 DEF SameDirectory
  <2> QED BY <2>2, <2>3
<1>4. ASSUME IInv, [Next]_vars
      PROVE  /\ [\A x \in Exporters :
                    pc[x] \in {"in", "new"} /\ trees' # trees /\ pc'[x] # pc[x] =>
                        /\ output'.corpus.src \in window[x]
                        /\ output'.corpus.cells = output'.corpus.src.campaign]_vars
             /\ [\A x \in Exporters :
                    pc[x] = "in" /\ pc'[x] = "purge" /\ reused[x] = Id(backup) =>
                        (backup.corpus.harbor => output'.corpus.harbor)]_vars
             /\ [\A x \in Exporters :
                    call[x].mode = "compare" /\ pc'[x] # pc[x] =>
                        /\ UNCHANGED published
                        /\ pc[x] = "equal" /\ result' = "unchanged" =>
                               /\ Id(output) = identity[x]
                               /\ output.corpus.src \in window[x]]_vars
  BY <1>4, <1>1, <1>2, <1>3
<1> QED BY <1>4, PublicationInvariant, PTL
        DEF Spec, ExportSound, PublishedIsSnapshot, HarborKept, CompareTruthful

==============================================================================
