---------------------------- MODULE CampaignProofs ----------------------------
(***************************************************************************)
(* Theorems about the controller, for any queue, policy, number of crashes *)
(* and clock.                                                              *)
(*                                                                         *)
(* First, what every history that the replay accepts is like.  QueueOrder  *)
(* and PairIndexesUnique are inductive given the types, PromotionConfirmed *)
(* is not: a score could be added to a candidate that is already promoted. *)
(* ActiveInv rules that out: an active candidate is one of the queue, and  *)
(* undecided or waiting for its confirmation.                              *)
(*                                                                         *)
(* Next, the program implements the replay machine: whatever it appends,   *)
(* in whatever order its invocations die and restart, is a history the     *)
(* replay accepts.  It is not a matter of the guards alone: the failure a  *)
(* terminal event reports must be one of the registered kinds (KindInv),   *)
(* and the arm a cell completes one of the two, which rests on the count   *)
(* of completed arms (ArmsInv).                                            *)
(*                                                                         *)
(* Then, what lies beside the journal agrees with it (CInv): the cells and *)
(* the worker, the calibration, the acknowledgement and the admissions.    *)
(* The order of launches, admissions and acknowledgements follows.         *)
(***************************************************************************)
EXTENDS Campaign, TLAPS

-----------------------------------------------------------------------------
(* The replay machine.                                                     *)

Active(s) == s.phase \in {"candidate", "pair", "scored"}

\* The candidate under test is in the queue and is not promoted.
ActiveInv ==
    Active(ctl) => ctl.cand \in Candidates /\ ctl.decided[ctl.cand] \notin Promotions

ReplayInv == ReplayTypeOK /\ ActiveInv /\ QueueOrder /\ PairIndexesUnique /\ PromotionConfirmed

\* What a replayed state is made of, field by field.
LEMMA Fields ==
    ASSUME ReplayTypeOK
    PROVE  /\ ctl.phase \in Phases /\ ctl.cand \in Candidates \cup {None}
           /\ ctl.next \in Nat /\ ctl.arms \in 0 .. 2
           /\ ctl.mode \in {"none", "standard", "simplification"}
           /\ ctl.reason \in FailureKind \cup {"completed", NoReason}
           /\ ctl.cursor \in 0 .. Proposals
           /\ ctl.scores \in [Candidates -> Seq(Observation)]
           /\ ctl.decided \in [Candidates -> Decisions \cup {"none"}]
           /\ ctl.events \in Nat
  BY DEF ReplayTypeOK, ReplayState

\* A pair scored while a candidate is active gives a well-formed observation.
LEMMA ScoredIsObservation ==
    ASSUME ReplayTypeOK, NEW out \in Outcomes
    PROVE  Scored(ctl, out) \in Observation /\ Scored(ctl, out).pair = ctl.next
<1>1. out \in [eligible : BOOLEAN, score : Int, guard : BOOLEAN, memory : BOOLEAN]
  BY OutcomesAssumption
<1>2. ctl.next \in Nat
  BY Fields
<1>3. QED
  BY <1>1, <1>2 DEF Scored, Observation

LEMMA ReplayBegins == ReplayInit => ReplayInv
<1>1. ASSUME ReplayInit PROVE ReplayInv
  <2>1. ReplayTypeOK
    BY <1>1, ProposalsAssumption
       DEF ReplayInit, ReplayTypeOK, ReplayState, EmptyReplayState, Phases, None, NoReason, Candidates
  <2>2. /\ ctl.phase = "new" /\ ctl.cand = 0
        /\ \A c \in Candidates : ctl.scores[c] = << >> /\ ctl.decided[c] = "none"
    BY <1>1 DEF ReplayInit, EmptyReplayState, None
  <2>3. ActiveInv /\ QueueOrder /\ PairIndexesUnique /\ PromotionConfirmed
    BY <2>2 DEF ActiveInv, Active, QueueOrder, PairIndexesUnique, PromotionConfirmed,
                Promotions, Candidates
  <2>4. QED
    BY <2>1, <2>3 DEF ReplayInv
<1>2. QED
  BY <1>1

-----------------------------------------------------------------------------
\* An event that touches neither scores, decisions, the queue nor the pair
\* counter keeps all but the types and the active candidate.
Kept ==
    /\ ctl'.scores = ctl.scores /\ ctl'.decided = ctl.decided
    /\ ctl'.cursor = ctl.cursor /\ ctl'.next = ctl.next
    /\ ctl'.cand = ctl.cand \/ ctl'.cand = None

LEMMA Untouched ==
    ASSUME ReplayInv, Kept, ReplayTypeOK', ActiveInv'
    PROVE  ReplayInv'
<1>1. QueueOrder'
  BY DEF ReplayInv, Kept, QueueOrder, Candidates, None
<1>2. PairIndexesUnique'
  BY DEF ReplayInv, Kept, PairIndexesUnique
<1>3. PromotionConfirmed'
  BY DEF ReplayInv, Kept, PromotionConfirmed
<1>4. QED
  BY <1>1, <1>2, <1>3 DEF ReplayInv

\* Events that only move the phase along.
LEMMA PhaseKeepsInv ==
    ASSUME ReplayInv,
           \/ CampaignStarted \/ PairStarted \/ CellCompleted \/ CandidateDiscarded
           \/ CampaignTerminated \/ CampaignCompleted
    PROVE  ReplayInv'
<1>1. ReplayTypeOK /\ ctl.events + 1 \in Nat
  BY Fields DEF ReplayInv
<1>0. "idle" \in Phases /\ "pair" \in Phases /\ "terminal" \in Phases /\ 0 \in 0 .. 2
  BY DEF Phases
<1>2. CASE CampaignStarted
  <2>1. ctl' = [ctl EXCEPT !.phase = "idle", !.events = @ + 1]
    BY <1>2 DEF CampaignStarted, AfterStart
  <2>2. ReplayTypeOK'
    BY <1>1, <1>0, <2>1, ZenonT(60) DEF ReplayTypeOK, ReplayState
  <2>3. ActiveInv'
    BY <1>1, <2>1 DEF ReplayTypeOK, ReplayState, ActiveInv, Active
  <2>4. Kept
    BY <1>1, <2>1 DEF ReplayTypeOK, ReplayState, Kept
  <2>5. QED
    BY <2>2, <2>3, <2>4, Untouched
<1>3. CASE PairStarted
  <2>1. /\ ctl' = [ctl EXCEPT !.phase = "pair", !.arms = 0, !.events = @ + 1]
        /\ ctl.phase = "candidate"
    BY <1>3 DEF PairStarted, AfterPair, AcceptsPair
  <2>2. ReplayTypeOK'
    BY <1>1, <1>0, <2>1, ZenonT(60) DEF ReplayTypeOK, ReplayState
  <2>3. ActiveInv'
    BY <1>1, <2>1 DEF ReplayTypeOK, ReplayState, ReplayInv, ActiveInv, Active
  <2>4. Kept
    BY <1>1, <2>1 DEF ReplayTypeOK, ReplayState, Kept
  <2>5. QED
    BY <2>2, <2>3, <2>4, Untouched
<1>4. CASE CellCompleted
  <2>1. /\ ctl' = [ctl EXCEPT !.arms = ctl.arms + 1, !.events = @ + 1]
        /\ ctl.phase = "pair" /\ ctl.arms < 2
    BY <1>4 DEF CellCompleted, AfterCell, AcceptsCell
  <2>2. ctl.arms + 1 \in 0 .. 2
    BY <1>1, <2>1, Fields
  <2>3. ReplayTypeOK'
    BY <1>1, <2>1, <2>2, ZenonT(60) DEF ReplayTypeOK, ReplayState
  <2>4. ActiveInv'
    BY <1>1, <2>1 DEF ReplayTypeOK, ReplayState, ReplayInv, ActiveInv, Active
  <2>5. Kept
    BY <1>1, <2>1 DEF ReplayTypeOK, ReplayState, Kept
  <2>6. QED
    BY <2>3, <2>4, <2>5, Untouched
<1>5. CASE CandidateDiscarded
  <2>1. ctl' = [ctl EXCEPT !.phase = "idle", !.cand = None, !.arms = 0,
                           !.mode = "none", !.events = @ + 1]
    BY <1>5 DEF CandidateDiscarded, AfterDiscard
  <2>2. ReplayTypeOK'
    BY <1>1, <1>0, <2>1, ZenonT(60) DEF ReplayTypeOK, ReplayState
  <2>3. ActiveInv'
    BY <1>1, <2>1 DEF ReplayTypeOK, ReplayState, ActiveInv, Active
  <2>4. Kept
    BY <1>1, <2>1 DEF ReplayTypeOK, ReplayState, Kept
  <2>5. QED
    BY <2>2, <2>3, <2>4, Untouched
<1>6. CASE CampaignTerminated
  <2>1. PICK k \in FailureKind :
            ctl' = [ctl EXCEPT !.phase = "terminal", !.reason = k, !.events = @ + 1]
    BY <1>6 DEF CampaignTerminated, AfterTermination
  <2>2. ReplayTypeOK'
    BY <1>1, <1>0, <2>1, ZenonT(60) DEF ReplayTypeOK, ReplayState
  <2>3. ActiveInv'
    BY <1>1, <2>1 DEF ReplayTypeOK, ReplayState, ActiveInv, Active
  <2>4. Kept
    BY <1>1, <2>1 DEF ReplayTypeOK, ReplayState, Kept
  <2>5. QED
    BY <2>2, <2>3, <2>4, Untouched
<1>7. CASE CampaignCompleted
  <2>1. ctl' = [ctl EXCEPT !.phase = "terminal", !.reason = "completed",
                           !.events = @ + 1]
    BY <1>7 DEF CampaignCompleted, AfterCompletion
  <2>2. ReplayTypeOK'
    BY <1>1, <1>0, <2>1, ZenonT(60) DEF ReplayTypeOK, ReplayState
  <2>3. ActiveInv'
    BY <1>1, <2>1 DEF ReplayTypeOK, ReplayState, ActiveInv, Active
  <2>4. Kept
    BY <1>1, <2>1 DEF ReplayTypeOK, ReplayState, Kept
  <2>5. QED
    BY <2>2, <2>3, <2>4, Untouched
<1>8. QED
  BY <1>2, <1>3, <1>4, <1>5, <1>6, <1>7

\* A candidate may start when it is the next of the queue, where nothing is
\* scored or decided yet.
LEMMA CandidateStartedKeepsInv ==
    ASSUME ReplayInv, CandidateStarted
    PROVE  ReplayInv'
<1>1. PICK c \in Candidates :
          /\ ctl.phase = "idle" /\ c = ctl.cursor + 1
          /\ ctl' = [ctl EXCEPT !.phase = "candidate", !.cand = c, !.mode = "none",
                               !.cursor = c, !.events = @ + 1]
  BY DEF CandidateStarted, AcceptsCandidate, AfterCandidate
<1>2. /\ ReplayTypeOK /\ QueueOrder
      /\ ctl.events + 1 \in Nat /\ ctl.cursor \in Nat
      /\ c \in Nat /\ c \in 0 .. Proposals /\ c \in Candidates \cup {None}
      /\ "candidate" \in Phases
  BY Fields, ProposalsAssumption DEF ReplayInv, Candidates, Phases
<1>3. ReplayTypeOK'
  BY <1>1, <1>2, ZenonT(60) DEF ReplayTypeOK, ReplayState
<1>4. /\ ctl'.scores = ctl.scores /\ ctl'.decided = ctl.decided
      /\ ctl'.cursor = c /\ ctl'.next = ctl.next /\ ctl'.cand = c
  BY <1>1, <1>2 DEF ReplayTypeOK, ReplayState
<1>5. ActiveInv'
  <2>1. ctl.decided[c] = "none"
    BY <1>1, <1>2 DEF QueueOrder
  <2>2. QED
    BY <1>4, <2>1 DEF ActiveInv, Promotions
<1>6. QueueOrder'
  <2>1. ASSUME NEW d \in Candidates, d > c
        PROVE  Len(ctl.scores[d]) = 0 /\ ctl.decided[d] = "none"
    <3>1. d > ctl.cursor
      BY <1>1, <1>2, <2>1 DEF Candidates
    <3>2. QED
      BY <1>2, <3>1 DEF QueueOrder
  <2>2. QED
    BY <1>4, <2>1 DEF QueueOrder
<1>7. PairIndexesUnique'
  BY <1>4 DEF ReplayInv, PairIndexesUnique
<1>8. PromotionConfirmed'
  BY <1>4 DEF ReplayInv, PromotionConfirmed
<1>9. QED
  BY <1>3, <1>5, <1>6, <1>7, <1>8 DEF ReplayInv

\* Scoring spends the next global pair index, on the active candidate only.
LEMMA PairScoredKeepsInv ==
    ASSUME ReplayInv, PairScored
    PROVE  ReplayInv'
<1>1. PICK out \in Outcomes :
          /\ ctl.phase = "pair"
          /\ ctl' = [ctl EXCEPT !.phase = "scored",
                               !.scores[ctl.cand] = Append(@, Scored(ctl, out)),
                               !.next = @ + 1, !.events = @ + 1]
  BY DEF PairScored, AcceptsScore, AfterScore
<1> DEFINE c == ctl.cand
           o == Scored(ctl, out)
           new == Append(ctl.scores[c], o)
<1>2. /\ ReplayTypeOK /\ c \in Candidates /\ ctl.decided[c] \notin Promotions
  BY <1>1 DEF ReplayInv, ActiveInv, Active
<1>3. o \in Observation /\ o.pair = ctl.next
  BY <1>2, ScoredIsObservation
<1> HIDE DEF o
<1>4. /\ new \in Seq(Observation)
      /\ Len(new) = Len(ctl.scores[c]) + 1 /\ Len(ctl.scores[c]) \in Nat
      /\ new[Len(new)] = o
      /\ \A i \in 1 .. Len(ctl.scores[c]) : new[i] = ctl.scores[c][i]
  <2>1. ctl.scores[c] \in Seq(Observation)
    BY <1>2, Fields
  <2>2. QED
    BY <1>3, <2>1
<1> HIDE DEF new
<1>5. ctl' = [ctl EXCEPT !.phase = "scored", !.scores = [ctl.scores EXCEPT ![c] = new],
                         !.next = ctl.next + 1, !.events = ctl.events + 1]
  BY <1>1 DEF new, o
<1>6. /\ [ctl.scores EXCEPT ![c] = new] \in [Candidates -> Seq(Observation)]
      /\ ctl.next + 1 \in Nat /\ ctl.events + 1 \in Nat /\ ctl.next \in Nat
      /\ "scored" \in Phases
  BY <1>2, <1>4, Fields DEF Phases
<1>7. ReplayTypeOK'
  BY <1>2, <1>5, <1>6, ZenonT(60) DEF ReplayTypeOK, ReplayState
<1>8. /\ ctl'.scores = [ctl.scores EXCEPT ![c] = new] /\ ctl'.decided = ctl.decided
      /\ ctl'.cursor = ctl.cursor /\ ctl'.next = ctl.next + 1 /\ ctl'.cand = c
  BY <1>2, <1>5 DEF ReplayTypeOK, ReplayState
<1>9. /\ ctl'.scores[c] = new
      /\ \A d \in Candidates : d # c => ctl'.scores[d] = ctl.scores[d]
  BY <1>2, <1>8, Fields
<1> HIDE DEF c
<1>10. ActiveInv'
  BY <1>2, <1>8 DEF ActiveInv
<1>11. QueueOrder'
  <2>1. c = ctl.cursor /\ ctl.cursor \in Nat
    BY <1>2, Fields, ProposalsAssumption DEF ReplayInv, QueueOrder, c
  <2>2. QED
    BY <1>8, <1>9, <2>1 DEF ReplayInv, QueueOrder, c, Candidates
<1>12. PairIndexesUnique'
  <2>1. ASSUME NEW d \in Candidates, NEW i \in 1 .. Len(ctl'.scores[d])
        PROVE  \/ d = c /\ i = Len(new) /\ ctl'.scores[d][i].pair = ctl.next
               \/ /\ i \in 1 .. Len(ctl.scores[d])
                  /\ ctl'.scores[d][i] = ctl.scores[d][i]
    <3>1. CASE d # c
      BY <1>9, <2>1, <3>1
    <3>2. CASE d = c /\ i = Len(new)
      BY <1>3, <1>4, <1>9, <3>2
    <3>3. CASE d = c /\ i # Len(new)
      BY <1>4, <1>9, <2>1, <3>3
    <3> QED BY <3>1, <3>2, <3>3
  <2>2. ASSUME NEW d \in Candidates, NEW i \in 1 .. Len(ctl.scores[d])
        PROVE  ctl.scores[d][i].pair < ctl.next /\ ctl.scores[d][i].pair \in Nat
    <3>1. ctl.scores[d] \in Seq(Observation)
      BY <1>2, Fields
    <3>2. ctl.scores[d][i] \in Observation
      BY <3>1
    <3>3. QED
      BY <3>2 DEF ReplayInv, PairIndexesUnique, Observation
  <2>3. ASSUME NEW d \in Candidates, NEW i \in 1 .. Len(ctl'.scores[d])
        PROVE  ctl'.scores[d][i].pair < ctl.next + 1
    <3>1. CASE ctl'.scores[d][i].pair = ctl.next
      BY <1>6, <3>1
    <3>2. CASE i \in 1 .. Len(ctl.scores[d]) /\ ctl'.scores[d][i] = ctl.scores[d][i]
      BY <1>6, <2>2, <3>2
    <3>3. QED
      BY <2>1, <3>1, <3>2
  <2>4. ASSUME NEW d \in Candidates, NEW i \in 1 .. Len(ctl'.scores[d]),
               NEW e \in Candidates, NEW j \in 1 .. Len(ctl'.scores[e]),
               ctl'.scores[d][i].pair = ctl'.scores[e][j].pair
        PROVE  d = e /\ i = j
    <3>1. CASE /\ i \in 1 .. Len(ctl.scores[d]) /\ ctl'.scores[d][i] = ctl.scores[d][i]
               /\ j \in 1 .. Len(ctl.scores[e]) /\ ctl'.scores[e][j] = ctl.scores[e][j]
      BY <2>4, <3>1 DEF ReplayInv, PairIndexesUnique
    <3>2. CASE /\ d = c /\ i = Len(new) /\ ctl'.scores[d][i].pair = ctl.next
               /\ j \in 1 .. Len(ctl.scores[e]) /\ ctl'.scores[e][j] = ctl.scores[e][j]
      BY <1>6, <2>2, <2>4, <3>2
    <3>3. CASE /\ e = c /\ j = Len(new) /\ ctl'.scores[e][j].pair = ctl.next
               /\ i \in 1 .. Len(ctl.scores[d]) /\ ctl'.scores[d][i] = ctl.scores[d][i]
      BY <1>6, <2>2, <2>4, <3>3
    <3>4. CASE d = c /\ i = Len(new) /\ e = c /\ j = Len(new)
      BY <3>4
    <3>5. QED
      BY <2>1, <3>1, <3>2, <3>3, <3>4
  <2>5. QED
    BY <1>8, <2>3, <2>4 DEF PairIndexesUnique
<1>13. PromotionConfirmed'
  BY <1>2, <1>8, <1>9 DEF ReplayInv, PromotionConfirmed
<1>14. QED
  BY <1>7, <1>10, <1>11, <1>12, <1>13 DEF ReplayInv

\* A decision is about the active candidate, and a promotion carries its proof.
LEMMA CandidateDecidedKeepsInv ==
    ASSUME ReplayInv, CandidateDecided
    PROVE  ReplayInv'
<1> DEFINE c == ctl.cand
<1>1. PICK d \in Decisions :
          /\ AcceptsDecision(ctl, c, d) /\ ctl' = AfterDecision(ctl, c, d)
  BY DEF CandidateDecided
<1>2. /\ ReplayTypeOK /\ c \in Candidates /\ ctl.decided[c] \notin Promotions
      /\ ctl.events + 1 \in Nat /\ Observations(ctl) = ctl.scores[c]
  <2>1. ReplayTypeOK /\ c \in Candidates /\ ctl.decided[c] \notin Promotions
    BY <1>1 DEF ReplayInv, ActiveInv, Active, AcceptsDecision
  <2>2. c # None
    BY <2>1 DEF Candidates, None
  <2>3. QED
    BY <2>1, <2>2, Fields DEF Observations
<1>3. /\ [ctl.decided EXCEPT ![c] = d] \in [Candidates -> Decisions \cup {"none"}]
      /\ "candidate" \in Phases /\ "idle" \in Phases /\ 0 \in 0 .. 2
      /\ None \in Candidates \cup {None}
  BY <1>2, Fields DEF Phases
<1>4. PICK m \in {"none", "standard", "simplification"} :
          \/ /\ d \in Confirmations
             /\ ctl' = [ctl EXCEPT !.phase = "candidate", !.arms = 0,
                                  !.decided = [ctl.decided EXCEPT ![c] = d],
                                  !.mode = m, !.events = ctl.events + 1]
          \/ ctl' = [ctl EXCEPT !.phase = "idle", !.arms = 0,
                                !.decided = [ctl.decided EXCEPT ![c] = d],
                                !.cand = None, !.mode = "none",
                                !.events = ctl.events + 1]
  <2>1. CASE d \in Confirmations
    <3>1. (IF d = "confirm" THEN "standard" ELSE "simplification")
             \in {"none", "standard", "simplification"}
      OBVIOUS
    <3>2. QED
      BY <1>1, <2>1, <3>1 DEF AfterDecision
  <2>2. CASE d \notin Confirmations
    BY <1>1, <2>2 DEF AfterDecision
  <2>3. QED
    BY <2>1, <2>2
<1>5. ReplayTypeOK'
  <2>1. "none" \in {"none", "standard", "simplification"}
    OBVIOUS
  <2>2. CASE ctl' = [ctl EXCEPT !.phase = "candidate", !.arms = 0,
                               !.decided = [ctl.decided EXCEPT ![c] = d],
                               !.mode = m, !.events = ctl.events + 1]
    BY <1>2, <1>3, <2>2, ZenonT(60) DEF ReplayTypeOK, ReplayState
  <2>3. CASE ctl' = [ctl EXCEPT !.phase = "idle", !.arms = 0,
                               !.decided = [ctl.decided EXCEPT ![c] = d],
                               !.cand = None, !.mode = "none",
                               !.events = ctl.events + 1]
    BY <1>2, <1>3, <2>1, <2>3, ZenonT(60) DEF ReplayTypeOK, ReplayState
  <2>4. QED
    BY <1>4, <2>2, <2>3
<1>6. /\ ctl'.scores = ctl.scores /\ ctl'.decided = [ctl.decided EXCEPT ![c] = d]
      /\ ctl'.cursor = ctl.cursor /\ ctl'.next = ctl.next
      /\ \/ ctl'.cand = c /\ d \in Confirmations
         \/ ctl'.cand = None /\ ctl'.phase = "idle"
  BY <1>2, <1>4, ZenonT(60) DEF ReplayTypeOK, ReplayState
<1>7. ctl'.decided[c] = d /\ \A e \in Candidates : e # c => ctl'.decided[e] = ctl.decided[e]
  BY <1>2, <1>6, Fields
<1>8. ActiveInv'
  BY <1>2, <1>6, <1>7 DEF ActiveInv, Active, Confirmations, Promotions
<1>9. QueueOrder'
  <2>1. c = ctl.cursor /\ ctl.cursor \in Nat
    BY <1>2, Fields, ProposalsAssumption DEF ReplayInv, QueueOrder
  <2>2. QED
    BY <1>6, <1>7, <2>1 DEF ReplayInv, QueueOrder, Candidates, None
<1>10. PairIndexesUnique'
  BY <1>6 DEF ReplayInv, PairIndexesUnique
<1>11. PromotionConfirmed'
  <2>1. ASSUME d \in Promotions
        PROVE  /\ Len(ctl.scores[c]) = 2 /\ Reversed(ctl.scores[c][1], ctl.scores[c][2])
               /\ ctl.scores[c][1].guard /\ ctl.scores[c][2].guard
    BY <1>1, <1>2, <2>1
       DEF AcceptsDecision, Promotions, PromotionPasses, SimplificationPromotionPasses,
           ScreenPasses
  <2>2. QED
    BY <1>6, <1>7, <2>1 DEF ReplayInv, PromotionConfirmed
<1>12. QED
  BY <1>5, <1>8, <1>9, <1>10, <1>11 DEF ReplayInv

-----------------------------------------------------------------------------
\* Every accepted event keeps the invariant.
LEMMA ReplayStep ==
    ASSUME ReplayInv, [ReplayNext]_ctl
    PROVE  ReplayInv'
<1>1. CASE CandidateStarted
  BY <1>1, CandidateStartedKeepsInv
<1>2. CASE PairScored
  BY <1>2, PairScoredKeepsInv
<1>3. CASE CandidateDecided
  BY <1>3, CandidateDecidedKeepsInv
<1>4. CASE \/ CampaignStarted \/ PairStarted \/ CellCompleted
           \/ CandidateDiscarded \/ CampaignTerminated \/ CampaignCompleted
  BY <1>4, PhaseKeepsInv
<1>5. CASE UNCHANGED ctl
  BY <1>5 DEF ReplayInv, ReplayTypeOK, ActiveInv, Active, QueueOrder, PairIndexesUnique,
              PromotionConfirmed
<1>6. QED
  BY <1>1, <1>2, <1>3, <1>4, <1>5 DEF ReplayNext

LEMMA ReplayInvariance == ReplaySpec => []ReplayInv
<1>1. ReplayInv /\ [ReplayNext]_ctl => ReplayInv'
  BY ReplayStep
<1>2. QED
  BY ReplayBegins, <1>1, PTL DEF ReplaySpec

\* Whatever is appended to an accepted journal, its replay is well formed.
THEOREM ReplayTypeCorrect == ReplaySpec => []ReplayTypeOK
<1>1. ReplayInv => ReplayTypeOK
  BY DEF ReplayInv
<1>2. QED
  BY ReplayInvariance, <1>1, PTL

\* No two scored pairs of a campaign carry the same global pair index.
THEOREM IndexesUnique == ReplaySpec => []PairIndexesUnique
<1>1. ReplayInv => PairIndexesUnique
  BY DEF ReplayInv
<1>2. QED
  BY ReplayInvariance, <1>1, PTL

\* Every promoted candidate won two eligible pairs, back to back, in opposite
\* arm orders, whatever the policy's thresholds are.
THEOREM PromotionsConfirmed == ReplaySpec => []PromotionConfirmed
<1>1. ReplayInv => PromotionConfirmed
  BY DEF ReplayInv
<1>2. QED
  BY ReplayInvariance, <1>1, PTL

\* The queue is worked off in order, for a queue of any length.
THEOREM QueueInOrder == ReplaySpec => []QueueOrder
<1>1. ReplayInv => QueueOrder
  BY DEF ReplayInv
<1>2. QED
  BY ReplayInvariance, <1>1, PTL

\* replay_transitions accepts no event after the terminal one.
THEOREM NothingAfterTerminal == ReplaySpec => TerminalFinal
<1>1. [ReplayNext]_ctl => [ctl.phase # "terminal"]_ctl
  BY DEF ReplayNext, CampaignStarted, AcceptsStart, CandidateStarted, AcceptsCandidate,
         PairStarted, AcceptsPair, CellCompleted, AcceptsCell, PairScored,
         AcceptsScore, CandidateDecided, AcceptsDecision, CandidateDiscarded,
         AcceptsDiscard, CampaignTerminated, AcceptsTermination,
         CampaignCompleted, AcceptsCompletion
<1>2. QED
  BY <1>1, PTL DEF ReplaySpec, TerminalFinal

-----------------------------------------------------------------------------
(* The program implements it.                                              *)

\* The failure being handled is one that a terminal event may report.
KindInv ==
    /\ kind \in FailureKind \cup {"none"}
    /\ pc \in {"start", "fail"} => kind \in FailureKind

\* The replayed state counts its completed arms.
ArmsInv == "arms" \in DOMAIN ctl /\ ctl.arms \in Nat

-----------------------------------------------------------------------------
(* What the program computes is registered.                                *)

LEMMA CellFailuresRegistered == \A k \in CellFailures : k \in FailureKind
  BY DEF CellFailures, FailureKind

LEMMA AdmissionFailuresRegistered ==
    \A b : AdmissionFailureKind(b) \in FailureKind
  BY DEF AdmissionFailureKind, FailureKind

LEMMA DecisionRegistered == Decision \in Decisions
  BY DEF Decision, Decisions

LEMMA ArmsOfPair ==
    ASSUME ArmsInv, ctl.arms < 2
    PROVE  PairOrder(ctl.next)[ctl.arms + 1] \in Arms
<1>1. ctl.arms \in {0, 1}
  BY DEF ArmsInv
<1>2. QED
  BY <1>1 DEF PairOrder, Arms

-----------------------------------------------------------------------------
(* An event the program appends is a step of the replay machine.           *)

LEMMA SameStart ==
    ASSUME AcceptsStart(ctl), ctl' = AfterStart(ctl)
    PROVE  ReplayNext
  BY DEF ReplayNext, CampaignStarted

LEMMA SameCandidate ==
    ASSUME NEW c, AcceptsCandidate(ctl, c), ctl' = AfterCandidate(ctl, c)
    PROVE  ReplayNext
<1>1. c \in Candidates
  BY DEF AcceptsCandidate
<1>2. QED
  BY <1>1 DEF ReplayNext, CandidateStarted

LEMMA SamePair ==
    ASSUME AcceptsPair(ctl, ctl.cand, ctl.next), ctl' = AfterPair(ctl)
    PROVE  ReplayNext
  BY DEF ReplayNext, PairStarted

LEMMA SameCell ==
    ASSUME NEW arm \in Arms, AcceptsCell(ctl, ctl.cand, ctl.next, arm),
           ctl' = AfterCell(ctl)
    PROVE  ReplayNext
  BY DEF ReplayNext, CellCompleted

LEMMA SameScore ==
    ASSUME NEW out \in Outcomes, AcceptsScore(ctl, ctl.cand, Scored(ctl, out)),
           ctl' = AfterScore(ctl, ctl.cand, Scored(ctl, out))
    PROVE  ReplayNext
  BY DEF ReplayNext, PairScored

LEMMA SameDecision ==
    ASSUME NEW d \in Decisions, AcceptsDecision(ctl, ctl.cand, d),
           ctl' = AfterDecision(ctl, ctl.cand, d)
    PROVE  ReplayNext
  BY DEF ReplayNext, CandidateDecided

LEMMA SameTermination ==
    ASSUME NEW k \in FailureKind, NEW cleanup \in BOOLEAN,
           AcceptsTermination(ctl, k, cleanup, FALSE), ctl' = AfterTermination(ctl, k)
    PROVE  ReplayNext
  BY DEF ReplayNext, CampaignTerminated

LEMMA SameCompletion ==
    ASSUME AcceptsCompletion(ctl), ctl' = AfterCompletion(ctl)
    PROVE  ReplayNext
  BY DEF ReplayNext, CampaignCompleted

-----------------------------------------------------------------------------
\* How an invocation goes on keeps KindInv.
LEMMA GotoKeeps ==
    ASSUME KindInv, NEW place, place \notin {"start", "fail"}, Goto(place)
    PROVE  KindInv'
  BY DEF KindInv, Goto

LEMMA FailAtKeeps ==
    ASSUME NEW place, NEW k \in FailureKind, FailAt(place, k)
    PROVE  KindInv'
  BY DEF KindInv, FailAt

LEMMA FailKeeps ==
    ASSUME NEW k \in FailureKind, Fail(k)
    PROVE  KindInv'
  BY FailAtKeeps DEF Fail

LEMMA FinishKeeps ==
    ASSUME NEW r, Finish(r)
    PROVE  KindInv'
  BY DEF KindInv, Finish

LEMMA AppendKeeps ==
    ASSUME KindInv, NEW accepted, NEW after, NEW place, place \notin {"start", "fail"},
           AppendTransition(accepted, after, place)
    PROVE  KindInv' /\ (ctl' = ctl \/ (accepted /\ ctl' = after))
  BY GotoKeeps DEF AppendTransition, KindInv

\* The steps that append nothing to the controller journal.
Quiet ==
    \/ InvokeRun \/ InvokeAck
    \/ RecoverNothing \/ RecoverWorker \/ RecoveryFails
    \/ LoadRefused \/ LoadFails \/ LoadTerminal \/ LoadContinues
    \/ ReconcileFails \/ ReconcileDone
    \/ CalibrationFails \/ RecordCalibration \/ CalibrationSettled
    \/ GateBlocks \/ GatePasses
    \/ NothingToAdmit \/ AdmissionRaises \/ Admit
    \/ LaunchCell \/ LaunchRefused \/ CellReturns \/ CellFails
    \/ CompleteCellFails \/ ScoreIneligible \/ Return
    \/ AckRefused \/ AckVerify \/ AckWrite
    \/ \E c \in CellIds : WorkerStarts(c) \/ WorkerFinishes(c) \/ WorkerDies(c)
    \/ Publish \/ Tick \/ ClockStepsBack \/ Crash

LEMMA QuietKeeps ==
    ASSUME KindInv, Quiet
    PROVE  KindInv' /\ ctl' = ctl
<1>1. CASE InvokeRun \/ InvokeAck
  BY <1>1 DEF InvokeRun, InvokeAck, Invoke, KindInv
<1>2. CASE RecoverNothing \/ RecoverWorker \/ RecoveryFails
  BY <1>2 DEF RecoverNothing, RecoverWorker, RecoveryFails, RecoveryFailures, CellFailures,
              AfterRecovery, Goto, KindInv, FailureKind
<1>3. CASE LoadRefused \/ LoadTerminal
  BY <1>3, FinishKeeps DEF LoadRefused, LoadTerminal
<1>4. CASE LoadFails
  <2>1. LoadFailure \in FailureKind
    BY <1>4 DEF LoadFails, LoadFailure, KindInv, FailureKind
  <2>2. QED
    BY <1>4, <2>1 DEF LoadFails, KindInv
<1>5. CASE \/ LoadContinues \/ ReconcileDone \/ CalibrationSettled \/ GatePasses
           \/ NothingToAdmit \/ CellReturns
  BY <1>5, GotoKeeps DEF LoadContinues, ReconcileDone, CalibrationSettled, GatePasses,
                         NothingToAdmit, CellReturns
<1>6. CASE ReconcileFails \/ CompleteCellFails \/ CalibrationFails
  BY <1>6, FailAtKeeps, CellFailuresRegistered
     DEF ReconcileFails, CompleteCellFails, IndexFails, CalibrationFails
<1>7. CASE RecordCalibration \/ ScoreIneligible \/ LaunchRefused
  <2>1. "measurement" \in FailureKind /\ "audit" \in FailureKind
    BY DEF FailureKind
  <2>2. QED
    BY <1>7, <2>1, FailKeeps, FailAtKeeps, FinishKeeps
       DEF RecordCalibration, ScoreIneligible, LaunchRefused
<1>8. CASE GateBlocks \/ AdmissionRaises \/ Return \/ AckRefused
  BY <1>8, FinishKeeps DEF GateBlocks, AdmissionRaises, Return, AckRefused
<1>9. CASE Admit
  <2>1. PICK blockers :
            /\ \/ pc' = "run" /\ UNCHANGED kind
               \/ Fail(AdmissionFailureKind(blockers))
               \/ Finish("denied")
            /\ ctl' = ctl
    BY <1>9 DEF Admit
  <2>2. QED
    BY <2>1, FailKeeps, FinishKeeps, AdmissionFailuresRegistered DEF KindInv
<1>10. CASE LaunchCell
  BY <1>10 DEF LaunchCell, KindInv
<1>11. CASE CellFails
  <2>1. "cleanup_breach" \in FailureKind /\ "ownership_ambiguity" \in FailureKind
    BY DEF FailureKind
  <2>2. QED
    BY <1>11, <2>1, FailKeeps, CellFailuresRegistered DEF CellFails
<1>12. CASE AckVerify
  BY <1>12 DEF AckVerify, KindInv
<1>13. CASE AckWrite
  BY <1>13, FinishKeeps DEF AckWrite
<1>14. CASE \E c \in CellIds : WorkerStarts(c) \/ WorkerFinishes(c) \/ WorkerDies(c)
  BY <1>14 DEF WorkerStarts, WorkerFinishes, WorkerDies, KindInv
<1>15. CASE Publish \/ Tick \/ ClockStepsBack
  BY <1>15 DEF Publish, Tick, ClockStepsBack, KindInv
<1>16. CASE Crash
  BY <1>16 DEF Crash, KindInv
<1>17. QED
  BY <1>1, <1>2, <1>3, <1>4, <1>5, <1>6, <1>7, <1>8, <1>9, <1>10, <1>11, <1>12,
     <1>13, <1>14, <1>15, <1>16 DEF Quiet

-----------------------------------------------------------------------------
\* What a step does to the controller journal, and to the two invariants.
Good == KindInv' /\ ArmsInv' /\ [ReplayNext]_ctl

LEMMA ArmsKept ==
    ASSUME ArmsInv
    PROVE  /\ ctl' = AfterPair(ctl) => ArmsInv'
           /\ ctl' = AfterCell(ctl) => ArmsInv'
           /\ \A c, d : ctl' = AfterDecision(ctl, c, d) => ArmsInv'
<1>1. 0 \in Nat /\ ctl.arms + 1 \in Nat /\ "arms" \in DOMAIN ctl
  BY DEF ArmsInv
<1>2. ctl' = AfterPair(ctl) => ArmsInv'
  BY <1>1, Zenon DEF ArmsInv, AfterPair
<1>3. ctl' = AfterCell(ctl) => ArmsInv'
  BY <1>1, Zenon DEF ArmsInv, AfterCell
<1>4. ASSUME NEW c, NEW d, ctl' = AfterDecision(ctl, c, d)
      PROVE  ArmsInv'
  <2>1. CASE d \in Confirmations
    BY <1>1, <1>4, <2>1, Zenon DEF ArmsInv, AfterDecision
  <2>2. CASE d \notin Confirmations
    BY <1>1, <1>4, <2>2, Zenon DEF ArmsInv, AfterDecision
  <2>3. QED
    BY <2>1, <2>2
<1>5. QED
  BY <1>2, <1>3, <1>4

LEMMA IndexCellGood ==
    ASSUME KindInv, ArmsInv, NEW place, place \notin {"start", "fail"}, IndexCell(place)
    PROVE  Good
<1> DEFINE arm == NextCell[2]
<1>1. /\ KindInv'
      /\ ctl' = ctl \/ (AcceptsCell(ctl, ctl.cand, ctl.next, arm) /\ ctl' = AfterCell(ctl))
  BY AppendKeeps DEF IndexCell
<1>2. ArmsInv'
  BY <1>1, ArmsKept DEF ArmsInv
<1>3. ASSUME AcceptsCell(ctl, ctl.cand, ctl.next, arm), ctl' = AfterCell(ctl)
      PROVE  ReplayNext
  <2>1. arm \in Arms
    BY <1>3, ArmsOfPair DEF AcceptsCell
  <2>2. QED
    BY <1>3, <2>1, SameCell
<1>4. QED
  BY <1>1, <1>2, <1>3 DEF Good

LEMMA StepGood ==
    ASSUME KindInv, ArmsInv, Next
    PROVE  Good
<1>1. CASE Quiet
  <2>1. KindInv' /\ ctl' = ctl
    BY <1>1, QuietKeeps
  <2>2. QED
    BY <2>1 DEF Good, ArmsInv
<1>2. CASE StartCampaign
  <2>1. KindInv' /\ (ctl' = ctl \/ (AcceptsStart(ctl) /\ ctl' = AfterStart(ctl)))
    BY <1>2, AppendKeeps DEF StartCampaign
  <2>2. ArmsInv'
    BY <2>1 DEF ArmsInv, AfterStart
  <2>3. QED
    BY <2>1, <2>2, SameStart DEF Good
<1>3. CASE StartCandidate
  <2>1. /\ KindInv'
        /\ \/ ctl' = ctl
           \/ /\ AcceptsCandidate(ctl, NextProposal)
              /\ ctl' = AfterCandidate(ctl, NextProposal)
    BY <1>3, AppendKeeps DEF StartCandidate
  <2>2. ArmsInv'
    BY <2>1 DEF ArmsInv, AfterCandidate
  <2>3. QED
    BY <2>1, <2>2, SameCandidate DEF Good
<1>4. CASE StartPair
  <2>1. /\ KindInv'
        /\ \/ ctl' = ctl
           \/ AcceptsPair(ctl, ctl.cand, ctl.next) /\ ctl' = AfterPair(ctl)
    <3>1. "audit" \in FailureKind
      BY DEF FailureKind
    <3>2. CASE \E arm \in Arms : cells[PairCell(ctl, arm)] # "empty"
      BY <1>4, <3>1, <3>2, FailKeeps DEF StartPair
    <3>3. CASE ~\E arm \in Arms : cells[PairCell(ctl, arm)] # "empty"
      BY <1>4, <3>3, AppendKeeps DEF StartPair
    <3>4. QED
      BY <3>2, <3>3
  <2>2. ArmsInv'
    BY <2>1, ArmsKept DEF ArmsInv
  <2>3. QED
    BY <2>1, <2>2, SamePair DEF Good
<1>5. CASE ReconcileCell \/ CompleteCell
  BY <1>5, IndexCellGood DEF ReconcileCell, CompleteCell
<1>6. CASE ScorePair
  <2>1. PICK out \in Outcomes :
            AppendTransition(AcceptsScore(ctl, ctl.cand, Scored(ctl, out)),
                             AfterScore(ctl, ctl.cand, Scored(ctl, out)), "run")
    BY <1>6 DEF ScorePair
  <2>2. /\ KindInv'
        /\ \/ ctl' = ctl
           \/ /\ AcceptsScore(ctl, ctl.cand, Scored(ctl, out))
              /\ ctl' = AfterScore(ctl, ctl.cand, Scored(ctl, out))
    BY <2>1, AppendKeeps
  <2>3. ArmsInv'
    BY <2>2 DEF ArmsInv, AfterScore
  <2>4. QED
    BY <2>2, <2>3, SameScore DEF Good
<1>7. CASE Decide
  <2>1. /\ KindInv'
        /\ \/ ctl' = ctl
           \/ /\ AcceptsDecision(ctl, ctl.cand, Decision)
              /\ ctl' = AfterDecision(ctl, ctl.cand, Decision)
    BY <1>7, AppendKeeps DEF Decide
  <2>2. ArmsInv'
    BY <2>1, ArmsKept DEF ArmsInv
  <2>3. QED
    BY <2>1, <2>2, SameDecision, DecisionRegistered DEF Good
<1>8. CASE Complete
  <2>1. KindInv' /\ (ctl' = ctl \/ (AcceptsCompletion(ctl) /\ ctl' = AfterCompletion(ctl)))
    BY <1>8, AppendKeeps DEF Complete
  <2>2. ArmsInv'
    BY <2>1 DEF ArmsInv, AfterCompletion
  <2>3. QED
    BY <2>1, <2>2, SameCompletion DEF Good
<1>9. CASE FailTerminates
  <2>1. /\ KindInv'
        /\ \/ ctl' = ctl
           \/ /\ AcceptsTermination(ctl, kind, CleanupVerified, FALSE)
              /\ ctl' = AfterTermination(ctl, kind)
    BY <1>9 DEF FailTerminates, AppendTransition, Goto, KindInv
  <2>2. kind \in FailureKind
    BY <1>9 DEF FailTerminates, KindInv
  <2>3. ArmsInv'
    BY <2>1 DEF ArmsInv, AfterTermination
  <2>4. CleanupVerified \in BOOLEAN
    BY DEF CleanupVerified
  <2>5. QED
    BY <2>1, <2>2, <2>3, <2>4, SameTermination DEF Good
<1>10. CASE FailStarts
  <2>1. kind \in FailureKind
    BY <1>10 DEF FailStarts, KindInv
  <2>2. KindInv' /\ (ctl' = ctl \/ (AcceptsStart(ctl) /\ ctl' = AfterStart(ctl)))
    BY <1>10, <2>1 DEF FailStarts, AppendTransition, Goto, KindInv
  <2>3. ArmsInv'
    BY <2>2 DEF ArmsInv, AfterStart
  <2>4. QED
    BY <2>2, <2>3, SameStart DEF Good
<1>11. QED
  BY <1>1, <1>2, <1>3, <1>4, <1>5, <1>6, <1>7, <1>8, <1>9, <1>10 DEF Next, Step, Quiet

\* The controller implements the replay machine: every step of every
\* invocation, crashes and restarts included, is one accepted event or leaves
\* the controller journal alone (run_campaign, _append_frozen_transition).
THEOREM ControllerImplementsReplay == Spec => ImplementsReplay
<1>1. Init => KindInv /\ ArmsInv /\ ReplayInit
  BY DEF Init, KindInv, ArmsInv, EmptyReplayState, ReplayInit
<1>2. KindInv /\ ArmsInv /\ [Next]_vars => (KindInv /\ ArmsInv)' /\ [ReplayNext]_ctl
  <2>1. CASE UNCHANGED vars
    BY <2>1 DEF vars, KindInv, ArmsInv
  <2>2. QED
    BY <2>1, StepGood DEF Good
<1>3. QED
  BY <1>1, <1>2, PTL DEF Spec, ImplementsReplay, ReplaySpec
-----------------------------------------------------------------------------
(***************************************************************************)
(* The invariant of the controller.  What the replay machine says of the   *)
(* journal carries over (RP); the rest is about what lies beside it: the   *)
(* cells, the worker record, the calibration, the acknowledgement, the      *)
(* admissions, and the place of the invocation.                            *)
(***************************************************************************)
Places == {"down", "recover", "ack_recover", "load", "ack", "ack_write", "reconcile",
           "calibration", "gate", "admit", "run", "wait", "settle", "return", "start", "fail"}
\* Before anything of the campaign is read.
Outer == {"down", "recover", "ack_recover", "load", "ack", "ack_write"}
\* Deciding what to do, with no worker about.
Inner == {"reconcile", "calibration", "gate", "admit", "run"}
ActivePhase == {"candidate", "pair", "scored"}
Targets == [kind : {"calibration", "screen", "confirmation", "none"},
            cand : Candidates \cup {None}, pair : Nat]
Records == [target : Targets, outcome : {"admitted", "cutoff", "blocked_environment"},
            late : BOOLEAN, count : Nat, at : 0 .. MaxTime]
Runs == [launched : SUBSET CellIds, target : Targets, seen : Nat, clean : BOOLEAN]
\* The observations of the active candidate.
Count == Len(ctl.scores[ctl.cand])

\* The journal's state: the part of the replay machine's invariant that is used.
JournalInv ==
    /\ ctl \in ReplayState
    /\ \A c \in Candidates :
           /\ c > ctl.cursor => Len(ctl.scores[c]) = 0 /\ ctl.decided[c] = "none"
           /\ c = ctl.cand => c = ctl.cursor

\* This program never discards a candidate: whoever was started before the active
\* one is decided, and nobody is active beside a promoted one.
QueueInv ==
    /\ \A c \in Candidates : c <= ctl.cursor /\ c # ctl.cand => ctl.decided[c] # "none"
    /\ \A c \in Candidates : Len(ctl.scores[c]) <= 2
    /\ ctl.phase \in {"new", "idle"} => ctl.cand = None
    /\ ctl.phase \in ActivePhase =>
           /\ ctl.cand \in Candidates
           /\ ctl.decided[ctl.cand] \in {"none"} \cup Confirmations
    /\ Promoted => ctl.phase \in {"idle", "terminal"}
    /\ ctl.phase \in {"candidate", "pair"} => Count \in {0, 1} /\ (Count = 1 => ctl.mode # "none")
    /\ ctl.phase = "scored" => Count \in {1, 2} /\ (Count = 2 => ctl.mode # "none")

\* Where the invocation can be in a campaign that is over, that has not begun, or
\* whose journals are torn.  A failure of a campaign that has not begun is still at
\* the append of campaign_started.
PlaceInv ==
    /\ pc \in Places
    /\ pc \in Inner \cup {"wait", "settle", "start", "fail"} => ctl.phase # "terminal"
    /\ pc \in {"wait", "fail"} => ctl.phase # "new"
    /\ pc = "settle" => ctl.phase \in {"idle", "candidate"}
    /\ pc \in {"down", "recover", "ack_recover"} => kind = "none"
    /\ torn # "none" => pc \in Outer
    /\ result # "rejected"

\* Nothing happens before campaign_started, and no candidate is started before the
\* calibration passed.
BeginInv ==
    /\ ctl.phase = "new" <=> ctl.events = 0
    /\ ctl.phase = "new" =>
           /\ rec = NoCell /\ calib = "none" /\ starts = <<>>
           /\ \A c \in CellIds : cells[c] = "empty"
    /\ calib = "none" => ctl.cursor = 0 /\ ctl.phase \notin ActivePhase
    /\ pc \in {"gate", "admit", "run", "wait"} => calib # "failed"

\* The one worker there may be is the one of the record, and the record is gone when
\* the invocation goes on.
WorkInv ==
    /\ alive \subseteq CellIds /\ rec \in CellIds \cup {NoCell}
    /\ \A c \in alive : c = rec
    /\ pc \in Inner => rec = NoCell
    /\ pc = "load" /\ rec # NoCell => kind # "none"
    /\ pc = "wait" => rec # NoCell

\* The acknowledgement is that of the last completed pair wherever the gate is
\* behind the invocation or is skipped.
AckInv ==
    \/ ctl.phase = "pair"
    \/ ctl.phase = "candidate" /\ Count = 0
    \/ pc \in {"admit", "run", "wait"} /\ ctl.phase = "candidate"
    \/ pc \in {"admit", "run", "wait"} /\ ctl.phase = "idle" /\ calib = "passed" /\ ~Over
    => ack.seq = ctl.next + 1

\* The admission is for the pair that may be launched.
TargetInv ==
    /\ run \in Runs
    /\ pc \in Outer \cup (Inner \ {"run"}) => run.launched = {}
    /\ pc \in {"run", "wait"} /\ calib = "none" =>
           run.target.kind = "calibration" /\ run.target.cand = None
    /\ pc \in {"run", "wait"}
       /\ (ctl.phase = "candidate" \/ (ctl.phase = "pair" /\ ctl.arms < 2)) =>
           run.target.kind = StageName(ctl) /\ run.target.cand = ctl.cand
    /\ pc \in {"run", "wait"} /\ calib = "passed" /\ ctl.phase = "idle"
       /\ ~Promoted /\ Undecided # {} =>
           run.target.kind = "screen" /\ run.target.cand = ctl.cursor + 1
    /\ AdmittedNow

\* Observation times do not go back, and a late one is behind the cutoff.
AdmissionInv ==
    /\ admissions \in Seq(Records)
    /\ \A i, j \in 1 .. Len(admissions) : i < j => admissions[i].at <= admissions[j].at
    /\ \A i \in 1 .. Len(admissions) : admissions[i].late => admissions[i].at >= Cutoff
    /\ CutoffNeverReopens

CInv == /\ TypeOK /\ QueueInv /\ PlaceInv /\ BeginInv /\ IndexedIsDone
        /\ WorkInv /\ AckInv /\ TargetInv /\ AdmissionInv


-----------------------------------------------------------------------------
(* What is known of the journal, from the replay machine.                  *)

LEMMA ReplayGives ==
    ASSUME ReplayInv
    PROVE  JournalInv /\ JournalSound
  BY DEF ReplayInv, ReplayTypeOK, JournalInv, JournalSound, QueueOrder

\* The journal the program leaves is sound at every moment, since the program
\* implements the machine and the machine keeps its invariant.
LEMMA JournalKept == Spec => [](JournalInv /\ JournalSound)
  BY ControllerImplementsReplay, ReplayInvariance, ReplayGives, PTL DEF ImplementsReplay

-----------------------------------------------------------------------------
(* The operators of the model.                                             *)

LEMMA JournalFields ==
    ASSUME JournalInv
    PROVE  /\ ctl.phase \in Phases /\ ctl.cand \in Candidates \cup {None}
           /\ ctl.next \in Nat /\ ctl.arms \in 0 .. 2
           /\ ctl.mode \in {"none", "standard", "simplification"}
           /\ ctl.cursor \in 0 .. Proposals
           /\ ctl.scores \in [Candidates -> Seq(Observation)]
           /\ ctl.decided \in [Candidates -> Decisions \cup {"none"}]
           /\ ctl.events \in Nat
  BY DEF JournalInv, ReplayState

LEMMA NoCellIsNone == NoCell \notin CellIds
  BY DEF NoCell, CellIds

\* The stage of a candidate of the queue counts its observations.
LEMMA StageCounts ==
    ASSUME NEW s, s.cand \in Candidates
    PROVE  /\ Observations(s) = s.scores[s.cand]
           /\ Stage(s) = Len(s.scores[s.cand]) + 1
  BY DEF Observations, Stage, Candidates, None

LEMMA ArmOfPair ==
    ASSUME NEW i, NEW k \in 1 .. 2
    PROVE  PairOrder(i)[k] \in Arms
  BY DEF PairOrder, Arms

LEMMA ArmsCovered ==
    ASSUME NEW i, NEW arm \in Arms
    PROVE  \E k \in 1 .. 2 : arm = PairOrder(i)[k]
<1>1. PairOrder(i)[1] = arm \/ PairOrder(i)[2] = arm
  BY DEF PairOrder, Arms
<1>2. QED
  BY <1>1

LEMMA CellOfPair ==
    ASSUME NEW c \in Candidates, NEW s \in 1 .. 2, NEW arm \in Arms
    PROVE  <<<<c, s>>, arm>> \in CellIds
  BY DEF CellIds

LEMMA CellOfCalibration ==
    ASSUME NEW arm \in Arms
    PROVE  Calibration(arm) \in CellIds
  BY DEF CellIds, Calibration

\* The active pair's cells.
LEMMA ActiveCell ==
    ASSUME JournalInv, QueueInv, ctl.phase \in {"candidate", "pair"}, NEW arm \in Arms
    PROVE  /\ ctl.cand \in Candidates /\ Count \in {0, 1} /\ Stage(ctl) = Count + 1
           /\ PairCell(ctl, arm) = <<<<ctl.cand, Count + 1>>, arm>>
           /\ PairCell(ctl, arm) \in CellIds
<1>1. ctl.cand \in Candidates /\ Count \in {0, 1}
  BY DEF QueueInv, ActivePhase
<1>2. Stage(ctl) = Count + 1
  BY <1>1, StageCounts DEF Count
<1>3. PairCell(ctl, arm) = <<<<ctl.cand, Count + 1>>, arm>>
  BY <1>2 DEF PairCell
<1>4. QED
  BY <1>1, <1>2, <1>3, CellOfPair

LEMMA NextCellIs ==
    ASSUME JournalInv, QueueInv, ctl.phase = "pair", ctl.arms < 2
    PROVE  /\ PairOrder(ctl.next)[ctl.arms + 1] \in Arms
           /\ NextCell = <<<<ctl.cand, Count + 1>>, PairOrder(ctl.next)[ctl.arms + 1]>>
           /\ NextCell \in CellIds
<1>1. ctl.arms + 1 \in 1 .. 2
  BY JournalFields
<1>2. PairOrder(ctl.next)[ctl.arms + 1] \in Arms
  BY <1>1, ArmOfPair
<1>3. QED
  BY <1>2, ActiveCell DEF NextCell

\* The next proposal is the one behind the cursor.
LEMMA ProposalIs ==
    ASSUME JournalInv, QueueInv, ctl.phase = "idle", Undecided # {}
    PROVE  NextProposal = ctl.cursor + 1 /\ NextProposal \in Candidates
<1>1. ctl.cursor \in 0 .. Proposals /\ Proposals \in Nat
  BY JournalFields, ProposalsAssumption
<1>2. \A c \in Candidates : c \in Undecided <=> c > ctl.cursor
  <2>1. ctl.cand = 0
    BY DEF QueueInv, None
  <2>2. QED
    BY <1>1, <2>1 DEF QueueInv, JournalInv, Undecided, Candidates
<1>3. PICK u \in Candidates : u \in Undecided
  BY DEF Undecided
<1>4. ctl.cursor + 1 \in Candidates /\ ctl.cursor + 1 \in Undecided
  BY <1>1, <1>2, <1>3 DEF Candidates
<1>5. \A d \in Undecided : ctl.cursor + 1 <= d
  BY <1>1, <1>2 DEF Undecided, Candidates
<1>6. NextProposal \in Undecided /\ \A d \in Undecided : NextProposal <= d
  BY <1>4, <1>5 DEF NextProposal
<1>7. QED
  BY <1>1, <1>4, <1>5, <1>6 DEF Undecided, Candidates

\* What a step appended to the journal, field by field.
Moves(phase, cand, next, arms, mode, cursor) ==
    /\ ctl'.phase = phase /\ ctl'.cand = cand /\ ctl'.next = next /\ ctl'.arms = arms
    /\ ctl'.mode = mode /\ ctl'.cursor = cursor /\ ctl'.events = ctl.events + 1
KeepsScores == ctl'.scores = ctl.scores /\ ctl'.decided = ctl.decided
Beside == <<world, procs, kind, run, result>>

LEMMA StartCampaignEffect ==
    ASSUME JournalInv, StartCampaign
    PROVE  /\ Moves("idle", ctl.cand, ctl.next, ctl.arms, ctl.mode, ctl.cursor)
           /\ KeepsScores /\ pc' = "run" /\ UNCHANGED <<disk, Beside>>
<1>1. ctl' = AfterStart(ctl) /\ pc' = "run" /\ UNCHANGED <<disk, Beside>>
  BY DEF StartCampaign, AppendTransition, AcceptsStart, Goto, Beside
<1>2. QED
  BY <1>1 DEF AfterStart, Moves, KeepsScores, JournalInv, ReplayState

LEMMA StartCandidateEffect ==
    ASSUME JournalInv, QueueInv, StartCandidate
    PROVE  /\ ctl.cursor + 1 \in Candidates
           /\ Moves("candidate", ctl.cursor + 1, ctl.next, ctl.arms, "none", ctl.cursor + 1)
           /\ KeepsScores /\ pc' = "run" /\ UNCHANGED <<disk, Beside>>
<1>1. NextProposal = ctl.cursor + 1 /\ NextProposal \in Candidates
  BY ProposalIs DEF StartCandidate
<1>2. AcceptsCandidate(ctl, NextProposal)
  BY <1>1 DEF AcceptsCandidate, StartCandidate
<1>3. ctl' = AfterCandidate(ctl, NextProposal) /\ pc' = "run" /\ UNCHANGED <<disk, Beside>>
  BY <1>2 DEF StartCandidate, AppendTransition, Goto, Beside
<1>4. QED
  BY <1>1, <1>3 DEF AfterCandidate, Moves, KeepsScores, JournalInv, ReplayState

LEMMA StartPairEffect ==
    ASSUME JournalInv, QueueInv, StartPair
    PROVE  \/ ctl' = ctl /\ Fail("audit") /\ UNCHANGED <<disk, world, procs>>
           \/ /\ Moves("pair", ctl.cand, ctl.next, 0, ctl.mode, ctl.cursor) /\ KeepsScores
              /\ pc' = "run" /\ UNCHANGED <<torn, admissions, calib, ack, Beside>>
<1>1. Len(Observations(ctl)) < 2
  <2>1. ctl.cand \in Candidates /\ Count \in {0, 1}
    BY DEF StartPair, QueueInv, ActivePhase
  <2>2. Observations(ctl) = ctl.scores[ctl.cand]
    BY <2>1, StageCounts
  <2>3. QED
    BY <2>1, <2>2 DEF Count
<1>2. AcceptsPair(ctl, ctl.cand, ctl.next)
  BY <1>1 DEF AcceptsPair, StartPair
<1>3. CASE \E arm \in Arms : cells[PairCell(ctl, arm)] # "empty"
  BY <1>3 DEF StartPair, disk
<1>4. CASE ~\E arm \in Arms : cells[PairCell(ctl, arm)] # "empty"
  <2>1. /\ ctl' = AfterPair(ctl) /\ pc' = "run"
        /\ UNCHANGED <<torn, admissions, calib, ack, Beside>>
    BY <1>2, <1>4 DEF StartPair, AppendTransition, Goto, Beside
  <2>2. Moves("pair", ctl.cand, ctl.next, 0, ctl.mode, ctl.cursor) /\ KeepsScores
    BY <2>1 DEF AfterPair, Moves, KeepsScores, JournalInv, ReplayState
  <2>3. QED
    BY <2>1, <2>2
<1>5. QED
  BY <1>3, <1>4

LEMMA IndexCellEffect ==
    ASSUME JournalInv, QueueInv, NEW place, IndexCell(place)
    PROVE  /\ ctl.phase = "pair" /\ ctl.arms < 2 /\ cells[NextCell] = "done"
           /\ Moves("pair", ctl.cand, ctl.next, ctl.arms + 1, ctl.mode, ctl.cursor)
           /\ KeepsScores /\ pc' = place /\ UNCHANGED <<disk, Beside>>
<1>1. ctl.phase = "pair" /\ ctl.arms < 2 /\ cells[NextCell] = "done"
  BY DEF IndexCell, RawPrefix
<1>2. NextCell[2] = PairOrder(ctl.next)[ctl.arms + 1]
  BY <1>1, NextCellIs
<1>3. AcceptsCell(ctl, ctl.cand, ctl.next, NextCell[2])
  BY <1>1, <1>2 DEF AcceptsCell
<1>4. ctl' = AfterCell(ctl) /\ pc' = place /\ UNCHANGED <<disk, Beside>>
  BY <1>3 DEF IndexCell, AppendTransition, Goto, Beside
<1>5. QED
  BY <1>1, <1>4 DEF AfterCell, Moves, KeepsScores, JournalInv, ReplayState

LEMMA ScorePairEffect ==
    ASSUME JournalInv, QueueInv, ScorePair
    PROVE  /\ ctl.phase = "pair" /\ ctl.arms = 2 /\ ctl.cand \in Candidates
           /\ Moves("scored", ctl.cand, ctl.next + 1, ctl.arms, ctl.mode, ctl.cursor)
           /\ Len(ctl'.scores[ctl.cand]) = Len(ctl.scores[ctl.cand]) + 1
           /\ \A c \in Candidates \ {ctl.cand} : ctl'.scores[c] = ctl.scores[c]
           /\ ctl'.decided = ctl.decided
           /\ pc' = "run" /\ UNCHANGED <<disk, Beside>>
<1>1. ctl.phase = "pair" /\ ctl.arms = 2 /\ ctl.cand \in Candidates
  BY DEF ScorePair, QueueInv, ActivePhase
<1>2. Len(Observations(ctl)) < 2
  <2>1. Observations(ctl) = ctl.scores[ctl.cand]
    BY <1>1, StageCounts
  <2>2. Count \in {0, 1}
    BY <1>1 DEF QueueInv
  <2>3. Len(Observations(ctl)) = Count
    BY <2>1 DEF Count
  <2>4. QED
    BY <2>2, <2>3
<1>3. PICK out \in Outcomes :
          AppendTransition(AcceptsScore(ctl, ctl.cand, Scored(ctl, out)),
                           AfterScore(ctl, ctl.cand, Scored(ctl, out)), "run")
  BY DEF ScorePair
<1>4. AcceptsScore(ctl, ctl.cand, Scored(ctl, out))
  BY <1>1, <1>2 DEF AcceptsScore, Scored
<1>5. /\ ctl' = AfterScore(ctl, ctl.cand, Scored(ctl, out))
      /\ pc' = "run" /\ UNCHANGED <<disk, Beside>>
  BY <1>3, <1>4 DEF ScorePair, AppendTransition, Goto, Beside
<1>6. /\ Moves("scored", ctl.cand, ctl.next + 1, ctl.arms, ctl.mode, ctl.cursor)
      /\ ctl'.scores = [ctl.scores EXCEPT ![ctl.cand] = Append(@, Scored(ctl, out))]
      /\ ctl'.decided = ctl.decided
  BY <1>5 DEF AfterScore, Moves, JournalInv, ReplayState
<1>7. ctl.scores \in [Candidates -> Seq(Observation)]
  BY JournalFields
<1>8. /\ ctl'.scores[ctl.cand] = Append(ctl.scores[ctl.cand], Scored(ctl, out))
      /\ \A c \in Candidates \ {ctl.cand} : ctl'.scores[c] = ctl.scores[c]
  BY <1>1, <1>6, <1>7
<1>9. Len(ctl'.scores[ctl.cand]) = Len(ctl.scores[ctl.cand]) + 1
  <2>1. \A o, s : s \in Seq(Observation) => Len(Append(s, o)) = Len(s) + 1
    OBVIOUS
  <2>2. QED
    BY <1>1, <1>7, <1>8, <2>1
<1>10. QED
  BY <1>1, <1>5, <1>6, <1>8, <1>9

\* A confirmation keeps the candidate and gives it a mode; any other decision
\* drops it.
LEMMA DecideEffect ==
    ASSUME JournalInv, QueueInv, Decide
    PROVE  /\ ctl.phase = "scored" /\ pc = "run" /\ ctl.cand \in Candidates
           /\ \/ /\ Count = 1 /\ Decision \in Confirmations
                 /\ \E mode \in {"standard", "simplification"} :
                        Moves("candidate", ctl.cand, ctl.next, 0, mode, ctl.cursor)
              \/ /\ Decision \in Decisions \ Confirmations
                 /\ Moves("idle", None, ctl.next, 0, "none", ctl.cursor)
           /\ ctl'.scores = ctl.scores /\ ctl'.decided[ctl.cand] = Decision
           /\ \A c \in Candidates \ {ctl.cand} : ctl'.decided[c] = ctl.decided[c]
           /\ pc' = "settle" /\ UNCHANGED <<disk, Beside>>
<1>1. /\ ctl.phase = "scored" /\ pc = "run" /\ ctl.cand \in Candidates
      /\ LatestObservation.eligible
  BY DEF Decide, QueueInv, ActivePhase
<1>2. /\ Observations(ctl) = ctl.scores[ctl.cand] /\ Len(Observations(ctl)) \in {1, 2}
      /\ Len(Observations(ctl)) = Count
      /\ Count = 2 => ctl.mode \in {"standard", "simplification"}
  BY <1>1, StageCounts, JournalFields DEF QueueInv, Count
<1>3. AcceptsDecision(ctl, ctl.cand, Decision)
  BY <1>1, <1>2 DEF AcceptsDecision, Decision, LatestObservation
<1>4. Decision \in Confirmations => Count = 1
  BY <1>2 DEF Decision, Confirmations
<1>5. /\ ctl' = AfterDecision(ctl, ctl.cand, Decision)
      /\ pc' = "settle" /\ UNCHANGED <<disk, Beside>>
  BY <1>3 DEF Decide, AppendTransition, Goto, Beside
<1>6. CASE Decision \in Confirmations
  <2>1. \E mode \in {"standard", "simplification"} :
            /\ Moves("candidate", ctl.cand, ctl.next, 0, mode, ctl.cursor)
            /\ ctl'.scores = ctl.scores
            /\ ctl'.decided = [ctl.decided EXCEPT ![ctl.cand] = Decision]
    BY <1>5, <1>6 DEF AfterDecision, Moves, JournalInv, ReplayState
  <2>2. QED
    BY <1>1, <1>4, <1>5, <1>6, <2>1, JournalFields
<1>7. CASE Decision \notin Confirmations
  <2>1. /\ Moves("idle", None, ctl.next, 0, "none", ctl.cursor)
        /\ ctl'.scores = ctl.scores
        /\ ctl'.decided = [ctl.decided EXCEPT ![ctl.cand] = Decision]
    BY <1>5, <1>7 DEF AfterDecision, Moves, JournalInv, ReplayState
  <2>2. QED
    BY <1>1, <1>5, <1>7, <2>1, JournalFields, DecisionRegistered
<1>8. QED
  BY <1>6, <1>7

LEMMA CloseEffect ==
    ASSUME JournalInv, QueueInv, PlaceInv, KindInv, Complete \/ FailTerminates
    PROVE  /\ ctl.phase # "terminal" /\ pc \in {"settle", "run", "fail"}
           /\ ctl.phase # "new"
           /\ Moves("terminal", ctl.cand, ctl.next, ctl.arms, ctl.mode, ctl.cursor)
           /\ KeepsScores /\ pc' = "return" /\ UNCHANGED <<disk, Beside>>
<1>1. CASE Complete
  <2>1. ctl.phase = "idle" /\ pc \in {"settle", "run"}
    <3>1. CASE pc = "settle" /\ Over
      <4>1. CASE Promoted
        BY <1>1, <3>1, <4>1 DEF PlaceInv, QueueInv
      <4>2. CASE AllRejected
        <5>1. ctl.phase # "candidate"
          BY <4>2 DEF AllRejected, QueueInv, ActivePhase, Confirmations
        <5>2. QED
          BY <3>1, <5>1 DEF PlaceInv
      <4>3. QED
        BY <3>1, <4>1, <4>2 DEF Over
    <3>2. QED
      BY <1>1, <3>1 DEF Complete
  <2>2. ctl' = AfterCompletion(ctl) /\ pc' = "return" /\ UNCHANGED <<disk, Beside>>
    BY <1>1, <2>1 DEF Complete, AcceptsCompletion, AppendTransition, Goto, Beside
  <2>3. QED
    BY <2>1, <2>2 DEF AfterCompletion, Moves, KeepsScores, JournalInv, ReplayState
<1>2. CASE FailTerminates
  <2>1. pc = "fail" /\ ctl.phase \notin {"new", "terminal"}
    BY <1>2 DEF FailTerminates, PlaceInv
  <2>2. \A k, cleanup : AcceptsTermination(ctl, k, cleanup, FALSE)
    BY <2>1 DEF AcceptsTermination, FailureDisposition
  <2>3. ctl' = AfterTermination(ctl, kind) /\ pc' = "return" /\ UNCHANGED <<disk, Beside>>
    BY <1>2, <2>2 DEF FailTerminates, AppendTransition, Goto, Beside
  <2>4. QED
    BY <2>1, <2>3 DEF AfterTermination, Moves, KeepsScores, JournalInv, ReplayState
<1>3. QED
  BY <1>1, <1>2

-----------------------------------------------------------------------------
(* An append keeps the invariant.                                          *)

\* What no append disturbs.
LEMMA AppendFrame ==
    ASSUME CInv, JournalInv', UNCHANGED <<torn, admissions, calib, ack, Beside>>,
           pc \in Inner \cup {"settle", "start", "fail"},
           pc' \in {"reconcile", "run", "settle", "return", "fail"},
           pc' \in Inner => pc \in Inner
    PROVE  TypeOK' /\ WorkInv' /\ AdmissionInv' /\ torn' = "none"
<1> USE DEF Beside, world, procs
<1>1. TypeOK'
  <2>1. TypeOK
    BY DEF CInv
  <2>2. QED
    BY <2>1 DEF TypeOK, JournalInv
<1>2. WorkInv'
  <2>1. WorkInv
    BY DEF CInv
  <2>2. QED
    BY <2>1 DEF WorkInv, Inner
<1>3. AdmissionInv'
  <2>1. AdmissionInv
    BY DEF CInv
  <2>2. QED
    BY <2>1 DEF AdmissionInv, CutoffNeverReopens
<1>4. torn' = "none"
  BY DEF CInv, PlaceInv, Outer, Inner
<1>5. QED
  BY <1>1, <1>2, <1>3, <1>4

LEMMA StartCampaignKeeps ==
    ASSUME CInv, JournalInv, JournalInv', StartCampaign
    PROVE  CInv'
<1>1. /\ Moves("idle", ctl.cand, ctl.next, ctl.arms, ctl.mode, ctl.cursor)
      /\ KeepsScores /\ pc' = "run" /\ UNCHANGED <<disk, Beside>>
  BY StartCampaignEffect
<1>2. ctl.phase = "new" /\ pc = "run"
  BY DEF StartCampaign
<1>3. TypeOK' /\ WorkInv' /\ AdmissionInv' /\ torn' = "none"
  BY <1>1, <1>2, AppendFrame DEF Inner, disk
<1>4. QueueInv'
  BY <1>1, <1>2 DEF CInv, QueueInv, Moves, KeepsScores, ActivePhase, Promoted, Count
<1>5. PlaceInv'
  BY <1>1, <1>3 DEF CInv, PlaceInv, Moves, Places, Inner, Outer, Beside
<1>6. BeginInv'
  BY <1>1, <1>2, JournalFields
     DEF CInv, BeginInv, Moves, ActivePhase, disk, Beside, procs
<1>7. IndexedIsDone'
  BY <1>1 DEF CInv, IndexedIsDone, Moves, KeepsScores, Beside, procs
<1>8. AckInv'
  BY <1>1, <1>2 DEF CInv, AckInv, BeginInv, Moves, disk
<1>9. TargetInv'
  BY <1>1, <1>2 DEF CInv, TargetInv, BeginInv, Moves, AdmittedNow, disk, Beside, Outer, Inner
<1>10. QED
  BY <1>3, <1>4, <1>5, <1>6, <1>7, <1>8, <1>9 DEF CInv

\* A failure before the gate starts the campaign if that has not been done.
LEMMA FailStartsNewKeeps ==
    ASSUME CInv, JournalInv, JournalInv', FailStarts, ctl.phase = "new"
    PROVE  CInv'
<1>1. /\ Moves("idle", ctl.cand, ctl.next, ctl.arms, ctl.mode, ctl.cursor)
      /\ KeepsScores /\ pc = "start" /\ pc' = "fail" /\ UNCHANGED <<disk, Beside>>
  <2>1. /\ ctl' = AfterStart(ctl) /\ pc = "start" /\ pc' = "fail"
        /\ UNCHANGED <<disk, Beside>>
    BY DEF FailStarts, AppendTransition, AcceptsStart, Goto, Beside
  <2>2. QED
    BY <2>1 DEF AfterStart, Moves, KeepsScores, JournalInv, ReplayState
<1>2. TypeOK' /\ WorkInv' /\ AdmissionInv' /\ torn' = "none"
  BY <1>1, AppendFrame DEF Inner, disk
<1>3. QueueInv'
  BY <1>1 DEF CInv, QueueInv, Moves, KeepsScores, ActivePhase, Promoted, Count
<1>4. PlaceInv'
  BY <1>1, <1>2 DEF CInv, PlaceInv, Moves, Places, Inner, Outer, Beside
<1>5. BeginInv'
  BY <1>1, JournalFields
     DEF CInv, BeginInv, Moves, ActivePhase, disk, Beside, procs
<1>6. IndexedIsDone'
  BY <1>1 DEF CInv, IndexedIsDone, Moves, KeepsScores, Beside, procs
<1>7. AckInv'
  BY <1>1 DEF AckInv, Moves
<1>8. TargetInv'
  BY <1>1 DEF CInv, TargetInv, AdmittedNow, Beside, Outer, Inner
<1>9. QED
  BY <1>2, <1>3, <1>4, <1>5, <1>6, <1>7, <1>8 DEF CInv

LEMMA StartCandidateKeeps ==
    ASSUME CInv, JournalInv, JournalInv', StartCandidate
    PROVE  CInv'
<1>1. /\ ctl.cursor + 1 \in Candidates
      /\ Moves("candidate", ctl.cursor + 1, ctl.next, ctl.arms, "none", ctl.cursor + 1)
      /\ KeepsScores /\ pc' = "run" /\ UNCHANGED <<disk, Beside>>
  BY StartCandidateEffect DEF CInv
<1>2. /\ ctl.phase = "idle" /\ pc = "run" /\ calib = "passed" /\ ~Promoted /\ Undecided # {}
      /\ ctl.cand = None /\ ctl.cursor \in Nat
  BY JournalFields DEF StartCandidate, CInv, QueueInv
<1>3. TypeOK' /\ WorkInv' /\ AdmissionInv' /\ torn' = "none"
  BY <1>1, <1>2, AppendFrame DEF Inner, disk
<1>4. Len(ctl.scores[ctl.cursor + 1]) = 0 /\ ctl.decided[ctl.cursor + 1] = "none"
  BY <1>1, <1>2 DEF JournalInv
<1>5. Count' = 0
  BY <1>1, <1>4 DEF Count, Moves, KeepsScores
<1>6. QueueInv'
  <2>1. \A c \in Candidates : c <= ctl.cursor + 1 /\ c # ctl.cursor + 1 => ctl.decided[c] # "none"
    BY <1>2 DEF CInv, QueueInv, Candidates, None
  <2>2. ~Promoted'
    BY <1>1, <1>2 DEF Promoted, KeepsScores
  <2>3. QED
    BY <1>1, <1>4, <1>5, <2>1, <2>2 DEF CInv, QueueInv, Moves, KeepsScores, ActivePhase
<1>7. PlaceInv'
  BY <1>1, <1>3 DEF CInv, PlaceInv, Moves, Places, Inner, Outer, Beside
<1>8. BeginInv'
  BY <1>1, <1>2, JournalFields
     DEF CInv, BeginInv, Moves, ActivePhase, disk, Beside, procs
<1>9. IndexedIsDone'
  BY <1>1 DEF CInv, IndexedIsDone, Moves, KeepsScores, Beside, procs
<1>10. AckInv'
  <2>1. ~Over
    BY <1>2 DEF Over, AllRejected, Undecided
  <2>2. QED
    BY <1>1, <1>2, <2>1 DEF CInv, AckInv, Moves, disk
<1>11. TargetInv'
  <2>1. StageName(ctl') = "screen"
    <3>1. Stage(ctl') = 1
      BY <1>1, <1>5, StageCounts DEF Moves, Count
    <3>2. QED
      BY <3>1 DEF StageName
  <2>2. QED
    BY <1>1, <1>2, <2>1
       DEF CInv, TargetInv, Moves, AdmittedNow, disk, Beside, Outer, Inner
<1>12. QED
  BY <1>3, <1>6, <1>7, <1>8, <1>9, <1>10, <1>11 DEF CInv

LEMMA StartPairKeeps ==
    ASSUME CInv, JournalInv, JournalInv', StartPair, pc' = "run"
    PROVE  CInv'
<1>1. /\ Moves("pair", ctl.cand, ctl.next, 0, ctl.mode, ctl.cursor) /\ KeepsScores
      /\ UNCHANGED <<torn, admissions, calib, ack, Beside>>
  BY StartPairEffect DEF CInv, Fail, FailAt
<1>2. /\ ctl.phase = "candidate" /\ pc = "run" /\ calib = "passed"
      /\ ctl.cand \in Candidates
  BY DEF StartPair, CInv, QueueInv, ActivePhase
<1>3. TypeOK' /\ WorkInv' /\ AdmissionInv' /\ torn' = "none"
  BY <1>1, <1>2, AppendFrame DEF Inner
<1>4. Count' = Count
  BY <1>1 DEF Count, Moves, KeepsScores
<1>5. QueueInv'
  BY <1>1, <1>2, <1>4 DEF CInv, QueueInv, Moves, KeepsScores, ActivePhase, Promoted
<1>6. PlaceInv'
  BY <1>1, <1>3 DEF CInv, PlaceInv, Moves, Places, Inner, Outer, Beside
<1>7. BeginInv'
  BY <1>1, <1>2, JournalFields DEF CInv, BeginInv, Moves, ActivePhase
<1>8. IndexedIsDone'
  BY <1>1 DEF CInv, IndexedIsDone, Moves, KeepsScores, Beside, procs
<1>9. AckInv'
  BY <1>1, <1>2 DEF CInv, AckInv, Moves
<1>10. TargetInv'
  <2>1. StageName(ctl') = StageName(ctl)
    BY <1>1, <1>2, StageCounts DEF Moves, KeepsScores, StageName
  <2>2. QED
    BY <1>1, <1>2, <2>1 DEF CInv, TargetInv, Moves, AdmittedNow, Beside, Outer, Inner
<1>11. QED
  BY <1>3, <1>5, <1>6, <1>7, <1>8, <1>9, <1>10 DEF CInv

LEMMA IndexCellKeeps ==
    ASSUME CInv, JournalInv, JournalInv', NEW place \in {"reconcile", "run"}, pc = place,
           IndexCell(place)
    PROVE  CInv'
<1>1. /\ ctl.phase = "pair" /\ ctl.arms < 2 /\ cells[NextCell] = "done"
      /\ Moves("pair", ctl.cand, ctl.next, ctl.arms + 1, ctl.mode, ctl.cursor)
      /\ KeepsScores /\ pc' = place /\ UNCHANGED <<disk, Beside>>
  BY IndexCellEffect DEF CInv
<1>2. ctl.cand \in Candidates /\ ctl.arms \in 0 .. 1
  BY <1>1, JournalFields DEF CInv, QueueInv, ActivePhase
<1>3. TypeOK' /\ WorkInv' /\ AdmissionInv' /\ torn' = "none"
  BY <1>1, AppendFrame DEF Inner, disk
<1>4. Count' = Count
  BY <1>1 DEF Count, Moves, KeepsScores
<1>5. QueueInv'
  BY <1>1, <1>2, <1>4 DEF CInv, QueueInv, Moves, KeepsScores, ActivePhase, Promoted
<1>6. PlaceInv'
  BY <1>1, <1>3 DEF CInv, PlaceInv, Moves, Places, Inner, Outer, Beside
<1>7. BeginInv'
  BY <1>1, <1>2, JournalFields
     DEF CInv, BeginInv, Moves, ActivePhase, disk, Beside, procs
<1>8. IndexedIsDone'
  <2>1. \A arm : PairCell(ctl', arm) = PairCell(ctl, arm)
    BY <1>1, <1>2, StageCounts DEF PairCell, Moves, KeepsScores
  <2>2. \A i \in 1 .. ctl.arms + 1 : cells[PairCell(ctl, PairOrder(ctl.next)[i])] = "done"
    <3>1. \A i \in 1 .. ctl.arms : cells[PairCell(ctl, PairOrder(ctl.next)[i])] = "done"
      BY <1>1 DEF CInv, IndexedIsDone
    <3>2. cells[PairCell(ctl, PairOrder(ctl.next)[ctl.arms + 1])] = "done"
      BY <1>1 DEF NextCell
    <3>3. \A i \in 1 .. ctl.arms + 1 : i \in 1 .. ctl.arms \/ i = ctl.arms + 1
      BY <1>2
    <3>4. QED
      BY <3>1, <3>2, <3>3
  <2>3. cells' = cells /\ ctl'.next = ctl.next /\ ctl'.arms = ctl.arms + 1
        /\ ctl'.scores = ctl.scores
    BY <1>1 DEF Beside, procs, Moves, KeepsScores
  <2>4. QED
    BY <2>1, <2>2, <2>3 DEF CInv, IndexedIsDone
<1>9. AckInv'
  BY <1>1 DEF CInv, AckInv, Moves, disk
<1>10. TargetInv'
  <2>1. StageName(ctl') = StageName(ctl)
    BY <1>1, <1>2, StageCounts DEF Moves, KeepsScores, StageName
  <2>2. ctl.arms + 1 < 2 => ctl.arms < 2
    BY <1>2
  <2>3. QED
    BY <1>1, <2>1, <2>2 DEF CInv, TargetInv, Moves, AdmittedNow, disk, Beside, Outer, Inner
<1>11. QED
  BY <1>3, <1>5, <1>6, <1>7, <1>8, <1>9, <1>10 DEF CInv

LEMMA ScorePairKeeps ==
    ASSUME CInv, JournalInv, JournalInv', ScorePair
    PROVE  CInv'
<1>1. /\ ctl.phase = "pair" /\ ctl.arms = 2 /\ ctl.cand \in Candidates
      /\ Moves("scored", ctl.cand, ctl.next + 1, ctl.arms, ctl.mode, ctl.cursor)
      /\ Len(ctl'.scores[ctl.cand]) = Len(ctl.scores[ctl.cand]) + 1
      /\ \A c \in Candidates \ {ctl.cand} : ctl'.scores[c] = ctl.scores[c]
      /\ ctl'.decided = ctl.decided
      /\ pc' = "run" /\ UNCHANGED <<disk, Beside>>
  BY ScorePairEffect DEF CInv
<1>2. pc = "run" /\ Count \in {0, 1} /\ (Count = 1 => ctl.mode # "none")
  BY <1>1 DEF ScorePair, CInv, QueueInv
<1>3. TypeOK' /\ WorkInv' /\ AdmissionInv' /\ torn' = "none"
  BY <1>1, <1>2, AppendFrame DEF Inner, disk
<1>4. Count' = Count + 1
  BY <1>1 DEF Count, Moves
<1>5. QueueInv'
  <2>1. \A c \in Candidates : Len(ctl'.scores[c]) <= 2
    <3>1. ASSUME NEW c \in Candidates PROVE Len(ctl'.scores[c]) <= 2
      <4>1. CASE c = ctl.cand
        <5>1. Len(ctl'.scores[c]) = Count + 1
          BY <1>1, <4>1 DEF Count
        <5>2. QED
          BY <1>2, <5>1
      <4>2. CASE c # ctl.cand
        BY <1>1, <4>2 DEF CInv, QueueInv
      <4>3. QED
        BY <4>1, <4>2
    <3>2. QED
      BY <3>1
  <2>2. Count' \in {1, 2} /\ (Count' = 2 => ctl.mode # "none")
    BY <1>2, <1>4
  <2>3. ~Promoted'
    BY <1>1 DEF CInv, QueueInv, Promoted
  <2>4. QED
    BY <1>1, <2>1, <2>2, <2>3 DEF CInv, QueueInv, Moves, ActivePhase
<1>6. PlaceInv'
  BY <1>1, <1>3 DEF CInv, PlaceInv, Moves, Places, Inner, Outer, Beside
<1>7. BeginInv'
  BY <1>1, <1>2, JournalFields
     DEF CInv, BeginInv, Moves, ActivePhase, disk, Beside, procs
<1>8. IndexedIsDone'
  <2>1. \A arm \in Arms : cells[<<<<ctl.cand, Count + 1>>, arm>>] = "done"
    <3>1. ASSUME NEW arm \in Arms
          PROVE  cells[<<<<ctl.cand, Count + 1>>, arm>>] = "done"
      <4>1. PICK k \in 1 .. 2 : arm = PairOrder(ctl.next)[k]
        BY ArmsCovered
      <4>2. cells[PairCell(ctl, arm)] = "done"
        BY <1>1, <4>1 DEF CInv, IndexedIsDone
      <4>3. QED
        BY <1>1, <4>2, ActiveCell DEF CInv
    <3>2. QED
      BY <3>1
  <2>2. ASSUME NEW c \in Candidates, NEW i \in 1 .. Len(ctl'.scores[c]), NEW arm \in Arms
        PROVE  cells[<<<<c, i>>, arm>>] = "done"
    <3>1. CASE c = ctl.cand /\ i = Count + 1
      BY <2>1, <3>1
    <3>2. CASE ~(c = ctl.cand /\ i = Count + 1)
      <4>1. i \in 1 .. Len(ctl.scores[c])
        BY <1>1, <1>2, <2>2, <3>2 DEF Count
      <4>2. QED
        BY <4>1 DEF CInv, IndexedIsDone
    <3>3. QED
      BY <3>1, <3>2
  <2>3. QED
    BY <1>1, <2>2 DEF IndexedIsDone, Moves, Beside, procs
<1>9. AckInv'
  BY <1>1 DEF CInv, AckInv, Moves, disk
<1>10. TargetInv'
  BY <1>1, <1>2 DEF CInv, TargetInv, Moves, AdmittedNow, disk, Beside, Outer, Inner
<1>11. QED
  BY <1>3, <1>5, <1>6, <1>7, <1>8, <1>9, <1>10 DEF CInv

LEMMA DecideKeeps ==
    ASSUME CInv, JournalInv, JournalInv', Decide
    PROVE  CInv'
<1>1. /\ ctl.phase = "scored" /\ pc = "run" /\ ctl.cand \in Candidates
      /\ \/ /\ Count = 1 /\ Decision \in Confirmations
            /\ \E mode \in {"standard", "simplification"} :
                   Moves("candidate", ctl.cand, ctl.next, 0, mode, ctl.cursor)
         \/ /\ Decision \in Decisions \ Confirmations
            /\ Moves("idle", None, ctl.next, 0, "none", ctl.cursor)
      /\ ctl'.scores = ctl.scores /\ ctl'.decided[ctl.cand] = Decision
      /\ \A c \in Candidates \ {ctl.cand} : ctl'.decided[c] = ctl.decided[c]
      /\ pc' = "settle" /\ UNCHANGED <<disk, Beside>>
  BY DecideEffect DEF CInv
<1>2. /\ ctl'.phase \in {"idle", "candidate"}
      /\ ctl'.next = ctl.next /\ ctl'.cursor = ctl.cursor /\ ctl'.events = ctl.events + 1
      /\ ctl'.phase = "candidate" => ctl'.mode # "none" /\ ctl'.cand = ctl.cand /\ Count = 1
      /\ ctl'.phase = "candidate" => Decision \in Confirmations
      /\ ctl'.phase = "idle" => ctl'.cand = None /\ Decision \in Decisions
  BY <1>1 DEF Moves
<1>3. TypeOK' /\ WorkInv' /\ AdmissionInv' /\ torn' = "none"
  BY <1>1, AppendFrame DEF Inner, disk
<1>4. ctl'.phase = "candidate" => Count' = 1
  BY <1>1, <1>2 DEF Count
<1>5. QueueInv'
  <2>1. ~Promoted
    BY <1>1 DEF CInv, QueueInv
  <2>2. Decision \in Confirmations => Decision \notin Promotions /\ Decision # "none"
    BY DEF Confirmations, Promotions
  <2>3. Decision \in Decisions => Decision # "none"
    BY DEF Decisions
  <2>4. Promoted' => ctl'.phase = "idle"
    BY <1>1, <1>2, <2>1, <2>2 DEF Promoted
  <2>5. \A c \in Candidates : c <= ctl'.cursor /\ c # ctl'.cand => ctl'.decided[c] # "none"
    <3>1. \A c \in Candidates \ {ctl.cand} : c <= ctl.cursor => ctl.decided[c] # "none"
      BY DEF CInv, QueueInv
    <3>2. ctl'.decided[ctl.cand] # "none"
      BY <1>1, <2>2, <2>3
    <3>3. QED
      BY <1>1, <1>2, <3>1, <3>2
  <2>6. /\ \A c \in Candidates : Len(ctl'.scores[c]) <= 2
        /\ ctl'.phase \in ActivePhase =>
               ctl'.cand \in Candidates /\ ctl'.decided[ctl'.cand] \in {"none"} \cup Confirmations
    BY <1>1, <1>2 DEF CInv, QueueInv, ActivePhase
  <2>7. QED
    BY <1>2, <1>4, <2>4, <2>5, <2>6 DEF QueueInv
<1>6. PlaceInv'
  BY <1>1, <1>2, <1>3 DEF CInv, PlaceInv, Places, Inner, Outer, Beside
<1>7. BeginInv'
  BY <1>1, <1>2, JournalFields
     DEF CInv, BeginInv, ActivePhase, disk, Beside, procs
<1>8. IndexedIsDone'
  BY <1>1, <1>2 DEF CInv, IndexedIsDone, Beside, procs
<1>9. AckInv'
  BY <1>1, <1>2, <1>4 DEF AckInv
<1>10. TargetInv'
  BY <1>1 DEF CInv, TargetInv, AdmittedNow, Beside, Outer, Inner
<1>11. QED
  BY <1>3, <1>5, <1>6, <1>7, <1>8, <1>9, <1>10 DEF CInv

LEMMA CloseKeeps ==
    ASSUME CInv, KindInv, JournalInv, JournalInv', Complete \/ FailTerminates
    PROVE  CInv'
<1>1. /\ ctl.phase # "terminal" /\ pc \in {"settle", "run", "fail"}
      /\ ctl.phase # "new"
      /\ Moves("terminal", ctl.cand, ctl.next, ctl.arms, ctl.mode, ctl.cursor)
      /\ KeepsScores /\ pc' = "return" /\ UNCHANGED <<disk, Beside>>
  BY CloseEffect DEF CInv
<1>2. TypeOK' /\ WorkInv' /\ AdmissionInv' /\ torn' = "none"
  BY <1>1, AppendFrame DEF Inner, disk
<1>3. QueueInv'
  BY <1>1 DEF CInv, QueueInv, Moves, KeepsScores, ActivePhase
<1>4. PlaceInv'
  BY <1>1, <1>2 DEF CInv, PlaceInv, Moves, Places, Inner, Outer, Beside
<1>5. BeginInv'
  BY <1>1, JournalFields DEF CInv, BeginInv, Moves, ActivePhase, disk
<1>6. IndexedIsDone'
  BY <1>1 DEF CInv, IndexedIsDone, Moves, KeepsScores, Beside, procs
<1>7. AckInv'
  BY <1>1 DEF AckInv, Moves
<1>8. TargetInv'
  BY <1>1 DEF CInv, TargetInv, AdmittedNow, Beside, Outer, Inner
<1>9. QED
  BY <1>2, <1>3, <1>4, <1>5, <1>6, <1>7, <1>8 DEF CInv

-----------------------------------------------------------------------------
(* A step that appends nothing keeps the invariant.                        *)

LEMMA QueueKept ==
    ASSUME QueueInv, ctl' = ctl
    PROVE  QueueInv'
  BY DEF QueueInv, Promoted, Count

\* A cell that has run to its end stays so.
LEMMA DoneKept ==
    ASSUME CInv, JournalInv, ctl' = ctl,
           \A c \in CellIds : cells[c] = "done" => cells'[c] = "done"
    PROVE  IndexedIsDone'
<1>1. ASSUME NEW c \in Candidates, NEW i \in 1 .. Len(ctl.scores[c]), NEW arm \in Arms
      PROVE  cells'[<<<<c, i>>, arm>>] = "done"
  <2>1. Len(ctl.scores[c]) <= 2 /\ Len(ctl.scores[c]) \in Nat
    BY JournalFields DEF CInv, QueueInv
  <2>2. i \in 1 .. 2
    BY <2>1
  <2>3. cells[<<<<c, i>>, arm>>] = "done"
    BY DEF CInv, IndexedIsDone
  <2>4. QED
    BY <2>2, <2>3, CellOfPair
<1>2. ASSUME ctl.phase = "pair", NEW i \in 1 .. ctl.arms
      PROVE  cells'[PairCell(ctl, PairOrder(ctl.next)[i])] = "done"
  <2>1. PairOrder(ctl.next)[i] \in Arms
    BY JournalFields, ArmOfPair
  <2>2. cells[PairCell(ctl, PairOrder(ctl.next)[i])] = "done"
    BY <1>2 DEF CInv, IndexedIsDone
  <2>3. QED
    BY <1>2, <2>1, <2>2, ActiveCell DEF CInv
<1>3. QED
  BY <1>1, <1>2 DEF IndexedIsDone

\* A step that only moves the invocation.
Only == ctl' = ctl /\ UNCHANGED <<disk, world, procs>>

LEMMA OnlyFrame ==
    ASSUME CInv, KindInv', Only
    PROVE  TypeOK' /\ QueueInv' /\ IndexedIsDone' /\ AdmissionInv'
<1> USE DEF Only, disk, world, procs
<1>1. TypeOK'
  <2>1. TypeOK
    BY DEF CInv
  <2>2. QED
    BY <2>1 DEF TypeOK, KindInv
<1>2. QueueInv'
  BY QueueKept DEF CInv
<1>3. IndexedIsDone'
  BY DEF CInv, IndexedIsDone
<1>4. AdmissionInv'
  <2>1. AdmissionInv
    BY DEF CInv
  <2>2. QED
    BY <2>1 DEF AdmissionInv, CutoffNeverReopens
<1>5. QED
  BY <1>1, <1>2, <1>3, <1>4

\* The invocation ends, or fails where the campaign can be terminated, or started
\* and terminated.
Ended == pc' = "down" /\ kind' = "none" /\ run' = NoRun /\ result' # "rejected"
Failed ==
    /\ pc' \in {"start", "fail"} /\ result' = result
    /\ \E clean \in BOOLEAN : run' = [run EXCEPT !.clean = clean]
    /\ ctl.phase # "terminal" /\ torn' = "none"
    /\ pc' = "fail" => ctl.phase # "new"

LEMMA FailAtFails ==
    ASSUME TargetInv, NEW place \in {"start", "fail"}, NEW k, FailAt(place, k),
           ctl.phase # "terminal", torn' = "none", place = "fail" => ctl.phase # "new"
    PROVE  Failed
<1>1. run \in Runs /\ run' = run
  BY DEF TargetInv, FailAt
<1>2. run' = [run EXCEPT !.clean = run.clean] /\ run.clean \in BOOLEAN
  BY <1>1 DEF Runs
<1>3. QED
  BY <1>2 DEF Failed, FailAt

LEMMA FinishEnds ==
    ASSUME NEW r, r # "rejected", Finish(r)
    PROVE  Ended
  BY DEF Finish, Ended

LEMMA NoRunFits == NoRun \in Runs
  BY DEF NoRun, NoTarget, Runs, Targets, None

LEMMA EndPlaces ==
    ASSUME CInv, ctl' = ctl, Ended \/ Failed
    PROVE  PlaceInv' /\ TargetInv'
<1>1. CASE Ended
  <2>1. PlaceInv'
    BY <1>1 DEF Ended, PlaceInv, Places, Inner, Outer
  <2>2. TargetInv'
    <3>1. run'.launched = {}
      BY <1>1 DEF Ended, NoRun
    <3>2. QED
      BY <1>1, <3>1, NoRunFits DEF Ended, TargetInv, AdmittedNow
  <2>3. QED
    BY <2>1, <2>2
<1>2. CASE Failed
  <2>1. /\ pc' \in {"start", "fail"} /\ result' = result /\ run' \in Runs
        /\ run'.launched = run.launched /\ run'.target = run.target
    BY <1>2 DEF Failed, CInv, TargetInv, Runs
  <2>2. PlaceInv'
    BY <1>2, <2>1 DEF Failed, CInv, PlaceInv, Places, Inner, Outer
  <2>3. TargetInv'
    BY <2>1 DEF CInv, TargetInv, AdmittedNow, Inner, Outer
  <2>4. QED
    BY <2>2, <2>3
<1>3. QED
  BY <1>1, <1>2

\* The worker, the beginning and the acknowledgement, when the invocation ends.
LEMMA EndRest ==
    ASSUME CInv, ctl' = ctl, Ended \/ Failed
    PROVE  /\ UNCHANGED <<rec, alive>> => WorkInv'
           /\ UNCHANGED <<starts, calib, rec, cells>> => BeginInv'
           /\ UNCHANGED ack => AckInv'
<1>1. pc' \in {"down", "start", "fail"}
  BY DEF Ended, Failed
<1>2. UNCHANGED <<rec, alive>> => WorkInv'
  BY <1>1 DEF CInv, WorkInv, Inner
<1>3. UNCHANGED <<starts, calib, rec, cells>> => BeginInv'
  BY <1>1 DEF CInv, BeginInv
<1>4. UNCHANGED ack => AckInv'
  BY <1>1 DEF CInv, AckInv, Count
<1>5. QED
  BY <1>2, <1>3, <1>4

LEMMA OnlyEnds ==
    ASSUME CInv, KindInv', Only, Ended \/ Failed
    PROVE  CInv'
<1>1. TypeOK' /\ QueueInv' /\ IndexedIsDone' /\ AdmissionInv'
  BY OnlyFrame
<1>2. PlaceInv' /\ TargetInv'
  BY EndPlaces DEF Only
<1>3. WorkInv' /\ BeginInv' /\ AckInv'
  BY EndRest DEF Only, disk, procs
<1>4. QED
  BY <1>1, <1>2, <1>3 DEF CInv

LEMMA EndingKeeps ==
    ASSUME CInv, KindInv', Only,
           LoadRefused \/ LoadTerminal \/ GateBlocks \/ AdmissionRaises \/ Return \/ AckRefused
    PROVE  CInv'
<1>1. Ended
  BY FinishEnds DEF LoadRefused, LoadTerminal, GateBlocks, AdmissionRaises, Return, AckRefused
<1>2. QED
  BY <1>1, OnlyEnds

\* Before the gate the campaign need not have begun.
LEMMA EarlyFailingKeeps ==
    ASSUME CInv, KindInv', Only,
           LoadFails \/ ReconcileFails \/ (CalibrationFails /\ pc = "calibration")
    PROVE  CInv'
<1>1. ctl.phase # "terminal" /\ torn' = "none"
  BY DEF LoadFails, Unsafe, ReconcileFails, CInv, PlaceInv, Inner, Outer, Only, disk
<1>2. Failed
  <2>1. CASE LoadFails
    BY <1>1, <2>1 DEF LoadFails, Failed
  <2>2. CASE ReconcileFails \/ (CalibrationFails /\ pc = "calibration")
    <3>1. \E k : FailAt("start", k)
      BY <2>2 DEF ReconcileFails, IndexFails, CalibrationFails, CalibrationHandler
    <3>2. QED
      BY <1>1, <3>1, FailAtFails DEF CInv
  <2>3. QED
    BY <2>1, <2>2
<1>3. QED
  BY <1>2, OnlyEnds

LEMMA FailingKeeps ==
    ASSUME CInv, JournalInv, KindInv', Only,
           \/ CompleteCellFails \/ (CalibrationFails /\ pc = "run")
           \/ LaunchRefused \/ ScoreIneligible \/ (StartPair /\ Fail("audit"))
           \/ (FailStarts /\ ctl.phase # "new")
    PROVE  CInv'
<1>1. CASE FailStarts /\ ctl.phase # "new"
  <2>1. pc = "start" /\ Goto("fail")
    BY <1>1 DEF FailStarts
  <2>2. ctl.phase # "terminal" /\ torn' = "none"
    BY <2>1 DEF CInv, PlaceInv, Outer, Only, disk
  <2>3. Failed
    <3>1. run \in Runs
      BY DEF CInv, TargetInv
    <3>2. run' = [run EXCEPT !.clean = run.clean] /\ run.clean \in BOOLEAN
      BY <2>1, <3>1 DEF Runs, Goto
    <3>3. QED
      BY <1>1, <2>1, <2>2, <3>2 DEF Failed, Goto
  <2>4. QED
    BY <2>3, OnlyEnds
<1>2. CASE ~(FailStarts /\ ctl.phase # "new")
  <2>1. (\E k : FailAt("fail", k)) /\ pc = "run"
    BY <1>2 DEF CompleteCellFails, CalibrationFails, CalibrationHandler, LaunchRefused,
                ScoreIneligible, StartPair, IndexFails, Fail
  <2>2. ctl.phase # "terminal" /\ torn' = "none"
    BY <2>1 DEF CInv, PlaceInv, Inner, Outer, Only, disk
  <2>3. ctl.phase # "new"
    <3>1. CASE CalibrationFails
      <4>1. SUFFICES ASSUME ctl.phase = "new" PROVE FALSE
        OBVIOUS
      <4>2. calib = "none" /\ \A arm \in Arms : cells[Calibration(arm)] = "empty"
        BY <4>1, CellOfCalibration DEF CInv, BeginInv
      <4>3. QED
        BY <3>1, <4>2 DEF CalibrationFails, CalibrationBroken
    <3>2. CASE LaunchRefused
      BY <3>2 DEF LaunchRefused, LaunchTarget
    <3>3. QED
      BY <1>2, <3>1, <3>2
         DEF CompleteCellFails, IndexFails, RawPrefix, ScoreIneligible, StartPair
  <2>4. Failed
    BY <2>1, <2>2, <2>3, FailAtFails DEF CInv
  <2>5. QED
    BY <2>4, OnlyEnds
<1>3. QED
  BY <1>1, <1>2

\* Once the calibration is recorded, the newest completion is that of the last pair,
\* or of the calibration itself.
LEMMA CompletionIs ==
    ASSUME JournalInv
    PROVE  /\ LatestCompletion \in Nat
           /\ calib # "none" => LatestCompletion = ctl.next + 1
<1>1. ctl.next \in Nat
  BY JournalFields
<1>2. QED
  BY <1>1 DEF LatestCompletion

\* The gate is required wherever the next pair is not yet covered.
LEMMA GateCovers ==
    ASSUME CInv, JournalInv, GatePasses,
           \/ ctl.phase = "candidate" /\ Count # 0
           \/ ctl.phase = "idle" /\ calib = "passed" /\ ~Over
    PROVE  ack.seq = ctl.next + 1
<1>1. calib = "passed"
  BY DEF CInv, BeginInv, TypeOK, GatePasses, ActivePhase
<1>2. CheckpointGateRequired
  <2>1. CASE ctl.phase = "candidate" /\ Count # 0
    <3>1. ctl.cand \in Candidates /\ Count = 1 /\ ctl.mode # "none"
      BY <2>1 DEF CInv, QueueInv, ActivePhase
    <3>2. Stage(ctl) = Count + 1
      BY <3>1, StageCounts DEF Count
    <3>3. QED
      BY <1>1, <2>1, <3>1, <3>2 DEF CheckpointGateRequired
  <2>2. CASE ctl.phase = "idle" /\ calib = "passed" /\ ~Over
    BY <2>2 DEF CheckpointGateRequired, Over
  <2>3. QED
    BY <2>1, <2>2
<1>3. QED
  BY <1>1, <1>2, CompletionIs DEF GatePasses, GateReady

LEMMA GoingOnKeeps ==
    ASSUME CInv, JournalInv, KindInv', Only,
           \/ InvokeRun \/ InvokeAck \/ RecoverNothing \/ RecoveryFails \/ LoadContinues
           \/ ReconcileDone \/ CalibrationSettled \/ GatePasses \/ NothingToAdmit \/ AckVerify
    PROVE  CInv'
<1> USE DEF Only, disk, procs
<1>1. TypeOK' /\ QueueInv' /\ IndexedIsDone' /\ AdmissionInv'
  BY OnlyFrame
<1>2. CASE InvokeRun \/ InvokeAck
  <2>1. /\ pc = "down" /\ pc' \in {"recover", "ack_recover"} /\ run' = NoRun
        /\ kind' = kind /\ result' = "none"
    BY <1>2 DEF InvokeRun, InvokeAck, Invoke
  <2>2. PlaceInv'
    BY <2>1 DEF CInv, PlaceInv, Places, Inner, Outer
  <2>3. BeginInv' /\ WorkInv'
    BY <2>1 DEF CInv, BeginInv, WorkInv, Inner
  <2>4. AckInv'
    BY <2>1 DEF CInv, AckInv, Count
  <2>5. TargetInv'
    <3>1. run'.launched = {}
      BY <2>1 DEF NoRun
    <3>2. QED
      BY <2>1, <3>1, NoRunFits DEF TargetInv, AdmittedNow
  <2>6. QED
    BY <1>1, <2>2, <2>3, <2>4, <2>5 DEF CInv
<1>3. CASE RecoverNothing \/ RecoveryFails
  <2>1. /\ pc \in {"recover", "ack_recover"} /\ pc' \in {"load", "ack"}
        /\ run' = run /\ result' = result
        /\ rec = NoCell \/ kind' # "none"
    BY <1>3 DEF RecoverNothing, RecoveryFails, RecoveryFailures, CellFailures,
                AfterRecovery, Goto
  <2>2. PlaceInv'
    BY <2>1 DEF CInv, PlaceInv, Places, Inner, Outer
  <2>3. BeginInv' /\ WorkInv'
    BY <2>1 DEF CInv, BeginInv, WorkInv, Inner
  <2>4. AckInv'
    BY <2>1 DEF CInv, AckInv, Count
  <2>5. TargetInv'
    BY <2>1 DEF CInv, TargetInv, AdmittedNow, Outer, Inner
  <2>6. QED
    BY <1>1, <2>2, <2>3, <2>4, <2>5 DEF CInv
<1>4. CASE LoadContinues \/ ReconcileDone \/ CalibrationSettled
  <2>1. /\ pc \in {"load", "reconcile", "calibration"}
        /\ pc' \in {"reconcile", "calibration", "gate"}
        /\ pc' = "gate" => calib # "failed"
        /\ pc = "load" => torn = "none" /\ ctl.phase # "terminal" /\ kind = "none"
        /\ kind' = kind /\ run' = run /\ result' = result
    BY <1>4 DEF LoadContinues, ReconcileDone, CalibrationSettled, Goto, CalibrationBroken,
                Unsafe, LoadFailure
  <2>2. PlaceInv'
    BY <2>1 DEF CInv, PlaceInv, Places, Inner, Outer
  <2>3. BeginInv' /\ WorkInv'
    BY <2>1 DEF CInv, BeginInv, WorkInv, Inner
  <2>4. AckInv'
    BY <2>1 DEF CInv, AckInv, Count
  <2>5. TargetInv'
    BY <2>1 DEF CInv, TargetInv, AdmittedNow, Outer, Inner
  <2>6. QED
    BY <1>1, <2>2, <2>3, <2>4, <2>5 DEF CInv
<1>5. CASE GatePasses
  <2>1. pc = "gate" /\ pc' = "admit" /\ kind' = kind /\ run' = run /\ result' = result
    BY <1>5 DEF GatePasses, Goto
  <2>2. PlaceInv'
    BY <2>1 DEF CInv, PlaceInv, Places, Inner, Outer
  <2>3. BeginInv' /\ WorkInv'
    BY <2>1 DEF CInv, BeginInv, WorkInv, Inner
  <2>4. AckInv'
    <3>1. Count' = Count /\ Over' = Over
      BY DEF Count, Over, Promoted, AllRejected
    <3>2. QED
      BY <1>5, <2>1, <3>1, GateCovers DEF CInv, AckInv
  <2>5. TargetInv'
    BY <2>1 DEF CInv, TargetInv, AdmittedNow, Outer, Inner
  <2>6. QED
    BY <1>1, <2>2, <2>3, <2>4, <2>5 DEF CInv
<1>6. CASE NothingToAdmit
  <2>1. /\ pc = "admit" /\ NextTarget = NoTarget
        /\ pc' = "run" /\ kind' = kind /\ run' = run /\ result' = result
    BY <1>6 DEF NothingToAdmit, Goto
  <2>2. PlaceInv'
    BY <2>1 DEF CInv, PlaceInv, Places, Inner, Outer
  <2>3. BeginInv' /\ WorkInv'
    BY <2>1 DEF CInv, BeginInv, WorkInv, Inner
  <2>4. AckInv'
    <3>1. Count' = Count /\ Over' = Over
      BY DEF Count, Over, Promoted, AllRejected
    <3>2. QED
      BY <2>1, <3>1 DEF CInv, AckInv
  <2>5. TargetInv'
    <3>1. StageName(ctl) # "none"
      BY DEF StageName
    <3>2. /\ calib # "none" /\ ctl.phase # "candidate"
          /\ ~(ctl.phase = "pair" /\ ctl.arms < 2)
          /\ ~(ctl.phase = "idle" /\ ~Promoted /\ Undecided # {})
      BY <2>1, <3>1 DEF NextTarget, NoTarget, Target
    <3>3. Promoted' = Promoted /\ Undecided' = Undecided
      BY DEF Promoted, Undecided
    <3>4. QED
      BY <2>1, <3>2, <3>3 DEF CInv, TargetInv, AdmittedNow, Outer, Inner
  <2>6. QED
    BY <1>1, <2>2, <2>3, <2>4, <2>5 DEF CInv
<1>7. CASE AckVerify
  <2>1. /\ pc = "ack" /\ pc' = "ack_write" /\ kind' = kind /\ result' = result
        /\ run' = [run EXCEPT !.seen = version]
    BY <1>7 DEF AckVerify
  <2>2. PlaceInv'
    BY <2>1 DEF CInv, PlaceInv, Places, Inner, Outer
  <2>3. BeginInv' /\ WorkInv'
    BY <2>1 DEF CInv, BeginInv, WorkInv, Inner
  <2>4. AckInv'
    BY <2>1 DEF CInv, AckInv, Count
  <2>5. TargetInv'
    <3>1. run \in Runs /\ version \in Nat
      BY BoundsAssumption DEF CInv, TargetInv, TypeOK
    <3>2. /\ run' \in Runs
          /\ run'.launched = run.launched
      BY <2>1, <3>1 DEF Runs
    <3>3. run.launched = {}
      BY <2>1 DEF CInv, TargetInv, Outer
    <3>4. QED
      BY <2>1, <3>2, <3>3 DEF TargetInv, AdmittedNow
  <2>6. QED
    BY <1>1, <2>2, <2>3, <2>4, <2>5 DEF CInv
<1>8. QED
  BY <1>2, <1>3, <1>4, <1>5, <1>6, <1>7

\* Nothing of a journal that is done is lost when its worker is killed.
LEMMA KilledKeeps ==
    ASSUME NEW raw \in Raw
    PROVE  /\ \A r \in Killed(raw) : r \in Raw
           /\ \A r \in Killed("done") : r = "done"
  BY DEF Killed, Raw

\* The steps of a worker, and of an invocation that puts one down: one cell changes,
\* and not if it is done.
LEMMA CellWritten ==
    ASSUME CInv, JournalInv, ctl' = ctl, NEW c \in CellIds, NEW raw \in Raw,
           cells[c] # "done" \/ raw = "done",
           cells' = [cells EXCEPT ![c] = raw]
    PROVE  cells' \in [CellIds -> Raw] /\ IndexedIsDone'
<1>1. cells \in [CellIds -> Raw]
  BY DEF CInv, TypeOK
<1>2. \A d \in CellIds : cells[d] = "done" => cells'[d] = "done"
  BY <1>1
<1>3. QED
  BY <1>1, <1>2, DoneKept

LEMMA AdmissionKept ==
    ASSUME AdmissionInv, admissions' = admissions
    PROVE  AdmissionInv'
  BY DEF AdmissionInv, CutoffNeverReopens

LEMMA OverKept ==
    ASSUME ctl' = ctl
    PROVE  Count' = Count /\ Over' = Over /\ Promoted' = Promoted /\ Undecided' = Undecided
  BY DEF Count, Over, Promoted, AllRejected, Undecided

LEMMA RecoverWorkerKeeps ==
    ASSUME CInv, JournalInv, KindInv', RecoverWorker
    PROVE  CInv'
<1>1. /\ pc \in {"recover", "ack_recover"} /\ rec # NoCell /\ rec \in CellIds
      /\ pc' \in {"load", "ack"} /\ rec' = NoCell /\ alive' = alive \ {rec}
      /\ ctl' = ctl /\ UNCHANGED <<disk, world, firstStart, launches, run, result>>
  BY DEF RecoverWorker, AfterRecovery, CInv, WorkInv
<1>2. PICK raw \in Killed(cells[rec]) : cells' = [cells EXCEPT ![rec] = raw]
  BY DEF RecoverWorker
<1>3. cells' \in [CellIds -> Raw] /\ IndexedIsDone'
  <2>1. cells[rec] \in Raw
    BY <1>1 DEF CInv, TypeOK
  <2>2. raw \in Raw /\ (cells[rec] # "done" \/ raw = "done")
    BY <1>2, <2>1, KilledKeeps
  <2>3. QED
    BY <1>1, <1>2, <2>2, CellWritten
<1>4. TypeOK'
  <2>1. TypeOK
    BY DEF CInv
  <2>2. QED
    BY <1>1, <1>3, <2>1 DEF TypeOK, disk, world, KindInv
<1>5. ctl.phase # "new"
  BY <1>1 DEF CInv, BeginInv
<1>6. PlaceInv'
  BY <1>1 DEF CInv, PlaceInv, Places, Inner, Outer, disk
<1>7. BeginInv' /\ WorkInv'
  BY <1>1, <1>5 DEF CInv, BeginInv, WorkInv, Inner, disk
<1>8. AckInv'
  BY <1>1, OverKept DEF CInv, AckInv, disk
<1>9. TargetInv'
  BY <1>1 DEF CInv, TargetInv, AdmittedNow, Outer, Inner
<1>10. QED
  BY <1>1, <1>3, <1>4, <1>6, <1>7, <1>8, <1>9, QueueKept, AdmissionKept DEF CInv, disk

LEMMA RecordCalibrationKeeps ==
    ASSUME CInv, JournalInv, KindInv', RecordCalibration
    PROVE  CInv'
<1>1. /\ pc \in {"calibration", "run"} /\ calib = "none" /\ ControlsDone
      /\ calib' \in {"passed", "failed"} /\ ctl' = ctl
      /\ UNCHANGED <<torn, admissions, starts, ack, world, procs>>
  BY DEF RecordCalibration
<1>2. ctl.phase \notin {"new", "terminal"} /\ torn = "none"
  <2>1. ctl.phase # "new"
    <3>1. "champion" \in Arms
      BY DEF Arms
    <3>2. cells[Calibration("champion")] = "done" /\ Calibration("champion") \in CellIds
      BY <1>1, <3>1, CellOfCalibration DEF ControlsDone
    <3>3. QED
      BY <3>2 DEF CInv, BeginInv
  <2>2. QED
    BY <1>1, <2>1 DEF CInv, PlaceInv, Inner, Outer
<1>3. Ended \/ Failed
  <2>1. CASE Finish("summary")
    BY <2>1, FinishEnds
  <2>2. CASE FailAt(CalibrationHandler, "measurement")
    <3>1. CalibrationHandler \in {"start", "fail"} /\ torn' = "none"
      BY <1>1, <1>2 DEF CalibrationHandler
    <3>2. QED
      BY <1>2, <2>2, <3>1, FailAtFails DEF CInv
  <2>3. QED
    BY <2>1, <2>2 DEF RecordCalibration
<1>4. TypeOK'
  <2>1. TypeOK
    BY DEF CInv
  <2>2. QED
    BY <1>1, <2>1 DEF TypeOK, world, procs, KindInv
<1>5. IndexedIsDone'
  BY <1>1, DoneKept DEF procs
<1>6. PlaceInv' /\ TargetInv'
  BY <1>1, <1>3, EndPlaces
<1>7. WorkInv' /\ AckInv'
  BY <1>1, <1>3, EndRest DEF procs
<1>8. BeginInv'
  BY <1>1, <1>2, <1>3 DEF CInv, BeginInv, Ended, Failed
<1>9. QED
  BY <1>1, <1>4, <1>5, <1>6, <1>7, <1>8, QueueKept, AdmissionKept DEF CInv

LEMMA CellReturnsKeeps ==
    ASSUME CInv, JournalInv, KindInv', CellReturns
    PROVE  CInv'
<1>1. /\ pc = "wait" /\ rec \notin alive /\ rec' = NoCell /\ pc' = "run" /\ ctl' = ctl
      /\ UNCHANGED <<disk, world, cells, firstStart, alive, launches, kind, run, result>>
  BY DEF CellReturns, Goto
<1>2. TypeOK'
  <2>1. TypeOK
    BY DEF CInv
  <2>2. QED
    BY <1>1, <2>1 DEF TypeOK, disk, world
<1>3. IndexedIsDone'
  BY <1>1, DoneKept
<1>4. PlaceInv'
  BY <1>1 DEF CInv, PlaceInv, Places, Inner, Outer, disk
<1>5. BeginInv' /\ WorkInv'
  BY <1>1 DEF CInv, BeginInv, WorkInv, Inner, disk
<1>6. AckInv'
  BY <1>1, OverKept DEF CInv, AckInv, disk
<1>7. TargetInv'
  BY <1>1, OverKept DEF CInv, TargetInv, AdmittedNow, Outer, Inner, disk
<1>8. QED
  BY <1>1, <1>2, <1>3, <1>4, <1>5, <1>6, <1>7, QueueKept, AdmissionKept DEF CInv, disk

LEMMA CellFailsKeeps ==
    ASSUME CInv, JournalInv, KindInv', CellFails
    PROVE  CInv'
<1>1. /\ pc = "wait" /\ rec \in CellIds /\ ctl' = ctl /\ (\E k : Fail(k))
      /\ UNCHANGED <<disk, world, firstStart, launches>>
  BY DEF CellFails, CInv, WorkInv
<1>2. \/ /\ \E raw \in Killed(cells[rec]) : cells' = [cells EXCEPT ![rec] = raw]
         /\ alive' = alive \ {rec} /\ rec' = NoCell
      \/ UNCHANGED <<cells, alive, rec>>
  BY DEF CellFails
<1>3. cells' \in [CellIds -> Raw] /\ IndexedIsDone'
  <2>1. CASE UNCHANGED cells
    BY <1>1, <2>1, DoneKept DEF CInv, TypeOK
  <2>2. CASE \E raw \in Killed(cells[rec]) : cells' = [cells EXCEPT ![rec] = raw]
    <3>1. PICK raw \in Killed(cells[rec]) : cells' = [cells EXCEPT ![rec] = raw]
      BY <2>2
    <3>2. cells[rec] \in Raw
      BY <1>1 DEF CInv, TypeOK
    <3>3. raw \in Raw /\ (cells[rec] # "done" \/ raw = "done")
      BY <3>1, <3>2, KilledKeeps
    <3>4. QED
      BY <1>1, <3>1, <3>3, CellWritten
  <2>3. QED
    BY <1>2, <2>1, <2>2
<1>4. TypeOK'
  <2>1. TypeOK
    BY DEF CInv
  <2>2. QED
    BY <1>1, <1>2, <1>3, <2>1 DEF TypeOK, disk, world, KindInv
<1>5. Failed
  <2>1. ctl.phase \notin {"new", "terminal"} /\ torn' = "none"
    BY <1>1 DEF CInv, PlaceInv, Outer, disk
  <2>2. QED
    BY <1>1, <2>1, FailAtFails DEF CInv, Fail
<1>6. PlaceInv' /\ TargetInv' /\ AckInv'
  BY <1>1, <1>5, EndPlaces, EndRest DEF disk
<1>7. WorkInv'
  BY <1>1, <1>2 DEF CInv, WorkInv, Fail, FailAt, Inner
<1>8. BeginInv'
  BY <1>1, <1>5 DEF CInv, PlaceInv, BeginInv, Failed, disk
<1>9. QED
  BY <1>1, <1>3, <1>4, <1>6, <1>7, <1>8, QueueKept, AdmissionKept DEF CInv, disk

LEMMA AckWriteKeeps ==
    ASSUME CInv, JournalInv, KindInv', AckWrite
    PROVE  CInv'
<1>1. /\ ctl' = ctl /\ UNCHANGED <<torn, admissions, starts, calib, world, procs>>
      /\ Ended
      /\ ack' = ack \/ ack' = [seq |-> LatestCompletion, version |-> version]
  BY FinishEnds DEF AckWrite
<1>2. TypeOK'
  <2>1. TypeOK
    BY DEF CInv
  <2>2. ack' \in [seq : Nat, version : 0 .. MaxVersion]
    BY <1>1, <2>1, CompletionIs DEF TypeOK
  <2>3. QED
    BY <1>1, <2>1, <2>2 DEF TypeOK, world, procs, KindInv
<1>3. IndexedIsDone'
  BY <1>1, DoneKept DEF procs
<1>4. PlaceInv' /\ TargetInv' /\ WorkInv' /\ BeginInv'
  BY <1>1, EndPlaces, EndRest DEF procs
<1>5. AckInv'
  <2>1. CASE ack' = ack
    BY <1>1, <2>1, EndRest
  <2>2. CASE ack' = [seq |-> LatestCompletion, version |-> version]
    <3>1. ctl.phase \in ActivePhase => ack'.seq = ctl.next + 1
      BY <2>2, CompletionIs DEF CInv, BeginInv
    <3>2. QED
      BY <1>1, <3>1 DEF AckInv, Ended, ActivePhase
  <2>3. QED
    BY <1>1, <2>1, <2>2
<1>6. QED
  BY <1>1, <1>2, <1>3, <1>4, <1>5, QueueKept, AdmissionKept DEF CInv

LEMMA WorkerKeeps ==
    ASSUME CInv, JournalInv, KindInv', NEW c \in CellIds,
           WorkerStarts(c) \/ WorkerFinishes(c) \/ WorkerDies(c)
    PROVE  CInv'
<1>1. /\ c \in alive /\ c = rec /\ ctl' = ctl
      /\ UNCHANGED <<disk, world, rec, launches, pc, kind, run, result>>
      /\ alive' = alive \/ alive' = alive \ {c}
  BY DEF WorkerStarts, WorkerFinishes, WorkerDies, CInv, WorkInv
<1>2. \E raw \in Raw : /\ cells[c] # "done" \/ raw = "done"
                       /\ cells' = [cells EXCEPT ![c] = raw]
  <2>1. CASE WorkerStarts(c)
    BY <2>1 DEF WorkerStarts, Raw
  <2>2. CASE WorkerFinishes(c)
    BY <2>2 DEF WorkerFinishes, Raw
  <2>3. CASE WorkerDies(c)
    <3>1. cells[c] \in Raw
      BY DEF CInv, TypeOK
    <3>2. QED
      BY <2>3, <3>1, KilledKeeps DEF WorkerDies
  <2>4. QED
    BY <2>1, <2>2, <2>3
<1>3. cells' \in [CellIds -> Raw] /\ IndexedIsDone'
  BY <1>1, <1>2, CellWritten
<1>4. TypeOK'
  <2>1. TypeOK
    BY DEF CInv
  <2>2. firstStart' \in 0 .. MaxTime
    BY <2>1 DEF TypeOK, WorkerStarts, WorkerFinishes, WorkerDies
  <2>3. QED
    BY <1>1, <1>3, <2>1, <2>2 DEF TypeOK, disk, world
<1>5. ctl.phase # "new"
  BY <1>1, NoCellIsNone DEF CInv, BeginInv
<1>6. PlaceInv'
  BY <1>1 DEF CInv, PlaceInv, disk
<1>7. BeginInv' /\ WorkInv'
  BY <1>1, <1>5 DEF CInv, BeginInv, WorkInv, disk
<1>8. AckInv'
  BY <1>1, OverKept DEF CInv, AckInv, disk
<1>9. TargetInv'
  BY <1>1, OverKept DEF CInv, TargetInv, AdmittedNow, disk
<1>10. QED
  BY <1>1, <1>3, <1>4, <1>6, <1>7, <1>8, <1>9, QueueKept, AdmissionKept DEF CInv, disk

LEMMA WorldKeeps ==
    ASSUME CInv, JournalInv, Publish \/ Tick \/ ClockStepsBack
    PROVE  CInv'
<1>1. ctl' = ctl /\ UNCHANGED <<disk, procs, pc, kind, run, result>>
  BY DEF Publish, Tick, ClockStepsBack
<1>2. TypeOK'
  <2>1. TypeOK
    BY DEF CInv
  <2>2. version' \in 0 .. MaxVersion /\ clock' \in 0 .. MaxTime /\ faults' \in 0 .. MaxFaults
    BY <2>1, BoundsAssumption, SMTT(30) DEF TypeOK, Publish, Tick, ClockStepsBack
  <2>3. QED
    BY <1>1, <2>1, <2>2 DEF TypeOK, disk, procs
<1>3. IndexedIsDone'
  BY <1>1, DoneKept DEF procs
<1>4. PlaceInv'
  BY <1>1 DEF CInv, PlaceInv, disk
<1>5. BeginInv' /\ WorkInv'
  BY <1>1 DEF CInv, BeginInv, WorkInv, disk, procs
<1>6. AckInv'
  BY <1>1, OverKept DEF CInv, AckInv, disk
<1>7. TargetInv'
  BY <1>1, OverKept DEF CInv, TargetInv, AdmittedNow, disk
<1>8. QED
  BY <1>1, <1>2, <1>3, <1>4, <1>5, <1>6, <1>7, QueueKept, AdmissionKept DEF CInv, disk

LEMMA CrashKeeps ==
    ASSUME CInv, JournalInv, KindInv', Crash
    PROVE  CInv'
<1>1. /\ ctl' = ctl /\ UNCHANGED <<admissions, starts, calib, ack, version, clock, procs>>
      /\ torn' \in {torn, "admissions", "controller"} /\ Ended
      /\ faults < MaxFaults /\ faults' = faults + 1
  BY DEF Crash, Ended
<1>2. TypeOK'
  <2>1. TypeOK
    BY DEF CInv
  <2>2. faults' \in 0 .. MaxFaults
    BY <1>1, <2>1, BoundsAssumption DEF TypeOK
  <2>3. QED
    BY <1>1, <2>1, <2>2 DEF TypeOK, procs, KindInv
<1>3. IndexedIsDone'
  BY <1>1, DoneKept DEF procs
<1>4. PlaceInv' /\ TargetInv' /\ WorkInv' /\ BeginInv' /\ AckInv'
  BY <1>1, EndPlaces, EndRest DEF procs
<1>5. QED
  BY <1>1, <1>2, <1>3, <1>4, QueueKept, AdmissionKept DEF CInv

-----------------------------------------------------------------------------
(* Admission and launch.                                                   *)

LEMMA NextTargetFits ==
    ASSUME CInv, JournalInv
    PROVE  /\ NextTarget \in Targets
           /\ calib = "none" => NextTarget.kind = "calibration" /\ NextTarget.cand = None
           /\ calib # "none" /\ (ctl.phase = "candidate" \/ (ctl.phase = "pair" /\ ctl.arms < 2)) =>
                  NextTarget.kind = StageName(ctl) /\ NextTarget.cand = ctl.cand
           /\ calib # "none" /\ ctl.phase = "idle" /\ ~Promoted /\ Undecided # {} =>
                  NextTarget.kind = "screen" /\ NextTarget.cand = ctl.cursor + 1
<1>1. /\ ctl.next \in Nat /\ ctl.cand \in Candidates \cup {None}
      /\ StageName(ctl) \in {"screen", "confirmation"}
  BY JournalFields DEF StageName
<1>2. CASE calib = "none"
  BY <1>2 DEF NextTarget, Target, Targets
<1>3. CASE calib # "none" /\ (ctl.phase = "candidate" \/ (ctl.phase = "pair" /\ ctl.arms < 2))
  <2>1. NextTarget = Target(StageName(ctl), ctl.cand, ctl.next)
    BY <1>3 DEF NextTarget
  <2>2. QED
    BY <1>1, <1>3, <2>1 DEF Target, Targets
<1>4. CASE calib # "none" /\ ctl.phase = "idle" /\ ~Promoted /\ Undecided # {}
  <2>1. NextTarget = Target("screen", NextProposal, ctl.next)
    BY <1>4 DEF NextTarget
  <2>2. NextProposal = ctl.cursor + 1 /\ NextProposal \in Candidates
    BY <1>4, ProposalIs DEF CInv
  <2>3. QED
    BY <1>1, <1>4, <2>1, <2>2 DEF Target, Targets
<1>5. CASE /\ calib # "none" /\ ctl.phase # "candidate"
           /\ ~(ctl.phase = "pair" /\ ctl.arms < 2)
           /\ ~(ctl.phase = "idle" /\ ~Promoted /\ Undecided # {})
  <2>1. NextTarget = NoTarget
    BY <1>5 DEF NextTarget
  <2>2. QED
    BY <1>5, <2>1 DEF NoTarget, Targets
<1>6. QED
  BY <1>2, <1>3, <1>4, <1>5

\* A record is appended in the order of observation times, so that what is behind
\* the cutoff stays there.
LEMMA AdmissionAppended ==
    ASSUME CInv, JournalInv, ClockAgrees, NEW host \in SUBSET HostBlockers, NEW blockers,
           blockers = host \cup (IF clock >= Cutoff THEN {TimeBlocker} ELSE {}),
           admissions' = Append(admissions, Admission(blockers))
    PROVE  /\ AdmissionInv'
           /\ \A i \in 1 .. Len(admissions') :
                  admissions'[i].outcome \in {"admitted", "cutoff", "blocked_environment"}
<1> DEFINE a == Admission(blockers)
           n == Len(admissions)
<1>1. /\ admissions \in Seq(Records)
      /\ \A i, j \in 1 .. n : i < j => admissions[i].at <= admissions[j].at
      /\ \A i \in 1 .. n : admissions[i].late => admissions[i].at >= Cutoff
      /\ \A i, j \in 1 .. n : i < j /\ admissions[i].late => admissions[j].outcome # "admitted"
  BY DEF CInv, AdmissionInv, CutoffNeverReopens
<1>2. n \in Nat /\ \A i \in 1 .. n : admissions[i] \in Records
  <2>1. \A S : \A s \in Seq(S) : Len(s) \in Nat /\ \A i \in 1 .. Len(s) : s[i] \in S
    OBVIOUS
  <2>2. QED
    BY <1>1, <2>1
<1>3. clock \in 0 .. MaxTime /\ Cutoff \in Nat /\ MaxTime \in Nat
  BY BoundsAssumption DEF CInv, TypeOK
<1>4. AdmissionOutcome(blockers) \in {"admitted", "cutoff", "blocked_environment"}
  BY DEF AdmissionOutcome
<1>5. /\ a \in Records /\ a.at = clock /\ a.outcome = AdmissionOutcome(blockers)
      /\ a.late = (TimeBlocker \in blockers)
  BY <1>3, <1>4, NextTargetFits, JournalFields DEF Admission, Records
<1>6. TimeBlocker \in blockers <=> clock >= Cutoff
  BY DEF HostBlockers, TimeBlocker
<1>7. clock >= Cutoff => a.outcome # "admitted"
  BY <1>5, <1>6 DEF AdmissionOutcome
<1>8. \A i \in 1 .. n : admissions[i].at <= clock
  <2>1. ASSUME NEW i \in 1 .. n PROVE admissions[i].at <= clock
    <3>1. n \in 1 .. n /\ admissions # <<>>
      BY <1>2
    <3>2. admissions[n].at <= clock
      BY <3>1 DEF ClockAgrees
    <3>3. admissions[i].at \in Int /\ admissions[n].at \in Int
      BY <1>2, <3>1 DEF Records
    <3>4. admissions[i].at <= admissions[n].at
      <4>1. CASE i = n
        BY <3>3, <4>1
      <4>2. CASE i # n
        BY <1>1, <1>2, <3>1, <4>2
      <4>3. QED
        BY <4>1, <4>2
    <3>5. QED
      BY <1>3, <3>2, <3>3, <3>4
  <2>2. QED
    BY <2>1
<1>9. /\ admissions' \in Seq(Records) /\ Len(admissions') = n + 1
      /\ \A i \in 1 .. n : admissions'[i] = admissions[i]
      /\ admissions'[n + 1] = a
  BY <1>1, <1>5
<1>10. \A i \in 1 .. n : admissions[i].late => clock >= Cutoff
  <2>1. ASSUME NEW i \in 1 .. n, admissions[i].late PROVE clock >= Cutoff
    <3>1. admissions[i].at \in Int
      BY <1>2 DEF Records
    <3>2. admissions[i].at >= Cutoff /\ admissions[i].at <= clock
      BY <1>1, <1>8, <2>1
    <3>3. QED
      BY <1>3, <3>1, <3>2
  <2>2. QED
    BY <2>1
<1>11. \A i, j \in 1 .. n + 1 : i < j => i \in 1 .. n /\ (j \in 1 .. n \/ j = n + 1)
  BY <1>2
<1>12. \A i, j \in 1 .. n + 1 : i < j => admissions'[i].at <= admissions'[j].at
  BY <1>1, <1>5, <1>8, <1>9, <1>11
<1>13. \A i \in 1 .. n + 1 : admissions'[i].late => admissions'[i].at >= Cutoff
  <2>1. \A i \in 1 .. n + 1 : i \in 1 .. n \/ i = n + 1
    BY <1>2
  <2>2. QED
    BY <1>1, <1>5, <1>6, <1>9, <2>1
<1>14. \A i, j \in 1 .. n + 1 :
           i < j /\ admissions'[i].late => admissions'[j].outcome # "admitted"
  BY <1>1, <1>7, <1>9, <1>10, <1>11
<1>15. \A i \in 1 .. n + 1 : admissions'[i].outcome \in {"admitted", "cutoff", "blocked_environment"}
  <2>1. \A S : \A s \in Seq(S) : \A i \in 1 .. Len(s) : s[i] \in S
    OBVIOUS
  <2>2. \A i \in 1 .. n + 1 : admissions'[i] \in Records
    BY <1>9, <2>1
  <2>3. QED
    BY <2>2 DEF Records
<1>16. QED
  BY <1>9, <1>12, <1>13, <1>14, <1>15, ZenonT(60) DEF AdmissionInv, CutoffNeverReopens

LEMMA AdmitKeeps ==
    ASSUME CInv, JournalInv, KindInv', Admit
    PROVE  CInv'
<1>1. /\ pc = "admit" /\ ClockAgrees /\ ctl' = ctl
      /\ UNCHANGED <<torn, starts, calib, ack, world, procs>>
  BY DEF Admit
<1>2. PICK host \in SUBSET HostBlockers :
        LET blockers == host \cup (IF clock >= Cutoff THEN {TimeBlocker} ELSE {}) IN
        /\ admissions' = Append(admissions, Admission(blockers))
        /\ \/ /\ blockers = {}
              /\ pc' = "run" /\ run' = [run EXCEPT !.target = NextTarget]
              /\ UNCHANGED <<kind, result>>
           \/ /\ blockers # {} /\ ctl.events > 0
              /\ Fail(AdmissionFailureKind(blockers))
           \/ /\ blockers # {} /\ ctl.events = 0
              /\ Finish("denied")
  BY DEF Admit
<1>3. /\ AdmissionInv'
      /\ \A i \in 1 .. Len(admissions') :
             admissions'[i].outcome \in {"admitted", "cutoff", "blocked_environment"}
  BY <1>1, <1>2, AdmissionAppended
<1>4. TypeOK'
  <2>1. TypeOK
    BY DEF CInv
  <2>2. QED
    BY <1>1, <1>3, <2>1 DEF TypeOK, world, procs, KindInv
<1>5. IndexedIsDone'
  BY <1>1, DoneKept DEF procs
<1>6. CASE pc' = "run" /\ run' = [run EXCEPT !.target = NextTarget] /\ UNCHANGED <<kind, result>>
  <2>1. PlaceInv'
    BY <1>1, <1>6 DEF CInv, PlaceInv, Places, Inner, Outer
  <2>2. BeginInv' /\ WorkInv'
    BY <1>1, <1>6 DEF CInv, BeginInv, WorkInv, Inner, procs
  <2>3. AckInv'
    BY <1>1, <1>6, OverKept DEF CInv, AckInv
  <2>4. TargetInv'
    <3>1. run \in Runs /\ run.launched = {}
      BY <1>1 DEF CInv, TargetInv, Inner
    <3>2. /\ run' \in Runs
          /\ run'.launched = {} /\ run'.target = NextTarget
      BY <1>6, <3>1, NextTargetFits DEF Runs
    <3>3. ctl.phase \in ActivePhase => calib # "none"
      BY DEF CInv, BeginInv
    <3>4. QED
      BY <1>1, <1>6, <3>2, <3>3, NextTargetFits, OverKept
         DEF TargetInv, AdmittedNow, Outer, Inner, ActivePhase
  <2>5. QED
    BY <1>1, <1>3, <1>4, <1>5, <2>1, <2>2, <2>3, <2>4, QueueKept DEF CInv
<1>7. CASE ctl.events > 0 /\ \E k : Fail(k)
  <2>1. Failed
    <3>1. ctl.phase \notin {"new", "terminal"} /\ torn' = "none"
      BY <1>1, <1>7 DEF CInv, PlaceInv, BeginInv, Inner, Outer
    <3>2. QED
      BY <1>7, <3>1, FailAtFails DEF CInv, Fail
  <2>2. PlaceInv' /\ TargetInv' /\ WorkInv' /\ BeginInv' /\ AckInv'
    BY <1>1, <2>1, EndPlaces, EndRest DEF procs
  <2>3. QED
    BY <1>1, <1>3, <1>4, <1>5, <2>2, QueueKept DEF CInv
<1>8. CASE Finish("denied")
  <2>1. Ended
    BY <1>8, FinishEnds
  <2>2. PlaceInv' /\ TargetInv' /\ WorkInv' /\ BeginInv' /\ AckInv'
    BY <1>1, <2>1, EndPlaces, EndRest DEF procs
  <2>3. QED
    BY <1>1, <1>3, <1>4, <1>5, <2>2, QueueKept DEF CInv
<1>9. QED
  BY <1>2, <1>6, <1>7, <1>8

\* What may be launched: a control of the calibration, or the next arm of the pair.
LEMMA LaunchTargetIs ==
    ASSUME CInv, JournalInv, LaunchTarget # NoCell
    PROVE  /\ LaunchTarget \in CellIds
           /\ \/ /\ calib = "none" /\ ctl.phase = "idle"
                 /\ \E arm \in Arms : LaunchTarget = Calibration(arm)
              \/ /\ calib = "passed" /\ ctl.phase = "pair" /\ ctl.arms < 2
                 /\ LaunchTarget = NextCell
<1>1. CASE calib = "none" /\ ctl.phase = "idle"
  <2>1. \E arm \in Arms : LaunchTarget = Calibration(arm)
    BY <1>1 DEF LaunchTarget, Arms
  <2>2. QED
    BY <1>1, <2>1, CellOfCalibration
<1>2. CASE calib = "passed" /\ ctl.phase = "pair" /\ ctl.arms < 2
  <2>1. LaunchTarget = NextCell
    BY <1>2 DEF LaunchTarget
  <2>2. QED
    BY <1>2, <2>1, NextCellIs DEF CInv
<1>3. CASE ~(calib = "none" /\ ctl.phase = "idle") /\ ~(calib = "passed" /\ ctl.phase = "pair" /\ ctl.arms < 2)
  BY <1>3 DEF LaunchTarget
<1>4. QED
  BY <1>1, <1>2, <1>3

\* The admission of this invocation is for the cell that is launched.
LEMMA LaunchAdmitted ==
    ASSUME CInv, JournalInv, pc = "run", LaunchTarget # NoCell
    PROVE  [kind |-> run.target.kind, cand |-> run.target.cand] = TargetOf(LaunchTarget)
<1>1. CASE calib = "none" /\ \E arm \in Arms : LaunchTarget = Calibration(arm)
  <2>1. run.target.kind = "calibration" /\ run.target.cand = None
    BY <1>1 DEF CInv, TargetInv
  <2>2. LaunchTarget[1] = <<0, 0>>
    BY <1>1 DEF Calibration
  <2>3. QED
    BY <2>1, <2>2 DEF TargetOf
<1>2. CASE ctl.phase = "pair" /\ ctl.arms < 2 /\ LaunchTarget = NextCell
  <2>1. run.target.kind = StageName(ctl) /\ run.target.cand = ctl.cand
    BY <1>2 DEF CInv, TargetInv
  <2>2. ctl.cand \in Candidates /\ Count \in {0, 1} /\ Stage(ctl) = Count + 1
    <3>1. "champion" \in Arms
      BY DEF Arms
    <3>2. QED
      BY <1>2, <3>1, ActiveCell DEF CInv
  <2>3. LaunchTarget[1] = <<ctl.cand, Count + 1>>
    BY <1>2, NextCellIs DEF CInv
  <2>4. <<ctl.cand, Count + 1>> # <<0, 0>>
    BY <2>2 DEF Candidates
  <2>5. CASE Count = 0
    BY <2>1, <2>2, <2>3, <2>4, <2>5 DEF TargetOf, StageName
  <2>6. CASE Count = 1
    BY <2>1, <2>2, <2>3, <2>4, <2>6 DEF TargetOf, StageName
  <2>7. QED
    BY <2>2, <2>5, <2>6
<1>3. QED
  BY <1>1, <1>2, LaunchTargetIs

LEMMA LaunchCellKeeps ==
    ASSUME CInv, JournalInv, KindInv', LaunchCell
    PROVE  CInv'
<1>1. /\ pc = "run" /\ LaunchTarget # NoCell /\ ctl' = ctl
      /\ rec' = LaunchTarget /\ alive' = alive \cup {LaunchTarget}
      /\ launches' = [launches EXCEPT ![LaunchTarget] = @ + 1]
      /\ run' = [run EXCEPT !.launched = @ \cup {LaunchTarget}] /\ pc' = "wait"
      /\ UNCHANGED <<disk, world, cells, firstStart, kind, result>>
  BY DEF LaunchCell
<1>2. LaunchTarget \in CellIds /\ ctl.phase \in {"idle", "pair"}
  BY <1>1, LaunchTargetIs
<1>3. TypeOK'
  <2>1. TypeOK
    BY DEF CInv
  <2>2. launches' \in [CellIds -> Nat]
    BY <1>1, <1>2, <2>1 DEF TypeOK
  <2>3. QED
    BY <1>1, <1>2, <2>1, <2>2 DEF TypeOK, disk, world
<1>4. IndexedIsDone'
  BY <1>1, DoneKept
<1>5. alive = {} /\ rec = NoCell
  BY <1>1, NoCellIsNone DEF CInv, WorkInv, Inner
<1>6. PlaceInv'
  BY <1>1, <1>2 DEF CInv, PlaceInv, Places, Inner, Outer, disk
<1>7. WorkInv'
  BY <1>1, <1>2, <1>5 DEF CInv, WorkInv, Inner
<1>8. BeginInv'
  BY <1>1, <1>2 DEF CInv, BeginInv, disk
<1>9. AckInv'
  BY <1>1, OverKept DEF CInv, AckInv, disk
<1>10. TargetInv'
  <2>1. run \in Runs
    BY DEF CInv, TargetInv
  <2>2. /\ run' \in Runs
        /\ run'.launched = run.launched \cup {LaunchTarget} /\ run'.target = run.target
    BY <1>1, <1>2, <2>1 DEF Runs
  <2>3. AdmittedNow'
    <3>1. AdmittedNow
      BY DEF CInv, TargetInv
    <3>2. [kind |-> run.target.kind, cand |-> run.target.cand] = TargetOf(LaunchTarget)
      BY <1>1, LaunchAdmitted
    <3>3. QED
      BY <2>2, <3>1, <3>2 DEF AdmittedNow
  <2>4. QED
    BY <1>1, <2>2, <2>3, OverKept DEF CInv, TargetInv, Outer, Inner, disk
<1>11. QED
  BY <1>1, <1>3, <1>4, <1>6, <1>7, <1>8, <1>9, <1>10, QueueKept, AdmissionKept DEF CInv, disk

-----------------------------------------------------------------------------
LEMMA InitCInv ==
    ASSUME Init, JournalInv
    PROVE  CInv
<1>1. /\ ctl.phase = "new" /\ ctl.cand = None /\ ctl.cursor = 0 /\ ctl.events = 0
      /\ \A c \in Candidates : ctl.scores[c] = <<>> /\ ctl.decided[c] = "none"
  BY DEF Init, EmptyReplayState
<1>2. TypeOK
  <2>1. /\ cells \in [CellIds -> Raw] /\ launches \in [CellIds -> Nat]
        /\ ack \in [seq : Nat, version : 0 .. MaxVersion]
    BY BoundsAssumption DEF Init, Raw
  <2>2. QED
    BY <2>1, BoundsAssumption DEF Init, TypeOK, JournalInv
<1>3. QueueInv
  <2>1. \A c \in Candidates : c > ctl.cursor
    BY <1>1 DEF Candidates
  <2>2. ~Promoted
    BY <1>1 DEF Promoted, Promotions
  <2>3. \A c \in Candidates : Len(ctl.scores[c]) <= 2
    BY <1>1
  <2>4. QED
    BY <1>1, <2>1, <2>2, <2>3 DEF QueueInv, ActivePhase, Candidates
<1>4. PlaceInv
  BY <1>1 DEF Init, PlaceInv, Places, Inner, Outer
<1>5. BeginInv
  BY <1>1 DEF Init, BeginInv, ActivePhase
<1>6. IndexedIsDone
  BY <1>1 DEF IndexedIsDone
<1>7. WorkInv /\ AckInv
  BY <1>1 DEF Init, WorkInv, AckInv, Inner
<1>8. TargetInv
  <2>1. run = NoRun /\ run.launched = {} /\ pc = "down"
    BY DEF Init, NoRun
  <2>2. QED
    BY <2>1, NoRunFits DEF TargetInv, AdmittedNow
<1>9. AdmissionInv
  <2>1. admissions = <<>> /\ Len(admissions) = 0 /\ admissions \in Seq(Records)
    BY DEF Init
  <2>2. QED
    BY <2>1 DEF AdmissionInv, CutoffNeverReopens
<1>10. QED
  BY <1>2, <1>3, <1>4, <1>5, <1>6, <1>7, <1>8, <1>9 DEF CInv

\* The steps that change no file and no process.
LEMMA OnlyMoves ==
    ASSUME \/ InvokeRun \/ InvokeAck \/ RecoverNothing \/ RecoveryFails
           \/ LoadRefused \/ LoadFails \/ LoadTerminal \/ LoadContinues
           \/ ReconcileFails \/ ReconcileDone \/ CalibrationFails \/ CalibrationSettled
           \/ GateBlocks \/ GatePasses \/ NothingToAdmit \/ AdmissionRaises
           \/ LaunchRefused \/ CompleteCellFails \/ ScoreIneligible \/ Return
           \/ AckRefused \/ AckVerify
    PROVE  Only
  BY DEF InvokeRun, InvokeAck, Invoke, RecoverNothing, RecoveryFails, LoadRefused, LoadFails,
         LoadTerminal, LoadContinues, ReconcileFails, ReconcileDone, CalibrationFails,
         CalibrationSettled, GateBlocks, GatePasses, NothingToAdmit, AdmissionRaises,
         LaunchRefused, CompleteCellFails, IndexFails, ScoreIneligible, Return, AckRefused,
         AckVerify, Only

LEMMA StepKeepsCInv ==
    ASSUME CInv, KindInv, KindInv', JournalInv, JournalInv', Next
    PROVE  CInv'
<1>1. CASE LoadRefused \/ LoadTerminal \/ GateBlocks \/ AdmissionRaises \/ Return \/ AckRefused
  BY <1>1, OnlyMoves, EndingKeeps
<1>2. CASE \/ LoadFails \/ ReconcileFails \/ CompleteCellFails \/ CalibrationFails
           \/ LaunchRefused \/ ScoreIneligible
  <2>1. CalibrationFails => pc \in {"calibration", "run"}
    BY DEF CalibrationFails
  <2>2. QED
    BY <1>2, <2>1, OnlyMoves, EarlyFailingKeeps, FailingKeeps
<1>3. CASE \/ InvokeRun \/ InvokeAck \/ RecoverNothing \/ RecoveryFails \/ LoadContinues
           \/ ReconcileDone \/ CalibrationSettled \/ GatePasses \/ NothingToAdmit \/ AckVerify
  BY <1>3, OnlyMoves, GoingOnKeeps
<1>4. CASE RecoverWorker \/ RecordCalibration \/ Admit \/ LaunchCell
  BY <1>4, RecoverWorkerKeeps, RecordCalibrationKeeps, AdmitKeeps, LaunchCellKeeps
<1>5. CASE CellReturns \/ CellFails \/ AckWrite \/ Crash
  BY <1>5, CellReturnsKeeps, CellFailsKeeps, AckWriteKeeps, CrashKeeps
<1>6. CASE \E c \in CellIds : WorkerStarts(c) \/ WorkerFinishes(c) \/ WorkerDies(c)
  BY <1>6, WorkerKeeps
<1>7. CASE Publish \/ Tick \/ ClockStepsBack
  BY <1>7, WorldKeeps
<1>8. CASE StartCampaign \/ StartCandidate \/ ScorePair \/ Decide
  BY <1>8, StartCampaignKeeps, StartCandidateKeeps, ScorePairKeeps, DecideKeeps
<1>9. CASE StartPair
  <2>1. CASE pc' = "run"
    BY <1>9, <2>1, StartPairKeeps
  <2>2. CASE pc' # "run"
    <3>1. ctl' = ctl /\ Fail("audit") /\ UNCHANGED <<disk, world, procs>>
      BY <1>9, <2>2, StartPairEffect DEF CInv
    <3>2. QED
      BY <1>9, <3>1, FailingKeeps DEF Only
  <2>3. QED
    BY <2>1, <2>2
<1>10. CASE ReconcileCell \/ CompleteCell
  BY <1>10, IndexCellKeeps DEF ReconcileCell, CompleteCell
<1>11. CASE Complete \/ FailTerminates
  BY <1>11, CloseKeeps
<1>12. CASE FailStarts
  <2>1. CASE ctl.phase = "new"
    BY <1>12, <2>1, FailStartsNewKeeps
  <2>2. CASE ctl.phase # "new"
    BY <1>12, <2>2, FailingKeeps DEF FailStarts, Goto, Only
  <2>3. QED
    BY <2>1, <2>2
<1>13. QED
  BY <1>1, <1>2, <1>3, <1>4, <1>5, <1>6, <1>7, <1>8, <1>9, <1>10, <1>11, <1>12
     DEF Next, Step

LEMMA StutterKeepsCInv ==
    ASSUME CInv, JournalInv, UNCHANGED vars
    PROVE  CInv'
<1>1. Only /\ UNCHANGED <<pc, kind, run, result>>
  BY DEF vars, Only
<1>2. TypeOK' /\ QueueInv' /\ IndexedIsDone' /\ AdmissionInv'
  <2>1. TypeOK'
    <3>1. TypeOK
      BY DEF CInv
    <3>2. QED
      BY <1>1, <3>1 DEF TypeOK, Only, disk, world, procs
  <2>2. QED
    BY <1>1, <2>1, QueueKept, AdmissionKept, DoneKept DEF CInv, Only, disk, procs
<1>3. PlaceInv' /\ BeginInv' /\ WorkInv'
  BY <1>1 DEF CInv, PlaceInv, BeginInv, WorkInv, Only, disk, procs
<1>4. AckInv' /\ TargetInv'
  BY <1>1, OverKept DEF CInv, AckInv, TargetInv, AdmittedNow, Only, disk
<1>5. QED
  BY <1>2, <1>3, <1>4 DEF CInv

LEMMA ControllerInvariant == Spec => [](CInv /\ JournalInv /\ JournalSound)
<1>1. Init => KindInv /\ ArmsInv
  BY DEF Init, KindInv, ArmsInv, EmptyReplayState
<1>2. KindInv /\ ArmsInv /\ [Next]_vars => (KindInv /\ ArmsInv)'
  <2>1. CASE UNCHANGED vars
    BY <2>1 DEF vars, KindInv, ArmsInv
  <2>2. QED
    BY <2>1, StepGood DEF Good
<1>3. Init /\ JournalInv => CInv
  BY InitCInv
<1>4. CInv /\ KindInv /\ KindInv' /\ JournalInv /\ JournalInv' /\ [Next]_vars => CInv'
  BY StepKeepsCInv, StutterKeepsCInv
<1>5. QED
  BY <1>1, <1>2, <1>3, <1>4, JournalKept, PTL DEF Spec

-----------------------------------------------------------------------------
(* What follows for the runs' properties.                                  *)

\* However often the controller dies between two durable effects, its files agree:
\* no pair index is spent twice, a promotion rests on two eligible pairs in opposite
\* orders, the replay never refuses an event of the program, and what is indexed or
\* scored ran to its end (run_campaign, replay_transitions).
THEOREM ControllerFilesAgree == Spec => []FilesAgree
<1>1. CInv /\ JournalSound => FilesAgree
  BY DEF CInv, FilesAgree, PlaceInv, NeverRejected
<1>2. QED
  BY <1>1, ControllerInvariant, PTL

\* A launch is admitted by its own invocation, for that very pair, and no admission
\* follows a denial for lack of time, even when the wall clock is set back
\* (_append_live_admission, _validate_chain).
THEOREM AdmissionsSound == Spec => []AdmissionSound
<1>1. CInv => AdmissionSound
  BY DEF CInv, TargetInv, AdmissionInv, AdmissionSound
<1>2. QED
  BY <1>1, ControllerInvariant, PTL

\* A pair is active only if the completion before it was acknowledged
\* (_checkpoint_gate_required, acknowledge_campaign_checkpoint).
THEOREM PairsAcknowledged == Spec => []AcknowledgedBeforeNext
<1>1. CInv => AcknowledgedBeforeNext
  BY DEF CInv, AckInv, AcknowledgedBeforeNext
<1>2. QED
  BY <1>1, ControllerInvariant, PTL

LEMMA LaunchIsDisciplined ==
    ASSUME CInv, JournalInv, LaunchCell
    PROVE  /\ alive = {}
           /\ \A c \in CellIds : cells[c] # "empty" => launches'[c] = launches[c]
           /\ \A c \in Candidates : ctl.decided[c] \notin Promotions
<1>1. /\ pc = "run" /\ LaunchTarget # NoCell /\ cells[LaunchTarget] = "empty"
      /\ launches' = [launches EXCEPT ![LaunchTarget] = @ + 1]
  BY DEF LaunchCell
<1>2. alive = {}
  BY <1>1, NoCellIsNone DEF CInv, WorkInv, Inner
<1>3. \A c \in CellIds : cells[c] # "empty" => launches'[c] = launches[c]
  BY <1>1 DEF CInv, TypeOK
<1>4. \A c \in Candidates : ctl.decided[c] \notin Promotions
  <2>1. CASE calib = "none"
    <3>1. \A c \in Candidates : c > ctl.cursor
      BY <2>1 DEF CInv, BeginInv, Candidates
    <3>2. QED
      BY <3>1 DEF JournalInv, Promotions
  <2>2. CASE ctl.phase = "pair"
    BY <2>2 DEF CInv, QueueInv, Promoted
  <2>3. QED
    BY <1>1, <2>1, <2>2, LaunchTargetIs
<1>5. QED
  BY <1>2, <1>3, <1>4

LEMMA OnlyLaunchCounts ==
    ASSUME Next, launches' # launches
    PROVE  LaunchCell
<1>1. CASE InvokeRun \/ InvokeAck \/ Publish \/ Tick \/ ClockStepsBack \/ Crash
  BY <1>1 DEF InvokeRun, InvokeAck, Invoke, Publish, Tick, ClockStepsBack, Crash, procs
<1>2. CASE \E c \in CellIds : WorkerStarts(c) \/ WorkerFinishes(c) \/ WorkerDies(c)
  BY <1>2 DEF WorkerStarts, WorkerFinishes, WorkerDies
<1>3. CASE \/ RecoverNothing \/ RecoveryFails
           \/ LoadRefused \/ LoadFails \/ LoadTerminal \/ LoadContinues
           \/ ReconcileFails \/ ReconcileDone \/ CalibrationFails \/ CalibrationSettled
           \/ GateBlocks \/ GatePasses \/ NothingToAdmit \/ AdmissionRaises
           \/ LaunchRefused \/ CompleteCellFails \/ ScoreIneligible \/ Return
           \/ AckRefused \/ AckVerify
  BY <1>3, OnlyMoves DEF Only, procs
<1>4. CASE RecoverWorker \/ RecordCalibration \/ Admit \/ CellReturns \/ CellFails \/ AckWrite
  BY <1>4 DEF RecoverWorker, RecordCalibration, Admit, CellReturns, CellFails, AckWrite, procs
<1>5. CASE \/ StartCampaign \/ StartCandidate \/ StartPair \/ ReconcileCell \/ CompleteCell
           \/ ScorePair \/ Decide \/ Complete \/ FailStarts \/ FailTerminates
  BY <1>5 DEF StartCampaign, StartCandidate, StartPair, ReconcileCell, CompleteCell, IndexCell,
              ScorePair, Decide, Complete, FailStarts, FailTerminates, procs
<1>6. QED
  BY <1>1, <1>2, <1>3, <1>4, <1>5 DEF Next, Step

\* No worker is launched beside one that is still up, for a cell that holds anything,
\* or after a promotion (_recover_interrupted_cells, run_campaign).
THEOREM LaunchesDisciplined == Spec => LaunchDiscipline
<1>1. ASSUME CInv, JournalInv, [Next]_vars, launches' # launches
      PROVE  /\ alive = {}
             /\ \A c \in CellIds : cells[c] # "empty" => launches'[c] = launches[c]
             /\ \A c \in Candidates : ctl.decided[c] \notin Promotions
  <2>1. LaunchCell
    BY <1>1, OnlyLaunchCounts DEF vars, procs
  <2>2. QED
    BY <1>1, <2>1, LaunchIsDisciplined
<1>2. QED
  BY <1>1, ControllerInvariant, PTL DEF Spec, LaunchDiscipline

LEMMA ClosedStep ==
    ASSUME CInv, Next, ctl.phase = "terminal" \/ torn # "none"
    PROVE  UNCHANGED <<ctl, launches, admissions, calib>>
<1>1. pc \notin Inner \cup {"wait", "settle", "start", "fail"}
  BY DEF CInv, PlaceInv, Inner, Outer
<1>2. CASE InvokeRun \/ InvokeAck \/ Publish \/ Tick \/ ClockStepsBack \/ Crash
  BY <1>2 DEF InvokeRun, InvokeAck, Invoke, Publish, Tick, ClockStepsBack, Crash, procs, disk
<1>3. CASE \E c \in CellIds : WorkerStarts(c) \/ WorkerFinishes(c) \/ WorkerDies(c)
  BY <1>3 DEF WorkerStarts, WorkerFinishes, WorkerDies, disk
<1>4. CASE \/ RecoverNothing \/ RecoveryFails
           \/ LoadRefused \/ LoadFails \/ LoadTerminal \/ LoadContinues
           \/ ReconcileFails \/ ReconcileDone \/ CalibrationFails \/ CalibrationSettled
           \/ GateBlocks \/ GatePasses \/ NothingToAdmit \/ AdmissionRaises
           \/ LaunchRefused \/ CompleteCellFails \/ ScoreIneligible \/ Return
           \/ AckRefused \/ AckVerify
  BY <1>4, OnlyMoves DEF Only, procs, disk
<1>5. CASE RecoverWorker \/ AckWrite
  BY <1>5 DEF RecoverWorker, AckWrite, disk, procs
<1>6. CASE RecordCalibration \/ Admit \/ LaunchCell \/ CellReturns \/ CellFails
  BY <1>1, <1>6 DEF RecordCalibration, Admit, LaunchCell, CellReturns, CellFails, Inner
<1>7. CASE \/ StartCampaign \/ StartCandidate \/ StartPair \/ ReconcileCell \/ CompleteCell
           \/ ScorePair \/ Decide \/ Complete \/ FailStarts \/ FailTerminates
  BY <1>1, <1>7 DEF StartCampaign, StartCandidate, StartPair, ReconcileCell, CompleteCell,
                    ScorePair, Decide, Complete, FailStarts, FailTerminates, Inner
<1>8. QED
  BY <1>2, <1>3, <1>4, <1>5, <1>6, <1>7 DEF Next, Step

\* A terminal campaign, and one with a torn journal, launches, admits and records
\* nothing more (strict_events, _decode_records, run_campaign).
THEOREM ClosedCampaignsStay == Spec => ClosedStaysClosed
<1>1. ASSUME CInv, [Next]_vars, ctl.phase = "terminal" \/ torn # "none"
      PROVE  UNCHANGED <<ctl, launches, admissions, calib>>
  BY <1>1, ClosedStep DEF vars, disk, procs
<1>2. QED
  BY <1>1, ControllerInvariant, PTL DEF Spec, ClosedStaysClosed
=============================================================================
