----------------------------- MODULE Transitions -----------------------------
(***************************************************************************)
(* What replaying the campaign controller's journal computes:              *)
(* bench/autoresearch.py, the gates and replay_transitions, with the queue *)
(* bindings that autoresearch_campaign.py, _replay_frozen_campaign, adds.  *)
(* For each event: the states that accept it and the state after it.       *)
(*                                                                         *)
(* Proposals are numbered in queue order.  A speed score is the logarithm  *)
(* of the geometric mean ratio, in whole units, so that the combined mean  *)
(* of two pairs (same cases in both) is the mean of their scores.          *)
(***************************************************************************)
EXTENDS Integers, Sequences

CONSTANTS
    Proposals,      \* how many candidates the frozen queue holds
    ReasoningAxis,  \* the proposals on axis "reasoning_policy"
    Simpler,        \* the proposals whose flags are strictly simpler
    Outcomes,       \* what a scored pair may show
    ScreenMin, PromotionMin, CombinedMin, SimplifyMin  \* policy thresholds

Candidates == 1 .. Proposals

ASSUME ProposalsAssumption == Proposals \in Nat
ASSUME AxisAssumption ==
    /\ ReasoningAxis \subseteq Candidates
    /\ Simpler \subseteq Candidates
ASSUME OutcomesAssumption ==
    Outcomes \subseteq [eligible : BOOLEAN, score : Int, guard : BOOLEAN,
                        memory : BOOLEAN]
ASSUME PolicyAssumption ==
    /\ ScreenMin \in Int /\ PromotionMin \in Int
    /\ CombinedMin \in Int /\ SimplifyMin \in Int

None == 0
NoReason == "none"

FailureKind ==
    {"cutoff", "candidate_syntax", "candidate_startup", "measurement",
     "validation", "audit", "memory_pressure", "swap_pressure", "oom",
     "ownership_ambiguity", "cleanup_breach"}
Decisions ==
    {"reject", "confirm", "confirm_simplification", "promote",
     "promote_simplification"}
Promotions == {"promote", "promote_simplification"}
Confirmations == {"confirm", "confirm_simplification"}
Arms == {"champion", "candidate"}
Phases == {"new", "idle", "candidate", "pair", "scored", "terminal"}

Observation ==
    [pair : Nat, eligible : BOOLEAN, score : Int, guard : BOOLEAN,
     memory : BOOLEAN]

ReplayState ==
    [phase   : Phases,
     cand    : Candidates \cup {None},
     next    : Nat,                    \* next_pair_index, global
     arms    : 0 .. 2,                 \* completed_arms, a prefix of the order
     mode    : {"none", "standard", "simplification"},
     reason  : FailureKind \cup {"completed", NoReason},
     cursor  : 0 .. Proposals,         \* proposal_cursor
     scores  : [Candidates -> Seq(Observation)],
     decided : [Candidates -> Decisions \cup {"none"}],
     events  : Nat]                    \* the journal's length

EmptyReplayState ==
    [phase |-> "new", cand |-> None, next |-> 0, arms |-> 0, mode |-> "none",
     reason |-> NoReason, cursor |-> 0,
     scores |-> [c \in Candidates |-> << >>],
     decided |-> [c \in Candidates |-> "none"], events |-> 0]

-----------------------------------------------------------------------------
(* The gates.                                                              *)

\* Which arm runs first alternates with the global pair index.
PairOrder(i) ==
    IF i % 2 = 0 THEN <<"champion", "candidate">> ELSE <<"candidate", "champion">>

ScreenPasses(o) == o.eligible /\ o.score >= ScreenMin /\ o.guard

\* _confirmation_reasons: both pairs eligible, back to back, orders reversed.
Reversed(a, b) ==
    /\ a.eligible /\ b.eligible
    /\ b.pair = a.pair + 1
    /\ PairOrder(a.pair) # PairOrder(b.pair)

PromotionPasses(a, b) ==
    /\ Reversed(a, b)
    /\ ScreenPasses(a)
    /\ b.guard
    /\ a.score > PromotionMin /\ b.score > PromotionMin
    /\ a.score + b.score >= 2 * CombinedMin

SimplificationScreenPasses(c, o) ==
    /\ o.eligible /\ o.guard
    /\ o.score >= SimplifyMin
    /\ o.memory \/ c \in Simpler

SimplificationPromotionPasses(c, a, b) ==
    /\ Reversed(a, b)
    /\ a.guard /\ b.guard
    /\ a.score + b.score >= 2 * SimplifyMin
    /\ (a.memory /\ b.memory) \/ c \in Simpler

\* Only a fully recovered syntax or startup failure spares the campaign.
FailureDisposition(kind, cleanup, preflight) ==
    IF kind \in {"candidate_syntax", "candidate_startup"} /\ cleanup /\ preflight
    THEN "discard_candidate" ELSE "terminate_campaign"

-----------------------------------------------------------------------------
(* One branch of replay_transitions each: when the event is accepted, and  *)
(* the state after it.                                                     *)

Observations(s) == IF s.cand = None THEN << >> ELSE s.scores[s.cand]

AcceptsStart(s) == s.phase = "new"
AfterStart(s) == [s EXCEPT !.phase = "idle", !.events = @ + 1]

AcceptsCandidate(s, c) == s.phase = "idle" /\ c \in Candidates /\ c = s.cursor + 1
AfterCandidate(s, c) ==
    [s EXCEPT !.phase = "candidate", !.cand = c, !.mode = "none", !.cursor = c,
              !.events = @ + 1]

\* _replay_frozen_campaign allows a candidate a screen and a confirmation.
AcceptsPair(s, c, i) ==
    /\ s.phase = "candidate" /\ c = s.cand /\ i = s.next
    /\ Len(Observations(s)) < 2
AfterPair(s) == [s EXCEPT !.phase = "pair", !.arms = 0, !.events = @ + 1]

AcceptsCell(s, c, i, arm) ==
    /\ s.phase = "pair" /\ c = s.cand /\ i = s.next
    /\ s.arms < 2
    /\ arm = PairOrder(i)[s.arms + 1]
AfterCell(s) == [s EXCEPT !.arms = @ + 1, !.events = @ + 1]

\* observation_from_cells, for the active pair.
Scored(s, out) ==
    [pair |-> s.next, eligible |-> out.eligible, score |-> out.score,
     guard |-> out.guard, memory |-> out.memory]

AcceptsScore(s, c, o) ==
    /\ s.phase = "pair" /\ c = s.cand
    /\ s.arms = 2
    /\ o.pair = s.next
    /\ Len(Observations(s)) < 2
AfterScore(s, c, o) ==
    [s EXCEPT !.phase = "scored", !.scores[c] = Append(@, o), !.next = @ + 1,
              !.events = @ + 1]

AcceptsDecision(s, c, d) ==
    LET obs == Observations(s) IN
    /\ s.phase = "scored" /\ c = s.cand
    /\ obs[Len(obs)].eligible
    /\ d = "confirm" => Len(obs) = 1 /\ ScreenPasses(obs[1])
    /\ d = "confirm_simplification" =>
           Len(obs) = 1 /\ SimplificationScreenPasses(c, obs[1])
    /\ d = "promote" =>
           Len(obs) = 2 /\ s.mode = "standard" /\ PromotionPasses(obs[1], obs[2])
    /\ d = "promote_simplification" =>
           /\ Len(obs) = 2 /\ s.mode = "simplification"
           /\ SimplificationPromotionPasses(c, obs[1], obs[2])
AfterDecision(s, c, d) ==
    IF d \in Confirmations
    THEN [s EXCEPT !.phase = "candidate", !.arms = 0, !.decided[c] = d,
                   !.mode = IF d = "confirm" THEN "standard" ELSE "simplification",
                   !.events = @ + 1]
    ELSE [s EXCEPT !.phase = "idle", !.arms = 0, !.decided[c] = d, !.cand = None,
                   !.mode = "none", !.events = @ + 1]

AcceptsDiscard(s, c, kind, cleanup, preflight) ==
    /\ s.phase \in {"candidate", "pair"} /\ c = s.cand
    /\ FailureDisposition(kind, cleanup, preflight) = "discard_candidate"
AfterDiscard(s) ==
    [s EXCEPT !.phase = "idle", !.cand = None, !.arms = 0, !.mode = "none",
              !.events = @ + 1]

AcceptsTermination(s, kind, cleanup, preflight) ==
    /\ s.phase \notin {"new", "terminal"}
    /\ FailureDisposition(kind, cleanup, preflight) = "terminate_campaign"
AfterTermination(s, kind) ==
    [s EXCEPT !.phase = "terminal", !.reason = kind, !.events = @ + 1]

AcceptsCompletion(s) == s.phase = "idle"
AfterCompletion(s) ==
    [s EXCEPT !.phase = "terminal", !.reason = "completed", !.events = @ + 1]
=============================================================================
