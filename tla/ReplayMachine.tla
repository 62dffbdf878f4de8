---------------------------- MODULE ReplayMachine ----------------------------
(***************************************************************************)
(* The controller journal as the state its replay gives.  An event is      *)
(* appended only if the replay of the extended journal accepts it          *)
(* (append_transition), so a step is one accepted event.  This is what     *)
(* every controller history must look like, whatever program wrote it;     *)
(* module Campaign is the program, and is shown to implement this one.     *)
(***************************************************************************)
EXTENDS Transitions

VARIABLE ctl  \* the controller journal, as its replay

ReplayInit == ctl = EmptyReplayState

CampaignStarted == AcceptsStart(ctl) /\ ctl' = AfterStart(ctl)

CandidateStarted ==
    \E c \in Candidates : AcceptsCandidate(ctl, c) /\ ctl' = AfterCandidate(ctl, c)

PairStarted == AcceptsPair(ctl, ctl.cand, ctl.next) /\ ctl' = AfterPair(ctl)

CellCompleted ==
    \E arm \in Arms :
        AcceptsCell(ctl, ctl.cand, ctl.next, arm) /\ ctl' = AfterCell(ctl)

PairScored ==
    \E out \in Outcomes :
        /\ AcceptsScore(ctl, ctl.cand, Scored(ctl, out))
        /\ ctl' = AfterScore(ctl, ctl.cand, Scored(ctl, out))

CandidateDecided ==
    \E d \in Decisions :
        AcceptsDecision(ctl, ctl.cand, d) /\ ctl' = AfterDecision(ctl, ctl.cand, d)

CandidateDiscarded ==
    \E kind \in FailureKind, cleanup, preflight \in BOOLEAN :
        /\ AcceptsDiscard(ctl, ctl.cand, kind, cleanup, preflight)
        /\ ctl' = AfterDiscard(ctl)

CampaignTerminated ==
    \E kind \in FailureKind, cleanup, preflight \in BOOLEAN :
        /\ AcceptsTermination(ctl, kind, cleanup, preflight)
        /\ ctl' = AfterTermination(ctl, kind)

CampaignCompleted == AcceptsCompletion(ctl) /\ ctl' = AfterCompletion(ctl)

ReplayNext ==
    \/ CampaignStarted \/ CandidateStarted \/ PairStarted \/ CellCompleted
    \/ PairScored \/ CandidateDecided \/ CandidateDiscarded
    \/ CampaignTerminated \/ CampaignCompleted

ReplaySpec == ReplayInit /\ [][ReplayNext]_ctl

-----------------------------------------------------------------------------
\* Every replayed state is well formed.
ReplayTypeOK == ctl \in ReplayState

\* A global pair index is spent by one scored pair only: the observations of
\* all candidates carry distinct indexes, all below next_pair_index
\* (replay_transitions, pair_started: the index is checked against one counter that
\* survives candidate resets).
PairIndexesUnique ==
    \A c, d \in Candidates :
        \A i \in 1 .. Len(ctl.scores[c]), j \in 1 .. Len(ctl.scores[d]) :
            /\ ctl.scores[c][i].pair < ctl.next
            /\ ctl.scores[c][i].pair = ctl.scores[d][j].pair => c = d /\ i = j

\* A promoted candidate was measured twice, both times eligibly, in pairs run
\* back to back with the arms in opposite orders
\* (replay_transitions, candidate_decided).
PromotionConfirmed ==
    \A c \in Candidates :
        ctl.decided[c] \in Promotions =>
            /\ Len(ctl.scores[c]) = 2
            /\ Reversed(ctl.scores[c][1], ctl.scores[c][2])
            /\ ctl.scores[c][1].guard /\ ctl.scores[c][2].guard

\* The queue is worked off in order: a candidate beyond the cursor has no score
\* and no decision, and only the last one started can still be active.
QueueOrder ==
    \A c \in Candidates :
        /\ c > ctl.cursor => Len(ctl.scores[c]) = 0 /\ ctl.decided[c] = "none"
        /\ c = ctl.cand => c = ctl.cursor

\* No transition is accepted after the campaign's terminal event
\* (replay_transitions).
TerminalFinal == [][ctl.phase # "terminal"]_ctl
=============================================================================
