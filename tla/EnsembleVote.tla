---------------------------- MODULE EnsembleVote ----------------------------
(***************************************************************************)
(* The life of the ensemble's weights: branches are looked up with the     *)
(* weights of the moment, wait in flight, and train the weights when they  *)
(* commit, in order; squashed ones leave no trace.  What the experts vote  *)
(* and how a branch resolves is left open: PredictorUnit implements this    *)
(* specification with the experts' tables.                                 *)
(*                                                                         *)
(* pending is the queue of predictions in flight, oldest first.            *)
(***************************************************************************)
EXTENDS WeightedMajority, Sequences

CONSTANT MaxInFlight      \* bound: branches in flight (the ROB)

ASSUME WeightAssumption ==
  /\ MaxWeight \in Nat
  /\ MaxWeightSum \in Nat
  /\ MaxWeightSum <= 2 * MaxWeight
  /\ MaxInFlight \in Nat

VARIABLES weight, pending

vars == <<weight, pending>>

Init == weight = WeightInit /\ pending = << >>

(* lookup: a conditional branch. *)
Lookup(vote) ==
  /\ Len(pending) < MaxInFlight
  /\ pending' = Append(pending, [vote |-> vote, final |-> finalPrediction(weight, vote)])
  /\ UNCHANGED weight

(* uncondBranch: all experts are recorded as voting taken. *)
UncondBranch ==
  /\ Len(pending) < MaxInFlight
  /\ pending' = Append(pending, [vote |-> [e \in Experts |-> TRUE], final |-> TRUE])
  /\ UNCHANGED weight

(* update(squashed = false): the oldest branch commits with its outcome. *)
Train(taken) ==
  /\ pending # << >>
  /\ weight' = retrained(weight, Head(pending), taken)
  /\ pending' = Tail(pending)

(* squash: the branches after the first n leave. *)
Squash(n) ==
  /\ pending' = SubSeq(pending, 1, n)
  /\ UNCHANGED weight

Next ==
  \/ \E vote \in Votes : Lookup(vote)
  \/ UncondBranch
  \/ \E taken \in BOOLEAN : Train(taken)
  \/ \E n \in 0..Len(pending) - 1 : Squash(n)

Spec == Init /\ [][Next]_vars

-----------------------------------------------------------------------------
(* Properties *)

Predictions == [vote : Votes, final : BOOLEAN]

(* Type invariant: weights are saturating counters, pending a queue of
   predictions. *)
TypeOK ==
  /\ weight \in [Experts -> 0..MaxWeight]
  /\ pending \in Seq(Predictions)

(* The weights together never exceed those of two saturated experts: the
   adjustment of update() always keeps what learning adds in check, although
   not at MAX_WEIGHT_SUM. *)
WeightSumBounded == weightSum(weight) <= 2 * MaxWeight

RewardStep ==
  \A taken \in BOOLEAN : Train(taken) =>
    \A e \in Experts :
      /\ Head(pending).vote[e] = taken => weight'[e] >= weight[e]
      /\ Head(pending).vote[e] # taken => weight'[e] <= weight[e]

(* Training never rewards a wrong expert and never punishes a right one,
   however stale the verdict is that the branch was predicted with. *)
RewardsRightExperts == [][RewardStep]_vars

ConserveStep ==
  \A taken \in BOOLEAN :
    /\ Train(taken)
    /\ weightSum(learned(weight, Head(pending), taken)) > MaxWeightSum
    /\ \A e \in Experts : weight[e] \in 2..MaxWeight - 2
    => weightSum(weight') = weightSum(weight)

(* Once learning has brought the sum past MAX_WEIGHT_SUM, learning and
   adjustment together move weight from expert to expert without creating or
   losing any, as long as no counter saturates. *)
ConservesWeightPastMax == [][ConserveStep]_vars

(* What the statistics on the experts mean: outside of ties, allExpertsWrong
   and allExpertsRight count what all experts voted, although the code compares
   the verdict; and a misprediction with three right experts is a tie of a
   branch that was not taken. *)
StatsFollowVotes ==
  \A k \in DOMAIN pending, taken \in BOOLEAN :
    LET h     == pending[k]
        stats == updateAdditionalStats(weight, h, taken)
    IN  /\ contributorCount(h) # 0 =>
             /\ "allExpertsWrong" \in stats <=> \A e \in Experts : h.vote[e] # taken
             /\ "allExpertsRight" \in stats <=> \A e \in Experts : h.vote[e] = taken
        /\ "threeCorrectExpert" \in stats => contributorCount(h) = 0 /\ ~taken
=============================================================================
