-------------------------- MODULE WeightedMajority --------------------------
(***************************************************************************)
(* The weighted majority vote of EnsembleBP: three experts vote on a       *)
(* branch, the signed sum of their weights decides, and at commit the      *)
(* weights move towards the experts that were right.  A prediction h is    *)
(* the part of BPHistory the vote uses: the votes and the final one.       *)
(* EnsembleBP2 runs the same scheme with a tournament predictor in place   *)
(* of the local one and other constants.                                   *)
(***************************************************************************)
EXTENDS SatCounter

CONSTANTS MaxWeight,      \* the largest value of a WEIGHT_COUNTER_SIZE counter
          MaxWeightSum    \* MAX_WEIGHT_SUM

Experts == {"local", "global", "gshare"}

Votes == [Experts -> BOOLEAN]

(* Weights start at 0, as every SatCounter. *)
WeightInit == [e \in Experts |-> 0]

weightSum(w) == w["gshare"] + w["global"] + w["local"]

signed(w, vote, e) == IF vote[e] THEN w[e] ELSE -w[e]

accumulation(w, vote) ==
  signed(w, vote, "global") + signed(w, vote, "local") + signed(w, vote, "gshare")

(* Mutant: a tie is predicted not taken. *)
finalPredictionStrict(w, vote) == accumulation(w, vote) > 0

finalPrediction(w, vote) == accumulation(w, vote) >= 0

contributed(h, e) == h.vote[e] = h.final

one(b) == IF b THEN 1 ELSE 0

contributorCount(h) ==
  one(contributed(h, "global")) + one(contributed(h, "local")) + one(contributed(h, "gshare"))

learningRate(h) ==
  IF contributorCount(h) = 1 THEN 2 ELSE IF contributorCount(h) = 2 THEN 1 ELSE 0

(* Mutant: the rates of learning are used for adjustments too. *)
adjustmentRateOfLearning(h) == learningRate(h)

adjustmentRate(h) ==
  IF contributorCount(h) = 1 THEN 1 ELSE IF contributorCount(h) = 2 THEN 2 ELSE 0

(* Mutant: the increment does not saturate. *)
movedUnsaturated(ctr, up, n) == IF up THEN ctr + n ELSE decrement(ctr, n)

moved(ctr, up, n) == IF up THEN increment(ctr, n, MaxWeight) ELSE decrement(ctr, n)

(* Mutant: contributors to a wrong verdict are not punished. *)
learnedOnSuccess(w, h, taken) ==
  [e \in Experts |->
     IF contributed(h, e) /\ h.final = taken THEN moved(w[e], TRUE, learningRate(h)) ELSE w[e]]

(* The experts that voted with the verdict share its fate. *)
learned(w, h, taken) ==
  [e \in Experts |->
     IF contributed(h, e) THEN moved(w[e], h.final = taken, learningRate(h)) ELSE w[e]]

(* Mutants: no adjustment, and one in the direction of the verdict. *)
unadjusted(w, h, taken) == w

adjustedWithVerdict(w, h, taken) ==
  IF weightSum(w) > MaxWeightSum
  THEN [e \in Experts |->
          IF contributed(h, e) THEN w[e] ELSE moved(w[e], h.final = taken, adjustmentRate(h))]
  ELSE w

(* Past MaxWeightSum the others move the opposite way. *)
adjusted(w, h, taken) ==
  IF weightSum(w) > MaxWeightSum
  THEN [e \in Experts |->
          IF contributed(h, e) THEN w[e] ELSE moved(w[e], h.final # taken, adjustmentRate(h))]
  ELSE w

(* The weights after update(taken, squashed = false). *)
retrained(w, h, taken) == adjusted(learned(w, h, taken), h, taken)

(* Two experts outvoted a third one that outweighs each of them. *)
lowWeightWon(w, h) ==
  \E e \in Experts :
    /\ ~contributed(h, e)
    /\ \A o \in Experts \ {e} : contributed(h, o) /\ w[e] > w[o]

numCorrect(h, taken) == one(h.vote["local"] = taken) + one(h.vote["global"] = taken)
                          + one(h.vote["gshare"] = taken)

(* The statistics that updateAdditionalStats increments. *)
updateAdditionalStats(w, h, taken) ==
  LET mispredict == h.final # taken
      unanimous  == \A e, o \in Experts : h.vote[e] = h.vote[o]
      n          == numCorrect(h, taken)
  IN  (IF lowWeightWon(w, h) THEN {"lowWeightExpertsWon"} ELSE {})
        \cup (IF unanimous
              THEN {IF mispredict THEN "allExpertsWrong" ELSE "allExpertsRight"} ELSE {})
        \cup (IF mispredict /\ n > 0
              THEN {"atLeastOneCorrectExpertOnMispredict",
                    <<"oneCorrectExpert", "twoCorrectExpert", "threeCorrectExpert">>[n]}
              ELSE {})
=============================================================================
