------------------------- MODULE EnsembleVoteProofs -------------------------
(***************************************************************************)
(* Proofs about the ensemble's weights, for every counter size, every      *)
(* MaxWeightSum up to two saturated weights and any number of branches in  *)
(* flight.                                                                 *)
(***************************************************************************)
EXTENDS EnsembleVote, SequenceTheorems, TLAPS

Weights == [Experts -> 0..MaxWeight]

(* A weight counter that moves stays a counter, and moves the right way. *)
LEMMA MovedProperties ==
  ASSUME NEW ctr \in 0..MaxWeight, NEW up \in BOOLEAN, NEW n \in Nat
  PROVE  /\ moved(ctr, up, n) \in 0..MaxWeight
         /\ up => moved(ctr, up, n) >= ctr /\ moved(ctr, up, n) <= ctr + n
         /\ up /\ ctr + n <= MaxWeight => moved(ctr, up, n) = ctr + n
         /\ ~up => moved(ctr, up, n) <= ctr
         /\ ~up /\ ctr >= n => moved(ctr, up, n) = ctr - n
         /\ ~up /\ ctr <= n => moved(ctr, up, n) = 0
  BY WeightAssumption DEF moved, increment, decrement

(* The rates at which contributors learn and the others adjust. *)
LEMMA Rates ==
  ASSUME NEW h
  PROVE  /\ contributorCount(h) \in 0..3
         /\ learningRate(h) \in 0..2
         /\ adjustmentRate(h) \in 0..2
  BY DEF contributorCount, one, learningRate, adjustmentRate

(* Learning and adjustment keep the weights saturating counters. *)
LEMMA RetrainedType ==
  ASSUME NEW w \in Weights, NEW h \in Predictions, NEW taken \in BOOLEAN
  PROVE  learned(w, h, taken) \in Weights /\ retrained(w, h, taken) \in Weights
<1>1. /\ learningRate(h) \in Nat /\ adjustmentRate(h) \in Nat
      /\ (h.final = taken) \in BOOLEAN /\ (h.final # taken) \in BOOLEAN
  BY Rates
<1>2. ASSUME NEW v \in Weights, NEW e \in Experts
      PROVE  /\ v[e] \in 0..MaxWeight
             /\ moved(v[e], h.final = taken, learningRate(h)) \in 0..MaxWeight
             /\ moved(v[e], h.final # taken, adjustmentRate(h)) \in 0..MaxWeight
  <2>1. v[e] \in 0..MaxWeight
    BY DEF Weights
  <2> QED
    BY <1>1, <2>1, MovedProperties
<1>3. learned(w, h, taken) \in Weights
  BY <1>2 DEF learned, Weights
<1>4. adjusted(learned(w, h, taken), h, taken) \in Weights
  BY <1>2, <1>3 DEF adjusted, Weights
<1> QED
  BY <1>3, <1>4 DEF retrained

(* What one expert's weight becomes, by whether it contributed; past stands for
   learning having brought the sum past MaxWeightSum. *)
LEMMA RetrainedWeight ==
  ASSUME NEW w \in Weights, NEW h \in Predictions, NEW taken \in BOOLEAN,
         NEW e \in Experts
  PROVE  LET past == weightSum(learned(w, h, taken)) > MaxWeightSum
             up   == h.final = taken
         IN  retrained(w, h, taken)[e] =
               IF contributed(h, e) THEN moved(w[e], up, learningRate(h))
               ELSE IF past THEN moved(w[e], ~up, adjustmentRate(h)) ELSE w[e]
<1>1. learned(w, h, taken)[e] =
        IF contributed(h, e) THEN moved(w[e], h.final = taken, learningRate(h)) ELSE w[e]
  BY DEF learned
<1>2. (h.final # taken) = (~(h.final = taken))
  OBVIOUS
<1>3. CASE weightSum(learned(w, h, taken)) > MaxWeightSum
  BY <1>1, <1>2, <1>3 DEF retrained, adjusted
<1>4. CASE ~(weightSum(learned(w, h, taken)) > MaxWeightSum)
  BY <1>1, <1>4 DEF retrained, adjusted
<1> QED
  BY <1>3, <1>4

(* Past MaxWeightSum, training is a swap between a pair of experts and the
   third one: the pair moves by 1 and the third by 2 the other way.  The pair
   is the two contributors or the two others.  With no contributor or three,
   nothing moves. *)
LEMMA RetrainedSwap ==
  ASSUME NEW w \in Weights, NEW h \in Predictions, NEW taken \in BOOLEAN,
         weightSum(learned(w, h, taken)) > MaxWeightSum
  PROVE  LET r == retrained(w, h, taken)
         IN  \/ \A e \in Experts : r[e] = w[e]
             \/ \E a, b, c \in Experts, d \in BOOLEAN :
                  /\ weightSum(w) = w[a] + w[b] + w[c]
                  /\ weightSum(r) = r[a] + r[b] + r[c]
                  /\ r[a] = moved(w[a], d, 1) /\ r[b] = moved(w[b], d, 1)
                  /\ r[c] = moved(w[c], ~d, 2)
<1> DEFINE r    == retrained(w, h, taken)
           up   == h.final = taken
           C(e) == contributed(h, e)
           Sum3(a, b, c) == /\ weightSum(w) = w[a] + w[b] + w[c]
                            /\ weightSum(r) = r[a] + r[b] + r[c]
           Swap(a, b, c, d) == /\ r[a] = moved(w[a], d, 1) /\ r[b] = moved(w[b], d, 1)
                               /\ r[c] = moved(w[c], ~d, 2)
<1>1. \A e \in Experts :
        r[e] = IF C(e) THEN moved(w[e], up, learningRate(h))
               ELSE moved(w[e], ~up, adjustmentRate(h))
  BY RetrainedWeight
<1>2. \A e \in Experts : w[e] \in 0..MaxWeight /\ r[e] \in 0..MaxWeight
  BY RetrainedType DEF Weights
<1>3. up \in BOOLEAN /\ (~up) \in BOOLEAN /\ (~ ~up) = up
  OBVIOUS
<1>4. /\ Sum3("gshare", "global", "local")
      /\ Sum3("gshare", "local", "global")
      /\ Sum3("global", "local", "gshare")
  BY <1>2, WeightAssumption DEF weightSum, Experts
<1>5. ASSUME NEW a \in Experts, NEW b \in Experts, NEW c \in Experts,
             C(a), C(b), ~C(c), contributorCount(h) = 2
      PROVE  Swap(a, b, c, up)
  <2>1. learningRate(h) = 1 /\ adjustmentRate(h) = 2
    BY <1>5 DEF learningRate, adjustmentRate
  <2> QED
    BY <1>1, <1>5, <2>1
<1>6. ASSUME NEW a \in Experts, NEW b \in Experts, NEW c \in Experts,
             ~C(a), ~C(b), C(c), contributorCount(h) = 1
      PROVE  Swap(a, b, c, ~up)
  <2>1. learningRate(h) = 2 /\ adjustmentRate(h) = 1
    BY <1>6 DEF learningRate, adjustmentRate
  <2> QED
    BY <1>1, <1>3, <1>6, <2>1
<1>7. CASE contributorCount(h) \in {0, 3}
  <2>1. learningRate(h) = 0 /\ adjustmentRate(h) = 0
    BY <1>7 DEF learningRate, adjustmentRate
  <2>2. \A e \in Experts : r[e] = w[e]
    BY <1>1, <1>2, <2>1, WeightAssumption DEF moved, increment, decrement
  <2> QED
    BY <2>2
<1>8. CASE contributorCount(h) \in {1, 2}
  <2>1. \E d \in BOOLEAN : \/ Swap("gshare", "global", "local", d)
                          \/ Swap("gshare", "local", "global", d)
                          \/ Swap("global", "local", "gshare", d)
    <3>1. "gshare" \in Experts /\ "global" \in Experts /\ "local" \in Experts
      BY DEF Experts
    <3>2. \/ C("gshare") /\ C("global") /\ ~C("local") /\ contributorCount(h) = 2
          \/ C("gshare") /\ ~C("global") /\ C("local") /\ contributorCount(h) = 2
          \/ ~C("gshare") /\ C("global") /\ C("local") /\ contributorCount(h) = 2
          \/ ~C("gshare") /\ ~C("global") /\ C("local") /\ contributorCount(h) = 1
          \/ ~C("gshare") /\ C("global") /\ ~C("local") /\ contributorCount(h) = 1
          \/ C("gshare") /\ ~C("global") /\ ~C("local") /\ contributorCount(h) = 1
      BY <1>8 DEF contributorCount, one
    <3>3. \/ Swap("gshare", "global", "local", up) \/ Swap("gshare", "local", "global", up)
          \/ Swap("global", "local", "gshare", up) \/ Swap("gshare", "global", "local", ~up)
          \/ Swap("gshare", "local", "global", ~up) \/ Swap("global", "local", "gshare", ~up)
      <4> HIDE DEF Swap, up, C
      <4> QED
        BY <1>5, <1>6, <3>1, <3>2
    <3> QED
      BY <1>3, <3>3
  <2> QED
    BY <1>4, <2>1 DEF Experts
<1> QED
  BY <1>7, <1>8, Rates

(* The arithmetic of the bound. *)
LEMMA SwapBound ==
  ASSUME NEW a \in 0..MaxWeight, NEW b \in 0..MaxWeight, NEW c \in 0..MaxWeight,
         a + b + c <= 2 * MaxWeight, NEW up \in BOOLEAN
  PROVE  moved(a, up, 1) + moved(b, up, 1) + moved(c, ~up, 2) <= 2 * MaxWeight
<1>1. CASE up
  BY <1>1, WeightAssumption DEF moved, increment, decrement
<1>2. CASE ~up
  BY <1>2, WeightAssumption DEF moved, increment, decrement
<1> QED
  BY <1>1, <1>2

(* A training step keeps the sum of the weights within two saturated ones. *)
LEMMA RetrainedBound ==
  ASSUME NEW w \in Weights, NEW h \in Predictions, NEW taken \in BOOLEAN,
         weightSum(w) <= 2 * MaxWeight
  PROVE  weightSum(retrained(w, h, taken)) <= 2 * MaxWeight
<1> DEFINE r == retrained(w, h, taken)
<1>1. CASE ~(weightSum(learned(w, h, taken)) > MaxWeightSum)
  <2>1. r = learned(w, h, taken)
    BY <1>1 DEF retrained, adjusted
  <2>2. weightSum(r) \in Int
    BY RetrainedType DEF weightSum, Weights, Experts
  <2> QED
    BY <1>1, <2>1, <2>2, WeightAssumption
<1>2. CASE weightSum(learned(w, h, taken)) > MaxWeightSum
  <2>1. CASE \A e \in Experts : r[e] = w[e]
    BY <2>1 DEF weightSum, Experts
  <2>2. ASSUME NEW a \in Experts, NEW b \in Experts, NEW c \in Experts,
               NEW d \in BOOLEAN,
               weightSum(w) = w[a] + w[b] + w[c], weightSum(r) = r[a] + r[b] + r[c],
               r[a] = moved(w[a], d, 1), r[b] = moved(w[b], d, 1),
               r[c] = moved(w[c], ~d, 2)
        PROVE  weightSum(r) <= 2 * MaxWeight
    <3>1. w[a] \in 0..MaxWeight /\ w[b] \in 0..MaxWeight /\ w[c] \in 0..MaxWeight
      BY DEF Weights
    <3>2. moved(w[a], d, 1) + moved(w[b], d, 1) + moved(w[c], ~d, 2) <= 2 * MaxWeight
      BY <2>2, <3>1, SwapBound
    <3> QED
      BY <2>2, <3>2
  <2> QED
    BY <1>2, <2>1, <2>2, RetrainedSwap
<1> QED
  BY <1>1, <1>2

(* A queue of elements of S: its head, its tail and its prefixes. *)
LEMMA QueueParts ==
  ASSUME NEW S, NEW q \in Seq(S)
  PROVE  /\ q # << >> => Head(q) \in S /\ Tail(q) \in Seq(S)
         /\ \A n \in 0..Len(q) : SubSeq(q, 1, n) \in Seq(S)
  BY HeadTailProperties, SubSeqProperties, LenProperties

-----------------------------------------------------------------------------
(* Weights stay saturating counters and pending a queue of predictions in
   every behaviour of lookup, uncondBranch, update and squash. *)
THEOREM TypeCorrect == Spec => []TypeOK
<1>1. Init => TypeOK
  BY WeightAssumption DEF Init, TypeOK, WeightInit
<1>2. TypeOK /\ [Next]_vars => TypeOK'
  <2> SUFFICES ASSUME TypeOK, [Next]_vars PROVE TypeOK'
    OBVIOUS
  <2> USE DEF TypeOK
  <2>1. ASSUME NEW vote \in Votes, Lookup(vote) PROVE TypeOK'
    <3>1. finalPrediction(weight, vote) \in BOOLEAN
      BY DEF finalPrediction
    <3> QED
      BY <2>1, <3>1 DEF Lookup, Predictions
  <2>2. CASE UncondBranch
    <3>1. [e \in Experts |-> TRUE] \in Votes
      BY DEF Votes
    <3> QED
      BY <2>2, <3>1 DEF UncondBranch, Predictions
  <2>3. ASSUME NEW taken \in BOOLEAN, Train(taken) PROVE TypeOK'
    <3>1. Head(pending) \in Predictions /\ Tail(pending) \in Seq(Predictions)
      BY <2>3, QueueParts DEF Train
    <3> QED
      BY <2>3, <3>1, RetrainedType DEF Train, Weights
  <2>4. ASSUME NEW n \in 0..Len(pending) - 1, Squash(n) PROVE TypeOK'
    <3>1. n \in 0..Len(pending)
      BY LenProperties
    <3> QED
      BY <2>4, <3>1, QueueParts DEF Squash
  <2>5. CASE UNCHANGED vars
    BY <2>5 DEF vars
  <2> QED
    BY <2>1, <2>2, <2>3, <2>4, <2>5 DEF Next
<1> QED
  BY <1>1, <1>2, PTL DEF Spec

(* The weights never exceed two saturated experts together.  The bound is
   inductive over typed states. *)
THEOREM WeightSumCorrect == Spec => []WeightSumBounded
<1>1. Init => WeightSumBounded
  BY WeightAssumption DEF Init, WeightSumBounded, WeightInit, weightSum, Experts
<1>2. TypeOK /\ WeightSumBounded /\ [Next]_vars => WeightSumBounded'
  <2> SUFFICES ASSUME TypeOK, WeightSumBounded, [Next]_vars PROVE WeightSumBounded'
    OBVIOUS
  <2>1. ASSUME NEW taken \in BOOLEAN, Train(taken) PROVE WeightSumBounded'
    <3>1. Head(pending) \in Predictions /\ weight \in Weights
      BY <2>1, QueueParts DEF Train, TypeOK, Weights
    <3> QED
      BY <2>1, <3>1, RetrainedBound DEF Train, WeightSumBounded
  <2>2. CASE UNCHANGED weight
    BY <2>2 DEF WeightSumBounded
  <2> QED
    BY <2>1, <2>2 DEF Next, Lookup, UncondBranch, Squash, vars
<1> QED
  BY <1>1, <1>2, TypeCorrect, PTL DEF Spec

(* An expert that votes for the outcome never loses weight, one that votes
   against it never gains any. *)
LEMMA RetrainedDirection ==
  ASSUME NEW w \in Weights, NEW h \in Predictions, NEW taken \in BOOLEAN,
         NEW e \in Experts
  PROVE  /\ h.vote[e] = taken => retrained(w, h, taken)[e] >= w[e]
         /\ h.vote[e] # taken => retrained(w, h, taken)[e] <= w[e]
<1> DEFINE up == h.final = taken
           r  == retrained(w, h, taken)[e]
<1>1. /\ w[e] \in 0..MaxWeight /\ h.vote[e] \in BOOLEAN /\ h.final \in BOOLEAN
      /\ up \in BOOLEAN /\ (~up) \in BOOLEAN
      /\ learningRate(h) \in Nat /\ adjustmentRate(h) \in Nat
  BY Rates DEF Weights, Predictions, Votes
<1>2. \/ contributed(h, e) /\ r = moved(w[e], up, learningRate(h))
      \/ ~contributed(h, e) /\ r = moved(w[e], ~up, adjustmentRate(h))
      \/ r = w[e]
  BY RetrainedWeight
<1>3. /\ h.vote[e] = taken /\ contributed(h, e) => up
      /\ h.vote[e] = taken /\ ~contributed(h, e) => ~up
      /\ h.vote[e] # taken /\ contributed(h, e) => ~up
      /\ h.vote[e] # taken /\ ~contributed(h, e) => up
  BY <1>1 DEF contributed
<1>4. /\ up => moved(w[e], up, learningRate(h)) >= w[e]
      /\ ~up => moved(w[e], up, learningRate(h)) <= w[e]
      /\ ~up => moved(w[e], ~up, adjustmentRate(h)) >= w[e]
      /\ up => moved(w[e], ~up, adjustmentRate(h)) <= w[e]
  BY <1>1, MovedProperties
<1>5. w[e] >= w[e] /\ w[e] <= w[e]
  BY <1>1, WeightAssumption
<1> QED
  BY <1>2, <1>3, <1>4, <1>5

(* Training rewards right experts only, in every behaviour. *)
THEOREM RewardsCorrect == Spec => RewardsRightExperts
<1>1. ASSUME TypeOK, NEW taken \in BOOLEAN, Train(taken), NEW e \in Experts
      PROVE  /\ Head(pending).vote[e] = taken => weight'[e] >= weight[e]
             /\ Head(pending).vote[e] # taken => weight'[e] <= weight[e]
  <2>1. Head(pending) \in Predictions /\ weight \in Weights
    BY <1>1, QueueParts DEF Train, TypeOK, Weights
  <2> QED
    BY <1>1, <2>1, RetrainedDirection DEF Train
<1>2. TypeOK => RewardStep
  BY <1>1 DEF RewardStep
<1> QED
  BY <1>2, TypeCorrect, PTL DEF RewardsRightExperts

(* The arithmetic of conservation: away from the ends of the counters, a pair
   and a single weight that swap keep their sum. *)
LEMMA SwapConserves ==
  ASSUME NEW a \in 2..MaxWeight - 2, NEW b \in 2..MaxWeight - 2,
         NEW c \in 2..MaxWeight - 2, NEW up \in BOOLEAN
  PROVE  moved(a, up, 1) + moved(b, up, 1) + moved(c, ~up, 2) = a + b + c
<1>1. CASE up
  BY <1>1, WeightAssumption DEF moved, increment, decrement
<1>2. CASE ~up
  BY <1>2, WeightAssumption DEF moved, increment, decrement
<1> QED
  BY <1>1, <1>2

(* Past MaxWeightSum and away from the ends of the counters, training
   conserves the sum of the weights, in every behaviour. *)
THEOREM ConservesCorrect == Spec => ConservesWeightPastMax
<1>1. ASSUME TypeOK, NEW taken \in BOOLEAN, Train(taken),
             weightSum(learned(weight, Head(pending), taken)) > MaxWeightSum,
             \A e \in Experts : weight[e] \in 2..MaxWeight - 2
      PROVE  weightSum(weight') = weightSum(weight)
  <2>1. Head(pending) \in Predictions /\ weight \in Weights
    BY <1>1, QueueParts DEF Train, TypeOK, Weights
  <2> DEFINE r == retrained(weight, Head(pending), taken)
  <2>2. ASSUME \A e \in Experts : r[e] = weight[e]
        PROVE  weightSum(r) = weightSum(weight)
    BY <2>2 DEF weightSum, Experts
  <2>3. ASSUME NEW a \in Experts, NEW b \in Experts, NEW c \in Experts,
               NEW d \in BOOLEAN,
               weightSum(weight) = weight[a] + weight[b] + weight[c],
               weightSum(r) = r[a] + r[b] + r[c],
               r[a] = moved(weight[a], d, 1), r[b] = moved(weight[b], d, 1),
               r[c] = moved(weight[c], ~d, 2)
        PROVE  weightSum(r) = weightSum(weight)
    <3>1. moved(weight[a], d, 1) + moved(weight[b], d, 1) + moved(weight[c], ~d, 2)
            = weight[a] + weight[b] + weight[c]
      BY <1>1, SwapConserves
    <3> QED
      BY <2>3, <3>1
  <2>4. weightSum(r) = weightSum(weight)
    BY <1>1, <2>1, <2>2, <2>3, RetrainedSwap
  <2> QED
    BY <1>1, <2>4 DEF Train
<1>2. TypeOK => ConserveStep
  BY <1>1 DEF ConserveStep
<1> QED
  BY <1>2, TypeCorrect, PTL DEF ConservesWeightPastMax
=============================================================================
