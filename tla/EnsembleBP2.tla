---------------------------- MODULE EnsembleBP2 -----------------------------
(***************************************************************************)
(* EnsembleBP2: the ensemble whose experts are a global predictor, gshare  *)
(* and a tournament of the global and a local predictor.  The weights are  *)
(* those of WeightedMajority with the constants of this class; the         *)
(* tournament takes the place that "local" has there.                      *)
(***************************************************************************)
EXTENDS CounterTables

CONSTANTS MaxWeight2, MaxWeightSum2   \* WEIGHT_COUNTER_SIZE and MAX_WEIGHT_SUM here

W == INSTANCE WeightedMajority WITH MaxWeight <- MaxWeight2, MaxWeightSum <- MaxWeightSum2

Tables == {"local", "global", "gshare", "choice"}

BPInit ==
  [kind |-> "EnsembleBP2", weight |-> W!WeightInit, ctrs |-> counters(Tables),
   localHistoryTable |-> localHistories, globalHistory |-> globalHistories,
   heap |-> << >>]

globalHistoryBits == Max({IdxBits["global"], IdxBits["choice"]})

calcLocHistIdx(branch_addr) == Mask(branch_addr, LocalTableBits)

gshareIdx(branch_addr, ghr) == Xor(branch_addr, ghr, IdxBits["global"])

consulted(b, tid, branch_addr) ==
  [n \in Tables |->
     CASE n = "local"  -> Mask(b.localHistoryTable[calcLocHistIdx(branch_addr)], IdxBits[n])
       [] n = "gshare" -> gshareIdx(branch_addr, b.globalHistory[tid])
       [] OTHER        -> Mask(b.globalHistory[tid], IdxBits[n])]

(* lookup leaves the histories alone.  h.local is the vote of the local
   predictor, h.vote["local"] that of the tournament. *)
bpLookup(b, tid, branch_addr) ==
  LET idx  == consulted(b, tid, branch_addr)
      pred == [n \in Tables |-> above(b, n, idx[n])]
      vote == [e \in W!Experts |->
                 IF e = "local" THEN IF pred["choice"] THEN pred["global"] ELSE pred["local"]
                 ELSE pred[e]]
      h    == [globalHistory |-> b.globalHistory[tid],
               localHistoryIdx |-> calcLocHistIdx(branch_addr), localHistory |-> idx["local"],
               local |-> pred["local"], vote |-> vote,
               final |-> W!finalPrediction(b.weight, vote)]
  IN  {[taken |-> h.final] @@ allocate(b, h)}

shiftGlobal(b, tid, ghr, taken) ==
  [b EXCEPT !.globalHistory[tid] = Mask(ShiftIn(ghr, taken), globalHistoryBits)]

uncondBranch(b, tid, pc) ==
  allocate(shiftGlobal(b, tid, b.globalHistory[tid], TRUE),
           [globalHistory |-> b.globalHistory[tid],
            localHistoryIdx |-> invalidPredictorIndex,
            localHistory |-> invalidPredictorIndex, local |-> TRUE,
            vote |-> [e \in W!Experts |-> TRUE], final |-> TRUE])

btbUpdate(b, tid, branch_addr, bp_history) ==
  [b EXCEPT
     !.globalHistory[tid] = ClearLSB(@),
     !.localHistoryTable[calcLocHistIdx(branch_addr)] = ClearLSB(Mask(@, IdxBits["local"]))]

localValid(h) == h.localHistory # invalidPredictorIndex

corrected(b, tid, branch_addr, taken, h) ==
  LET g == shiftGlobal(b, tid, h.globalHistory, taken)
  IN  IF localValid(h)
      THEN [g EXCEPT !.localHistoryTable[calcLocHistIdx(branch_addr)] =
                       shiftUnmasked(h.localHistory, taken)]
      ELSE g

(* The choice learns who was right if local and global differed. *)
choiceTrained(b, taken, h) ==
  IF h.local # h.vote["global"] /\ localValid(h)
  THEN trainCtr(b, "choice", Mask(h.globalHistory, IdxBits["choice"]), h.vote["global"] = taken)
  ELSE b

(* The gshare counter is the one the global history of the moment selects. *)
committed(b, tid, branch_addr, taken, h) ==
  LET w == [choiceTrained(b, taken, h) EXCEPT !.weight = W!retrained(@, h, taken)]
      g == trainCtr(trainCtr(w, "global", Mask(h.globalHistory, IdxBits["global"]), taken),
                    "gshare", gshareIdx(branch_addr, b.globalHistory[tid]), taken)
  IN  IF localValid(h) THEN trainCtr(g, "local", Mask(h.localHistory, IdxBits["local"]), taken)
      ELSE g

bpUpdate(b, tid, branch_addr, taken, bp_history, squashed) ==
  IF squashed THEN corrected(b, tid, branch_addr, taken, b.heap[bp_history])
  ELSE delete(committed(b, tid, branch_addr, taken, b.heap[bp_history]), bp_history)

bpSquash(b, tid, bp_history) ==
  LET h == b.heap[bp_history]
      g == [b EXCEPT !.globalHistory[tid] = h.globalHistory]
  IN  delete(IF h.localHistoryIdx = invalidPredictorIndex THEN g
             ELSE [g EXCEPT !.localHistoryTable[h.localHistoryIdx] = h.localHistory],
             bp_history)

getGHR(b, tid, bp_history) == b.heap[bp_history].globalHistory
=============================================================================
