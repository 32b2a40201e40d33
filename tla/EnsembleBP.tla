----------------------------- MODULE EnsembleBP -----------------------------
(***************************************************************************)
(* EnsembleBP: the direction predictor whose experts are a local           *)
(* predictor (a table of per-branch histories selects a counter), a global *)
(* one (the global history does) and gshare (global history xor address).  *)
(***************************************************************************)
EXTENDS WeightedMajority, CounterTables

BPInit ==
  [kind |-> "EnsembleBP", weight |-> WeightInit, ctrs |-> counters(Experts),
   localHistoryTable |-> localHistories, globalHistory |-> globalHistories,
   heap |-> << >>]

calcLocHistIdx(branch_addr) == Mask(branch_addr, LocalTableBits)

(* Gshare is indexed with the mask of the global predictor. *)
gshareIdx(branch_addr, ghr) == Xor(branch_addr, ghr, IdxBits["global"])

consulted(b, tid, branch_addr) ==
  [e \in Experts |->
     CASE e = "local"  -> Mask(b.localHistoryTable[calcLocHistIdx(branch_addr)], IdxBits[e])
       [] e = "global" -> Mask(b.globalHistory[tid], IdxBits[e])
       [] e = "gshare" -> gshareIdx(branch_addr, b.globalHistory[tid])]

(* lookup leaves the histories alone: only corrections and unconditional
   branches shift them. *)
bpLookup(b, tid, branch_addr) ==
  LET idx  == consulted(b, tid, branch_addr)
      vote == [e \in Experts |-> above(b, e, idx[e])]
      h    == [globalHistory |-> b.globalHistory[tid],
               localHistoryIdx |-> calcLocHistIdx(branch_addr), localHistory |-> idx["local"],
               vote |-> vote, final |-> finalPrediction(b.weight, vote)]
  IN  {[taken |-> h.final] @@ allocate(b, h)}

shiftGlobal(b, tid, ghr, taken) ==
  [b EXCEPT !.globalHistory[tid] = Mask(ShiftIn(ghr, taken), IdxBits["global"])]

uncondBranch(b, tid, pc) ==
  allocate(shiftGlobal(b, tid, b.globalHistory[tid], TRUE),
           [globalHistory |-> b.globalHistory[tid],
            localHistoryIdx |-> invalidPredictorIndex,
            localHistory |-> invalidPredictorIndex,
            vote |-> [e \in Experts |-> TRUE], final |-> TRUE])

btbUpdate(b, tid, branch_addr, bp_history) ==
  [b EXCEPT
     !.globalHistory[tid] = ClearLSB(@),
     !.localHistoryTable[calcLocHistIdx(branch_addr)] = ClearLSB(Mask(@, IdxBits["local"]))]

(* Mutant: a misprediction trains the weights, as the commit will again. *)
correctedAndTrained(b, tid, branch_addr, taken, h) ==
  shiftGlobal([b EXCEPT !.weight = retrained(@, h, taken)], tid, h.globalHistory, taken)

(* update after a misprediction: the histories are rebuilt from the branch's
   own, with the right outcome. *)
corrected(b, tid, branch_addr, taken, h) ==
  LET g == shiftGlobal(b, tid, h.globalHistory, taken)
  IN  IF h.localHistory = invalidPredictorIndex THEN g
      ELSE [g EXCEPT !.localHistoryTable[calcLocHistIdx(branch_addr)] =
                       ShiftIn(h.localHistory, taken)]

(* Mutant: the global counter too is the one of the moment. *)
committedOfTheMoment(b, tid, branch_addr, taken, h) ==
  LET w == [b EXCEPT !.weight = retrained(@, h, taken)]
      g == trainCtr(w, "global", Mask(b.globalHistory[tid], IdxBits["global"]), taken)
  IN  IF h.localHistory = invalidPredictorIndex THEN g
      ELSE trainCtr(g, "local", Mask(h.localHistory, IdxBits["local"]), taken)

(* update at commit: weights and counters.  The gshare counter is the one the
   global history of the moment selects. *)
committed(b, tid, branch_addr, taken, h) ==
  LET w == [b EXCEPT !.weight = retrained(@, h, taken)]
      g == trainCtr(trainCtr(w, "global", Mask(h.globalHistory, IdxBits["global"]), taken),
                    "gshare", gshareIdx(branch_addr, b.globalHistory[tid]), taken)
  IN  IF h.localHistory = invalidPredictorIndex THEN g
      ELSE trainCtr(g, "local", Mask(h.localHistory, IdxBits["local"]), taken)

(* Mutant: the BPHistory is not deleted at commit. *)
bpUpdateLeaking(b, tid, branch_addr, taken, bp_history, squashed) ==
  IF squashed THEN corrected(b, tid, branch_addr, taken, b.heap[bp_history])
  ELSE committed(b, tid, branch_addr, taken, b.heap[bp_history])

bpUpdate(b, tid, branch_addr, taken, bp_history, squashed) ==
  IF squashed THEN corrected(b, tid, branch_addr, taken, b.heap[bp_history])
  ELSE delete(committed(b, tid, branch_addr, taken, b.heap[bp_history]), bp_history)

(* Mutants: one of the histories is not restored. *)
bpSquashGlobalOnly(b, tid, bp_history) ==
  delete([b EXCEPT !.globalHistory[tid] = b.heap[bp_history].globalHistory], bp_history)

bpSquashLocalOnly(b, tid, bp_history) ==
  LET h == b.heap[bp_history]
  IN  delete(IF h.localHistoryIdx = invalidPredictorIndex THEN b
             ELSE [b EXCEPT !.localHistoryTable[h.localHistoryIdx] = h.localHistory],
             bp_history)

(* squash: the histories go back to what the branch saw. *)
bpSquash(b, tid, bp_history) ==
  LET h == b.heap[bp_history]
      g == [b EXCEPT !.globalHistory[tid] = h.globalHistory]
  IN  delete(IF h.localHistoryIdx = invalidPredictorIndex THEN g
             ELSE [g EXCEPT !.localHistoryTable[h.localHistoryIdx] = h.localHistory],
             bp_history)

getGHR(b, tid, bp_history) == b.heap[bp_history].globalHistory
=============================================================================
