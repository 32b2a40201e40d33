-------------------------- MODULE TriTournamentBP ---------------------------
(***************************************************************************)
(* TriTournamentBP: TournamentBP with a second local predictor, of its own *)
(* sizes, and a second choice counter that prefers it to the winner of the *)
(* first two.                                                              *)
(***************************************************************************)
EXTENDS CounterTables

CONSTANT LocalTableBits2   \* log2 of localHistoryTableSize2

Tables == {"local", "local2", "global", "choice", "choice2"}

BPInit == [kind |-> "TriTournamentBP", ctrs |-> counters(Tables),
           localHistoryTable |-> localHistories,
           localHistoryTable2 |-> [i \in 0..2^LocalTableBits2 - 1 |-> 0],
           globalHistory |-> globalHistories, heap |-> << >>]

globalHistoryBits == Max({IdxBits["global"], IdxBits["choice"]})

(* The second choice compares with 2^(2(n-1)) - 1, n the width of the first. *)
choiceThreshold2 == 2^(2 * (CtrBits["choice"] - 1)) - 1

calcLocHistIdx(branch_addr) == Mask(branch_addr, LocalTableBits)

calcLocHistIdx2(branch_addr) == Mask(branch_addr, LocalTableBits2)

indices(ghr, localHistory, localHistory2) ==
  [n \in Tables |-> Mask(CASE n = "local" -> localHistory
                           [] n = "local2" -> localHistory2
                           [] OTHER -> ghr, IdxBits[n])]

consulted(b, tid, branch_addr) ==
  indices(b.globalHistory[tid], b.localHistoryTable[calcLocHistIdx(branch_addr)],
          b.localHistoryTable2[calcLocHistIdx2(branch_addr)])

shiftGlobal(b, tid, ghr, taken) ==
  [b EXCEPT !.globalHistory[tid] = Mask(ShiftIn(ghr, taken), globalHistoryBits)]

shiftLocals(b, branch_addr, localHistory, localHistory2, taken) ==
  [b EXCEPT
     !.localHistoryTable[calcLocHistIdx(branch_addr)] = shiftUnmasked(localHistory, taken),
     !.localHistoryTable2[calcLocHistIdx2(branch_addr)] = shiftUnmasked(localHistory2, taken)]

(* The speculative update of the three histories. *)
shifted(b, tid, branch_addr, taken) ==
  shiftLocals(shiftGlobal(b, tid, b.globalHistory[tid], taken), branch_addr,
              b.localHistoryTable[calcLocHistIdx(branch_addr)],
              b.localHistoryTable2[calcLocHistIdx2(branch_addr)], taken)

bpLookup(b, tid, branch_addr) ==
  LET idx   == consulted(b, tid, branch_addr)
      pred  == [n \in Tables |-> IF n = "choice2" THEN b.ctrs[n][idx[n]] > choiceThreshold2
                                 ELSE above(b, n, idx[n])]
      taken == IF pred["choice2"] THEN pred["local2"]
               ELSE IF pred["choice"] THEN pred["global"] ELSE pred["local"]
      h     == [globalHistory |-> b.globalHistory[tid],
                localHistoryIdx |-> calcLocHistIdx(branch_addr),
                localHistory |-> idx["local"],
                localHistoryIdx2 |-> calcLocHistIdx2(branch_addr),
                localHistory2 |-> idx["local2"], pred |-> pred]
  IN  {[taken |-> taken] @@ allocate(shifted(b, tid, branch_addr, taken), h)}

uncondBranch(b, tid, pc) ==
  allocate(shiftGlobal(b, tid, b.globalHistory[tid], TRUE),
           [globalHistory |-> b.globalHistory[tid],
            localHistoryIdx |-> invalidPredictorIndex,
            localHistory |-> invalidPredictorIndex,
            localHistoryIdx2 |-> invalidPredictorIndex,
            localHistory2 |-> invalidPredictorIndex,
            pred |-> [n \in Tables |-> n # "choice2"]])

btbUpdate(b, tid, branch_addr, bp_history) ==
  [b EXCEPT
     !.globalHistory[tid] = ClearLSB(@),
     !.localHistoryTable[calcLocHistIdx(branch_addr)] = ClearLSB(Mask(@, IdxBits["local"])),
     !.localHistoryTable2[calcLocHistIdx2(branch_addr)] = ClearLSB(Mask(@, IdxBits["local2"]))]

(* The two local histories of a branch are valid together. *)
localValid(h) == h.localHistory # invalidPredictorIndex

corrected(b, tid, branch_addr, taken, h) ==
  LET g == shiftGlobal(b, tid, h.globalHistory, taken)
  IN  IF localValid(h)
      THEN shiftLocals(g, branch_addr, h.localHistory, h.localHistory2, taken) ELSE g

(* The choices learn if their two sides differed.  The second one is trained
   at the index of the first. *)
choicesTrained(b, idx, taken, h) ==
  LET other == IF h.pred["choice"] THEN h.pred["global"] ELSE h.pred["local"]
      c     == IF h.pred["local"] # h.pred["global"]
               THEN trainCtr(b, "choice", idx["choice"], h.pred["global"] = taken) ELSE b
  IN  IF h.pred["local2"] # other
      THEN trainCtr(c, "choice2", idx["choice"], h.pred["local2"] = taken) ELSE c

committed(b, taken, h) ==
  LET idx == indices(h.globalHistory, h.localHistory, h.localHistory2)
  IN  IF localValid(h)
      THEN trainCtr(trainCtr(trainCtr(choicesTrained(b, idx, taken, h),
                                      "global", idx["global"], taken),
                             "local", idx["local"], taken),
                    "local2", idx["local2"], taken)
      ELSE trainCtr(b, "global", idx["global"], taken)

bpUpdate(b, tid, branch_addr, taken, bp_history, squashed) ==
  IF squashed THEN corrected(b, tid, branch_addr, taken, b.heap[bp_history])
  ELSE delete(committed(b, taken, b.heap[bp_history]), bp_history)

(* Mutant: the second local history is not restored. *)
bpSquashFirstOnly(b, tid, bp_history) ==
  LET h == b.heap[bp_history]
      g == [b EXCEPT !.globalHistory[tid] = h.globalHistory]
  IN  delete(IF h.localHistoryIdx = invalidPredictorIndex THEN g
             ELSE [g EXCEPT !.localHistoryTable[h.localHistoryIdx] = h.localHistory],
             bp_history)

bpSquash(b, tid, bp_history) ==
  LET h == b.heap[bp_history]
      g == [b EXCEPT !.globalHistory[tid] = h.globalHistory]
  IN  delete(IF h.localHistoryIdx = invalidPredictorIndex THEN g
             ELSE [g EXCEPT !.localHistoryTable[h.localHistoryIdx] = h.localHistory,
                            !.localHistoryTable2[h.localHistoryIdx2] = h.localHistory2],
             bp_history)

getGHR(b, tid, bp_history) == b.heap[bp_history].globalHistory
=============================================================================
