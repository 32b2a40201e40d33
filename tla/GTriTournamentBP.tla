-------------------------- MODULE GTriTournamentBP --------------------------
(***************************************************************************)
(* GTriTournamentBP: TournamentBP with a gshare predictor that has its own *)
(* global history register, and a second choice counter that prefers it to *)
(* the winner of the first two.                                            *)
(***************************************************************************)
EXTENDS CounterTables

Tables == {"local", "global", "gshare", "choice", "choice2"}

BPInit == [kind |-> "GTriTournamentBP", ctrs |-> counters(Tables),
           localHistoryTable |-> localHistories,
           globalHistory |-> globalHistories, globalHistory2 |-> globalHistories,
           heap |-> << >>]

(* The constructor's choice of a register width for a table of n bits. *)
historyBits(n) ==
  IF n > IdxBits["choice"] THEN Max({n, IdxBits["choice2"]})
  ELSE IF n > IdxBits["choice2"] THEN n ELSE IdxBits["choice"]

choiceThreshold2 == 2^(2 * (CtrBits["choice2"] - 1)) - 1

calcLocHistIdx(branch_addr) == Mask(branch_addr, LocalTableBits)

consulted(b, tid, branch_addr) ==
  [n \in Tables |->
     CASE n = "local" ->
            Mask(b.localHistoryTable[calcLocHistIdx(branch_addr)], IdxBits[n])
       [] n = "gshare" -> Xor(branch_addr, b.globalHistory2[tid], IdxBits[n])
       [] OTHER -> Mask(b.globalHistory[tid], IdxBits[n])]

shiftGlobals(b, tid, ghr, ghr2, taken) ==
  [b EXCEPT
     !.globalHistory[tid]  = Mask(ShiftIn(ghr, taken), historyBits(IdxBits["global"])),
     !.globalHistory2[tid] = Mask(ShiftIn(ghr2, taken), historyBits(IdxBits["gshare"]))]

shiftLocal(b, branch_addr, localHistory, taken) ==
  [b EXCEPT !.localHistoryTable[calcLocHistIdx(branch_addr)] =
              shiftUnmasked(localHistory, taken)]

(* The speculative update of the three histories. *)
shifted(b, tid, branch_addr, taken) ==
  shiftLocal(shiftGlobals(b, tid, b.globalHistory[tid], b.globalHistory2[tid], taken),
             branch_addr, b.localHistoryTable[calcLocHistIdx(branch_addr)], taken)

bpLookup(b, tid, branch_addr) ==
  LET idx   == consulted(b, tid, branch_addr)
      pred  == [n \in Tables |-> IF n = "choice2" THEN b.ctrs[n][idx[n]] > choiceThreshold2
                                 ELSE above(b, n, idx[n])]
      taken == IF pred["choice2"] THEN pred["gshare"]
               ELSE IF pred["choice"] THEN pred["global"] ELSE pred["local"]
      h     == [globalHistory |-> b.globalHistory[tid],
                globalHistory2 |-> b.globalHistory2[tid],
                localHistoryIdx |-> calcLocHistIdx(branch_addr),
                localHistory |-> idx["local"], pred |-> pred]
  IN  {[taken |-> taken] @@ allocate(shifted(b, tid, branch_addr, taken), h)}

uncondBranch(b, tid, pc) ==
  allocate(shiftGlobals(b, tid, b.globalHistory[tid], b.globalHistory2[tid], TRUE),
           [globalHistory |-> b.globalHistory[tid],
            globalHistory2 |-> b.globalHistory2[tid],
            localHistoryIdx |-> invalidPredictorIndex,
            localHistory |-> invalidPredictorIndex, pred |-> [n \in Tables |-> TRUE]])

btbUpdate(b, tid, branch_addr, bp_history) ==
  [b EXCEPT
     !.globalHistory[tid] = ClearLSB(@),
     !.globalHistory2[tid] = ClearLSB(@),
     !.localHistoryTable[calcLocHistIdx(branch_addr)] = ClearLSB(Mask(@, IdxBits["local"]))]

localValid(h) == h.localHistory # invalidPredictorIndex

corrected(b, tid, branch_addr, taken, h) ==
  LET g == shiftGlobals(b, tid, h.globalHistory, h.globalHistory2, taken)
  IN  IF localValid(h) THEN shiftLocal(g, branch_addr, h.localHistory, taken) ELSE g

choiceTrained(b, taken, h) ==
  IF h.pred["local"] # h.pred["global"] /\ localValid(h)
  THEN trainCtr(b, "choice", Mask(h.globalHistory, IdxBits["choice"]), h.pred["global"] = taken)
  ELSE b

(* When the global side was used, the second choice learns if gshare said not
   taken, whatever the global predictor had said. *)
choice2Trained(b, taken, h) ==
  LET idx == Mask(h.globalHistory2, IdxBits["choice2"])
  IN  IF IF h.pred["choice"] THEN ~h.pred["gshare"] ELSE h.pred["local"] # h.pred["gshare"]
      THEN CASE h.pred["gshare"] = taken -> trainCtr(b, "choice2", idx, TRUE)
             [] h.pred["gshare"] # taken /\ taken \in {h.pred["global"], h.pred["local"]} ->
                  trainCtr(b, "choice2", idx, FALSE)
             [] OTHER -> b
      ELSE b

(* The gshare counter that learns is found without the branch address. *)
committed(b, taken, h) ==
  LET c == choice2Trained(choiceTrained(b, taken, h), taken, h)
      g == trainCtr(trainCtr(c, "global", Mask(h.globalHistory, IdxBits["global"]), taken),
                    "gshare", Mask(h.globalHistory2, IdxBits["gshare"]), taken)
  IN  IF localValid(h)
      THEN trainCtr(g, "local", Mask(h.localHistory, IdxBits["local"]), taken) ELSE g

bpUpdate(b, tid, branch_addr, taken, bp_history, squashed) ==
  IF squashed THEN corrected(b, tid, branch_addr, taken, b.heap[bp_history])
  ELSE delete(committed(b, taken, b.heap[bp_history]), bp_history)

(* Mutant: the register of gshare is not restored. *)
bpSquashFirstOnly(b, tid, bp_history) ==
  LET h == b.heap[bp_history]
      g == [b EXCEPT !.globalHistory[tid] = h.globalHistory]
  IN  delete(IF h.localHistoryIdx = invalidPredictorIndex THEN g
             ELSE [g EXCEPT !.localHistoryTable[h.localHistoryIdx] = h.localHistory],
             bp_history)

bpSquash(b, tid, bp_history) ==
  LET h == b.heap[bp_history]
      g == [b EXCEPT !.globalHistory[tid] = h.globalHistory,
                     !.globalHistory2[tid] = h.globalHistory2]
  IN  delete(IF h.localHistoryIdx = invalidPredictorIndex THEN g
             ELSE [g EXCEPT !.localHistoryTable[h.localHistoryIdx] = h.localHistory],
             bp_history)

getGHR(b, tid, bp_history) == b.heap[bp_history].globalHistory
=============================================================================
