---------------------------- MODULE TournamentBP ----------------------------
(***************************************************************************)
(* TournamentBP: a local predictor (per-branch histories select a counter) *)
(* and a global one (the global history does); a choice counter says whom  *)
(* to believe.  Histories are shifted when a branch is looked up.          *)
(***************************************************************************)
EXTENDS CounterTables

Tables == {"local", "global", "choice"}

BPInit == [kind |-> "TournamentBP", ctrs |-> counters(Tables),
           localHistoryTable |-> localHistories,
           globalHistory |-> globalHistories, heap |-> << >>]

globalHistoryBits == Max({IdxBits["global"], IdxBits["choice"]})

calcLocHistIdx(branch_addr) == Mask(branch_addr, LocalTableBits)

indices(ghr, localHistory) ==
  [n \in Tables |-> Mask(IF n = "local" THEN localHistory ELSE ghr, IdxBits[n])]

consulted(b, tid, branch_addr) ==
  indices(b.globalHistory[tid], b.localHistoryTable[calcLocHistIdx(branch_addr)])

shiftGlobal(b, tid, ghr, taken) ==
  [b EXCEPT !.globalHistory[tid] = Mask(ShiftIn(ghr, taken), globalHistoryBits)]

shiftLocal(b, branch_addr, localHistory, taken) ==
  [b EXCEPT !.localHistoryTable[calcLocHistIdx(branch_addr)] =
              shiftUnmasked(localHistory, taken)]

(* The speculative update of both histories. *)
shifted(b, tid, branch_addr, taken) ==
  shiftLocal(shiftGlobal(b, tid, b.globalHistory[tid], taken), branch_addr,
             b.localHistoryTable[calcLocHistIdx(branch_addr)], taken)

bpLookup(b, tid, branch_addr) ==
  LET idx   == consulted(b, tid, branch_addr)
      pred  == [n \in Tables |-> above(b, n, idx[n])]
      taken == IF pred["choice"] THEN pred["global"] ELSE pred["local"]
      h     == [globalHistory |-> b.globalHistory[tid],
                localHistoryIdx |-> calcLocHistIdx(branch_addr),
                localHistory |-> idx["local"], pred |-> pred]
  IN  {[taken |-> taken] @@ allocate(shifted(b, tid, branch_addr, taken), h)}

uncondBranch(b, tid, pc) ==
  allocate(shiftGlobal(b, tid, b.globalHistory[tid], TRUE),
           [globalHistory |-> b.globalHistory[tid],
            localHistoryIdx |-> invalidPredictorIndex,
            localHistory |-> invalidPredictorIndex, pred |-> [n \in Tables |-> TRUE]])

btbUpdate(b, tid, branch_addr, bp_history) ==
  [b EXCEPT
     !.globalHistory[tid] = ClearLSB(@),
     !.localHistoryTable[calcLocHistIdx(branch_addr)] = ClearLSB(Mask(@, IdxBits["local"]))]

localValid(h) == h.localHistory # invalidPredictorIndex

(* update after a misprediction: the histories are rebuilt from the branch's
   own, with the right outcome. *)
corrected(b, tid, branch_addr, taken, h) ==
  LET g == shiftGlobal(b, tid, h.globalHistory, taken)
  IN  IF localValid(h) THEN shiftLocal(g, branch_addr, h.localHistory, taken) ELSE g

(* update at commit: the choice learns who was right if they differed, and the
   counters that were consulted learn the outcome. *)
committed(b, taken, h) ==
  LET idx == indices(h.globalHistory, h.localHistory)
      c   == IF h.pred["local"] # h.pred["global"] /\ localValid(h)
             THEN trainCtr(b, "choice", idx["choice"], h.pred["global"] = taken) ELSE b
      g   == trainCtr(c, "global", idx["global"], taken)
  IN  IF localValid(h) THEN trainCtr(g, "local", idx["local"], taken) ELSE g

(* Mutant: the BPHistory is deleted by a correction too. *)
bpUpdateDeleting(b, tid, branch_addr, taken, bp_history, squashed) ==
  delete(IF squashed THEN corrected(b, tid, branch_addr, taken, b.heap[bp_history])
         ELSE committed(b, taken, b.heap[bp_history]), bp_history)

bpUpdate(b, tid, branch_addr, taken, bp_history, squashed) ==
  IF squashed THEN corrected(b, tid, branch_addr, taken, b.heap[bp_history])
  ELSE delete(committed(b, taken, b.heap[bp_history]), bp_history)

bpSquash(b, tid, bp_history) ==
  LET h == b.heap[bp_history]
      g == [b EXCEPT !.globalHistory[tid] = h.globalHistory]
  IN  delete(IF h.localHistoryIdx = invalidPredictorIndex THEN g
             ELSE [g EXCEPT !.localHistoryTable[h.localHistoryIdx] = h.localHistory],
             bp_history)

getGHR(b, tid, bp_history) == b.heap[bp_history].globalHistory
=============================================================================
