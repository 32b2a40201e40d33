------------------------------ MODULE BiModeBP ------------------------------
(***************************************************************************)
(* BiModeBP: a choice counter, found by address, selects one of two tables *)
(* that the address and the global history index together.                 *)
(***************************************************************************)
EXTENDS CounterTables

Tables == {"choice", "taken", "notTaken"}

BPInit == [kind |-> "BiModeBP", ctrs |-> counters(Tables),
           globalHistory |-> globalHistories, heap |-> << >>]

(* choiceHistoryIdx and globalHistoryIdx. *)
indices(branch_addr, ghr) ==
  [n \in Tables |-> IF n = "choice" THEN Mask(branch_addr, IdxBits[n])
                    ELSE Xor(branch_addr, ghr, IdxBits[n])]

consulted(b, tid, branch_addr) == indices(branch_addr, b.globalHistory[tid])

(* updateGlobalHistReg *)
shiftGlobal(b, tid, taken) ==
  [b EXCEPT !.globalHistory[tid] = Mask(ShiftIn(@, taken), IdxBits["taken"])]

(* All three thresholds are those of the choice counters. *)
bpLookup(b, tid, branch_addr) ==
  LET idx   == consulted(b, tid, branch_addr)
      pred  == [n \in Tables |-> b.ctrs[n][idx[n]] > threshold(CtrBits["choice"])]
      final == IF pred["choice"] THEN pred["taken"] ELSE pred["notTaken"]
      h     == [globalHistory |-> b.globalHistory[tid], takenUsed |-> pred["choice"],
                finalPred |-> final]
  IN  {[taken |-> final] @@ allocate(shiftGlobal(b, tid, final), h)}

uncondBranch(b, tid, pc) ==
  allocate(shiftGlobal(b, tid, TRUE),
           [globalHistory |-> b.globalHistory[tid], takenUsed |-> TRUE, finalPred |-> TRUE])

btbUpdate(b, tid, branch_addr, bp_history) ==
  [b EXCEPT !.globalHistory[tid] = ClearLSB(Mask(@, IdxBits["taken"]))]

(* Mutant: the register is only restored. *)
correctedUnshifted(b, tid, taken, h) == [b EXCEPT !.globalHistory[tid] = h.globalHistory]

(* update after a misprediction.  The register is not masked here. *)
corrected(b, tid, taken, h) ==
  [b EXCEPT !.globalHistory[tid] = shiftUnmasked(h.globalHistory, taken)]

(* Mutant: the table is indexed without the branch address. *)
committedByHistory(b, branch_addr, taken, h) ==
  LET used == IF h.takenUsed THEN "taken" ELSE "notTaken"
  IN  trainCtr(b, used, Mask(h.globalHistory, IdxBits[used]), taken)

(* update at commit: the table that was used, and the choice unless it was
   wrong about a branch that the table predicted right. *)
committed(b, branch_addr, taken, h) ==
  LET idx  == indices(branch_addr, h.globalHistory)
      used == IF h.takenUsed THEN "taken" ELSE "notTaken"
      c    == trainCtr(b, used, idx[used], taken)
  IN  IF h.finalPred = taken /\ h.finalPred # h.takenUsed THEN c
      ELSE trainCtr(c, "choice", idx["choice"], taken)

bpUpdate(b, tid, branch_addr, taken, bp_history, squashed) ==
  IF squashed THEN corrected(b, tid, taken, b.heap[bp_history])
  ELSE delete(committed(b, branch_addr, taken, b.heap[bp_history]), bp_history)

bpSquash(b, tid, bp_history) ==
  delete([b EXCEPT !.globalHistory[tid] = b.heap[bp_history].globalHistory], bp_history)

getGHR(b, tid, bp_history) == b.heap[bp_history].globalHistory
=============================================================================
