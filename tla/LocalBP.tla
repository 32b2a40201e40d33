------------------------------ MODULE LocalBP -------------------------------
(***************************************************************************)
(* LocalBP: one table of counters indexed by the branch address.  It keeps *)
(* no history: its bp_history is always NULL.                              *)
(***************************************************************************)
EXTENDS CounterTables

BPInit == [kind |-> "LocalBP", ctrs |-> counters({"local"}), heap |-> << >>]

(* getLocalIndex: the table has localPredictorSets entries. *)
consulted(b, tid, branch_addr) == [n \in {"local"} |-> Mask(branch_addr, IdxBits[n])]

(* getPrediction: the most significant bit of the counter. *)
bpLookup(b, tid, branch_addr) ==
  {[taken |-> above(b, "local", consulted(b, tid, branch_addr)["local"]),
    bp |-> b, ptr |-> NULL]}

uncondBranch(b, tid, pc) == [bp |-> b, ptr |-> NULL]

btbUpdate(b, tid, branch_addr, bp_history) == b

bpUpdate(b, tid, branch_addr, taken, bp_history, squashed) ==
  IF squashed THEN b
  ELSE trainCtr(b, "local", consulted(b, tid, branch_addr)["local"], taken)

bpSquash(b, tid, bp_history) == b

(* BPredUnit's own: LocalBP does not override it. *)
getGHR(b, tid, bp_history) == 0
=============================================================================
