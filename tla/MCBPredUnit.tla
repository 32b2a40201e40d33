---------------------------- MODULE MCBPredUnit -----------------------------
(***************************************************************************)
(* BPredUnit over the most general direction predictor: lookup answers     *)
(* either way, and the predictor is only the set of BPHistory objects it   *)
(* has allocated and not yet deleted.  A real predictor answers one of the *)
(* two, so what holds here holds of each.                                  *)
(***************************************************************************)
EXTENDS BPredUnit

(* new BPHistory: an object that is not live. *)
freshPtr(b) == Min((1..Cardinality(b.heap) + 1) \ b.heap)

AnyBPInit == {[heap |-> {}]}

AnyLookup(b, t, pc) ==
  {[taken |-> d, bp |-> [heap |-> b.heap \cup {freshPtr(b)}], ptr |-> freshPtr(b)]
     : d \in BOOLEAN}

AnyUncondBranch(b, t, pc) ==
  [bp |-> [heap |-> b.heap \cup {freshPtr(b)}], ptr |-> freshPtr(b)]

AnyBtbUpdate(b, t, pc, ptr) == b

AnyUpdate(b, t, pc, taken, ptr, squashed) ==
  IF squashed THEN b ELSE [heap |-> b.heap \ {ptr}]

AnySquash(b, t, ptr) == [heap |-> b.heap \ {ptr}]

AnyGetGHR(b, t, ptr) == 0

(* Every BPHistory object is owned by exactly one record of predHist: none
   leaks, is deleted twice or used after it is deleted, whatever is squashed,
   corrected or committed ("This call should delete the bpHistory"). *)
HistoriesOwned ==
  LET At   == {<<t, k>> \in Threads \X (1..MaxInFlight) : k <= Len(predHist[t])}
      ptrs == [a \in At |-> predHist[a[1]][a[2]].bpHistory]
  IN  /\ bp.heap = {ptrs[a] : a \in At}
      /\ \A a, b \in At : ptrs[a] = ptrs[b] => a = b

-----------------------------------------------------------------------------
(* Instances *)

Branch(pc, target)   == [pc |-> pc, uncond |-> FALSE, call |-> FALSE, ret |-> FALSE,
                         direct |-> TRUE, target |-> target]
Call(pc, target)     == [Branch(pc, target) EXCEPT !.uncond = TRUE, !.call = TRUE]
CondCall(pc, target) == [Branch(pc, target) EXCEPT !.call = TRUE]
Jump(pc)             == [Branch(pc, 0) EXCEPT !.uncond = TRUE, !.direct = FALSE]
CondJump(pc)         == [Jump(pc) EXCEPT !.uncond = FALSE]
Return(pc)           == [Jump(pc) EXCEPT !.ret = TRUE]
CondReturn(pc)       == [Return(pc) EXCEPT !.uncond = FALSE]

(* A call and a conditional call that share a BTB entry, and a return. *)
CallInsts   == {Call(1, 7), CondCall(5, 3), Return(7)}
CallTargets == {2, 6}

(* A conditional return. *)
CondReturnInsts == {Branch(1, 4), CondReturn(2)}

(* A branch of each kind, for two threads. *)
MixedInsts   == {CondCall(1, 4), Jump(2), Return(3), CondJump(6)}
MixedTargets == {4}

OneThread  == {0}
TwoThreads == {0, 1}
=============================================================================
