------------------------------- MODULE O3Inst -------------------------------
(***************************************************************************)
(* What the stages of the out-of-order core share: the instructions in     *)
(* flight and the queues they wait in.                                     *)
(*                                                                         *)
(* A queue holds sequence numbers, as the code's queues hold pointers; h    *)
(* is the heap the pointers lead to.  An instruction is reduced to what    *)
(* the control of the pipeline looks at:                                   *)
(*   pos    its place on the path the program really takes, 0 when it was  *)
(*          fetched on a wrong path;                                       *)
(*   kind   plain, a control instruction predicted right, one whose wrong  *)
(*          target decode repairs (early), one whose target decode         *)
(*          replaces by another wrong one (earlyWrong: predicted taken,    *)
(*          wrong target, not taken), one whose misprediction execution    *)
(*          finds (late), or one that squashes what follows it (after);    *)
(*   state  waiting, executed, ready to commit, or squashed.               *)
(*                                                                         *)
(* A stage is a record; its operators take the record and return it, in    *)
(* the order in which the stage's tick() makes the calls.                  *)
(***************************************************************************)
EXTENDS Naturals, Sequences, SequencesExt, FiniteSetsExt

CONSTANT
  Width               \* fetch, decode, rename, dispatch, issue, commit width

InstKinds    == {"plain", "right", "early", "earlyWrong", "late", "after"}
Mispredicted == {"early", "earlyWrong", "late"}
isControl(k) == k \notin {"plain", "after"}

(* An instruction that was squashed is only asked whether it is. *)
SquashedInst == [pos |-> 0, kind |-> "plain", state |-> "squashed"]

isSquashed(h, i) == h[i].state = "squashed"

setSquashed(h, S) == [i \in DOMAIN h |-> IF i \in S THEN SquashedInst ELSE h[i]]

live(h, q) == SelectSeq(q, LAMBDA i : ~isSquashed(h, i))

(* A stage takes instructions off the front of q while more(m) holds of the
   number m it has already taken. *)
takenWhile(q, more(_)) ==
  Max({n \in 0..Len(q) : \A m \in 0..(n - 1) : more(m)})

front(q, n) == SubSeq(q, 1, n)
rest(q, n)  == SubSeq(q, n + 1, Len(q))

(* New instructions before the old ones. *)
skidInsertFirst(s) == [s EXCEPT !.skid = s.insts \o @, !.insts = <<>>]

skidInsert(s) == [s EXCEPT !.skid = @ \o s.insts, !.insts = <<>>]

(* The queue a stage works on: its skid buffer while it unblocks. *)
source(s) == IF s.status = "Unblocking" THEN s.skid ELSE s.insts

setSource(s, q) ==
  IF s.status = "Unblocking" THEN [s EXCEPT !.skid = q] ELSE [s EXCEPT !.insts = q]

(* readStallSignals: what a stage knows of the one behind it. *)
stalled(was, block, unblock) == (was \/ block) /\ ~unblock

(* Where the program goes on after instruction i when its prediction, or its
   repair, is right; nowhere when i itself is on a wrong path. *)
next(h, i) == IF h[i].pos = 0 THEN 0 ELSE h[i].pos + 1
=============================================================================
