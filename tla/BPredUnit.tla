----------------------------- MODULE BPredUnit ------------------------------
(***************************************************************************)
(* BPredUnit: the branch prediction unit.  It predicts control             *)
(* instructions at fetch, keeps one PredictorHistory record per branch in  *)
(* flight, and unwinds or trains the direction predictor, the return       *)
(* address stack, the BTB and the indirect predictor when the pipeline     *)
(* squashes or commits.                                                    *)
(*                                                                         *)
(* The virtual methods of the class are the CONSTANT operators: a          *)
(* direction predictor is a value bp and the operators that act on it, and *)
(* a module that defines them instantiates this one.                       *)
(*                                                                         *)
(* predHist[t] is the deque of a thread with its back (the oldest branch)  *)
(* first.  window, done and seqNum are the pipeline that calls the unit:   *)
(* the branches in flight with their true outcomes, the last committed     *)
(* sequence number and the last one given out.                             *)
(***************************************************************************)
EXTENDS Integers, SequencesExt

CONSTANTS
  Threads,            \* 0..numThreads-1
  Insts,              \* the static control instructions, by word address
  IndirectTargets,    \* where returns and indirect branches may go
  useIndirect,
  RASSize, BTBIdxBits, BTBTagBits, BTBThreadBits,
  SetBits, NumWays, IndTagBits, PathLength, hashGHR, hashTargets,
  MaxSeqNum,          \* bound: branches fetched in a behaviour
  MaxInFlight,        \* bound: branches of a thread in flight (the ROB)
  CommitWidth,        \* branches one update() may cover
  BPInit,             \* the predictors that may be configured, as constructed
  bpLookup(_, _, _), uncondBranch(_, _, _), btbUpdate(_, _, _, _),
  bpUpdate(_, _, _, _, _, _), bpSquash(_, _, _), getGHR(_, _, _)

VARIABLES predHist, RAS, btb, threadInfo, targetCache, bp,
          seqNum, done, window

vars == <<predHist, RAS, btb, threadInfo, targetCache, bp, seqNum, done, window>>

Stack  == INSTANCE ReturnAddrStack
Buffer == INSTANCE DefaultBTB
IPred  == INSTANCE IndirectPredictor

Init ==
  /\ predHist = [t \in Threads |-> << >>]
  /\ RAS = [t \in Threads |-> Stack!RASInit]
  /\ btb = Buffer!BTBInit
  /\ threadInfo = [t \in Threads |-> IPred!ThreadInfoInit]
  /\ targetCache = IPred!TargetCacheInit
  /\ bp \in BPInit
  /\ seqNum = 0
  /\ done = [t \in Threads |-> 0]
  /\ window = [t \in Threads |-> << >>]

-----------------------------------------------------------------------------
(* predict *)

PredictorHistory(sn, pc, pred_taken, bp_history) ==
  [seqNum |-> sn, pc |-> pc, bpHistory |-> bp_history, RASTarget |-> 0,
   RASIndex |-> 0, predTaken |-> pred_taken, usedRAS |-> FALSE,
   pushedRAS |-> FALSE, wasCall |-> FALSE, wasReturn |-> FALSE,
   wasIndirect |-> FALSE]

(* The next instruction, and the return address that a call site stands for. *)
advancePC(pc) == pc + 1

(* The direction and the predictor after it: lookup, or the taken of an
   unconditional branch. *)
direction(t, inst) ==
  IF inst.uncond THEN {[taken |-> TRUE] @@ uncondBranch(bp, t, inst.pc)}
                 ELSE bpLookup(bp, t, inst.pc)

(* A return predicted taken goes where the top of the RAS says. *)
predictReturn(t, inst, rec, d) ==
  [taken |-> TRUE, target |-> advancePC(Stack!top(RAS[t])),
   ras |-> Stack!pop(RAS[t]), info |-> threadInfo[t], bp |-> d.bp,
   rec |-> [rec EXCEPT !.wasReturn = TRUE, !.usedRAS = TRUE,
                       !.RASIndex = RAS[t].tos, !.RASTarget = Stack!top(RAS[t])]]

predictNotTaken(t, inst, rec, d) ==
  [taken |-> FALSE, target |-> advancePC(inst.pc),
   ras |-> RAS[t], info |-> threadInfo[t], bp |-> d.bp,
   rec |-> [rec EXCEPT !.wasReturn = inst.ret]]

(* The stack and the record once a call has been pushed; a conditional call
   for which no target is found is popped again. *)
called(t, inst, rec, hit) ==
  LET kept == inst.call /\ (hit \/ inst.uncond)
      ras  == IF inst.call THEN Stack!push(RAS[t], inst.pc) ELSE RAS[t]
  IN  [ras |-> IF inst.call /\ ~kept THEN Stack!pop(ras) ELSE ras,
       rec |-> [rec EXCEPT !.wasCall = inst.call, !.pushedRAS = kept]]

(* A direct branch asks the BTB.  On a miss it is fetched as not taken, and
   the predictor hears of it unless it is a call; the record keeps the
   direction of the predictor. *)
predictDirect(t, inst, rec, d) ==
  LET hit == Buffer!valid(btb, inst.pc, t)
      c   == called(t, inst, rec, hit)
  IN  [taken  |-> hit,
       target |-> IF hit THEN Buffer!lookup(btb, inst.pc, t) ELSE advancePC(inst.pc),
       ras |-> c.ras, info |-> threadInfo[t], rec |-> c.rec,
       bp  |-> IF hit \/ inst.call \/ inst.ret THEN d.bp
               ELSE btbUpdate(d.bp, t, inst.pc, rec.bpHistory)]

predictIndirect(t, inst, rec, d) ==
  LET ghr    == getGHR(d.bp, t, rec.bpHistory)
      hit    == IPred!hit(targetCache, threadInfo[t], inst.pc, ghr)
      target == IF hit THEN IPred!lookup(targetCache, threadInfo[t], inst.pc, ghr)
                ELSE advancePC(inst.pc)
      c      == called(t, inst, rec, hit)
  IN  [taken |-> hit, target |-> target, ras |-> c.ras, bp |-> d.bp,
       info |-> IPred!recordIndirect(threadInfo[t], inst.pc, target, rec.seqNum),
       rec  |-> [c.rec EXCEPT !.wasIndirect = TRUE]]

predict(t, inst, sn, d) ==
  LET rec == PredictorHistory(sn, inst.pc, d.taken, d.ptr)
  IN  CASE d.taken /\ inst.ret   -> predictReturn(t, inst, rec, d)
        [] d.taken /\ ~inst.ret  -> IF inst.direct \/ ~useIndirect
                                    THEN predictDirect(t, inst, rec, d)
                                    ELSE predictIndirect(t, inst, rec, d)
        [] ~d.taken              -> predictNotTaken(t, inst, rec, d)

-----------------------------------------------------------------------------
(* update and squash *)

(* Mutant: the branch done_sn itself stays. *)
retiredExclusive(hist, done_sn) ==
  Max({n \in 0..Len(hist) : \A i \in 1..n : hist[i].seqNum < done_sn})

(* How many branches, from the back, update(done_sn) retires. *)
retired(hist, done_sn) ==
  Max({n \in 0..Len(hist) : \A i \in 1..n : hist[i].seqNum <= done_sn})

(* Mutant: the branch squashed_sn itself goes. *)
leftExclusive(hist, squashed_sn) ==
  Max({0} \cup {n \in 1..Len(hist) : hist[n].seqNum < squashed_sn})

(* How many branches, from the back, squash(squashed_sn) leaves. *)
left(hist, squashed_sn) ==
  Max({0} \cup {n \in 1..Len(hist) : hist[n].seqNum <= squashed_sn})

(* The predictor after the retired branches have trained it, oldest first. *)
trained(t, recs) ==
  FoldLeft(LAMBDA b, r : bpUpdate(b, t, r.pc, r.predTaken, r.bpHistory, FALSE), bp, recs)

(* Mutant: every call pops, even one that gave its push back. *)
undoRASOfEveryCall(ras, r) ==
  IF r.usedRAS THEN Stack!restore(ras, r.RASIndex, r.RASTarget)
  ELSE IF r.wasCall THEN Stack!pop(ras)
  ELSE ras

(* The RAS after one squashed branch gives back what it took. *)
undoRAS(ras, r) ==
  IF r.usedRAS THEN Stack!restore(ras, r.RASIndex, r.RASTarget)
  ELSE IF r.wasCall /\ r.pushedRAS THEN Stack!pop(ras)
  ELSE ras

(* Mutant: the predictor does not hear of squashed branches. *)
squashUnheard(t, squashed_sn) ==
  LET n    == left(predHist[t], squashed_sn)
      gone == SubSeq(predHist[t], n + 1, Len(predHist[t]))
  IN  [hist  |-> SubSeq(predHist[t], 1, n),
       ras   |-> FoldRight(LAMBDA r, ras : undoRAS(ras, r), gone, RAS[t]),
       bp    |-> bp,
       info  |-> IPred!squash(threadInfo[t], squashed_sn),
       btb   |-> btb,
       cache |-> targetCache]

(* squash(squashed_sn, tid): the unit of a thread with every branch younger
   than squashed_sn undone, youngest first. *)
squash(t, squashed_sn) ==
  LET n    == left(predHist[t], squashed_sn)
      gone == SubSeq(predHist[t], n + 1, Len(predHist[t]))
  IN  [hist  |-> SubSeq(predHist[t], 1, n),
       ras   |-> FoldRight(LAMBDA r, ras : undoRAS(ras, r), gone, RAS[t]),
       bp    |-> FoldRight(LAMBDA r, b : bpSquash(b, t, r.bpHistory), gone, bp),
       info  |-> IPred!squash(threadInfo[t], squashed_sn),
       btb   |-> btb,
       cache |-> targetCache]

(* The taken half of a correction: a return that had not popped the RAS pops
   it now, and the target goes to the indirect predictor or the BTB. *)
fixTaken(t, s, r, ghr, corrTarget, victim) ==
  LET late == r.wasReturn /\ ~r.usedRAS
  IN  [s EXCEPT
         !.hist[Len(s.hist)] = [r EXCEPT !.usedRAS = r.usedRAS \/ late],
         !.ras   = IF late THEN Stack!pop(@) ELSE @,
         !.info  = IF r.wasIndirect THEN IPred!recordTargetPath(@, corrTarget) ELSE @,
         !.cache = IF r.wasIndirect
                   THEN IPred!recordTargetCache(@, s.info, ghr, corrTarget, victim)
                   ELSE @,
         !.btb   = IF r.wasIndirect THEN @ ELSE Buffer!update(@, r.pc, corrTarget, t)]

(* The not taken half: the branch gives back what it took from the RAS. *)
fixNotTaken(s, r) ==
  [s EXCEPT
     !.hist[Len(s.hist)] =
       IF r.usedRAS THEN [r EXCEPT !.usedRAS = FALSE]
       ELSE IF r.wasCall THEN [r EXCEPT !.pushedRAS = FALSE] ELSE r,
     !.ras = undoRAS(@, r)]

(* Mutant: the direction is not remembered for the commit. *)
forgotten(r, actually_taken) == r

remembered(r, actually_taken) == [r EXCEPT !.predTaken = actually_taken]

(* squash(squashed_sn, corrTarget, actually_taken, tid). *)
squashAndFix(t, squashed_sn, corrTarget, actually_taken, victim) ==
  LET s   == squash(t, squashed_sn)
      r   == remembered(Last(s.hist), actually_taken)
      ghr == getGHR(s.bp, t, r.bpHistory)
      u   == [s EXCEPT !.bp = bpUpdate(@, t, r.pc, actually_taken, r.bpHistory, TRUE)]
  IN  IF s.hist = << >> THEN s
      ELSE IF actually_taken THEN fixTaken(t, u, r, ghr, corrTarget, victim)
      ELSE fixNotTaken(u, r)

-----------------------------------------------------------------------------
(***************************************************************************)
(* The pipeline.  A branch in flight knows its static instruction, what    *)
(* fetch was told (predTaken, predTarg), where it will really go (nextPC), *)
(* whether execution has redirected fetch to it (corrected), and the RAS   *)
(* that fetch saw before it (ras: a history variable, used by properties   *)
(* only).                                                                  *)
(***************************************************************************)

Outcomes(inst) ==
  (IF inst.direct THEN {inst.target} ELSE IndirectTargets)
    \cup (IF inst.uncond THEN {} ELSE {advancePC(inst.pc)})

(* branchTaken of an executed branch. *)
branchTaken(w) == w.inst.uncond \/ w.nextPC # advancePC(w.inst.pc)

(* Decode resolves direct branches that are unconditional or predicted
   taken. *)
decodeMispredict(w) ==
  /\ w.inst.direct
  /\ w.inst.uncond \/ w.predTaken
  /\ w.inst.target # w.predTarg

mispredicted(w) == w.predTarg # w.nextPC

(* A branch is decoded and executed once: it may commit when both found it
   right, or execution has corrected it. *)
resolved(w) == w.corrected \/ (~decodeMispredict(w) /\ ~mispredicted(w))

unit == <<predHist, RAS, btb, threadInfo, targetCache, bp>>

(* The unit takes the state s of thread t. *)
Becomes(t, s) ==
  /\ predHist' = [predHist EXCEPT ![t] = s.hist]
  /\ RAS' = [RAS EXCEPT ![t] = s.ras]
  /\ threadInfo' = [threadInfo EXCEPT ![t] = s.info]
  /\ bp' = s.bp
  /\ btb' = s.btb
  /\ targetCache' = s.cache

Predict(t, inst) ==
  /\ seqNum < MaxSeqNum
  /\ Len(window[t]) < MaxInFlight
  /\ seqNum' = seqNum + 1
  /\ \E d \in direction(t, inst), nextPC \in Outcomes(inst) :
       LET p == predict(t, inst, seqNum + 1, d)
       IN  /\ Becomes(t, [hist |-> Append(predHist[t], p.rec), ras |-> p.ras,
                          info |-> p.info, bp |-> p.bp, btb |-> btb,
                          cache |-> targetCache])
           /\ window' = [window EXCEPT ![t] = Append(@,
                [seqNum |-> seqNum + 1, inst |-> inst, predTaken |-> p.taken,
                 predTarg |-> p.target, nextPC |-> nextPC, corrected |-> FALSE,
                 ras |-> RAS[t]])]
  /\ UNCHANGED done

(* Decode or execution finds that branch k went the wrong way. *)
DecodeRedirect(t, k) ==
  LET w == window[t][k]
  IN  /\ ~w.corrected
      /\ decodeMispredict(w)
      /\ \E victim \in 1..NumWays :
           Becomes(t, squashAndFix(t, w.seqNum, w.inst.target, w.inst.uncond, victim))
      /\ window' = [window EXCEPT ![t] =
                      Append(SubSeq(@, 1, k - 1), [w EXCEPT !.predTarg = w.inst.target])]
      /\ UNCHANGED <<seqNum, done>>

ExecuteRedirect(t, k) ==
  LET w == window[t][k]
  IN  /\ ~w.corrected
      /\ ~decodeMispredict(w)
      /\ mispredicted(w)
      /\ \E victim \in 1..NumWays :
           Becomes(t, squashAndFix(t, w.seqNum, w.nextPC, branchTaken(w), victim))
      /\ window' = [window EXCEPT ![t] =
                      Append(SubSeq(@, 1, k - 1), [w EXCEPT !.corrected = TRUE])]
      /\ UNCHANGED <<seqNum, done>>

(* A memory order violation, a trap or a squash-after: everything younger
   than sn goes. *)
Squash(t, sn) ==
  /\ sn >= done[t]
  /\ Becomes(t, squash(t, sn))
  /\ window' = [window EXCEPT ![t] = SubSeq(@, 1, left(@, sn))]
  /\ UNCHANGED <<seqNum, done>>

(* The first n branches of the window, all resolved, have committed.  With
   n = 0 only other instructions have. *)
Update(t, n) ==
  LET done_sn == IF n = 0 THEN done[t] ELSE window[t][n].seqNum
      m       == retired(predHist[t], done_sn)
  IN  /\ \A k \in 1..n : resolved(window[t][k])
      /\ Becomes(t, [hist |-> SubSeq(predHist[t], m + 1, Len(predHist[t])), ras |-> RAS[t],
                     info |-> IPred!commit(threadInfo[t], done_sn),
                     bp |-> trained(t, SubSeq(predHist[t], 1, m)),
                     btb |-> btb, cache |-> targetCache])
      /\ window' = [window EXCEPT ![t] = SubSeq(@, n + 1, Len(@))]
      /\ done' = [done EXCEPT ![t] = done_sn]
      /\ UNCHANGED seqNum

Next ==
  \E t \in Threads :
    \/ \E inst \in Insts : Predict(t, inst)
    \/ \E k \in DOMAIN window[t] : DecodeRedirect(t, k) \/ ExecuteRedirect(t, k)
    \/ \E sn \in done[t]..seqNum : Squash(t, sn)
    \/ \E n \in 0..CommitWidth : n <= Len(window[t]) /\ Update(t, n)

Spec == Init /\ [][Next]_vars

-----------------------------------------------------------------------------
(* Properties *)

Recs(t) == {predHist[t][k] : k \in DOMAIN predHist[t]}

(* Type invariant: the stacks, the target tables and the records of the unit
   keep their shape, indices stay in range, and numbers below seqNum. *)
TypeOK ==
  /\ seqNum \in 0..MaxSeqNum
  /\ \A t \in Threads :
       /\ done[t] \in 0..seqNum
       /\ RAS[t].tos \in 0..RASSize - 1 /\ RAS[t].usedEntries \in 0..RASSize
       /\ DOMAIN RAS[t].addrStack = 0..RASSize - 1
       /\ Len(window[t]) <= MaxInFlight
       /\ \A r \in Recs(t) : /\ r.seqNum \in 1..seqNum
                            /\ r.RASIndex \in 0..RASSize - 1
                            /\ r.pc \in {inst.pc : inst \in Insts}
                            /\ ~(r.usedRAS /\ r.pushedRAS)
  /\ DOMAIN btb = 0..2^BTBIdxBits - 1
  /\ DOMAIN targetCache = 0..2^SetBits - 1

(* predHist holds exactly the branches in flight, in order: whatever order
   predictions, corrections, squashes and commits come in, each record belongs
   to the branch the pipeline holds at its place (predict's push_front, the two
   squash functions and update agree with the ROB). *)
PredHistMatchesWindow ==
  \A t \in Threads :
    /\ Len(predHist[t]) = Len(window[t])
    /\ \A k \in DOMAIN window[t] :
         /\ predHist[t][k].seqNum = window[t][k].seqNum
         /\ predHist[t][k].pc = window[t][k].inst.pc
         /\ window[t][k].seqNum > (IF k = 1 THEN done[t] ELSE window[t][k - 1].seqNum)

(* A correction always finds its branch at the front of predHist once the
   younger ones are squashed: the assert of squash(squashed_sn, corrTarget,
   ...) holds, and its pred_hist-empty branch is never taken for a branch. *)
CorrectionFindsBranch ==
  \A t \in Threads : \A k \in DOMAIN window[t] :
    LET hist == squash(t, window[t][k].seqNum).hist
    IN  hist # << >> /\ Last(hist).seqNum = window[t][k].seqNum

(* The path of the indirect predictor and predHist squash and retire
   together: beyond the committed branches, the path lists exactly the
   in-flight branches that asked it, so recordTarget corrects the entry of the
   branch it is called for; and headHistEntry never counts one in flight. *)
PathMatchesPredHist ==
  \A t \in Threads :
    LET path     == threadInfo[t].pathHist
        InFlight(e) == e.seqNum > done[t]
        Asked(r)    == r.wasIndirect
        SN(s)       == [i \in DOMAIN s |-> s[i].seqNum]
    IN  /\ SN(SelectSeq(path, InFlight)) = SN(SelectSeq(predHist[t], Asked))
        /\ threadInfo[t].headHistEntry <= PathLength
        /\ threadInfo[t].headHistEntry <= Len(path)
        /\ \A i \in 1..threadInfo[t].headHistEntry : path[i].seqNum <= done[t]

(* Undoing all branches from any point on brings the top of the RAS back to
   the slot it was at when the first of them was fetched, even when the stack
   has wrapped around in between. *)
RASIndexRestored ==
  \A t \in Threads : \A k \in DOMAIN window[t] :
    squash(t, window[t][k].seqNum - 1).ras.tos = window[t][k].ras.tos

(* While calls in flight cannot fill the RAS, undoing branches also brings
   back its contents: every slot that the calls between the first branch undone
   and a full window could not reach, the top one included, holds the address
   it held then. *)
RASRestored ==
  \A t \in Threads : \A k \in DOMAIN window[t] :
    LET old == window[t][k].ras
        now == squash(t, window[t][k].seqNum - 1).ras
    IN  \A d \in 0..RASSize - 1 :
          d < RASSize - (MaxInFlight - k + 1) =>
            LET slot == (old.tos - d) % RASSize
            IN  now.addrStack[slot] = old.addrStack[slot]

(* The direction with which update(done_sn) trains the predictor is the true
   one ("Update the branch predictor with the correct results"), always when
   execution has corrected the branch.  Otherwise it may differ for a
   conditional branch that fetch or decode gave another direction than the
   predictor did, by a target that is missing or wrong: the record keeps the
   predictor's, and nothing corrects it.  And a branch taken to the next
   instruction counts as not taken. *)
TrainsOutcomeIfKept ==
  \A t \in Threads : \A k \in DOMAIN window[t] :
    LET w == window[t][k]
        r == predHist[t][k]
    IN  resolved(w) =>
          \/ r.predTaken = branchTaken(w)
          \/ /\ ~w.inst.uncond /\ ~w.corrected
             /\ \/ w.predTaken # r.predTaken
                \/ w.predTaken /\ w.nextPC = advancePC(w.inst.pc)
=============================================================================
