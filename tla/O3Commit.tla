------------------------------ MODULE O3Commit ------------------------------
(***************************************************************************)
(* DefaultCommit and ROB, commit_impl.hh and rob_impl.hh.                  *)
(*                                                                         *)
(* squashIt is the youngest entry the squash of the reorder buffer has not *)
(* walked over, 0 when it is done.  killed collects the entries the tick   *)
(* squashes, retired those it commits, changed is changedROBNumEntries.    *)
(* The other fields from squash on are the words commit writes to all      *)
(* stages.                                                                 *)
(***************************************************************************)
EXTENDS O3Inst

CONSTANTS
  ROBEntries,         \* numROBEntries
  SquashWidth         \* squashWidth

CommitInit ==
  [status |-> "Running", rob |-> <<>>, youngestSeqNum |-> 0, lastCommitedSeqNum |-> 0,
   squashIt |-> 0, squashedSeqNum |-> 0, killed |-> {}, retired |-> <<>>,
   changed |-> FALSE,
   squash |-> FALSE, doneSeqNum |-> 0, robSquashing |-> FALSE, mispredictInst |-> 0,
   pos |-> 0, usedROB |-> FALSE, freeROBEntries |-> 0]

(* ROB::doSquash: at most SquashWidth entries in a cycle, the youngest first. *)
robDoSquash(c) ==
  LET pending == SelectSeq(c.rob, LAMBDA i : c.squashedSeqNum < i /\ i <= c.squashIt)
      left    == IF Len(pending) > SquashWidth
                 THEN front(pending, Len(pending) - SquashWidth) ELSE <<>>
  IN  [c EXCEPT !.killed = @ \cup (ToSet(pending) \ ToSet(left)),
                !.squashIt = IF left = <<>> THEN 0 ELSE Last(left)]

robSquash(c, sn) ==
  IF c.rob = <<>> THEN c
  ELSE robDoSquash([c EXCEPT !.squashIt = Last(c.rob), !.squashedSeqNum = sn])

(* What every squash of commit() does: sn is the youngest instruction kept, pos
   where fetch goes on, branch the mispredicted branch if that is the cause. *)
squashROB(c, sn, youngest, pos, branch) ==
  [robSquash(c, sn) EXCEPT
     !.status = "ROBSquashing", !.youngestSeqNum = youngest, !.changed = TRUE,
     !.squash = TRUE, !.doneSeqNum = sn, !.robSquashing = TRUE,
     !.mispredictInst = branch, !.pos = pos]

(* squashAll, for a trap, a thread context that was written or an instruction that
   squashes what follows it; pos is the first instruction not yet committed. *)
squashAll(c, pos) ==
  squashROB(c, IF c.rob = <<>> THEN c.lastCommitedSeqNum ELSE Head(c.rob) - 1,
            c.lastCommitedSeqNum, pos, 0)

(* The squash from IEW without the comparison with youngestSeqNum. *)
squashFromIEWUnfiltered(c, h, r) ==
  IF r.sn # 0 /\ c.status # "TrapPending" /\ r.sn \in DOMAIN h
  THEN IF r.include THEN squashROB(c, r.sn - 1, r.sn - 1, h[r.sn].pos, 0)
       ELSE squashROB(c, r.sn, r.sn, next(h, r.sn), r.sn)
  ELSE c

squashFromIEW(c, h, r) ==
  IF r.sn # 0 /\ c.status # "TrapPending" /\ r.sn <= c.youngestSeqNum
  THEN IF r.include THEN squashROB(c, r.sn - 1, r.sn - 1, h[r.sn].pos, 0)
       ELSE squashROB(c, r.sn, r.sn, next(h, r.sn), r.sn)
  ELSE c

(* getInsts, which runs unless commit squashes. *)
getInsts(c, h, fromRename) ==
  LET new == live(h, fromRename)
  IN  IF c.status = "TrapPending" \/ new = <<>> THEN c
      ELSE [c EXCEPT !.rob = @ \o new, !.youngestSeqNum = Last(new), !.changed = TRUE]

canCommit(h, i) == h[i].state \in {"ready", "squashed"}

(* commitInsts: squashed heads leave at once, then ready ones up to the width, up
   to an instruction that squashes what follows it, or a fault, which needs to
   be the first of its cycle. *)
commitInsts(c, h, fault) ==
  LET kept(m)     == live(h, front(c.rob, m))
      mayFault(m) == fault /\ kept(m) = <<>> /\ ~isSquashed(h, c.rob[m + 1])
      n           == takenWhile(c.rob, LAMBDA m :
                      /\ canCommit(h, c.rob[m + 1])
                      /\ Len(kept(m)) < Width
                      /\ \A j \in 1..Len(kept(m)) : h[kept(m)[j]].kind # "after"
                      /\ ~mayFault(m))
      retired     == kept(n)
      faults      == n < Len(c.rob) /\ canCommit(h, c.rob[n + 1]) /\ mayFault(n)
      last        == IF retired = <<>> THEN 0 ELSE Last(retired)
      left        == [c EXCEPT !.rob = rest(@, n), !.retired = retired,
                              !.changed = @ \/ n > 0,
                              !.status = IF faults THEN "TrapPending"
                                         ELSE IF last # 0 /\ h[last].kind = "after"
                                         THEN "SquashAfterPending" ELSE @]
  IN  IF c.status # "Running" THEN c
      ELSE IF last = 0 THEN left
      ELSE [left EXCEPT !.doneSeqNum = last, !.lastCommitedSeqNum = last]

(* tick and commit, without markCompletedInsts.  trap is the trap event of a fault
   that is due now, tc a write to the thread context. *)
commitTick(c, h, fromRename, redirect, pos, trap, tc, fault) ==
  LET start   == [c EXCEPT !.killed = {}, !.retired = <<>>, !.changed = FALSE,
                           !.squash = FALSE, !.doneSeqNum = 0, !.robSquashing = FALSE,
                           !.mispredictInst = 0, !.pos = 0]
      going   == IF start.status # "ROBSquashing" THEN start
                 ELSE IF start.squashIt = 0 THEN [start EXCEPT !.status = "Running"]
                 ELSE [robDoSquash(start) EXCEPT !.robSquashing = TRUE]
      all     == IF trap \/ tc \/ going.status = "SquashAfterPending"
                 THEN squashAll(going, pos) ELSE going
      one     == squashFromIEW(all, h, redirect)
      done    == IF one.status = "ROBSquashing" THEN one
                 ELSE commitInsts(getInsts(one, h, fromRename), h, fault)
  IN  [done EXCEPT !.usedROB = done.changed,
                   !.freeROBEntries = ROBEntries - Len(done.rob)]
=============================================================================
