------------------------------- MODULE O3IEW --------------------------------
(***************************************************************************)
(* DefaultIEW, iew_impl.hh: dispatch, issue, execution and the redirects   *)
(* that execution finds.                                                   *)
(*                                                                         *)
(* iq is the instruction queue, issued what it issued in the cycle before, *)
(* lsq the plain instructions that were executed and that a memory order   *)
(* violation may still name.  Which instructions are ready to issue, which *)
(* executed loads an older access finds in its way, and the space in the   *)
(* queues (full, room) are inputs.                                         *)
(***************************************************************************)
EXTENDS O3Inst

NoRedirect == [sn |-> 0, include |-> FALSE]

IEWInit ==
  [status |-> "Running", insts |-> <<>>, skid |-> <<>>, iq |-> {}, issued |-> {},
   lsq |-> {}, block |-> FALSE, unblock |-> FALSE, dispatched |-> 0,
   done |-> {}, redirect |-> NoRedirect]

block(e) ==
  [skidInsert(e) EXCEPT !.block = @ \/ e.status \notin {"Blocked", "Unblocking"},
                        !.status = "Blocked"]

unblock(e) ==
  IF e.skid = <<>> THEN [e EXCEPT !.unblock = TRUE, !.status = "Running"] ELSE e

(* Instructions dropped without their credits. *)
emptyRenameInstsSilent(e) == [e EXCEPT !.insts = <<>>]

emptyRenameInsts(e) ==
  [e EXCEPT !.dispatched = @ + Len(e.insts), !.insts = <<>>]

(* The instruction queue and the load/store queue forget what is younger than
   sn; rename gets its credits back. *)
squash(e, sn) ==
  [emptyRenameInsts(e) EXCEPT
     !.iq = {i \in @ : i <= sn}, !.lsq = {i \in @ : i <= sn},
     !.dispatched = @ + Len(e.skid), !.skid = <<>>,
     !.unblock = @ \/ e.status \in {"Blocked", "Unblocking"},
     !.status = "Squashing"]

robSquashing(e) == [emptyRenameInsts(e) EXCEPT !.status = "Squashing"]

checkSignalsAndUpdate(e, fromCommit, full) ==
  CASE fromCommit.squash -> squash(e, fromCommit.doneSeqNum)
    [] ~fromCommit.squash /\ fromCommit.robSquashing -> block(robSquashing(e))
    [] ~fromCommit.squash /\ ~fromCommit.robSquashing /\ full -> block(e)
    [] OTHER ->
         CASE e.status = "Blocked"   -> unblock([e EXCEPT !.status = "Unblocking"])
           [] e.status = "Squashing" -> [e EXCEPT !.status = "Running"]
           [] OTHER                  -> e

dispatchInsts(e, h, room) ==
  LET q    == source(e)
      n    == takenWhile(q, LAMBDA m :
                /\ m < Width
                /\ \/ isSquashed(h, q[m + 1])
                   \/ Len(live(h, front(q, m))) < room)
      passed == [setSource(e, rest(q, n)) EXCEPT
                   !.dispatched = @ + n,
                   !.iq = @ \cup ToSet(live(h, front(q, n)))]
  IN  IF n < Len(q) THEN [block(passed) EXCEPT !.unblock = FALSE] ELSE passed

dispatch(e, h, fromRename, room) ==
  LET done == dispatchInsts(e, h, room)
      kept == IF live(h, fromRename) # <<>> THEN skidInsert(done) ELSE done
  IN  CASE e.status = "Running"    -> done
        [] e.status = "Unblocking" -> unblock(kept)
        [] OTHER                   -> e

(* The youngest redirect of the cycle. *)
youngest(S) ==
  IF S = {} THEN NoRedirect ELSE CHOOSE r \in S : \A x \in S : x.sn <= r.sn

(* squashDueToBranch and squashDueToMemOrder: the oldest redirect of the cycle
   stays, and of one instruction the one that squashes it too. *)
oldest(S) ==
  IF S = {} THEN NoRedirect
  ELSE LET sn == Min({r.sn : r \in S})
       IN  [sn |-> sn, include |-> \E r \in S : r.sn = sn /\ r.include]

(* executeInsts, for what was issued; violators are loads younger than an access
   that executes now. *)
executeInsts(e, h, violators) ==
  LET run   == {i \in e.issued : ~isSquashed(h, i)}
      wrong == {[sn |-> i, include |-> FALSE] : i \in {j \in run : h[j].kind = "late"}}
      again == {[sn |-> i, include |-> TRUE] : i \in violators}
  IN  [e EXCEPT !.done = run, !.redirect = oldest(wrong \cup again),
                !.lsq = @ \cup {i \in run : h[i].kind = "plain"}]

mayViolate(e, h) ==
  {V \in SUBSET e.lsq :
     \A v \in V : \E i \in e.issued : ~isSquashed(h, i) /\ h[i].kind = "plain" /\ i < v}

(* commitLoads, commitStores: nothing committed can violate any more. *)
commitLSQ(e, fromCommit) ==
  IF fromCommit.squash \/ fromCommit.robSquashing THEN e
  ELSE [e EXCEPT !.lsq = {i \in @ : i > fromCommit.doneSeqNum}]

(* One cycle up to the issue of the next instructions. *)
iewTick(e, h, fromRename, fromCommit, full, room) ==
  LET start == [e EXCEPT !.insts = @ \o fromRename, !.block = FALSE,
                         !.unblock = FALSE, !.dispatched = 0]
  IN  dispatch(checkSignalsAndUpdate(start, fromCommit, full), h, fromRename, room)

(* scheduleReadyInsts. *)
issue(e, S) == [e EXCEPT !.issued = S, !.iq = @ \ S]
=============================================================================
