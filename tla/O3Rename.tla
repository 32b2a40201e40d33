------------------------------ MODULE O3Rename ------------------------------
(***************************************************************************)
(* DefaultRename, rename_impl.hh: the flow of instructions and the credits *)
(* for the reorder buffer.  The register maps are in RenameMaps.           *)
(*                                                                         *)
(* Space in the instruction queue, the load and store queues and the free  *)
(* lists is an input: short when one of them has none left, avail the      *)
(* number of instructions the rest is enough for.                          *)
(***************************************************************************)
EXTENDS O3Inst, Integers

CONSTANT
  ROBEntries          \* numROBEntries

RenameInit ==
  [status |-> "Running", stalls |-> FALSE, insts |-> <<>>, skid |-> <<>>,
   block |-> FALSE, unblock |-> FALSE, sent |-> <<>>,
   robEntries |-> ROBEntries, inProgress |-> 0]

(* The credits without the instructions on their way to the queue. *)
calcFreeROBEntriesNow(r, dispatched) == r.robEntries

calcFreeROBEntries(r, dispatched) == r.robEntries - (r.inProgress - dispatched)

block(r) ==
  IF r.status = "Blocked" THEN skidInsert(r)
  ELSE [skidInsert(r) EXCEPT !.status = "Blocked",
                             !.block = @ \/ r.status # "Unblocking",
                             !.unblock = @ /\ r.status = "Unblocking"]

unblock(r) ==
  IF r.skid = <<>> THEN [r EXCEPT !.unblock = TRUE, !.status = "Running"] ELSE r

squash(r) ==
  [r EXCEPT !.unblock = @ \/ r.status \in {"Blocked", "Unblocking"},
            !.status = "Squashing", !.insts = <<>>, !.skid = <<>>]

checkStall(r, dispatched, short) ==
  r.stalls \/ calcFreeROBEntries(r, dispatched) <= 0 \/ short

checkSignalsAndUpdate(r, squashing, dispatched, short) ==
  CASE squashing -> squash(r)
    [] ~squashing /\ checkStall(r, dispatched, short) -> block(r)
    [] OTHER ->
         CASE r.status = "Blocked"   -> unblock([r EXCEPT !.status = "Unblocking"])
           [] r.status = "Squashing" -> [r EXCEPT !.status = "Running"]
           [] OTHER                  -> r

(* Squashed instructions are dropped without a resource; the others need an
   entry of everything. *)
renameInsts(r, h, dispatched, avail) ==
  LET q    == source(r)
      free == calcFreeROBEntries(r, dispatched)
      n    == takenWhile(q, LAMBDA m :
                LET sent == Len(live(h, front(q, m)))
                IN  /\ m < free /\ sent < Width
                    /\ isSquashed(h, q[m + 1]) \/ sent < avail)
      sent == live(h, front(q, n))
      passed == [setSource(r, rest(q, n)) EXCEPT !.sent = sent,
                                                 !.inProgress = @ + Len(sent)]
  IN  IF n < Len(q) THEN [block(passed) EXCEPT !.unblock = FALSE] ELSE passed

rename(r, h, fromDecode, dispatched, avail) ==
  LET done == renameInsts(r, h, dispatched, avail)
      kept == IF live(h, fromDecode) # <<>> THEN skidInsert(done) ELSE done
  IN  CASE r.status = "Running"    -> done
        [] r.status = "Unblocking" -> unblock(kept)
        [] OTHER                   -> r

(* One cycle; fromCommit tells the free entries of the reorder buffer when
   they changed, fromIEW how many instructions left for the queue. *)
renameTick(r, h, fromDecode, fromIEW, fromCommit, short, avail) ==
  LET start == [r EXCEPT
                  !.insts = @ \o fromDecode,
                  !.stalls = stalled(@, fromIEW.block, fromIEW.unblock),
                  !.robEntries = IF fromCommit.usedROB THEN fromCommit.freeROBEntries
                                 ELSE @,
                  !.block = FALSE, !.unblock = FALSE, !.sent = <<>>]
      done  == rename(checkSignalsAndUpdate(start, fromCommit.squash,
                                            fromIEW.dispatched, short),
                      h, fromDecode, fromIEW.dispatched, avail)
  IN  [done EXCEPT !.inProgress = @ - fromIEW.dispatched]
=============================================================================
