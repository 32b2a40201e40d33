------------------------------ MODULE O3Decode ------------------------------
(***************************************************************************)
(* DefaultDecode, decode_impl.hh.                                          *)
(*                                                                         *)
(* block, unblock and redirect are the words decode writes to fetch in     *)
(* this cycle, sent what it writes to rename.                              *)
(***************************************************************************)
EXTENDS O3Inst

LOCAL NoRedirect == 0

DecodeInit ==
  [status |-> "Running", stalls |-> FALSE, insts |-> <<>>, skid |-> <<>>,
   block |-> FALSE, unblock |-> FALSE, redirect |-> NoRedirect, sent |-> <<>>]

block(d) ==
  IF d.status = "Blocked" THEN skidInsert(d)
  ELSE [skidInsert(d) EXCEPT !.status = "Blocked", !.unblock = FALSE,
                             !.block = @ \/ ~d.unblock]

unblock(d) ==
  IF d.skid = <<>> THEN [d EXCEPT !.unblock = TRUE, !.status = "Running"] ELSE d

(* The squash without the unblock signal. *)
squashSilent(d) ==
  [d EXCEPT !.status = "Squashing", !.insts = <<>>, !.skid = <<>>]

(* squash(tid) and squash(inst, tid): decode drops all it holds. *)
squash(d) ==
  [d EXCEPT !.unblock = @ \/ d.status \in {"Blocked", "Unblocking"},
            !.status = "Squashing", !.insts = <<>>, !.skid = <<>>]

checkSignalsAndUpdate(d, squashing) ==
  CASE squashing                -> squash(d)
    [] ~squashing /\ d.stalls   -> block(d)
    [] OTHER ->
         CASE d.status = "Blocked"   -> unblock([d EXCEPT !.status = "Unblocking"])
           [] d.status = "Squashing" -> [d EXCEPT !.status = "Running"]
           [] OTHER                  -> d

(* The loop stops at the first instruction whose target decode finds wrong. *)
wrongTarget(h, i) == h[i].kind \in {"early", "earlyWrong"}

decodeInsts(d, h) ==
  LET q      == source(d)
      n      == takenWhile(q, LAMBDA m :
                  /\ Len(live(h, front(q, m))) < Width
                  /\ \A j \in 1..m : ~wrongTarget(h, q[j]))
      sent   == live(h, front(q, n))
      passed == [setSource(d, rest(q, n)) EXCEPT !.sent = sent]
  IN  IF sent # <<>> /\ wrongTarget(h, Last(sent))
      THEN [squash(passed) EXCEPT !.redirect = Last(sent)]
      ELSE IF n < Len(q) THEN block(passed) ELSE passed

decode(d, h) ==
  CASE d.status = "Running"    -> decodeInsts(d, h)
    [] d.status = "Unblocking" -> unblock(skidInsert(decodeInsts(d, h)))
    [] OTHER                   -> d

(* One cycle: fromFetch arrives, rename's words and commit's are read. *)
decodeTick(d, h, fromFetch, fromRename, squashing) ==
  LET start == [d EXCEPT !.insts = @ \o fromFetch,
                         !.stalls = stalled(@, fromRename.block, fromRename.unblock),
                         !.block = FALSE, !.unblock = FALSE,
                         !.redirect = NoRedirect, !.sent = <<>>]
  IN  decode(checkSignalsAndUpdate(start, squashing), h)

(* What the tick does to the instructions: a squash kills those after the
   branch, whose predicted target becomes the one decode computed. *)
repaired(k) == IF k = "early" THEN "right" ELSE "late"

decodeKills(h, d) ==
  IF d.redirect = NoRedirect THEN h
  ELSE LET k == setSquashed(h, {i \in DOMAIN h : i > d.redirect})
       IN  [k EXCEPT ![d.redirect].kind = repaired(@)]
=============================================================================
