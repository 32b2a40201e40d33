------------------------------- MODULE O3CPU --------------------------------
(***************************************************************************)
(* FullO3CPU with one thread: fetch, decode, rename, IEW and commit tick   *)
(* in this order in every cycle and talk through time buffers.             *)
(*                                                                         *)
(* The delays are those of O3CPU.py: one cycle for every wire, two from    *)
(* rename to IEW.  A word that goes back to an earlier stage is read in    *)
(* the next cycle before it is overwritten, so it is a field of the stage  *)
(* that writes it; what goes forward waits in fetchQ, decodeQ, renameQ and *)
(* iewQ, newest slot first, which move when the cycle ends.                *)
(*                                                                         *)
(* predHist is the history of the branch predictor: the branches it        *)
(* predicted and has neither trained nor squashed, oldest first.  trace is *)
(* the architectural outcome, the places on the program's path of the      *)
(* instructions committed so far.                                          *)
(*                                                                         *)
(* The surroundings (caches, queues, free lists, functional units, faults) *)
(* are inputs of the ticks.  An instruction waits in the instruction queue *)
(* for as long as they like; the other times they get in the way are       *)
(* counted in hindrances.                                                  *)
(***************************************************************************)
EXTENDS O3Inst, FiniteSets

CONSTANTS
  Kinds,              \* the kinds of instruction that are fetched
  FetchQueueSize,     \* fetchQueueSize
  ROBEntries, SquashWidth,
  MaxSeqNum,          \* bound: instructions fetched
  MaxHindrances       \* bound: times the surroundings get in the way

VARIABLES stage, heap, fetch, decode, rename, iew, commit,
          fetchQ, decodeQ, renameQ, iewQ, predHist, trace, hindrances

vars == <<stage, heap, fetch, decode, rename, iew, commit,
          fetchQ, decodeQ, renameQ, iewQ, predHist, trace, hindrances>>

D == INSTANCE O3Decode
R == INSTANCE O3Rename
E == INSTANCE O3IEW
C == INSTANCE O3Commit

FetchInit == [status |-> "Running", queue |-> <<>>, stalls |-> FALSE, pos |-> 1, seq |-> 1]

Nothing == [done |-> {}, redirect |-> E!NoRedirect]

Init ==
  /\ stage = "fetch" /\ heap = <<>> /\ predHist = <<>> /\ trace = <<>>
  /\ fetch = FetchInit /\ decode = D!DecodeInit /\ rename = R!RenameInit
  /\ iew = E!IEWInit /\ commit = C!CommitInit
  /\ fetchQ = <<<<>>, <<>>>> /\ decodeQ = <<<<>>, <<>>>> /\ renameQ = <<<<>>, <<>>, <<>>>>
  /\ iewQ = <<Nothing, Nothing>> /\ hindrances = 0

hinder(p) ==
  /\ p => hindrances < MaxHindrances
  /\ hindrances' = IF p THEN hindrances + 1 ELSE hindrances

-----------------------------------------------------------------------------
(* BPredUnit, as fetch uses it. *)
bpUpdate(hist, sn) == SelectSeq(hist, LAMBDA b : b > sn)

(* The squash that takes the redirecting branch along. *)
bpSquashBranchToo(hist, sn) == SelectSeq(hist, LAMBDA b : b < sn)

bpSquash(hist, sn) == SelectSeq(hist, LAMBDA b : b <= sn)

(* cpu->removeInstsNotInROB and removeInstsUntil. *)
notInROB == IF commit.rob = <<>> THEN DOMAIN heap
            ELSE {i \in DOMAIN heap : i > Last(commit.rob)}

doSquash(f, pos) == [f EXCEPT !.pos = pos, !.status = "Squashing", !.queue = <<>>]

(* checkSignalsAndUpdate: the new state of fetch, the instructions killed and the
   history of the predictor. *)
fetchSignals ==
  LET f    == [fetch EXCEPT !.stalls = stalled(@, decode.block, decode.unblock)]
      up   == bpUpdate(predHist, commit.doneSeqNum)
      d    == decode.redirect
      run  == [f EXCEPT !.status = "Running"]
  IN  CASE commit.squash ->
             [f |-> doSquash(f, commit.pos), kills |-> notInROB,
              hist |-> bpSquash(predHist, commit.doneSeqNum)]
        [] ~commit.squash /\ d # 0 /\ f.status # "Squashing" ->
             [f |-> doSquash(f, IF heap[d].kind = "right" THEN next(heap, d) ELSE 0),
              kills |-> {i \in DOMAIN heap : i > d}, hist |-> bpSquash(up, d)]
        [] ~commit.squash /\ d # 0 /\ f.status = "Squashing" ->
             [f |-> run, kills |-> {}, hist |-> bpSquash(up, d)]
        [] OTHER -> [f |-> run, kills |-> {}, hist |-> up]

(* The instructions fetch() builds, kinds being what it finds at its pc. *)
built(f, kinds) ==
  [i \in f.seq..(f.seq + Len(kinds) - 1) |->
     LET j == i - f.seq + 1
     IN  [kind |-> kinds[j], state |-> "waiting",
          pos |-> IF f.pos # 0 /\ \A m \in 1..(j - 1) : kinds[m] \notin Mispredicted
                  THEN f.pos + j - 1 ELSE 0]]

posAfter(f, kinds) ==
  IF f.pos = 0 \/ \E m \in DOMAIN kinds : kinds[m] \in Mispredicted THEN 0
  ELSE f.pos + Len(kinds)

(* Sending without a look at the stall of decode. *)
sendsAlways(f, queue) == Min({Len(queue), Width})

(* What tick() sends to decode of the fetch queue. *)
sends(f, queue) == IF f.stalls THEN 0 ELSE Min({Len(queue), Width})

FetchTick ==
  /\ stage = "fetch"
  /\ LET s == fetchSignals
     IN  \E kinds \in UNION {[1..n -> Kinds] : n \in 0..Width} :
           /\ kinds # <<>> => s.f.status = "Running"
           /\ Len(s.f.queue) + Len(kinds) <= FetchQueueSize
           /\ s.f.seq + Len(kinds) <= MaxSeqNum + 1
           /\ hinder(/\ s.f.status = "Running" /\ Len(kinds) < Width
                     /\ Len(s.f.queue) + Len(kinds) < FetchQueueSize
                     /\ s.f.seq + Len(kinds) <= MaxSeqNum)
           /\ LET new   == built(s.f, kinds)
                  queue == s.f.queue \o [j \in DOMAIN kinds |-> s.f.seq + j - 1]
                  n     == sends(s.f, queue)
              IN  /\ heap' = [i \in DOMAIN heap \cup DOMAIN new |->
                                IF i \in DOMAIN new THEN new[i]
                                ELSE setSquashed(heap, s.kills)[i]]
                  /\ fetch' = [s.f EXCEPT !.queue = rest(queue, n),
                                          !.pos = posAfter(s.f, kinds),
                                          !.seq = @ + Len(kinds)]
                  /\ fetchQ' = [fetchQ EXCEPT ![1] = front(queue, n)]
                  /\ predHist' = s.hist \o SelectSeq([j \in DOMAIN kinds |-> s.f.seq + j - 1],
                                                     LAMBDA i : isControl(new[i].kind))
  /\ stage' = "decode"
  /\ UNCHANGED <<decode, rename, iew, commit, decodeQ, renameQ, iewQ, trace>>

DecodeTick ==
  /\ stage = "decode"
  /\ LET h == IF commit.squash THEN setSquashed(heap, ToSet(fetchQ[2])) ELSE heap
         d == D!decodeTick(decode, h, fetchQ[2], rename, commit.squash)
     IN  /\ decode' = [d EXCEPT !.sent = <<>>]
         /\ decodeQ' = [decodeQ EXCEPT ![1] = d.sent]
         /\ heap' = D!decodeKills(h, d)
  /\ stage' = "rename"
  /\ UNCHANGED <<fetch, rename, iew, commit, fetchQ, renameQ, iewQ, predHist, trace, hindrances>>

RenameTick ==
  /\ stage = "rename"
  /\ \E short \in BOOLEAN, avail \in 0..Width :
       /\ hinder(short \/ avail < Width)
       /\ LET h == IF commit.squash
                   THEN setSquashed(heap, {i \in ToSet(decodeQ[2]) : i > commit.doneSeqNum})
                   ELSE heap
              r == R!renameTick(rename, h, decodeQ[2], iew, commit, short, avail)
          IN  /\ rename' = [r EXCEPT !.sent = <<>>]
              /\ renameQ' = [renameQ EXCEPT ![1] = r.sent]
              /\ heap' = h
  /\ stage' = "iew"
  /\ UNCHANGED <<fetch, decode, iew, commit, fetchQ, decodeQ, iewQ, predHist, trace>>

IEWTick ==
  /\ stage = "iew"
  /\ \E full \in BOOLEAN, room \in 0..Width :
       LET e == E!iewTick(iew, heap, renameQ[3], commit, full, room)
       IN  \E violators \in E!mayViolate(e, heap) :
             /\ hinder(full \/ room < Width \/ violators # {})
             /\ LET x == E!commitLSQ(E!executeInsts(e, heap, violators), commit)
                IN \E S \in SUBSET x.iq :
                   /\ Cardinality(S) <= Width
                   /\ iew' = [E!issue(x, S) EXCEPT !.done = {}, !.redirect = E!NoRedirect]
                   /\ iewQ' = [iewQ EXCEPT ![1] = [done |-> x.done, redirect |-> x.redirect]]
                   /\ heap' = [i \in DOMAIN heap |->
                                 IF i \in x.done THEN [heap[i] EXCEPT !.state = "executed"]
                                 ELSE heap[i]]
  /\ stage' = "commit"
  /\ UNCHANGED <<fetch, decode, rename, commit, fetchQ, decodeQ, renameQ, predHist, trace>>

(* The pointers the next cycle starts with. *)
held(c) ==
  UNION {ToSet(q) : q \in {c.rob, fetch.queue, fetchQ[1], decode.skid, decodeQ[1],
                           rename.insts, rename.skid, renameQ[1], renameQ[2],
                           iew.insts, iew.skid}}
    \cup iew.iq \cup iew.issued \cup iewQ[1].done

(* markCompletedInsts: what execution sent a cycle ago may commit. *)
completed(h, done) ==
  [i \in DOMAIN h |-> IF i \in done /\ ~isSquashed(h, i)
                      THEN [h[i] EXCEPT !.state = "ready"] ELSE h[i]]

(* commit ticks, the cycle ends, the time buffers advance and what nothing points
   to is freed. *)
CommitTick ==
  /\ stage = "commit"
  /\ \E trap, tc, fault \in BOOLEAN :
       /\ trap => commit.status = "TrapPending"
       /\ tc => commit.status # "TrapPending"
       /\ hinder(tc \/ fault \/ (commit.status = "TrapPending" /\ ~trap))
       /\ LET c == C!commitTick(commit, heap, renameQ[2], iewQ[2].redirect,
                                Len(trace) + 1, trap, tc, fault)
              h == completed(setSquashed(heap, c.killed), iewQ[2].done)
          IN  /\ commit' = [c EXCEPT !.killed = {}, !.retired = <<>>, !.changed = FALSE]
              /\ trace' = trace \o [j \in DOMAIN c.retired |-> heap[c.retired[j]].pos]
              /\ heap' = Restrict(h, held(c) \cap DOMAIN h)
  /\ fetchQ' = <<<<>>, fetchQ[1]>>
  /\ decodeQ' = <<<<>>, decodeQ[1]>>
  /\ renameQ' = <<<<>>, renameQ[1], renameQ[2]>>
  /\ iewQ' = <<Nothing, iewQ[1]>>
  /\ stage' = "fetch"
  /\ UNCHANGED <<fetch, decode, rename, iew, predHist>>

Next == FetchTick \/ DecodeTick \/ RenameTick \/ IEWTick \/ CommitTick

Spec == Init /\ [][Next]_vars

(* The tick event is scheduled again in every cycle, and an instruction queue that
   keeps instructions issues some in the end: the oldest waits for no other. *)
Ticks  == []<>(stage = "fetch") /\ []<>(stage = "commit")
Issues == []<>(iew.iq # {}) => []<>(iew.issued # {})

FairSpec == Spec /\ Ticks /\ Issues
-----------------------------------------------------------------------------
(* The fields of the stages and the queues hold instructions that were fetched, in
   the order of their sequence numbers. *)
TypeOK ==
  /\ stage \in {"fetch", "decode", "rename", "iew", "commit"}
  /\ DOMAIN heap \subseteq 1..MaxSeqNum
  /\ \A i \in DOMAIN heap :
       /\ heap[i].pos \in 0..MaxSeqNum /\ heap[i].kind \in InstKinds
       /\ heap[i].state \in {"waiting", "executed", "ready", "squashed"}
  /\ \A q \in {commit.rob, fetch.queue, decode.skid, rename.skid, iew.skid, predHist} :
       /\ ToSet(q) \subseteq 1..MaxSeqNum
       /\ \A j, k \in DOMAIN q : j < k => q[j] < q[k]

(* The core commits the program and nothing else: the instructions that commit()
   retires are on the path the program really takes, each of them once and in
   order, whatever the stages squash, drop, stall or fetch again. *)
CommitsProgramOrder == \A i \in DOMAIN trace : trace[i] = i

(* The assertions of insertInst (numInstsInROB != numEntries) and of rename's tick
   (instsInProgress >= 0): rename never sends more than the reorder buffer can
   take, and IEW reports no instruction twice. *)
ROBCredits == Len(commit.rob) <= ROBEntries /\ rename.inProgress >= 0

(* The assertions of the three skidInsert: a stage that blocks has room for what
   the one before it sends until it hears of it. *)
SkidBuffersFit ==
  /\ Len(decode.skid) <= 2 * Width
  /\ Len(rename.skid) <= 2 * Width
  /\ Len(iew.skid) <= 3 * Width

(* A stage is held back exactly while the one behind it is blocked: after each cycle
   the block and unblock signals have told every stage the truth, and none is
   sent that the readStallSignals assertions refuse. *)
StallsKnown ==
  stage = "fetch" =>
    \A p \in {<<fetch, decode>>, <<decode, rename>>, <<rename, iew>>} :
      /\ stalled(p[1].stalls, p[2].block, p[2].unblock)
           <=> p[2].status \in {"Blocked", "Unblocking"}
      /\ p[2].unblock => p[1].stalls \/ p[2].block

(* A redirect finds its branch: when checkSignalsAndUpdate of fetch corrects the
   predictor for a branch, the predictor still has that branch in its history, and
   nothing that commits in the same cycle has trained it away. *)
RedirectFindsBranch ==
  stage = "fetch" =>
    /\ commit.squash /\ commit.mispredictInst # 0 =>
         commit.mispredictInst \in ToSet(predHist)
    /\ ~commit.squash /\ decode.redirect # 0 =>
         /\ decode.redirect \in ToSet(bpUpdate(predHist, commit.doneSeqNum))
         /\ fetch.status # "Squashing"

(* No instruction stays in the core: whatever blocks, unblocks and squashes cross
   each other, once fetch has nothing more to fetch everything commits or is
   dropped and freed. *)
Drains == <>[](heap = <<>>)

(* The predictor's history is the branches in flight: when no squash is under way,
   every branch that was not squashed is in it until it has committed, and
   every other entry committed in the cycle whose doneSeqNum trains it now. *)
HistoryIsInFlight ==
  stage = "fetch" /\ ~commit.squash /\ commit.status = "Running" /\ decode.redirect = 0 =>
    LET flying == {i \in DOMAIN heap : ~isSquashed(heap, i) /\ isControl(heap[i].kind)}
    IN  /\ flying \subseteq ToSet(predHist)
        /\ \A b \in ToSet(predHist) \ flying : b <= commit.doneSeqNum
=============================================================================
