--------------------------- MODULE PredictorUnit ----------------------------
(***************************************************************************)
(* BPredUnit with the direction predictors of the repository: the unit     *)
(* that a core calls, configured with one of them.  bp.kind is the class   *)
(* of the predictor, and the operators of this section are the virtual     *)
(* methods of BPredUnit.                                                   *)
(*                                                                         *)
(* before remembers, for each branch in flight, the histories of the       *)
(* predictor when it was fetched and the counters its lookup consults: a   *)
(* history variable for the properties.                                    *)
(***************************************************************************)
EXTENDS CounterTables, Sequences

CONSTANTS
  Kinds,                        \* the classes that may be configured
  LocalTableBits2, MaxWeight, MaxWeightSum, MaxWeight2, MaxWeightSum2,
  Insts, IndirectTargets, useIndirect,
  RASSize, BTBIdxBits, BTBTagBits, BTBThreadBits,
  SetBits, NumWays, IndTagBits, PathLength, hashGHR, hashTargets,
  MaxSeqNum, MaxInFlight, CommitWidth

(* What the constructors check, or index without a check: gshare with the mask
   of the global predictor, the second choice with that of the first. *)
ASSUME SizesFit ==
  /\ IdxBits["gshare"] >= IdxBits["global"]
  /\ IdxBits["choice2"] = IdxBits["choice"]
  /\ IdxBits["taken"] = IdxBits["notTaken"]

VARIABLES predHist, RAS, btb, threadInfo, targetCache, bp,
          seqNum, done, window, before

Local      == INSTANCE LocalBP
BiMode     == INSTANCE BiModeBP
Tournament == INSTANCE TournamentBP
Tri        == INSTANCE TriTournamentBP
GTri       == INSTANCE GTriTournamentBP
Ensemble   == INSTANCE EnsembleBP
Ensemble2  == INSTANCE EnsembleBP2

BPInit ==
  {b \in {Local!BPInit, BiMode!BPInit, Tournament!BPInit, Tri!BPInit, GTri!BPInit,
          Ensemble!BPInit, Ensemble2!BPInit} : b.kind \in Kinds}

bpLookup(b, t, pc) ==
  CASE b.kind = "LocalBP"          -> Local!bpLookup(b, t, pc)
    [] b.kind = "BiModeBP"         -> BiMode!bpLookup(b, t, pc)
    [] b.kind = "TournamentBP"     -> Tournament!bpLookup(b, t, pc)
    [] b.kind = "TriTournamentBP"  -> Tri!bpLookup(b, t, pc)
    [] b.kind = "GTriTournamentBP" -> GTri!bpLookup(b, t, pc)
    [] b.kind = "EnsembleBP"       -> Ensemble!bpLookup(b, t, pc)
    [] b.kind = "EnsembleBP2"      -> Ensemble2!bpLookup(b, t, pc)

uncondBranch(b, t, pc) ==
  CASE b.kind = "LocalBP"          -> Local!uncondBranch(b, t, pc)
    [] b.kind = "BiModeBP"         -> BiMode!uncondBranch(b, t, pc)
    [] b.kind = "TournamentBP"     -> Tournament!uncondBranch(b, t, pc)
    [] b.kind = "TriTournamentBP"  -> Tri!uncondBranch(b, t, pc)
    [] b.kind = "GTriTournamentBP" -> GTri!uncondBranch(b, t, pc)
    [] b.kind = "EnsembleBP"       -> Ensemble!uncondBranch(b, t, pc)
    [] b.kind = "EnsembleBP2"      -> Ensemble2!uncondBranch(b, t, pc)

btbUpdate(b, t, pc, ptr) ==
  CASE b.kind = "LocalBP"          -> Local!btbUpdate(b, t, pc, ptr)
    [] b.kind = "BiModeBP"         -> BiMode!btbUpdate(b, t, pc, ptr)
    [] b.kind = "TournamentBP"     -> Tournament!btbUpdate(b, t, pc, ptr)
    [] b.kind = "TriTournamentBP"  -> Tri!btbUpdate(b, t, pc, ptr)
    [] b.kind = "GTriTournamentBP" -> GTri!btbUpdate(b, t, pc, ptr)
    [] b.kind = "EnsembleBP"       -> Ensemble!btbUpdate(b, t, pc, ptr)
    [] b.kind = "EnsembleBP2"      -> Ensemble2!btbUpdate(b, t, pc, ptr)

bpUpdate(b, t, pc, taken, ptr, squashed) ==
  CASE b.kind = "LocalBP"          -> Local!bpUpdate(b, t, pc, taken, ptr, squashed)
    [] b.kind = "BiModeBP"         -> BiMode!bpUpdate(b, t, pc, taken, ptr, squashed)
    [] b.kind = "TournamentBP"     -> Tournament!bpUpdate(b, t, pc, taken, ptr, squashed)
    [] b.kind = "TriTournamentBP"  -> Tri!bpUpdate(b, t, pc, taken, ptr, squashed)
    [] b.kind = "GTriTournamentBP" -> GTri!bpUpdate(b, t, pc, taken, ptr, squashed)
    [] b.kind = "EnsembleBP"       -> Ensemble!bpUpdate(b, t, pc, taken, ptr, squashed)
    [] b.kind = "EnsembleBP2"      -> Ensemble2!bpUpdate(b, t, pc, taken, ptr, squashed)

bpSquash(b, t, ptr) ==
  CASE b.kind = "LocalBP"          -> Local!bpSquash(b, t, ptr)
    [] b.kind = "BiModeBP"         -> BiMode!bpSquash(b, t, ptr)
    [] b.kind = "TournamentBP"     -> Tournament!bpSquash(b, t, ptr)
    [] b.kind = "TriTournamentBP"  -> Tri!bpSquash(b, t, ptr)
    [] b.kind = "GTriTournamentBP" -> GTri!bpSquash(b, t, ptr)
    [] b.kind = "EnsembleBP"       -> Ensemble!bpSquash(b, t, ptr)
    [] b.kind = "EnsembleBP2"      -> Ensemble2!bpSquash(b, t, ptr)

getGHR(b, t, ptr) ==
  CASE b.kind = "LocalBP"          -> Local!getGHR(b, t, ptr)
    [] b.kind = "BiModeBP"         -> BiMode!getGHR(b, t, ptr)
    [] b.kind = "TournamentBP"     -> Tournament!getGHR(b, t, ptr)
    [] b.kind = "TriTournamentBP"  -> Tri!getGHR(b, t, ptr)
    [] b.kind = "GTriTournamentBP" -> GTri!getGHR(b, t, ptr)
    [] b.kind = "EnsembleBP"       -> Ensemble!getGHR(b, t, ptr)
    [] b.kind = "EnsembleBP2"      -> Ensemble2!getGHR(b, t, ptr)

consulted(b, t, pc) ==
  CASE b.kind = "LocalBP"          -> Local!consulted(b, t, pc)
    [] b.kind = "BiModeBP"         -> BiMode!consulted(b, t, pc)
    [] b.kind = "TournamentBP"     -> Tournament!consulted(b, t, pc)
    [] b.kind = "TriTournamentBP"  -> Tri!consulted(b, t, pc)
    [] b.kind = "GTriTournamentBP" -> GTri!consulted(b, t, pc)
    [] b.kind = "EnsembleBP"       -> Ensemble!consulted(b, t, pc)
    [] b.kind = "EnsembleBP2"      -> Ensemble2!consulted(b, t, pc)

Unit == INSTANCE BPredUnit

-----------------------------------------------------------------------------
(* The history registers, and the bits of the local histories that index the
   local predictors. *)
globals(b, t) ==
  CASE b.kind = "LocalBP"          -> << >>
    [] b.kind = "GTriTournamentBP" -> <<b.globalHistory[t], b.globalHistory2[t]>>
    [] OTHER                       -> <<b.globalHistory[t]>>

masked(table, bits) == [i \in DOMAIN table |-> Mask(table[i], bits)]

locals(b) ==
  CASE b.kind \in {"LocalBP", "BiModeBP"} -> << >>
    [] b.kind = "TriTournamentBP" -> <<masked(b.localHistoryTable, IdxBits["local"]),
                                       masked(b.localHistoryTable2, IdxBits["local2"])>>
    [] OTHER                      -> <<masked(b.localHistoryTable, IdxBits["local"])>>

InFlight(win) == UNION {{win[t][k].seqNum : k \in DOMAIN win[t]} : t \in Threads}

(* inst is what thread t fetches in this step, if it fetches. *)
Remember(t, inst) ==
  before' = [sn \in InFlight(window') |->
               IF sn \in DOMAIN before THEN before[sn]
               ELSE [global |-> globals(bp, t), local |-> locals(bp),
                     idx |-> consulted(bp, t, inst.pc)]]

Init == Unit!Init /\ before = << >>

Predict ==
  \E t \in Threads, inst \in Insts : Unit!Predict(t, inst) /\ Remember(t, inst)

Forget == before' = Restrict(before, InFlight(window'))

DecodeRedirect ==
  (\E t \in Threads : \E k \in DOMAIN window[t] : Unit!DecodeRedirect(t, k)) /\ Forget
ExecuteRedirect ==
  (\E t \in Threads : \E k \in DOMAIN window[t] : Unit!ExecuteRedirect(t, k)) /\ Forget
Squash ==
  (\E t \in Threads : \E sn \in done[t]..seqNum : Unit!Squash(t, sn)) /\ Forget
Update ==
  (\E t \in Threads : \E n \in 0..CommitWidth : n <= Len(window[t]) /\ Unit!Update(t, n))
    /\ Forget

Next == Predict \/ DecodeRedirect \/ ExecuteRedirect \/ Squash \/ Update

vars == <<Unit!vars, before>>

Spec == Init /\ [][Next]_vars

-----------------------------------------------------------------------------
(* Properties *)

At == {<<t, k>> \in Threads \X (1..MaxInFlight) : k <= Len(predHist[t])}

ptr(a) == predHist[a[1]][a[2]].bpHistory

(* Type invariant: counters stay within their bits, the weights and the
   registers within theirs. *)
TypeOK ==
  /\ \A n \in DOMAIN bp.ctrs :
       bp.ctrs[n] \in [0..2^IdxBits[n] - 1 -> 0..maxVal(CtrBits[n])]
  /\ bp.kind \notin {"LocalBP"} => bp.globalHistory \in [Threads -> 0..2^UnsignedBits - 1]
  /\ bp.kind = "EnsembleBP"  => bp.weight \in [Ensemble!Experts -> 0..MaxWeight]
  /\ bp.kind = "EnsembleBP2" => bp.weight \in [Ensemble!Experts -> 0..MaxWeight2]

(* Every BPHistory object belongs to exactly one record of predHist: lookup's
   and uncondBranch's objects are deleted once, by update or squash. *)
HistoriesOwned ==
  /\ DOMAIN bp.heap = {ptr(a) : a \in At} \ {NULL}
  /\ \A a, b \in At : ptr(a) = ptr(b) => a = b \/ bp.kind = "LocalBP"

(* The predictor once the branches of thread t from sn on are squashed. *)
undone(t, sn) == Unit!squash(t, sn - 1).bp

(* Squashing any suffix of the branches in flight brings the history registers
   back to what they were when the first of them was fetched. *)
GlobalHistoryRestored ==
  \A a \in At :
    LET sn == window[a[1]][a[2]].seqNum
    IN  globals(undone(a[1], sn), a[1]) = before[sn].global

(* A local history that a direct unconditional branch clears a bit of when it
   misses the BTB: no record of that branch allows to restore it. *)
clobbered(i, size) ==
  \E inst \in Insts : inst.uncond /\ inst.direct /\ ~inst.call /\ inst.pc % size = i

(* And the bits of every other local history that index a local predictor. *)
LocalHistoriesRestored ==
  \A a \in At :
    LET sn  == window[a[1]][a[2]].seqNum
        loc == locals(undone(a[1], sn))
    IN  \A n \in DOMAIN loc : \A i \in DOMAIN loc[n] :
          clobbered(i, Cardinality(DOMAIN loc[n])) \/ loc[n][i] = before[sn].local[n][i]

(* The direction that branch k of thread t is in the history with: what the
   unit remembers for its commit, unless it missed the BTB and was not yet
   corrected. *)
shiftedIn(t, k) ==
  LET w == window[t][k]
  IN  /\ predHist[t][k].predTaken
      /\ ~(/\ w.inst.direct /\ ~w.inst.call
           /\ ~w.corrected /\ w.predTarg = Unit!advancePC(w.inst.pc))

(* The predictors that shift the global history at lookup keep it in step with
   the branches in flight, whatever is corrected, squashed or committed: each
   branch saw the history of the one before it, shifted by the direction that
   one has now, and the register is what the youngest left. *)
HistoryIsPath ==
  bp.kind \notin {"LocalBP", "EnsembleBP", "EnsembleBP2"} =>
    \A a \in At :
      LET t    == a[1]
          k    == a[2]
          bits == IdxBits["global"]
          next == IF k = Len(predHist[t]) THEN globals(bp, t)[1]
                  ELSE before[window[t][k + 1].seqNum].global[1]
      IN  Mask(next, bits) =
            Mask(ShiftIn(before[window[t][k].seqNum].global[1], shiftedIn(t, k)), bits)

Committed ==
  {sn \in DOMAIN before \ DOMAIN before' :
     \E t \in Threads : sn <= done'[t] /\ \E k \in DOMAIN window[t] : window[t][k].seqNum = sn}

ConsultedStep ==
  \A n \in DOMAIN bp.ctrs \ {"gshare"} : \A i \in DOMAIN bp.ctrs[n] :
    bp'.ctrs[n][i] # bp.ctrs[n][i] => \E sn \in Committed : before[sn].idx[n] = i

(* Counters change only when branches commit, and then only those that the
   branch consulted, or would have, when it was fetched, however far the
   histories have moved since.  (For the gshare tables see below.) *)
TrainsConsulted == [][ConsultedStep]_vars

(* A branch trains the counters that voted on it ("passed back upon updating
   and squashing, when the BP can use this information"): when the oldest
   branch of EnsembleBP commits, the gshare index of the moment is that of its
   lookup. *)
GshareTrainsVoter ==
  \A t \in Threads :
    window[t] # << >> =>
      LET w == window[t][1]
      IN  Unit!resolved(w) =>
            Ensemble!gshareIdx(w.inst.pc, bp.globalHistory[t]) = before[w.seqNum].idx["gshare"]

(* The ensembles' votes and weights behave as EnsembleVote says, each with its
   own constants, however the experts' tables, the BTB and the pipeline
   behave. *)
pending ==
  LET t == CHOOSE t \in Threads : TRUE
  IN  [k \in DOMAIN predHist[t] |->
         LET h == bp.heap[predHist[t][k].bpHistory] IN [vote |-> h.vote, final |-> h.final]]

Vote  == INSTANCE EnsembleVote WITH weight <- bp.weight
Vote2 == INSTANCE EnsembleVote WITH
           weight <- bp.weight, MaxWeight <- MaxWeight2, MaxWeightSum <- MaxWeightSum2

ImplementsVote ==
  /\ bp.kind = "EnsembleBP" => Vote!Init
  /\ bp.kind = "EnsembleBP2" => Vote2!Init
  /\ [][IF bp.kind = "EnsembleBP" THEN Vote!Next ELSE Vote2!Next]_<<bp.weight, pending>>
=============================================================================
