# Verification of the branch predictors and the core that drives them

This directory holds TLA+ models of the branch prediction code of this repository: gem5's branch
prediction unit (`src/gem5/src/cpu/pred`), the direction predictors in it, among them the ensembles
the repository adds, and the pipeline and register renaming of the O3 core (`src/gem5/src/cpu/o3`)
that decide in which order the unit is called and what a squash undoes. TLC checks the models on
small instances; TLAPS proves the main facts about the weights of the ensembles, the records of the
unit and the register maps for every size.

## The system

* **The unit** (`BPredUnit`). Fetch calls `predict` on every control instruction. The unit asks its
  direction predictor, then finds a target in the return address stack (RAS), the branch target
  buffer (BTB) or the indirect predictor, and pushes one `PredictorHistory` record onto
  `predHist[tid]`. `squash(sn)` undoes every branch younger than `sn`, youngest first.
  `squash(sn, target, taken)` does so and then corrects branch `sn`. `update(sn)` trains the
  predictor with every branch up to `sn`, oldest first.
* **The direction predictor**, a subclass with `lookup`, `uncondBranch`, `btbUpdate`, `update`,
  `squash` and `getGHR`. It allocates a `BPHistory` per branch, gets it back, and must delete it
  once. Most of them shift a history at `lookup` and put it back at `squash`.
* **The ensembles**, the repository's contribution: three experts whose votes are weighted.
  `EnsembleBP` has a local, a global and a gshare expert and 4-bit weights, `EnsembleBP2` a global,
  a tournament and a gshare expert and 2-bit weights. Weights are trained at commit.
* **The O3 core**: fetch, decode, rename, IEW (issue, execute, write-back) and commit tick in turn
  and talk through time buffers. Decode and execution find mispredictions; memory order violations,
  traps and instructions that squash after themselves squash too. Each squash reaches the stages,
  the predictor and the register maps at another time.

### Inventory

| Part | Source | Module | State |
|---|---|---|---|
| Branch prediction unit | `pred/bpred_unit.{cc,hh}` | `BPredUnit` | modelled, proved |
| Return address stack | `pred/ras.{cc,hh}` | `ReturnAddrStack` | modelled |
| Branch target buffer | `pred/btb.{cc,hh}` | `DefaultBTB` | modelled |
| Indirect predictor | `pred/indirect.{cc,hh}` | `IndirectPredictor` | modelled |
| Saturating counters, histories | `pred/sat_counter.hh` | `SatCounter`, `Bits`, `CounterTables` | modelled |
| Weighted vote of the ensembles | `pred/ensemble.{cc,hh}` | `WeightedMajority`, `EnsembleVote` | modelled, proved |
| `EnsembleBP`, `EnsembleBP2` | `pred/ensemble{,2}.{cc,hh}` | `EnsembleBP`, `EnsembleBP2` | modelled |
| `TournamentBP` | `pred/tournament.{cc,hh}` | `TournamentBP` | modelled |
| `TriTournamentBP`, `GTriTournamentBP` | `pred/*tritournament.{cc,hh}` | `TriTournamentBP`, `GTriTournamentBP` | modelled |
| `BiModeBP`; `gshare`, `yags`, `perceptron` repeat its code | `pred/bi_mode.{cc,hh}`, ... | `BiModeBP` | modelled |
| `LocalBP` | `pred/2bit_local.{cc,hh}` | `LocalBP` | modelled |
| The unit with each of these predictors | | `PredictorUnit` | composed |
| O3 pipeline | `o3/{fetch,decode,rename,iew,commit,rob}_impl.hh`, `o3/cpu.cc` | `O3Inst`, `O3Decode`, `O3Rename`, `O3IEW`, `O3Commit`, `O3CPU` | partly: the control of one thread |
| O3 register renaming | `o3/rename_map.cc`, `o3/free_list.hh`, `o3/rename_impl.hh` | `RenameMaps` | modelled, proved |
| `LTAGE`, SimpleCPU and Minor as clients, rest of gem5, benchmarks | | | not modelled, see below |

## Modules

### The unit and its predictors

`BPredUnit` takes the virtual methods of the class as CONSTANT operators: a direction predictor is a
value `bp` and operators on it. Two modules supply them.

* `MCBPredUnit` supplies the *most general* predictor: any direction at every lookup, and a heap of
  `BPHistory` objects. What TLC shows there holds of the unit whatever predictor it is built with.
* `PredictorUnit` supplies the predictors of the repository. `bp.kind` is the class, and each
  operator dispatches on it as the virtual call does. It adds a history variable `before`: for each
  branch in flight, the histories and the counters it found when it was fetched.

| Variable | Code |
|---|---|
| `predHist[t]` | `predHist`; the back of the deque (the oldest branch) is the first element |
| `RAS[t]` | `RAS`: `addrStack`, `usedEntries`, `tos` |
| `btb` | `BTB.btb` |
| `threadInfo[t]`, `targetCache` | `iPred.threadInfo`, `iPred.targetCache` |
| `bp` | the fields of the subclass (`ctrs` its counter tables), and the heap its `BPHistory` pointers point to |
| `seqNum`, `done`, `window` | the pipeline: numbers given out, last one committed, branches in flight |

`predict`, `squash`, `squashAndFix` and the helpers they use are operators named after the functions
and branches of `bpred_unit.cc`. The actions are the calls that the O3 core makes: `Predict`
(fetch), `DecodeRedirect` and `ExecuteRedirect` (the correcting squash), `Squash` (memory order,
traps, squash-after) and `Update` (commit). A branch in `window` is decoded once and executed once:
decode replaces its predicted target (`predTarg`), execution sets `corrected`, and `Update` takes it
when it is `resolved`, that is when both found it right or execution has corrected it. In a
predictor's module, `corrected` is the part of
`update` for `squashed`, `committed` the part that trains; `bpLookup`, `bpUpdate` and `bpSquash` are
`lookup`, `update` and `squash` of the class.

`EnsembleVote` is the abstract specification of an ensemble: weights, votes in flight, and nothing
about how an expert reaches its vote. `WeightedMajority` has the arithmetic both share.
`PredictorUnit` with either ensemble is shown to implement it (`ImplementsVote`), so what holds of
the weights in `EnsembleVote` holds of the whole unit.

### The core

`O3Decode`, `O3Rename`, `O3IEW` and `O3Commit` model one stage each: a record with the stage's
fields and the words it writes to the others in this cycle, and operators that take the record and
return it, named after the functions they model (`block`, `unblock`, `squash`,
`checkSignalsAndUpdate`, ...). `O3Inst` has what they share. `O3CPU` composes them. It has one
action per stage, `stage` enforces the order of `FullO3CPU::tick`, and time buffers with the default
delays of `O3CPU.py` lie between them. `heap` is the instructions the queues point to, `predHist`
the branches the predictor has a record of, `trace` what has committed.

An instruction is reduced to what the control looks at: its place `pos` on the program's true path
(0 on a wrong path), its `kind` (which stage finds it mispredicted, if any) and its `state`.

`RenameMaps` models the register maps alone, with any number of threads: a step is one turn of a
loop of the code, and `phase` and `tid` keep the order of the loops. `RenameSrcRegs` and
`RenameDestRegs` rename an instruction, `DoSquash` undoes a rename, `RemoveFromHistory` retires one,
`CommitHead` and `CommitSetEntry` commit, `Squash` is any squash of commit.

### Abstractions

* Addresses are word numbers. The BTB and the indirect predictor still split them into index and tag.
* In the unit, sequence numbers are given to branches only. `Update` with `n = 0` is a commit of
  other instructions, and `Squash` may name any number, so nothing depends on the gaps.
* A return address is stored as the address of its call, as the code stores the call's PC state and
  applies `buildRetPC` when it is used.
* A new `BPHistory` gets a canonical free address: pointers are only compared and dereferenced.
* A branch's true outcome is chosen when it is fetched. The unit cannot see it before it is corrected.
* The random victim of the indirect predictor is any way.
* Unsigned history registers wrap at `UnsignedBits`, which is larger than any mask, as 32 bits are.
* In the core, all stages have one width. Cache misses, full queues, empty free lists, memory order
  violations, faults and writes to the thread context are choices of the surroundings, counted by
  `hinder`. When an instruction issues is a free choice.
* In `O3CPU`, the predictor is reduced to its records. What it does with them is `BPredUnit`'s.
* In `RenameMaps`, a squash is applied to `rob` at once; rename hears of it a cycle later. One class
  of registers stands for all, and every thread is active from the start.
* Statistics other than those on the experts, probes, `dump` and debug output are left out, and so
  are fields that nothing reads, such as `globalUsed`.

## What the runs show

| Run | Shows |
|---|---|
| `vote` | With the constants of `EnsembleBP` (`MaxWeight` 15, `MAX_WEIGHT_SUM` 12): `WeightSumBounded`, the weights never add up to more than two saturated ones; `RewardsRightExperts`, training never moves an expert the wrong way; `ConservesWeightPastMax`, past the maximum training moves weight from losers to winners and creates none, away from the ends of the counters; `StatsFollowVotes`, what the statistics on experts count outside of ties |
| `vote_lone` | With the constants of `EnsembleBP2` (3 and 5): `LoneExpertWins`, an expert with some weight that is alone in being right from some point on ends up deciding |
| `unit` | Two threads, any predictor: `PredHistMatchesWindow`, `CorrectionFindsBranch` (the assert of `squash`), `HistoriesOwned` (each `BPHistory` is freed once), `PathMatchesPredHist` (the indirect predictor's path, squashed by other code, lists the same branches) |
| `calls` | On a RAS of three entries, which wraps: `RASIndexRestored`, undoing branches restores the top of the RAS; `RASRestored`, and the contents as far down as the branches in flight could not reach; `TrainsOutcomeIfKept`, the direction trained at commit is the true one for every branch that execution corrected, and when it is for the others |
| `ensemble` | For both ensembles: `HistoriesOwned`; `GlobalHistoryRestored` and `LocalHistoriesRestored`, squashing any suffix of the branches in flight gives back the histories its first branch found; `TrainsConsulted`, a commit trains only counters its branch consulted (gshare aside, see below); `ImplementsVote`, the refinement |
| `predictors` | `HistoriesOwned`, `GlobalHistoryRestored`, `LocalHistoriesRestored` and `TrainsConsulted` for the five other predictors, and `HistoryIsPath`: the history each branch saw is that of the branch before it, shifted by the direction that branch has now, through all corrections and squashes |
| `o3` | `CommitsProgramOrder`, the core commits the program's path, each instruction once and in order; `RedirectFindsBranch`, fetch never corrects the predictor for a branch it has forgotten; `HistoryIsInFlight`, between squashes the predictor's records are the branches in flight |
| `o3_flow` | Queues of one entry: `ROBCredits` and `SkidBuffersFit`, the assertions on the reorder buffer, on `instsInProgress` and on the skid buffers; `StallsKnown`, block and unblock signals always tell the truth; `Drains`, once fetch has nothing more to fetch the core empties |
| `rename` | Two threads on one free list: `NoRegisterTwice`, `NoRegisterLost`, `CommitMapKept` (no architectural register is freed, and undoing what did not commit gives the commit map), `SourcesKept` (an instruction's operand is neither freed nor given away before it commits) |

Runs that show a disagreement between the code and what the repository says of it:

| Run | Disagreement |
|---|---|
| `ras_cond_return` | a conditional return that is corrected to taken and then squashed restores RAS slot 0 with address 0. Needs an ISA with conditional returns (32-bit ARM); `calls` has none, as on AArch64 |
| `ensemble_gshare` | at commit `EnsembleBP` finds the gshare counter with the current history, not with the one of the lookup. `TrainsConsulted` leaves the gshare tables out for this reason |
| `rename_zero` | the assertion of `SimpleRenameMap::rename` on the zero register fails for the second SMT thread: its zero register is mapped to the physical register `NumIntRegs + ZeroReg`, and `isZeroReg` accepts only the index `ZeroReg`. Needs an ISA that leaves writes to the zero register in place |

### Observations without a run

The ensembles:
* "Contributor count 0 is impossible" (`ensemble.cc:435`) does not hold: when the weighted sum is 0,
  as after reset, the verdict is taken, even if all three experts voted not taken. `allExpertsWrong`
  and `allExpertsRight` then count the opposite of their descriptions.
* The histories are said to be updated speculatively (`ensemble.hh:60`, `ensemble.cc:389`), but
  `lookup` never shifts them; only unconditional branches and corrections do. `HistoryIsPath` is
  therefore not asked of the ensembles.
* `MAX_WEIGHT_SUM` is not a maximum: the sum reaches 30. An expert that has weight 0 and is right only
  on not-taken branches can stay at 0, which is why `LoneExpertWins` asks for some weight.
* `lowWeightExpertsWon` compares the weights at commit, which may have changed since the vote.

All predictors with local histories: an unconditional branch that misses the BTB clears a bit of a
local history, and its squash does not restore it (`ensemble.cc:189`). `LocalHistoriesRestored`
excepts the entries that such a branch selects (`clobbered`).

The others:
* With 2-bit choice counters the second threshold of `TriTournamentBP` and `GTriTournamentBP` is 3,
  and a counter never exceeds 3, so the second choice never selects its third predictor.
* `GTriTournamentBP` trains gshare at an index without the address (`gtritournament.cc:470`), while
  the lookup uses one with it.
* A correction of `BiModeBP` leaves its history register unmasked (`bi_mode.cc:173`); every use masks.

The unit and the core:
* A conditional branch predicted taken without a known target is fetched as not taken; if it is not
  taken, it commits as taken (`bpred_unit.cc:243`). `TrainsOutcomeIfKept` states when this cannot be.
* A call that is corrected to taken is never pushed. An empty way of the indirect predictor has tag 0
  and no valid bit, so a branch with tag 0 hits it.
* The zero register of the float map is built with the class of integers (`rename_map.cc:70`).
* `removeFromHistory` decrements the iterator of the first element of a list, which works because
  the library's lists are circular.

### Bounds

`MaxSeqNum` bounds what is fetched in a behaviour and `MaxInFlight` the branches of a thread in
flight (the ROB). Every property of the unit relates at most a branch, those fetched after it and
the state before it; three or four fetched branches with two or three in flight give every order of
predict, correct, squash and commit among them. RAS, BTB, indirect and history sizes are the smallest
at which entries alias and structures wrap; the second local predictor is smaller than the first so
that a confusion of the two masks shows. Counters have one bit in the predictor runs, so that each
training flips a prediction. `CommitWidth` 2 lets one `update` retire several branches; it is 1 in
the predictor runs, where each step must map to one of `EnsembleVote`. `vote` has no bound but the
number of branches in flight.

In the core, `o3` has two instructions per cycle and four in all: two redirects in one cycle, a
redirect under way while another is found, and a squash of the reorder buffer (one entry per cycle)
that overlaps both. `o3_flow` has one per cycle and queues of one, so that every stage blocks.
The skid buffers of decode and rename fill up there. That of IEW does not, as one entry in the reorder
buffer allows one instruction on its way; with two to four entries and up to six instructions (larger
instances, not among the runs) it holds two at most, one less than
the code makes room for.
`MaxHindrances` bounds how often the surroundings get in the way; it does not bound how long an
instruction waits to issue. `rename` has two spare registers for three instructions with up to two
destinations, so that the list runs empty; the proofs have no bounds.

Once all that may be fetched is fetched, ticks and commits of other instructions go on, so nothing
deadlocks.

### Fairness

`vote_lone` assumes that fetch goes on (weak fairness of `Fetch`) and that a branch in flight is
committed if it can be again and again (strong fairness of `Commit`: squashes come in between, and a
core in which every branch is squashed for ever makes no progress at all).

`o3_flow` assumes `Ticks`, the cycle goes on, as `FullO3CPU::tick` schedules itself again while there
is activity; and `Issues`, an instruction queue that holds instructions again and again issues again
and again, as its oldest instruction waits for no other. Both are stated as formulas on states,
which say what weak fairness of the one action enabled at each stage, and of issuing, would. The
bound on hindrances is part of the claim: a core that is hindered for ever need not drain.

## What is proved

`EnsembleVoteProofs` proves, for every counter size `MaxWeight`, every `MaxWeightSum` that two
saturated weights can reach (`WeightAssumption`), and any number of branches in flight:

* `TypeCorrect`: `Spec => []TypeOK`. The saturation in `moved` is the reason.
* `WeightSumCorrect`: `Spec => []WeightSumBounded`. The bound is inductive with `TypeOK`. A commit
  rewards at most two experts if one is punished; if the sum after learning is above
  `MaxWeightSum`, the adjustment takes back from the losers. The lemmas take the three experts by
  their role, and `RetrainedSwap` reduces the eight cases of votes to a few by symmetry.
* `RewardsCorrect` and `ConservesCorrect`: the action properties, from `TypeOK` alone.

`BPredUnitProofs` proves about the unit, for any direction predictor (the CONSTANT operators are
uninterpreted), any instructions, threads and sizes, and with no assumption on the constants:

* `PredHistCorrect`: `Spec => []PredHistMatchesWindow`.
* `CorrectionCorrect`: `Spec => []CorrectionFindsBranch`, the assert of `squash`.

The inductive invariant `IInv` says that the records and the branches in flight of every thread are
`Aligned`. It is stronger than `PredHistMatchesWindow` in two ways. The numbers grow between any two
branches, not only neighbours, so that the place at which `squash` and `update` cut the deque can be
computed without induction (`LeftAt`, `LeftSame`, `RetiredAt`). And the records have the fields that
corrections must keep. The steps reduce to four facts about aligned sequences, in
`AlignmentLemmas`: appending a branch, keeping a prefix, dropping a prefix, and replacing the last.

`RenameMapsProofs` proves about the register maps, for any number of threads, architectural and
physical registers, destinations and instructions, and any zero register, from `RegsAssumption` (the
constructor's assertion that the architectural registers fit):

* `NeverTwice`, `NeverLost`: `Spec => []NoRegisterTwice` and `Spec => []NoRegisterLost`.
* `ArchitecturalStateKept`: `Spec => []CommitMapKept`.
* `OperandsKept`: `Spec => []SourcesKept`.

None of them is inductive. The invariant `IInv` (`RenameMapsInv`) adds what the code relies on
without saying so:

* `Ordered`: a history buffer is in the order of its instructions, and those of committed
  instructions come first. Hence a squash, which walks from the newest, never undoes a committed
  rename, and commit, from the oldest, never retires another.
* `Told`: what commit tells a thread agrees with what it has committed and left in the reorder buffer.
* `Renaming`: an instruction that is being renamed has been granted all the registers it needs.
* `Chained`: the register a rename allocated is where the next rename of the same architectural
  register, or the map, has it. So undoing renames newest first frees registers nothing else holds.
* `CommitChained`: for each architectural register, the commit map has what the map has, or what the
  first rename that did not commit will restore.
* `SourceHeld`: the register an instruction reads is mapped, or a rename no older than it would
  restore it.

`RenameMapsCommit` proves the steps of commit, `RenameMapsRename` those that rename,
`RenameMapsHistory` the undoing, and `RenameMapsProofs` the retiring and the theorems.

Only model-checked: the RAS, the path history, what is trained, the ownership of `BPHistory` objects
and the predictors' histories (their undoing is a fold over the squashed branches, and facts about
folds need induction, which the provers cannot do), the pipeline, the refinement of the vote, and
liveness.

## Not modelled

* `LTAGE`: folded histories and hashed tables of many geometric lengths. What folding and hashing get
  right or wrong shows only at table sizes TLC cannot enumerate.
* SimpleCPU and Minor as clients. SimpleCPU has at most one branch in flight, and Minor is another
  pipeline with its own protocol.
* Of the O3 core: several threads in the pipeline (the register maps have them), serializing and
  non-speculative instructions, the load/store queue's search for violations, interrupts, draining
  and switching of CPUs, write-back to physical registers.
* The rest of gem5 (ISAs, memory system, devices, Ruby, the event queue, the build and its
  configuration), which is by far the largest part of the repository: it has no part in prediction.
  The models cover a small share of the repository's lines for this reason.
* Benchmarks, run scripts and results: data.
