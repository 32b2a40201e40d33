----------------------------- MODULE RenameMaps -----------------------------
(***************************************************************************)
(* The register maps of the out-of-order core: the rename map and the      *)
(* commit map of every thread, the free list the threads share and the     *)
(* history buffers by which rename undoes and retires its renames          *)
(* (rename_map.cc, free_list.hh, rename_impl.hh, commit_impl.hh).          *)
(*                                                                         *)
(* Rename ticks, then commit; commit's word to a thread is read by rename  *)
(* in the next cycle.  In each tick the threads take turns, and a step is  *)
(* one turn of a loop of the code; phase and tid say which loop runs, so   *)
(* nothing comes between the steps of a tick.  phase "rename" is the loop  *)
(* over checkSignalsAndUpdate and rename, "history" the one over           *)
(* removeFromHistory, "commit" commit's tick.                              *)
(*                                                                         *)
(* One class of registers stands for all: each has a map and a list of its *)
(* own.  A physical register is its index.  rob holds the instructions     *)
(* that were renamed and not committed, with a register they read;         *)
(* committed counts the entries of a history buffer whose instruction      *)
(* committed.                                                              *)
(***************************************************************************)
EXTENDS Integers, Sequences

CONSTANTS
  NumThreads,         \* numThreads
  NumRegs,            \* TheISA::NumIntRegs
  NumPhysRegs,        \* numPhysIntRegs
  ZeroReg,            \* TheISA::ZeroReg
  MaxDestRegs,        \* destinations an instruction may have
  MaxSeqNum           \* bound: instructions renamed

(* The constructor of FullO3CPU asserts that the architectural registers fit. *)
ASSUME RegsAssumption ==
  /\ NumThreads \in Nat \ {0} /\ NumRegs \in Nat \ {0} /\ NumPhysRegs \in Nat
  /\ NumPhysRegs >= NumThreads * NumRegs
  /\ MaxDestRegs \in Nat /\ MaxSeqNum \in Nat

Threads  == 1..NumThreads
Regs     == 0..(NumRegs - 1)
PhysRegs == 0..(NumPhysRegs - 1)

VARIABLES phase, tid, globalSeqNum, destsLeft, renameMap, commitMap, freeList,
          historyBuffer, committed, lastCommitedSeqNum, rob, fromCommit

vars == <<phase, tid, globalSeqNum, destsLeft, renameMap, commitMap, freeList,
          historyBuffer, committed, lastCommitedSeqNum, rob, fromCommit>>

RenameHistory == [instSeqNum : 1..MaxSeqNum, archReg : Regs, newPhysReg : PhysRegs,
                  prevPhysReg : PhysRegs]

Insts == [seqNum : 1..MaxSeqNum, srcReg : PhysRegs]

Words == [squash : BOOLEAN, doneSeqNum : 0..MaxSeqNum]

Silence == [squash |-> FALSE, doneSeqNum |-> 0]

(* The constructor takes the first registers of the list, thread by thread. *)
initialReg(t, a) == (t - 1) * NumRegs + a

Init ==
  /\ phase = "rename" /\ tid = 1 /\ globalSeqNum = 0 /\ destsLeft = 0
  /\ renameMap = [t \in Threads |-> [a \in Regs |-> initialReg(t, a)]]
  /\ commitMap = renameMap
  /\ freeList = [i \in 1..(NumPhysRegs - NumThreads * NumRegs) |->
                   NumThreads * NumRegs + i - 1]
  /\ historyBuffer = [t \in Threads |-> <<>>] /\ rob = [t \in Threads |-> <<>>]
  /\ committed = [t \in Threads |-> 0] /\ lastCommitedSeqNum = [t \in Threads |-> 0]
  /\ fromCommit = [t \in Threads |-> Silence]

(* The next thread's turn, or the first's in the loop that follows. *)
turnEnds(following) ==
  IF tid < NumThreads THEN tid' = tid + 1 /\ phase' = phase
                      ELSE tid' = 1 /\ phase' = following

lastOf(q)  == q[Len(q)]
frontOf(q) == SubSeq(q, 1, Len(q) - 1)
-----------------------------------------------------------------------------
(* A squash that puts no register back on the list. *)
DoSquashLosing ==
  /\ phase = "rename" /\ fromCommit[tid].squash /\ historyBuffer[tid] # <<>>
  /\ lastOf(historyBuffer[tid]).instSeqNum > fromCommit[tid].doneSeqNum
  /\ LET e == lastOf(historyBuffer[tid])
     IN  renameMap' = [renameMap EXCEPT ![tid][e.archReg] = e.prevPhysReg]
  /\ historyBuffer' = [historyBuffer EXCEPT ![tid] = frontOf(@)]
  /\ UNCHANGED <<phase, tid, globalSeqNum, destsLeft, commitMap, freeList, committed,
                 lastCommitedSeqNum, rob, fromCommit>>

(* doSquash: one entry younger than the squash, the newest first. *)
undoing == /\ fromCommit[tid].squash /\ historyBuffer[tid] # <<>>
           /\ lastOf(historyBuffer[tid]).instSeqNum > fromCommit[tid].doneSeqNum

DoSquash ==
  /\ phase = "rename" /\ undoing
  /\ LET e == lastOf(historyBuffer[tid])
     IN  /\ renameMap' = [renameMap EXCEPT ![tid][e.archReg] = e.prevPhysReg]
         /\ freeList' = IF e.newPhysReg # e.prevPhysReg
                        THEN Append(freeList, e.newPhysReg) ELSE freeList
         /\ historyBuffer' = [historyBuffer EXCEPT ![tid] = frontOf(@)]
  /\ UNCHANGED <<phase, tid, globalSeqNum, destsLeft, commitMap, committed,
                 lastCommitedSeqNum, rob, fromCommit>>

(* The operand looked up in the commit map. *)
RenameSrcRegsCommitted ==
  /\ phase = "rename" /\ ~fromCommit[tid].squash /\ destsLeft = 0
  /\ globalSeqNum < MaxSeqNum /\ globalSeqNum' = globalSeqNum + 1
  /\ \E n \in 0..MaxDestRegs, a \in Regs :
       /\ n <= Len(freeList)
       /\ destsLeft' = n
       /\ rob' = [rob EXCEPT ![tid] = Append(@, [seqNum |-> globalSeqNum + 1,
                                                 srcReg |-> commitMap[tid][a]])]
  /\ UNCHANGED <<phase, tid, renameMap, commitMap, freeList, historyBuffer, committed,
                 lastCommitedSeqNum, fromCommit>>

(* renameInsts takes an instruction with n destinations once the list has enough
   registers; renameSrcRegs looks up a register it reads. *)
RenameSrcRegs ==
  /\ phase = "rename" /\ ~fromCommit[tid].squash /\ destsLeft = 0
  /\ globalSeqNum < MaxSeqNum /\ globalSeqNum' = globalSeqNum + 1
  /\ \E n \in 0..MaxDestRegs, a \in Regs :
       /\ n <= Len(freeList)
       /\ destsLeft' = n
       /\ rob' = [rob EXCEPT ![tid] = Append(@, [seqNum |-> globalSeqNum + 1,
                                                 srcReg |-> renameMap[tid][a]])]
  /\ UNCHANGED <<phase, tid, renameMap, commitMap, freeList, historyBuffer, committed,
                 lastCommitedSeqNum, fromCommit>>

(* renameDestRegs: one destination. *)
RenameDestRegs ==
  /\ phase = "rename" /\ destsLeft > 0 /\ destsLeft' = destsLeft - 1
  /\ \E a \in Regs :
       LET prev == renameMap[tid][a]
           new  == IF a # ZeroReg THEN Head(freeList) ELSE prev
       IN  /\ renameMap' = [renameMap EXCEPT ![tid][a] = new]
           /\ freeList' = IF a # ZeroReg THEN Tail(freeList) ELSE freeList
           /\ historyBuffer' = [historyBuffer EXCEPT ![tid] =
                Append(@, [instSeqNum |-> globalSeqNum, archReg |-> a,
                           newPhysReg |-> new, prevPhysReg |-> prev])]
  /\ UNCHANGED <<phase, tid, globalSeqNum, commitMap, committed, lastCommitedSeqNum,
                 rob, fromCommit>>

(* The turn of a thread ends when its squash is done, and otherwise at any
   instruction: there are no more, the stage is blocked or its width is used. *)
RenameEnds ==
  /\ phase = "rename" /\ ~undoing /\ destsLeft = 0
  /\ turnEnds("history")
  /\ UNCHANGED <<globalSeqNum, destsLeft, renameMap, commitMap, freeList, historyBuffer,
                 committed, lastCommitedSeqNum, rob, fromCommit>>
-----------------------------------------------------------------------------
(* Entries removed whether or not their instruction committed. *)
removingAny == /\ fromCommit[tid].doneSeqNum # 0 /\ ~fromCommit[tid].squash
               /\ historyBuffer[tid] # <<>>

(* The new register freed in place of the old one. *)
RemoveFromHistoryNew ==
  /\ phase = "history"
  /\ fromCommit[tid].doneSeqNum # 0 /\ ~fromCommit[tid].squash
  /\ historyBuffer[tid] # <<>>
  /\ Head(historyBuffer[tid]).instSeqNum <= fromCommit[tid].doneSeqNum
  /\ freeList' = Append(freeList, Head(historyBuffer[tid]).newPhysReg)
  /\ historyBuffer' = [historyBuffer EXCEPT ![tid] = Tail(@)]
  /\ committed' = [committed EXCEPT ![tid] = @ - 1]
  /\ UNCHANGED <<phase, tid, globalSeqNum, destsLeft, renameMap, commitMap,
                 lastCommitedSeqNum, rob, fromCommit>>

(* removeFromHistory: one entry that committed, the oldest first. *)
removing == /\ fromCommit[tid].doneSeqNum # 0 /\ ~fromCommit[tid].squash
            /\ historyBuffer[tid] # <<>>
            /\ Head(historyBuffer[tid]).instSeqNum <= fromCommit[tid].doneSeqNum

RemoveFromHistory ==
  /\ phase = "history" /\ removing
  /\ LET e == Head(historyBuffer[tid])
     IN  freeList' = IF e.newPhysReg # e.prevPhysReg
                     THEN Append(freeList, e.prevPhysReg) ELSE freeList
  /\ historyBuffer' = [historyBuffer EXCEPT ![tid] = Tail(@)]
  /\ committed' = [committed EXCEPT ![tid] = @ - 1]
  /\ UNCHANGED <<phase, tid, globalSeqNum, destsLeft, renameMap, commitMap,
                 lastCommitedSeqNum, rob, fromCommit>>

HistoryEnds ==
  /\ phase = "history" /\ ~removing
  /\ turnEnds("commit")
  /\ fromCommit' = [fromCommit EXCEPT ![tid] = Silence]
  /\ UNCHANGED <<globalSeqNum, destsLeft, renameMap, commitMap, freeList, historyBuffer,
                 committed, lastCommitedSeqNum, rob>>
-----------------------------------------------------------------------------
(* commitHead retires an instruction, whose destinations it then enters in the
   commit map one by one. *)
entering == /\ committed[tid] < Len(historyBuffer[tid])
            /\ historyBuffer[tid][committed[tid] + 1].instSeqNum <= lastCommitedSeqNum[tid]

CommitHead ==
  /\ phase = "commit" /\ ~entering /\ ~fromCommit[tid].squash /\ rob[tid] # <<>>
  /\ LET sn == Head(rob[tid]).seqNum
     IN  /\ lastCommitedSeqNum' = [lastCommitedSeqNum EXCEPT ![tid] = sn]
         /\ fromCommit' = [fromCommit EXCEPT ![tid].doneSeqNum = sn]
  /\ rob' = [rob EXCEPT ![tid] = Tail(@)]
  /\ UNCHANGED <<phase, tid, globalSeqNum, destsLeft, renameMap, commitMap, freeList,
                 historyBuffer, committed>>

CommitSetEntry ==
  /\ phase = "commit" /\ entering
  /\ LET e == historyBuffer[tid][committed[tid] + 1]
     IN  commitMap' = [commitMap EXCEPT ![tid][e.archReg] = e.newPhysReg]
  /\ committed' = [committed EXCEPT ![tid] = @ + 1]
  /\ UNCHANGED <<phase, tid, globalSeqNum, destsLeft, renameMap, freeList, historyBuffer,
                 lastCommitedSeqNum, rob, fromCommit>>

(* The sequence number of a violating load decremented twice. *)
SquashTwoBefore ==
  /\ phase = "commit" /\ fromCommit[tid] = Silence
  /\ \E i \in 1..Len(rob[tid]) :
       /\ fromCommit' = [fromCommit EXCEPT ![tid] =
                           [squash |-> TRUE, doneSeqNum |-> rob[tid][i].seqNum - 2]]
       /\ rob' = [rob EXCEPT ![tid] = SubSeq(@, 1, i - 1)]
  /\ UNCHANGED <<phase, tid, globalSeqNum, destsLeft, renameMap, commitMap, freeList,
                 historyBuffer, committed, lastCommitedSeqNum>>

(* A squash keeps the instructions up to sn, the first n: a mispredicted branch, the
   one before a violating load, or none that has not committed.  Nothing commits in
   the cycle of a squash. *)
Squash ==
  /\ phase = "commit" /\ fromCommit[tid] = Silence
  /\ LET robNums == {rob[tid][i].seqNum : i \in 1..Len(rob[tid])}
     IN  \E sn \in {lastCommitedSeqNum[tid]} \cup robNums \cup {s - 1 : s \in robNums},
            n \in 0..Len(rob[tid]) :
           /\ \A i \in 1..Len(rob[tid]) : rob[tid][i].seqNum <= sn <=> i <= n
           /\ fromCommit' = [fromCommit EXCEPT ![tid] = [squash |-> TRUE, doneSeqNum |-> sn]]
           /\ rob' = [rob EXCEPT ![tid] = SubSeq(@, 1, n)]
  /\ UNCHANGED <<phase, tid, globalSeqNum, destsLeft, renameMap, commitMap, freeList,
                 historyBuffer, committed, lastCommitedSeqNum>>

CommitEnds ==
  /\ phase = "commit" /\ ~entering
  /\ turnEnds("rename")
  /\ UNCHANGED <<globalSeqNum, destsLeft, renameMap, commitMap, freeList, historyBuffer,
                 committed, lastCommitedSeqNum, rob, fromCommit>>

Next ==
  \/ DoSquash \/ RenameSrcRegs \/ RenameDestRegs \/ RenameEnds
  \/ RemoveFromHistory \/ HistoryEnds
  \/ CommitHead \/ CommitSetEntry \/ Squash \/ CommitEnds

Spec == Init /\ [][Next]_vars
-----------------------------------------------------------------------------
(* Maps, lists and buffers hold physical registers that exist, and what commit tells
   rename (doneSeqNum) is the number of an instruction, or 0. *)
TypeOK ==
  /\ phase \in {"rename", "history", "commit"} /\ tid \in Threads
  /\ globalSeqNum \in 0..MaxSeqNum /\ destsLeft \in 0..MaxDestRegs
  /\ renameMap \in [Threads -> [Regs -> PhysRegs]]
  /\ commitMap \in [Threads -> [Regs -> PhysRegs]]
  /\ freeList \in Seq(PhysRegs)
  /\ historyBuffer \in [Threads -> Seq(RenameHistory)]
  /\ rob \in [Threads -> Seq(Insts)]
  /\ committed \in [Threads -> Int] /\ lastCommitedSeqNum \in [Threads -> 0..MaxSeqNum]
  /\ fromCommit \in [Threads -> Words]

(* The places a physical register can be in: free, mapped, or kept by an entry of
   a history buffer that may still be undone. *)
free == {freeList[i] : i \in 1..Len(freeList)}

kept(t, k) == /\ k \in 1..Len(historyBuffer[t])
              /\ historyBuffer[t][k].newPhysReg # historyBuffer[t][k].prevPhysReg

prevReg(t, k) == historyBuffer[t][k].prevPhysReg

(* No physical register is ever in two places: rename, squash and commit hand each
   one on, and a list that threads share gives none to two of them. *)
NoRegisterTwice ==
  /\ \A i, j \in 1..Len(freeList) : freeList[i] = freeList[j] => i = j
  /\ \A t, u \in Threads : \A a, b \in Regs :
       renameMap[t][a] = renameMap[u][b] => t = u /\ a = b
  /\ \A t, u \in Threads : \A k \in 1..Len(historyBuffer[t]), m \in 1..Len(historyBuffer[u]) :
       kept(t, k) /\ kept(u, m) /\ prevReg(t, k) = prevReg(u, m) => t = u /\ k = m
  /\ \A t \in Threads : \A a \in Regs : renameMap[t][a] \notin free
  /\ \A t \in Threads : \A k \in 1..Len(historyBuffer[t]) :
       kept(t, k) => /\ prevReg(t, k) \notin free
                     /\ \A u \in Threads : \A a \in Regs : renameMap[u][a] # prevReg(t, k)

(* No physical register is lost: what is neither mapped nor free can still be
   undone, and goes back to the list when that is over. *)
NoRegisterLost ==
  \A p \in PhysRegs :
    \/ p \in free
    \/ \E t \in Threads : \E a \in Regs : renameMap[t][a] = p
    \/ \E t \in Threads : \E k \in 1..Len(historyBuffer[t]) : kept(t, k) /\ prevReg(t, k) = p

(* The architectural state survives speculation: a register of the commit map, by
   which a thread context reads, is on no free list; and once the renames that did
   not commit are undone, the rename map is the commit map. *)
CommitMapKept ==
  \A t \in Threads :
    /\ \A a \in Regs : commitMap[t][a] \notin free
    /\ committed[t] = Len(historyBuffer[t]) => renameMap[t] = commitMap[t]

(* An instruction finds its operand: while it has not committed, the register it
   reads is not free, and none that follows it writes to it. *)
SourcesKept ==
  \A t \in Threads : \A i \in 1..Len(rob[t]) :
    /\ rob[t][i].srcReg \notin free
    /\ \A u \in Threads : \A k \in 1..Len(historyBuffer[u]) :
         /\ kept(u, k) /\ historyBuffer[u][k].newPhysReg = rob[t][i].srcReg
         => u = t /\ historyBuffer[u][k].instSeqNum < rob[t][i].seqNum

(* The assertion of SimpleRenameMap::rename: what a zero register is mapped to is
   a zero register, that is, one whose index is ZeroReg. *)
ZeroRegAsserted ==
  \A t \in Threads : \A k \in 1..Len(historyBuffer[t]) :
    historyBuffer[t][k].archReg = ZeroReg => historyBuffer[t][k].prevPhysReg = ZeroReg
=============================================================================
