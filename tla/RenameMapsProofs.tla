------------------------- MODULE RenameMapsProofs ---------------------------
(***************************************************************************)
(* The inductive invariant is kept when a rename is retired, and so by every*)
(* step; with it, the properties of the register maps hold for any number of*)
(* threads, registers and instructions.                                    *)
(***************************************************************************)
EXTENDS RenameMapsCommit, RenameMapsRename, RenameMapsHistory

(* Retiring one rename (removeFromHistory) keeps the invariant. *)
LEMMA RemoveFromHistoryInv == ASSUME IInv, RemoveFromHistory PROVE IInv'
<1> DEFINE e == entry(tid, 1)
<1>1. /\ TypeOK /\ phase = "history" /\ fromCommit[tid].doneSeqNum # 0 /\ ~fromCommit[tid].squash
      /\ historyBuffer[tid] # <<>>
      /\ Head(historyBuffer[tid]).instSeqNum <= fromCommit[tid].doneSeqNum
      /\ UNCHANGED <<phase, tid, globalSeqNum, destsLeft, renameMap, commitMap,
                     lastCommitedSeqNum, rob, fromCommit>>
  BY DEF IInv, RemoveFromHistory, removing
<1>2. /\ tid \in Threads /\ historyBuffer[tid] \in Seq(RenameHistory)
      /\ historyBuffer'[tid] = Tail(historyBuffer[tid])
      /\ committed'[tid] = committed[tid] - 1 /\ committed[tid] \in Int
      /\ \A t \in Threads \ {tid} :
           historyBuffer'[t] = historyBuffer[t] /\ committed'[t] = committed[t]
  BY <1>1, Typed DEF RemoveFromHistory, TypeOK
<1>3. /\ Head(historyBuffer[tid]) = e /\ e \in RenameHistory /\ 1 \in entries(tid)
      /\ Len(historyBuffer[tid]) \in Nat \ {0}
      /\ historyBuffer'[tid] \in Seq(RenameHistory)
      /\ Len(historyBuffer'[tid]) = Len(historyBuffer[tid]) - 1
      /\ \A k \in 1..Len(historyBuffer'[tid]) :
           k + 1 \in 1..Len(historyBuffer[tid]) /\ historyBuffer'[tid][k] = historyBuffer[tid][k + 1]
  BY <1>1, <1>2, Tailed DEF entry, entries
<1>4. /\ e.archReg \in Regs /\ e.newPhysReg \in PhysRegs /\ e.prevPhysReg \in PhysRegs
      /\ e.instSeqNum \in Nat /\ e.instSeqNum <= lastCommitedSeqNum[tid]
      /\ lastCommitedSeqNum[tid] \in Nat
  BY <1>1, <1>2, <1>3, Typed DEF RenameHistory, IInv, Told, ToldThread
<1>5. /\ kept(tid, 1) <=> e.newPhysReg # e.prevPhysReg
      /\ prevReg(tid, 1) = e.prevPhysReg
      /\ kept(tid, 1) =>
           /\ e.prevPhysReg \notin free
           /\ \A t \in Threads : \A a \in Regs : renameMap[t][a] # e.prevPhysReg
           /\ \A t \in Threads : \A k \in entries(t) :
                kept(t, k) /\ prevReg(t, k) = e.prevPhysReg => t = tid /\ k = 1
  <2>1. kept(tid, 1) <=> e.newPhysReg # e.prevPhysReg
    BY <1>3 DEF kept, entry, entries
  <2>2. prevReg(tid, 1) = e.prevPhysReg
    BY DEF prevReg, entry
  <2> QED BY <1>2, <1>3, <2>1, <2>2 DEF IInv, NoRegisterTwice, entries
<1>6. freeList' = IF e.newPhysReg # e.prevPhysReg THEN Append(freeList, e.prevPhysReg) ELSE freeList
  BY <1>3 DEF RemoveFromHistory
<1> HIDE DEF e
<1>7. IF e.newPhysReg # e.prevPhysReg
      THEN /\ free' = free \cup {e.prevPhysReg} /\ freeList' \in Seq(PhysRegs)
           /\ \A i, j \in 1..Len(freeList') : freeList'[i] = freeList'[j] => i = j
      ELSE freeList' = freeList /\ free' = free
  <2>1. CASE e.newPhysReg # e.prevPhysReg
    BY <1>1, <1>4, <1>5, <1>6, <2>1, FreeAppended, SMTT(30) DEF IInv, NoRegisterTwice, TypeOK
  <2>2. CASE e.newPhysReg = e.prevPhysReg
    BY <1>6, <2>2 DEF free
  <2> QED BY <2>1, <2>2
(* Where an entry was. *)
<1> DEFINE was(t, k) == IF t = tid THEN k + 1 ELSE k
<1>8. ASSUME NEW t \in Threads, NEW k \in entries(t)'
      PROVE  /\ k \in Nat /\ was(t, k) \in entries(t) /\ ~(t = tid /\ was(t, k) = 1)
             /\ historyBuffer'[t][k] = historyBuffer[t][was(t, k)]
  <2>1. k \in 1..Len(historyBuffer'[t])
    BY <1>8 DEF entries
  <2>2. CASE t = tid
    <3>1. /\ k \in Nat /\ k + 1 \in entries(tid) /\ k + 1 # 1
          /\ historyBuffer'[tid][k] = historyBuffer[tid][k + 1]
      <4>1. k \in 1..Len(historyBuffer'[tid])
        BY <2>1, <2>2
      <4>2. k \in Nat /\ k + 1 # 1
        BY <1>3, <4>1
      <4> QED BY <1>3, <4>1, <4>2 DEF entries
    <3> QED BY <2>2, <3>1
  <2>3. CASE t # tid
    BY <1>2, <2>1, <2>3 DEF entries
  <2> QED BY <2>2, <2>3
<1>9. ASSUME NEW t \in Threads, NEW k \in entries(t)'
      PROVE  /\ kept(t, k)' = kept(t, was(t, k)) /\ entry(t, k)' = entry(t, was(t, k))
             /\ prevReg(t, k)' = prevReg(t, was(t, k))
  <2>1. was(t, k) \in 1..Len(historyBuffer[t]) /\ k \in 1..Len(historyBuffer'[t])
    BY <1>8, <1>9 DEF entries
  <2> HIDE DEF was
  <2> QED BY <1>8, <1>9, <2>1 DEF kept, entry, prevReg
<1>10. ASSUME NEW t \in Threads, NEW k \in entries(t), ~(t = tid /\ k = 1)
       PROVE  \E m \in entries(t)' : was(t, m) = k
  <2>1. CASE t = tid
    <3>1. k - 1 \in 1..Len(historyBuffer'[tid]) /\ (k - 1) + 1 = k /\ k \in Nat
      BY <1>3, <1>10, <2>1 DEF entries
    <3> QED BY <1>1, <2>1, <3>1 DEF entries
  <2>2. CASE t # tid
    BY <1>2, <1>10, <2>2 DEF entries
  <2> QED BY <2>1, <2>2
<1>11. committed[tid] >= 1
  BY <1>1, <1>2, <1>3, <1>4 DEF IInv, Ordered, OrderedThread, e
<1>12. TypeOK'
  <2>1. historyBuffer' \in [Threads -> Seq(RenameHistory)]
    BY <1>1, <1>2, <1>3 DEF TypeOK, RemoveFromHistory
  <2>2. committed' \in [Threads -> Int]
    BY <1>1, <1>2 DEF TypeOK, RemoveFromHistory
  <2> QED BY <1>1, <1>7, <2>1, <2>2 DEF TypeOK
<1>13. Ordered'
  <2>1. OrderedThread(tid)'
    <3>1. /\ OrderedThread(tid) /\ committed[tid] \in Int
          /\ \A k \in entries(tid) : entry(tid, k).instSeqNum \in Nat
      BY <1>1, <1>2, Typed DEF IInv, Ordered, entry, entries
    <3>2. \A k \in entries(tid)' :
            k \in Nat /\ k + 1 \in entries(tid) /\ entry(tid, k)' = entry(tid, k + 1)
      BY <1>1, <1>2, <1>8, <1>9
    <3>3. committed'[tid] \in 0..Len(historyBuffer'[tid])
      BY <1>2, <1>3, <1>11, <3>1 DEF OrderedThread
    <3>4. \A k \in Nat : /\ k <= committed'[tid] => k + 1 <= committed[tid]
                         /\ k > committed'[tid] => k + 1 > committed[tid]
      BY <1>2
    <3> QED BY <1>1, <3>1, <3>2, <3>3, <3>4, SMTT(30) DEF OrderedThread
  <2>2. \A t \in Threads \ {tid} : OrderedThread(t)'
    BY <1>1, <1>2, Zenon DEF IInv, Ordered, OrderedThread, entry, entries
  <2> QED BY <1>1, <2>1, <2>2 DEF Ordered
<1>14. Told'
  BY <1>1 DEF IInv, Told, ToldThread
<1>15. Renaming'
  BY <1>1, Sizes DEF IInv, TypeOK, Renaming
<1>16. \A t \in Threads : \A j \in Nat, k \in Nat : was(t, j) = was(t, k) => j = k
  OBVIOUS
<1>17. \A t \in Threads : \A j \in Nat, k \in Nat : was(t, j) < was(t, k) => j < k
  OBVIOUS
<1>18. \A t \in Threads : \A k \in Nat :
         /\ committed'[t] \in Int /\ committed[t] \in Int
         /\ k > committed'[t] <=> was(t, k) > committed[t]
  BY <1>1, <1>2, Typed
<1> HIDE DEF was
<1>19. NoRegisterTwice'
  <2>1. \A i, j \in 1..Len(freeList') : freeList'[i] = freeList'[j] => i = j
    BY <1>7 DEF IInv, NoRegisterTwice
  <2>2. \A t, u \in Threads : \A a, b \in Regs :
          renameMap'[t][a] = renameMap'[u][b] => t = u /\ a = b
    BY <1>1 DEF IInv, NoRegisterTwice
  <2>3. ASSUME NEW t \in Threads, NEW u \in Threads, NEW k \in entries(t)', NEW m \in entries(u)',
               kept(t, k)', kept(u, m)', prevReg(t, k)' = prevReg(u, m)'
        PROVE  t = u /\ k = m
    <3>1. t = u /\ was(t, k) = was(u, m)
      BY <1>8, <1>9, <2>3, SMTT(30) DEF IInv, NoRegisterTwice, entries
    <3> QED BY <1>8, <1>16, <2>3, <3>1
  <2>4. \A t \in Threads : \A a \in Regs : renameMap'[t][a] \notin free'
    BY <1>1, <1>5, <1>7 DEF IInv, NoRegisterTwice
  <2>5. ASSUME NEW t \in Threads, NEW k \in entries(t)', kept(t, k)'
        PROVE  /\ prevReg(t, k)' \notin free'
               /\ \A u \in Threads : \A a \in Regs : renameMap'[u][a] # prevReg(t, k)'
    <3> DEFINE w == was(t, k)
    <3>1. /\ w \in entries(t) /\ kept(t, w) /\ prevReg(t, k)' = prevReg(t, w) /\ ~(t = tid /\ w = 1)
      BY <1>8, <1>9, <2>5
    <3>2. /\ prevReg(t, w) \notin free
          /\ \A u \in Threads : \A a \in Regs : renameMap[u][a] # prevReg(t, w)
      BY <3>1 DEF IInv, NoRegisterTwice, entries
    <3> HIDE DEF w
    <3> QED BY <1>1, <1>5, <1>7, <3>1, <3>2
  <2> QED BY <2>1, <2>2, <2>3, <2>4, <2>5 DEF NoRegisterTwice, entries
<1>20. NoRegisterLost'
  <2> SUFFICES ASSUME NEW p \in PhysRegs
               PROVE  \/ p \in free'
                      \/ \E t \in Threads : \E a \in Regs : renameMap'[t][a] = p
                      \/ \E t \in Threads : \E k \in entries(t)' : kept(t, k)' /\ prevReg(t, k)' = p
    BY DEF NoRegisterLost, entries
  <2>1. CASE p \in free
    BY <1>7, <2>1
  <2>2. CASE \E t \in Threads : \E a \in Regs : renameMap[t][a] = p
    BY <1>1, <2>2
  <2>3. ASSUME NEW t \in Threads, NEW k \in entries(t), kept(t, k), prevReg(t, k) = p
        PROVE  \/ p \in free'
               \/ \E u \in Threads : \E m \in entries(u)' : kept(u, m)' /\ prevReg(u, m)' = p
    <3>1. CASE t = tid /\ k = 1
      BY <1>5, <1>7, <2>3, <3>1
    <3>2. CASE ~(t = tid /\ k = 1)
      BY <1>9, <1>10, <2>3, <3>2
    <3> QED BY <3>1, <3>2
  <2> QED BY <2>1, <2>2, <2>3 DEF IInv, NoRegisterLost, entries
<1>21. Chained'
  <2>1. ASSUME NEW t \in Threads, NEW k \in entries(t)'
        PROVE  ChainedEntry(t, k)'
    <3> DEFINE w == was(t, k)
    <3>1. /\ w \in entries(t) /\ ChainedEntry(t, w) /\ kept(t, k)' = kept(t, w) /\ k \in Nat
          /\ entry(t, k)' = entry(t, w)
      BY <1>8, <1>9, <2>1 DEF IInv, Chained
    <3>2. ~kept(t, w) => entry(t, w).newPhysReg = renameMap[t][entry(t, w).archReg]
      BY <3>1 DEF ChainedEntry
    <3>3. ASSUME NEW m \in entries(t), w < m, kept(t, m), entry(t, m).archReg = entry(t, w).archReg,
                 entry(t, m).prevPhysReg = entry(t, w).newPhysReg
          PROVE  \E q \in entries(t)' : /\ k < q /\ kept(t, q)'
                                       /\ entry(t, q)'.archReg = entry(t, w).archReg
                                       /\ entry(t, q)'.prevPhysReg = entry(t, w).newPhysReg
      <4>1. ~(t = tid /\ m = 1)
        BY <1>2, <3>1, <3>3, Typed DEF entries
      <4>2. PICK q \in entries(t)' : was(t, q) = m
        BY <1>10, <4>1
      <4>3. k < q
        BY <1>8, <1>17, <3>1, <3>3, <4>2
      <4> QED BY <1>9, <3>3, <4>2, <4>3
    <3> HIDE DEF w
    <3> QED BY <1>1, <3>1, <3>2, <3>3, SMTT(30) DEF ChainedEntry
  <2>2. NewOnce'
    <3> SUFFICES ASSUME NEW t \in Threads, NEW u \in Threads, NEW k \in entries(t)',
                        NEW m \in entries(u)', kept(t, k)', kept(u, m)',
                        entry(t, k)'.newPhysReg = entry(u, m)'.newPhysReg
                 PROVE  t = u /\ k = m
      BY DEF NewOnce
    <3>1. t = u /\ was(t, k) = was(u, m)
      BY <1>8, <1>9, SMTT(30) DEF IInv, Chained, NewOnce
    <3> QED BY <1>8, <1>16, <3>1
  <2> QED BY <2>1, <2>2, SMTT(30) DEF Chained
<1>22. CommitChained'
  <2> SUFFICES ASSUME NEW t \in Threads PROVE CommitChainedThread(t)'
    BY DEF CommitChained
  <2>1. CommitChainedThread(t)
    BY DEF IInv, CommitChained
  <2>2. ASSUME NEW a \in Regs, NEW k \in entries(t), k > committed[t], kept(t, k),
               entry(t, k).archReg = a, entry(t, k).prevPhysReg = commitMap[t][a]
        PROVE  \E m \in entries(t)' : /\ m > committed'[t] /\ kept(t, m)' /\ entry(t, m)'.archReg = a
                                     /\ entry(t, m)'.prevPhysReg = commitMap[t][a]
    <3>1. ~(t = tid /\ k = 1)
      BY <1>2, <1>11, <2>2
    <3>2. PICK m \in entries(t)' : was(t, m) = k
      BY <1>10, <3>1
    <3> QED BY <1>8, <1>9, <1>18, <2>2, <3>2, SMTT(30)
  <2>3. ASSUME NEW k \in entries(t)', NEW a \in Regs, k > committed'[t], kept(t, k)'
        PROVE  entry(t, k)'.newPhysReg # commitMap[t][a]
    BY <1>8, <1>9, <1>18, <2>1, <2>3, SMTT(30) DEF CommitChainedThread
  <2> QED BY <1>1, <2>1, <2>2, <2>3 DEF CommitChainedThread
<1>23. SourceHeld'
  <2> SUFFICES ASSUME NEW t \in Threads, NEW i \in 1..Len(rob[t])
               PROVE  Held(t, rob[t][i].seqNum, rob[t][i].srcReg)'
    BY <1>1, SMTT(30) DEF SourceHeld
  <2> DEFINE sn  == rob[t][i].seqNum
             src == rob[t][i].srcReg
  <2>1. Held(t, sn, src) /\ lastCommitedSeqNum[t] < sn /\ sn \in Nat
    BY <1>1, Typed DEF IInv, SourceHeld, Told, ToldThread
  <2>2. ASSUME NEW k \in entries(t), kept(t, k), prevReg(t, k) = src, entry(t, k).instSeqNum >= sn
        PROVE  \E m \in entries(t)' : /\ kept(t, m)' /\ prevReg(t, m)' = src
                                     /\ entry(t, m)'.instSeqNum >= sn
    <3>1. ~(t = tid /\ k = 1)
      BY <1>4, <2>1, <2>2 DEF e
    <3>2. PICK m \in entries(t)' : was(t, m) = k
      BY <1>10, <3>1
    <3> QED BY <1>9, <2>2, <3>2
  <2>3. ASSUME NEW u \in Threads, NEW k \in entries(u)', kept(u, k)', entry(u, k)'.newPhysReg = src
        PROVE  u = t /\ entry(u, k)'.instSeqNum < sn
    BY <1>8, <1>9, <2>1, <2>3 DEF Held
  <2> QED BY <1>1, <2>1, <2>2, <2>3 DEF Held
<1> QED BY <1>12, <1>13, <1>14, <1>15, <1>19, <1>20, <1>21, <1>22, <1>23 DEF IInv
-----------------------------------------------------------------------------
(* Every step keeps the invariant. *)
LEMMA InvStep == IInv /\ [Next]_vars => IInv'
<1> SUFFICES ASSUME IInv, [Next]_vars PROVE IInv'
  OBVIOUS
<1>1. CASE UNCHANGED vars
  <2>1. TypeOK' /\ Ordered' /\ Told' /\ Renaming'
    BY <1>1 DEF IInv, vars, TypeOK, Ordered, OrderedThread, Told, ToldThread, Renaming, entry, entries
  <2>2. SourceHeld'
    BY <1>1, SourcesStay DEF vars
  <2> QED BY <1>1, <2>1, <2>2, RegistersStay, SMTT(30) DEF IInv, vars
<1> QED BY <1>1, DoSquashInv, RenameSrcRegsInv, RenameDestRegsInv, RenameEndsInv,
           RemoveFromHistoryInv, HistoryEndsInv, CommitHeadInv, CommitSetEntryInv, SquashInv,
           CommitEndsInv DEF Next

(* The inductive invariant holds of every behaviour of rename and commit, for any
   number of threads, architectural registers and physical registers. *)
THEOREM Inductive == Spec => []IInv
  BY InvInit, InvStep, PTL DEF Spec

(* No physical register is ever in two places, for any number of threads and
   registers: neither a squash of renames nor their retirement puts a register on
   the free list while it is mapped, kept to be restored, or already there. *)
THEOREM NeverTwice == Spec => []NoRegisterTwice
<1>1. IInv => NoRegisterTwice
  BY DEF IInv
<1> QED BY <1>1, Inductive, PTL

(* No physical register is ever lost, however squashes and commits interleave. *)
THEOREM NeverLost == Spec => []NoRegisterLost
<1>1. IInv => NoRegisterLost
  BY DEF IInv
<1> QED BY <1>1, Inductive, PTL

(* The architectural registers survive every squash: they are never free, and when
   the speculative renames are undone the rename map is the commit map. *)
THEOREM ArchitecturalStateKept == Spec => []CommitMapKept
<1>1. ASSUME IInv PROVE CommitMapKept
  <2>1. ASSUME NEW t \in Threads, committed[t] = Len(historyBuffer[t])
        PROVE  renameMap[t] = commitMap[t]
    <3>1. \A a \in Regs : renameMap[t][a] = commitMap[t][a]
      <4>1. \A k \in entries(t) : ~(k > committed[t])
        BY <1>1, <2>1, Typed DEF entries, IInv
      <4> QED BY <1>1, <4>1, SMTT(30) DEF IInv, CommitChained, CommitChainedThread
    <3>2. renameMap[t] \in [Regs -> PhysRegs] /\ commitMap[t] \in [Regs -> PhysRegs]
      BY <1>1, SMTT(30) DEF IInv, TypeOK
    <3> QED BY <3>1, <3>2, SMTT(30)
  <2> QED BY <1>1, <2>1, CommitMapNotFree DEF CommitMapKept
<1>2. IInv => CommitMapKept
  BY <1>1
<1> QED BY <1>2, Inductive, PTL

(* The register an instruction reads stays its own until it commits: it is not free
   and no younger instruction writes to it. *)
THEOREM OperandsKept == Spec => []SourcesKept
<1>1. ASSUME IInv PROVE SourcesKept
  BY <1>1, SourceNotFree DEF IInv, SourceHeld, Held, SourcesKept, entry, entries
<1>2. IInv => SourcesKept
  BY <1>1
<1> QED BY <1>2, Inductive, PTL
=============================================================================
