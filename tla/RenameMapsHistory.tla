------------------------- MODULE RenameMapsHistory --------------------------
(***************************************************************************)
(* The inductive invariant is kept when a squash undoes a rename.          *)
(***************************************************************************)
EXTENDS RenameMapsInv

(* Undoing one rename (doSquash) keeps the invariant. *)
LEMMA DoSquashInv == ASSUME IInv, DoSquash PROVE IInv'
<1> DEFINE n == Len(historyBuffer[tid])
           e == entry(tid, n)
<1>1. /\ TypeOK /\ phase = "rename" /\ fromCommit[tid].squash /\ historyBuffer[tid] # <<>>
      /\ e.instSeqNum > fromCommit[tid].doneSeqNum
      /\ UNCHANGED <<phase, tid, globalSeqNum, destsLeft, commitMap, committed,
                     lastCommitedSeqNum, rob, fromCommit>>
  BY DEF IInv, DoSquash, undoing, lastOf, entry
<1>2. /\ renameMap' = [renameMap EXCEPT ![tid][e.archReg] = e.prevPhysReg]
      /\ freeList' = IF e.newPhysReg # e.prevPhysReg THEN Append(freeList, e.newPhysReg)
                                                      ELSE freeList
      /\ historyBuffer' = [historyBuffer EXCEPT ![tid] = SubSeq(historyBuffer[tid], 1, n - 1)]
  BY DEF DoSquash, lastOf, frontOf, entry
<1>3. /\ tid \in Threads /\ n \in Nat \ {0} /\ n \in entries(tid) /\ e \in RenameHistory
      /\ e.archReg \in Regs /\ e.newPhysReg \in PhysRegs /\ e.prevPhysReg \in PhysRegs
      /\ e.instSeqNum \in Nat
  <2>1. /\ tid \in Threads /\ historyBuffer[tid] \in Seq(RenameHistory)
    BY <1>1, Typed
  <2>2. n \in Nat \ {0} /\ n \in entries(tid)
    BY <1>1, <2>1 DEF entries
  <2>3. e \in RenameHistory /\ e.instSeqNum \in Nat
    BY <1>1, <2>1, <2>2, Typed DEF entry, entries
  <2> QED BY <2>1, <2>2, <2>3 DEF RenameHistory
<1>4. /\ Len(historyBuffer'[tid]) = n - 1 /\ historyBuffer'[tid] \in Seq(RenameHistory)
      /\ \A k \in 1..(n - 1) : /\ k \in entries(tid) /\ k # n
                                /\ historyBuffer'[tid][k] = historyBuffer[tid][k]
      /\ \A t \in Threads \ {tid} : historyBuffer'[t] = historyBuffer[t]
  <2>1. n - 1 \in 0..Len(historyBuffer[tid]) /\ historyBuffer[tid] \in Seq(RenameHistory)
    BY <1>1, <1>3, Typed
  <2>2. /\ historyBuffer'[tid] = SubSeq(historyBuffer[tid], 1, n - 1)
        /\ \A t \in Threads \ {tid} : historyBuffer'[t] = historyBuffer[t]
    BY <1>1, <1>2, <1>3 DEF TypeOK
  <2> QED BY <1>3, <2>1, <2>2, Cut DEF entries
<1>5. \A t \in Threads : \A k \in 1..Len(historyBuffer'[t]) :
        /\ k \in entries(t) /\ ~(t = tid /\ k = n)
        /\ historyBuffer'[t][k] = historyBuffer[t][k]
  BY <1>3, <1>4, Zenon DEF entries
<1>6. \A t \in Threads : \A k \in entries(t) :
        ~(t = tid /\ k = n) => k \in 1..Len(historyBuffer'[t])
  BY <1>3, <1>4, SMTT(30) DEF entries
<1>7. /\ renameMap' \in [Threads -> [Regs -> PhysRegs]]
      /\ renameMap'[tid][e.archReg] = e.prevPhysReg
      /\ \A t \in Threads : \A a \in Regs :
           ~(t = tid /\ a = e.archReg) => renameMap'[t][a] = renameMap[t][a]
  BY <1>1, <1>2, <1>3 DEF TypeOK
<1>8. renameMap[tid][e.archReg] = e.newPhysReg
  BY <1>3 DEF IInv, Chained, ChainedEntry, NewOnce, entries, e
<1> HIDE DEF e, n
<1>9. e.newPhysReg \notin free
  BY <1>3, <1>8 DEF IInv, NoRegisterTwice
<1>10. IF e.newPhysReg # e.prevPhysReg
       THEN /\ free' = free \cup {e.newPhysReg} /\ freeList' \in Seq(PhysRegs)
            /\ \A i, j \in 1..Len(freeList') : freeList'[i] = freeList'[j] => i = j
       ELSE freeList' = freeList /\ free' = free
  <2>1. CASE e.newPhysReg # e.prevPhysReg
    BY <1>1, <1>2, <1>3, <1>9, <2>1, FreeAppended, SMTT(30) DEF IInv, NoRegisterTwice, TypeOK
  <2>2. CASE e.newPhysReg = e.prevPhysReg
    BY <1>2, <2>2 DEF free
  <2> QED BY <2>1, <2>2
<1>11. /\ kept(tid, n) <=> e.newPhysReg # e.prevPhysReg
       /\ \A t \in Threads : \A a \in Regs :
            renameMap[t][a] = e.newPhysReg => t = tid /\ a = e.archReg
       /\ kept(tid, n) =>
            /\ e.prevPhysReg \notin free
            /\ \A t \in Threads : \A a \in Regs : renameMap[t][a] # e.prevPhysReg
       /\ \A t \in Threads : \A k \in entries(t) : kept(t, k) =>
            /\ prevReg(t, k) # e.newPhysReg
            /\ kept(tid, n) /\ prevReg(t, k) = e.prevPhysReg => t = tid /\ k = n
  <2>1. prevReg(tid, n) = e.prevPhysReg
    BY DEF prevReg, e, entry
  <2>2. kept(tid, n) <=> e.newPhysReg # e.prevPhysReg
    BY <1>3 DEF kept, e, entry, entries
  <2> QED BY <1>3, <1>8, <2>1, <2>2 DEF IInv, NoRegisterTwice, entries
<1>12. TypeOK'
  <2>1. historyBuffer' \in [Threads -> Seq(RenameHistory)]
    BY <1>1, <1>2, <1>3, <1>4 DEF TypeOK
  <2> QED BY <1>1, <1>7, <1>10, <2>1 DEF TypeOK
<1>13. n > committed[tid] /\ \A i \in 1..Len(rob[tid]) : rob[tid][i].seqNum < e.instSeqNum
  BY <1>1, <1>3, Typed, SMTT(30) DEF IInv, Told, ToldThread, Ordered, OrderedThread, e
<1>14. Ordered'
  <2>1. OrderedThread(tid)'
    <3>1. /\ OrderedThread(tid) /\ committed[tid] \in Int
          /\ \A k \in entries(tid) : entry(tid, k).instSeqNum \in Nat
      BY <1>1, <1>3, Typed, SMTT(30) DEF IInv, Ordered, entry, entries
    <3>2. \A k \in 1..(n - 1) : k \in entries(tid) /\ entry(tid, k)' = entry(tid, k)
      BY <1>1, <1>4 DEF entry
    <3>3. /\ entries(tid)' = 1..(n - 1) /\ Len(historyBuffer'[tid]) = n - 1
          /\ committed[tid] \in 0..(n - 1)
      BY <1>1, <1>3, <1>4, <1>13, <3>1 DEF entries, OrderedThread
    <3> QED BY <1>1, <3>1, <3>2, <3>3 DEF OrderedThread
  <2>2. \A t \in Threads \ {tid} : OrderedThread(t)'
    BY <1>1, <1>4 DEF IInv, Ordered, OrderedThread, entry, entries
  <2> QED BY <1>1, <2>1, <2>2 DEF Ordered
<1>15. Told'
  BY <1>1, SMTT(30) DEF IInv, Told, ToldThread
<1>16. Renaming'
  BY <1>1, Sizes DEF IInv, TypeOK, Renaming
<1>17. NoRegisterTwice'
  <2>1. \A i, j \in 1..Len(freeList') : freeList'[i] = freeList'[j] => i = j
    BY <1>10, SMTT(30) DEF IInv, NoRegisterTwice
  <2>2. \A t, u \in Threads : \A a, b \in Regs :
          renameMap'[t][a] = renameMap'[u][b] => t = u /\ a = b
    BY <1>3, <1>7, <1>8, <1>11 DEF IInv, NoRegisterTwice, prevReg, entries, e, entry
  <2>3. \A t, u \in Threads : \A k \in 1..Len(historyBuffer'[t]), m \in 1..Len(historyBuffer'[u]) :
          kept(t, k)' /\ kept(u, m)' /\ prevReg(t, k)' = prevReg(u, m)' => t = u /\ k = m
    <3> SUFFICES ASSUME NEW t \in Threads, NEW u \in Threads,
                        NEW k \in 1..Len(historyBuffer'[t]), NEW m \in 1..Len(historyBuffer'[u]),
                        kept(t, k)', kept(u, m)', prevReg(t, k)' = prevReg(u, m)'
                 PROVE  t = u /\ k = m
      OBVIOUS
    <3>1. kept(t, k) /\ kept(u, m) /\ prevReg(t, k) = prevReg(u, m)
      BY <1>5, Zenon DEF prevReg, kept, entries
    <3> QED BY <3>1 DEF IInv, NoRegisterTwice, kept
  <2>4. \A t \in Threads : \A a \in Regs : renameMap'[t][a] \notin free'
    BY <1>3, <1>7, <1>8, <1>10, <1>11 DEF IInv, NoRegisterTwice
  <2>5. ASSUME NEW t \in Threads, NEW k \in 1..Len(historyBuffer'[t]), kept(t, k)'
        PROVE  /\ prevReg(t, k)' \notin free'
               /\ \A u \in Threads : \A a \in Regs : renameMap'[u][a] # prevReg(t, k)'
    <3>1. /\ kept(t, k) /\ prevReg(t, k)' = prevReg(t, k) /\ k \in entries(t) /\ ~(t = tid /\ k = n)
          /\ k \in 1..Len(historyBuffer[t])
      BY <1>5, <2>5 DEF prevReg, kept, entries
    <3>2. prevReg(t, k) \notin free /\ \A u \in Threads : \A a \in Regs : renameMap[u][a] # prevReg(t, k)
      BY <3>1 DEF IInv, NoRegisterTwice
    <3>3. e.newPhysReg = e.prevPhysReg => renameMap[tid][e.archReg] = e.prevPhysReg
      BY <1>8
    <3> QED BY <1>3, <1>7, <1>10, <1>11, <3>1, <3>2, <3>3
  <2> QED BY <2>1, <2>2, <2>3, <2>4, <2>5 DEF NoRegisterTwice
<1>18. NoRegisterLost'
  <2> SUFFICES ASSUME NEW p \in PhysRegs
               PROVE  \/ p \in free'
                      \/ \E t \in Threads : \E a \in Regs : renameMap'[t][a] = p
                      \/ \E t \in Threads : \E k \in 1..Len(historyBuffer'[t]) :
                           kept(t, k)' /\ prevReg(t, k)' = p
    BY DEF NoRegisterLost
  <2>1. CASE p \in free
    BY <1>10, <2>1
  <2>2. CASE \E t \in Threads : \E a \in Regs : renameMap[t][a] = p
    BY <1>3, <1>7, <1>8, <1>10, <2>2
  <2>3. ASSUME NEW t \in Threads, NEW k \in entries(t), kept(t, k), prevReg(t, k) = p
        PROVE  \/ \E u \in Threads : \E a \in Regs : renameMap'[u][a] = p
               \/ \E u \in Threads : \E m \in 1..Len(historyBuffer'[u]) :
                    kept(u, m)' /\ prevReg(u, m)' = p
    <3>1. CASE t = tid /\ k = n
      BY <1>3, <1>7, <2>3, <3>1 DEF prevReg, e, entry
    <3>2. CASE ~(t = tid /\ k = n)
      <4>1. k \in 1..Len(historyBuffer'[t]) /\ kept(t, k)' /\ prevReg(t, k)' = p
        BY <1>6, <2>3, <3>2, <1>5 DEF kept, prevReg
      <4> QED BY <4>1
    <3> QED BY <3>1, <3>2
  <2> QED BY <2>1, <2>2, <2>3 DEF IInv, NoRegisterLost, entries
<1>19. Chained'
  <2>1. ASSUME NEW t \in Threads, NEW k \in 1..Len(historyBuffer'[t])
        PROVE  /\ k \in entries(t) /\ entry(t, k)' = entry(t, k) /\ kept(t, k)' = kept(t, k)
               /\ k \in entries(t)'
    BY <1>5, <2>1 DEF kept, entry, entries
  <2>2. ASSUME NEW t \in Threads, NEW k \in 1..Len(historyBuffer'[t])
        PROVE  ChainedEntry(t, k)'
    <3>1. k \in entries(t) /\ ChainedEntry(t, k) /\ ~(t = tid /\ k = n) /\ entry(t, k).archReg \in Regs
      <4>1. k \in entries(t) /\ ChainedEntry(t, k) /\ ~(t = tid /\ k = n)
        BY <1>5, <2>2 DEF IInv, Chained
      <4>2. entry(t, k) \in RenameHistory
        BY <1>1, <4>1, Typed DEF entry, entries
      <4> QED BY <4>1, <4>2 DEF RenameHistory
    <3> DEFINE x == entry(t, k)
    <3>2. ChainedEntry(tid, n)
      BY <1>3, SMTT(30) DEF IInv, Chained
    <3>3. ~kept(t, k) => x.newPhysReg = renameMap'[t][x.archReg]
      BY <1>3, <1>7, <1>8, <1>11, <3>1, <3>2, SMTT(30) DEF ChainedEntry, e
    <3>4. ASSUME kept(t, k)
          PROVE  \/ renameMap'[t][x.archReg] = x.newPhysReg
                 \/ \E m \in entries(t) : /\ ~(t = tid /\ m = n) /\ k < m /\ kept(t, m)
                                          /\ entry(t, m).archReg = x.archReg
                                          /\ entry(t, m).prevPhysReg = x.newPhysReg
      <4>1. CASE renameMap[t][x.archReg] = x.newPhysReg
        <5>1. ~(t = tid /\ x.archReg = e.archReg)
          BY <1>3, <1>8, <3>1, <3>2, <3>4, <4>1 DEF ChainedEntry, IInv, Chained, NewOnce, e
        <5> QED BY <1>7, <3>1, <4>1, <5>1
      <4>2. ASSUME NEW m \in entries(t), k < m, kept(t, m), entry(t, m).archReg = x.archReg,
                   entry(t, m).prevPhysReg = x.newPhysReg
            PROVE  \/ renameMap'[t][x.archReg] = x.newPhysReg
                   \/ ~(t = tid /\ m = n)
        BY <1>7, <4>2 DEF e
      <4> QED BY <3>1, <3>4, <4>1, <4>2, SMTT(30) DEF ChainedEntry
    <3>5. ASSUME NEW m \in entries(t), ~(t = tid /\ m = n)
          PROVE  m \in entries(t)' /\ kept(t, m)' = kept(t, m) /\ entry(t, m)' = entry(t, m)
      <4>1. m \in 1..Len(historyBuffer'[t])
        BY <1>6, <3>5
      <4> QED BY <2>1, <4>1
    <3> QED BY <2>1, <2>2, <3>1, <3>3, <3>4, <3>5 DEF ChainedEntry
  <2>3. NewOnce'
    BY <2>1 DEF IInv, Chained, NewOnce, entries
  <2> QED BY <2>2, <2>3 DEF Chained, entries
<1>20. ASSUME NEW t \in Threads, NEW k \in entries(t), ~(t = tid /\ k = n)
       PROVE  k \in entries(t)' /\ kept(t, k)' = kept(t, k) /\ entry(t, k)' = entry(t, k)
              /\ prevReg(t, k)' = prevReg(t, k)
  <2>1. k \in 1..Len(historyBuffer'[t])
    BY <1>6, <1>20
  <2> QED BY <1>5, <1>20, <2>1 DEF kept, entry, entries, prevReg
<1>21. CommitChained'
  <2> SUFFICES ASSUME NEW t \in Threads PROVE CommitChainedThread(t)'
    BY DEF CommitChained
  <2>1. CommitChainedThread(t)
    BY DEF IInv, CommitChained
  <2>2. ASSUME NEW a \in Regs
        PROVE  \/ commitMap[t][a] = renameMap'[t][a]
               \/ \E k \in entries(t) :
                    /\ ~(t = tid /\ k = n) /\ k > committed[t] /\ kept(t, k)
                    /\ entry(t, k).archReg = a /\ entry(t, k).prevPhysReg = commitMap[t][a]
    <3>1. CASE commitMap[t][a] = renameMap[t][a]
      <4>1. CASE t = tid /\ a = e.archReg
        <5>1. ~kept(tid, n)
          BY <1>3, <1>8, <1>13, <2>1, <3>1, <4>1 DEF CommitChainedThread, e
        <5> QED BY <1>7, <1>8, <1>11, <3>1, <4>1, <5>1, SMTT(30)
      <4>2. CASE ~(t = tid /\ a = e.archReg)
        BY <1>7, <2>2, <3>1, <4>2
      <4> QED BY <4>1, <4>2
    <3>2. ASSUME NEW k \in entries(t), k > committed[t], kept(t, k), entry(t, k).archReg = a,
                 entry(t, k).prevPhysReg = commitMap[t][a]
          PROVE  commitMap[t][a] = renameMap'[t][a] \/ ~(t = tid /\ k = n)
      BY <1>7, <3>2 DEF e
    <3> QED BY <2>1, <2>2, <3>1, <3>2 DEF CommitChainedThread
  <2>3. \A k \in entries(t)' : k \in entries(t) /\ kept(t, k)' = kept(t, k) /\ entry(t, k)' = entry(t, k)
    BY <1>5, SMTT(30) DEF kept, entry, entries
  <2> QED BY <1>1, <1>20, <2>1, <2>2, <2>3 DEF CommitChainedThread
<1>22. SourceHeld'
  <2> SUFFICES ASSUME NEW t \in Threads, NEW i \in 1..Len(rob[t])
               PROVE  Held(t, rob[t][i].seqNum, rob[t][i].srcReg)'
    BY <1>1 DEF SourceHeld
  <2> DEFINE sn  == rob[t][i].seqNum
             src == rob[t][i].srcReg
  <2>1. Held(t, sn, src)
    BY DEF IInv, SourceHeld
  <2>2. ~(t = tid /\ kept(tid, n) /\ e.newPhysReg = src)
    <3> SUFFICES ASSUME t = tid, kept(tid, n), e.newPhysReg = src PROVE FALSE
      BY SMTT(30)
    <3>1. e.instSeqNum < sn /\ sn < e.instSeqNum /\ sn \in Nat
      BY <1>1, <1>3, <1>13, <2>1, Typed, SMTT(30) DEF Held, e
    <3> QED BY <1>3, <3>1
  <2>3. \/ \E a \in Regs : renameMap'[t][a] = src
        \/ \E k \in entries(t) : /\ ~(t = tid /\ k = n) /\ kept(t, k) /\ prevReg(t, k) = src
                                 /\ entry(t, k).instSeqNum >= sn
    <3>1. ASSUME NEW a \in Regs, renameMap[t][a] = src
          PROVE  \E b \in Regs : renameMap'[t][b] = src
      BY <1>3, <1>7, <1>8, <1>11, <2>2, <3>1
    <3>2. ASSUME NEW k \in entries(t), prevReg(t, k) = src, t = tid /\ k = n
          PROVE  \E b \in Regs : renameMap'[t][b] = src
      BY <1>3, <1>7, <3>2 DEF prevReg, e, entry
    <3> QED BY <2>1, <3>1, <3>2 DEF Held
  <2>4. \A u \in Threads : \A k \in entries(u)' :
          k \in entries(u) /\ kept(u, k)' = kept(u, k) /\ entry(u, k)' = entry(u, k)
    BY <1>5 DEF kept, entry, entries
  <2> QED BY <1>1, <1>20, <2>1, <2>3, <2>4 DEF Held
<1> QED BY <1>12, <1>14, <1>15, <1>16, <1>17, <1>18, <1>19, <1>21, <1>22 DEF IInv
=============================================================================
