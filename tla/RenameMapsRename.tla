------------------------- MODULE RenameMapsRename ---------------------------
(***************************************************************************)
(* The inductive invariant is kept when a destination is renamed.          *)
(***************************************************************************)
EXTENDS RenameMapsInv

(* Renaming one destination (renameDestRegs) keeps the invariant. *)
LEMMA RenameDestRegsInv == ASSUME IInv, RenameDestRegs PROVE IInv'
<1>1. PICK a \in Regs :
        LET prev == renameMap[tid][a]
            new  == IF a # ZeroReg THEN Head(freeList) ELSE prev
        IN  /\ renameMap' = [renameMap EXCEPT ![tid][a] = new]
            /\ freeList' = IF a # ZeroReg THEN Tail(freeList) ELSE freeList
            /\ historyBuffer' = [historyBuffer EXCEPT ![tid] =
                 Append(@, [instSeqNum |-> globalSeqNum, archReg |-> a,
                            newPhysReg |-> new, prevPhysReg |-> prev])]
  BY Zenon DEF RenameDestRegs
<1> DEFINE prev == renameMap[tid][a]
           new  == IF a # ZeroReg THEN Head(freeList) ELSE prev
           x    == [instSeqNum |-> globalSeqNum, archReg |-> a,
                    newPhysReg |-> new, prevPhysReg |-> prev]
<1>2. /\ TypeOK /\ phase = "rename" /\ destsLeft > 0 /\ destsLeft' = destsLeft - 1
      /\ UNCHANGED <<phase, tid, globalSeqNum, commitMap, committed, lastCommitedSeqNum,
                     rob, fromCommit>>
  BY DEF IInv, RenameDestRegs
<1>3. /\ destsLeft \in Nat /\ destsLeft <= Len(freeList) /\ freeList \in Seq(PhysRegs)
      /\ freeList # <<>> /\ lastCommitedSeqNum[tid] < globalSeqNum /\ tid \in Threads
      /\ globalSeqNum \in 1..MaxSeqNum /\ lastCommitedSeqNum[tid] \in Nat
      /\ prev \in PhysRegs /\ Len(historyBuffer[tid]) \in Nat
  BY <1>2, Typed, Sizes DEF IInv, TypeOK, Renaming
<1> PICK n \in Nat \ {0} : n = Len(historyBuffer[tid]) + 1
  BY <1>3
<1>4. IF a # ZeroReg
      THEN /\ new \in free /\ new \in PhysRegs /\ free' = free \ {new}
           /\ Len(freeList') = Len(freeList) - 1
           /\ \A i, j \in 1..Len(freeList') : freeList'[i] = freeList'[j] => i = j
           /\ freeList' \in Seq(PhysRegs)
      ELSE freeList' = freeList /\ free' = free /\ new = prev
  <2>1. CASE a # ZeroReg
    BY <1>1, <1>3, <2>1, FreeTaken DEF IInv, NoRegisterTwice
  <2>2. CASE a = ZeroReg
    BY <1>1, <2>2 DEF free
  <2> QED BY <2>1, <2>2
<1>5. /\ renameMap' = [renameMap EXCEPT ![tid][a] = new]
      /\ historyBuffer' = [historyBuffer EXCEPT ![tid] = Append(historyBuffer[tid], x)]
  BY <1>1
<1> HIDE DEF new, prev
<1>6. x \in RenameHistory
  BY <1>3, <1>4 DEF RenameHistory
<1>7. /\ x.instSeqNum = globalSeqNum /\ x.archReg = a /\ x.newPhysReg = new /\ x.prevPhysReg = prev
  OBVIOUS
<1> HIDE DEF x
<1>8. /\ renameMap' \in [Threads -> [Regs -> PhysRegs]] /\ renameMap'[tid][a] = new
      /\ \A t \in Threads : \A b \in Regs :
           ~(t = tid /\ b = a) => renameMap'[t][b] = renameMap[t][b]
  BY <1>2, <1>3, <1>4, <1>5 DEF TypeOK
<1>9. /\ historyBuffer'[tid] = Append(historyBuffer[tid], x)
      /\ historyBuffer[tid] \in Seq(RenameHistory)
      /\ \A t \in Threads \ {tid} : historyBuffer'[t] = historyBuffer[t]
  BY <1>2, <1>3, <1>5, Typed DEF TypeOK
<1>10. /\ historyBuffer'[tid] \in Seq(RenameHistory) /\ Len(historyBuffer'[tid]) = n
       /\ n \in Nat \ {0} /\ historyBuffer'[tid][n] = x
       /\ \A k \in entries(tid) : k \in 1..n /\ k < n /\ historyBuffer'[tid][k] = historyBuffer[tid][k]
       /\ \A k \in 1..n : k \in entries(tid) \/ k = n
  BY <1>3, <1>6, <1>9, Appended DEF entries
<1>11. ASSUME NEW t \in Threads, NEW k \in entries(t)
       PROVE  /\ k \in entries(t)' /\ kept(t, k)' = kept(t, k) /\ entry(t, k)' = entry(t, k)
              /\ prevReg(t, k)' = prevReg(t, k) /\ ~(t = tid /\ k = n)
  <2>1. k \in 1..Len(historyBuffer'[t]) /\ historyBuffer'[t][k] = historyBuffer[t][k]
        /\ ~(t = tid /\ k = n)
    BY <1>9, <1>10, SMTT(30) DEF entries
  <2> QED BY <2>1 DEF kept, entry, entries, prevReg
<1>12. ASSUME NEW t \in Threads, NEW k \in entries(t)'
       PROVE  k \in entries(t) \/ (t = tid /\ k = n)
  <2>1. CASE t = tid
    <3>1. k \in 1..n
      BY <1>2, <1>10, <1>12, <2>1 DEF entries
    <3> QED BY <1>10, <2>1, <3>1
  <2>2. CASE t # tid
    BY <1>2, <1>9, <1>12, <2>2 DEF entries
  <2> QED BY <2>1, <2>2
<1>13. /\ prev \notin free
       /\ \A t \in Threads : \A b \in Regs :
            /\ renameMap[t][b] = prev => t = tid /\ b = a
            /\ a # ZeroReg => renameMap[t][b] # new
       /\ \A t \in Threads : \A k \in entries(t) : kept(t, k) =>
            /\ prevReg(t, k) # prev
            /\ a # ZeroReg => prevReg(t, k) # new /\ entry(t, k).newPhysReg # new
  <2>1. /\ prev \notin free
        /\ \A t \in Threads : \A b \in Regs :
             /\ renameMap[t][b] = prev => t = tid /\ b = a
             /\ a # ZeroReg => renameMap[t][b] # new
    BY <1>3, <1>4 DEF IInv, NoRegisterTwice, prev
  <2>2. ASSUME NEW t \in Threads, NEW k \in entries(t), kept(t, k)
        PROVE  /\ prevReg(t, k) # prev
               /\ a # ZeroReg => prevReg(t, k) # new /\ entry(t, k).newPhysReg # new
    BY <1>3, <1>4, <2>2, NewNotFree, SMTT(30) DEF IInv, NoRegisterTwice, prev, entries
  <2> QED BY <2>1, <2>2
<1>14. /\ n \in entries(tid)' /\ entry(tid, n)' = x /\ prevReg(tid, n)' = prev
       /\ kept(tid, n)' <=> a # ZeroReg
  <2>1. n \in entries(tid)' /\ entry(tid, n)' = x /\ prevReg(tid, n)' = prev
    BY <1>2, <1>7, <1>10 DEF entry, entries, prevReg
  <2>2. kept(tid, n)' <=> new # prev
    BY <1>2, <1>7, <1>10 DEF kept
  <2> QED BY <1>4, <1>13, <2>1, <2>2
<1>15. TypeOK'
  <2>1. historyBuffer' \in [Threads -> Seq(RenameHistory)]
    BY <1>2, <1>3, <1>5, <1>9, <1>10 DEF TypeOK
  <2>2. destsLeft' \in 0..MaxDestRegs
    BY <1>2, <1>3, Sizes DEF TypeOK
  <2> QED BY <1>2, <1>4, <1>8, <2>1, <2>2 DEF TypeOK
<1>16. Ordered'
  <2>1. OrderedThread(tid)'
    <3>1. /\ OrderedThread(tid) /\ globalSeqNum \in Nat /\ committed[tid] \in Int
          /\ \A k \in entries(tid) : entry(tid, k).instSeqNum \in Nat /\ k < n
      BY <1>2, <1>3, <1>10, Typed DEF IInv, Ordered, entry, entries
    <3>2. committed[tid] \in 0..n /\ committed[tid] < n /\ Len(historyBuffer'[tid]) = n
      BY <1>3, <1>10, <3>1 DEF OrderedThread
    <3>3. \A k \in entries(tid)' :
            \/ k \in entries(tid) /\ entry(tid, k)' = entry(tid, k)
            \/ k = n /\ entry(tid, k)' = x
      BY <1>2, <1>3, <1>11, <1>12, <1>14
    <3>4. \A k \in entries(tid)' : entry(tid, k)'.instSeqNum <= globalSeqNum
      BY <1>7, <3>1, <3>3 DEF OrderedThread
    <3>5. ASSUME NEW j \in entries(tid)', NEW k \in entries(tid)', j <= k
          PROVE  entry(tid, j)'.instSeqNum <= entry(tid, k)'.instSeqNum
      <4>1. CASE k = n /\ entry(tid, k)' = x
        BY <1>7, <3>4, <4>1
      <4>2. CASE k \in entries(tid) /\ entry(tid, k)' = entry(tid, k)
        <5>1. j \in entries(tid) /\ entry(tid, j)' = entry(tid, j)
          BY <3>1, <3>3, <3>5, <4>2 DEF entries
        <5> QED BY <3>1, <3>5, <4>2, <5>1 DEF OrderedThread
      <4> QED BY <3>3, <4>1, <4>2
    <3>6. ASSUME NEW k \in entries(tid)', k <= committed[tid]
          PROVE  entry(tid, k)'.instSeqNum <= lastCommitedSeqNum[tid]
      BY <3>1, <3>2, <3>3, <3>6 DEF OrderedThread
    <3>7. ASSUME NEW k \in entries(tid)', k > committed[tid]
          PROVE  entry(tid, k)'.instSeqNum > lastCommitedSeqNum[tid]
      BY <1>2, <1>3, <1>7, <3>1, <3>3, <3>7, SMTT(30) DEF OrderedThread
    <3> QED BY <1>2, <1>3, <3>1, <3>2, <3>4, <3>5, <3>6, <3>7 DEF OrderedThread
  <2>2. \A t \in Threads \ {tid} : OrderedThread(t)'
    BY <1>2, <1>9, SMTT(30) DEF IInv, Ordered, OrderedThread, entry, entries
  <2> QED BY <1>2, <2>1, <2>2 DEF Ordered
<1>17. Told'
  BY <1>2 DEF IInv, Told, ToldThread
<1>18. Renaming'
  BY <1>2, <1>3, <1>4 DEF IInv, Renaming
<1>19. NoRegisterTwice'
  <2>1. \A i, j \in 1..Len(freeList') : freeList'[i] = freeList'[j] => i = j
    BY <1>4 DEF IInv, NoRegisterTwice
  <2>2. \A t, u \in Threads : \A b, c \in Regs :
          renameMap'[t][b] = renameMap'[u][c] => t = u /\ b = c
    BY <1>3, <1>4, <1>8, <1>13 DEF IInv, NoRegisterTwice
  <2>3. ASSUME NEW t \in Threads, NEW u \in Threads, NEW k \in entries(t)', NEW m \in entries(u)',
               kept(t, k)', kept(u, m)', prevReg(t, k)' = prevReg(u, m)'
        PROVE  t = u /\ k = m
    <3>1. CASE k \in entries(t) /\ m \in entries(u)
      BY <1>11, <2>3, <3>1 DEF IInv, NoRegisterTwice, entries
    <3>2. CASE k \in entries(t) /\ u = tid /\ m = n
      BY <1>2, <1>11, <1>13, <1>14, <2>3, <3>2
    <3>3. CASE m \in entries(u) /\ t = tid /\ k = n
      BY <1>2, <1>11, <1>13, <1>14, <2>3, <3>3, SMTT(30)
    <3> QED BY <1>12, <3>1, <3>2, <3>3
  <2>4. \A t \in Threads : \A b \in Regs : renameMap'[t][b] \notin free'
    BY <1>3, <1>4, <1>8, <1>13, SMTT(30) DEF IInv, NoRegisterTwice, prev
  <2>5. ASSUME NEW t \in Threads, NEW k \in entries(t)', kept(t, k)'
        PROVE  /\ prevReg(t, k)' \notin free'
               /\ \A u \in Threads : \A b \in Regs : renameMap'[u][b] # prevReg(t, k)'
    <3>1. CASE k \in entries(t)
      <4>1. /\ kept(t, k) /\ prevReg(t, k)' = prevReg(t, k) /\ prevReg(t, k) \notin free
            /\ \A u \in Threads : \A b \in Regs : renameMap[u][b] # prevReg(t, k)
        BY <1>11, <2>5, <3>1 DEF IInv, NoRegisterTwice, entries
      <4> QED BY <1>3, <1>4, <1>8, <1>13, <3>1, <4>1
    <3>2. CASE t = tid /\ k = n
      <4>1. prevReg(t, k)' = prev /\ a # ZeroReg
        BY <1>2, <1>14, <2>5, <3>2
      <4> QED BY <1>3, <1>4, <1>8, <1>13, <4>1, SMTT(30)
    <3> QED BY <1>12, <3>1, <3>2
  <2> QED BY <2>1, <2>2, <2>3, <2>4, <2>5 DEF NoRegisterTwice, entries
<1>20. NoRegisterLost'
  <2> SUFFICES ASSUME NEW p \in PhysRegs
               PROVE  \/ p \in free'
                      \/ \E t \in Threads : \E b \in Regs : renameMap'[t][b] = p
                      \/ \E t \in Threads : \E k \in entries(t)' : kept(t, k)' /\ prevReg(t, k)' = p
    BY DEF NoRegisterLost, entries
  <2>1. CASE p \in free
    BY <1>3, <1>4, <1>8, <2>1
  <2>2. ASSUME NEW t \in Threads, NEW b \in Regs, renameMap[t][b] = p
        PROVE  \/ \E u \in Threads : \E c \in Regs : renameMap'[u][c] = p
               \/ \E u \in Threads : \E k \in entries(u)' : kept(u, k)' /\ prevReg(u, k)' = p
    <3>1. CASE ~(t = tid /\ b = a)
      BY <1>8, <2>2, <3>1
    <3>2. CASE t = tid /\ b = a /\ a = ZeroReg
      BY <1>3, <1>4, <1>8, <2>2, <3>2 DEF prev
    <3>3. CASE t = tid /\ b = a /\ a # ZeroReg
      <4>1. n \in entries(t)' /\ kept(t, n)' /\ prevReg(t, n)' = p
        BY <1>2, <1>14, <2>2, <3>3 DEF prev
      <4> QED BY <4>1
    <3> QED BY <3>1, <3>2, <3>3
  <2>3. CASE \E t \in Threads : \E k \in entries(t) : kept(t, k) /\ prevReg(t, k) = p
    BY <1>11, <2>3
  <2> QED BY <2>1, <2>2, <2>3 DEF IInv, NoRegisterLost, entries
<1>21. Chained'
  <2>1. ASSUME NEW t \in Threads, NEW k \in entries(t)'
        PROVE  ChainedEntry(t, k)'
    <3>1. CASE t = tid /\ k = n
      BY <1>2, <1>4, <1>7, <1>8, <1>14, <3>1, SMTT(30) DEF ChainedEntry
    <3>2. CASE k \in entries(t)
      <4> DEFINE y == entry(t, k)
      <4>1. ChainedEntry(t, k) /\ y.archReg \in Regs
        <5>1. y \in RenameHistory
          BY <1>2, <3>2, Typed DEF entry, entries
        <5> QED BY <3>2, <5>1 DEF IInv, Chained, RenameHistory
      <4>2. entry(t, k)' = y /\ kept(t, k)' = kept(t, k)
        BY <1>11, <3>2
      <4>3. ~kept(t, k) => y.newPhysReg = renameMap'[t][y.archReg]
        <5>1. ~kept(t, k) => y.archReg = ZeroReg /\ y.newPhysReg = renameMap[t][y.archReg]
          BY <4>1, SMTT(30) DEF ChainedEntry
        <5> QED BY <1>3, <1>4, <1>8, <4>1, <5>1 DEF prev
      <4>4. ASSUME kept(t, k)
            PROVE  \/ renameMap'[t][y.archReg] = y.newPhysReg
                   \/ \E m \in entries(t)' : /\ k < m /\ kept(t, m)' /\ entry(t, m)'.archReg = y.archReg
                                            /\ entry(t, m)'.prevPhysReg = y.newPhysReg
        <5>1. y.archReg # ZeroReg
          BY <4>1, <4>4, SMTT(30) DEF ChainedEntry
        <5>2. CASE renameMap[t][y.archReg] = y.newPhysReg /\ ~(t = tid /\ y.archReg = a)
          BY <1>8, <4>1, <5>2
        <5>3. CASE renameMap[t][y.archReg] = y.newPhysReg /\ t = tid /\ y.archReg = a
          <6>1. /\ n \in entries(t)' /\ k < n /\ kept(t, n)' /\ entry(t, n)'.archReg = y.archReg
                /\ entry(t, n)'.prevPhysReg = y.newPhysReg
            BY <1>2, <1>7, <1>10, <1>14, <3>2, <5>1, <5>3, SMTT(30) DEF prev
          <6> QED BY <6>1, SMTT(30)
        <5>4. ASSUME NEW m \in entries(t), k < m, kept(t, m), entry(t, m).archReg = y.archReg,
                     entry(t, m).prevPhysReg = y.newPhysReg
              PROVE  /\ m \in entries(t)' /\ kept(t, m)' /\ entry(t, m)'.archReg = y.archReg
                     /\ entry(t, m)'.prevPhysReg = y.newPhysReg
          BY <1>11, <5>4
        <5> QED BY <4>1, <4>4, <5>2, <5>3, <5>4, SMTT(30) DEF ChainedEntry
      <4> HIDE DEF y
      <4> QED BY <4>1, <4>2, <4>3, <4>4 DEF ChainedEntry, y
    <3> QED BY <1>12, <3>1, <3>2, SMTT(30)
  <2>2. NewOnce'
    <3> SUFFICES ASSUME NEW t \in Threads, NEW u \in Threads, NEW k \in entries(t)',
                        NEW m \in entries(u)', kept(t, k)', kept(u, m)',
                        entry(t, k)'.newPhysReg = entry(u, m)'.newPhysReg
                 PROVE  t = u /\ k = m
      BY DEF NewOnce
    <3>1. CASE k \in entries(t) /\ m \in entries(u)
      BY <1>11, <3>1, SMTT(30) DEF IInv, Chained, NewOnce
    <3>2. CASE k \in entries(t) /\ u = tid /\ m = n
      BY <1>2, <1>7, <1>11, <1>13, <1>14, <3>2, SMTT(30)
    <3>3. CASE m \in entries(u) /\ t = tid /\ k = n
      BY <1>2, <1>7, <1>11, <1>13, <1>14, <3>3, SMTT(30)
    <3> QED BY <1>12, <3>1, <3>2, <3>3
  <2> QED BY <2>1, <2>2 DEF Chained
<1>22. CommitChained'
  <2> SUFFICES ASSUME NEW t \in Threads PROVE CommitChainedThread(t)'
    BY DEF CommitChained
  <2>1. CommitChainedThread(t) /\ OrderedThread(t)
    BY SMTT(30) DEF IInv, CommitChained, Ordered
  <2>2. ASSUME NEW b \in Regs
        PROVE  \/ commitMap[t][b] = renameMap'[t][b]
               \/ \E k \in entries(t)' :
                    /\ k > committed[t] /\ kept(t, k)'
                    /\ entry(t, k)'.archReg = b /\ entry(t, k)'.prevPhysReg = commitMap[t][b]
    <3>1. CASE commitMap[t][b] = renameMap[t][b] /\ ~(t = tid /\ b = a)
      BY <1>8, <3>1
    <3>2. CASE commitMap[t][b] = renameMap[t][b] /\ t = tid /\ b = a /\ a # ZeroReg
      <4>1. n > committed[t]
        BY <1>2, <1>3, <2>1, <3>2, Typed DEF OrderedThread
      <4>2. n \in entries(t)' /\ kept(t, n)' /\ entry(t, n)'.archReg = b
            /\ entry(t, n)'.prevPhysReg = commitMap[t][b]
        BY <1>2, <1>7, <1>14, <3>2, SMTT(30) DEF prev
      <4> QED BY <4>1, <4>2, SMTT(30)
    <3>3. CASE commitMap[t][b] = renameMap[t][b] /\ t = tid /\ b = a /\ a = ZeroReg
      BY <1>4, <1>8, <3>3, SMTT(30) DEF prev
    <3>4. CASE \E k \in entries(t) :
                 /\ k > committed[t] /\ kept(t, k)
                 /\ entry(t, k).archReg = b /\ entry(t, k).prevPhysReg = commitMap[t][b]
      BY <1>11, <3>4
    <3> QED BY <2>1, <2>2, <3>1, <3>2, <3>3, <3>4 DEF CommitChainedThread
  <2>3. ASSUME NEW k \in entries(t)', NEW b \in Regs, k > committed[t], kept(t, k)'
        PROVE  entry(t, k)'.newPhysReg # commitMap[t][b]
    <3>1. CASE k \in entries(t)
      BY <1>11, <2>1, <2>3, <3>1 DEF CommitChainedThread
    <3>2. CASE t = tid /\ k = n
      <4>1. entry(t, k)'.newPhysReg = new /\ new \in free
        BY <1>2, <1>4, <1>7, <1>14, <2>3, <3>2, SMTT(30)
      <4> QED BY <2>3, <4>1, CommitMapNotFree
    <3> QED BY <1>12, <3>1, <3>2, SMTT(30)
  <2> QED BY <1>2, <2>2, <2>3 DEF CommitChainedThread
<1>23. SourceHeld'
  <2> SUFFICES ASSUME NEW t \in Threads, NEW i \in 1..Len(rob[t])
               PROVE  Held(t, rob[t][i].seqNum, rob[t][i].srcReg)'
    BY <1>2, SMTT(30) DEF SourceHeld
  <2> DEFINE sn  == rob[t][i].seqNum
             src == rob[t][i].srcReg
  <2>1. Held(t, sn, src) /\ sn <= globalSeqNum /\ sn \in Nat /\ src \notin free
    BY <1>2, SourceNotFree, Typed, ZenonT(30) DEF IInv, SourceHeld, Told, ToldThread
  <2>2. \/ \E b \in Regs : renameMap'[t][b] = src
        \/ \E k \in entries(t)' : kept(t, k)' /\ prevReg(t, k)' = src /\ entry(t, k)'.instSeqNum >= sn
    <3>1. ASSUME NEW b \in Regs, renameMap[t][b] = src, ~(t = tid /\ b = a)
          PROVE  \E c \in Regs : renameMap'[t][c] = src
      BY <1>8, <3>1
    <3>2. ASSUME renameMap[t][a] = src, t = tid, a = ZeroReg
          PROVE  \E c \in Regs : renameMap'[t][c] = src
      BY <1>4, <1>8, <3>2, SMTT(30) DEF prev
    <3>3. ASSUME renameMap[t][a] = src, t = tid, a # ZeroReg
          PROVE  n \in entries(t)' /\ kept(t, n)' /\ prevReg(t, n)' = src /\ entry(t, n)'.instSeqNum >= sn
      BY <1>2, <1>3, <1>7, <1>14, <2>1, <3>3, SMTT(30) DEF prev
    <3>4. ASSUME NEW k \in entries(t), kept(t, k), prevReg(t, k) = src, entry(t, k).instSeqNum >= sn
          PROVE  /\ k \in entries(t)' /\ kept(t, k)' /\ prevReg(t, k)' = src
                 /\ entry(t, k)'.instSeqNum >= sn
      BY <1>11, <3>4
    <3> QED BY <2>1, <3>1, <3>2, <3>3, <3>4, SMTT(30) DEF Held
  <2>3. ASSUME NEW u \in Threads, NEW k \in entries(u)', kept(u, k)', entry(u, k)'.newPhysReg = src
        PROVE  u = t /\ entry(u, k)'.instSeqNum < sn
    <3>1. CASE k \in entries(u)
      BY <1>11, <2>1, <2>3, <3>1, SMTT(30) DEF Held
    <3>2. CASE u = tid /\ k = n
      BY <1>2, <1>4, <1>7, <1>14, <2>1, <2>3, <3>2
    <3> QED BY <1>12, <3>1, <3>2, SMTT(30)
  <2> QED BY <1>2, <2>2, <2>3 DEF Held
<1> QED BY <1>15, <1>16, <1>17, <1>18, <1>19, <1>20, <1>21, <1>22, <1>23 DEF IInv
=============================================================================
