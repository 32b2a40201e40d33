------------------------- MODULE RenameMapsCommit ---------------------------
(***************************************************************************)
(* The inductive invariant is kept by the steps that leave the free list and*)
(* the history buffers alone: those of commit, the ends of turns, and the  *)
(* look-up of an operand.                                                  *)
(***************************************************************************)
EXTENDS RenameMapsInv

(* A thread's turn in rename ends: the invariant is kept. *)
LEMMA RenameEndsInv == ASSUME IInv, RenameEnds PROVE IInv'
<1> USE DEF RenameEnds
<1>1. TypeOK'
  BY TurnType DEF IInv, TypeOK
<1>2. phase' # "commit" /\ phase # "commit"
  BY DEF turnEnds
<1>3. Ordered'
  BY <1>2 DEF IInv, Ordered, entry, entries, OrderedThread
<1>4. Told'
  BY <1>2 DEF IInv, Told, ToldThread
<1>5. Renaming'
  BY DEF Renaming
<1>6. SourceHeld'
  BY SourcesStay
<1> QED BY <1>1, <1>3, <1>4, <1>5, <1>6, RegistersStay DEF IInv

(* A thread's turn in removeFromHistory ends: the invariant is kept. *)
LEMMA HistoryEndsInv == ASSUME IInv, HistoryEnds PROVE IInv'
<1> USE DEF HistoryEnds
<1>1. TypeOK'
  <2>1. Silence \in Words
    BY Sizes DEF Silence, Words
  <2> QED BY <2>1, TurnType, SMTT(30) DEF IInv, TypeOK
<1>2. \A t \in Threads : fromCommit'[t] = fromCommit[t] \/ fromCommit'[t] = Silence
  BY DEF IInv, TypeOK
<1>3. phase # "commit"
  OBVIOUS
<1>4. Ordered'
  BY <1>3 DEF IInv, Ordered, entry, entries, OrderedThread
<1>5. Told'
  BY <1>2, Typed DEF IInv, Told, ToldThread, Silence
<1>6. Renaming'
  BY <1>3, Sizes DEF IInv, TypeOK, Renaming
<1>7. SourceHeld'
  BY SourcesStay
<1> QED BY <1>1, <1>4, <1>5, <1>6, <1>7, RegistersStay DEF IInv

(* A thread's turn in commit ends: the invariant is kept. *)
LEMMA CommitEndsInv == ASSUME IInv, CommitEnds PROVE IInv'
<1> USE DEF CommitEnds
<1>1. TypeOK'
  BY TurnType, SMTT(30) DEF IInv, TypeOK
<1>2. \A k \in entries(tid) :
        k > committed[tid] => entry(tid, k).instSeqNum > lastCommitedSeqNum[tid]
  <2> SUFFICES ASSUME NEW k \in entries(tid), k > committed[tid]
               PROVE  entry(tid, k).instSeqNum > lastCommitedSeqNum[tid]
    OBVIOUS
  <2> DEFINE c == committed[tid] + 1
  <2>1. TypeOK /\ Ordered
    BY DEF IInv
  <2>2. tid \in Threads /\ committed[tid] \in Nat /\ Len(historyBuffer[tid]) \in Nat
    BY <2>1, Typed DEF Ordered, OrderedThread
  <2>3. c \in entries(tid) /\ c <= k
    BY <2>2 DEF entries
  <2>4. entry(tid, c).instSeqNum <= entry(tid, k).instSeqNum
    BY <2>1, <2>2, <2>3 DEF Ordered, OrderedThread
  <2>5. entry(tid, c).instSeqNum > lastCommitedSeqNum[tid]
    BY <2>1, <2>2, <2>3, Typed, SMTT(30) DEF entering, entry, entries
  <2> HIDE DEF c
  <2>6. /\ entry(tid, c).instSeqNum \in Nat /\ entry(tid, k).instSeqNum \in Nat
        /\ lastCommitedSeqNum[tid] \in Nat
    BY <2>1, <2>2, <2>3, Typed DEF entry, entries
  <2> QED BY <2>4, <2>5, <2>6
<1>3. Ordered'
  BY <1>2, Zenon DEF IInv, Ordered, entry, entries, OrderedThread
<1>4. Told'
  BY DEF IInv, Told, ToldThread
<1>5. Renaming'
  BY Sizes DEF IInv, TypeOK, Renaming
<1>6. SourceHeld'
  BY SourcesStay
<1> QED BY <1>1, <1>3, <1>4, <1>5, <1>6, RegistersStay DEF IInv

(* Looking up the sources of an instruction (renameSrcRegs) keeps the invariant. *)
LEMMA RenameSrcRegsInv == ASSUME IInv, RenameSrcRegs PROVE IInv'
<1> PICK n \in 0..MaxDestRegs, a \in Regs :
           /\ n <= Len(freeList) /\ destsLeft' = n
           /\ rob' = [rob EXCEPT ![tid] = Append(@, [seqNum |-> globalSeqNum + 1,
                                                     srcReg |-> renameMap[tid][a]])]
  BY Zenon DEF RenameSrcRegs
<1> DEFINE g == globalSeqNum + 1
           r == [seqNum |-> g, srcReg |-> renameMap[tid][a]]
<1>1. /\ globalSeqNum' = g /\ g \in 1..MaxSeqNum /\ globalSeqNum \in Nat
      /\ phase = "rename" /\ ~fromCommit[tid].squash /\ TypeOK /\ r \in Insts
      /\ UNCHANGED <<phase, tid, renameMap, commitMap, freeList, historyBuffer, committed,
                     lastCommitedSeqNum, fromCommit>>
  <2>1. TypeOK /\ globalSeqNum' = g /\ globalSeqNum < MaxSeqNum
    BY DEF IInv, RenameSrcRegs
  <2>2. /\ phase = "rename" /\ ~fromCommit[tid].squash
        /\ UNCHANGED <<phase, tid, renameMap, commitMap, freeList, historyBuffer, committed,
                       lastCommitedSeqNum, fromCommit>>
    BY Zenon DEF RenameSrcRegs
  <2>3. g \in 1..MaxSeqNum /\ globalSeqNum \in Nat
    BY <2>1, Sizes DEF TypeOK
  <2>4. renameMap[tid][a] \in PhysRegs
    BY <2>1 DEF TypeOK
  <2>5. r \in Insts
    <3> HIDE DEF g
    <3> QED BY <2>3, <2>4 DEF Insts
  <2> HIDE DEF r
  <2> QED BY <2>1, <2>2, <2>3, <2>5
<1>20. rob' = [rob EXCEPT ![tid] = Append(@, r)]
  OBVIOUS
<1> HIDE DEF r, g
<1>2. \A t \in Threads :
        \/ rob'[t] = rob[t]
        \/ /\ t = tid /\ Len(rob'[t]) = Len(rob[t]) + 1 /\ rob'[t][Len(rob[t]) + 1] = r
           /\ \A i \in 1..Len(rob[t]) : rob'[t][i] = rob[t][i]
  BY <1>1, <1>20, Appended, Typed DEF TypeOK
<1>21. \A t \in Threads : \A i \in 1..Len(rob'[t]) :
        \/ i \in 1..Len(rob[t]) /\ rob'[t][i] = rob[t][i]
        \/ t = tid /\ i = Len(rob[t]) + 1 /\ rob'[t][i] = r
  <2> TAKE t \in Threads
  <2> TAKE i \in 1..Len(rob'[t])
  <2>1. CASE t # tid
    BY <1>1, <1>20, <2>1 DEF TypeOK
  <2>2. CASE t = tid
    <3>1. rob'[t] = Append(rob[t], r) /\ rob[t] \in Seq(Insts)
      BY <1>1, <1>20, <2>2, Typed, SMTT(30) DEF TypeOK
    <3> QED BY <1>1, <2>2, <3>1, Appended
  <2> QED BY <2>1, <2>2
<1>3. TypeOK'
  <2>1. rob' \in [Threads -> Seq(Insts)]
    BY <1>1, <1>20, Appended, Typed DEF TypeOK
  <2> QED BY <1>1, <2>1, SMTT(30) DEF TypeOK
<1>4. Ordered'
  BY <1>1, Typed, SMTT(30) DEF IInv, Ordered, entry, entries, g, OrderedThread
<1>5. Told'
  <2> SUFFICES ASSUME NEW t \in Threads
               PROVE  /\ \A i \in 1..Len(rob'[t]) :
                           /\ lastCommitedSeqNum[t] < rob'[t][i].seqNum /\ rob'[t][i].seqNum <= g
                           /\ fromCommit[t].squash => rob'[t][i].seqNum <= fromCommit[t].doneSeqNum
                      /\ \A i, j \in 1..Len(rob'[t]) : i < j => rob'[t][i].seqNum < rob'[t][j].seqNum
    BY <1>1 DEF IInv, Told, ToldThread
  <2>1. /\ lastCommitedSeqNum[t] \in Nat /\ lastCommitedSeqNum[t] <= globalSeqNum
        /\ \A i \in 1..Len(rob[t]) : rob[t][i].seqNum \in Nat
        /\ r.seqNum = g /\ g = globalSeqNum + 1
    BY <1>1, Typed DEF IInv, Ordered, g, r, OrderedThread
  <2>2. ~fromCommit[tid].squash
    BY <1>1
  <2>3. \A i \in 1..Len(rob'[t]) :
          /\ lastCommitedSeqNum[t] < rob'[t][i].seqNum /\ rob'[t][i].seqNum <= g
          /\ fromCommit[t].squash => rob'[t][i].seqNum <= fromCommit[t].doneSeqNum
    <3> SUFFICES ASSUME NEW i \in 1..Len(rob'[t])
                 PROVE  /\ lastCommitedSeqNum[t] < rob'[t][i].seqNum /\ rob'[t][i].seqNum <= g
                        /\ fromCommit[t].squash => rob'[t][i].seqNum <= fromCommit[t].doneSeqNum
      OBVIOUS
    <3>1. CASE i \in 1..Len(rob[t]) /\ rob'[t][i] = rob[t][i]
      BY <1>1, <2>1, <3>1 DEF IInv, Told, ToldThread
    <3>2. CASE t = tid /\ rob'[t][i] = r
      BY <1>1, <2>1, <2>2, <3>2, SMTT(30)
    <3> QED BY <1>21, <3>1, <3>2
  <2>4. \A i, j \in 1..Len(rob'[t]) : i < j => rob'[t][i].seqNum < rob'[t][j].seqNum
    <3> SUFFICES ASSUME NEW i \in 1..Len(rob'[t]), NEW j \in 1..Len(rob'[t]), i < j
                 PROVE  rob'[t][i].seqNum < rob'[t][j].seqNum
      OBVIOUS
    <3>1. i \in 1..Len(rob[t]) /\ rob'[t][i] = rob[t][i]
      BY <1>1, <1>21, <1>2, Typed, SMTT(30)
    <3>2. rob[t][i].seqNum <= globalSeqNum
      BY <3>1 DEF IInv, Told, ToldThread
    <3>3. CASE j \in 1..Len(rob[t]) /\ rob'[t][j] = rob[t][j]
      BY <3>1, <3>3 DEF IInv, Told, ToldThread
    <3>4. CASE t = tid /\ rob'[t][j] = r
      BY <1>1, <2>1, <3>1, <3>2, <3>4, SMTT(30)
    <3> QED BY <1>21, <3>3, <3>4
  <2> QED BY <2>3, <2>4, SMTT(30)
<1>6. Renaming'
  <2>1. /\ lastCommitedSeqNum[tid] \in Nat /\ lastCommitedSeqNum[tid] <= globalSeqNum
        /\ g = globalSeqNum + 1
    BY <1>1, Typed DEF IInv, Ordered, g, OrderedThread
  <2> QED BY <1>1, <2>1 DEF Renaming
<1>7. SourceHeld'
  <2>1. \A u \in Threads : \A k \in entries(u) :
          kept(u, k) /\ entry(u, k).newPhysReg = renameMap[tid][a]
          => u = tid /\ entry(u, k).instSeqNum < g
    <3> SUFFICES ASSUME NEW u \in Threads, NEW k \in entries(u), kept(u, k),
                        entry(u, k).newPhysReg = renameMap[tid][a]
                 PROVE  u = tid /\ entry(u, k).instSeqNum < g
      BY SMTT(30)
    <3>1. entry(u, k).instSeqNum <= globalSeqNum /\ entry(u, k).instSeqNum \in Nat
      BY <1>1, Typed DEF IInv, Ordered, entry, entries, OrderedThread
    <3>2. entry(u, k).archReg \in Regs
      BY <1>1, Typed, SMTT(30) DEF entry, entries, RenameHistory
    <3>3. u = tid
      BY <1>1, Typed, NewMapped
    <3> QED BY <1>1, <3>1, <3>3 DEF g
  <2>2. Held(tid, r.seqNum, r.srcReg)
    BY <2>1 DEF r, Held
  <2>3. \A t \in Threads : \A i \in 1..Len(rob[t]) : Held(t, rob[t][i].seqNum, rob[t][i].srcReg)
    BY DEF IInv, SourceHeld
  <2> HIDE DEF r
  <2>4. \A t \in Threads : \A i \in 1..Len(rob'[t]) : Held(t, rob'[t][i].seqNum, rob'[t][i].srcReg)
    BY <1>1, <1>21, <2>2, <2>3
  <2> SUFFICES ASSUME NEW t \in Threads, NEW i \in 1..Len(rob'[t])
               PROVE  Held(t, rob[t][i].seqNum, rob[t][i].srcReg)'
    BY DEF SourceHeld
  <2>5. Held(t, rob'[t][i].seqNum, rob'[t][i].srcReg)
    BY <2>4
  <2> QED BY <1>1, <2>5, Zenon DEF Held, entry, entries, kept, prevReg
<1> QED BY <1>1, <1>3, <1>4, <1>5, <1>6, <1>7, RegistersStay DEF IInv

(* Retiring the head of the ROB (commitHead) keeps the invariant. *)
LEMMA CommitHeadInv == ASSUME IInv, CommitHead PROVE IInv'
<1> DEFINE sn == Head(rob[tid]).seqNum
<1>1. /\ TypeOK /\ phase = "commit" /\ ~fromCommit[tid].squash
      /\ UNCHANGED <<phase, tid, globalSeqNum, destsLeft, renameMap, commitMap, freeList,
                     historyBuffer, committed>>
  BY DEF IInv, CommitHead
<1>2. /\ tid \in Threads /\ Len(rob[tid]) \in Nat \ {0} /\ Head(rob[tid]) = rob[tid][1]
      /\ Head(rob[tid]) \in Insts /\ Tail(rob[tid]) \in Seq(Insts)
      /\ Len(Tail(rob[tid])) = Len(rob[tid]) - 1
      /\ \A i \in 1..Len(Tail(rob[tid])) :
           i + 1 \in 1..Len(rob[tid]) /\ Tail(rob[tid])[i] = rob[tid][i + 1]
  <2>1. tid \in Threads /\ rob[tid] \in Seq(Insts) /\ rob[tid] # <<>>
    BY <1>1, Typed DEF CommitHead
  <2> QED BY <2>1, Tailed
<1>3. sn \in 1..MaxSeqNum
  BY <1>2 DEF Insts
<1>4. /\ rob' = [rob EXCEPT ![tid] = Tail(rob[tid])]
      /\ lastCommitedSeqNum' = [lastCommitedSeqNum EXCEPT ![tid] = sn]
      /\ fromCommit' = [fromCommit EXCEPT ![tid] = [fromCommit[tid] EXCEPT !.doneSeqNum = sn]]
  BY DEF CommitHead
<1> HIDE DEF sn
<1>5. /\ [fromCommit[tid] EXCEPT !.doneSeqNum = sn] \in Words
      /\ [fromCommit[tid] EXCEPT !.doneSeqNum = sn].squash = fromCommit[tid].squash
      /\ [fromCommit[tid] EXCEPT !.doneSeqNum = sn].doneSeqNum = sn
  <2>1. fromCommit[tid] \in Words
    BY <1>1, Typed
  <2> QED BY <1>3, <2>1 DEF Words
<1>6. TypeOK'
  BY <1>1, <1>2, <1>3, <1>4, <1>5, Sizes, SMTT(30) DEF TypeOK
<1>7. /\ lastCommitedSeqNum'[tid] = sn /\ ~fromCommit'[tid].squash
      /\ fromCommit'[tid].doneSeqNum = sn /\ rob'[tid] = Tail(rob[tid])
      /\ \A t \in Threads \ {tid} :
           /\ lastCommitedSeqNum'[t] = lastCommitedSeqNum[t]
           /\ fromCommit'[t] = fromCommit[t] /\ rob'[t] = rob[t]
  BY <1>1, <1>2, <1>4, <1>5 DEF TypeOK
<1>8. lastCommitedSeqNum[tid] < sn /\ sn <= globalSeqNum
  BY <1>1, <1>2, Typed DEF IInv, Told, ToldThread, sn
<1>9. Ordered'
  BY <1>1, <1>2, <1>3, <1>7, <1>8, Typed, SMTT(30) DEF IInv, Ordered, entry, entries, OrderedThread
<1>10. Told'
  <2>1. \A i \in 1..Len(rob'[tid]) : sn < rob'[tid][i].seqNum /\ rob'[tid][i].seqNum <= globalSeqNum
    BY <1>2, <1>7, SMTT(30) DEF IInv, Told, ToldThread, sn
  <2>2. \A i, j \in 1..Len(rob'[tid]) : i < j => rob'[tid][i].seqNum < rob'[tid][j].seqNum
    BY <1>2, <1>7 DEF IInv, Told, ToldThread
  <2>3. ToldThread(tid)'
    BY <1>1, <1>7, <2>1, <2>2 DEF ToldThread
  <2>4. \A t \in Threads \ {tid} : ToldThread(t)'
    BY <1>1, <1>7 DEF IInv, Told, ToldThread
  <2> QED BY <1>1, <2>3, <2>4 DEF Told
<1>11. Renaming'
  BY <1>1, Sizes DEF IInv, TypeOK, Renaming
<1>12. SourceHeld'
  <2>1. \A t \in Threads : \A i \in 1..Len(rob'[t]) :
          \E j \in 1..Len(rob[t]) : rob'[t][i] = rob[t][j]
    <3> TAKE t \in Threads
    <3> TAKE i \in 1..Len(rob'[t])
    <3>1. CASE t = tid
      <4>1. i + 1 \in 1..Len(rob[t]) /\ rob'[t][i] = rob[t][i + 1]
        BY <1>2, <1>7, <3>1, Zenon
      <4> QED BY <4>1
    <3>2. CASE t # tid
      BY <1>7, <3>2
    <3> QED BY <3>1, <3>2
  <2> QED BY <1>1, <2>1, SourcesStay
<1> QED BY <1>1, <1>6, <1>9, <1>10, <1>11, <1>12, RegistersStay DEF IInv

(* A squash told by commit keeps the invariant. *)
LEMMA SquashInv == ASSUME IInv, Squash PROVE IInv'
<1> DEFINE robNums == {rob[tid][i].seqNum : i \in 1..Len(rob[tid])}
<1> PICK sn \in {lastCommitedSeqNum[tid]} \cup robNums \cup {s - 1 : s \in robNums},
         n \in 0..Len(rob[tid]) :
           /\ \A i \in 1..Len(rob[tid]) : rob[tid][i].seqNum <= sn <=> i <= n
           /\ fromCommit' = [fromCommit EXCEPT ![tid] = [squash |-> TRUE, doneSeqNum |-> sn]]
           /\ rob' = [rob EXCEPT ![tid] = SubSeq(@, 1, n)]
  BY Zenon DEF Squash
<1>1. /\ TypeOK /\ phase = "commit"
      /\ UNCHANGED <<phase, tid, globalSeqNum, destsLeft, renameMap, commitMap, freeList,
                     historyBuffer, committed, lastCommitedSeqNum>>
  BY DEF IInv, Squash
<1>2. /\ tid \in Threads /\ Len(rob[tid]) \in Nat /\ lastCommitedSeqNum[tid] \in 0..MaxSeqNum
      /\ \A i \in 1..Len(rob[tid]) : rob[tid][i].seqNum \in 1..MaxSeqNum
  BY <1>1, Typed, Zenon DEF TypeOK, Insts
<1>3. sn \in 0..MaxSeqNum /\ lastCommitedSeqNum[tid] <= sn
  <2>1. \A s \in robNums : s \in 1..MaxSeqNum /\ lastCommitedSeqNum[tid] < s
    BY <1>2 DEF IInv, Told, ToldThread
  <2>2. CASE sn \in robNums
    <3> HIDE DEF robNums
    <3> QED BY <1>2, <2>1, <2>2, Sizes
  <2>3. ASSUME NEW s \in robNums, sn = s - 1
        PROVE  sn \in 0..MaxSeqNum /\ lastCommitedSeqNum[tid] <= sn
    <3> HIDE DEF robNums
    <3> QED BY <1>2, <2>1, <2>3, Sizes
  <2> QED BY <1>2, <2>2, <2>3, SMTT(30)
<1>4. \A t \in Threads :
        IF t = tid
        THEN /\ fromCommit'[t] = [squash |-> TRUE, doneSeqNum |-> sn] /\ Len(rob'[t]) = n
             /\ \A i \in 1..Len(rob'[t]) :
                  i \in 1..Len(rob[t]) /\ rob'[t][i] = rob[t][i] /\ rob[t][i].seqNum <= sn
        ELSE fromCommit'[t] = fromCommit[t] /\ rob'[t] = rob[t]
  <2>1. /\ rob'[tid] = SubSeq(rob[tid], 1, n) /\ rob[tid] \in Seq(Insts)
        /\ fromCommit'[tid] = [squash |-> TRUE, doneSeqNum |-> sn]
        /\ \A t \in Threads \ {tid} : fromCommit'[t] = fromCommit[t] /\ rob'[t] = rob[t]
    BY <1>1, <1>2, Typed DEF TypeOK
  <2> DEFINE z == SubSeq(rob[tid], 1, n)
  <2>2. Len(z) = n /\ \A i \in 1..n : i \in 1..Len(rob[tid]) /\ z[i] = rob[tid][i]
    BY <2>1, Cut
  <2> HIDE DEF z
  <2>3. rob'[tid] = z
    BY <2>1 DEF z
  <2>4. \A i \in 1..n : rob[tid][i].seqNum <= sn
    BY <1>2, <2>2, SMTT(30)
  <2> QED BY <2>1, <2>2, <2>3, <2>4, SMTT(30)
<1>5. TypeOK'
  <2>1. rob' \in [Threads -> Seq(Insts)]
    BY <1>1, <1>2, Typed, SMTT(30) DEF TypeOK
  <2>2. fromCommit' \in [Threads -> Words]
    BY <1>1, <1>2, <1>3 DEF TypeOK, Words
  <2> QED BY <1>1, <2>1, <2>2, SMTT(30) DEF TypeOK
<1>6. Ordered'
  BY <1>1, SMTT(30) DEF IInv, Ordered, entry, entries, OrderedThread
<1>7. Told'
  <2>1. ToldThread(tid)'
    <3>1. ToldThread(tid) /\ rob[tid] \in Seq(Insts)
      BY <1>1, <1>2, Typed, SMTT(30) DEF IInv, Told
    <3>2. /\ fromCommit'[tid].squash /\ fromCommit'[tid].doneSeqNum = sn /\ Len(rob'[tid]) = n
          /\ \A i \in 1..n : i \in 1..Len(rob[tid]) /\ rob'[tid][i] = rob[tid][i]
                              /\ rob[tid][i].seqNum <= sn
      BY <1>2, <1>4, SMTT(30)
    <3> QED BY <1>1, <1>3, <3>1, <3>2, SMTT(30) DEF ToldThread
  <2>2. ASSUME NEW t \in Threads \ {tid} PROVE ToldThread(t)'
    <3>1. ToldThread(t)
      BY <1>1, Zenon DEF IInv, Told
    <3> QED BY <1>1, <1>4, <3>1, ZenonT(30) DEF ToldThread
  <2> QED BY <1>1, <2>1, <2>2, SMTT(30) DEF Told
<1>8. Renaming'
  BY <1>1, Sizes DEF IInv, TypeOK, Renaming
<1>9. SourceHeld'
  <2>1. \A t \in Threads : \A i \in 1..Len(rob'[t]) :
          \E j \in 1..Len(rob[t]) : rob'[t][i] = rob[t][j]
    BY <1>4
  <2> QED BY <1>1, <2>1, SourcesStay, ZenonT(30)
<1> QED BY <1>1, <1>5, <1>6, <1>7, <1>8, <1>9, RegistersStay DEF IInv

(* Writing one destination into the commit map (setEntry) keeps the invariant. *)
LEMMA CommitSetEntryInv == ASSUME IInv, CommitSetEntry PROVE IInv'
<1> DEFINE c == committed[tid] + 1
           e == entry(tid, c)
<1>1. /\ TypeOK /\ Ordered /\ phase = "commit" /\ entering
      /\ UNCHANGED <<phase, tid, globalSeqNum, destsLeft, renameMap, freeList, historyBuffer,
                     lastCommitedSeqNum, rob, fromCommit>>
      /\ commitMap' = [commitMap EXCEPT ![tid][e.archReg] = e.newPhysReg]
      /\ committed' = [committed EXCEPT ![tid] = c]
  BY DEF IInv, CommitSetEntry, entry
<1>2. /\ tid \in Threads /\ committed[tid] \in Nat /\ Len(historyBuffer[tid]) \in Nat
      /\ c \in entries(tid)
  BY <1>1, Typed DEF Ordered, entering, entries, OrderedThread
<1>3. e.archReg \in Regs /\ e.newPhysReg \in PhysRegs /\ e.instSeqNum <= lastCommitedSeqNum[tid]
  <2>1. e \in RenameHistory
    BY <1>1, <1>2, Typed DEF entry, entries
  <2> QED BY <1>1, <2>1 DEF RenameHistory, entering, entry
<1>4. TypeOK'
  BY <1>1, <1>2, <1>3 DEF TypeOK
<1>5. /\ committed'[tid] = c /\ commitMap'[tid][e.archReg] = e.newPhysReg
      /\ \A a \in Regs \ {e.archReg} : commitMap'[tid][a] = commitMap[tid][a]
      /\ \A t \in Threads \ {tid} : committed'[t] = committed[t] /\ commitMap'[t] = commitMap[t]
  BY <1>1, <1>2, <1>3 DEF TypeOK
<1> HIDE DEF e
<1>6. Ordered'
  <2>1. OrderedThread(tid)'
    BY <1>1, <1>2, <1>3, <1>5, SMTT(30) DEF Ordered, OrderedThread, entries, e, entry
  <2>2. \A t \in Threads \ {tid} : OrderedThread(t)'
    BY <1>1, <1>5, SMTT(30) DEF Ordered, OrderedThread, entry, entries
  <2> QED BY <1>1, <2>1, <2>2, SMTT(30) DEF Ordered
<1>7. Told' /\ Renaming'
  BY <1>1 DEF IInv, Told, ToldThread, Renaming
<1>8. NoRegisterTwice' /\ NoRegisterLost' /\ Chained'
  BY <1>1, RegistersStayPut
<1>9. CommitChained'
  <2>1. CommitChainedThread(tid)'
    <3>1. ASSUME NEW a \in Regs
          PROVE  \/ commitMap'[tid][a] = renameMap[tid][a]
                 \/ \E k \in entries(tid) :
                      /\ k > c /\ kept(tid, k) /\ entry(tid, k).archReg = a
                      /\ entry(tid, k).prevPhysReg = commitMap'[tid][a]
      <4>1. CASE a = e.archReg
        BY <1>2, <1>5, <4>1, SMTT(30) DEF IInv, Chained, ChainedEntry, NewOnce, e, entries
      <4>2. CASE a # e.archReg
        <5>1. commitMap'[tid][a] = commitMap[tid][a]
          BY <1>5, <4>2
        <5>2. ASSUME NEW k \in entries(tid), k > committed[tid], entry(tid, k).archReg = a
              PROVE  k > c
          BY <1>2, <4>2, <5>2 DEF e, entries
        <5> QED BY <1>2, <5>1, <5>2, SMTT(30) DEF IInv, CommitChained, CommitChainedThread
      <4> QED BY <4>1, <4>2, SMTT(30)
    <3>2. ASSUME NEW k \in entries(tid), NEW a \in Regs, k > c, kept(tid, k)
          PROVE  entry(tid, k).newPhysReg # commitMap'[tid][a]
      <4>1. CASE a = e.archReg /\ kept(tid, c)
        BY <1>2, <1>5, <3>2, <4>1, SMTT(30) DEF IInv, Chained, ChainedEntry, NewOnce, e, entries
      <4>2. CASE a = e.archReg /\ ~kept(tid, c)
        <5>1. renameMap[tid][a] = e.newPhysReg /\ a = ZeroReg
          BY <1>2, <4>2, SMTT(30) DEF IInv, Chained, ChainedEntry, NewOnce, e
        <5>2. entry(tid, k).archReg # ZeroReg
          BY <1>2, <3>2, SMTT(30) DEF IInv, Chained, ChainedEntry, NewOnce
        <5> QED BY <1>2, <1>5, <3>2, <4>2, <5>1, <5>2, NewMapped, SMTT(30)
      <4>3. CASE a # e.archReg
        <5>1. k > committed[tid]
          BY <1>2, <3>2, SMTT(30) DEF entries
        <5> QED BY <1>2, <1>5, <3>2, <4>3, <5>1 DEF IInv, CommitChained, CommitChainedThread
      <4> QED BY <4>1, <4>2, <4>3, SMTT(30)
    <3> QED BY <1>1, <1>5, <3>1, <3>2, SMTT(30) DEF CommitChainedThread, entry, entries, kept
  <2>2. \A t \in Threads \ {tid} : CommitChainedThread(t)'
    BY <1>1, <1>5 DEF IInv, CommitChained, CommitChainedThread, entry, entries, kept
  <2> QED BY <1>1, <2>1, <2>2, SMTT(30) DEF CommitChained
<1>10. SourceHeld'
  BY <1>1, SourcesStay
<1> QED BY <1>4, <1>6, <1>7, <1>8, <1>9, <1>10 DEF IInv
=============================================================================
