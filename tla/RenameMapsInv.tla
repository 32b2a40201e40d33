--------------------------- MODULE RenameMapsInv ----------------------------
(***************************************************************************)
(* The inductive invariant of the register maps, for any number of threads,*)
(* registers and instructions: what it says, that it holds at the start, and*)
(* the facts the proofs of its steps share.                                *)
(***************************************************************************)
EXTENDS RenameMaps, TLAPS

entry(t, k)  == historyBuffer[t][k]
entries(t)   == 1..Len(historyBuffer[t])

(* The entries of a history buffer are in the order of their instructions; the
   first of them, and only those, are of committed instructions, except while
   commit enters the destinations of one. *)
OrderedThread(t) ==
  /\ lastCommitedSeqNum[t] <= globalSeqNum
  /\ committed[t] \in 0..Len(historyBuffer[t])
  /\ \A k \in entries(t) : entry(t, k).instSeqNum <= globalSeqNum
  /\ \A j, k \in entries(t) : j <= k => entry(t, j).instSeqNum <= entry(t, k).instSeqNum
  /\ \A k \in entries(t) :
       k <= committed[t] => entry(t, k).instSeqNum <= lastCommitedSeqNum[t]
  /\ phase # "commit" \/ t # tid =>
       \A k \in entries(t) :
         k > committed[t] => entry(t, k).instSeqNum > lastCommitedSeqNum[t]

Ordered == \A t \in Threads : OrderedThread(t)

(* What commit tells a thread, and the instructions it has left. *)
ToldThread(t) ==
  /\ fromCommit[t].squash => lastCommitedSeqNum[t] <= fromCommit[t].doneSeqNum
  /\ fromCommit[t].doneSeqNum # 0 /\ ~fromCommit[t].squash =>
       fromCommit[t].doneSeqNum = lastCommitedSeqNum[t]
  /\ \A i \in 1..Len(rob[t]) :
       /\ lastCommitedSeqNum[t] < rob[t][i].seqNum /\ rob[t][i].seqNum <= globalSeqNum
       /\ fromCommit[t].squash => rob[t][i].seqNum <= fromCommit[t].doneSeqNum
  /\ \A i, j \in 1..Len(rob[t]) : i < j => rob[t][i].seqNum < rob[t][j].seqNum

Told == \A t \in Threads : ToldThread(t)

(* While an instruction is being renamed, the list has the registers it needs. *)
Renaming ==
  destsLeft > 0 => /\ phase = "rename" /\ destsLeft <= Len(freeList)
                   /\ ~fromCommit[tid].squash
                   /\ lastCommitedSeqNum[tid] < globalSeqNum

(* A register that a rename allocated is where the next rename of the same
   architectural register, or the map, has it; no two renames have the same. *)
ChainedEntry(t, k) ==
  /\ kept(t, k) <=> entry(t, k).archReg # ZeroReg
  /\ ~kept(t, k) => entry(t, k).newPhysReg = renameMap[t][entry(t, k).archReg]
  /\ kept(t, k) =>
       \/ renameMap[t][entry(t, k).archReg] = entry(t, k).newPhysReg
       \/ \E m \in entries(t) : /\ k < m /\ kept(t, m) /\ entry(t, m).archReg = entry(t, k).archReg
                                /\ entry(t, m).prevPhysReg = entry(t, k).newPhysReg

NewOnce ==
  \A t, u \in Threads : \A k \in entries(t), m \in entries(u) :
    kept(t, k) /\ kept(u, m) /\ entry(t, k).newPhysReg = entry(u, m).newPhysReg => t = u /\ k = m

Chained == NewOnce /\ \A t \in Threads : \A k \in entries(t) : ChainedEntry(t, k)

(* What the commit map has for an architectural register is what the map has, or
   what the first rename that did not commit will restore. *)
CommitChainedThread(t) ==
  /\ \A a \in Regs :
       \/ commitMap[t][a] = renameMap[t][a]
       \/ \E k \in entries(t) :
            /\ k > committed[t] /\ kept(t, k) /\ entry(t, k).archReg = a
            /\ entry(t, k).prevPhysReg = commitMap[t][a]
  /\ \A k \in entries(t) : \A a \in Regs :
       k > committed[t] /\ kept(t, k) => entry(t, k).newPhysReg # commitMap[t][a]

CommitChained == \A t \in Threads : CommitChainedThread(t)

(* The register an instruction reads is mapped, or a rename that is not older than
   the instruction would restore it; the rename that allocated it is older. *)
Held(t, sn, src) ==
  /\ \/ \E a \in Regs : renameMap[t][a] = src
     \/ \E k \in entries(t) : kept(t, k) /\ prevReg(t, k) = src /\ entry(t, k).instSeqNum >= sn
  /\ \A u \in Threads : \A k \in entries(u) :
       kept(u, k) /\ entry(u, k).newPhysReg = src => u = t /\ entry(u, k).instSeqNum < sn

SourceHeld ==
  \A t \in Threads : \A i \in 1..Len(rob[t]) : Held(t, rob[t][i].seqNum, rob[t][i].srcReg)

IInv ==
  /\ TypeOK /\ Ordered /\ Told /\ Renaming
  /\ NoRegisterTwice /\ NoRegisterLost
  /\ Chained /\ CommitChained /\ SourceHeld
-----------------------------------------------------------------------------
(* The sizes the constructor is given, without the bound that relates them. *)
LEMMA Sizes ==
  /\ NumThreads \in Nat \ {0} /\ NumRegs \in Nat \ {0} /\ NumPhysRegs \in Nat
  /\ MaxDestRegs \in Nat /\ MaxSeqNum \in Nat
  BY RegsAssumption

(* Rows of NumRegs registers do not overlap: the arithmetic of the initial maps. *)
LEMMA Times == \A u, v \in Nat : u < v => u * NumRegs + NumRegs <= v * NumRegs
<1>1. SUFFICES ASSUME NEW u \in Nat, NEW v \in Nat, u < v
               PROVE  u * NumRegs + NumRegs <= v * NumRegs
  OBVIOUS
<1> DEFINE d == v - u - 1
<1>2. d \in Nat /\ v = u + 1 + d
  BY <1>1
<1> HIDE DEF d
<1>3. v * NumRegs = u * NumRegs + NumRegs + d * NumRegs
  BY <1>2, RegsAssumption
<1>4. d * NumRegs \in Nat /\ u * NumRegs \in Nat
  BY <1>2, RegsAssumption
<1> QED BY <1>3, <1>4, RegsAssumption

(* The constructor of FullO3CPU gives every architectural register of every
   thread a physical register of its own. *)
LEMMA InitialRegs ==
  ASSUME NEW t \in Threads, NEW a \in Regs
  PROVE  /\ initialReg(t, a) \in PhysRegs /\ initialReg(t, a) < NumThreads * NumRegs
         /\ \A u \in Threads : \A b \in Regs :
              initialReg(t, a) = initialReg(u, b) => t = u /\ a = b
<1> USE RegsAssumption DEF Threads, Regs, PhysRegs
<1>1. \A u, v \in Nat : u < v => u * NumRegs + NumRegs <= v * NumRegs
  BY Times
<1>2. \A v \in Nat : v * NumRegs \in Nat
  OBVIOUS
<1>3. \A u \in Threads : \A b \in Regs :
        /\ initialReg(u, b) \in Nat
        /\ (u - 1) * NumRegs <= initialReg(u, b) /\ initialReg(u, b) < (u - 1) * NumRegs + NumRegs
  BY <1>2 DEF initialReg
<1>4. initialReg(t, a) < NumThreads * NumRegs
  BY <1>1, <1>2, <1>3
<1>5. ASSUME NEW u \in Threads, NEW b \in Regs, initialReg(t, a) = initialReg(u, b)
      PROVE  t = u /\ a = b
  <2>1. ~(t < u) /\ ~(u < t)
    BY <1>1, <1>2, <1>3, <1>5
  <2>2. t = u
    BY <2>1
  <2> QED BY <1>2, <1>5, <2>2 DEF initialReg
<1> QED BY <1>2, <1>3, <1>4, <1>5

(* The state the constructor leaves satisfies the invariant. *)
LEMMA InvInit == Init => IInv
<1> SUFFICES ASSUME Init PROVE IInv
  OBVIOUS
<1> DEFINE P == NumThreads * NumRegs
           F == NumPhysRegs - P
<1>1. P \in Nat /\ F \in Nat /\ 1 \in Threads /\ NumPhysRegs \in Nat
  BY RegsAssumption DEF Threads
<1>2. /\ Len(freeList) = F /\ freeList \in Seq(PhysRegs)
      /\ \A i \in 1..F : freeList[i] = P + i - 1
  <2>1. freeList = [i \in 1..F |-> P + i - 1]
    BY DEF Init
  <2> HIDE DEF P
  <2>2. \A i \in 1..F : P + i - 1 \in PhysRegs
    BY <1>1 DEF PhysRegs
  <2> HIDE DEF F
  <2> QED BY <1>1, <2>1, <2>2
<1>3. \A t \in Threads :
        /\ historyBuffer[t] = <<>> /\ rob[t] = <<>> /\ committed[t] = 0
        /\ lastCommitedSeqNum[t] = 0 /\ fromCommit[t] = Silence
        /\ \A a \in Regs : /\ renameMap[t][a] = initialReg(t, a)
                            /\ commitMap[t][a] = initialReg(t, a)
  BY DEF Init
<1>4. TypeOK
  <2>1. renameMap \in [Threads -> [Regs -> PhysRegs]] /\ commitMap = renameMap
    BY InitialRegs DEF Init
  <2>2. Silence \in Words /\ 0 \in 0..MaxSeqNum /\ 0 \in 0..MaxDestRegs
    BY RegsAssumption DEF Silence, Words
  <2> QED BY <1>1, <1>2, <2>1, <2>2 DEF Init, TypeOK
<1>5. Ordered /\ Told /\ Renaming
  BY <1>1, <1>3 DEF Init, Ordered, Told, ToldThread, Renaming, entries, Silence, OrderedThread
<1>6. NoRegisterTwice
  BY <1>1, <1>2, <1>3, InitialRegs, SMTT(30) DEF NoRegisterTwice, free
<1>7. NoRegisterLost
  <2> SUFFICES ASSUME NEW p \in PhysRegs, p \notin free
               PROVE  \E t \in Threads : \E a \in Regs : renameMap[t][a] = p
    BY DEF NoRegisterLost
  <2>1. p < P
    <3> HIDE DEF P
    <3> DEFINE j == p - P + 1
    <3>1. P + j - 1 = p
      BY <1>1 DEF PhysRegs
    <3>2. j \notin 1..F
      <4> HIDE DEF j, F
      <4> QED BY <1>2, <3>1 DEF free
    <3> QED BY <1>1, <3>2 DEF PhysRegs
  <2>2. p \in Nat /\ NumRegs \in Nat \ {0}
    BY RegsAssumption DEF PhysRegs
  <2> DEFINE t == (p \div NumRegs) + 1
             a == p % NumRegs
  <2>3. p = NumRegs * (p \div NumRegs) + a /\ a \in 0..(NumRegs - 1) /\ p \div NumRegs \in Nat
    BY <2>2
  <2>4. p \div NumRegs < NumThreads
    <3> DEFINE q == p \div NumRegs
    <3>1. q * NumRegs <= p /\ q * NumRegs \in Nat
      BY <2>2, <2>3
    <3>2. ~(NumThreads < q)
      BY <1>1, <2>1, <2>2, <2>3, <3>1, Times, RegsAssumption
    <3>3. NumThreads # q
      BY <1>1, <2>1, <2>2, <2>3, <3>1
    <3> QED BY <2>3, <3>2, <3>3, RegsAssumption
  <2>5. t \in Threads /\ a \in Regs
    BY <2>3, <2>4, RegsAssumption DEF Threads, Regs
  <2>6. initialReg(t, a) = p
    BY <2>2, <2>3 DEF initialReg
  <2> QED BY <1>3, <2>5, <2>6
<1>8. Chained /\ CommitChained /\ SourceHeld
  BY <1>3 DEF Chained, ChainedEntry, NewOnce, CommitChained, SourceHeld, entries, CommitChainedThread
<1> QED BY <1>4, <1>5, <1>6, <1>7, <1>8 DEF IInv
-----------------------------------------------------------------------------
(* Most steps leave the registers where they are. *)
LEMMA RegistersStayPut ==
  ASSUME IInv, UNCHANGED <<renameMap, freeList, historyBuffer>>
  PROVE  NoRegisterTwice' /\ NoRegisterLost' /\ Chained'
<1> USE DEF IInv, free, kept, prevReg, entry, entries
<1>1. NoRegisterTwice'
  BY DEF NoRegisterTwice
<1>2. NoRegisterLost'
  BY DEF NoRegisterLost
<1>3. Chained'
  BY DEF Chained, ChainedEntry, NewOnce
<1> QED BY <1>1, <1>2, <1>3

(* A step that moves no register keeps the facts about registers. *)
LEMMA RegistersStay ==
  ASSUME IInv, UNCHANGED <<renameMap, commitMap, freeList, historyBuffer, committed>>
  PROVE  NoRegisterTwice' /\ NoRegisterLost' /\ Chained' /\ CommitChained'
<1>1. CommitChained'
  BY DEF IInv, CommitChained, CommitChainedThread, kept, prevReg, entry, entries
<1> QED BY <1>1, RegistersStayPut

(* A step that moves no register and adds no instruction to the ROB keeps the
   operands of those in flight. *)
LEMMA SourcesStay ==
  ASSUME IInv, UNCHANGED <<renameMap, historyBuffer>>,
         \A t \in Threads : \A i \in 1..Len(rob'[t]) :
           \E j \in 1..Len(rob[t]) : rob'[t][i] = rob[t][j]
  PROVE  SourceHeld'
<1>1. \A t \in Threads : \A i \in 1..Len(rob'[t]) :
        Held(t, rob'[t][i].seqNum, rob'[t][i].srcReg)
  BY DEF IInv, SourceHeld
<1> SUFFICES ASSUME NEW t \in Threads, NEW i \in 1..Len(rob'[t])
             PROVE  Held(t, rob[t][i].seqNum, rob[t][i].srcReg)'
  BY DEF SourceHeld
<1>2. Held(t, rob'[t][i].seqNum, rob'[t][i].srcReg)
  BY <1>1
<1> QED BY <1>2 DEF Held, entry, entries, kept, prevReg

(* What the types say of the sequences. *)
LEMMA Typed ==
  ASSUME TypeOK
  PROVE  /\ tid \in Threads /\ NumThreads \in Nat
         /\ \A t \in Threads :
              /\ historyBuffer[t] \in Seq(RenameHistory) /\ rob[t] \in Seq(Insts)
              /\ Len(historyBuffer[t]) \in Nat /\ Len(rob[t]) \in Nat
              /\ committed[t] \in Int /\ lastCommitedSeqNum[t] \in Nat
              /\ fromCommit[t] \in Words /\ fromCommit[t].doneSeqNum \in Nat
              /\ fromCommit[t].squash \in BOOLEAN
              /\ \A k \in 1..Len(historyBuffer[t]) :
                   historyBuffer[t][k] \in RenameHistory /\ historyBuffer[t][k].instSeqNum \in Nat
              /\ \A i \in 1..Len(rob[t]) : rob[t][i] \in Insts /\ rob[t][i].seqNum \in Nat
<1> USE DEF TypeOK
<1>1. \A w \in Words : w.squash \in BOOLEAN
  BY Zenon DEF Words
<1>2. \A w \in Words : w.doneSeqNum \in Nat
  BY Sizes DEF Words
<1>3. \A h \in RenameHistory : h.instSeqNum \in Nat
  BY Sizes DEF RenameHistory
<1>4. \A r \in Insts : r.seqNum \in Nat
  BY Sizes DEF Insts
<1>5. tid \in Threads /\ NumThreads \in Nat
  BY Sizes
<1> SUFFICES ASSUME NEW t \in Threads
             PROVE  /\ historyBuffer[t] \in Seq(RenameHistory) /\ rob[t] \in Seq(Insts)
                    /\ committed[t] \in Int /\ lastCommitedSeqNum[t] \in Nat
                    /\ fromCommit[t] \in Words
  BY <1>1, <1>2, <1>3, <1>4, <1>5, SMTT(30)
<1> QED BY Sizes

(* What Append leaves where it was. *)
LEMMA Appended ==
  ASSUME NEW S, NEW q \in Seq(S), NEW x \in S
  PROVE  /\ Append(q, x) \in Seq(S) /\ Len(Append(q, x)) = Len(q) + 1 /\ Len(q) \in Nat
         /\ Append(q, x)[Len(q) + 1] = x
         /\ \A i \in 1..Len(q) : Append(q, x)[i] = q[i]
         /\ \A i \in 1..Len(Append(q, x)) :
              \/ i \in 1..Len(q) /\ Append(q, x)[i] = q[i]
              \/ i = Len(q) + 1 /\ Append(q, x)[i] = x
<1> DEFINE z == Append(q, x)
<1>1. /\ z \in Seq(S) /\ Len(z) = Len(q) + 1 /\ Len(q) \in Nat /\ z[Len(q) + 1] = x
      /\ \A i \in 1..Len(q) : z[i] = q[i]
  OBVIOUS
<1> HIDE DEF z
<1>2. \A i \in 1..Len(z) : i \in 1..Len(q) \/ i = Len(q) + 1
  BY <1>1
<1> QED BY <1>1, <1>2, Zenon DEF z

(* What Tail leaves, one place down. *)
LEMMA Tailed ==
  ASSUME NEW S, NEW q \in Seq(S), q # <<>>
  PROVE  /\ Tail(q) \in Seq(S) /\ Len(Tail(q)) = Len(q) - 1 /\ Len(q) \in Nat \ {0}
         /\ Head(q) = q[1] /\ Head(q) \in S
         /\ \A i \in 1..Len(Tail(q)) : i + 1 \in 1..Len(q) /\ Tail(q)[i] = q[i + 1]
  OBVIOUS

(* What a prefix of a sequence holds. *)
LEMMA Cut ==
  ASSUME NEW S, NEW q \in Seq(S), NEW n \in 0..Len(q)
  PROVE  /\ SubSeq(q, 1, n) \in Seq(S) /\ Len(SubSeq(q, 1, n)) = n /\ Len(q) \in Nat
         /\ \A i \in 1..n : i \in 1..Len(q) /\ SubSeq(q, 1, n)[i] = q[i]
  OBVIOUS

(* The turn goes to the next thread, or to the first one in the next phase. *)
LEMMA TurnType ==
  ASSUME TypeOK, NEW following \in {"rename", "history", "commit"}, turnEnds(following)
  PROVE  phase' \in {"rename", "history", "commit"} /\ tid' \in Threads
<1>1. tid \in 1..NumThreads /\ phase \in {"rename", "history", "commit"}
  BY DEF TypeOK, Threads
<1>2. NumThreads \in Nat \ {0}
  BY Sizes
<1> QED BY <1>1, <1>2, SMTT(30) DEF turnEnds, Threads

(* What is mapped, or would be restored, is not free. *)
LEMMA CommitMapNotFree ==
  ASSUME IInv, NEW t \in Threads, NEW a \in Regs
  PROVE  commitMap[t][a] \notin free
  BY DEF IInv, CommitChained, NoRegisterTwice, prevReg, entry, entries, CommitChainedThread

(* An operand of an instruction in flight is not free. *)
LEMMA SourceNotFree ==
  ASSUME IInv, NEW t \in Threads, NEW i \in 1..Len(rob[t])
  PROVE  rob[t][i].srcReg \notin free
  BY DEF IInv, SourceHeld, Held, NoRegisterTwice, entry, entries

(* The register a rename gave out is not free. *)
LEMMA NewNotFree ==
  ASSUME IInv, NEW t \in Threads, NEW k \in entries(t), kept(t, k)
  PROVE  entry(t, k).newPhysReg \notin free
<1>1. entry(t, k).archReg \in Regs
  BY Typed DEF IInv, entry, entries, RenameHistory
<1> QED BY <1>1 DEF IInv, Chained, ChainedEntry, NewOnce, NoRegisterTwice, prevReg, entry, entries

(* The register of a rename, if it is mapped, is where that rename put it. *)
LEMMA NewMapped ==
  ASSUME IInv, NEW t \in Threads, NEW k \in entries(t), kept(t, k),
         NEW u \in Threads, NEW a \in Regs, renameMap[u][a] = entry(t, k).newPhysReg
  PROVE  u = t /\ a = entry(t, k).archReg
<1>1. entry(t, k).archReg \in Regs
  BY Typed DEF IInv, entry, entries, RenameHistory
<1> QED BY <1>1 DEF IInv, Chained, ChainedEntry, NewOnce, NoRegisterTwice, prevReg, entry, entries

(* A register that goes on the list is then the only one more that is free. *)
LEMMA FreeAppended ==
  ASSUME freeList \in Seq(PhysRegs), NEW x \in PhysRegs, x \notin free,
         freeList' = Append(freeList, x),
         \A i, j \in 1..Len(freeList) : freeList[i] = freeList[j] => i = j
  PROVE  /\ free' = free \cup {x}
         /\ \A i, j \in 1..Len(freeList') : freeList'[i] = freeList'[j] => i = j
         /\ freeList' \in Seq(PhysRegs) /\ Len(freeList') = Len(freeList) + 1
<1>1. /\ freeList' \in Seq(PhysRegs) /\ Len(freeList') = Len(freeList) + 1 /\ Len(freeList) \in Nat
      /\ freeList'[Len(freeList) + 1] = x
      /\ \A i \in 1..Len(freeList) : freeList'[i] = freeList[i]
      /\ \A i \in 1..Len(freeList') :
           \/ i \in 1..Len(freeList) /\ freeList'[i] = freeList[i]
           \/ i = Len(freeList) + 1 /\ freeList'[i] = x
  <2> DEFINE z == Append(freeList, x)
  <2>1. /\ z \in Seq(PhysRegs) /\ Len(z) = Len(freeList) + 1 /\ Len(freeList) \in Nat
        /\ z[Len(freeList) + 1] = x
        /\ \A i \in 1..Len(freeList) : z[i] = freeList[i]
        /\ \A i \in 1..Len(z) :
             \/ i \in 1..Len(freeList) /\ z[i] = freeList[i]
             \/ i = Len(freeList) + 1 /\ z[i] = x
    BY Appended, Zenon
  <2>2. freeList' = z
    OBVIOUS
  <2> HIDE DEF z
  <2> QED BY <2>1, <2>2
<1>2. free' = free \cup {x}
  <2>1. \A p \in free' : p \in free \cup {x}
    BY <1>1 DEF free
  <2>2. ASSUME NEW i \in 1..Len(freeList) PROVE freeList[i] \in free'
    <3>1. i \in 1..Len(freeList') /\ freeList'[i] = freeList[i]
      BY <1>1
    <3> QED BY <3>1 DEF free
  <2>3. x \in free'
    <3>1. Len(freeList) + 1 \in 1..Len(freeList')
      BY <1>1
    <3> QED BY <1>1, <3>1 DEF free
  <2>4. \A p \in free : p \in free'
    BY <2>2 DEF free
  <2> QED BY <2>1, <2>3, <2>4
<1>3. \A i, j \in 1..Len(freeList') : freeList'[i] = freeList'[j] => i = j
  BY <1>1 DEF free
<1> QED BY <1>1, <1>2, <1>3

(* The register taken from the list is then not free. *)
LEMMA FreeTaken ==
  ASSUME freeList \in Seq(PhysRegs), freeList # <<>>, freeList' = Tail(freeList),
         \A i, j \in 1..Len(freeList) : freeList[i] = freeList[j] => i = j
  PROVE  /\ Head(freeList) \in free /\ Head(freeList) \in PhysRegs
         /\ free' = free \ {Head(freeList)}
         /\ \A i, j \in 1..Len(freeList') : freeList'[i] = freeList'[j] => i = j
         /\ freeList' \in Seq(PhysRegs) /\ Len(freeList') = Len(freeList) - 1
         /\ Len(freeList) \in Nat
<1> DEFINE x == Head(freeList)
<1>1. /\ freeList' \in Seq(PhysRegs) /\ Len(freeList') = Len(freeList) - 1
      /\ Len(freeList) \in Nat \ {0} /\ x = freeList[1] /\ x \in PhysRegs
      /\ \A i \in 1..Len(freeList') : i + 1 \in 1..Len(freeList) /\ freeList'[i] = freeList[i + 1]
  BY Tailed
<1> HIDE DEF x
<1>2. x \in free
  BY <1>1 DEF free
<1>3. ASSUME NEW p \in free' PROVE p \in free /\ p # x
  <2>1. PICK i \in 1..Len(freeList') : freeList'[i] = p
    BY <1>3 DEF free
  <2>2. i + 1 \in 1..Len(freeList) /\ freeList[i + 1] = p /\ i + 1 # 1
    BY <1>1, <2>1
  <2> QED BY <1>1, <2>2 DEF free
<1>4. ASSUME NEW p \in free, p # x PROVE p \in free'
  <2>1. PICK i \in 1..Len(freeList) : freeList[i] = p
    BY <1>4 DEF free
  <2>2. i - 1 \in 1..Len(freeList') /\ (i - 1) + 1 = i
    BY <1>1, <1>4, <2>1
  <2>3. freeList'[i - 1] = p
    BY <1>1, <2>1, <2>2
  <2> QED BY <2>2, <2>3 DEF free
<1>5. \A i, j \in 1..Len(freeList') : freeList'[i] = freeList'[j] => i = j
  BY <1>1
<1>6. free' = free \ {x}
  BY <1>3, <1>4
<1> QED BY <1>1, <1>2, <1>5, <1>6 DEF x
=============================================================================
