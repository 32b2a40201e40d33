-------------------------- MODULE BPredUnitProofs ---------------------------
(***************************************************************************)
(* Proofs about the branch prediction unit over any direction predictor,   *)
(* any instructions and any number of threads, and without the bounds that *)
(* model checking needs.                                                   *)
(***************************************************************************)
EXTENDS BPredUnit, AlignmentLemmas

(* The inductive invariant: every thread is aligned. *)
IInv ==
  /\ seqNum \in Nat
  /\ done \in [Threads -> Nat]
  /\ DOMAIN predHist = Threads /\ DOMAIN window = Threads
  /\ \A t \in Threads :
       done[t] <= seqNum /\ Aligned(predHist[t], window[t], done[t], seqNum)

-----------------------------------------------------------------------------
(* squash and update cut predHist where the pipeline is cut. *)

LEMMA LeftSame ==
  ASSUME NEW hist, NEW win, NEW lo \in Nat, NEW hi \in Nat,
         Aligned(hist, win, lo, hi), NEW sn \in Int
  PROVE  left(hist, sn) = left(win, sn) /\ left(win, sn) \in 0..Len(win)
<1> DEFINE S == {0} \cup {n \in 1..Len(win) : win[n].seqNum <= sn}
<1>1. Len(win) \in Nat /\ Len(hist) = Len(win)
  BY SequenceLen DEF Aligned
<1>2. S = {0} \cup {n \in 1..Len(hist) : hist[n].seqNum <= sn}
  BY <1>1 DEF Aligned
<1>3. S \in SUBSET (0..Len(win)) /\ S # {}
  BY <1>1
<1>4. Max(S) \in S
  <2> HIDE DEF S
  <2> QED BY <1>1, <1>3, MaxExists, Zenon
<1> QED
  BY <1>2, <1>3, <1>4, Zenon DEF left

LEMMA LeftAt ==
  ASSUME NEW hist, NEW win, NEW lo \in Nat, NEW hi \in Nat,
         Aligned(hist, win, lo, hi), NEW k \in 1..Len(win)
  PROVE  left(hist, win[k].seqNum) = k
<1> DEFINE S == {0} \cup {n \in 1..Len(hist) : hist[n].seqNum <= win[k].seqNum}
<1>1. Len(win) \in Nat /\ Len(hist) = Len(win)
  BY SequenceLen DEF Aligned
<1>2. S \in SUBSET Int
  BY <1>1
<1>3. k \in S
  BY <1>1 DEF Aligned
<1>4. ASSUME NEW n \in 1..Len(hist), hist[n].seqNum <= win[k].seqNum
      PROVE  k >= n
  BY <1>1, <1>4 DEF Aligned
<1>5. \A y \in S : k >= y
  BY <1>1, <1>4
<1>6. Max(S) = k
  <2> HIDE DEF S
  <2> QED BY <1>2, <1>3, <1>5, MaxUnique
<1> QED
  BY <1>6 DEF left

LEMMA RetiredAt ==
  ASSUME NEW hist, NEW win, NEW lo \in Nat, NEW hi \in Nat,
         Aligned(hist, win, lo, hi), NEW n \in 0..Len(win)
  PROVE  retired(hist, DoneAfter(win, lo, n)) = n
<1> USE DEF DoneAfter
<1> DEFINE new == DoneAfter(win, lo, n)
           S == {m \in 0..Len(hist) : \A i \in 1..m : hist[i].seqNum <= new}
<1>1. Len(win) \in Nat /\ Len(hist) = Len(win) /\ n \in Nat
  BY SequenceLen DEF Aligned
<1>2. S \in SUBSET Int
  BY <1>1
<1>3. ASSUME NEW i \in 1..n
      PROVE  hist[i].seqNum <= new
  <2>1. n # 0 /\ n \in 1..Len(win) /\ i \in 1..Len(win) /\ (i < n \/ i = n)
    BY <1>1
  <2> QED
    BY <2>1 DEF Aligned
<1>4. n \in S
  BY <1>1, <1>3
<1>5. ASSUME NEW m \in S
      PROVE  n >= m
  <2>1. SUFFICES ASSUME m > n PROVE FALSE
    BY <1>1
  <2>2. n + 1 \in 1..m /\ n + 1 \in 1..Len(win) /\ (n # 0 => n \in 1..Len(win) /\ n < n + 1)
    BY <1>1, <2>1
  <2>3. hist[n + 1].seqNum <= new
    BY <2>2
  <2>4. win[n + 1].seqNum > new /\ win[n + 1].seqNum \in Nat /\ hist[n + 1].seqNum = win[n + 1].seqNum
    BY <1>1, <2>2 DEF Aligned
  <2>5. new \in Nat
    BY <1>1 DEF Aligned
  <2> QED
    BY <2>3, <2>4, <2>5
<1>6. Max(S) = n
  <2> HIDE DEF S
  <2> QED BY <1>2, <1>4, <1>5, MaxUnique
<1> QED
  BY <1>6 DEF retired

-----------------------------------------------------------------------------
(* predict makes a record of its branch, whatever it predicts. *)
LEMMA PredictRec ==
  ASSUME NEW t, NEW inst, NEW sn, NEW d
  PROVE  LET r == predict(t, inst, sn, d).rec
         IN  r.seqNum = sn /\ r.pc = inst.pc /\ {"seqNum", "pc"} \subseteq DOMAIN r
<1> DEFINE rec == PredictorHistory(sn, inst.pc, d.taken, d.ptr)
           Of(r) == r.seqNum = sn /\ r.pc = inst.pc /\ {"seqNum", "pc"} \subseteq DOMAIN r
<1>1. Of(rec)
  BY DEF PredictorHistory
<1> HIDE DEF rec
<1>2. Of(predictReturn(t, inst, rec, d).rec)
  BY <1>1, Zenon DEF predictReturn
<1>3. Of(predictNotTaken(t, inst, rec, d).rec)
  BY <1>1 DEF predictNotTaken
<1>4. \A hit : Of(called(t, inst, rec, hit).rec)
  BY <1>1, Zenon DEF called
<1>5. Of(predictDirect(t, inst, rec, d).rec)
  BY <1>4 DEF predictDirect
<1>6. Of(predictIndirect(t, inst, rec, d).rec)
  BY <1>4 DEF predictIndirect
<1> HIDE DEF Of
<1>7. Of(predict(t, inst, sn, d).rec)
  BY <1>2, <1>3, <1>5, <1>6 DEF predict, rec
<1> QED
  BY <1>7 DEF Of

(* A correction leaves the record of its branch last, with its number and its
   address. *)
LEMMA CorrectedHist ==
  ASSUME NEW t, NEW lo \in Nat, NEW hi \in Nat,
         Aligned(predHist[t], window[t], lo, hi), NEW k \in 1..Len(window[t]),
         NEW corrTarget, NEW taken, NEW victim
  PROVE  SameUpTo(squashAndFix(t, window[t][k].seqNum, corrTarget, taken, victim).hist,
                  predHist[t], k)
<1> DEFINE sn == window[t][k].seqNum
           s  == squash(t, sn)
           r  == remembered(Last(s.hist), taken)
           Of(x) == /\ x.seqNum = predHist[t][k].seqNum /\ x.pc = predHist[t][k].pc
                    /\ {"seqNum", "pc"} \subseteq DOMAIN x
           Fixed(h) == /\ IsSequence(h) /\ Len(h) = k
                       /\ \A i \in 1..k - 1 : h[i] = predHist[t][i]
                       /\ Of(h[k])
<1>1. Len(window[t]) \in Nat /\ k \in Nat /\ k \in 0..Len(window[t]) /\ k \in 1..k
  BY SequenceLen DEF Aligned
<1>2. s.hist = SubSeq(predHist[t], 1, k) /\ "hist" \in DOMAIN s
  BY LeftAt DEF squash
<1>3. Len(s.hist) = k /\ \A i \in 1..k : s.hist[i] = predHist[t][i]
  BY <1>1, <1>2, AlignedPrefix
<1>4. IsSequence(s.hist)
  <2>1. Aligned(SubSeq(predHist[t], 1, k), SubSeq(window[t], 1, k), lo, hi)
    BY <1>1, AlignedPrefix
  <2> QED
    BY <1>2, <2>1 DEF Aligned
<1>5. s.hist # << >>
  BY <1>1, <1>3, SequenceEmpty
<1>6. Of(r)
  BY <1>1, <1>3 DEF remembered, Last, Aligned
<1>7. ASSUME NEW x, Of(x)
      PROVE  Fixed([s.hist EXCEPT ![Len(s.hist)] = x])
  <2>1. k \in 1..Len(s.hist) /\ \A i \in 1..k - 1 : i \in 1..k /\ i # k
    BY <1>1, <1>3
  <2> HIDE DEF s, Of
  <2>2. /\ IsSequence([s.hist EXCEPT ![k] = x])
        /\ Len([s.hist EXCEPT ![k] = x]) = k
        /\ \A j \in 1..k : [s.hist EXCEPT ![k] = x][j] = IF j = k THEN x ELSE s.hist[j]
    BY <1>3, <1>4, <2>1, SequenceExcept
  <2>3. [s.hist EXCEPT ![k] = x][k] = x
    BY <1>1, <2>2
  <2>4. \A i \in 1..k - 1 : [s.hist EXCEPT ![k] = x][i] = predHist[t][i]
    BY <1>3, <2>1, <2>2
  <2> QED
    BY <1>3, <1>7, <2>2, <2>3, <2>4
<1> HIDE DEF s, r
<1>8. ASSUME NEW u, u.hist = s.hist, "hist" \in DOMAIN u, NEW ghr
      PROVE  Fixed(fixTaken(t, u, r, ghr, corrTarget, victim).hist)
  <2> DEFINE late == r.wasReturn /\ ~r.usedRAS
             x    == [r EXCEPT !.usedRAS = r.usedRAS \/ late]
  <2>1. Of(x)
    BY <1>6
  <2>2. fixTaken(t, u, r, ghr, corrTarget, victim).hist = [u.hist EXCEPT ![Len(u.hist)] = x]
    BY <1>8 DEF fixTaken
  <2> HIDE DEF x, Fixed, Of
  <2> QED
    BY <1>7, <1>8, <2>1, <2>2
<1>9. ASSUME NEW u, u.hist = s.hist, "hist" \in DOMAIN u
      PROVE  Fixed(fixNotTaken(u, r).hist)
  <2> DEFINE x == IF r.usedRAS THEN [r EXCEPT !.usedRAS = FALSE]
                  ELSE IF r.wasCall THEN [r EXCEPT !.pushedRAS = FALSE] ELSE r
  <2>1. Of(x)
    BY <1>6
  <2>2. fixNotTaken(u, r).hist = [u.hist EXCEPT ![Len(u.hist)] = x]
    BY <1>9 DEF fixNotTaken
  <2> HIDE DEF x, Fixed, Of
  <2> QED
    BY <1>7, <1>9, <2>1, <2>2
<1>10. Fixed(squashAndFix(t, sn, corrTarget, taken, victim).hist)
  <2> DEFINE u == [s EXCEPT !.bp = bpUpdate(@, t, r.pc, taken, r.bpHistory, TRUE)]
  <2>1. u.hist = s.hist /\ "hist" \in DOMAIN u
    BY <1>2
  <2>2. squashAndFix(t, sn, corrTarget, taken, victim) =
          IF taken THEN fixTaken(t, u, r, getGHR(s.bp, t, r.bpHistory), corrTarget, victim)
          ELSE fixNotTaken(u, r)
    BY <1>5 DEF squashAndFix, s, r
  <2> HIDE DEF u, Fixed
  <2> QED
    BY <1>8, <1>9, <2>1, <2>2
<1> QED
  BY <1>10, Zenon DEF SameUpTo

-----------------------------------------------------------------------------
(* IInv holds after a step of thread t that leaves it aligned. *)
LEMMA IInvStep ==
  ASSUME IInv, NEW t \in Threads, NEW h, NEW v, NEW lo \in Nat, NEW hi \in Nat,
         lo <= hi, seqNum <= hi, Aligned(h, v, lo, hi),
         predHist' = [predHist EXCEPT ![t] = h], window' = [window EXCEPT ![t] = v],
         done' = [done EXCEPT ![t] = lo], seqNum' = hi
  PROVE  IInv'
<1>1. /\ seqNum' \in Nat /\ done' \in [Threads -> Nat]
      /\ DOMAIN predHist' = Threads /\ DOMAIN window' = Threads
  BY DEF IInv
<1>2. ASSUME NEW u \in Threads
      PROVE  done'[u] <= seqNum' /\ Aligned(predHist'[u], window'[u], done'[u], seqNum')
  <2>1. CASE u = t
    BY <2>1 DEF IInv
  <2>2. CASE u # t
    <3>1. predHist'[u] = predHist[u] /\ window'[u] = window[u] /\ done'[u] = done[u]
      BY <2>2 DEF IInv
    <3>2. done[u] <= hi /\ seqNum \in Nat /\ done[u] \in Nat
      BY DEF IInv
    <3>3. Aligned(predHist[u], window[u], done[u], seqNum)
      BY DEF IInv
    <3>4. Len(window[u]) \in Nat
      BY <3>3, SequenceLen DEF Aligned
    <3>5. Aligned(predHist[u], window[u], done[u], hi)
      BY <3>2, <3>3, <3>4 DEF Aligned
    <3> QED
      BY <3>1, <3>2, <3>5
  <2> QED
    BY <2>1, <2>2
<1> QED
  BY <1>1, <1>2 DEF IInv

(* The invariant is inductive: one step per call of the unit. *)
LEMMA IInvInductive == IInv /\ [Next]_vars => IInv'
<1> SUFFICES ASSUME IInv, [Next]_vars
             PROVE  IInv'
  OBVIOUS
<1>0. /\ seqNum \in Nat
      /\ \A t \in Threads : /\ done[t] \in Nat /\ done[t] <= seqNum
                           /\ Aligned(predHist[t], window[t], done[t], seqNum)
                           /\ done = [done EXCEPT ![t] = done[t]]
  BY DEF IInv
<1>1. ASSUME NEW t \in Threads, NEW inst \in Insts, Predict(t, inst)
      PROVE  IInv'
  <2>1. PICK d \in direction(t, inst), nextPC \in Outcomes(inst) :
          LET p == predict(t, inst, seqNum + 1, d)
          IN  /\ predHist' = [predHist EXCEPT ![t] = Append(predHist[t], p.rec)]
              /\ window' = [window EXCEPT ![t] = Append(window[t],
                   [seqNum |-> seqNum + 1, inst |-> inst, predTaken |-> p.taken,
                    predTarg |-> p.target, nextPC |-> nextPC, corrected |-> FALSE,
                    ras |-> RAS[t]])]
    BY <1>1, Zenon DEF Predict, Becomes
  <2> DEFINE r == predict(t, inst, seqNum + 1, d).rec
             w == [seqNum |-> seqNum + 1, inst |-> inst,
                   predTaken |-> predict(t, inst, seqNum + 1, d).taken,
                   predTarg |-> predict(t, inst, seqNum + 1, d).target,
                   nextPC |-> nextPC, corrected |-> FALSE, ras |-> RAS[t]]
  <2>2. r.seqNum = seqNum + 1 /\ r.pc = inst.pc /\ {"seqNum", "pc"} \subseteq DOMAIN r
    BY PredictRec
  <2>3. w.seqNum = seqNum + 1 /\ w.inst = inst /\ {"seqNum", "inst"} \subseteq DOMAIN w
    OBVIOUS
  <2>4. /\ predHist' = [predHist EXCEPT ![t] = Append(predHist[t], r)]
        /\ window' = [window EXCEPT ![t] = Append(window[t], w)]
    BY <2>1
  <2>5. seqNum' = seqNum + 1 /\ done' = [done EXCEPT ![t] = done[t]]
    BY <1>0, <1>1 DEF Predict
  <2> HIDE DEF r, w
  <2>6. Aligned(Append(predHist[t], r), Append(window[t], w), done[t], seqNum + 1)
    BY <1>0, <2>2, <2>3, AlignedAppend
  <2>7. seqNum + 1 \in Nat /\ done[t] <= seqNum + 1 /\ seqNum <= seqNum + 1
    BY <1>0
  <2> QED
    BY <1>0, <2>4, <2>5, <2>6, <2>7, IInvStep, Zenon
<1>2. ASSUME NEW t \in Threads, NEW k \in 1..Len(window[t]), NEW target, NEW taken, NEW victim, NEW x,
             x.seqNum = window[t][k].seqNum, x.inst = window[t][k].inst,
             {"seqNum", "inst"} \subseteq DOMAIN x,
             Becomes(t, squashAndFix(t, window[t][k].seqNum, target, taken, victim)),
             window' = [window EXCEPT ![t] =
               Append(SubSeq(window[t], 1, k - 1), x)],
             UNCHANGED <<seqNum, done>>
      PROVE  IInv'
  <2> DEFINE h == squashAndFix(t, window[t][k].seqNum, target, taken, victim).hist
             v == Append(SubSeq(window[t], 1, k - 1), x)
  <2>1. /\ Aligned(predHist[t], window[t], done[t], seqNum)
        /\ done[t] \in Nat /\ seqNum \in Nat
    BY <1>0
  <2>2. k \in 1..Len(window[t])
    OBVIOUS
  <2>3. SameUpTo(h, predHist[t], k)
    BY <2>1, <2>2, CorrectedHist, Zenon
  <2>4. /\ x.seqNum = window[t][k].seqNum /\ x.inst = window[t][k].inst
        /\ {"seqNum", "inst"} \subseteq DOMAIN x
    BY <1>2
  <2>5. predHist' = [predHist EXCEPT ![t] = h]
    BY <1>2 DEF Becomes
  <2>6. window' = [window EXCEPT ![t] = v]
    BY <1>2
  <2>7. seqNum' = seqNum /\ done' = [done EXCEPT ![t] = done[t]]
    BY <1>0, <1>2
  <2> HIDE DEF h
  <2>8. Aligned(h, v, done[t], seqNum)
    BY <2>1, <2>2, <2>3, <2>4, AlignedReplace
  <2>9. seqNum \in Nat /\ done[t] <= seqNum /\ seqNum <= seqNum
    BY <1>0
  <2> HIDE DEF v
  <2> QED
    BY <2>1, <2>5, <2>6, <2>7, <2>8, <2>9, IInvStep, Zenon
<1>3. ASSUME NEW t \in Threads, NEW k \in 1..Len(window[t]), DecodeRedirect(t, k)
      PROVE  IInv'
  <2>1. PICK victim \in 1..NumWays :
          Becomes(t, squashAndFix(t, window[t][k].seqNum, window[t][k].inst.target,
                                  window[t][k].inst.uncond, victim))
    BY <1>3 DEF DecodeRedirect
  <2>2. /\ window' = [window EXCEPT ![t] = Append(SubSeq(window[t], 1, k - 1),
                        [window[t][k] EXCEPT !.predTarg = window[t][k].inst.target])]
        /\ UNCHANGED <<seqNum, done>>
    BY <1>3 DEF DecodeRedirect
  <2> DEFINE x == [window[t][k] EXCEPT !.predTarg = window[t][k].inst.target]
  <2>3. /\ x.seqNum = window[t][k].seqNum /\ x.inst = window[t][k].inst
        /\ {"seqNum", "inst"} \subseteq DOMAIN x
    BY <1>0 DEF Aligned
  <2>4. window' = [window EXCEPT ![t] = Append(SubSeq(window[t], 1, k - 1), x)]
    BY <2>2
  <2> HIDE DEF x
  <2> QED
    BY <1>2, <2>1, <2>2, <2>3, <2>4, Zenon
<1>4. ASSUME NEW t \in Threads, NEW k \in 1..Len(window[t]), ExecuteRedirect(t, k)
      PROVE  IInv'
  <2>1. PICK victim \in 1..NumWays :
          Becomes(t, squashAndFix(t, window[t][k].seqNum, window[t][k].nextPC,
                                  branchTaken(window[t][k]), victim))
    BY <1>4 DEF ExecuteRedirect
  <2>2. /\ window' = [window EXCEPT ![t] = Append(SubSeq(window[t], 1, k - 1),
                        [window[t][k] EXCEPT !.corrected = TRUE])]
        /\ UNCHANGED <<seqNum, done>>
    BY <1>4 DEF ExecuteRedirect
  <2> DEFINE x == [window[t][k] EXCEPT !.corrected = TRUE]
  <2>3. /\ x.seqNum = window[t][k].seqNum /\ x.inst = window[t][k].inst
        /\ {"seqNum", "inst"} \subseteq DOMAIN x
    BY <1>0 DEF Aligned
  <2>4. window' = [window EXCEPT ![t] = Append(SubSeq(window[t], 1, k - 1), x)]
    BY <2>2
  <2> HIDE DEF x
  <2> QED
    BY <1>2, <2>1, <2>2, <2>3, <2>4, Zenon
<1>5. ASSUME NEW t \in Threads, NEW sn \in done[t]..seqNum, Squash(t, sn)
      PROVE  IInv'
  <2> DEFINE n == left(window[t], sn)
             h == SubSeq(predHist[t], 1, n)
             v == SubSeq(window[t], 1, n)
  <2>1. Aligned(predHist[t], window[t], done[t], seqNum) /\ done[t] \in Nat /\ sn \in Int
    BY <1>0
  <2>2. left(predHist[t], sn) = n /\ n \in 0..Len(window[t])
    BY <1>0, <2>1, LeftSame
  <2>3. predHist' = [predHist EXCEPT ![t] = h]
    BY <1>5, <2>2, Zenon DEF Squash, Becomes, squash
  <2>4. window' = [window EXCEPT ![t] = v]
    BY <1>5 DEF Squash
  <2>5. seqNum' = seqNum /\ done' = [done EXCEPT ![t] = done[t]]
    BY <1>0, <1>5 DEF Squash
  <2>6. Aligned(h, v, done[t], seqNum)
    <3> HIDE DEF n
    <3> QED BY <1>0, <2>1, <2>2, AlignedPrefix, Zenon
  <2>7. seqNum \in Nat /\ done[t] <= seqNum /\ seqNum <= seqNum
    BY <1>0
  <2> HIDE DEF h, v
  <2> QED
    BY <2>1, <2>3, <2>4, <2>5, <2>6, <2>7, IInvStep, Zenon
<1>6. ASSUME NEW t \in Threads, NEW n \in 0..Len(window[t]), Update(t, n)
      PROVE  IInv'
  <2> DEFINE new == DoneAfter(window[t], done[t], n)
             h   == SubSeq(predHist[t], n + 1, Len(predHist[t]))
             v   == SubSeq(window[t], n + 1, Len(window[t]))
  <2>1. /\ Aligned(predHist[t], window[t], done[t], seqNum)
        /\ done[t] \in Nat /\ seqNum \in Nat
    BY <1>0
  <2>2. n \in 0..Len(window[t])
    OBVIOUS
  <2>3. retired(predHist[t], new) = n
    BY <2>1, <2>2, RetiredAt
  <2>4. predHist' = [predHist EXCEPT ![t] = h]
    BY <1>6, <2>3, Zenon DEF Update, Becomes, DoneAfter
  <2>5. window' = [window EXCEPT ![t] = v] /\ done' = [done EXCEPT ![t] = new]
        /\ seqNum' = seqNum
    BY <1>6 DEF Update, DoneAfter
  <2>6. Aligned(h, v, new, seqNum)
    BY <1>0, <2>1, <2>2, AlignedSuffix
  <2>7. new \in Nat /\ new <= seqNum
    BY <1>0, <2>1, <2>2 DEF Aligned, DoneAfter
  <2>8. seqNum \in Nat /\ seqNum <= seqNum
    BY <1>0
  <2> HIDE DEF new, h, v
  <2> QED
    BY <2>4, <2>5, <2>6, <2>7, <2>8, IInvStep, Zenon
<1>7. CASE UNCHANGED vars
  BY <1>7 DEF vars, IInv
<1>8. \A t \in Threads : /\ DOMAIN window[t] = 1..Len(window[t])
                         /\ \A n \in 0..CommitWidth : n <= Len(window[t]) => n \in 0..Len(window[t])
  <2> TAKE t \in Threads
  <2>1. Len(window[t]) \in Nat /\ DOMAIN window[t] = 1..Len(window[t])
    BY <1>0, SequenceLen DEF Aligned
  <2> QED
    BY <2>1
<1>9. ASSUME Next
      PROVE  IInv'
  <2>1. PICK t \in Threads :
          \/ \E inst \in Insts : Predict(t, inst)
          \/ \E k \in 1..Len(window[t]) : DecodeRedirect(t, k) \/ ExecuteRedirect(t, k)
          \/ \E sn \in done[t]..seqNum : Squash(t, sn)
          \/ \E n \in 0..Len(window[t]) : Update(t, n)
    BY <1>8, <1>9 DEF Next
  <2> QED
    BY <1>1, <1>3, <1>4, <1>5, <1>6, <2>1
<1> QED
  BY <1>7, <1>9

LEMMA IInvInit == Init => IInv
<1> SUFFICES ASSUME Init PROVE IInv
  OBVIOUS
<1>1. \A t \in Threads : predHist[t] = << >> /\ window[t] = << >> /\ done[t] = 0
  BY DEF Init
<1>2. Aligned(<< >>, << >>, 0, 0)
  BY SequenceEmpty DEF Aligned
<1> QED
  BY <1>1, <1>2 DEF Init, IInv

LEMMA IInvAlways == Spec => []IInv
  BY IInvInit, IInvInductive, PTL DEF Spec

(* After any predictions, corrections, squashes and commits of any threads,
   predHist holds exactly the branches in flight, in order, whatever the
   direction predictor does. *)
THEOREM PredHistCorrect == Spec => []PredHistMatchesWindow
<1>1. IInv => PredHistMatchesWindow
  <2> SUFFICES ASSUME IInv, NEW t \in Threads, NEW k \in DOMAIN window[t]
               PROVE  /\ predHist[t][k].seqNum = window[t][k].seqNum
                      /\ predHist[t][k].pc = window[t][k].inst.pc
                      /\ window[t][k].seqNum > (IF k = 1 THEN done[t] ELSE window[t][k - 1].seqNum)
    BY DEF PredHistMatchesWindow, IInv, Aligned
  <2>1. Aligned(predHist[t], window[t], done[t], seqNum)
    BY DEF IInv
  <2>2. Len(window[t]) \in Nat /\ k \in 1..Len(window[t])
    BY <2>1, SequenceLen DEF Aligned
  <2>3. k # 1 => k - 1 \in 1..Len(window[t]) /\ k - 1 < k
    BY <2>2
  <2> QED
    BY <2>1, <2>2, <2>3 DEF Aligned
<1> QED
  BY <1>1, IInvAlways, PTL

(* The assert of the correcting squash never fails: once the younger branches
   are gone, the branch to correct is at the front of predHist. *)
THEOREM CorrectionCorrect == Spec => []CorrectionFindsBranch
<1>1. IInv => CorrectionFindsBranch
  <2> SUFFICES ASSUME IInv, NEW t \in Threads, NEW k \in DOMAIN window[t]
               PROVE  LET hist == squash(t, window[t][k].seqNum).hist
                      IN  hist # << >> /\ Last(hist).seqNum = window[t][k].seqNum
    BY DEF CorrectionFindsBranch
  <2> DEFINE h == SubSeq(predHist[t], 1, k)
  <2>1. /\ Aligned(predHist[t], window[t], done[t], seqNum)
        /\ done[t] \in Nat /\ seqNum \in Nat
    BY DEF IInv
  <2>2. k \in 1..Len(window[t]) /\ k \in 0..Len(window[t]) /\ k \in 1..k /\ k # 0
    BY <2>1, SequenceLen DEF Aligned
  <2>3. squash(t, window[t][k].seqNum).hist = h
    BY <2>1, <2>2, LeftAt DEF squash
  <2>4. Len(h) = k /\ \A i \in 1..k : h[i] = predHist[t][i]
    BY <2>1, <2>2, AlignedPrefix
  <2> HIDE DEF h
  <2>5. h # << >> /\ Last(h).seqNum = window[t][k].seqNum
    BY <2>1, <2>2, <2>4, SequenceEmpty DEF Last, Aligned
  <2> QED
    BY <2>3, <2>5
<1> QED
  BY <1>1, IInvAlways, PTL
=============================================================================
