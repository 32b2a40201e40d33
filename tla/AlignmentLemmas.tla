------------------------- MODULE AlignmentLemmas ----------------------------
(***************************************************************************)
(* Facts about sequences, and about two of them that stay aligned: the     *)
(* records of the branch prediction unit and the branches in flight.       *)
(***************************************************************************)
EXTENDS Integers, FiniteSetsExt, SequenceTheorems, WellFoundedInduction, TLAPS

(***************************************************************************)
(* The records of a direction predictor's subclass may be anything, so     *)
(* predHist is not a member of a set of sequences that is fixed beforehand.*)
(***************************************************************************)
IsSequence(s) == s \in Seq(Range(s))

LEMMA SequenceLen ==
  ASSUME NEW s, IsSequence(s)
  PROVE  Len(s) \in Nat /\ DOMAIN s = 1..Len(s)
  BY LenProperties DEF IsSequence

LEMMA SequenceAppend ==
  ASSUME NEW s, IsSequence(s), NEW x
  PROVE  /\ IsSequence(Append(s, x))
         /\ Len(Append(s, x)) = Len(s) + 1
         /\ \A i \in 1..Len(s) : Append(s, x)[i] = s[i]
         /\ Append(s, x)[Len(s) + 1] = x
<1> DEFINE S == Range(s) \cup {x}
<1>1. s \in Seq(S)
  BY SeqMonotonic DEF IsSequence
<1>2. x \in S
  OBVIOUS
<1> HIDE DEF S
<1>3. /\ Append(s, x) \in Seq(S)
      /\ Len(Append(s, x)) = Len(s) + 1
      /\ \A i \in 1..Len(s) : Append(s, x)[i] = s[i]
      /\ Append(s, x)[Len(s) + 1] = x
  BY <1>1, <1>2, AppendProperties
<1>4. IsSequence(Append(s, x))
  BY <1>3, SeqOfRange, Zenon DEF IsSequence
<1> QED
  BY <1>3, <1>4

LEMMA SequenceSubSeq ==
  ASSUME NEW s, IsSequence(s), NEW m \in 1..Len(s) + 1, NEW n \in m - 1..Len(s)
  PROVE  /\ IsSequence(SubSeq(s, m, n))
         /\ Len(SubSeq(s, m, n)) = n - m + 1
         /\ \A i \in 1..n - m + 1 : SubSeq(s, m, n)[i] = s[m + i - 1]
<1>1. Len(s) \in Nat
  BY SequenceLen
<1>2. \A i \in m..n : s[i] \in Range(s)
  BY <1>1, ElementOfSeq DEF IsSequence
<1>3. m \in Int /\ n \in Int
  BY <1>1
<1>4. /\ SubSeq(s, m, n) \in Seq(Range(s))
      /\ Len(SubSeq(s, m, n)) = IF m <= n THEN n - m + 1 ELSE 0
      /\ \A i \in 1..n - m + 1 : SubSeq(s, m, n)[i] = s[m + i - 1]
  BY <1>2, <1>3, SubSeqProperties
<1>5. (IF m <= n THEN n - m + 1 ELSE 0) = n - m + 1
  BY <1>1
<1> QED
  BY <1>4, <1>5, SeqOfRange, Zenon DEF IsSequence

LEMMA SequenceDrop ==
  ASSUME NEW s, IsSequence(s), NEW n \in 0..Len(s)
  PROVE  /\ IsSequence(SubSeq(s, n + 1, Len(s)))
         /\ Len(SubSeq(s, n + 1, Len(s))) = Len(s) - n
         /\ \A k \in 1..Len(s) - n : SubSeq(s, n + 1, Len(s))[k] = s[n + k]
<1> DEFINE m == n + 1
           l == Len(s)
<1>1. l \in Nat /\ n \in Nat
  BY SequenceLen
<1>2. m \in 1..l + 1 /\ l \in m - 1..l /\ l - m + 1 = l - n
  BY <1>1
<1>3. \A k \in 1..l - n : m + k - 1 = n + k
  BY <1>1
<1> HIDE DEF m
<1>4. /\ IsSequence(SubSeq(s, m, l))
      /\ Len(SubSeq(s, m, l)) = l - m + 1
      /\ \A k \in 1..l - m + 1 : SubSeq(s, m, l)[k] = s[m + k - 1]
  BY <1>2, SequenceSubSeq
<1> QED
  BY <1>2, <1>3, <1>4, Zenon DEF m

LEMMA SequenceExcept ==
  ASSUME NEW s, IsSequence(s), NEW i \in 1..Len(s), NEW x
  PROVE  /\ IsSequence([s EXCEPT ![i] = x])
         /\ Len([s EXCEPT ![i] = x]) = Len(s)
         /\ \A j \in 1..Len(s) : [s EXCEPT ![i] = x][j] = IF j = i THEN x ELSE s[j]
<1> DEFINE S == Range(s) \cup {x}
<1>1. s \in Seq(S)
  BY SeqMonotonic DEF IsSequence
<1>2. x \in S
  OBVIOUS
<1> HIDE DEF S
<1>3. /\ [s EXCEPT ![i] = x] \in Seq(S)
      /\ Len([s EXCEPT ![i] = x]) = Len(s)
      /\ \A j \in 1..Len(s) : [s EXCEPT ![i] = x][j] = IF j = i THEN x ELSE s[j]
  BY <1>1, <1>2, ExceptSeq
<1>4. IsSequence([s EXCEPT ![i] = x])
  BY <1>3, SeqOfRange, Zenon DEF IsSequence
<1> QED
  BY <1>3, <1>4

LEMMA SequenceEmpty == IsSequence(<< >>) /\ Len(<< >>) = 0
  BY EmptySeq, SeqOfRange DEF IsSequence

(* A bounded set of numbers has a largest member. *)
LEMMA MaxExists ==
  ASSUME NEW N \in Nat, NEW S \in SUBSET (0..N), S # {}
  PROVE  Max(S) \in S /\ \A y \in S : Max(S) >= y
<1> DEFINE T == {N - x : x \in S}
           R == OpToRel(<, Nat)
<1>1. T \subseteq Nat /\ T # {}
  <2>1. PICK s \in S : TRUE
    OBVIOUS
  <2>2. N - s \in T
    OBVIOUS
  <2>3. T \subseteq Nat
    OBVIOUS
  <2> QED
    BY <2>2, <2>3
<1>2. \A x, y \in Nat : <<y, x>> \in R <=> y < x
  BY DEF OpToRel
<1>3. IsWellFoundedOn(R, Nat)
  BY NatLessThanWellFounded, Zenon
<1>4. \E x \in T : \A y \in T : ~(<<y, x>> \in R)
  <2> HIDE DEF T, R
  <2> QED BY <1>1, <1>3, WFMin, Zenon
<1>5. PICK x \in T : \A y \in T : ~(y < x)
  <2> HIDE DEF T, R
  <2> QED BY <1>1, <1>2, <1>4, Zenon
<1>6. PICK s \in S : x = N - s
  OBVIOUS
<1>7. ASSUME NEW y \in S
      PROVE  s >= y
  <2>1. ~(N - y < N - s)
    BY <1>5, <1>6, Zenon
  <2> QED
    BY <2>1
<1>8. \E z \in S : \A y \in S : z >= y
  BY <1>7
<1> QED
  BY <1>8, Zenon DEF Max

(* The largest member is the only one that bounds the others. *)
LEMMA MaxUnique ==
  ASSUME NEW S \in SUBSET Int, NEW k \in S, \A y \in S : k >= y
  PROVE  Max(S) = k
<1>1. \E z \in S : \A y \in S : z >= y
  OBVIOUS
<1>2. Max(S) \in S /\ \A y \in S : Max(S) >= y
  BY <1>1, Zenon DEF Max
<1>3. Max(S) \in Int /\ k \in Int /\ k >= Max(S) /\ Max(S) >= k
  BY <1>2, Zenon
<1> QED
  BY <1>3

-----------------------------------------------------------------------------
(***************************************************************************)
(* The inductive invariant of one thread: its records and its branches   *)
(* in flight agree one by one, and their numbers grow, all of them, not    *)
(* only neighbours, from above lo to hi.  The domains are there because an *)
(* EXCEPT keeps only the fields that a record has.                         *)
(***************************************************************************)
Aligned(hist, win, lo, hi) ==
  /\ IsSequence(hist) /\ IsSequence(win) /\ Len(hist) = Len(win)
  /\ \A k \in 1..Len(win) :
       /\ {"seqNum", "pc"} \subseteq DOMAIN hist[k]
       /\ {"seqNum", "inst"} \subseteq DOMAIN win[k]
       /\ hist[k].seqNum = win[k].seqNum
       /\ hist[k].pc = win[k].inst.pc
       /\ win[k].seqNum \in Nat /\ win[k].seqNum > lo /\ win[k].seqNum <= hi
  /\ \A i, k \in 1..Len(win) : i < k => win[i].seqNum < win[k].seqNum

(* The number that committing the first n branches makes the last one done. *)
DoneAfter(win, lo, n) == IF n = 0 THEN lo ELSE win[n].seqNum

(* A branch that is predicted is appended to both. *)
LEMMA AlignedAppend ==
  ASSUME NEW hist, NEW win, NEW lo \in Nat, NEW hi \in Nat, lo <= hi,
         Aligned(hist, win, lo, hi), NEW r, NEW w,
         {"seqNum", "pc"} \subseteq DOMAIN r, {"seqNum", "inst"} \subseteq DOMAIN w,
         r.seqNum = hi + 1, w.seqNum = hi + 1, r.pc = w.inst.pc
  PROVE  Aligned(Append(hist, r), Append(win, w), lo, hi + 1)
<1> DEFINE h == Append(hist, r)
           v == Append(win, w)
           n == Len(win)
<1>1. n \in Nat /\ Len(hist) = n
  BY SequenceLen DEF Aligned
<1>2. /\ IsSequence(h) /\ IsSequence(v) /\ Len(h) = n + 1 /\ Len(v) = n + 1
      /\ \A i \in 1..n : h[i] = hist[i] /\ v[i] = win[i]
      /\ h[n + 1] = r /\ v[n + 1] = w
  BY <1>1, SequenceAppend DEF Aligned
<1> HIDE DEF h, v, n
<1>3. \A k \in 1..n + 1 : k \in 1..n \/ k = n + 1
  BY <1>1
<1>4. ASSUME NEW k \in 1..n + 1
      PROVE  /\ {"seqNum", "pc"} \subseteq DOMAIN h[k]
             /\ {"seqNum", "inst"} \subseteq DOMAIN v[k]
             /\ h[k].seqNum = v[k].seqNum
             /\ h[k].pc = v[k].inst.pc
             /\ v[k].seqNum \in Nat /\ v[k].seqNum > lo /\ v[k].seqNum <= hi + 1
             /\ k # n + 1 => v[k].seqNum < hi + 1
  <2>1. CASE k \in 1..n
    BY <1>1, <1>2, <2>1 DEF Aligned, n
  <2>2. CASE k = n + 1
    BY <1>2, <2>2
  <2> QED
    BY <1>3, <2>1, <2>2
<1>5. ASSUME NEW i \in 1..n + 1, NEW k \in 1..n + 1, i < k
      PROVE  v[i].seqNum < v[k].seqNum
  <2>1. CASE k \in 1..n
    BY <1>1, <1>2, <1>5, <2>1 DEF Aligned, n
  <2>2. CASE k = n + 1
    BY <1>1, <1>2, <1>4, <1>5, <2>2
  <2> QED
    BY <1>3, <2>1, <2>2
<1> QED
  BY <1>2, <1>4, <1>5 DEF Aligned, h, v

(* Squashes keep a prefix. *)
LEMMA AlignedPrefix ==
  ASSUME NEW hist, NEW win, NEW lo \in Nat, NEW hi \in Nat,
         Aligned(hist, win, lo, hi), NEW n \in 0..Len(win)
  PROVE  /\ Aligned(SubSeq(hist, 1, n), SubSeq(win, 1, n), lo, hi)
         /\ Len(SubSeq(hist, 1, n)) = n /\ Len(SubSeq(win, 1, n)) = n
         /\ \A k \in 1..n : SubSeq(hist, 1, n)[k] = hist[k] /\ SubSeq(win, 1, n)[k] = win[k]
<1> DEFINE h == SubSeq(hist, 1, n)
           v == SubSeq(win, 1, n)
<1>1. Len(win) \in Nat /\ Len(hist) = Len(win) /\ n \in Nat
  BY SequenceLen DEF Aligned
<1>2. /\ IsSequence(h) /\ IsSequence(v) /\ Len(h) = n /\ Len(v) = n
      /\ \A k \in 1..n : h[k] = hist[k] /\ v[k] = win[k]
  <2>1. 1 \in 1..Len(win) + 1 /\ n \in 1 - 1..Len(win) /\ n - 1 + 1 = n
        /\ \A k \in 1..n : 1 + k - 1 = k
    BY <1>1
  <2> QED
    BY <1>1, <2>1, SequenceSubSeq DEF Aligned
<1> HIDE DEF h, v
<1>3. \A k \in 1..n : k \in 1..Len(win)
  BY <1>1
<1>4. Aligned(h, v, lo, hi)
  BY <1>2, <1>3 DEF Aligned
<1> QED
  BY <1>2, <1>4 DEF h, v

(* A commit drops the first n branches, up to the number it commits. *)
LEMMA AlignedSuffix ==
  ASSUME NEW hist, NEW win, NEW lo \in Nat, NEW hi \in Nat,
         Aligned(hist, win, lo, hi), NEW n \in 0..Len(win)
  PROVE  Aligned(SubSeq(hist, n + 1, Len(hist)), SubSeq(win, n + 1, Len(win)),
                 DoneAfter(win, lo, n), hi)
<1> DEFINE new == DoneAfter(win, lo, n)
           h == SubSeq(hist, n + 1, Len(hist))
           v == SubSeq(win, n + 1, Len(win))
           l == Len(win) - n
<1>1. Len(win) \in Nat /\ Len(hist) = Len(win) /\ n \in Nat /\ l \in Nat
  BY SequenceLen DEF Aligned
<1>2. /\ IsSequence(h) /\ IsSequence(v) /\ Len(h) = l /\ Len(v) = l
      /\ \A k \in 1..l : h[k] = hist[n + k] /\ v[k] = win[n + k]
  <2>1. IsSequence(hist) /\ IsSequence(win) /\ n \in 0..Len(hist)
    BY <1>1 DEF Aligned
  <2>2. /\ IsSequence(h) /\ Len(h) = Len(hist) - n
        /\ \A k \in 1..Len(hist) - n : h[k] = hist[n + k]
    BY <2>1, SequenceDrop
  <2>3. /\ IsSequence(v) /\ Len(v) = l
        /\ \A k \in 1..l : v[k] = win[n + k]
    BY <2>1, SequenceDrop
  <2> QED
    BY <1>1, <2>2, <2>3
<1>3. \A k \in 1..l : n + k \in 1..Len(win) /\ (n # 0 => n \in 1..Len(win) /\ n < n + k)
  BY <1>1
<1> HIDE DEF h, v, l
<1>4. \A k \in 1..l : win[n + k].seqNum > new
  BY <1>1, <1>3 DEF Aligned, DoneAfter
<1> HIDE DEF new
<1>5. \A i, k \in 1..l : i < k => n + i < n + k
  BY <1>1
<1>6. ASSUME NEW k \in 1..l
      PROVE  /\ {"seqNum", "pc"} \subseteq DOMAIN h[k]
             /\ {"seqNum", "inst"} \subseteq DOMAIN v[k]
             /\ h[k].seqNum = v[k].seqNum
             /\ h[k].pc = v[k].inst.pc
             /\ v[k].seqNum \in Nat /\ v[k].seqNum > new /\ v[k].seqNum <= hi
  BY <1>2, <1>3, <1>4, Zenon DEF Aligned
<1>7. ASSUME NEW i \in 1..l, NEW k \in 1..l, i < k
      PROVE  v[i].seqNum < v[k].seqNum
  BY <1>2, <1>3, <1>5, <1>7 DEF Aligned
<1> QED
  BY <1>2, <1>6, <1>7, Zenon DEF Aligned, h, v, new

(* The k oldest records, the last of them changed, but not in number and
   address. *)
SameUpTo(h, hist, k) ==
  /\ IsSequence(h) /\ Len(h) = k
  /\ \A i \in 1..k - 1 : h[i] = hist[i]
  /\ h[k].seqNum = hist[k].seqNum /\ h[k].pc = hist[k].pc
  /\ {"seqNum", "pc"} \subseteq DOMAIN h[k]

(* A correction keeps a prefix and replaces its last branch by one with the
   same number and instruction. *)
LEMMA AlignedReplace ==
  ASSUME NEW hist, NEW win, NEW lo \in Nat, NEW hi \in Nat,
         Aligned(hist, win, lo, hi), NEW k \in 1..Len(win), NEW h, NEW x,
         SameUpTo(h, hist, k),
         x.seqNum = win[k].seqNum, x.inst = win[k].inst,
         {"seqNum", "inst"} \subseteq DOMAIN x
  PROVE  Aligned(h, Append(SubSeq(win, 1, k - 1), x), lo, hi)
<1>0. /\ IsSequence(h) /\ Len(h) = k
      /\ \A i \in 1..k - 1 : h[i] = hist[i]
      /\ h[k].seqNum = hist[k].seqNum /\ h[k].pc = hist[k].pc
      /\ {"seqNum", "pc"} \subseteq DOMAIN h[k]
  BY DEF SameUpTo
<1> DEFINE p == SubSeq(win, 1, k - 1)
           v == Append(p, x)
<1>1. Len(win) \in Nat /\ k \in Nat /\ k - 1 \in 0..Len(win) /\ k - 1 + 1 = k
  BY SequenceLen DEF Aligned
<1>2. /\ IsSequence(p) /\ Len(p) = k - 1
      /\ \A i \in 1..k - 1 : p[i] = win[i]
  <2>1. Len(p) = k - 1 /\ \A i \in 1..k - 1 : p[i] = win[i]
    BY <1>1, AlignedPrefix
  <2>2. Aligned(SubSeq(hist, 1, k - 1), p, lo, hi)
    BY <1>1, AlignedPrefix
  <2> QED
    BY <2>1, <2>2 DEF Aligned
<1> HIDE DEF p
<1>3. /\ IsSequence(v) /\ Len(v) = k
      /\ \A i \in 1..k - 1 : v[i] = win[i]
      /\ v[k] = x
  BY <1>1, <1>2, SequenceAppend
<1> HIDE DEF v
<1>4. \A i \in 1..k : i \in 1..Len(win) /\ (i \in 1..k - 1 \/ i = k)
  BY <1>1
<1>5. ASSUME NEW i \in 1..k
      PROVE  /\ v[i].seqNum = win[i].seqNum /\ v[i].inst = win[i].inst
             /\ h[i].seqNum = hist[i].seqNum /\ h[i].pc = hist[i].pc
             /\ {"seqNum", "pc"} \subseteq DOMAIN h[i]
             /\ {"seqNum", "inst"} \subseteq DOMAIN v[i]
  <2>1. CASE i = k
    BY <1>0, <1>3, <2>1
  <2>2. CASE i \in 1..k - 1
    BY <1>0, <1>3, <1>4, <2>2 DEF Aligned
  <2> QED
    BY <1>4, <2>1, <2>2
<1>6. \A i \in 1..k : /\ h[i].seqNum = v[i].seqNum
                      /\ h[i].pc = v[i].inst.pc
                      /\ v[i].seqNum \in Nat /\ v[i].seqNum > lo /\ v[i].seqNum <= hi
  BY <1>4, <1>5 DEF Aligned
<1>7. \A i, j \in 1..k : i < j => v[i].seqNum < v[j].seqNum
  BY <1>4, <1>5 DEF Aligned
<1> QED
  BY <1>0, <1>3, <1>5, <1>6, <1>7 DEF Aligned, v, p
=============================================================================
