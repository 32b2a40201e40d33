------------------------- MODULE IndirectPredictor --------------------------
(***************************************************************************)
(* IndirectPredictor: a set-associative cache of indirect targets, indexed *)
(* by a hash of the branch, the global history and the path of recent      *)
(* indirect targets.  The path of a thread is a deque of the indirect      *)
(* branches in flight preceded by up to PathLength retired ones;           *)
(* headHistEntry counts the retired ones.  In pathHist the oldest entry    *)
(* comes first, as in the code.                                            *)
(***************************************************************************)
EXTENDS Bits, Sequences

CONSTANTS SetBits,        \* floorLog2(numSets)
          NumWays,        \* numWays
          IndTagBits,     \* tagBits
          PathLength,     \* pathLength
          hashGHR, hashTargets

ThreadInfoInit == [pathHist |-> << >>, headHistEntry |-> 0]

(* An empty way has tag 0 and target 0: there is no valid bit. *)
TargetCacheInit ==
  [s \in 0..2^SetBits - 1 |-> [w \in 1..NumWays |-> [tag |-> 0, target |-> 0]]]

getTag(br_addr) == Mask(br_addr, IndTagBits)

(* path[p]: the hash after the p youngest targets have been folded in. *)
getSetIndex(info, br_addr, ghr) ==
  LET start  == IF hashGHR THEN Xor(br_addr, ghr, SetBits) ELSE Mask(br_addr, SetBits)
      size   == Len(info.pathHist)
      length == IF size < PathLength THEN size ELSE PathLength
      path[p \in 0..length] ==
        IF p = 0 THEN start
        ELSE Xor(path[p - 1],
                 info.pathHist[size - p + 1].targetAddr
                   \div 2^((p - 1) * (SetBits \div PathLength)),
                 SetBits)
  IN  IF hashTargets THEN path[length] ELSE start

(* The ways of a set that match a branch; lookup takes the first of them. *)
matches(cache, set, br_addr) == {w \in 1..NumWays : cache[set][w].tag = getTag(br_addr)}

firstMatch(cache, set, br_addr) ==
  CHOOSE w \in matches(cache, set, br_addr) :
    \A v \in matches(cache, set, br_addr) : w <= v

hit(cache, info, br_addr, ghr) ==
  matches(cache, getSetIndex(info, br_addr, ghr), br_addr) # {}

lookup(cache, info, br_addr, ghr) ==
  LET set == getSetIndex(info, br_addr, ghr)
  IN  cache[set][firstMatch(cache, set, br_addr)].target

recordIndirect(info, br_addr, tgt_addr, seq_num) ==
  [info EXCEPT !.pathHist =
     Append(@, [pcAddr |-> br_addr, targetAddr |-> tgt_addr, seqNum |-> seq_num])]

(* Mutant: an entry retires whether or not its branch has committed. *)
commitUnchecked(info, seq_num) ==
  IF info.headHistEntry < Len(info.pathHist)
  THEN IF info.headHistEntry >= PathLength
       THEN [info EXCEPT !.pathHist = Tail(@)]
       ELSE [info EXCEPT !.headHistEntry = @ + 1]
  ELSE info

(* At most one entry retires per call, however many branches it covers. *)
commit(info, seq_num) ==
  IF /\ info.headHistEntry < Len(info.pathHist)
     /\ info.pathHist[info.headHistEntry + 1].seqNum <= seq_num
  THEN IF info.headHistEntry >= PathLength
       THEN [info EXCEPT !.pathHist = Tail(@)]
       ELSE [info EXCEPT !.headHistEntry = @ + 1]
  ELSE info

(* Erases the path from its first entry younger than seq_num. *)
squash(info, seq_num) ==
  LET young == {i \in 1..Len(info.pathHist) : info.pathHist[i].seqNum > seq_num}
  IN  IF young = {} THEN info
      ELSE [info EXCEPT !.pathHist =
              SubSeq(@, 1, (CHOOSE i \in young : \A j \in young : i <= j) - 1)]

(***************************************************************************)
(* recordTarget corrects the youngest path entry and the target cache.     *)
(* The set is computed with that entry popped; a branch that matches no    *)
(* way replaces a random one (victim).                                     *)
(***************************************************************************)
recordTargetPath(info, target) ==
  [info EXCEPT !.pathHist[Len(info.pathHist)].targetAddr = target]

recordTargetCache(cache, info, ghr, target, victim) ==
  LET size == Len(info.pathHist)
      pc   == info.pathHist[size].pcAddr
      set  == getSetIndex([info EXCEPT !.pathHist = SubSeq(@, 1, size - 1)], pc, ghr)
      way  == IF matches(cache, set, pc) # {} THEN firstMatch(cache, set, pc) ELSE victim
  IN  [cache EXCEPT ![set][way] = [tag |-> getTag(pc), target |-> target]]
=============================================================================
