----------------------------- MODULE DefaultBTB -----------------------------
(***************************************************************************)
(* DefaultBTB: a direct-mapped branch target buffer.  Addresses are word   *)
(* addresses (the code's instPC >> instShiftAmt).  The tag keeps only      *)
(* BTBTagBits bits, so two branches may share an entry and a tag.          *)
(***************************************************************************)
EXTENDS Bits

CONSTANTS BTBIdxBits,     \* floorLog2(numEntries)
          BTBTagBits,     \* tagBits
          BTBThreadBits   \* log2NumThreads

BTBInit ==
  [i \in 0..2^BTBIdxBits - 1 |-> [valid |-> FALSE, tag |-> 0, tid |-> 0, target |-> 0]]

getIndex(pc, tid) == Xor(pc, tid * 2^(BTBIdxBits - BTBThreadBits), BTBIdxBits)

getTag(pc) == Mask(pc \div 2^BTBIdxBits, BTBTagBits)

valid(btb, pc, tid) ==
  LET e == btb[getIndex(pc, tid)] IN e.valid /\ e.tag = getTag(pc) /\ e.tid = tid

lookup(btb, pc, tid) ==
  IF valid(btb, pc, tid) THEN btb[getIndex(pc, tid)].target ELSE 0

update(btb, pc, target, tid) ==
  [btb EXCEPT ![getIndex(pc, tid)] =
     [valid |-> TRUE, tag |-> getTag(pc), tid |-> tid, target |-> target]]
=============================================================================
