-------------------------- MODULE ReturnAddrStack ---------------------------
(***************************************************************************)
(* ReturnAddrStack: a circular stack of call sites.  Popping leaves the    *)
(* popped slot in place, and pushing past the last slot wraps to the       *)
(* first: both are what makes undoing speculative calls and returns        *)
(* delicate (see BPredUnit).                                               *)
(***************************************************************************)
EXTENDS Integers

CONSTANT RASSize     \* numEntries

(* init and reset. *)
RASInit == [addrStack |-> [i \in 0..RASSize - 1 |-> 0], usedEntries |-> 0, tos |-> 0]

(* Mutant: the top does not wrap around. *)
incrTosUnwrapped(tos) == tos + 1

incrTos(tos) == IF tos + 1 = RASSize THEN 0 ELSE tos + 1
decrTos(tos) == IF tos = 0 THEN RASSize - 1 ELSE tos - 1

top(r) == r.addrStack[r.tos]

push(r, return_addr) ==
  [addrStack   |-> [r.addrStack EXCEPT ![incrTos(r.tos)] = return_addr],
   usedEntries |-> IF r.usedEntries # RASSize THEN r.usedEntries + 1 ELSE RASSize,
   tos         |-> incrTos(r.tos)]

pop(r) ==
  [r EXCEPT !.usedEntries = IF @ > 0 THEN @ - 1 ELSE 0, !.tos = decrTos(@)]

(* Mutant: the slot is not rewritten. *)
restoreIndexOnly(r, top_entry_idx, restored) == [r EXCEPT !.tos = top_entry_idx]

(* restore moves the top and rewrites it; usedEntries is left alone. *)
restore(r, top_entry_idx, restored) ==
  [r EXCEPT !.tos = top_entry_idx, !.addrStack[top_entry_idx] = restored]
=============================================================================
