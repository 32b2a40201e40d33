--------------------------- MODULE CounterTables ----------------------------
(***************************************************************************)
(* What the direction predictors have in common.  The state of a predictor *)
(* is a record b: ctrs maps the name of each of its tables to the table of *)
(* saturating counters, heap holds the BPHistory objects that have been    *)
(* allocated and not deleted, under their pointers, and the histories have *)
(* fields of their own.                                                    *)
(***************************************************************************)
EXTENDS SatCounter, Bits, FiniteSetsExt, Functions, TLC

CONSTANTS Threads,
          IdxBits,          \* log2 of the size of each table of counters
          CtrBits,          \* the width of the counters of each table
          LocalTableBits,   \* log2 of localHistoryTableSize
          UnsignedBits      \* the width of an unsigned

NULL == 0

invalidPredictorIndex == -1

counters(tables) == [n \in tables |-> [i \in 0..2^IdxBits[n] - 1 |-> 0]]

localHistories == [i \in 0..2^LocalTableBits - 1 |-> 0]

globalHistories == [t \in Threads |-> 0]

(* Above the threshold is taken. *)
above(b, n, i) == b.ctrs[n][i] > threshold(CtrBits[n])

(* Mutant: the counter does not saturate. *)
trainCtrUnsaturated(b, n, i, up) ==
  [b EXCEPT !.ctrs[n][i] = IF up THEN @ + 1 ELSE decrement(@, 1)]

trainCtr(b, n, i, up) == [b EXCEPT !.ctrs[n][i] = train(@, up, maxVal(CtrBits[n]))]

(* x << 1 | taken, in a register that no mask cuts. *)
shiftUnmasked(x, taken) == Mask(ShiftIn(x, taken), UnsignedBits)

(* new BPHistory and delete. *)
allocate(b, h) ==
  LET ptr == Min((1..Cardinality(DOMAIN b.heap) + 1) \ DOMAIN b.heap)
  IN  [bp |-> [b EXCEPT !.heap = (ptr :> h) @@ @], ptr |-> ptr]

delete(b, ptr) == [b EXCEPT !.heap = Restrict(@, DOMAIN @ \ {ptr})]
=============================================================================
