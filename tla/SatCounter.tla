----------------------------- MODULE SatCounter -----------------------------
(***************************************************************************)
(* SatCounter: an n-bit saturating counter, the cell of every direction    *)
(* predictor table and of the expert weights.                              *)
(***************************************************************************)
EXTENDS Integers

(* setBits: the largest value the counter reaches. *)
maxVal(bits) == 2^bits - 1

(* increment() called n times on a counter that is at most max. *)
increment(ctr, n, max) == IF ctr + n < max THEN ctr + n ELSE max

(* decrement() called n times. *)
decrement(ctr, n) == IF ctr > n THEN ctr - n ELSE 0

(* One step towards the outcome of a branch. *)
train(ctr, taken, max) ==
  IF taken THEN increment(ctr, 1, max) ELSE decrement(ctr, 1)

(* The prediction thresholds the constructors compute: above is taken. *)
threshold(bits) == 2^(bits - 1) - 1
=============================================================================
