-------------------------------- MODULE Bits --------------------------------
(***************************************************************************)
(* The unsigned arithmetic the predictors index their tables with.  Sizes  *)
(* are powers of two in the code (isPowerOf2 checks in every constructor), *)
(* so "x & (size - 1)" is a remainder and "x << 1 | b" a doubling.         *)
(***************************************************************************)
EXTENDS Integers

(* x & mask(bits) *)
Mask(x, bits) == x % 2^bits

(* (x << 1) | b *)
ShiftIn(x, b) == 2 * x + (IF b THEN 1 ELSE 0)

(* x & ~1 *)
ClearLSB(x) == x - (x % 2)

(* The low bits of the exclusive or of x and y. *)
Xor(x, y, bits) ==
  LET xor[i \in 0..bits] ==
        IF i = 0 THEN 0
        ELSE xor[i - 1] + 2^(i - 1) * ((x \div 2^(i - 1) + y \div 2^(i - 1)) % 2)
  IN  xor[bits]
=============================================================================
