---------------------------- MODULE AsciiConverter ----------------------------
(***************************************************************************)
(* The lookup table with which AsciiConverter::convert turns the grey      *)
(* level of a pixel into a character (src/src/ascii_converter.cpp).  The n *)
(* characters of ascii_chars_ run from black to white and are numbered     *)
(* from 0; which characters they are makes no difference.                  *)
(*                                                                         *)
(* The code works with doubles.  An index i*(n-1)/255 + 1/2 is an integer  *)
(* only if 2*i*(n-1) is an odd multiple of 255, and it is even: the index  *)
(* keeps a distance of 1/510 from the next integer, far more than doubles  *)
(* err for any string that fits in memory, so integers give the same.      *)
(***************************************************************************)
EXTENDS Integers

Greys == 0..255

\* The cast without "+ 0.5".
TruncatedIndex(n, i) == (2 * i * (n - 1)) \div 510

\* i / char_step + 0.5, cast to int; char_step is 255 / (n - 1), which for one
\* character is an infinity that makes the quotient 0.
Index(n, i) == (2 * i * (n - 1) + 255) \div 510

\* A step too many: n of them, and no clamp.
UnclampedLut(n) == [i \in Greys |-> (2 * i * n + 255) \div 510]

Clamp(k, low, high) == IF k < low THEN low ELSE IF k > high THEN high ELSE k

Lut(n) == [i \in Greys |-> Clamp(Index(n, i), 0, n - 1)]

\* Character k of n stands for the level 255 * k / (n - 1); the distance of the
\* level i from it, times n - 1.
Distance(n, i, k) ==
    IF 255 * k >= i * (n - 1) THEN 255 * k - i * (n - 1) ELSE i * (n - 1) - 255 * k
=============================================================================
