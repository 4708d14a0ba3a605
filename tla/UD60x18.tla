------------------------------ MODULE UD60x18 ------------------------------
(***************************************************************************)
(* exp and ln of the vendored prb-math library, as far as the bonding      *)
(* curve uses them.  A number x stands for x / unit; the code has          *)
(* unit = 10^18, a model takes a small power of two.  Module Curve takes   *)
(* the two functions as tables; only the MC modules build them, from here. *)
(***************************************************************************)
EXTENDS Integers, Sequences

(***************************************************************************)
(* exp is modelled by what it computes, e^x rounded down, and not by the   *)
(* library's table of binary roots: its power series up to the 12th power, *)
(* enough below 3.0, with terms 256 times finer than the result so that    *)
(* their truncation does not reach the last digit.                         *)
(***************************************************************************)
exp(unit, x) ==
    LET term[n \in 0..12] ==
            IF n = 0 THEN unit * 256 ELSE (term[n - 1] * x) \div (n * unit)
        sum[n \in 0..12] ==
            IF n = 0 THEN term[0] ELSE sum[n - 1] + term[n]
    IN  sum[12] \div 256

(***************************************************************************)
(* log2 of a number from 1.0 up (the library reverts below, the curve      *)
(* never asks): the integer part n, then the fraction bit by bit, squaring *)
(* y = x / 2^n and halving it whenever it reaches 2.0.                     *)
(***************************************************************************)
RECURSIVE Log2Fraction(_, _, _)
Log2Fraction(unit, y, delta) ==
    LET square == (y * y) \div unit
    IN  IF delta = 0 THEN 0
        ELSE IF square >= 2 * unit
             THEN delta + Log2Fraction(unit, square \div 2, delta \div 2)
             ELSE Log2Fraction(unit, square, delta \div 2)

log2(unit, x) ==
    LET n == CHOOSE i \in 0..30 : 2^i * unit <= x /\ x < 2^(i + 1) * unit
        y == x \div 2^n
    IN  n * unit + (IF y = unit THEN 0 ELSE Log2Fraction(unit, y, unit \div 2))

LOG2_E(unit) == (unit * 14427) \div 10000

ln(unit, x) == (log2(unit, x) * unit) \div LOG2_E(unit)

(***************************************************************************)
(* <<F(lo), ..., F(hi)>>, built by halves: the tables TLC computes once.   *)
(***************************************************************************)
RECURSIVE Tabulate(_, _, _)
Tabulate(F(_), lo, hi) ==
    IF lo = hi THEN <<F(lo)>>
    ELSE LET mid == (lo + hi) \div 2
         IN  Tabulate(F, lo, mid) \o Tabulate(F, mid + 1, hi)

=============================================================================
