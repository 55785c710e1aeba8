------------------------------- MODULE Int32 -------------------------------
(***************************************************************************)
(* The 32-bit integers of the program: Go's int32(x) conversion and the    *)
(* range of a Postgres INTEGER column.  The width is a parameter so that   *)
(* TLC reaches the wrap-around and the overflow with small numbers.        *)
(***************************************************************************)
EXTENDS Integers

CONSTANT HalfRange      \* 2^31 in the program: int32 is -2^31 .. 2^31 - 1

ASSUME HalfRangeAssumption == HalfRange \in Nat \ {0}

INT == -HalfRange .. HalfRange - 1

\* Go's int32(x) of a 64-bit int keeps the low bits; -x of an int32 wraps the
\* same way.
Int32(x) == ((x + HalfRange) % (2 * HalfRange)) - HalfRange

Negate32(x) == Int32(-x)
=============================================================================
