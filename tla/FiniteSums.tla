----------------------------- MODULE FiniteSums -----------------------------
(***************************************************************************)
(* Sums of the values of a function, over a set of its arguments.          *)
(***************************************************************************)
EXTENDS Integers, FiniteSetsExt

SumOver(f, S) == MapThenSumSet(LAMBDA i : f[i], S)
=============================================================================
