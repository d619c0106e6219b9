-------------------------- MODULE MCEncryptedSolve --------------------------
(***************************************************************************)
(* Instances of EncryptedSolve for TLC: integers narrow enough that the    *)
(* limits of the secure operations and of the 64-bit type both bite; all   *)
(* matrices of two rows with costs up to the largest of two bits, where    *)
(* the first row may lack methods, and of three rows with costs 1 and 2,   *)
(* method 1 being no dearer than method 2.                                 *)
(***************************************************************************)
EXTENDS EncryptedSolve

CONSTANTS ScaleValues, RowValues, CostBits, CompareBits,
          Denominators, Requests, Spans

AllDomains == [scale : ScaleValues, rows : RowValues,
               costBits : CostBits, compareBits : CompareBits]
AllConfigs == [denominator : Denominators, requested : Requests, span : Spans]

SearchDomain(rows) ==
  [scale |-> Scale, rows |-> rows, costBits |-> 2, compareBits |-> 8]

(* A coarse grid with a wide span, and a fine one that the domain limits.   *)
AllSearched ==
  {<<SearchDomain(2), [denominator |-> 1, requested |-> 3, span |-> 2]>>,
   <<SearchDomain(2), [denominator |-> 3, requested |-> 2, span |-> 2]>>,
   <<SearchDomain(3), [denominator |-> 1, requested |-> 3, span |-> 2]>>}

FullRow == [1..3 -> {0, 1, 3}]
SomeRow == {r \in [1..3 -> 1..2 \cup {None}] : \E m \in 1..3 : r[m] # None}

SmallMatrices == {<<r, s>> : r \in SomeRow, s \in FullRow}
                 \cup [1..3 -> {r \in [1..3 -> 1..2] : r[1] <= r[2]}]
=============================================================================
