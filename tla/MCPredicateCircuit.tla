------------------------- MODULE MCPredicateCircuit -------------------------
(***************************************************************************)
(* Small problems in which every comparison comes out each way and costs   *)
(* tie, and enough random choices that every last bit of a label occurs.   *)
(***************************************************************************)
EXTENDS PredicateCircuit

CONSTANT MaxLowers, Values

SmallPrunes ==
  [type : {"prune"}, incumbent : BOOLEAN, linear : {-1, 0},
   lowers : UNION {[1..k -> Values] : k \in 1..MaxLowers}, best : Values]

SmallAccepts ==
  [type : {"accept"}, incumbent : BOOLEAN, linear : {-1, 0}, c3 : Values,
   cost : Values, c12 : Values, best : Values, best12 : Values]

(* Every orientation of the first three comparisons, repeated after them. *)
RepeatedBits == {[i \in 0..15 |-> f[i % 3]] : f \in [0..2 -> BOOLEAN]}
=============================================================================
