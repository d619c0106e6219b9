------------------------- MODULE MCLagrangianGrid --------------------------
(***************************************************************************)
(* Instances of LagrangianGrid for TLC, with integers narrow enough that   *)
(* the limits of the secure operations and of the 64-bit type both bite.   *)
(***************************************************************************)
EXTENDS LagrangianGrid

CONSTANTS ScaleValues, RowValues, CostBits, CompareBits,
          Denominators, Requests, Spans

AllDomains == [scale : ScaleValues, rows : RowValues,
               costBits : CostBits, compareBits : CompareBits]
AllConfigs == [denominator : Denominators, requested : Requests, span : Spans]
=============================================================================
