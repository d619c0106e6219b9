--------------------------- MODULE LagrangianGrid ---------------------------
(***************************************************************************)
(* buildLagrangianGrid: the public choice of the multipliers whose bounds  *)
(* the encrypted branch and bound compares with its incumbent.  A binary   *)
(* search finds the largest multiplier whose intermediate values fit the   *)
(* secure operations, two anchors and an even spread fill the grid, and a  *)
(* loop trims it to the requested size without dropping an anchor.  The    *)
(* widths of the machine integers are parameters.                          *)
(***************************************************************************)
EXTENDS Integers, FiniteSets, FiniteSetsExt

CONSTANTS
  Domains,     (* numeric domains [scale, rows, costBits, compareBits]     *)
  Thresholds,  (* scaled thresholds                                        *)
  Configs,     (* grid configurations [denominator, requested, span]       *)
  SecureBits,  (* operand bits of the secure operations (127)              *)
  MaxInt       (* largest std::int64_t                                     *)

VARIABLES
  domain, threshold, config,  (* the arguments                           *)
  low, high,                  (* the interval of maximumMu's search      *)
  values,                     (* the set of multipliers being built      *)
  pc                          (* where the computation is                *)

input == <<domain, threshold, config>>
vars  == <<input, low, high, values, pc>>

Q     == domain.scale * config.denominator
Alpha == domain.scale - threshold

Abs(x)      == IF x < 0 THEN -x ELSE x
Larger(a, b) == IF a > b THEN a ELSE b
Smaller(a, b) == IF a < b THEN a ELSE b

(* The doublings of one that stay below v, as far as the code counts them.  *)
CeilLog2(v) == Cardinality({b \in 0..SecureBits : 2^b < v})

(* Mutant of CoefficientBound: the coefficient of method 3 is forgotten. *)
CoefficientBoundOf12(mu) == Abs(Q - mu * Alpha)
CoefficientBound(mu) == Larger(Abs(Q - mu * Alpha), Q + mu * threshold)

ScoreBits(mu) == domain.costBits + CeilLog2(CoefficientBound(mu))
DeltaBits(mu) == ScoreBits(mu) + 1
BoundBits(mu) == ScoreBits(mu) + CeilLog2(domain.rows)

Supported(mu) ==
  /\ DeltaBits(mu) <= SecureBits
  /\ BoundBits(mu) <= domain.compareBits
  /\ domain.compareBits <= SecureBits

RoundedRatio(a, b, d) == Smaller((a * b + d \div 2) \div d, MaxInt)

AlphaAnchor     == RoundedRatio(config.denominator, domain.scale, Alpha)
ThresholdAnchor == RoundedRatio(config.denominator, domain.scale, threshold)
Anchors         == {AlphaAnchor, ThresholdAnchor}
Upper == Smaller(low, Smaller(config.span * Larger(AlphaAnchor, ThresholdAnchor),
                              MaxInt))

-----------------------------------------------------------------------------
Init ==
  /\ domain \in Domains /\ config \in Configs
  /\ threshold \in {t \in Thresholds : t < domain.scale}
  /\ low = 0 /\ high = MaxInt
  /\ values = {0}
  /\ pc = "start"

(* Q must fit ScalarMul, and the grid {0} must be supported. *)
Start ==
  /\ pc = "start"
  /\ pc' = IF Q > MaxInt \/ ~Supported(0) THEN "rejected" ELSE "search"
  /\ UNCHANGED <<input, low, high, values>>

(* Mutant of Bisect: the search is the one for the first unsupported value. *)
BisectUnsupported ==
  /\ pc = "search" /\ low < high
  /\ LET midpoint == low + (high - low) \div 2
     IN  IF Supported(midpoint) THEN low' = midpoint + 1 /\ UNCHANGED high
                                ELSE high' = midpoint /\ UNCHANGED low
  /\ UNCHANGED <<input, values, pc>>

(* maximumMu: one step of the binary search. *)
Bisect ==
  /\ pc = "search" /\ low < high
  /\ LET midpoint == low + (high - low + 1) \div 2
     IN  IF Supported(midpoint) THEN low' = midpoint /\ UNCHANGED high
                                ELSE high' = midpoint - 1 /\ UNCHANGED low
  /\ UNCHANGED <<input, values, pc>>

(* No multiplier but zero for a zero threshold or a grid of one. *)
OnlyZero ==
  /\ pc = "search" /\ low = high
  /\ threshold = 0 \/ config.requested = 1
  /\ pc' = "done"
  /\ UNCHANGED <<input, low, high, values>>

AddAnchor(set, anchor) ==
  IF Cardinality(set) < config.requested /\ anchor > 0 /\ anchor <= Upper
  THEN set \cup {anchor} ELSE set

Spread ==
  LET intervals == config.requested - 1
  IN  IF Upper > 0
      THEN {(Upper * i + intervals \div 2) \div intervals : i \in 1..intervals}
      ELSE {}

Fill ==
  /\ pc = "search" /\ low = high
  /\ threshold # 0 /\ config.requested # 1
  /\ values' = AddAnchor(AddAnchor(values, AlphaAnchor), ThresholdAnchor)
               \cup Spread
  /\ pc' = "trim"
  /\ UNCHANGED <<input, low, high>>

(* The largest value goes, or the largest that is no anchor when the        *)
(* largest is one; with none left the loop stops.                           *)
Removable ==
  IF Max(values) \notin Anchors THEN {Max(values)}
  ELSE LET free == values \ (Anchors \cup {0})
       IN  IF free = {} THEN {} ELSE {Max(free)}

(* Mutant of Trim: an off-by-one in the size. *)
TrimTooLittle ==
  /\ pc = "trim"
  /\ IF Cardinality(values) > config.requested + 1 /\ Removable # {}
     THEN values' = values \ Removable /\ UNCHANGED pc
     ELSE pc' = "done" /\ UNCHANGED values
  /\ UNCHANGED <<input, low, high>>

Trim ==
  /\ pc = "trim"
  /\ IF Cardinality(values) > config.requested /\ Removable # {}
     THEN values' = values \ Removable /\ UNCHANGED pc
     ELSE pc' = "done" /\ UNCHANGED values
  /\ UNCHANGED <<input, low, high>>

Next == Start \/ Bisect \/ OnlyZero \/ Fill \/ Trim

Spec == Init /\ [][Next]_vars

-----------------------------------------------------------------------------
(* The binary search is right to assume that support is monotone: low is    *)
(* always supported with everything below it, nothing above high is.        *)
SearchBrackets ==
  pc \in {"search", "trim", "done"} =>
    \A mu \in 0..MaxInt : /\ mu <= low => Supported(mu)
                          /\ mu > high => ~Supported(mu)

(* deriveLagrangianNumericBounds, called on the finished grid, never        *)
(* throws: every multiplier is within the limit the search found.           *)
GridSupported ==
  pc \in {"trim", "done"} => \A mu \in values : mu <= low /\ Supported(mu)

(* Trimming drops no anchor: one within the range of the grid that had room *)
(* in the request, beside zero and the other anchor, is in the result.      *)
AnchorsKept ==
  pc = "done" /\ threshold # 0 /\ config.requested >= 2 =>
    LET reachable == Anchors \cap 1..Upper
    IN  \/ reachable \subseteq values
        \/ config.requested = 2 /\ AlphaAnchor \in values

(* The grid has at most the requested size, or is zero, the two anchors and *)
(* nothing else.                                                            *)
SizeBounded ==
  pc = "done" => \/ Cardinality(values) <= config.requested
                 \/ values = {0} \cup Anchors

(* What the grid's test asserts: the size never exceeds the request.        *)
SizeAtMostRequested == pc = "done" => Cardinality(values) <= config.requested
=============================================================================
