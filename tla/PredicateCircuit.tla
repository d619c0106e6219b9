-------------------------- MODULE PredicateCircuit --------------------------
(***************************************************************************)
(* How one predicate becomes one bit.  The engine turns the inputs of      *)
(* pruneNode or acceptCandidate into a list of strict comparisons.  On the *)
(* fused path the client garbles a Boolean circuit over their results and  *)
(* the CSP evaluates it gate by gate; on the other path the same predicate *)
(* is computed with arithmetic on encrypted 0/1 values.                    *)
(*                                                                         *)
(* Labels are symbolic: a 32-byte string is the exclusive or of random     *)
(* strings, kept as the set of wires whose random string it contains and   *)
(* whether it contains delta.  The pad of a gate opens nothing but the row *)
(* made with the same two labels.  A masked comparison is its outcome,     *)
(* flipped when the client drew the other orientation.                     *)
(***************************************************************************)
EXTENDS Integers, Sequences, FiniteSets

CONSTANTS
  PruneProblems,   (* inputs of pruneNode, in plaintext                 *)
  AcceptProblems,  (* inputs of acceptCandidate, in plaintext           *)
  Orientations,    (* the client's random orientations, per comparison  *)
  Colours          (* last bits of the wires' random strings            *)

(* What the engine validates of its inputs, and one random bit for every    *)
(* comparison.                                                              *)
ASSUME ProblemAssumption ==
  /\ \A p \in PruneProblems :
       /\ p.type = "prune" /\ p.incumbent \in BOOLEAN
       /\ p.linear \in Int /\ p.best \in Int
       /\ p.lowers \in Seq(Int) /\ p.lowers # <<>>
       /\ \A o \in Orientations : \A i \in 0..Len(p.lowers) : o[i] \in BOOLEAN
  /\ \A p \in AcceptProblems :
       /\ p.type = "accept" /\ p.incumbent \in BOOLEAN
       /\ {p.linear, p.c3, p.cost, p.c12, p.best, p.best12} \subseteq Int
       /\ \A o \in Orientations : \A i \in 0..4 : o[i] \in BOOLEAN

VARIABLES
  problem,     (* the predicate's inputs                                *)
  orientation, (* the client's orientation of each comparison           *)
  colour,      (* last bit of each wire's random string                 *)
  tables,      (* the garbled gates of the finish request               *)
  labels,      (* the labels the CSP has, per wire                      *)
  stage, decision

circuitVars == <<problem, orientation, colour, tables, labels, stage, decision>>

(* The comparisons "first > second", in the order they are sent. *)
Comparisons ==
  IF problem.type = "prune"
  THEN <<<<0, problem.linear>>>>
       \o (IF problem.incumbent
           THEN [k \in DOMAIN problem.lowers |-> <<problem.lowers[k], problem.best>>]
           ELSE <<>>)
  ELSE <<<<0, problem.linear>>, <<problem.c3, 0>>>>
       \o (IF problem.incumbent
           THEN <<<<problem.best, problem.cost>>, <<problem.cost, problem.best>>,
                  <<problem.best12, problem.c12>>>>
           ELSE <<>>)

Count  == Len(Comparisons)
Inputs == 0 .. Count - 1
Greater(i) == Comparisons[i + 1][1] > Comparisons[i + 1][2]

-----------------------------------------------------------------------------
(* The circuit: gate k drives wire Count + k - 1, below it are the inputs.  *)
Xor(terms, constant) == [kind |-> "xor", terms |-> terms, constant |-> constant]
And(left, right)     == [kind |-> "and", left |-> left, right |-> right]

(* a OR b is a XOR b XOR ab: the gates that fold b into a. *)
OrGates(a, b, product) == <<And(a, b), Xor({a, b, product}, FALSE)>>

(* The wire that holds the fold of comparisons 1 to i; comparison 0 is      *)
(* folded last, as if it were number Count.                                 *)
Folded(i) == IF i = 1 THEN 1 ELSE Count + 2 * (i - 2) + 1

(* Mutant of PruneGates: the last bound is left out of the disjunction.     *)
PruneGatesShort ==
  LET pair(i) == OrGates(IF i < Count THEN Folded(i - 1) ELSE 0,
                         IF i = Count - 1 THEN 1 ELSE IF i < Count THEN i ELSE Folded(i - 1),
                         Folded(i) - 1)
  IN  [k \in 1 .. 2 * (Count - 1) |-> pair(2 + (k - 1) \div 2)[1 + ((k - 1) % 2)]]

PruneGates ==
  LET pair(i) == OrGates(IF i < Count THEN Folded(i - 1) ELSE 0,
                         IF i < Count THEN i ELSE Folded(i - 1),
                         Folded(i) - 1)
  IN  [k \in 1 .. 2 * (Count - 1) |-> pair(2 + (k - 1) \div 2)[1 + ((k - 1) % 2)]]

AcceptGates ==
  IF problem.incumbent
  THEN <<Xor({0}, TRUE), And(5, 1),        (* 5: linear >= 0   6: feasible   *)
         Xor({2, 3}, TRUE), And(7, 4),     (* 7: equal cost    8: and c12    *)
         Xor({2, 8}, FALSE), And(6, 9)>>   (* 9: better        10: accept    *)
  ELSE <<Xor({0}, TRUE), And(2, 1)>>

Gates == IF problem.type = "accept" THEN AcceptGates
         ELSE IF problem.incumbent THEN PruneGates ELSE <<>>

Wires     == 0 .. Count + Len(Gates) - 1
Output    == IF Gates = <<>> THEN 0 ELSE Count + Len(Gates) - 1
GateOf(w) == Gates[w - Count + 1]

(* Position of w's gate among the AND gates, which number the pads. *)
AndIndex(w) ==
  Cardinality({v \in Wires : v >= Count /\ v < w /\ GateOf(v).kind = "and"})

-----------------------------------------------------------------------------
(* Labels. *)
Odd(S) == Cardinality(S) % 2 = 1

Random(w) == [strings |-> {w}, delta |-> FALSE]
Garbage   == [strings |-> {-1}, delta |-> FALSE]

(* The exclusive or of the labels of some wires: what is in an odd number   *)
(* of them.                                                                 *)
XorOf(label, terms) ==
  [strings |-> {v \in UNION {label[t].strings : t \in terms} :
                  Odd({t \in terms : v \in label[t].strings})},
   delta   |-> Odd({t \in terms : label[t].delta})]

Flip(a) == [a EXCEPT !.delta = ~ @]

(* The last bit; delta's is always 1. *)
LastBit(a) == Odd({w \in a.strings : colour[w]}) # a.delta

(* garblePredicate: the label that stands for 0 on each wire. *)
Zero ==
  LET zero[w \in Wires] ==
        IF w < Count \/ GateOf(w).kind = "and" THEN Random(w)
        ELSE LET sum == XorOf(zero, GateOf(w).terms)
             IN  IF GateOf(w).constant THEN Flip(sum) ELSE sum
  IN  zero

Label(w, bit) == IF bit THEN Flip(Zero[w]) ELSE Zero[w]

(* The garbled gate of wire w: under each pair of last bits, the pad and    *)
(* the label it hides.                                                      *)
Table(w) ==
  LET gate == GateOf(w)
      row(a, b) == [at   |-> <<LastBit(Label(gate.left, a)),
                               LastBit(Label(gate.right, b))>>,
                    pad  |-> <<Label(gate.left, a), Label(gate.right, b), AndIndex(w)>>,
                    hides |-> Label(w, a /\ b)]
  IN  {row(a, b) : a \in BOOLEAN, b \in BOOLEAN}

AndWires == {w \in Wires : w >= Count /\ GateOf(w).kind = "and"}

-----------------------------------------------------------------------------
CircuitInit ==
  /\ problem \in PruneProblems \cup AcceptProblems
  /\ orientation \in Orientations
  /\ colour \in Colours
  /\ tables = <<>> /\ labels = <<>>
  /\ stage = "start" /\ decision = FALSE

(* F and its reply: the CSP's choice is the comparison's outcome as the     *)
(* orientation shows it, and G carries for each choice the label of the     *)
(* outcome behind it.  The CSP gets the one it chose.                       *)
Transfer ==
  /\ stage = "start"
  /\ labels' = [i \in Inputs |->
       LET choice   == Greater(i) # orientation[i]
           outcome1 == ~orientation[i]   (* what choice 1 stands for *)
       IN  Label(i, IF choice THEN outcome1 ELSE ~outcome1)]
  /\ tables' = [w \in AndWires |-> Table(w)]
  /\ stage' = "evaluate"
  /\ UNCHANGED <<problem, orientation, colour, decision>>

Evaluated == Cardinality(DOMAIN labels)

(* Mutant of EvaluateGate: the pad is numbered by the wire, not by the gate. *)
EvaluateByWire ==
  /\ stage = "evaluate" /\ Evaluated \in Wires
  /\ LET w     == Evaluated
         gate  == GateOf(w)
         row   == CHOOSE r \in tables[w] :
                    r.at = <<LastBit(labels[gate.left]), LastBit(labels[gate.right])>>
         value == IF gate.kind = "xor"
                  THEN XorOf(labels, gate.terms)
                  ELSE IF row.pad = <<labels[gate.left], labels[gate.right], w - Count>>
                       THEN row.hides ELSE Garbage
     IN  labels' = [v \in 0..w |-> IF v = w THEN value ELSE labels[v]]
  /\ UNCHANGED <<problem, orientation, colour, tables, stage, decision>>

(* The CSP computes the label of the next wire. *)
EvaluateGate ==
  /\ stage = "evaluate" /\ Evaluated \in Wires
  /\ LET w     == Evaluated
         gate  == GateOf(w)
         row   == CHOOSE r \in tables[w] :
                    r.at = <<LastBit(labels[gate.left]), LastBit(labels[gate.right])>>
         value == IF gate.kind = "xor"
                  THEN XorOf(labels, gate.terms)
                  ELSE IF row.pad = <<labels[gate.left], labels[gate.right], AndIndex(w)>>
                       THEN row.hides ELSE Garbage
     IN  labels' = [v \in 0..w |-> IF v = w THEN value ELSE labels[v]]
  /\ UNCHANGED <<problem, orientation, colour, tables, stage, decision>>

(* The output label is compared with the two G names; a third is an error.  *)
Decide ==
  /\ stage = "evaluate" /\ Evaluated \notin Wires
  /\ stage' = IF labels[Output] \in {Label(Output, FALSE), Label(Output, TRUE)}
           THEN "decided" ELSE "refused"
  /\ decision' = (labels[Output] = Label(Output, TRUE))
  /\ UNCHANGED <<problem, orientation, colour, tables, labels>>

CircuitNext == Transfer \/ EvaluateGate \/ Decide

CircuitSpec == CircuitInit /\ [][CircuitNext]_circuitVars

-----------------------------------------------------------------------------
(* The path without fusion, on the values the ciphertexts hold. *)
Bit(i)          == IF Greater(i) THEN 1 ELSE 0
BitNot(a)       == 1 - a
BitAnd(a, b)    == a * b
BitOr(a, b)     == a + b - a * b
BitOrExclusive(a, b) == a + b

(* One layer of pruneNode's balanced disjunction. *)
OrLayer(layer) ==
  [j \in 1 .. (Len(layer) + 1) \div 2 |->
     IF 2 * j <= Len(layer) THEN BitOr(layer[2 * j - 1], layer[2 * j])
     ELSE layer[2 * j - 1]]

OrTree[layer \in Seq({0, 1})] ==
  IF Len(layer) = 1 THEN layer[1] ELSE OrTree[OrLayer(layer)]

UnfusedPrune ==
  IF problem.incumbent
  THEN BitOr(Bit(0), OrTree[[k \in 1 .. Count - 1 |-> Bit(k)]])
  ELSE Bit(0)

CostEqual == BitNot(BitOrExclusive(Bit(2), Bit(3)))
EqualAndC12 == BitAnd(CostEqual, Bit(4))

(* Mutant of UnfusedBetter: c12 counts whatever the costs are. *)
UnfusedBetterLoose == BitOrExclusive(Bit(2), Bit(4))

UnfusedBetter == BitOrExclusive(Bit(2), EqualAndC12)

UnfusedAccept ==
  LET feasible == BitAnd(BitNot(Bit(0)), Bit(1))
  IN  IF problem.incumbent THEN BitAnd(feasible, UnfusedBetter) ELSE feasible

Unfused == IF problem.type = "prune" THEN UnfusedPrune ELSE UnfusedAccept

-----------------------------------------------------------------------------
(* What the predicates mean, on plaintext values. *)
Meaning ==
  IF problem.type = "prune"
  THEN \/ problem.linear < 0
       \/ problem.incumbent /\ \E k \in DOMAIN problem.lowers :
                                  problem.lowers[k] > problem.best
  ELSE /\ problem.linear >= 0 /\ problem.c3 > 0
       /\ problem.incumbent => \/ problem.cost < problem.best
                               \/ /\ problem.cost = problem.best
                                  /\ problem.c12 < problem.best12

(* The value of each wire in the circuit, as Booleans. *)
Value ==
  LET value[w \in Wires] ==
        IF w < Count THEN Greater(w)
        ELSE LET gate == GateOf(w)
             IN  IF gate.kind = "and" THEN value[gate.left] /\ value[gate.right]
                 ELSE Odd({t \in gate.terms : value[t]}) # gate.constant
  IN  value

(* Whatever the orientations and the random labels, each label the CSP      *)
(* computes stands for its wire's value: point and permute picks the row    *)
(* that opens, and the constants of linear wires, which only the client     *)
(* adds, cancel.                                                            *)
LabelsEncodeValues ==
  stage # "start" => \A w \in DOMAIN labels : labels[w] = Label(w, Value[w])

(* The protocol between honest parties never ends in "invalid fused output  *)
(* label", and its decision is the meaning of the predicate.                *)
DecisionIsMeaning ==
  /\ stage # "refused"
  /\ stage = "decided" => decision = Meaning

(* The unfused arithmetic gives the same bit.  Adding two bits instead of   *)
(* OR-ing them is sound because they are never both 1: the result and what  *)
(* it is computed from stay bits.                                           *)
PathsAgree ==
  stage = "decided" =>
    /\ Unfused = IF decision THEN 1 ELSE 0
    /\ problem.type = "accept" /\ problem.incumbent =>
         {CostEqual, UnfusedBetter} \subseteq {0, 1}
=============================================================================
