-------------------------- MODULE ScalableOptimizer --------------------------
(***************************************************************************)
(* ScalableOptimizer::optimize of scalable_optimizer.cpp: a genetic search *)
(* on plaintext costs.  An individual is its genes, one method per row;    *)
(* evaluate computes all else from them.  Fitness and the ratio of a move  *)
(* are long doubles.  What the generator draws is chosen and recorded.     *)
(* The module is also the abstract specification of the encrypted search.  *)
(***************************************************************************)
EXTENDS GeneticTask, FiniteSetsExt, SequencesExt

CONSTANTS
  Precision,  (* significant bits of a long double: 64                     *)
  Fraction    (* a long double is a multiple of 2^-Fraction, which is not  *)
              (* above the last bit of any quotient of the search          *)

VARIABLES
  population,  (* sequence of individuals                                  *)
  next,        (* the population under construction                        *)
  best,        (* the best feasible individual so far, or None             *)
  generation,
  draws,       (* history: what was drawn for the last of next, or None    *)
  status       (* "running", "done", "no_feasible"                         *)

plainVars == <<task, population, next, best, generation, draws, status>>

(* encode: every row has a method, and some row has method 3.               *)
Encodable ==
  /\ \A i \in Rows : Methods(i) # {}
  /\ \E i \in Rows : 3 \in Methods(i)

MaxTotal == MapThenSumSet(LAMBDA i : Max({Cost(i, m) : m \in Methods(i)}), Rows)

Total(g)  == MapThenSumSet(LAMBDA i : Cost(i, g[i]), Rows)
C3(g)     == MapThenSumSet(LAMBDA i : Cost(i, g[i]), {i \in Rows : g[i] = 3})
Linear(g) == MapThenSumSet(LAMBDA i : Contribution(i, g[i]), Rows)

IsFeasible(g) == Linear(g) >= 0 /\ C3(g) > 0 /\ Total(g) > 0

(* The nearest number to n / d (d > 0) that has Precision significant bits, *)
(* ties to even; n may count any unit.                                      *)
Nearest[n \in Int, d \in Nat \ {0}] ==
  LET size == IF n < 0 THEN -n ELSE n
      bits == CHOOSE k \in 0..255 :
                /\ size < d * 2^(k + Precision)
                /\ k > 0 => size >= d * 2^(k - 1 + Precision)
      unit == d * 2^bits
      down == size \div unit
      rest == 2 * (size % unit)
      kept == IF rest > unit \/ (rest = unit /\ down % 2 = 1) THEN down + 1 ELSE down
  IN  (IF n < 0 THEN -kept ELSE kept) * 2^bits

(* A whole number as a long double, in units of 1 and of 2^-Fraction, and a *)
(* sum of two.                                                              *)
Whole(n)   == Nearest[n, 1]
Real(n)    == Nearest[n * 2^Fraction, 1]
Plus(x, y) == Nearest[x + y, 1]

(* In units of 1: the multiplier is a whole number here.                    *)
Penalty == Whole(Plus(Whole(MaxTotal), 1) * task.penalty)

(* The fitness of an infeasible individual. *)
PlainFitness(g) ==
  LET violation == Nearest[Real(Max({0, -Linear(g)})), Scale]
      missing   == IF C3(g) = 0 THEN Real(MaxTotal + 1) ELSE 0
      excess    == Plus(Plus(Real(1), violation), missing)
  IN  Plus(Real(Total(g)), Nearest[Penalty * excess, 1])

LexBefore(a, b) ==
  \E i \in Rows : a[i] < b[i] /\ \A j \in 1 .. i - 1 : a[j] = b[j]

(* order: feasible first; then the smaller total, the ratio closer to the   *)
(* threshold, the genes; infeasible ones by their fitness and genes.        *)
Order(a, b) ==
  LET lhs == Linear(a) * Total(b)
      rhs == Linear(b) * Total(a)
  IN  \/ IsFeasible(a) /\ ~IsFeasible(b)
      \/ /\ IsFeasible(a) /\ IsFeasible(b)
         /\ \/ Total(a) < Total(b)
            \/ Total(a) = Total(b) /\ lhs < rhs
            \/ Total(a) = Total(b) /\ lhs = rhs /\ LexBefore(a, b)
      \/ /\ ~IsFeasible(a) /\ ~IsFeasible(b)
         /\ \/ PlainFitness(a) < PlainFitness(b)
            \/ PlainFitness(a) = PlainFitness(b) /\ LexBefore(a, b)

-----------------------------------------------------------------------------
(* repair. *)

(* Without a method 3, the row where it costs least to add takes it.        *)
AddThree(g) ==
  LET delta(i) == Cost(i, 3) - Cost(i, g[i])
      rows     == {i \in Rows : 3 \in Methods(i)}
      row      == CHOOSE i \in rows : \A j \in rows :
                    delta(i) < delta(j) \/ (delta(i) = delta(j) /\ i <= j)
  IN  [g EXCEPT ![row] = 3]

(* The moves that raise the linear value and keep one method 3.             *)
Moves(g) ==
  {c \in Rows \X (1..3) :
     LET i == c[1]
         m == c[2]
     IN  /\ m \in Methods(i) \ {g[i]}
         /\ g[i] = 3 => \E j \in Rows \ {i} : g[j] = 3
         /\ Contribution(i, m) > Contribution(i, g[i])}

(* The cost of a move, its gain, and the one per the other.                 *)
CostOf(g, c) == Cost(c[1], c[2]) - Cost(c[1], g[c[1]])
GainOf(g, c) == Contribution(c[1], c[2]) - Contribution(c[1], g[c[1]])
Ratio(g, c)  == Nearest[Real(CostOf(g, c)), Whole(GainOf(g, c))]

(* The move with the smallest ratio, the first of several.                  *)
BestMove(g) ==
  LET first(c, d) == c[1] < d[1] \/ (c[1] = d[1] /\ c[2] <= d[2])
  IN  CHOOSE c \in Moves(g) : \A d \in Moves(g) :
        \/ Ratio(g, c) < Ratio(g, d)
        \/ Ratio(g, c) = Ratio(g, d) /\ first(c, d)

Lift[g \in Assignments] ==
  IF Linear(g) >= 0 \/ Moves(g) = {} THEN g
  ELSE LET move == BestMove(g) IN Lift[[g EXCEPT ![move[1]] = move[2]]]

Prepare(g) ==
  IF IsFeasible(g) THEN g ELSE Lift[IF C3(g) = 0 THEN AddThree(g) ELSE g]

-----------------------------------------------------------------------------
Cheapest ==
  [i \in Rows |->
     CHOOSE m \in Methods(i) : \A k \in Methods(i) :
       Cost(i, m) < Cost(i, k) \/ (Cost(i, m) = Cost(i, k) /\ m <= k)]

Sorted(individuals) == SortSeq(individuals, Order)

(* The fittest of as many draws as the tournament has.                      *)
Winner(picks) ==
  FoldLeft(LAMBDA w, c : IF Order(population[c], w) THEN population[c] ELSE w,
           population[Head(picks)], Tail(picks))

Drawn(d) == [i \in Rows |-> Available(i)[d[i]]]

(* The first winner with rows of the second; a row that mutates takes the   *)
(* drawn method, or the one after it when it has the drawn one already.     *)
Child(d) ==
  LET a == Winner(d.picks)
      b == Winner(d.others)
      crossed   == [i \in Rows |-> IF i \in d.fromB THEN b[i] ELSE a[i]]
      mutant(i) ==
        LET choices == Available(i)
            drawn   == choices[d.mutated[i]]
        IN  IF drawn # crossed[i] THEN drawn
            ELSE choices[(d.mutated[i] % Len(choices)) + 1]
  IN  [i \in Rows |-> IF d.mutated[i] = 0 THEN crossed[i] ELSE mutant(i)]

Retained(seen, x) ==
  IF IsFeasible(x) /\ (seen = None \/ Order(x, seen)) THEN x ELSE seen

Init ==
  /\ task \in Tasks /\ Encodable
  /\ population = <<>> /\ next = <<>> /\ best = None
  /\ generation = 0 /\ draws = None /\ status = "running"

Admit(genes) ==
  /\ status = "running" /\ Len(next) < task.population
  /\ next' = Append(next, Prepare(genes))
  /\ UNCHANGED <<task, population, best, generation, status>>

(* The first individual is not drawn. *)
Seed(d) ==
  /\ generation = 0 /\ population = <<>>
  /\ \/ next = <<>> /\ d = None /\ Admit(Cheapest)
     \/ next # <<>> /\ d \in SeedDraws /\ Admit(Drawn(d))
  /\ draws' = d

Breed(d) ==
  /\ generation > 0 /\ next # <<>>
  /\ d \in BreedDraws(Len(population)) /\ Admit(Child(d))
  /\ draws' = d

Replace ==
  /\ status = "running" /\ Len(next) = task.population
  /\ population' = next /\ next' = <<>>
  /\ best' = FoldLeft(Retained, best, next)
  /\ draws' = None
  /\ UNCHANGED <<task, generation, status>>

KeepElite ==
  /\ status = "running" /\ population # <<>> /\ next = <<>>
  /\ generation < task.generations
  /\ population' = Sorted(population)
  /\ next' = SubSeq(Sorted(population), 1, task.elitism)
  /\ generation' = generation + 1
  /\ UNCHANGED <<task, best, draws, status>>

Finish ==
  /\ status = "running" /\ population # <<>> /\ next = <<>>
  /\ generation = task.generations
  /\ status' = IF best = None THEN "no_feasible" ELSE "done"
  /\ UNCHANGED <<task, population, next, best, generation, draws>>

(* A step that draws d, if it draws. *)
Step(d) == Seed(d) \/ Breed(d) \/ Replace \/ KeepElite \/ Finish

Next ==
  \E d \in {None} \cup SeedDraws \cup BreedDraws(Len(population)) : Step(d)

Spec == Init /\ [][Next]_plainVars
=============================================================================
