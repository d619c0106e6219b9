-------------------------------- MODULE Pega --------------------------------
(***************************************************************************)
(* ConfidentialScalableOptimizer: the genetic search on encrypted costs.   *)
(* A ciphertext is its plaintext, and a comparison yields a bit, 0 or 1,   *)
(* that is computed with and never branched on: every choice is a masked   *)
(* sum.  An individual carries sums that repair updates in place, and the  *)
(* memo of its feasibility bit and fitness.  Repair always makes the same  *)
(* number of rounds.  What the public generator draws is chosen and        *)
(* recorded.                                                               *)
(***************************************************************************)
EXTENDS GeneticTask, FiniteSums, SequencesExt

(* A task also has rounds (0 for the default) and domain [costBits,         *)
(* totalBits, linearBits, compareBits].                                     *)

(* The bits of a positive 64-bit number. *)
BitLength(x) == CHOOSE b \in 1..64 : 2^(b - 1) <= x /\ x < 2^b
HasLength(x) == x \in Nat /\ \E b \in 1..64 : 2^(b - 1) <= x /\ x < 2^b

(* A request whose costs keep to the domain that its caller declares, a     *)
(* configuration, and a domain that ThresholdSecureOps accepts: its totals  *)
(* and linear values have the bits that as many costs as rows may take.     *)
Requested(t) ==
  LET sum == Len(t.costs) * 2^t.domain.costBits
  IN  /\ t.costs \in Seq([1..3 -> Nat \cup {None}]) /\ t.threshold \in Nat
      /\ t.population \in Nat /\ t.generations \in Nat /\ t.elitism \in Nat
      /\ t.tournament \in Nat /\ t.rounds \in Nat
      /\ t.crossover \in BOOLEAN /\ t.mutation \in BOOLEAN
      /\ t.penalty = 0 \/ HasLength(t.penalty)
      /\ t.domain \in [costBits : Nat, totalBits : Nat, linearBits : Nat \ {0},
                       compareBits : Nat]
      /\ \A i \in DOMAIN t.costs : \A m \in 1..3 :
           t.costs[i][m] # None => t.costs[i][m] < 2^t.domain.costBits
      /\ sum <= 2^t.domain.totalBits
      /\ sum * Scale <= 2^(t.domain.linearBits - 1)

ASSUME PegaAssumption ==
  /\ HasLength(Scale)
  /\ \A t \in Tasks : Requested(t)

VARIABLES population, next, best, generation, status,
          draws  (* history: what was drawn for the last of next, or None  *)

pegaVars == <<task, population, next, best, generation, draws, status>>

(* The one-hot genes of an encrypted individual as methods, 0 if they are   *)
(* not one-hot.                                                             *)
OneHot(m)  == [k \in 1..3 |-> IF k = m THEN 1 ELSE 0]
Decoded(x) ==
  [i \in DOMAIN x.genes |->
     IF \E m \in 1..3 : x.genes[i] = OneHot(m)
     THEN CHOOSE m \in 1..3 : x.genes[i] = OneHot(m) ELSE 0]

(* Every method of every row, in scan order; the scans skip those that are  *)
(* not available.                                                           *)
Scanned == [k \in 1 .. 3 * Len(task.costs) |->
              <<((k - 1) \div 3) + 1, ((k - 1) % 3) + 1>>]

IsAvailable(c) == c[2] \in Methods(c[1])

Rounds == IF task.rounds = 0 THEN 3 * Len(task.costs) ELSE task.rounds

-----------------------------------------------------------------------------
(* Encrypted bits and selections. *)
Greater(a, b)       == IF a > b THEN 1 ELSE 0
Less(a, b)          == Greater(b, a)
Not(b)              == 1 - b
And(a, b)           == a * b
OrExclusive(a, b)   == a + b
Or(a, b)            == a + b - a * b
Equal(a, b)         == Not(OrExclusive(Greater(a, b), Greater(b, a)))
Select(bit, yes, no) == no + bit * (yes - no)

(* Mutant of Validated: the penalty's bits are left out of the fitness.     *)
ValidatedWithoutPenalty(t) ==
  LET d       == t.domain
      scaled  == BitLength(Scale)
      penalty == d.totalBits + 1
  IN  /\ t.costs # <<>> /\ t.threshold < Scale
      /\ t.population >= 2 /\ t.generations > 0 /\ t.tournament > 0
      /\ t.elitism > 0 /\ t.elitism < t.population /\ t.penalty > 0
      /\ \A i \in DOMAIN t.costs : \E m \in 1..3 : t.costs[i][m] # None
      /\ \A bits \in {d.linearBits + d.totalBits, d.costBits + d.linearBits,
                      d.totalBits + scaled, penalty + d.linearBits,
                      penalty + d.totalBits + 1 + scaled} : bits <= d.compareBits

(* validate: the request, the configuration, and bit budgets for what the   *)
(* search multiplies and compares.                                          *)
Validated(t) ==
  LET d       == t.domain
      scaled  == BitLength(Scale)
      penalty == d.totalBits + 1 + BitLength(t.penalty)
  IN  /\ t.costs # <<>> /\ t.threshold < Scale
      /\ t.population >= 2 /\ t.generations > 0 /\ t.tournament > 0
      /\ t.elitism > 0 /\ t.elitism < t.population /\ t.penalty > 0
      /\ \A i \in DOMAIN t.costs : \E m \in 1..3 : t.costs[i][m] # None
      /\ \A bits \in {d.linearBits + d.totalBits, d.costBits + d.linearBits,
                      d.totalBits + scaled, penalty + d.linearBits,
                      penalty + d.totalBits + 1 + scaled} : bits <= d.compareBits

-----------------------------------------------------------------------------
(* Evaluation. *)

RowMaximum(i) ==
  LET choices == Available(i)
  IN  FoldLeft(LAMBDA acc, m : Select(Greater(Cost(i, m), acc), Cost(i, m), acc),
               Cost(i, Head(choices)), Tail(choices))

MaximumTotal   == SumOver([i \in Rows |-> RowMaximum(i)], Rows)
Penalty        == (MaximumTotal + 1) * task.penalty
MissingPenalty == Penalty * (MaximumTotal + 1) * Scale

(* The sums over the rows, and the terms of each row.                       *)
Evaluate(genes) ==
  LET sum(i, ms, f(_)) ==
        SumOver([m \in Methods(i) |-> genes[i][m] * f(m)], ms \cap Methods(i))
      cost   == [i \in Rows |-> sum(i, 1..3, LAMBDA m : Cost(i, m))]
      cost12 == [i \in Rows |-> sum(i, 1..2, LAMBDA m : Cost(i, m))]
      cost3  == [i \in Rows |-> sum(i, {3}, LAMBDA m : Cost(i, m))]
      lin    == [i \in Rows |-> sum(i, 1..3, LAMBDA m : Contribution(i, m))]
      all(f) == SumOver(f, Rows)
  IN  [genes |-> genes, memo |-> None,
       row_cost |-> cost, row_c12 |-> cost12, row_c3 |-> cost3, row_linear |-> lin,
       total |-> all(cost), c12 |-> all(cost12), c3 |-> all(cost3),
       linear |-> all(lin)]

ComputedFeasible(x) ==
  And(And(Not(Less(x.linear, 0)), Greater(x.c3, 0)), Greater(x.total, 0))

ComputedFitness(x) ==
  LET violation == Select(Greater(-x.linear, 0), -x.linear, 0)
      missing   == Not(Greater(x.c3, 0))
  IN  x.total * Scale + Penalty * Scale + Penalty * violation
      + MissingPenalty * missing

Feasible(x) == IF x.memo # None THEN x.memo.feasible ELSE ComputedFeasible(x)
Fitness(x)  == IF x.memo # None THEN x.memo.fitness ELSE ComputedFitness(x)

(* What a comparison leaves in an individual that is kept.                  *)
Memoised(x) ==
  [x EXCEPT !.memo = [feasible |-> Feasible(x), fitness |-> Fitness(x)]]

LexLess(a, b) ==
  LET index(x, i) == x.genes[i][2] + 2 * x.genes[i][3]
      scan(acc, i) ==
        [less  |-> Or(acc.less, And(acc.equal, Less(index(a, i), index(b, i)))),
         equal |-> And(acc.equal, Equal(index(a, i), index(b, i)))]
  IN  FoldLeft(scan, [less |-> 0, equal |-> 1], [i \in Rows |-> i]).less

(* The rank of two individuals. *)
Better(a, b) ==
  LET tie      == Or(Less(a.linear, b.linear),
                     And(Equal(a.linear, b.linear), LexLess(a, b)))
      cheaper  == Or(Less(a.total, b.total), And(Equal(a.total, b.total), tie))
      fitter   == Or(Less(Fitness(a), Fitness(b)),
                     And(Equal(Fitness(a), Fitness(b)), LexLess(a, b)))
  IN  Or(And(Feasible(a), Not(Feasible(b))),
         Or(And(And(Feasible(a), Feasible(b)), cheaper),
            And(And(Not(Feasible(a)), Not(Feasible(b))), fitter)))

(* A selected individual has genes and sums, but no row terms and no memo.  *)
Choose(bit, yes, no) ==
  [genes |-> [i \in Rows |->
                [m \in 1..3 |-> Select(bit, yes.genes[i][m], no.genes[i][m])]],
   memo |-> None,
   row_cost |-> <<>>, row_c12 |-> <<>>, row_c3 |-> <<>>, row_linear |-> <<>>,
   total |-> Select(bit, yes.total, no.total),
   c12 |-> Select(bit, yes.c12, no.c12), c3 |-> Select(bit, yes.c3, no.c3),
   linear |-> Select(bit, yes.linear, no.linear)]

Fitter(x, y) == Choose(Better(x, y), x, y)

-----------------------------------------------------------------------------
(* Repair. *)

Id(c) == 3 * (c[1] - 1) + c[2] - 1

(* Mutant of Propose: the last of several equal moves is selected.          *)
ProposeLast(x, need3, count3, acc, c) ==
  LET i == c[1]
      m == c[2]
      cost     == Cost(i, m) - x.row_cost[i]
      gain     == Contribution(i, m) - x.row_linear[i]
      keeps    == IF m = 3 THEN Not(need3) ELSE Greater(count3 - x.genes[i][3], 0)
      valid    == And(Greater(gain, 0), keeps)
      smaller  == Not(Less(acc.cost * gain, cost * acc.gain))
      replace  == And(valid, Or(Not(acc.have), smaller))
      replace3 == IF m = 3 THEN Or(Not(acc.have3), Less(cost, acc.cost3)) ELSE 0
  IN  [cost  |-> Select(replace, cost, acc.cost),
       gain  |-> Select(replace, gain, acc.gain),
       id    |-> Select(replace, Id(c), acc.id),
       have  |-> Or(acc.have, valid),
       cost3 |-> Select(replace3, cost, acc.cost3),
       id3   |-> Select(replace3, Id(c), acc.id3),
       have3 |-> Or(acc.have3, replace3)]

(* One step of the first scan: a move that raises the linear value and      *)
(* keeps one method 3 replaces the selected one when its cost per gain is   *)
(* smaller; apart from that, the cheapest change to method 3.               *)
Propose(x, need3, count3, acc, c) ==
  LET i == c[1]
      m == c[2]
      cost     == Cost(i, m) - x.row_cost[i]
      gain     == Contribution(i, m) - x.row_linear[i]
      keeps    == IF m = 3 THEN Not(need3) ELSE Greater(count3 - x.genes[i][3], 0)
      valid    == And(Greater(gain, 0), keeps)
      smaller  == Less(cost * acc.gain, acc.cost * gain)
      replace  == And(valid, Or(Not(acc.have), smaller))
      replace3 == IF m = 3 THEN Or(Not(acc.have3), Less(cost, acc.cost3)) ELSE 0
  IN  [cost  |-> Select(replace, cost, acc.cost),
       gain  |-> Select(replace, gain, acc.gain),
       id    |-> Select(replace, Id(c), acc.id),
       have  |-> Or(acc.have, valid),
       cost3 |-> Select(replace3, cost, acc.cost3),
       id3   |-> Select(replace3, Id(c), acc.id3),
       have3 |-> Or(acc.have3, replace3)]

(* Mutant of Install: the row's own linear term is not updated.             *)
InstallStaleRow(x, mask, c) ==
  LET i == c[1]
      m == c[2]
      cost   == mask * (Cost(i, m) - x.row_cost[i])
      gain   == mask * (Contribution(i, m) - x.row_linear[i])
      cost12 == mask * ((IF m < 3 THEN Cost(i, m) ELSE 0) - x.row_c12[i])
      cost3  == mask * ((IF m = 3 THEN Cost(i, m) ELSE 0) - x.row_c3[i])
  IN  [x EXCEPT !.total = @ + cost, !.linear = @ + gain,
                !.c12 = @ + cost12, !.c3 = @ + cost3,
                !.row_cost[i] = @ + cost,
                !.row_c12[i] = @ + cost12, !.row_c3[i] = @ + cost3,
                !.genes[i] = [k \in 1..3 |->
                   x.genes[i][k] + mask * (OneHot(m)[k] - x.genes[i][k])]]

(* One step of the second scan: the row takes the method where mask is 1.   *)
Install(x, mask, c) ==
  LET i == c[1]
      m == c[2]
      cost   == mask * (Cost(i, m) - x.row_cost[i])
      gain   == mask * (Contribution(i, m) - x.row_linear[i])
      cost12 == mask * ((IF m < 3 THEN Cost(i, m) ELSE 0) - x.row_c12[i])
      cost3  == mask * ((IF m = 3 THEN Cost(i, m) ELSE 0) - x.row_c3[i])
  IN  [x EXCEPT !.total = @ + cost, !.linear = @ + gain,
                !.c12 = @ + cost12, !.c3 = @ + cost3,
                !.row_cost[i] = @ + cost, !.row_linear[i] = @ + gain,
                !.row_c12[i] = @ + cost12, !.row_c3[i] = @ + cost3,
                !.genes[i] = [k \in 1..3 |->
                   x.genes[i][k] + mask * (OneHot(m)[k] - x.genes[i][k])]]

RepairRound(x) ==
  LET need3  == Not(Greater(x.c3, 0))
      count3 == SumOver([i \in Rows |-> x.genes[i][3]], Rows)
      found  == FoldLeft(LAMBDA acc, c : IF IsAvailable(c)
                           THEN Propose(x, need3, count3, acc, c) ELSE acc,
                         [cost |-> 0, gain |-> 0, id |-> 0, have |-> 0,
                          cost3 |-> 0, id3 |-> 0, have3 |-> 0], Scanned)
      id     == Select(need3, found.id3, found.id)
      have   == Or(found.have, And(need3, found.have3))
      apply  == And(Not(Feasible(x)), have)
      moved  == FoldLeft(LAMBDA y, c : IF IsAvailable(c)
                           THEN Install(y, apply * Equal(id, Id(c)), c) ELSE y,
                         x, Scanned)
  IN  [moved EXCEPT !.memo = None]

Repair(x) == FoldLeft(LAMBDA y, k : RepairRound(y), x, [k \in 1..Rounds |-> k])

-----------------------------------------------------------------------------
(* The search. *)

CheapestGenes(i) ==
  LET keep(acc, m) ==
        LET cheaper == Less(Cost(i, m), acc.cost)
        IN  [cost  |-> Select(cheaper, Cost(i, m), acc.cost),
             genes |-> [k \in 1..3 |->
                          Select(cheaper, OneHot(m)[k], acc.genes[k])]]
      choices == Available(i)
      first   == Head(choices)
  IN  FoldLeft(keep, [cost |-> Cost(i, first), genes |-> OneHot(first)],
               Tail(choices)).genes

Cheapest     == [i \in Rows |-> CheapestGenes(i)]
Drawn(d)     == [i \in Rows |-> OneHot(Available(i)[d[i]])]

(* The insertion network: every individual but the first is carried past    *)
(* the sorted slots, and what falls out is kept while slots are free.       *)
Carry(acc, rank) ==
  LET wins == Better(acc.carry, acc.elite[rank])
      old  == acc.elite[rank]
  IN  [elite |-> [acc.elite EXCEPT ![rank] = Choose(wins, acc.carry, old)],
       carry |-> Choose(wins, old, acc.carry)]

Insert(elite, x) ==
  LET acc == FoldLeft(Carry, [elite |-> elite, carry |-> x],
                      [rank \in 1 .. Len(elite) |-> rank])
  IN  IF Len(elite) < task.elitism THEN Append(acc.elite, acc.carry)
                                   ELSE acc.elite

EliteSet == FoldLeft(Insert, <<Head(population)>>, Tail(population))

(* With one draw the winner is a copy, memo included; with more it is       *)
(* selected under encryption.                                               *)
Winner(picks) ==
  FoldLeft(LAMBDA w, c : Fitter(population[c], w),
           population[Head(picks)], Tail(picks))

Crossing(a, b, fromB) ==
  [i \in Rows |-> IF i \in fromB THEN b.genes[i] ELSE a.genes[i]]

(* A row that mutates takes the drawn method, or the one after it when it   *)
(* has the drawn one already.                                               *)
MutateRow(gene, i, drawn) ==
  LET choices  == Available(i)
      selected == choices[drawn]
      fallback == choices[(drawn % Len(choices)) + 1]
      same     == Not(Or(Greater(gene[selected], 1), Greater(1, gene[selected])))
  IN  [k \in 1..3 |-> Select(same, OneHot(fallback)[k], OneHot(selected)[k])]

ChildGenes(d) ==
  LET crossed == Crossing(Winner(d.picks), Winner(d.others), d.fromB)
  IN  [i \in Rows |-> IF d.mutated[i] = 0 THEN crossed[i]
                      ELSE MutateRow(crossed[i], i, d.mutated[i])]

Init ==
  /\ task \in {t \in Tasks : Validated(t)}
  /\ population = <<>> /\ next = <<>> /\ best = None
  /\ generation = 0 /\ draws = None /\ status = "running"

Admit(x) ==
  /\ status = "running" /\ Len(next) < task.population
  /\ next' = Append(next, x)
  /\ UNCHANGED <<task, population, best, generation, status>>

(* The first individual is not drawn. *)
Seeds ==
  IF next = <<>> THEN {<<None, Cheapest>>} ELSE {<<d, Drawn(d)>> : d \in SeedDraws}

Seed ==
  /\ generation = 0 /\ population = <<>>
  /\ \E s \in Seeds : draws' = s[1] /\ Admit(Repair(Evaluate(s[2])))

Children == {<<d, ChildGenes(d)>> : d \in BreedDraws(Len(population))}

Breed ==
  /\ generation > 0 /\ next # <<>>
  /\ \E c \in Children : draws' = c[1] /\ Admit(Repair(Evaluate(c[2])))

(* The first individual is the best until another is better; comparing      *)
(* leaves memos in the population.                                          *)
Replace ==
  /\ status = "running" /\ Len(next) = task.population
  /\ LET fresh == [k \in DOMAIN next |->
                     IF generation = 0 /\ k = 1 THEN next[k] ELSE Memoised(next[k])]
     IN  /\ population' = fresh
         /\ best' = IF generation = 0
                    THEN FoldLeft(LAMBDA b, x : Fitter(x, b), Head(fresh), Tail(fresh))
                    ELSE FoldLeft(LAMBDA b, x : Fitter(x, b), best, fresh)
  /\ next' = <<>> /\ draws' = None
  /\ UNCHANGED <<task, generation, status>>

KeepElite ==
  /\ status = "running" /\ population # <<>> /\ next = <<>>
  /\ generation < task.generations
  /\ next' = EliteSet
  /\ generation' = generation + 1
  /\ UNCHANGED <<task, population, best, draws, status>>

Finish ==
  /\ status = "running" /\ population # <<>> /\ next = <<>>
  /\ generation = task.generations
  /\ status' = "done"
  /\ UNCHANGED <<task, population, next, best, generation, draws>>

Next == Seed \/ Breed \/ Replace \/ KeepElite \/ Finish

Spec == Init /\ [][Next]_pegaVars

-----------------------------------------------------------------------------
Individuals ==
  ToSet(population) \cup ToSet(next) \cup (IF best = None THEN {} ELSE {best})

(* Under the masks every gene stays one-hot on a method of its row, and     *)
(* selections stay bits.                                                    *)
TypeOK ==
  /\ status \in {"running", "done"} /\ generation \in 0..task.generations
  /\ Len(next) <= task.population
  /\ \A x \in Individuals :
       /\ Decoded(x) \in Assignments
       /\ ComputedFeasible(x) \in 0..1

(* The sums that repair updates in place under masks, and that selections   *)
(* copy without the row terms, are those of the genes; the row terms and    *)
(* the memo, where there are any, too.                                      *)
SumsExact ==
  \A x \in Individuals :
    LET y == Evaluate(x.genes)
    IN  /\ x.total = y.total /\ x.c12 = y.c12 /\ x.c3 = y.c3
        /\ x.linear = y.linear
        /\ x.row_cost # <<>> =>
             /\ x.row_cost = y.row_cost /\ x.row_linear = y.row_linear
             /\ x.row_c12 = y.row_c12 /\ x.row_c3 = y.row_c3
        /\ x.memo # None =>
             x.memo = [feasible |-> ComputedFeasible(y), fitness |-> ComputedFitness(y)]

(* What the search compares or multiplies keeps to the bits that validate   *)
(* accepted: the products of the repair, whatever the genes, and the        *)
(* fitness and the sums of every individual.                                *)
FitsCompare(v) == -(2 ^ task.domain.compareBits) < v /\ v < 2 ^ task.domain.compareBits

OperandsFit ==
  /\ \A x \in Individuals : /\ FitsCompare(ComputedFitness(x))
                            /\ FitsCompare(x.linear) /\ FitsCompare(x.total)
  /\ population = <<>> /\ next = <<>> =>
       \A i, j \in Rows : \A a, b \in Methods(i), c, d \in Methods(j) :
         FitsCompare((Cost(i, a) - Cost(i, b)) * (Contribution(j, c) - Contribution(j, d)))
=============================================================================
