--------------------------- MODULE PegaRefinement ---------------------------
(***************************************************************************)
(* The encrypted genetic search as an implementation of the plaintext one. *)
(***************************************************************************)
EXTENDS Pega

CONSTANTS Precision, Fraction  (* of ScalableOptimizer                     *)

DecodedAll(individuals) ==
  [k \in DOMAIN individuals |-> Decoded(individuals[k])]

(* The plaintext search's operators on the same task.                       *)
Reference == INSTANCE ScalableOptimizer

(* The plaintext search sorts its population before it draws positions in   *)
(* it, the encrypted search does not: the draw of an individual is mapped   *)
(* to the position where sorting puts it.                                   *)
PlainPopulation ==
  IF generation > 0 /\ next # <<>>
  THEN SortSeq(DecodedAll(population), Reference!Order) ELSE DecodedAll(population)

PlainDraws ==
  IF generation = 0 \/ draws = None THEN draws
  ELSE LET sorted == PlainPopulation
           place  == [k \in DOMAIN population |->
                        CHOOSE j \in DOMAIN sorted :
                          sorted[j] = Decoded(population[k])]
           moved(picks) == [k \in DOMAIN picks |-> place[picks[k]]]
       IN  [draws EXCEPT !.picks = moved(@), !.others = moved(@)]

(* It knows no best individual before a feasible one.                       *)
PlainBest ==
  IF best # None /\ Reference!IsFeasible(Decoded(best)) THEN Decoded(best) ELSE None

PlainStatus ==
  IF status = "done" /\ PlainBest = None THEN "no_feasible" ELSE status

Plain == INSTANCE ScalableOptimizer
  WITH population <- PlainPopulation, next <- DecodedAll(next),
       best <- PlainBest, draws <- PlainDraws, status <- PlainStatus

(* The fitness times Scale without rounding: what the encrypted search has. *)
ExactFitness(g) ==
  LET below   == IF Plain!Linear(g) < 0 THEN -Plain!Linear(g) ELSE 0
      missing == IF Plain!C3(g) = 0 THEN (Plain!MaxTotal + 1) * Scale ELSE 0
  IN  Plain!Total(g) * Scale
      + (Plain!MaxTotal + 1) * task.penalty * (Scale + below + missing)

(* On this task rounding to long doubles orders neither the individuals     *)
(* that repair leaves infeasible nor the moves of a repair in another way   *)
(* than the exact numbers do.                                               *)
RoundsFaithfully ==
  LET infeasible == {g \in Assignments : ~Plain!IsFeasible(g)}
      ranks      == {<<ExactFitness(g), Plain!PlainFitness(g)>> :
                       g \in {Plain!Prepare(h) : h \in infeasible} \cap infeasible}
      moves(g)   == {<<Plain!CostOf(g, c), Plain!GainOf(g, c), Plain!Ratio(g, c)>> :
                       c \in Plain!Moves(g)}
  IN  /\ \A r, s \in ranks : r[1] < s[1] <=> r[2] < s[2]
      /\ \A g \in infeasible : Plain!Linear(g) < 0 =>
           \A c, d \in moves(g) : c[1] * d[2] < d[1] * c[2] <=> c[3] < d[3]

(* Where the two searches are comparable: some row has method 3, method 3   *)
(* is nowhere free of cost, repair makes as many rounds as the default, and *)
(* rounding does not matter.                                                *)
Comparable ==
  /\ Plain!Encodable
  /\ \A i \in Rows : task.costs[i][3] # 0
  /\ Rounds >= 3 * Len(task.costs)
  /\ RoundsFaithfully

(* There each step of the encrypted search is the step of the plaintext     *)
(* search on the same draws: the fixed rounds suffice, ranks and masks      *)
(* agree with order and repair, and the best feasible individual is the     *)
(* same.                                                                    *)
FollowsPlaintext ==
  /\ Comparable => Plain!Init
  /\ [][Comparable => \E d \in {PlainDraws'} : Plain!Step(d)]_pegaVars
=============================================================================
