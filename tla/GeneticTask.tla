---------------------------- MODULE GeneticTask ----------------------------
(***************************************************************************)
(* What the plaintext and the encrypted genetic search have in common: the *)
(* cost matrix with its threshold and configuration, and the numbers that  *)
(* either search draws from a generator of the same kind and seed.         *)
(***************************************************************************)
EXTENDS Integers, Sequences, FiniteSets

CONSTANTS
  Tasks,  (* [costs, threshold, population, generations, elitism,          *)
          (* tournament, crossover, mutation, penalty]; crossover and      *)
          (* mutation say whether the rate is positive (and below one)     *)
  Scale,  (* the fixed-point scale                                         *)
  None    (* an unavailable method; no best individual; no draws           *)

VARIABLE task  (* the request and the configuration                        *)

Rows       == 1 .. Len(task.costs)
Cost(i, m) == task.costs[i][m]
Methods(i) == {m \in 1..3 : Cost(i, m) # None}

(* A row's available methods in order. *)
Available(i) ==
  CHOOSE s \in [1 .. Cardinality(Methods(i)) -> Methods(i)] :
    \A j, k \in DOMAIN s : j < k => s[j] < s[k]

Contribution(i, m) ==
  Cost(i, m) * (IF m < 3 THEN Scale - task.threshold ELSE -task.threshold)

Assignments == {g \in [Rows -> 1..3] : \A i \in Rows : g[i] \in Methods(i)}

(* A random individual: per row, which of its available methods.            *)
SeedDraws ==
  {d \in [Rows -> 1..3] : \A i \in Rows : d[i] <= Cardinality(Methods(i))}

(* A mutation, per row: none (0), or which of its available methods.        *)
MutationDraws ==
  {d \in [Rows -> 0..3] :
     \A i \in Rows : d[i] # 0 =>
       /\ task.mutation /\ Cardinality(Methods(i)) > 1
       /\ d[i] <= Cardinality(Methods(i))}

(* A child: the positions of the two tournaments in a population of that    *)
(* size, the rows that come from the second winner, and the mutations.      *)
BreedDraws(size) ==
  [picks   : [1 .. task.tournament -> 1 .. size],
   others  : [1 .. task.tournament -> 1 .. size],
   fromB   : IF task.crossover THEN SUBSET Rows ELSE {{}},
   mutated : MutationDraws]
=============================================================================
