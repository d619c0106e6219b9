------------------------------- MODULE MCPega -------------------------------
(***************************************************************************)
(* Instances of Pega for TLC: matrices of two and three rows with missing  *)
(* methods, equal costs and free methods; searches that exercise the       *)
(* tournament, the crossover and the mutation one at a time, two sizes of  *)
(* the elite, one repair round or all, and numeric domains at the limit of *)
(* what validate accepts and below it.                                     *)
(***************************************************************************)
EXTENDS PegaRefinement

CONSTANT Thresholds

N == None

PairMatrices ==
  {<<r, s>> : r \in {<<1, 2, 3>>, <<3, 3, 1>>, <<2, N, 2>>, <<0, 1, N>>, <<N, 3, 0>>},
              s \in {<<3, 1, 1>>, <<1, N, 3>>, <<N, 2, 0>>, <<2, 1, N>>, <<2, 3, 3>>}}

TripleMatrices ==
  {<<<<3, N, 1>>, <<3, N, 1>>, <<2, N, 1>>>>, <<<<1, N, 3>>, <<2, 3, 1>>, <<N, 1, 3>>>>,
   <<<<N, N, 1>>, <<1, N, 3>>, <<1, N, 2>>>>}

FewMatrices ==
  {<<r, s>> : r \in {<<1, 2, 3>>, <<N, 3, 0>>, <<3, 3, 1>>, <<2, N, 2>>},
              s \in {<<3, 1, 1>>, <<1, N, 3>>, <<2, 1, N>>, <<2, 3, 3>>}}

(* A search, its numeric domain at the limit that validate accepts, one bit *)
(* below it or at the limit of another penalty, the matrices and the        *)
(* thresholds that it runs on.                                              *)
Search(size, breedings, kept, drawn, crosses, mutates) ==
  [population |-> size, generations |-> breedings, elitism |-> kept,
   tournament |-> drawn, crossover |-> crosses, mutation |-> mutates]

Task(costs, threshold, search, rounds, penalty, compareBits) ==
  [costs |-> costs, threshold |-> threshold,
   population |-> search.population, generations |-> search.generations,
   elitism |-> search.elitism, tournament |-> search.tournament,
   crossover |-> search.crossover, mutation |-> search.mutation,
   rounds |-> rounds, penalty |-> penalty,
   domain |-> [costBits |-> 2, totalBits |-> 4, linearBits |-> 7,
               compareBits |-> compareBits]]

AllTasks ==
  UNION {
    {Task(c, t, Search(2, 1, 1, 2, FALSE, FALSE), 0, 1, b) :
       c \in PairMatrices, t \in Thresholds, b \in {13, 14}},
    {Task(c, t, Search(2, 1, 1, 1, FALSE, FALSE), k, 63, b) :
       c \in PairMatrices \cup TripleMatrices, t \in Thresholds, k \in {1, 3},
       b \in {13, 18, 19}},
    {Task(c, t, Search(3, 1, 2, 1, FALSE, FALSE), 0, 1, 14) :
       c \in FewMatrices, t \in {2}},
    {Task(c, t, Search(2, 2, 1, 1, TRUE, FALSE), 0, 1, 14) :
       c \in FewMatrices, t \in {1, 2}},
    {Task(c, t, Search(2, 1, 1, 1, FALSE, TRUE), 0, 1, 14) :
       c \in FewMatrices, t \in {2, 4}}}
=============================================================================
