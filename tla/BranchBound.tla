----------------------------- MODULE BranchBound -----------------------------
(***************************************************************************)
(* The exact searches: the plaintext Solver of optimization.cpp with the   *)
(* encrypted verification of its result, EncryptedBranchAndBoundSolver     *)
(* with its two cost bounds, and optimize_encrypted, which enumerates all  *)
(* assignments and selects the best one under encryption.  Every row       *)
(* chooses one of three methods; methods 1 and 2 count into c12, method 3  *)
(* into c3; a solution is feasible when c12 / (c12 + c3) reaches the       *)
(* threshold and c3 is positive.  Ciphertexts are their plaintexts: the    *)
(* homomorphic operations are exact on the declared numeric domain.  The   *)
(* recursion is a stack of nodes still to visit, the next one first.       *)
(***************************************************************************)
EXTENDS FiniteSums, Sequences, FiniteSets, SequencesExt

CONSTANTS
  Matrices,    (* the cost matrices: sequences of rows                      *)
  Thresholds,  (* ratio thresholds, scaled                                  *)
  Scale,       (* the fixed-point scale                                     *)
  Searches,    (* which of AllSearches are run                              *)
  QuotientBits, (* digits of the encrypted division (21), enough for Scale  *)
  None         (* an unavailable method; no incumbent                       *)

AllSearches == {"plain", "suffix", "lagrangian", "enumerate"}

ASSUME SearchAssumption ==
  /\ Scale \in Nat \ {0} /\ Thresholds \subseteq Nat
  /\ Searches \subseteq AllSearches
  /\ QuotientBits \in Nat /\ Scale <= 2^QuotientBits

(* What solve validates, or encode does: no cost is negative and no row is   *)
(* without a method.                                                        *)
ASSUME MatrixAssumption ==
  /\ None \notin Int
  /\ None \notin [path : Seq(1..3), total : Int, c12 : Int, c3 : Int]
  /\ \A matrix \in Matrices :
       /\ matrix \in Seq([1..3 -> Nat \cup {None}])
       /\ \A i \in DOMAIN matrix : \E m \in 1..3 : matrix[i][m] # None

VARIABLES
  costs,      (* request.costs                                             *)
  threshold,  (* request.threshold_scaled                                  *)
  search,     (* the solver and its bound                                  *)
  grid,       (* the Lagrangian grid                                       *)
  todo,       (* nodes to visit, next first                                *)
  incumbent,  (* best leaf so far, or None                                 *)
  status      (* "searching", "done", "failed" after a PredicateError,     *)
              (* "verified" or "refuted" after the check of a plain result *)

input == <<costs, threshold, search, grid>>
vars  == <<input, todo, incumbent, status>>

Rows       == 1 .. Len(costs)
Methods(i) == {m \in 1..3 : costs[i][m] # None}

(* The contribution of a method to the linearised ratio constraint. *)
Contribution(i, m) ==
  costs[i][m] * (IF m < 3 THEN Scale - threshold ELSE -threshold)

Score(i, m, mu) == grid.q * costs[i][m] - mu * Contribution(i, m)

RowMinCost(i)    == Min({costs[i][m] : m \in Methods(i)})
RowMaxLinear(i)  == Max({Contribution(i, m) : m \in Methods(i)})
(* Mutant of RowLower: the largest score of a row, as for the linear term. *)
RowLowerMax(i, mu) == Max({Score(i, m, mu) : m \in Methods(i)})
RowLower(i, mu)  == Min({Score(i, m, mu) : m \in Methods(i)})

(* Sums over the rows that a node has not assigned yet. *)
Below(x)               == Len(x.path) + 1 .. Len(costs)
MinCostSuffix(x)       == SumOver([i \in Rows |-> RowMinCost(i)], Below(x))
MaxLinearSuffix(x)     == SumOver([i \in Rows |-> RowMaxLinear(i)], Below(x))
LagrangianSuffix(x, k) == SumOver([i \in Rows |-> RowLower(i, k)], Below(x))

Root == [path |-> <<>>, total |-> 0, c12 |-> 0, c3 |-> 0, linear |-> 0,
         lag |-> [k \in grid.mu |-> 0]]

(* Mutant of Child: an off-by-one in the method numbers. *)
ChildOffByOne(x, m) ==
  LET i == Len(x.path) + 1
      c == costs[i][m]
  IN  [path   |-> Append(x.path, m),
       total  |-> x.total + c,
       c12    |-> IF m < 2 THEN x.c12 + c ELSE x.c12,
       c3     |-> IF m < 2 THEN x.c3 ELSE x.c3 + c,
       linear |-> x.linear + Contribution(i, m),
       lag    |-> [k \in grid.mu |-> x.lag[k] + Score(i, m, k)]]

Child(x, m) ==
  LET i == Len(x.path) + 1
      c == costs[i][m]
  IN  [path   |-> Append(x.path, m),
       total  |-> x.total + c,
       c12    |-> IF m < 3 THEN x.c12 + c ELSE x.c12,
       c3     |-> IF m < 3 THEN x.c3 ELSE x.c3 + c,
       linear |-> x.linear + Contribution(i, m),
       lag    |-> [k \in grid.mu |-> x.lag[k] + Score(i, m, k)]]

(* The children in method order, as the loop visits them. *)
Offer(x, m) == IF m \in Methods(Len(x.path) + 1) THEN <<Child(x, m)>> ELSE <<>>
Children(x) == Offer(x, 1) \o Offer(x, 2) \o Offer(x, 3)

IsLeaf(x) == Len(x.path) = Len(costs)

(* What becomes of an accepted leaf: the incumbent and the solution.        *)
Solution(x) == [path |-> x.path, total |-> x.total, c12 |-> x.c12, c3 |-> x.c3]

-----------------------------------------------------------------------------
(* The predicates. *)

LinearUpper(x) == x.linear + MaxLinearSuffix(x)

(* The lower bounds compared with the incumbent, both scaled alike. *)
CostLowers(x) ==
  IF search = "lagrangian"
  THEN {x.lag[k] + LagrangianSuffix(x, k) : k \in grid.mu}
  ELSE {x.total + MinCostSuffix(x)}

PruneIncumbent ==
  IF search = "lagrangian" THEN grid.q * incumbent.total ELSE incumbent.total

(* Mutant of Prune: a bound equal to the incumbent prunes too. *)
PruneTies(x) ==
  \/ LinearUpper(x) < 0
  \/ incumbent # None /\ \E lower \in CostLowers(x) : lower >= PruneIncumbent

Prune(x) ==
  \/ LinearUpper(x) < 0
  \/ incumbent # None /\ \E lower \in CostLowers(x) : lower > PruneIncumbent

Better(x) ==
  \/ x.total < incumbent.total
  \/ x.total = incumbent.total /\ x.c12 < incumbent.c12

Accept(x) ==
  /\ x.linear >= 0 /\ x.c3 > 0
  /\ incumbent = None \/ Better(x)

(* Equal totals: the plaintext solver compares the exact distances of the   *)
(* two ratios from the threshold, then the solutions.                       *)
Gap(x) == x.c12 * Scale - threshold * (x.c12 + x.c3)

LexLess(p, q) ==
  \E i \in DOMAIN p : p[i] < q[i] /\ \A j \in 1 .. i - 1 : p[j] = q[j]

BetterTie(x) ==
  LET lhs == Gap(x) * (incumbent.c12 + incumbent.c3)
      rhs == Gap(incumbent) * (x.c12 + x.c3)
  IN  lhs < rhs \/ (lhs = rhs /\ LexLess(x.path, incumbent.path))

PlainAccept(x) ==
  /\ x.linear >= 0 /\ x.c3 > 0 /\ x.c12 + x.c3 > 0
  /\ \/ incumbent = None
     \/ x.total < incumbent.total
     \/ x.total = incumbent.total /\ BetterTie(x)

(* optimize_encrypted: a candidate must use method 3 somewhere, whatever it *)
(* costs there, and replaces the best only when it is strictly cheaper.     *)
(* The sentinel that stands for "no best yet", and for the cost of an       *)
(* infeasible candidate, exceeds every total.                               *)
UsesThree(path) == \E i \in DOMAIN path : path[i] = 3

(* Mutant of EnumerationAccept: an equal candidate replaces the best.       *)
EnumerationAcceptTies(x) ==
  /\ UsesThree(x.path) /\ x.linear >= 0
  /\ incumbent = None \/ x.total <= incumbent.total

EnumerationAccept(x) ==
  /\ UsesThree(x.path) /\ x.linear >= 0
  /\ incumbent = None \/ x.total < incumbent.total

(* soci_plus_div: the quotient digit by digit, the highest first.           *)
Digit(acc, bit, divisor) ==
  LET shifted == divisor * 2^bit
      take    == ~(acc.rest < shifted)
  IN  [quotient |-> IF take THEN acc.quotient + 2^bit ELSE acc.quotient,
       rest     |-> IF take THEN acc.rest - shifted ELSE acc.rest]

SecureQuotient(dividend, divisor) ==
  LET after[j \in 0..QuotientBits] ==
        IF j = 0 THEN [quotient |-> 0, rest |-> dividend]
        ELSE Digit(after[j - 1], QuotientBits - j, divisor)
  IN  after[QuotientBits].quotient

(* The costs of the methods that a path chooses.                            *)
Chosen(path) == [i \in DOMAIN path |-> costs[i][path[i]]]

-----------------------------------------------------------------------------
Begin ==
  /\ todo' = <<Root>>'
  /\ incumbent' = None
  /\ status' = "searching"

Visit(x) ==
  /\ status = "searching" /\ todo # <<>> /\ x = Head(todo)
  /\ UNCHANGED <<input, status>>

(* Mutant of VisitLeaf: the leaf is not removed. *)
VisitLeafAgain ==
  \E x \in ToSet(todo) :
    /\ Visit(x) /\ IsLeaf(x) /\ search \in {"suffix", "lagrangian"}
    /\ incumbent' = IF Accept(x) THEN Solution(x) ELSE incumbent
    /\ UNCHANGED todo

VisitLeaf ==
  \E x \in ToSet(todo) :
    /\ Visit(x) /\ IsLeaf(x) /\ search \in {"suffix", "lagrangian"}
    /\ incumbent' = IF Accept(x) THEN Solution(x) ELSE incumbent
    /\ todo' = Tail(todo)

VisitInner ==
  \E x \in ToSet(todo) :
    /\ Visit(x) /\ ~IsLeaf(x) /\ search \in {"suffix", "lagrangian"}
    /\ todo' = IF Prune(x) THEN Tail(todo) ELSE Children(x) \o Tail(todo)
    /\ UNCHANGED incumbent

(* Solver::visit tests its bounds at every node, leaves included. *)
VisitPlain ==
  \E x \in ToSet(todo) :
    /\ Visit(x) /\ search = "plain"
    /\ IF Prune(x)
       THEN todo' = Tail(todo) /\ UNCHANGED incumbent
       ELSE IF IsLeaf(x)
            THEN /\ incumbent' = IF PlainAccept(x) THEN Solution(x) ELSE incumbent
                 /\ todo' = Tail(todo)
            ELSE /\ todo' = Children(x) \o Tail(todo)
                 /\ UNCHANGED incumbent

(* optimize_encrypted visits every assignment, in the same order.           *)
VisitEnumerated ==
  \E x \in ToSet(todo) :
    /\ Visit(x) /\ search = "enumerate"
    /\ IF IsLeaf(x)
       THEN /\ incumbent' = IF EnumerationAccept(x) THEN Solution(x) ELSE incumbent
            /\ todo' = Tail(todo)
       ELSE todo' = Children(x) \o Tail(todo) /\ UNCHANGED incumbent

(* Mutant of Verify: a ratio equal to the threshold is refuted. *)
VerifyStrict ==
  /\ search = "plain" /\ status = "done" /\ incumbent # None
  /\ LET path  == incumbent.path
         cost  == SumOver(Chosen(path), Rows)
         cost3 == SumOver(Chosen(path), {i \in Rows : path[i] = 3})
         lhs   == (cost - cost3) * (Scale - threshold)
         rhs   == cost3 * threshold
         ratio == SecureQuotient((cost - cost3) * Scale, cost)
         expected == (incumbent.c12 * Scale) \div incumbent.total
     IN  status' = IF /\ ~(rhs >= lhs) /\ cost = incumbent.total
                      /\ ratio - expected \in -1..1
                   THEN "verified" ELSE "refuted"
  /\ UNCHANGED <<input, todo, incumbent>>

(* Optimizer::optimize sums the encrypted costs of the result again and     *)
(* compares the ratio constraint, the total and the ratio's fixed-point     *)
(* quotient with what the plaintext search says.                            *)
Verify ==
  /\ search = "plain" /\ status = "done" /\ incumbent # None
  /\ LET path  == incumbent.path
         cost  == SumOver(Chosen(path), Rows)
         cost3 == SumOver(Chosen(path), {i \in Rows : path[i] = 3})
         lhs   == (cost - cost3) * (Scale - threshold)
         rhs   == cost3 * threshold
         ratio == SecureQuotient((cost - cost3) * Scale, cost)
         expected == (incumbent.c12 * Scale) \div incumbent.total
     IN  status' = IF /\ ~(rhs > lhs) /\ cost = incumbent.total
                      /\ ratio - expected \in -1..1
                   THEN "verified" ELSE "refuted"
  /\ UNCHANGED <<input, todo, incumbent>>

(* A predicate is denied, replayed or interrupted: solve throws and returns *)
(* no result.                                                               *)
PredicateFails ==
  /\ status = "searching" /\ todo # <<>> /\ search \in {"suffix", "lagrangian"}
  /\ status' = "failed"
  /\ UNCHANGED <<input, todo, incumbent>>

Finish ==
  /\ status = "searching" /\ todo = <<>>
  /\ status' = "done"
  /\ UNCHANGED <<input, todo, incumbent>>

Step == VisitLeaf \/ VisitInner \/ VisitPlain \/ VisitEnumerated
        \/ Finish \/ Verify

-----------------------------------------------------------------------------
(* The reference: the optimum over all assignments, from the requirements   *)
(* rather than from the search.                                             *)
Leaves == {p \in [Rows -> 1..3] : \A i \in Rows : p[i] \in Methods(i)}

Total(p) == SumOver(Chosen(p), Rows)
C12(p)   == SumOver(Chosen(p), {i \in Rows : p[i] < 3})

(* threshold <= ratio < 1, with ratio = c12 / total. *)
Feasible(p) ==
  /\ C12(p) < Total(p)
  /\ C12(p) * Scale >= threshold * Total(p)

(* Smaller cost, then the ratio closer to the threshold, then the           *)
(* lexicographically smaller solution.                                      *)
Preferred(p, q) ==
  \/ Total(p) < Total(q)
  \/ Total(p) = Total(q) /\ C12(p) < C12(q)
  \/ Total(p) = Total(q) /\ C12(p) = C12(q) /\ LexLess(p, q)

IsBestOf(p, S) ==
  /\ p \in S /\ Feasible(p)
  /\ \A q \in S : Feasible(q) /\ q # p => Preferred(p, q)

(* The assignments below a node, and those below no node to be visited. *)
Completions(x) == {p \in Leaves : \A i \in DOMAIN x.path : p[i] = x.path[i]}
Settled        == {p \in Leaves : \A x \in ToSet(todo) : p \notin Completions(x)}

(* The values a node accumulates step by step are those of its path.        *)
AccumulatorsExact ==
  \A x \in ToSet(todo) :
    LET done  == DOMAIN x.path
        cost  == SumOver(Chosen(x.path), done)
        cost3 == SumOver(Chosen(x.path), {i \in done : x.path[i] = 3})
    IN  /\ x.total = cost /\ x.c3 = cost3 /\ x.c12 = cost - cost3
        /\ x.linear = (cost - cost3) * Scale - threshold * cost
        /\ \A k \in grid.mu : x.lag[k] = grid.q * cost - k * x.linear

(* No bound cuts off a solution that could still win: every lower bound of  *)
(* a node is at most the scaled cost of each feasible completion, and its   *)
(* linear upper bound is non-negative if there is one.                      *)
BoundsAdmissible ==
  search # "enumerate" =>
  \A x \in ToSet(todo) :
    \A p \in {q \in Completions(x) : Feasible(q)} :
      /\ LinearUpper(x) >= 0
      /\ \A lower \in CostLowers(x) :
           lower <= (IF search = "lagrangian" THEN grid.q ELSE 1) * Total(p)

(* At every moment the incumbent is the preferred solution among all the    *)
(* assignments visited or pruned so far, ties included; at the end it is    *)
(* the optimum, the same one for the three branch-and-bound searches.       *)
IncumbentBestOfSettled ==
  search # "enumerate" =>
    IF incumbent = None
    THEN \A p \in Settled : ~Feasible(p)
    ELSE IsBestOf(incumbent.path, Settled)

(* With positive costs the enumeration, which compares totals only and      *)
(* demands method 3 by structure instead of by cost, keeps the first of the *)
(* cheapest feasible assignments: the optimal cost of the other searches.   *)
EnumerationFindsOptimum ==
  search = "enumerate" /\ (\A i \in Rows : \A m \in Methods(i) : costs[i][m] > 0)
  => IF incumbent = None
     THEN \A p \in Settled : ~Feasible(p)
     ELSE LET best == incumbent.path
          IN  /\ Feasible(best)
              /\ \A p \in Settled \ {best} : Feasible(p) =>
                   \/ Total(best) < Total(p)
                   \/ Total(best) = Total(p) /\ LexLess(best, p)

(* The encrypted verification never refutes a result of the plaintext       *)
(* search: the two ways of computing its cost and ratio agree.              *)
NeverRefuted == status # "refuted"
=============================================================================
