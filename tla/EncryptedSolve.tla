--------------------------- MODULE EncryptedSolve ---------------------------
(***************************************************************************)
(* One optimization from its request to its result: the composition of     *)
(* LagrangianGrid and BranchBound that EncryptedBranchAndBoundSolver::solve *)
(* makes, with the numeric domain that ThresholdSecureOps accepted.  The   *)
(* grid is chosen first, from the public domain and threshold alone; the   *)
(* costs enter when it is finished, and the search compares and multiplies *)
(* numbers built from both.  A grid is also built on its own, for domains  *)
(* and configurations that Searched does not contain.                      *)
(***************************************************************************)
EXTENDS BranchBound

CONSTANTS
  Domains,     (* numeric domains [scale, rows, costBits, compareBits]     *)
  Configs,     (* grid configurations [denominator, requested, span]       *)
  SecureBits,  (* operand bits of the secure operations (127)              *)
  MaxInt,      (* largest std::int64_t                                     *)
  Searched,    (* the <<domain, config>> that a search follows on, of the  *)
               (* searches' scale                                          *)
  SearchThresholds  (* the thresholds of the searches                      *)

VARIABLES
  domain, config, low, high, values, pc  (* of LagrangianGrid; pc is       *)
                                         (* "unused" outside the building  *)

gridVars  == <<domain, config, low, high, values, pc>>
solveVars == <<vars, gridVars>>

G == INSTANCE LagrangianGrid

ASSUME SolveAssumption ==
  /\ SecureBits \in Nat /\ MaxInt \in Nat
  /\ \A d \in Domains : /\ d.scale \in Nat \ {0} /\ d.rows \in Nat \ {0}
                        /\ d.costBits \in Nat /\ d.compareBits \in Nat
  /\ \A f \in Configs : /\ f.denominator \in Nat \ {0} /\ f.span \in Nat \ {0}
                        /\ f.requested \in Nat \ {0}
  /\ Searched \subseteq Domains \X Configs
  /\ \A s \in Searched : s[1].scale = Scale
  /\ SearchThresholds \subseteq Nat

NoGrid == [q |-> 1, mu |-> {}]

(* ThresholdSecureOps: the declared operand bits cover the linearised sum   *)
(* of all rows, and fit the secure operations.                              *)
DomainAccepted(d) ==
  LET total  == d.costBits + G!CeilLog2(d.rows)
      linear == total + G!CeilLog2(d.scale) + 1
  IN  linear <= d.compareBits /\ d.compareBits <= SecureBits

(* What the caller declares of its encrypted costs; solve can check the     *)
(* number of rows only.                                                     *)
WithinDomain(matrix) ==
  /\ Len(matrix) <= domain.rows
  /\ \A i \in DOMAIN matrix : \A m \in 1..3 :
       matrix[i][m] # None => matrix[i][m] < 2 ^ domain.costBits

Idle ==
  /\ costs = <<>> /\ grid = NoGrid /\ todo = <<>> /\ incumbent = None
  /\ status = "preparing"

SolveInit ==
  /\ Idle /\ search \in Searches
  /\ IF search = "lagrangian" THEN G!Init
     ELSE /\ threshold \in {t \in SearchThresholds : search = "suffix" => t < Scale}
          /\ domain \in (IF search = "suffix" THEN {s[1] : s \in Searched}
                                              ELSE {None})
          /\ config = None /\ low = 0 /\ high = 0 /\ values = {0}
          /\ pc = "unused"

BuildGrid ==
  /\ status = "preparing" /\ G!Next
  /\ UNCHANGED <<costs, search, grid, todo, incumbent, status>>

(* The builder's variables go out of scope. *)
EndBuilding ==
  /\ config' = None /\ low' = 0 /\ high' = 0 /\ values' = {0} /\ pc' = "unused"
  /\ UNCHANGED domain

(* The finished grid is one that a search follows on. *)
Continues ==
  /\ <<domain, config>> \in Searched /\ threshold \in SearchThresholds
  /\ DomainAccepted(domain)

(* The plaintext solver and optimize_encrypted have no numeric domain. *)
BeginSearch ==
  /\ status = "preparing"
  /\ IF search = "lagrangian"
     THEN /\ pc = "done" /\ Continues
          /\ grid' = [q |-> G!Q, mu |-> values]
     ELSE UNCHANGED grid
  /\ search = "suffix" => DomainAccepted(domain)
  /\ costs' \in {matrix \in Matrices :
                   search \in {"plain", "enumerate"} \/ WithinDomain(matrix)}
  /\ EndBuilding
  /\ UNCHANGED <<threshold, search>>
  /\ Begin

Search ==
  /\ Step \/ PredicateFails
  /\ UNCHANGED gridVars

SolveNext == BuildGrid \/ BeginSearch \/ Search

(* One thread builds the grid and runs the search; no predicate has to fail. *)
SolveSpec == SolveInit /\ [][SolveNext]_solveVars
FairSolve == SolveSpec /\ WF_solveVars(BuildGrid \/ BeginSearch)
                       /\ WF_solveVars(Step /\ UNCHANGED gridVars)

-----------------------------------------------------------------------------
(* The binary search for the largest multiplier is right to assume that     *)
(* support is monotone (see LagrangianGrid).                                *)
SearchBrackets == G!SearchBrackets

(* The finished grid passes deriveLagrangianNumericBounds, trimming dropped  *)
(* no anchor, and the size is at most the requested one unless all of the   *)
(* grid are anchors.                                                        *)
GridSound == G!GridSupported /\ G!AnchorsKept /\ G!SizeBounded

Magnitude(x) == G!Abs(x)

(* Every number that the search multiplies or compares under encryption,    *)
(* whatever the costs within the declared domain, has the bits the domain   *)
(* and the grid were checked for: the factors of secure products (the       *)
(* differences that minimum and maximum select by) stay within the secure   *)
(* operations, the operands of comparisons within compareBits.              *)
OperandsFit ==
  status = "searching" /\ search \in {"suffix", "lagrangian"} =>
    /\ \A i \in Rows : \A a, b \in Methods(i) :
         /\ Magnitude(Contribution(i, a) - Contribution(i, b)) < 2^SecureBits
         /\ \A k \in grid.mu :
              Magnitude(Score(i, a, k) - Score(i, b, k)) < 2^SecureBits
    /\ \A x \in ToSet(todo) :
         /\ Magnitude(LinearUpper(x)) < 2 ^ domain.compareBits
         /\ Magnitude(x.linear) < 2 ^ domain.compareBits
         /\ \A lower \in CostLowers(x) : Magnitude(lower) < 2 ^ domain.compareBits
    /\ incumbent # None =>
         Magnitude(PruneIncumbent) < 2 ^ domain.compareBits

(* The request ends: the binary search converges, the trim loop stops and   *)
(* the search visits its last node, unless a predicate fails.               *)
SolveEnds == <>(\/ status \in {"done", "failed", "verified", "refuted"}
                \/ pc = "rejected"
                \/ status = "preparing" /\ pc = "done" /\ ~Continues)
=============================================================================
