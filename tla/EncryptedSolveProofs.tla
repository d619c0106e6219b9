------------------------ MODULE EncryptedSolveProofs ------------------------
(***************************************************************************)
(* The exact searches find the optimum, for every matrix, threshold and    *)
(* grid.  A node's accumulators are sums over the rows it has assigned, its *)
(* bounds are sums over the others of what is best in each row, and the    *)
(* nodes still to be visited are in lexicographic order, behind the        *)
(* incumbent.                                                              *)
(***************************************************************************)
EXTENDS EncryptedSolve, SumsAndPowers

-----------------------------------------------------------------------------
(* The searches.                                                            *)

(* The input of a search, also before it has begun.                        *)
Setting ==
  /\ costs \in Seq([1..3 -> Nat \cup {None}])
  /\ \A i \in Rows : Methods(i) # {}
  /\ threshold \in Nat /\ grid.q \in Nat /\ grid.mu \in SUBSET Nat

(* p assigns methods to the first n rows. *)
Assigns(p, n) ==
  /\ n \in 0..Len(costs) /\ p = [i \in 1..n |-> p[i]]
  /\ \A i \in 1..n : p[i] \in Methods(i)

Threes(p, S)      == {i \in S : p[i] = 3}
Linears(p)        == [i \in DOMAIN p |-> Contribution(i, p[i])]
Scores(p, k)      == [i \in DOMAIN p |-> Score(i, p[i], k)]

-----------------------------------------------------------------------------
(* Rows.                                                                    *)
LEMMA RowsAreFinite ==
  ASSUME Setting
  PROVE  /\ Len(costs) \in Nat /\ IsFiniteSet(Rows)
         /\ \A n \in 0..Len(costs) : IsFiniteSet(1..n) /\ 1..n \subseteq Rows
<1>1. Len(costs) \in Nat
  BY LenProperties DEF Setting
<1>2. \A n \in 0..Len(costs) : IsFiniteSet(1..n)
  BY <1>1, FS_Interval
<1>3. \A n \in 0..Len(costs) : 1..n \subseteq Rows
  BY <1>1 DEF Rows
<1>4. Len(costs) \in 0..Len(costs)
  BY <1>1
<1> QED  BY <1>1, <1>2, <1>3, <1>4 DEF Rows

LEMMA RowTypes ==
  ASSUME Setting, NEW i \in Rows, NEW m \in Methods(i)
  PROVE  /\ costs[i][m] \in Nat /\ m \in 1..3
         /\ Contribution(i, m) \in Int
         /\ \A k \in grid.mu : Score(i, m, k) \in Int
<1>1. costs[i] \in [1..3 -> Nat \cup {None}]
  BY ElementOfSeq DEF Setting, Rows
<1>2. m \in 1..3 /\ costs[i][m] # None
  BY DEF Methods
<1>3. costs[i][m] \in Nat
  BY <1>1, <1>2
<1>4. Scale - threshold \in Int /\ -threshold \in Int
  BY SearchAssumption DEF Setting
<1>5. Contribution(i, m) \in Int
  BY <1>3, <1>4 DEF Contribution
<1>6. ASSUME NEW k \in grid.mu  PROVE Score(i, m, k) \in Int
  <2>1. k \in Int /\ grid.q \in Int
    BY DEF Setting
  <2> QED  BY <1>3, <1>5, <2>1 DEF Score
<1> QED  BY <1>2, <1>3, <1>5, <1>6

LEMMA MethodsAreFinite == \A i : IsFiniteSet(Methods(i))
<1> TAKE i
<1>1. IsFiniteSet(1..3)
  <2>1. 1 \in Int /\ 3 \in Int
    OBVIOUS
  <2> QED  BY <2>1, FS_Interval
<1>2. Methods(i) \subseteq 1..3
  BY DEF Methods
<1> QED  BY <1>1, <1>2, FS_Subset

(* What is best in a row bounds what any of its methods gives.             *)
LEMMA RowBounds ==
  ASSUME Setting, NEW i \in Rows
  PROVE  /\ RowMinCost(i) \in Int /\ RowMaxLinear(i) \in Int
         /\ \A m \in Methods(i) : RowMinCost(i) <= costs[i][m]
         /\ \A m \in Methods(i) : Contribution(i, m) <= RowMaxLinear(i)
         /\ \E m \in Methods(i) : RowMinCost(i) = costs[i][m]
         /\ \E m \in Methods(i) : RowMaxLinear(i) = Contribution(i, m)
<1>1. IsFiniteSet(Methods(i)) /\ Methods(i) # {}
  <2>1. IsFiniteSet(Methods(i))
    BY MethodsAreFinite
  <2> QED  BY <2>1 DEF Setting
<1> DEFINE c == [m \in Methods(i) |-> costs[i][m]]
           l == [m \in Methods(i) |-> Contribution(i, m)]
<1>2. c \in [Methods(i) -> Int] /\ l \in [Methods(i) -> Int]
  BY RowTypes
<1>3. /\ RowMinCost(i) = Min({c[m] : m \in Methods(i)})
      /\ RowMaxLinear(i) = Max({l[m] : m \in Methods(i)})
  BY DEF RowMinCost, RowMaxLinear
<1>4. \A m \in Methods(i) : c[m] = costs[i][m] /\ l[m] = Contribution(i, m)
  OBVIOUS
<1> HIDE DEF c, l
<1>5. /\ RowMinCost(i) \in {c[m] : m \in Methods(i)}
      /\ \A m \in Methods(i) : RowMinCost(i) <= c[m]
  BY <1>1, <1>2, <1>3, MinOfValues
<1>6. /\ RowMaxLinear(i) \in {l[m] : m \in Methods(i)}
      /\ \A m \in Methods(i) : l[m] <= RowMaxLinear(i)
  BY <1>1, <1>2, <1>3, MaxOfValues
<1>7. RowMinCost(i) \in Int /\ RowMaxLinear(i) \in Int
  BY <1>2, <1>5, <1>6
<1> QED  BY <1>4, <1>5, <1>6, <1>7

LEMMA RowLowerBounds ==
  ASSUME Setting, NEW i \in Rows, NEW k \in grid.mu
  PROVE  /\ RowLower(i, k) \in Int
         /\ \A m \in Methods(i) : RowLower(i, k) <= Score(i, m, k)
         /\ \E m \in Methods(i) : RowLower(i, k) = Score(i, m, k)
<1>1. IsFiniteSet(Methods(i)) /\ Methods(i) # {}
  <2>1. IsFiniteSet(Methods(i))
    BY MethodsAreFinite
  <2> QED  BY <2>1 DEF Setting
<1> DEFINE s == [m \in Methods(i) |-> Score(i, m, k)]
<1>2. s \in [Methods(i) -> Int]
  BY RowTypes
<1>3. RowLower(i, k) = Min({s[m] : m \in Methods(i)})
  BY DEF RowLower
<1>4. \A m \in Methods(i) : s[m] = Score(i, m, k)
  OBVIOUS
<1> HIDE DEF s
<1>5. /\ RowLower(i, k) \in {s[m] : m \in Methods(i)}
      /\ \A m \in Methods(i) : RowLower(i, k) <= s[m]
  BY <1>1, <1>2, <1>3, MinOfValues
<1> QED  BY <1>2, <1>4, <1>5

-----------------------------------------------------------------------------
(* Assignments: what a path chooses, and its sums over a set of rows.       *)
LEMMA ChosenTypes ==
  ASSUME Setting, NEW n, NEW p, Assigns(p, n)
  PROVE  /\ n \in Nat /\ IsFiniteSet(DOMAIN p) /\ DOMAIN p = 1..n
         /\ Chosen(p) \in [DOMAIN p -> Int] /\ Linears(p) \in [DOMAIN p -> Int]
         /\ \A k \in grid.mu : Scores(p, k) \in [DOMAIN p -> Int]
         /\ \A i \in DOMAIN p : /\ i \in Rows /\ p[i] \in Methods(i) /\ p[i] \in 1..3
                              /\ Chosen(p)[i] \in Nat
<1>1. n \in Nat /\ IsFiniteSet(1..n) /\ DOMAIN p = 1..n /\ 1..n \subseteq Rows
  BY RowsAreFinite DEF Assigns
<1>2. \A i \in 1..n : /\ costs[i][p[i]] \in Nat /\ Contribution(i, p[i]) \in Int
                      /\ \A k \in grid.mu : Score(i, p[i], k) \in Int
  BY <1>1, RowTypes DEF Assigns
<1>3. \A i \in 1..n : costs[i][p[i]] \in Int
  BY <1>2
<1>4. \A i \in 1..n : p[i] \in Methods(i) /\ p[i] \in 1..3
  BY DEF Assigns, Methods
<1> QED  BY <1>1, <1>2, <1>3, <1>4 DEF Chosen, Linears, Scores

(* The elements of a set that p maps to 3, and the others. *)
Others(p, S) == {i \in S : p[i] < 3}

LEMMA SplitSum ==
  ASSUME NEW D, IsFiniteSet(D), NEW c \in [D -> Int], NEW p,
         \A i \in D : p[i] \in 1..3, NEW S \in SUBSET D
  PROVE  /\ SumOver(c, S) \in Int /\ SumOver(c, Threes(p, S)) \in Int
         /\ SumOver(c, Others(p, S)) = SumOver(c, S) - SumOver(c, Threes(p, S))
<1> DEFINE R == Others(p, S)
           T == Threes(p, S)
<1>1. \A i \in S : ~(p[i] = 3 /\ p[i] < 3) /\ (p[i] = 3 \/ p[i] < 3)
  <2> TAKE i \in S
  <2>1. p[i] \in 1..3
    OBVIOUS
  <2> QED  BY <2>1
<1>2. T \in SUBSET D /\ R \in SUBSET (D \ T) /\ T \cup R = S /\ R \in SUBSET D
  BY <1>1 DEF Threes, Others
<1> HIDE DEF R, T
<1>3. SumOver(c, T \cup R) = SumOver(c, T) + SumOver(c, R)
  BY <1>2, SumJoin
<1>4. SumOver(c, S) \in Int /\ SumOver(c, T) \in Int /\ SumOver(c, R) \in Int
  BY <1>2, SumType
<1>5. SumOver(c, R) = SumOver(c, S) - SumOver(c, T)
  <2>1. SumOver(c, S) = SumOver(c, T) + SumOver(c, R)
    BY <1>2, <1>3
  <2> QED  BY <1>4, <2>1
<1> QED  BY <1>4, <1>5 DEF R, T

(* Adding up c with the weight s - t, or -t where p is 3. *)
Weighs(l, c, p, s, t, D) ==
  \A i \in D : l[i] = c[i] * (IF p[i] = 3 THEN -t ELSE s - t)

LEMMA WeightedSum ==
  ASSUME NEW D, IsFiniteSet(D), NEW c \in [D -> Int], NEW l \in [D -> Int], NEW p,
         NEW S \in SUBSET D, NEW s \in Int, NEW t \in Int,
         Weighs(l, c, p, s, t, D)
  PROVE  SumOver(l, S)
           = (SumOver(c, S) - SumOver(c, Threes(p, S))) * s - t * SumOver(c, S)
<1> DEFINE g == [i \in D |-> IF p[i] = 3 THEN c[i] ELSE 0]
           z == [i \in D |-> 0]
           T == Threes(p, S)
           U == S \ T
<1>1. g \in [D -> Int] /\ z \in [D -> Int]
  OBVIOUS
<1>2. T \in SUBSET D /\ U \in SUBSET D /\ U \in SUBSET (D \ T) /\ T \cup U = S
  BY DEF Threes
<1>3. (\A i \in T : g[i] = c[i]) /\ (\A i \in U : g[i] = z[i])
  BY <1>2 DEF Threes
<1>4. \A i \in D : z[i] = 0
  OBVIOUS
<1>5. Combines(l, s - t, c, -s, g, D)
  <2> SUFFICES ASSUME NEW i \in D
               PROVE  l[i] = (s - t) * c[i] + (-s) * g[i]
    BY DEF Combines
  <2>1. c[i] \in Int
    OBVIOUS
  <2>2. ASSUME NEW x \in Int
        PROVE  x * (-t) = (s - t) * x + (-s) * x /\ x * (s - t) = (s - t) * x + (-s) * 0
    OBVIOUS
  <2>3. CASE p[i] = 3
    <3>1. g[i] = c[i] /\ l[i] = c[i] * (-t)
      BY <2>3 DEF Weighs
    <3> HIDE DEF g
    <3> QED  BY <2>1, <2>2, <3>1
  <2>4. CASE p[i] # 3
    <3>1. g[i] = 0 /\ l[i] = c[i] * (s - t)
      BY <2>4 DEF Weighs
    <3> HIDE DEF g
    <3> QED  BY <2>1, <2>2, <3>1
  <2> QED  BY <2>3, <2>4
<1> HIDE DEF g, z, T, U
<1>6. IsFiniteSet(T) /\ IsFiniteSet(U) /\ T \in SUBSET T /\ U \in SUBSET U
  BY <1>2, FS_Subset
<1>7. SumOver(g, T) = SumOver(c, T) /\ SumOver(g, U) = SumOver(z, U)
  BY <1>3, <1>6, SumSame
<1>8. SumOver(z, U) = 0
  BY <1>1, <1>2, <1>4, SumZero
<1>9. SumOver(c, S) \in Int /\ SumOver(c, T) \in Int
  BY <1>2, SumType
<1>10. SumOver(g, S) = SumOver(c, T)
  <2>1. SumOver(g, T \cup U) = SumOver(g, T) + SumOver(g, U)
    BY <1>1, <1>2, SumJoin
  <2>2. SumOver(g, S) = SumOver(c, T) + 0
    BY <1>2, <1>7, <1>8, <2>1
  <2> QED  BY <1>9, <2>2
<1>11. SumOver(l, S) = (s - t) * SumOver(c, S) + (-s) * SumOver(g, S)
  <2>1. s - t \in Int /\ -s \in Int
    OBVIOUS
  <2> QED  BY <1>1, <1>5, <2>1, SumLinear
<1>12. ASSUME NEW a \in Int, NEW b \in Int
       PROVE  (s - t) * a + (-s) * b = (a - b) * s - t * a
  OBVIOUS
<1> QED  BY <1>9, <1>10, <1>11, <1>12 DEF T

(* The rows of method 3 and the others. *)
LEMMA ThreesSplit ==
  ASSUME Setting, NEW n, NEW p, Assigns(p, n), NEW S \in SUBSET DOMAIN p
  PROVE  /\ SumOver(Chosen(p), S) \in Int /\ SumOver(Chosen(p), Threes(p, S)) \in Int
         /\ SumOver(Chosen(p), Others(p, S))
              = SumOver(Chosen(p), S) - SumOver(Chosen(p), Threes(p, S))
<1> DEFINE D == DOMAIN p
           c == Chosen(p)
<1>1. /\ IsFiniteSet(D) /\ c \in [D -> Int] /\ S \in SUBSET D
      /\ \A i \in D : p[i] \in 1..3
  BY ChosenTypes DEF Methods
<1> HIDE DEF D, c
<1>2. /\ SumOver(c, S) \in Int /\ SumOver(c, Threes(p, S)) \in Int
      /\ SumOver(c, Others(p, S)) = SumOver(c, S) - SumOver(c, Threes(p, S))
  BY <1>1, SplitSum
<1> QED  BY <1>2 DEF c

(* The contributions to the ratio constraint add up to the constraint.      *)
LEMMA LinearSum ==
  ASSUME Setting, NEW n, NEW p, Assigns(p, n), NEW S \in SUBSET DOMAIN p
  PROVE  /\ SumOver(Linears(p), S) \in Int
         /\ SumOver(Linears(p), S)
              = (SumOver(Chosen(p), S) - SumOver(Chosen(p), Threes(p, S))) * Scale
                - threshold * SumOver(Chosen(p), S)
<1> DEFINE D == DOMAIN p
           c == Chosen(p)
           l == Linears(p)
<1>1. IsFiniteSet(D) /\ c \in [D -> Int] /\ l \in [D -> Int] /\ S \in SUBSET D
  BY ChosenTypes
<1>2. Weighs(l, c, p, Scale, threshold, D)
  <2> SUFFICES ASSUME NEW i \in D
               PROVE  l[i] = c[i] * (IF p[i] = 3 THEN -threshold ELSE Scale - threshold)
    BY DEF Weighs
  <2>1. DOMAIN p = 1..n /\ p[i] \in 1..3
    BY ChosenTypes DEF Methods
  <2>2. l[i] = Contribution(i, p[i]) /\ c[i] = costs[i][p[i]]
    BY <2>1 DEF Linears, Chosen
  <2>3. p[i] = 3 <=> ~(p[i] < 3)
    BY <2>1
  <2> QED  BY <2>2, <2>3 DEF Contribution
<1>3. Scale \in Int /\ threshold \in Int
  BY SearchAssumption DEF Setting
<1> HIDE DEF D, c, l
<1>4. SumOver(l, S) \in Int
  BY <1>1, SumType
<1>5. SumOver(l, S) = (SumOver(c, S) - SumOver(c, Threes(p, S))) * Scale
                      - threshold * SumOver(c, S)
  BY <1>1, <1>2, <1>3, WeightedSum
<1> QED  BY <1>4, <1>5 DEF c, l

LEMMA ScoreSum ==
  ASSUME Setting, NEW n, NEW p, Assigns(p, n), NEW S \in SUBSET DOMAIN p, NEW k \in grid.mu
  PROVE  /\ SumOver(Scores(p, k), S) \in Int
         /\ SumOver(Scores(p, k), S)
              = grid.q * SumOver(Chosen(p), S) - k * SumOver(Linears(p), S)
<1> DEFINE D == DOMAIN p
           c == Chosen(p)
           l == Linears(p)
           s == Scores(p, k)
<1>1. /\ IsFiniteSet(D) /\ c \in [D -> Int] /\ l \in [D -> Int] /\ s \in [D -> Int]
      /\ S \in SUBSET D
  BY ChosenTypes
<1>2. grid.q \in Int /\ k \in Int /\ -k \in Int
  BY DEF Setting
<1>3. ASSUME NEW a \in Int, NEW b \in Int
      PROVE  grid.q * a - k * b = grid.q * a + (-k) * b
  BY <1>2
<1>4. \A i \in D : s[i] = grid.q * c[i] - k * l[i]
  <2> TAKE i \in D
  <2>1. DOMAIN p = 1..n
    BY ChosenTypes
  <2> QED  BY <2>1 DEF Scores, Score, Linears, Chosen
<1> HIDE DEF D, c, l, s
<1>5. Combines(s, grid.q, c, -k, l, D)
  BY <1>1, <1>3, <1>4 DEF Combines
<1>6. SumOver(s, S) = grid.q * SumOver(c, S) + (-k) * SumOver(l, S)
  BY <1>1, <1>2, <1>5, SumLinear
<1>7. SumOver(c, S) \in Int /\ SumOver(l, S) \in Int /\ SumOver(s, S) \in Int
  BY <1>1, SumType
<1>8. SumOver(s, S) = grid.q * SumOver(c, S) - k * SumOver(l, S)
  BY <1>3, <1>6, <1>7
<1> QED  BY <1>7, <1>8 DEF c, l, s
-----------------------------------------------------------------------------
(* Nodes: what a node accumulates are the sums along its path.              *)
Nodes == [path : Seq(1..3), total : Int, c12 : Int, c3 : Int, linear : Int,
          lag : [grid.mu -> Int]]

Exact(x) ==
  LET p == x.path
      D == DOMAIN p
  IN  /\ x \in Nodes /\ Assigns(p, Len(p))
      /\ x.total = SumOver(Chosen(p), D)
      /\ x.c3 = SumOver(Chosen(p), Threes(p, D))
      /\ x.c12 = x.total - x.c3
      /\ x.linear = SumOver(Linears(p), D)
      /\ \A k \in grid.mu : x.lag[k] = SumOver(Scores(p, k), D)

(* A node has what AccumulatorsExact asks of it.                            *)
LEMMA ExactAccumulators ==
  ASSUME Setting, NEW x, Exact(x)
  PROVE  LET done  == DOMAIN x.path
             cost  == SumOver(Chosen(x.path), done)
             cost3 == SumOver(Chosen(x.path), {i \in done : x.path[i] = 3})
         IN  /\ x.total = cost /\ x.c3 = cost3 /\ x.c12 = cost - cost3
             /\ x.linear = (cost - cost3) * Scale - threshold * cost
             /\ \A k \in grid.mu : x.lag[k] = grid.q * cost - k * x.linear
<1> DEFINE p == x.path
           D == DOMAIN p
<1>1. Assigns(p, Len(p)) /\ D \in SUBSET DOMAIN p
  BY DEF Exact
<1>2. SumOver(Linears(p), D)
        = (SumOver(Chosen(p), D) - SumOver(Chosen(p), Threes(p, D))) * Scale
          - threshold * SumOver(Chosen(p), D)
  <2> HIDE DEF p, D
  <2> QED  BY <1>1, LinearSum
<1>3. ASSUME NEW k \in grid.mu
      PROVE  SumOver(Scores(p, k), D)
               = grid.q * SumOver(Chosen(p), D) - k * SumOver(Linears(p), D)
  <2> HIDE DEF p, D
  <2> QED  BY <1>1, ScoreSum
<1> QED  BY <1>2, <1>3 DEF Exact, Threes

LEMMA RootExact ==
  ASSUME Setting
  PROVE  Exact(Root)
<1>1. Root.path = <<>> /\ DOMAIN <<>> = {} /\ Len(<<>>) = 0 /\ 1..0 = {}
  BY DEF Root
<1>2. Threes(<<>>, {}) = {}
  BY DEF Threes
<1>3. Root \in Nodes
  <2>1. <<>> \in Seq(1..3) /\ [k \in grid.mu |-> 0] \in [grid.mu -> Int]
    OBVIOUS
  <2> QED  BY <2>1 DEF Root, Nodes
<1>4. Assigns(<<>>, 0)
  <2>1. 0 \in 0..Len(costs)
    BY RowsAreFinite
  <2> QED  BY <1>1, <2>1 DEF Assigns
<1>5. \A f : SumOver(f, {}) = 0
  BY SumEmpty
<1>6. /\ Root.total = 0 /\ Root.c3 = 0 /\ Root.c12 = 0 /\ Root.linear = 0
      /\ \A k \in grid.mu : Root.lag[k] = 0
  BY DEF Root
<1>7. Threes(Root.path, DOMAIN Root.path) = {} /\ DOMAIN Root.path = {}
  BY <1>1, <1>2
<1>8. Assigns(Root.path, Len(Root.path))
  BY <1>1, <1>4
<1> SUFFICES /\ Root.total = SumOver(Chosen(Root.path), {})
             /\ Root.c3 = SumOver(Chosen(Root.path), {})
             /\ Root.c12 = Root.total - Root.c3
             /\ Root.linear = SumOver(Linears(Root.path), {})
             /\ \A k \in grid.mu : Root.lag[k] = SumOver(Scores(Root.path, k), {})
  BY <1>3, <1>7, <1>8, Zenon DEF Exact
<1> QED  BY <1>5, <1>6

(* Appending a method to an assignment. *)
LEMMA AppendAssigns ==
  ASSUME Setting, NEW p \in Seq(1..3), Assigns(p, Len(p)), Len(p) # Len(costs),
         NEW m \in Methods(Len(p) + 1)
  PROVE  /\ Len(p) + 1 \in Rows /\ m \in 1..3
         /\ Append(p, m) \in Seq(1..3) /\ Len(Append(p, m)) = Len(p) + 1
         /\ Assigns(Append(p, m), Len(p) + 1)
         /\ DOMAIN p = 1..Len(p) /\ DOMAIN Append(p, m) = 1..Len(p) + 1
         /\ \A i \in 1..Len(p) : Append(p, m)[i] = p[i]
         /\ Append(p, m)[Len(p) + 1] = m
<1> DEFINE n == Len(p)
           r == Append(p, m)
<1>1. n \in Nat /\ n \in 0..Len(costs) /\ Len(costs) \in Nat /\ n # Len(costs)
  BY LenProperties, RowsAreFinite DEF Assigns
<1>2. n + 1 \in Rows /\ n + 1 \in 0..Len(costs) /\ m \in 1..3
  <2> HIDE DEF n
  <2> QED  BY <1>1 DEF Rows, Methods
<1>3. /\ r \in Seq(1..3) /\ Len(r) = n + 1 /\ r[n + 1] = m
      /\ \A i \in 1..n : r[i] = p[i]
  BY <1>2, AppendProperties
<1>4. DOMAIN r = 1..n + 1 /\ DOMAIN p = 1..n
  BY <1>3, LenProperties
<1>5. r = [i \in 1..n + 1 |-> r[i]]
  BY <1>3, <1>4, LenProperties
<1>6. \A i \in 1..n + 1 : r[i] \in Methods(i)
  <2> TAKE i \in 1..n + 1
  <2>1. CASE i = n + 1
    BY <1>3, <2>1
  <2>2. CASE i # n + 1
    <3>1. i \in 1..n
      BY <1>1, <2>2
    <3>2. p[i] \in Methods(i)
      BY <3>1 DEF Assigns
    <3> QED  BY <1>3, <3>1, <3>2
  <2> QED  BY <2>1, <2>2
<1>7. Assigns(r, n + 1)
  BY <1>2, <1>5, <1>6 DEF Assigns
<1> QED  BY <1>2, <1>3, <1>4, <1>7

LEMMA ChildExact ==
  ASSUME Setting, NEW x, Exact(x), ~IsLeaf(x), NEW m \in Methods(Len(x.path) + 1)
  PROVE  /\ Exact(Child(x, m)) /\ Child(x, m).path = Append(x.path, m)
<1> DEFINE p == x.path
           n == Len(p)
           i == n + 1
           r == Append(p, m)
           D == DOMAIN r
           E == DOMAIN p
           y == Child(x, m)
<1>1. p \in Seq(1..3) /\ Assigns(p, n) /\ n # Len(costs) /\ m \in Methods(n + 1)
  BY DEF Exact, Nodes, IsLeaf
<1>2. /\ i \in Rows /\ m \in 1..3 /\ r \in Seq(1..3) /\ Len(r) = i /\ Assigns(r, i)
      /\ E = 1..n /\ D = 1..i /\ r[i] = m /\ \A j \in 1..n : r[j] = p[j]
  <2> HIDE DEF p
  <2> QED  BY <1>1, AppendAssigns
<1>3. /\ D = E \cup {i} /\ i \notin E /\ \A j \in E : r[j] = p[j]
  <2>1. n \in Nat
    BY <1>1, LenProperties
  <2> HIDE DEF n, D, E, r
  <2> QED  BY <1>2, <2>1
<1>4. /\ Threes(r, D) = IF m = 3 THEN Threes(p, E) \cup {i} ELSE Threes(p, E)
      /\ Threes(p, E) \in SUBSET E
  <2> HIDE DEF n, D, E, r, p
  <2> QED  BY <1>2, <1>3 DEF Threes
<1>5. /\ IsFiniteSet(D) /\ Chosen(r) \in [D -> Int] /\ Linears(r) \in [D -> Int]
      /\ \A k \in grid.mu : Scores(r, k) \in [D -> Int]
  <2> HIDE DEF n, r, p
  <2> QED  BY <1>2, ChosenTypes
<1>6. /\ \A j \in E : /\ Chosen(r)[j] = Chosen(p)[j] /\ Linears(r)[j] = Linears(p)[j]
                      /\ \A k \in grid.mu : Scores(r, k)[j] = Scores(p, k)[j]
      /\ Chosen(r)[i] = costs[i][m] /\ Linears(r)[i] = Contribution(i, m)
      /\ \A k \in grid.mu : Scores(r, k)[i] = Score(i, m, k)
  <2> HIDE DEF n, r, p
  <2> QED  BY <1>2, <1>3 DEF Chosen, Linears, Scores
<1>7. /\ y.path = r /\ y.total = x.total + costs[i][m]
      /\ y.c12 = (IF m < 3 THEN x.c12 + costs[i][m] ELSE x.c12)
      /\ y.c3 = (IF m < 3 THEN x.c3 ELSE x.c3 + costs[i][m])
      /\ y.linear = x.linear + Contribution(i, m)
      /\ y.lag = [k \in grid.mu |-> x.lag[k] + Score(i, m, k)]
  BY DEF Child
<1>8. y = [path |-> y.path, total |-> y.total, c12 |-> y.c12, c3 |-> y.c3,
           linear |-> y.linear, lag |-> y.lag]
  BY DEF Child
<1>9. /\ costs[i][m] \in Int /\ Contribution(i, m) \in Int
      /\ \A k \in grid.mu : Score(i, m, k) \in Int
  BY <1>2, RowTypes
<1>10. /\ x.total \in Int /\ x.c12 \in Int /\ x.c3 \in Int /\ x.linear \in Int
       /\ x.lag \in [grid.mu -> Int]
  BY DEF Exact, Nodes
<1>11. /\ x.total = SumOver(Chosen(p), E) /\ x.c3 = SumOver(Chosen(p), Threes(p, E))
       /\ x.c12 = x.total - x.c3 /\ x.linear = SumOver(Linears(p), E)
       /\ \A k \in grid.mu : x.lag[k] = SumOver(Scores(p, k), E)
  BY DEF Exact
<1>12. E \in SUBSET D /\ i \in D \ E /\ E \in SUBSET E
  BY <1>3
<1> HIDE DEF n, i, r, p, D, E, y
<1>13. y \in Nodes
  <2>1. y.lag \in [grid.mu -> Int]
    BY <1>7, <1>9, <1>10
  <2>2. y.total \in Int /\ y.c12 \in Int /\ y.c3 \in Int /\ y.linear \in Int
    BY <1>7, <1>9, <1>10
  <2> QED  BY <1>2, <1>7, <1>8, <2>1, <2>2 DEF Nodes
<1>14. y.total = SumOver(Chosen(r), D)
  <2>1. SumOver(Chosen(r), E \cup {i}) = SumOver(Chosen(p), E) + Chosen(r)[i]
    BY <1>5, <1>6, <1>12, SumExtend
  <2> QED  BY <1>3, <1>6, <1>7, <1>11, <2>1
<1>15. y.c3 = SumOver(Chosen(r), Threes(r, D))
  <2>1. /\ SumOver(Chosen(r), Threes(p, E)) = SumOver(Chosen(p), Threes(p, E))
        /\ SumOver(Chosen(r), Threes(p, E) \cup {i})
             = SumOver(Chosen(p), Threes(p, E)) + Chosen(r)[i]
    BY <1>4, <1>5, <1>6, <1>12, SumExtend
  <2>2. CASE m = 3
    <3>1. y.c3 = x.c3 + costs[i][m] /\ Threes(r, D) = Threes(p, E) \cup {i}
      BY <1>4, <1>7, <2>2
    <3> QED  BY <1>6, <1>11, <2>1, <3>1
  <2>3. CASE m # 3
    <3>1. y.c3 = x.c3 /\ Threes(r, D) = Threes(p, E)
      BY <1>2, <1>4, <1>7, <2>3
    <3> QED  BY <1>11, <2>1, <3>1
  <2> QED  BY <2>2, <2>3
<1>16. y.c12 = y.total - y.c3
  BY <1>7, <1>9, <1>10, <1>11
<1>17. y.linear = SumOver(Linears(r), D)
  <2>1. SumOver(Linears(r), E \cup {i}) = SumOver(Linears(p), E) + Linears(r)[i]
    BY <1>5, <1>6, <1>12, SumExtend
  <2> QED  BY <1>3, <1>6, <1>7, <1>11, <2>1
<1>18. ASSUME NEW k \in grid.mu  PROVE y.lag[k] = SumOver(Scores(r, k), D)
  <2> DEFINE s == Scores(r, k)
             u == Scores(p, k)
  <2>0. IsFiniteSet(D) /\ s \in [D -> Int] /\ \A j \in E : s[j] = u[j]
    BY <1>5, <1>6
  <2> HIDE DEF s, u
  <2>1. \A S \in SUBSET E : SumOver(s, S \cup {i}) = SumOver(u, S) + s[i]
    BY <1>12, <2>0, SumExtend
  <2>2. SumOver(s, E \cup {i}) = SumOver(u, E) + s[i]
    BY <1>12, <2>1
  <2>3. y.lag[k] = x.lag[k] + Score(i, m, k)
    BY <1>7
  <2> QED  BY <1>3, <1>6, <1>11, <2>2, <2>3 DEF s, u
<1>19. Exact(y)
  BY <1>2, <1>7, <1>13, <1>14, <1>15, <1>16, <1>17, <1>18, Zenon DEF Exact, D
<1> QED  BY <1>7, <1>19 DEF r, p, y

-----------------------------------------------------------------------------
(* Complete assignments: what makes one feasible, and how its sums continue *)
(* those of a node above it.                                                *)
C3(p) == SumOver(Chosen(p), Threes(p, Rows))

LEMMA LeafAssigns ==
  ASSUME Setting, NEW p \in Leaves
  PROVE  /\ Assigns(p, Len(costs)) /\ DOMAIN p = Rows /\ IsFiniteSet(Rows)
         /\ Chosen(p) \in [Rows -> Int] /\ Linears(p) \in [Rows -> Int]
         /\ \A k \in grid.mu : Scores(p, k) \in [Rows -> Int]
         /\ \A i \in Rows : p[i] \in 1..3 /\ p[i] \in Methods(i)
<1>1. Len(costs) \in 0..Len(costs) /\ IsFiniteSet(Rows)
  BY RowsAreFinite
<1>2. p \in [Rows -> 1..3] /\ \A i \in Rows : p[i] \in Methods(i)
  BY DEF Leaves
<1>3. Assigns(p, Len(costs))
  BY <1>1, <1>2 DEF Assigns, Rows
<1>4. DOMAIN p = Rows
  BY <1>2
<1> QED  BY <1>1, <1>2, <1>3, <1>4, ChosenTypes

LEMMA FeasibleMeans ==
  ASSUME Setting, NEW p \in Leaves
  PROVE  /\ Total(p) \in Int /\ C3(p) \in Int /\ SumOver(Linears(p), Rows) \in Int
         /\ C12(p) = Total(p) - C3(p)
         /\ SumOver(Linears(p), Rows) = C12(p) * Scale - threshold * Total(p)
         /\ Feasible(p) <=> C3(p) > 0 /\ SumOver(Linears(p), Rows) >= 0
<1>1. Assigns(p, Len(costs)) /\ DOMAIN p = Rows /\ Rows \in SUBSET DOMAIN p
  BY LeafAssigns
<1>2. /\ SumOver(Chosen(p), Rows) \in Int /\ SumOver(Chosen(p), Threes(p, Rows)) \in Int
      /\ SumOver(Chosen(p), Others(p, Rows))
           = SumOver(Chosen(p), Rows) - SumOver(Chosen(p), Threes(p, Rows))
  BY <1>1, ThreesSplit
<1>3. /\ SumOver(Linears(p), Rows) \in Int
      /\ SumOver(Linears(p), Rows)
           = (SumOver(Chosen(p), Rows) - SumOver(Chosen(p), Threes(p, Rows))) * Scale
             - threshold * SumOver(Chosen(p), Rows)
  BY <1>1, LinearSum
<1>4. /\ Total(p) = SumOver(Chosen(p), Rows) /\ C12(p) = SumOver(Chosen(p), Others(p, Rows))
      /\ C3(p) = SumOver(Chosen(p), Threes(p, Rows))
  BY DEF Total, C12, C3, Others
<1>5. /\ Total(p) \in Int /\ C3(p) \in Int /\ C12(p) = Total(p) - C3(p)
      /\ SumOver(Linears(p), Rows) = (Total(p) - C3(p)) * Scale - threshold * Total(p)
  BY <1>2, <1>3, <1>4, Zenon
<1>6. Scale \in Int /\ threshold \in Int
  BY SearchAssumption DEF Setting
<1>7. ASSUME NEW t \in Int, NEW c \in Int, NEW l \in Int, NEW d \in Int, d = t - c,
             l = d * Scale - threshold * t
      PROVE  (d < t /\ d * Scale >= threshold * t) <=> (c > 0 /\ l >= 0)
  <2> DEFINE a == d * Scale
             b == threshold * t
  <2>1. a \in Int /\ b \in Int /\ l = a - b
    BY <1>6, <1>7
  <2> HIDE DEF a, b
  <2>2. (d < t /\ a >= b) <=> (c > 0 /\ l >= 0)
    BY <1>7, <2>1
  <2> QED  BY <2>2 DEF a, b
<1>8. C12(p) \in Int
  BY <1>5
<1>9. Feasible(p) <=> C3(p) > 0 /\ SumOver(Linears(p), Rows) >= 0
  <2>1. SumOver(Linears(p), Rows) = C12(p) * Scale - threshold * Total(p)
    BY <1>5
  <2> QED  BY <1>3, <1>5, <1>7, <1>8, <2>1 DEF Feasible
<1> QED  BY <1>3, <1>5, <1>9

(* The rows of a node and those below it.                                   *)
LEMMA RowsSplit ==
  ASSUME Setting, NEW x, Exact(x)
  PROVE  /\ DOMAIN x.path \in SUBSET Rows /\ Below(x) \in SUBSET Rows
         /\ Below(x) \in SUBSET (Rows \ DOMAIN x.path)
         /\ DOMAIN x.path \cup Below(x) = Rows
         /\ IsFiniteSet(DOMAIN x.path) /\ IsFiniteSet(Rows)
<1> DEFINE n == Len(x.path)
           N == Len(costs)
<1>1. n \in 0..N /\ N \in Nat /\ DOMAIN x.path = 1..n /\ IsFiniteSet(1..n)
  <2>1. Assigns(x.path, Len(x.path))
    BY DEF Exact
  <2>2. n \in 0..N /\ DOMAIN x.path = 1..n
    BY <2>1, ChosenTypes DEF Assigns
  <2> QED  BY <2>2, RowsAreFinite
<1>2. Rows = 1..N /\ Below(x) = n + 1 .. N
  BY DEF Rows, Below
<1> HIDE DEF n, N
<1>3. /\ 1..n \subseteq 1..N /\ n + 1 .. N \subseteq 1..N
      /\ \A i \in n + 1 .. N : i \notin 1..n
      /\ \A i \in 1..N : i \in 1..n \/ i \in n + 1 .. N
  BY <1>1
<1>4. IsFiniteSet(Rows)
  BY RowsAreFinite
<1> QED  BY <1>1, <1>2, <1>3, <1>4

LEMMA CompletionSums ==
  ASSUME Setting, NEW x, Exact(x), NEW p \in Completions(x)
  PROVE  /\ Total(p) = x.total + SumOver(Chosen(p), Below(x))
         /\ SumOver(Linears(p), Rows) = x.linear + SumOver(Linears(p), Below(x))
         /\ \A k \in grid.mu :
              SumOver(Scores(p, k), Rows) = x.lag[k] + SumOver(Scores(p, k), Below(x))
<1> DEFINE r == x.path
           R == DOMAIN r
           B == Below(x)
           D == Rows
<1>1. /\ R \in SUBSET D /\ B \in SUBSET (D \ R) /\ R \cup B = D /\ IsFiniteSet(R)
      /\ R \in SUBSET R
  BY RowsSplit
<1>2. p \in Leaves /\ \A i \in R : p[i] = r[i]
  BY DEF Completions
<1>3. /\ IsFiniteSet(D) /\ Chosen(p) \in [D -> Int] /\ Linears(p) \in [D -> Int]
      /\ \A k \in grid.mu : Scores(p, k) \in [D -> Int]
  BY <1>2, LeafAssigns
<1>4. DOMAIN p = D
  BY <1>2, LeafAssigns
<1>5. /\ x.total = SumOver(Chosen(r), R) /\ x.linear = SumOver(Linears(r), R)
      /\ \A k \in grid.mu : x.lag[k] = SumOver(Scores(r, k), R)
  BY DEF Exact
<1>6. Total(p) = SumOver(Chosen(p), D)
  BY DEF Total
<1> HIDE DEF r, R, B, D
<1>7. ASSUME NEW f \in [D -> Int], NEW g, \A i \in R : f[i] = g[i]
      PROVE  SumOver(f, D) = SumOver(g, R) + SumOver(f, B)
  <2>1. SumOver(f, R) = SumOver(g, R)
    BY <1>1, <1>7, SumSame
  <2>2. SumOver(f, R \cup B) = SumOver(f, R) + SumOver(f, B)
    BY <1>1, <1>3, SumJoin
  <2> QED  BY <1>1, <2>1, <2>2
<1>8. \A i \in R : /\ Chosen(p)[i] = Chosen(r)[i] /\ Linears(p)[i] = Linears(r)[i]
                   /\ \A k \in grid.mu : Scores(p, k)[i] = Scores(r, k)[i]
  BY <1>1, <1>2, <1>4 DEF Chosen, Linears, Scores, R
<1>9. SumOver(Chosen(p), D) = SumOver(Chosen(r), R) + SumOver(Chosen(p), B)
  BY <1>3, <1>7, <1>8
<1>10. SumOver(Linears(p), D) = SumOver(Linears(r), R) + SumOver(Linears(p), B)
  BY <1>3, <1>7, <1>8
<1>11. ASSUME NEW k \in grid.mu
       PROVE  SumOver(Scores(p, k), D) = SumOver(Scores(r, k), R) + SumOver(Scores(p, k), B)
  <2>1. Scores(p, k) \in [D -> Int] /\ \A i \in R : Scores(p, k)[i] = Scores(r, k)[i]
    BY <1>3, <1>8
  <2> QED  BY <1>7, <2>1
<1> QED  BY <1>5, <1>6, <1>9, <1>10, <1>11 DEF B, D

(* The bounds of a node hold for every feasible assignment below it.        *)
LEMMA BoundsHold ==
  ASSUME Setting, NEW x, Exact(x), NEW p \in Completions(x), Feasible(p)
  PROVE  /\ LinearUpper(x) \in Int /\ LinearUpper(x) >= 0
         /\ \A lower \in CostLowers(x) :
              /\ lower \in Int
              /\ lower <= (IF search = "lagrangian" THEN grid.q ELSE 1) * Total(p)
<1> DEFINE B == Below(x)
           c == Chosen(p)
           l == Linears(p)
           minimum == [i \in Rows |-> RowMinCost(i)]
           maximum == [i \in Rows |-> RowMaxLinear(i)]
<1>1. /\ p \in Leaves /\ IsFiniteSet(Rows) /\ DOMAIN p = Rows
      /\ c \in [Rows -> Int] /\ l \in [Rows -> Int]
      /\ \A k \in grid.mu : Scores(p, k) \in [Rows -> Int]
      /\ \A i \in Rows : p[i] \in Methods(i)
  BY LeafAssigns DEF Completions
<1>2. B \in SUBSET Rows
  BY RowsSplit
<1>3. minimum \in [Rows -> Int] /\ maximum \in [Rows -> Int]
  BY RowBounds
<1>4. \A i \in Rows : minimum[i] <= c[i] /\ l[i] <= maximum[i]
  BY <1>1, RowBounds DEF Chosen, Linears
<1>5. MinCostSuffix(x) = SumOver(minimum, B) /\ MaxLinearSuffix(x) = SumOver(maximum, B)
  BY DEF MinCostSuffix, MaxLinearSuffix
<1>6. /\ Total(p) = x.total + SumOver(c, B)
      /\ SumOver(l, Rows) = x.linear + SumOver(l, B)
      /\ \A k \in grid.mu :
           SumOver(Scores(p, k), Rows) = x.lag[k] + SumOver(Scores(p, k), B)
  BY CompletionSums
<1>7. SumOver(l, Rows) >= 0 /\ SumOver(l, Rows) \in Int /\ Total(p) \in Int
  BY <1>1, FeasibleMeans
<1>8. /\ x.total \in Int /\ x.linear \in Int /\ \A k \in grid.mu : x.lag[k] \in Int
  BY DEF Exact, Nodes
<1>9. Total(p) = SumOver(c, Rows)
  BY DEF Total
<1> HIDE DEF B, c, l, minimum, maximum
<1>10. SumOver(minimum, B) <= SumOver(c, B) /\ SumOver(minimum, B) \in Int
       /\ SumOver(c, B) \in Int
  BY <1>1, <1>2, <1>3, <1>4, SumAtMost, SumType
<1>11. SumOver(l, B) <= SumOver(maximum, B) /\ SumOver(maximum, B) \in Int
       /\ SumOver(l, B) \in Int
  BY <1>1, <1>2, <1>3, <1>4, SumAtMost, SumType
<1>12. LinearUpper(x) \in Int /\ LinearUpper(x) >= 0
  BY <1>5, <1>6, <1>7, <1>8, <1>11 DEF LinearUpper
<1>13. x.total + MinCostSuffix(x) \in Int /\ x.total + MinCostSuffix(x) <= Total(p)
  BY <1>5, <1>6, <1>7, <1>8, <1>10
<1>14. ASSUME NEW k \in grid.mu
       PROVE  /\ x.lag[k] + LagrangianSuffix(x, k) \in Int
              /\ x.lag[k] + LagrangianSuffix(x, k) <= grid.q * Total(p)
  <2> DEFINE s == Scores(p, k)
             least == [i \in Rows |-> RowLower(i, k)]
  <2>1. s \in [Rows -> Int] /\ least \in [Rows -> Int]
    BY <1>1, RowLowerBounds
  <2>2. \A i \in Rows : least[i] <= s[i]
    BY <1>1, RowLowerBounds DEF Scores
  <2>3. LagrangianSuffix(x, k) = SumOver(least, B)
    BY DEF LagrangianSuffix, B
  <2>4. SumOver(s, Rows) = grid.q * SumOver(c, Rows) - k * SumOver(l, Rows)
    <3>1. Assigns(p, Len(costs)) /\ Rows \in SUBSET DOMAIN p
      BY <1>1, LeafAssigns
    <3> QED  BY <3>1, ScoreSum DEF c, l
  <2>5. SumOver(s, Rows) = x.lag[k] + SumOver(s, B)
    BY <1>6
  <2> HIDE DEF s, least
  <2>6. SumOver(least, B) <= SumOver(s, B) /\ SumOver(least, B) \in Int
        /\ SumOver(s, B) \in Int
    BY <1>1, <1>2, <2>1, <2>2, SumAtMost, SumType
  <2>7. k \in Nat /\ grid.q \in Nat
    BY DEF Setting
  <2>8. k * SumOver(l, Rows) \in Int /\ k * SumOver(l, Rows) >= 0
        /\ grid.q * Total(p) \in Int
    BY <1>7, <2>7
  <2>9. SumOver(s, Rows) = grid.q * Total(p) - k * SumOver(l, Rows)
    BY <1>9, <2>4
  <2> DEFINE a == grid.q * Total(p)
             b == k * SumOver(l, Rows)
  <2>10. a \in Int /\ b \in Int /\ b >= 0 /\ x.lag[k] + SumOver(s, B) = a - b
         /\ x.lag[k] \in Int
    BY <1>8, <2>5, <2>8, <2>9
  <2> HIDE DEF a, b
  <2>11. x.lag[k] + SumOver(least, B) <= a
    BY <2>6, <2>10
  <2> QED  BY <2>3, <2>6, <2>10, <2>11 DEF a
<1>15. ASSUME NEW lower \in CostLowers(x)
       PROVE  /\ lower \in Int
              /\ lower <= (IF search = "lagrangian" THEN grid.q ELSE 1) * Total(p)
  <2>1. CASE search = "lagrangian"
    <3>1. PICK k \in grid.mu : lower = x.lag[k] + LagrangianSuffix(x, k)
      BY <2>1 DEF CostLowers
    <3> QED  BY <1>14, <2>1, <3>1
  <2>2. CASE search # "lagrangian"
    <3>1. lower = x.total + MinCostSuffix(x)
      BY <2>2 DEF CostLowers
    <3>2. 1 * Total(p) = Total(p)
      BY <1>7
    <3> QED  BY <1>13, <2>2, <3>1, <3>2
  <2> QED  BY <2>1, <2>2
<1> QED  BY <1>12, <1>15

-----------------------------------------------------------------------------
(* The lexicographic order of the nodes: p leaves q at a smaller method.    *)
Before(p, q) ==
  \E i \in DOMAIN p \cap DOMAIN q : p[i] < q[i] /\ \A j \in 1..i - 1 : p[j] = q[j]

Extends(r, p) == \A i \in DOMAIN p : i \in DOMAIN r /\ r[i] = p[i]

InOrder(s) == \A a, b \in DOMAIN s : a < b => Before(s[a].path, s[b].path)

(* What extends the one does not extend the other, and is before it, too.   *)
LEMMA BeforeApart ==
  ASSUME NEW p \in Seq(1..3), NEW q \in Seq(1..3), Before(p, q),
         NEW r, Extends(r, p)
  PROVE  ~Extends(r, q) /\ Before(r, q)
<1>1. PICK i \in DOMAIN p \cap DOMAIN q : p[i] < q[i] /\ \A j \in 1..i - 1 : p[j] = q[j]
  BY DEF Before
<1>2. DOMAIN p = 1..Len(p) /\ Len(p) \in Nat /\ i \in 1..Len(p)
  BY LenProperties
<1>3. p[i] \in 1..3 /\ q[i] \in 1..3
  BY <1>1, ElementOfSeq, LenProperties
<1>4. i \in DOMAIN r /\ r[i] = p[i] /\ \A j \in 1..i - 1 : r[j] = p[j]
  BY <1>2 DEF Extends
<1>5. ~Extends(r, q)
  BY <1>1, <1>3, <1>4 DEF Extends
<1>6. Before(r, q)
  BY <1>1, <1>4 DEF Before
<1> QED  BY <1>5, <1>6

LEMMA BeforeAbove ==
  ASSUME NEW p \in Seq(1..3), NEW q \in Seq(1..3), Before(p, q),
         NEW r, Extends(r, q)
  PROVE  Before(p, r)
<1>1. PICK i \in DOMAIN p \cap DOMAIN q : p[i] < q[i] /\ \A j \in 1..i - 1 : p[j] = q[j]
  BY DEF Before
<1>2. DOMAIN q = 1..Len(q) /\ Len(q) \in Nat /\ i \in 1..Len(q)
  BY LenProperties
<1>3. i \in DOMAIN r /\ r[i] = q[i] /\ \A j \in 1..i - 1 : r[j] = q[j]
  BY <1>2 DEF Extends
<1> QED  BY <1>1, <1>3 DEF Before

(* Before is a strict order, and on complete assignments the one by which   *)
(* the preferences are stated.                                              *)
LEMMA BeforeIsLexLess ==
  ASSUME NEW p \in Seq(1..3), NEW q \in Seq(1..3), DOMAIN p = DOMAIN q, Before(p, q)
  PROVE  LexLess(p, q) /\ ~LexLess(q, p) /\ p # q
<1>1. PICK i \in DOMAIN p \cap DOMAIN q : p[i] < q[i] /\ \A j \in 1..i - 1 : p[j] = q[j]
  BY DEF Before
<1>2. \A j \in DOMAIN p : p[j] \in 1..3 /\ q[j] \in 1..3 /\ j \in Int
  BY ElementOfSeq, LenProperties
<1>3. LexLess(p, q)
  BY <1>1 DEF LexLess
<1>4. ASSUME LexLess(q, p)  PROVE FALSE
  <2>1. PICK k \in DOMAIN q : q[k] < p[k] /\ \A j \in 1..k - 1 : q[j] = p[j]
    BY <1>4 DEF LexLess
  <2>2. /\ i \in Int /\ k \in Int /\ i \in 1..Len(p) /\ k \in 1..Len(p)
        /\ p[i] \in Int /\ q[i] \in Int /\ p[k] \in Int /\ q[k] \in Int
    BY <1>2, LenProperties
  <2>3. CASE i < k
    <3>1. i \in 1..k - 1
      BY <2>2, <2>3
    <3> QED  BY <1>1, <2>1, <2>2, <3>1
  <2>4. CASE k < i
    <3>1. k \in 1..i - 1
      BY <2>2, <2>4
    <3> QED  BY <1>1, <2>1, <2>2, <3>1
  <2>5. CASE i = k
    BY <1>1, <2>1, <2>2, <2>5
  <2> QED  BY <2>2, <2>3, <2>4, <2>5
<1> QED  BY <1>1, <1>2, <1>3, <1>4

(* Sequences of nodes.                                                      *)
LEMMA HeadAndTail ==
  ASSUME NEW S, NEW s \in Seq(S), s # <<>>, InOrder(s)
  PROVE  /\ Head(s) \in ToSet(s) /\ Tail(s) \in Seq(S) /\ InOrder(Tail(s))
         /\ ToSet(s) = {Head(s)} \cup ToSet(Tail(s))
         /\ \A y \in ToSet(Tail(s)) : Before(Head(s).path, y.path)
<1> DEFINE t == Tail(s)
<1>1. /\ Head(s) \in S /\ t \in Seq(S) /\ Len(t) = Len(s) - 1 /\ Len(s) \in Nat
      /\ \A i \in 1..Len(t) : t[i] = s[i + 1]
  BY HeadTailProperties, LenProperties
<1>2. DOMAIN s = 1..Len(s) /\ DOMAIN t = 1..Len(t) /\ Head(s) = s[1] /\ Len(s) # 0
  BY <1>1, LenProperties, EmptySeq
<1> HIDE DEF t
<1>3. /\ 1 \in DOMAIN s /\ \A i \in DOMAIN t : i + 1 \in DOMAIN s /\ 1 < i + 1 /\ t[i] = s[i + 1]
      /\ \A i \in DOMAIN s : i = 1 \/ (i - 1 \in DOMAIN t /\ t[i - 1] = s[i])
  BY <1>1, <1>2
<1>4. InOrder(t)
  <2> SUFFICES ASSUME NEW a \in DOMAIN t, NEW b \in DOMAIN t, a < b
               PROVE  Before(t[a].path, t[b].path)
    BY DEF InOrder
  <2>1. a + 1 < b + 1
    BY <1>2
  <2> QED  BY <1>3, <2>1 DEF InOrder
<1>5. ToSet(s) = {Head(s)} \cup ToSet(t)
  <2>1. ASSUME NEW y \in ToSet(s)  PROVE y \in {Head(s)} \cup ToSet(t)
    <3>1. PICK i \in DOMAIN s : y = s[i]
      BY DEF ToSet
    <3> QED  BY <1>2, <1>3, <3>1 DEF ToSet
  <2>2. ASSUME NEW y \in {Head(s)} \cup ToSet(t)  PROVE y \in ToSet(s)
    BY <1>2, <1>3 DEF ToSet
  <2> QED  BY <2>1, <2>2
<1>6. ASSUME NEW y \in ToSet(t)  PROVE Before(Head(s).path, y.path)
  <2>1. PICK i \in DOMAIN t : y = t[i]
    BY DEF ToSet
  <2> QED  BY <1>2, <1>3, <2>1 DEF InOrder
<1> QED  BY <1>1, <1>4, <1>5, <1>6 DEF t

LEMMA Joined ==
  ASSUME NEW S, NEW s \in Seq(S), NEW t \in Seq(S), InOrder(s), InOrder(t),
         \A x \in ToSet(s) : \A y \in ToSet(t) : Before(x.path, y.path)
  PROVE  /\ s \o t \in Seq(S) /\ InOrder(s \o t)
         /\ ToSet(s \o t) = ToSet(s) \cup ToSet(t)
<1> DEFINE u == s \o t
           n == Len(s)
           k == Len(t)
<1>1. /\ u \in Seq(S) /\ Len(u) = n + k /\ n \in Nat /\ k \in Nat
      /\ \A i \in 1..n + k : u[i] = IF i <= n THEN s[i] ELSE t[i - n]
  BY ConcatProperties, LenProperties
<1>2. DOMAIN u = 1..n + k /\ DOMAIN s = 1..n /\ DOMAIN t = 1..k
  BY <1>1, LenProperties
<1> HIDE DEF u, n, k
<1>3. \A i \in DOMAIN u : \/ i \in DOMAIN s /\ u[i] = s[i] /\ i <= n
                          \/ i - n \in DOMAIN t /\ u[i] = t[i - n] /\ i > n
  BY <1>1, <1>2
<1>4. /\ \A i \in DOMAIN s : i \in DOMAIN u /\ u[i] = s[i]
      /\ \A i \in DOMAIN t : i + n \in DOMAIN u /\ u[i + n] = t[i]
  <2>1. ASSUME NEW i \in DOMAIN t  PROVE i + n \in DOMAIN u /\ u[i + n] = t[i]
    <3>1. i + n \in 1..n + k /\ ~(i + n <= n) /\ (i + n) - n = i
      BY <1>1, <1>2
    <3> QED  BY <1>1, <1>2, <3>1
  <2>2. ASSUME NEW i \in DOMAIN s  PROVE i \in DOMAIN u /\ u[i] = s[i]
    <3>1. i \in 1..n + k /\ i <= n
      BY <1>1, <1>2
    <3> QED  BY <1>1, <1>2, <3>1
  <2> QED  BY <2>1, <2>2
<1>5. ToSet(u) = ToSet(s) \cup ToSet(t)
  BY <1>3, <1>4 DEF ToSet
<1>6. InOrder(u)
  <2> SUFFICES ASSUME NEW a \in DOMAIN u, NEW b \in DOMAIN u, a < b
               PROVE  Before(u[a].path, u[b].path)
    BY DEF InOrder
  <2>0. a \in Int /\ b \in Int /\ n \in Int
    BY <1>1, <1>2
  <2>1. CASE b <= n
    <3>1. a \in DOMAIN s /\ b \in DOMAIN s /\ u[a] = s[a] /\ u[b] = s[b]
      BY <1>3, <2>0, <2>1
    <3> QED  BY <3>1 DEF InOrder
  <2>2. CASE a <= n /\ ~(b <= n)
    <3>1. a \in DOMAIN s /\ b - n \in DOMAIN t /\ u[a] = s[a] /\ u[b] = t[b - n]
      BY <1>3, <2>0, <2>2
    <3> QED  BY <3>1 DEF ToSet
  <2>3. CASE ~(a <= n)
    <3>1. /\ a - n \in DOMAIN t /\ b - n \in DOMAIN t /\ a - n < b - n
          /\ u[a] = t[a - n] /\ u[b] = t[b - n]
      BY <1>3, <2>0, <2>3
    <3> QED  BY <3>1 DEF InOrder
  <2> QED  BY <2>0, <2>1, <2>2, <2>3
<1> QED  BY <1>1, <1>5, <1>6 DEF u

-----------------------------------------------------------------------------
(* What lies below a node.                                                  *)
LEMMA CompletionExtends ==
  ASSUME Setting, NEW x, Exact(x), NEW p
  PROVE  p \in Completions(x) <=> p \in Leaves /\ Extends(p, x.path)
<1>1. DOMAIN x.path \in SUBSET Rows
  BY RowsSplit
<1>2. p \in Leaves => DOMAIN p = Rows
  BY LeafAssigns
<1> QED  BY <1>1, <1>2 DEF Completions, Extends

(* Below a complete assignment there is nothing but itself.                 *)
LEMMA LeafValues ==
  ASSUME Setting, NEW x, Exact(x), IsLeaf(x)
  PROVE  /\ x.path \in Seq(1..3) /\ x.path \in Leaves /\ DOMAIN x.path = Rows
         /\ Completions(x) = {x.path}
         /\ x.total = Total(x.path) /\ x.c3 = C3(x.path) /\ x.c12 = C12(x.path)
         /\ Feasible(x.path) <=> x.c3 > 0 /\ x.linear >= 0
<1> DEFINE p == x.path
<1>1. p \in Seq(1..3) /\ Assigns(p, Len(costs)) /\ Len(p) = Len(costs)
  BY DEF Exact, Nodes, IsLeaf
<1>2. DOMAIN p = Rows /\ p \in [Rows -> 1..3] /\ \A i \in Rows : p[i] \in Methods(i)
  <2> HIDE DEF p
  <2> QED  BY <1>1, LenProperties DEF Assigns, Rows
<1>3. p \in Leaves
  BY <1>2 DEF Leaves
<1>4. ASSUME NEW q \in Completions(x)  PROVE q = p
  <2>1. q \in [Rows -> 1..3] /\ \A i \in Rows : q[i] = p[i]
    BY <1>2 DEF Completions, Leaves
  <2> QED  BY <1>2, <2>1
<1>5. p \in Completions(x)
  BY <1>3 DEF Completions
<1>6. x.total = Total(p) /\ x.c3 = C3(p) /\ x.linear = SumOver(Linears(p), Rows)
      /\ x.c12 = x.total - x.c3
  BY <1>2 DEF Exact, Total, C3
<1>7. x.c12 = C12(p) /\ (Feasible(p) <=> x.c3 > 0 /\ x.linear >= 0)
  BY <1>3, <1>6, FeasibleMeans
<1> QED  BY <1>1, <1>2, <1>3, <1>4, <1>5, <1>6, <1>7

LEMMA ChildBelow ==
  ASSUME Setting, NEW x, Exact(x), ~IsLeaf(x)
  PROVE  /\ \A m \in Methods(Len(x.path) + 1) :
              /\ Exact(Child(x, m)) /\ Child(x, m) \in Nodes
              /\ Extends(Child(x, m).path, x.path)
              /\ Completions(Child(x, m)) \subseteq Completions(x)
         /\ \A p \in Completions(x) : \E m \in Methods(Len(x.path) + 1) :
              p \in Completions(Child(x, m))
<1> DEFINE r == x.path
           n == Len(r)
<1>1. r \in Seq(1..3) /\ Assigns(r, n) /\ n # Len(costs)
  BY DEF Exact, Nodes, IsLeaf
<1>2. ASSUME NEW m \in Methods(n + 1)
      PROVE  /\ Exact(Child(x, m)) /\ Child(x, m).path = Append(r, m)
             /\ n + 1 \in Rows /\ DOMAIN r = 1..n /\ DOMAIN Append(r, m) = 1..n + 1
             /\ \A i \in 1..n : Append(r, m)[i] = r[i] /\ i \in 1..n + 1
             /\ Append(r, m)[n + 1] = m
  <2>1. Exact(Child(x, m)) /\ Child(x, m).path = Append(r, m)
    BY ChildExact
  <2>2. n \in Nat
    BY <1>1, LenProperties
  <2>3. \A i \in 1..n : i \in 1..n + 1
    BY <2>2
  <2> HIDE DEF r
  <2> QED  BY <1>1, <2>1, <2>3, AppendAssigns
<1>3. ASSUME NEW m \in Methods(n + 1)
      PROVE  /\ Exact(Child(x, m)) /\ Child(x, m) \in Nodes
             /\ Extends(Child(x, m).path, r)
             /\ Completions(Child(x, m)) \subseteq Completions(x)
  <2>1. Exact(Child(x, m)) /\ Extends(Child(x, m).path, r)
    BY <1>2 DEF Extends
  <2>2. ASSUME NEW p \in Completions(Child(x, m))  PROVE p \in Completions(x)
    <3>1. p \in Leaves /\ Extends(p, Child(x, m).path)
      BY <2>1, CompletionExtends
    <3>2. Extends(p, r)
      BY <2>1, <3>1 DEF Extends
    <3> QED  BY <3>1, <3>2, CompletionExtends
  <2> QED  BY <2>1, <2>2 DEF Exact
<1>4. ASSUME NEW p \in Completions(x)
      PROVE  \E m \in Methods(n + 1) : p \in Completions(Child(x, m))
  <2>1. p \in Leaves /\ Extends(p, r)
    BY CompletionExtends
  <2>2. n + 1 \in Rows /\ n \in Nat
    <3>1. n \in 0..Len(costs) /\ Len(costs) \in Nat
      BY <1>1, RowsAreFinite DEF Assigns
    <3> HIDE DEF n
    <3> QED  BY <1>1, <3>1 DEF Rows
  <2>3. p[n + 1] \in Methods(n + 1) /\ DOMAIN p = Rows
    BY <2>1, <2>2, LeafAssigns
  <2> DEFINE m == p[n + 1]
             c == Child(x, m)
  <2>4. /\ Exact(c) /\ c.path = Append(r, m) /\ DOMAIN r = 1..n
        /\ DOMAIN Append(r, m) = 1..n + 1 /\ Append(r, m)[n + 1] = m
        /\ \A i \in 1..n : Append(r, m)[i] = r[i]
    <3>1. m \in Methods(n + 1)
      BY <2>3
    <3> HIDE DEF n, r, m
    <3> QED  BY <1>2, <3>1
  <2>5. Extends(p, Append(r, m))
    <3> SUFFICES ASSUME NEW i \in 1..n + 1
                 PROVE  i \in DOMAIN p /\ p[i] = Append(r, m)[i]
      BY <2>4 DEF Extends
    <3>1. CASE i = n + 1
      BY <2>2, <2>3, <2>4, <3>1
    <3>2. CASE i # n + 1
      <4>1. i \in 1..n
        BY <2>2, <3>2
      <4> QED  BY <2>1, <2>4, <4>1 DEF Extends
    <3> QED  BY <3>1, <3>2
  <2>6. p \in Completions(c)
    <3> HIDE DEF c
    <3> QED  BY <2>1, <2>4, <2>5, CompletionExtends
  <2> QED  BY <2>3, <2>6
<1> QED  BY <1>3, <1>4

LEMMA ChildrenInOrder ==
  ASSUME Setting, NEW x, Exact(x), ~IsLeaf(x)
  PROVE  /\ Children(x) \in Seq(Nodes) /\ InOrder(Children(x))
         /\ ToSet(Children(x)) = {Child(x, m) : m \in Methods(Len(x.path) + 1)}
<1> DEFINE r == x.path
           n == Len(r)
           M == Methods(n + 1)
<1>1. r \in Seq(1..3) /\ Assigns(r, n) /\ n # Len(costs)
  BY DEF Exact, Nodes, IsLeaf
<1>2. \A m \in M : Child(x, m) \in Nodes /\ Child(x, m).path = Append(r, m)
  BY ChildExact DEF Exact
<1>3. ASSUME NEW a \in M, NEW b \in M, a < b
      PROVE  Before(Child(x, a).path, Child(x, b).path)
  <2>1. ASSUME NEW m \in M
        PROVE  /\ n + 1 \in DOMAIN Append(r, m) /\ Append(r, m)[n + 1] = m
               /\ \A j \in 1..n : Append(r, m)[j] = r[j]
    <3>1. n \in Nat /\ n + 1 \in 1..n + 1
      BY <1>1, LenProperties
    <3> HIDE DEF r
    <3> QED  BY <1>1, <3>1, AppendAssigns
  <2>2. (n + 1) - 1 = n
    BY <1>1, LenProperties
  <2>3. \A j \in 1..(n + 1) - 1 : Append(r, a)[j] = Append(r, b)[j]
    BY <2>1, <2>2
  <2> HIDE DEF M
  <2> QED  BY <1>2, <1>3, <2>1, <2>3 DEF Before
<1>4. \A m : m \in M => m \in 1..3
  BY DEF Methods
<1> HIDE DEF M
<1>5. ASSUME NEW m \in 1..3
      PROVE  /\ Offer(x, m) \in Seq(Nodes) /\ InOrder(Offer(x, m))
             /\ ToSet(Offer(x, m)) = {Child(x, k) : k \in M \cap {m}}
  <2>1. CASE m \in M
    <3> DEFINE s == Offer(x, m)
               c == Child(x, m)
    <3>1. s = <<c>> /\ c \in Nodes
      BY <1>2, <2>1 DEF Offer, M
    <3> HIDE DEF c, s
    <3>2. s \in Seq(Nodes) /\ DOMAIN s = {1} /\ s[1] = c
      BY <3>1
    <3>3. InOrder(s)
      <4> SUFFICES ASSUME NEW a \in DOMAIN s, NEW b \in DOMAIN s, a < b  PROVE FALSE
        BY DEF InOrder
      <4> QED  BY <3>2
    <3>4. ToSet(s) = {c}
      BY <3>2 DEF ToSet
    <3>5. M \cap {m} = {m}
      BY <2>1
    <3> QED  BY <3>2, <3>3, <3>4, <3>5 DEF s, c
  <2>2. CASE m \notin M
    <3>1. Offer(x, m) = <<>> /\ M \cap {m} = {}
      BY <2>2 DEF Offer, M
    <3>2. InOrder(<<>>) /\ ToSet(<<>>) = {} /\ <<>> \in Seq(Nodes)
      BY DEF InOrder, ToSet
    <3> QED  BY <3>1, <3>2
  <2> QED  BY <2>1, <2>2
<1> DEFINE Of(K) == {Child(x, k) : k \in M \cap K}
<1>6. ASSUME NEW K, NEW L, NEW s \in Seq(Nodes), NEW t \in Seq(Nodes),
             InOrder(s), InOrder(t), ToSet(s) = Of(K), ToSet(t) = Of(L),
             \A a \in K : \A b \in L : a < b
      PROVE  s \o t \in Seq(Nodes) /\ InOrder(s \o t) /\ ToSet(s \o t) = Of(K \cup L)
  <2>1. \A y \in Of(K) : \A z \in Of(L) : Before(y.path, z.path)
    BY <1>3, <1>6
  <2>2. s \o t \in Seq(Nodes) /\ InOrder(s \o t) /\ ToSet(s \o t) = ToSet(s) \cup ToSet(t)
    BY <1>6, <2>1, Joined
  <2>3. Of(K) \cup Of(L) = Of(K \cup L)
    OBVIOUS
  <2> QED  BY <1>6, <2>2, <2>3
<1>7. \A m \in 1..3 : /\ Offer(x, m) \in Seq(Nodes) /\ InOrder(Offer(x, m))
                      /\ ToSet(Offer(x, m)) = Of({m})
  BY <1>5
<1> HIDE DEF Of
<1>8. /\ Offer(x, 1) \o Offer(x, 2) \in Seq(Nodes) /\ InOrder(Offer(x, 1) \o Offer(x, 2))
      /\ ToSet(Offer(x, 1) \o Offer(x, 2)) = Of({1} \cup {2})
  <2>1. \A a \in {1} : \A b \in {2} : a < b
    OBVIOUS
  <2>2. 1 \in 1..3 /\ 2 \in 1..3
    OBVIOUS
  <2> QED  BY <1>6, <1>7, <2>1, <2>2
<1>9. /\ Children(x) \in Seq(Nodes) /\ InOrder(Children(x))
      /\ ToSet(Children(x)) = Of(({1} \cup {2}) \cup {3})
  <2> DEFINE K == {1} \cup {2}
             L == {3}
             s == Offer(x, 1) \o Offer(x, 2)
             t == Offer(x, 3)
  <2>1. \A a \in K : \A b \in L : a < b
    OBVIOUS
  <2>2. s \in Seq(Nodes) /\ InOrder(s) /\ ToSet(s) = Of(K)
    BY <1>8
  <2>3. t \in Seq(Nodes) /\ InOrder(t) /\ ToSet(t) = Of(L)
    BY <1>7, 3 \in 1..3
  <2>4. Children(x) = s \o t
    BY DEF Children
  <2> HIDE DEF s, t, K, L
  <2>5. s \o t \in Seq(Nodes) /\ InOrder(s \o t) /\ ToSet(s \o t) = Of(K \cup L)
    BY <1>6, <2>1, <2>2, <2>3
  <2> QED  BY <2>4, <2>5 DEF K, L
<1>10. Of(({1} \cup {2}) \cup {3}) = {Child(x, m) : m \in M}
  <2>1. M \cap (({1} \cup {2}) \cup {3}) = M
    BY <1>4
  <2> QED  BY <2>1 DEF Of
<1> QED  BY <1>9, <1>10 DEF M

-----------------------------------------------------------------------------
(* The invariant of the search, for the nodes t still to be visited and the *)
(* incumbent i.                                                             *)
Done(S) == {p \in Leaves : \A x \in S : p \notin Completions(x)}

Sorted(t) == /\ t \in Seq(Nodes) /\ InOrder(t)
             /\ \A x \in ToSet(t) : Exact(x)

IsSolution(i) ==
  /\ i # None /\ i.path \in Seq(1..3) /\ i.path \in Leaves
  /\ i.total = Total(i.path) /\ i.c12 = C12(i.path) /\ i.c3 = C3(i.path)

Behind(i, t) ==
  i # None => IsSolution(i) /\ \A x \in ToSet(t) : Before(i.path, x.path)

BestOf(i, S) ==
  search # "enumerate" =>
    IF i = None THEN \A p \in S : ~Feasible(p) ELSE IsBestOf(i.path, S)

PositiveCosts == \A i \in Rows : \A m \in Methods(i) : costs[i][m] > 0

CheapestOf(i, S) ==
  search = "enumerate" /\ PositiveCosts =>
    IF i = None THEN \A p \in S : ~Feasible(p)
    ELSE /\ Feasible(i.path)
         /\ \A p \in S \ {i.path} : Feasible(p) =>
              \/ Total(i.path) < Total(p)
              \/ Total(i.path) = Total(p) /\ LexLess(i.path, p)

Sound(t, i) ==
  /\ Sorted(t) /\ Behind(i, t)
  /\ BestOf(i, Done(ToSet(t))) /\ CheapestOf(i, Done(ToSet(t)))

SearchInv == Setting /\ Sound(todo, incumbent)

(* A search that begins has settled nothing.                                *)
Fresh == Setting /\ todo = <<Root>> /\ incumbent = None

LEMMA FreshIsSound == Fresh => SearchInv
<1> SUFFICES ASSUME Fresh  PROVE SearchInv
  OBVIOUS
<1>1. Setting /\ todo = <<Root>> /\ incumbent = None /\ Exact(Root) /\ Root \in Nodes
  BY RootExact DEF Fresh, Exact
<1> DEFINE t == <<Root>>
<1>2. t \in Seq(Nodes) /\ DOMAIN t = {1} /\ t[1] = Root /\ ToSet(t) = {Root}
  <2> HIDE DEF Root
  <2>1. t \in Seq(Nodes) /\ DOMAIN t = {1} /\ t[1] = Root
    BY <1>1
  <2> HIDE DEF t
  <2> QED  BY <2>1 DEF ToSet
<1> HIDE DEF t
<1>3. InOrder(t)
  <2> SUFFICES ASSUME NEW a \in DOMAIN t, NEW b \in DOMAIN t, a < b  PROVE FALSE
    BY DEF InOrder
  <2> QED  BY <1>2
<1>4. Sorted(t)
  BY <1>1, <1>2, <1>3 DEF Sorted
<1>5. Done(ToSet(t)) = {}
  <2>1. \A p \in Leaves : p \in Completions(Root)
    BY DEF Completions, Root
  <2> QED  BY <1>2, <2>1 DEF Done
<1>6. Sound(t, None)
  BY <1>4, <1>5 DEF Sound, Behind, BestOf, CheapestOf
<1> QED  BY <1>1, <1>6 DEF SearchInv, t

LEMMA FreshIsSoundNext == Fresh' => SearchInv'
BY FreshIsSound, PTL

(* The next node, and what the search knows when it has come to it.         *)
LEMMA NextNode ==
  ASSUME SearchInv, todo # <<>>
  PROVE  LET x == Head(todo)
             t == Tail(todo)
         IN  /\ x \in ToSet(todo) /\ Exact(x) /\ Sorted(t) /\ Behind(incumbent, t)
             /\ ToSet(todo) = {x} \cup ToSet(t)
             /\ \A y \in ToSet(t) : Before(x.path, y.path)
             /\ \A y \in ToSet(t) : \A p \in Completions(x) : p \notin Completions(y)
             /\ Done(ToSet(t)) = Done(ToSet(todo)) \cup Completions(x)
             /\ incumbent # None => IsSolution(incumbent) /\ Before(incumbent.path, x.path)
<1> DEFINE x == Head(todo)
           t == Tail(todo)
<1>1. /\ Setting /\ todo \in Seq(Nodes) /\ InOrder(todo) /\ Behind(incumbent, todo)
      /\ \A y \in ToSet(todo) : Exact(y)
  BY DEF SearchInv, Sound, Sorted
<1>2. /\ x \in ToSet(todo) /\ t \in Seq(Nodes) /\ InOrder(t)
      /\ ToSet(todo) = {x} \cup ToSet(t)
      /\ \A y \in ToSet(t) : Before(x.path, y.path)
  BY <1>1, HeadAndTail
<1> HIDE DEF x, t
<1>3. Exact(x) /\ Sorted(t) /\ Behind(incumbent, t)
  BY <1>1, <1>2 DEF Sorted, Behind
<1>4. ASSUME NEW y \in ToSet(t), NEW p \in Completions(x)  PROVE p \notin Completions(y)
  <2>1. Exact(y) /\ Before(x.path, y.path)
    BY <1>1, <1>2
  <2>2. x.path \in Seq(1..3) /\ y.path \in Seq(1..3)
    BY <1>3, <2>1 DEF Exact, Nodes
  <2>3. Extends(p, x.path)
    BY <1>1, <1>3, CompletionExtends
  <2>4. ~Extends(p, y.path)
    BY <2>1, <2>2, <2>3, BeforeApart
  <2> QED  BY <1>1, <2>1, <2>4, CompletionExtends
<1>5. Completions(x) \subseteq Leaves
  BY DEF Completions
<1>6. Done(ToSet(t)) = Done(ToSet(todo)) \cup Completions(x)
  BY <1>2, <1>4, <1>5 DEF Done
<1>7. incumbent # None => IsSolution(incumbent) /\ Before(incumbent.path, x.path)
  BY <1>1, <1>2 DEF Behind
<1> QED  BY <1>2, <1>3, <1>4, <1>6, <1>7 DEF x, t

(* Nothing that could win is below a node that is pruned.                   *)
LEMMA PruneIsSound ==
  ASSUME SearchInv, todo # <<>>, search # "enumerate", Prune(Head(todo))
  PROVE  Sound(Tail(todo), incumbent)
<1> DEFINE x == Head(todo)
           S == Done(ToSet(todo))
           T == Done(ToSet(Tail(todo)))
<1>1. /\ Setting /\ Exact(x) /\ Sorted(Tail(todo)) /\ Behind(incumbent, Tail(todo))
      /\ T = S \cup Completions(x)
      /\ incumbent # None => IsSolution(incumbent)
  BY NextNode DEF SearchInv
<1>2. BestOf(incumbent, S)
  BY DEF SearchInv, Sound
<1>3. Prune(x)
  OBVIOUS
<1> HIDE DEF x, S, T
<1>4. ASSUME NEW p \in Completions(x), Feasible(p)
      PROVE  incumbent # None /\ Total(incumbent.path) < Total(p)
  <2>1. /\ LinearUpper(x) \in Int /\ LinearUpper(x) >= 0
        /\ \A lower \in CostLowers(x) :
             /\ lower \in Int
             /\ lower <= (IF search = "lagrangian" THEN grid.q ELSE 1) * Total(p)
    BY <1>1, <1>4, BoundsHold
  <2>2. ~(LinearUpper(x) < 0)
    BY <2>1
  <2>3. incumbent # None /\ \E lower \in CostLowers(x) : lower > PruneIncumbent
    BY <1>3, <2>2 DEF Prune
  <2>4. PICK lower \in CostLowers(x) : lower > PruneIncumbent
    BY <2>3
  <2> DEFINE q == IF search = "lagrangian" THEN grid.q ELSE 1
             a == Total(incumbent.path)
             b == Total(p)
  <2>5. q \in Nat /\ a \in Int /\ b \in Int
    <3>1. q \in Nat
      BY <1>1 DEF Setting
    <3>2. incumbent.path \in Leaves /\ p \in Leaves
      BY <1>1, <2>3 DEF IsSolution, Completions
    <3> QED  BY <1>1, <3>1, <3>2, FeasibleMeans
  <2>6. PruneIncumbent = q * a
    <3>1. incumbent.total = a
      BY <1>1, <2>3 DEF IsSolution
    <3>2. 1 * a = a
      BY <2>5
    <3> QED  BY <3>1, <3>2 DEF PruneIncumbent
  <2>7. lower \in Int /\ lower <= q * b
    BY <2>1
  <2> HIDE DEF q, a, b
  <2>8. q * a < q * b
    <3>1. q * a \in Int /\ q * b \in Int
      BY <2>5
    <3> QED  BY <2>4, <2>6, <2>7, <3>1
  <2>9. a < b
    <3> SUFFICES ASSUME b <= a  PROVE FALSE
      BY <2>5
    <3>1. q * b <= q * a
      BY <2>5
    <3> QED  BY <2>5, <2>8, <3>1
  <2> QED  BY <2>3, <2>9 DEF a, b
<1>5. BestOf(incumbent, T)
  BY <1>1, <1>2, <1>4 DEF BestOf, IsBestOf, Preferred
<1>6. CheapestOf(incumbent, T)
  BY DEF CheapestOf
<1> QED  BY <1>1, <1>5, <1>6 DEF Sound, T

(* The children of a node take its place.                                   *)
LEMMA InnerIsSound ==
  ASSUME SearchInv, todo # <<>>, ~IsLeaf(Head(todo))
  PROVE  Sound(Children(Head(todo)) \o Tail(todo), incumbent)
<1> DEFINE x == Head(todo)
           t == Tail(todo)
           c == Children(x)
           u == c \o t
           M == Methods(Len(x.path) + 1)
<1>1. /\ Setting /\ Exact(x) /\ Sorted(t) /\ Behind(incumbent, t) /\ ~IsLeaf(x)
      /\ ToSet(todo) = {x} \cup ToSet(t)
      /\ \A y \in ToSet(t) : Before(x.path, y.path)
      /\ incumbent # None => IsSolution(incumbent) /\ Before(incumbent.path, x.path)
  BY NextNode DEF SearchInv
<1>2. BestOf(incumbent, Done(ToSet(todo))) /\ CheapestOf(incumbent, Done(ToSet(todo)))
  BY DEF SearchInv, Sound
<1>3. c \in Seq(Nodes) /\ InOrder(c) /\ ToSet(c) = {Child(x, m) : m \in M}
  BY <1>1, ChildrenInOrder
<1>4. /\ \A m \in M : /\ Exact(Child(x, m)) /\ Extends(Child(x, m).path, x.path)
                      /\ Completions(Child(x, m)) \subseteq Completions(x)
      /\ \A p \in Completions(x) : \E m \in M : p \in Completions(Child(x, m))
  BY <1>1, ChildBelow
<1> HIDE DEF x, t, c, M
<1>5. \A z \in ToSet(c) : /\ Exact(z) /\ Extends(z.path, x.path)
                          /\ Completions(z) \subseteq Completions(x)
  BY <1>3, <1>4
<1>6. \A z : Exact(z) => z.path \in Seq(1..3)
  BY DEF Exact, Nodes
<1>7. \A z \in ToSet(c) : \A y \in ToSet(t) : Before(z.path, y.path)
  <2> SUFFICES ASSUME NEW z \in ToSet(c), NEW y \in ToSet(t)
               PROVE  Before(z.path, y.path)
    OBVIOUS
  <2>1. x.path \in Seq(1..3) /\ y.path \in Seq(1..3)
    BY <1>1, <1>6 DEF Sorted
  <2>2. Before(x.path, y.path) /\ Extends(z.path, x.path)
    BY <1>1, <1>5
  <2> QED  BY <2>1, <2>2, BeforeApart
<1>8. u \in Seq(Nodes) /\ InOrder(u) /\ ToSet(u) = ToSet(c) \cup ToSet(t)
  <2>1. t \in Seq(Nodes) /\ InOrder(t)
    BY <1>1 DEF Sorted
  <2> QED  BY <1>3, <1>7, <2>1, Joined
<1> HIDE DEF u
<1>9. Sorted(u)
  BY <1>1, <1>5, <1>8 DEF Sorted
<1>10. Behind(incumbent, u)
  <2> SUFFICES ASSUME incumbent # None
               PROVE  /\ IsSolution(incumbent)
                      /\ \A y \in ToSet(u) : Before(incumbent.path, y.path)
    BY DEF Behind
  <2>1. IsSolution(incumbent) /\ Before(incumbent.path, x.path)
    BY <1>1
  <2>2. \A y \in ToSet(t) : Before(incumbent.path, y.path)
    BY <1>1 DEF Behind
  <2>3. ASSUME NEW z \in ToSet(c)  PROVE Before(incumbent.path, z.path)
    <3>1. incumbent.path \in Seq(1..3) /\ x.path \in Seq(1..3) /\ Extends(z.path, x.path)
      BY <1>1, <1>5, <1>6, <2>1 DEF IsSolution
    <3> QED  BY <2>1, <3>1, BeforeAbove
  <2> QED  BY <1>8, <2>1, <2>2, <2>3
<1>11. Done(ToSet(u)) = Done(ToSet(todo))
  <2>1. ASSUME NEW p \in Leaves
        PROVE  (\A z \in ToSet(c) : p \notin Completions(z)) <=> p \notin Completions(x)
    BY <1>3, <1>4, <1>5
  <2> QED  BY <1>1, <1>8, <2>1 DEF Done
<1> QED  BY <1>2, <1>9, <1>10, <1>11 DEF Sound, u, c, t, x

-----------------------------------------------------------------------------
(* Complete assignments.                                                    *)
LEMMA LeafPreference ==
  ASSUME Setting, NEW x, Exact(x), IsLeaf(x), NEW i, IsSolution(i),
         Before(i.path, x.path)
  PROVE  /\ Preferred(x.path, i.path)
              <=> x.total < i.total \/ (x.total = i.total /\ x.c12 < i.c12)
         /\ Preferred(i.path, x.path) <=> ~Preferred(x.path, i.path)
         /\ LexLess(i.path, x.path) /\ x.path # i.path
<1>1. /\ x.path \in Seq(1..3) /\ x.path \in Leaves /\ DOMAIN x.path = Rows
      /\ x.total = Total(x.path) /\ x.c12 = C12(x.path)
  BY LeafValues
<1>2. /\ i.path \in Seq(1..3) /\ i.path \in Leaves /\ DOMAIN i.path = Rows
      /\ i.total = Total(i.path) /\ i.c12 = C12(i.path)
  BY LeafAssigns DEF IsSolution
<1>3. LexLess(i.path, x.path) /\ ~LexLess(x.path, i.path) /\ i.path # x.path
  BY <1>1, <1>2, BeforeIsLexLess
<1>4. \A p \in Leaves : Total(p) \in Int /\ C12(p) \in Int
  BY FeasibleMeans
<1> QED  BY <1>1, <1>2, <1>3, <1>4 DEF Preferred

(* Feasible assignments cost something. *)
LEMMA FeasibleCosts ==
  ASSUME Setting, NEW p \in Leaves
  PROVE  /\ C12(p) \in Int /\ C12(p) >= 0 /\ C3(p) >= 0
         /\ Feasible(p) => Total(p) > 0
<1>1. /\ IsFiniteSet(Rows) /\ Chosen(p) \in [Rows -> Int] /\ DOMAIN p = Rows
      /\ \A i \in Rows : Chosen(p)[i] >= 0
  <2>1. Assigns(p, Len(costs)) /\ DOMAIN p = Rows /\ IsFiniteSet(Rows)
        /\ Chosen(p) \in [Rows -> Int]
    BY LeafAssigns
  <2>2. \A i \in Rows : Chosen(p)[i] \in Nat
    BY <2>1, ChosenTypes
  <2> QED  BY <2>1, <2>2
<1>2. Others(p, Rows) \in SUBSET Rows /\ Threes(p, Rows) \in SUBSET Rows
  BY DEF Others, Threes
<1>3. C12(p) = SumOver(Chosen(p), Others(p, Rows)) /\ C3(p) = SumOver(Chosen(p), Threes(p, Rows))
  BY DEF C12, C3, Others
<1>4. C12(p) >= 0 /\ C3(p) >= 0
  BY <1>1, <1>2, <1>3, SumNatural
<1>5. Total(p) \in Int /\ C3(p) \in Int /\ C12(p) = Total(p) - C3(p)
      /\ (Feasible(p) => C3(p) > 0)
  BY FeasibleMeans
<1> QED  BY <1>4, <1>5

(* A leaf wins when it is feasible and preferred to the incumbent; both     *)
(* tests of the branch-and-bound searches say so.                           *)
Wins(x) == /\ Feasible(x.path)
           /\ incumbent = None \/ Preferred(x.path, incumbent.path)

LEMMA AcceptMeansWins ==
  ASSUME Setting, NEW x, Exact(x), IsLeaf(x),
         incumbent # None => /\ IsSolution(incumbent) /\ Feasible(incumbent.path)
                             /\ Before(incumbent.path, x.path)
  PROVE  (Accept(x) <=> Wins(x)) /\ (PlainAccept(x) <=> Wins(x))
<1>1. Feasible(x.path) <=> x.c3 > 0 /\ x.linear >= 0
  BY LeafValues
<1>2. incumbent # None =>
        (Preferred(x.path, incumbent.path)
           <=> \/ x.total < incumbent.total
               \/ x.total = incumbent.total /\ x.c12 < incumbent.c12)
  BY LeafPreference
<1>3. Accept(x) <=> Wins(x)
  BY <1>1, <1>2 DEF Accept, Wins, Better
<1>4. ASSUME Feasible(x.path)  PROVE x.c12 + x.c3 > 0
  <2>1. /\ x.path \in Leaves /\ x.c12 = C12(x.path) /\ x.c3 = C3(x.path)
        /\ x.total = Total(x.path)
    BY LeafValues
  <2>2. Total(x.path) > 0 /\ Total(x.path) \in Int /\ C3(x.path) \in Int
        /\ C12(x.path) = Total(x.path) - C3(x.path)
    BY <1>4, <2>1, FeasibleCosts, FeasibleMeans
  <2> QED  BY <2>1, <2>2
<1>5. ASSUME incumbent # None, x.total = incumbent.total
      PROVE  BetterTie(x) <=> x.c12 < incumbent.c12
  <2> DEFINE i == incumbent
             T == i.total
             a == x.c12
             b == i.c12
             d == threshold * T
  <2>1. /\ i.path \in Leaves /\ i.path \in Seq(1..3) /\ Feasible(i.path)
        /\ T = Total(i.path) /\ b = C12(i.path) /\ i.c3 = C3(i.path)
    BY <1>5 DEF IsSolution
  <2>2. /\ x.path \in Leaves /\ x.path \in Seq(1..3) /\ DOMAIN x.path = Rows
        /\ x.total = Total(x.path) /\ a = C12(x.path) /\ x.c3 = C3(x.path)
    BY LeafValues
  <2>3. /\ T \in Int /\ T > 0 /\ b \in Int /\ b + i.c3 = T
    <3>1. /\ Total(i.path) \in Int /\ C3(i.path) \in Int /\ C12(i.path) \in Int
          /\ C12(i.path) = Total(i.path) - C3(i.path) /\ Total(i.path) > 0
      BY <2>1, FeasibleMeans, FeasibleCosts
    <3> QED  BY <2>1, <3>1
  <2>4. a \in Int /\ a + x.c3 = T
    <3>1. /\ Total(x.path) \in Int /\ C3(x.path) \in Int /\ C12(x.path) \in Int
          /\ C12(x.path) = Total(x.path) - C3(x.path)
      BY <2>2, FeasibleMeans, FeasibleCosts
    <3> QED  BY <1>5, <2>2, <3>1
  <2>5. Gap(x) = a * Scale - d /\ Gap(i) = b * Scale - d
    BY <2>3, <2>4 DEF Gap
  <2>6. ~LexLess(x.path, i.path)
    <3>1. DOMAIN i.path = Rows /\ Before(i.path, x.path)
      BY <1>5, <2>1, LeafAssigns
    <3> QED  BY <2>1, <2>2, <3>1, BeforeIsLexLess
  <2>7. BetterTie(x) <=> Gap(x) * T < Gap(i) * T
    <3>1. BetterTie(x) <=> Gap(x) * (b + i.c3) < Gap(i) * (a + x.c3)
      BY <2>6 DEF BetterTie
    <3> HIDE DEF T, a, b, i
    <3> QED  BY <2>3, <2>4, <3>1
  <2>8. Scale \in Int /\ Scale > 0 /\ threshold \in Int
    BY SearchAssumption DEF Setting
  <2>9. d \in Int
    BY <2>3, <2>8
  <2> HIDE DEF i, T, a, b, d
  <2>10. a * Scale < b * Scale <=> a < b
    BY <2>3, <2>4, <2>8
  <2>11. ASSUME NEW v \in Int, NEW w \in Int
         PROVE  v * T < w * T <=> v < w
    BY <2>3
  <2>12. a * Scale \in Int /\ b * Scale \in Int
    BY <2>3, <2>4, <2>8
  <2>13. (a * Scale - d) * T < (b * Scale - d) * T <=> a * Scale - d < b * Scale - d
    BY <2>9, <2>11, <2>12
  <2>14. a * Scale - d < b * Scale - d <=> a * Scale < b * Scale
    BY <2>9, <2>12
  <2>15. BetterTie(x) <=> a < b
    BY <2>5, <2>7, <2>10, <2>13, <2>14
  <2> QED  BY <2>15 DEF a, b, i
<1>6. PlainAccept(x) <=> Wins(x)
  BY <1>1, <1>2, <1>4, <1>5 DEF PlainAccept, Wins
<1> QED  BY <1>3, <1>6

LEMMA SolutionOfLeaf ==
  ASSUME Setting, NEW x, Exact(x), IsLeaf(x)
  PROVE  IsSolution(Solution(x)) /\ Solution(x).path = x.path
<1>1. /\ x.path \in Seq(1..3) /\ x.path \in Leaves
      /\ x.total = Total(x.path) /\ x.c3 = C3(x.path) /\ x.c12 = C12(x.path)
  BY LeafValues
<1>2. x.total \in Int /\ x.c12 \in Int /\ x.c3 \in Int
  BY DEF Exact, Nodes
<1>3. Solution(x) \in [path : Seq(1..3), total : Int, c12 : Int, c3 : Int]
  BY <1>1, <1>2 DEF Solution
<1>4. Solution(x) # None
  BY <1>3, MatrixAssumption
<1>5. /\ Solution(x).path = x.path /\ Solution(x).total = x.total
      /\ Solution(x).c12 = x.c12 /\ Solution(x).c3 = x.c3
  BY DEF Solution
<1> QED  BY <1>1, <1>4, <1>5 DEF IsSolution

LEMMA LeafIsSound ==
  ASSUME SearchInv, todo # <<>>, search # "enumerate", IsLeaf(Head(todo))
  PROVE  LET x == Head(todo)
         IN  /\ (Accept(x) <=> Wins(x)) /\ (PlainAccept(x) <=> Wins(x))
             /\ Sound(Tail(todo), IF Wins(x) THEN Solution(x) ELSE incumbent)
<1> DEFINE x == Head(todo)
           t == Tail(todo)
           S == Done(ToSet(todo))
           T == Done(ToSet(t))
           i == incumbent
<1>1. /\ Setting /\ Exact(x) /\ IsLeaf(x) /\ Sorted(t) /\ Behind(i, t)
      /\ T = S \cup Completions(x)
      /\ \A y \in ToSet(t) : Before(x.path, y.path)
      /\ i # None => IsSolution(i) /\ Before(i.path, x.path)
  BY NextNode DEF SearchInv
<1>2. IF i = None THEN \A p \in S : ~Feasible(p) ELSE IsBestOf(i.path, S)
  BY DEF SearchInv, Sound, BestOf
<1> HIDE DEF x, t, S, T
<1>3. T = S \cup {x.path}
  BY <1>1, LeafValues
<1>4. (Accept(x) <=> Wins(x)) /\ (PlainAccept(x) <=> Wins(x))
  BY <1>1, <1>2, AcceptMeansWins DEF IsBestOf
<1>5. IsSolution(Solution(x)) /\ Solution(x).path = x.path
  BY <1>1, SolutionOfLeaf
<1>6. i # None => /\ Preferred(i.path, x.path) <=> ~Preferred(x.path, i.path)
                  /\ Preferred(x.path, i.path)
                       => \/ Total(x.path) < Total(i.path)
                          \/ Total(x.path) = Total(i.path) /\ C12(x.path) < C12(i.path)
  <2>1. x.total = Total(x.path) /\ x.c12 = C12(x.path)
    BY <1>1, LeafValues
  <2> QED  BY <1>1, <2>1, LeafPreference DEF IsSolution
<1>7. CASE Wins(x)
  <2>1. Behind(Solution(x), t)
    BY <1>1, <1>5 DEF Behind
  <2>2. Feasible(x.path) /\ x.path \in T
    BY <1>3, <1>7 DEF Wins
  <2>3. ASSUME NEW q \in T, Feasible(q), q # x.path  PROVE Preferred(x.path, q)
    <3>1. q \in S
      BY <1>3, <2>3
    <3>2. i # None
      BY <1>2, <2>3, <3>1
    <3>3. \/ Total(x.path) < Total(i.path)
          \/ Total(x.path) = Total(i.path) /\ C12(x.path) < C12(i.path)
      BY <1>6, <1>7, <3>2 DEF Wins
    <3>4. \/ q = i.path
          \/ Total(i.path) < Total(q)
          \/ Total(i.path) = Total(q) /\ C12(i.path) <= C12(q)
      <4>1. q = i.path \/ Preferred(i.path, q)
        BY <1>2, <2>3, <3>1, <3>2 DEF IsBestOf
      <4>2. C12(i.path) \in Int /\ C12(q) \in Int
        BY <1>1, <3>1, <3>2, FeasibleCosts DEF IsSolution, S, Done
      <4> QED  BY <4>1, <4>2 DEF Preferred
    <3>5. /\ Total(x.path) \in Int /\ Total(i.path) \in Int /\ Total(q) \in Int
          /\ C12(x.path) \in Int /\ C12(i.path) \in Int /\ C12(q) \in Int
      <4>1. x.path \in Leaves /\ i.path \in Leaves /\ q \in Leaves
        BY <1>1, <3>1, <3>2, LeafValues DEF IsSolution, S, Done
      <4> QED  BY <1>1, <4>1, FeasibleMeans, FeasibleCosts
    <3> QED  BY <3>3, <3>4, <3>5 DEF Preferred
  <2>4. BestOf(Solution(x), T)
    <3>1. Solution(x) # None
      BY <1>5 DEF IsSolution
    <3> QED  BY <1>5, <2>2, <2>3, <3>1 DEF BestOf, IsBestOf
  <2>5. CheapestOf(Solution(x), T)
    BY DEF CheapestOf
  <2> QED  BY <1>1, <1>4, <1>7, <2>1, <2>4, <2>5 DEF Sound, t, T, x
<1>8. CASE ~Wins(x)
  <2>1. i # None => (Feasible(x.path) => Preferred(i.path, x.path))
    BY <1>6, <1>8 DEF Wins
  <2>2. i = None => ~Feasible(x.path)
    BY <1>8 DEF Wins
  <2>3. BestOf(i, T)
    BY <1>2, <1>3, <2>1, <2>2 DEF BestOf, IsBestOf
  <2>4. CheapestOf(i, T)
    BY DEF CheapestOf
  <2> QED  BY <1>1, <1>4, <1>8, <2>3, <2>4 DEF Sound, t, T, x
<1> QED  BY <1>7, <1>8

(* optimize_encrypted: with positive costs, to use method 3 is to pay for   *)
(* it.                                                                      *)
LEMMA ThreeCosts ==
  ASSUME Setting, NEW p \in Leaves, PositiveCosts
  PROVE  UsesThree(p) <=> C3(p) > 0
<1> DEFINE c == Chosen(p)
           T == Threes(p, Rows)
<1>1. /\ IsFiniteSet(Rows) /\ c \in [Rows -> Int] /\ DOMAIN p = Rows
      /\ \A i \in Rows : p[i] \in Methods(i)
  BY LeafAssigns
<1>2. \A i \in Rows : c[i] > 0 /\ c[i] \in Int
  BY <1>1 DEF Chosen, PositiveCosts
<1>3. T \in SUBSET Rows /\ C3(p) = SumOver(c, T)
  BY DEF Threes, C3
<1>4. CASE UsesThree(p)
  <2>1. PICK i \in Rows : p[i] = 3
    BY <1>1, <1>4 DEF UsesThree
  <2>2. i \in T /\ c[i] > 0
    BY <1>2, <2>1 DEF Threes
  <2>3. \A j \in Rows : c[j] >= 0
    BY <1>2
  <2> HIDE DEF c, T
  <2>4. SumOver(c, T) > 0
    BY <1>1, <1>3, <2>2, <2>3, SumPositive
  <2> QED  BY <1>3, <1>4, <2>4
<1>5. CASE ~UsesThree(p)
  <2>1. T = {}
    BY <1>1, <1>5 DEF UsesThree, Threes
  <2>2. C3(p) = 0
    BY <1>3, <2>1, SumEmpty
  <2> QED  BY <1>5, <2>2
<1> QED  BY <1>4, <1>5

LEMMA EnumeratedIsSound ==
  ASSUME SearchInv, todo # <<>>, search = "enumerate", IsLeaf(Head(todo))
  PROVE  LET x == Head(todo)
         IN  Sound(Tail(todo), IF EnumerationAccept(x) THEN Solution(x) ELSE incumbent)
<1> DEFINE x == Head(todo)
           t == Tail(todo)
           S == Done(ToSet(todo))
           T == Done(ToSet(t))
           i == incumbent
           j == IF EnumerationAccept(x) THEN Solution(x) ELSE i
<1>1. /\ Setting /\ Exact(x) /\ IsLeaf(x) /\ Sorted(t) /\ Behind(i, t)
      /\ T = S \cup Completions(x)
      /\ \A y \in ToSet(t) : Before(x.path, y.path)
      /\ i # None => IsSolution(i) /\ Before(i.path, x.path)
  BY NextNode DEF SearchInv
<1>2. CheapestOf(i, S)
  BY DEF SearchInv, Sound
<1> HIDE DEF x, t, S, T
<1>3. T = S \cup {x.path} /\ x.path \in Leaves /\ x.total = Total(x.path)
      /\ (Feasible(x.path) <=> x.c3 > 0 /\ x.linear >= 0) /\ x.c3 = C3(x.path)
  BY <1>1, LeafValues
<1>4. IsSolution(Solution(x)) /\ Solution(x).path = x.path
  BY <1>1, SolutionOfLeaf
<1>5. i # None => LexLess(i.path, x.path) /\ i.path # x.path /\ i.total = Total(i.path)
  BY <1>1, LeafPreference DEF IsSolution
<1>6. Behind(j, t)
  BY <1>1, <1>4 DEF Behind
<1>7. BestOf(j, T)
  BY DEF BestOf
<1>8. CheapestOf(j, T)
  <2> SUFFICES ASSUME PositiveCosts
               PROVE  IF j = None THEN \A p \in T : ~Feasible(p)
                      ELSE /\ Feasible(j.path)
                           /\ \A p \in T \ {j.path} : Feasible(p) =>
                                \/ Total(j.path) < Total(p)
                                \/ Total(j.path) = Total(p) /\ LexLess(j.path, p)
    BY DEF CheapestOf
  <2>1. IF i = None THEN \A p \in S : ~Feasible(p)
        ELSE /\ Feasible(i.path)
             /\ \A p \in S \ {i.path} : Feasible(p) =>
                  \/ Total(i.path) < Total(p)
                  \/ Total(i.path) = Total(p) /\ LexLess(i.path, p)
    BY <1>2 DEF CheapestOf
  <2>2. EnumerationAccept(x)
          <=> /\ Feasible(x.path)
              /\ i = None \/ Total(x.path) < Total(i.path)
    BY <1>1, <1>3, <1>5, ThreeCosts DEF EnumerationAccept
  <2>3. \A p \in T : Total(p) \in Int
    BY <1>1, FeasibleMeans DEF T, Done
  <2>4. i # None => Total(i.path) \in Int
    BY <1>1, FeasibleMeans DEF IsSolution
  <2>5. Total(x.path) \in Int
    BY <1>1, <1>3, FeasibleMeans
  <2>6. CASE EnumerationAccept(x)
    <3>1. j = Solution(x) /\ j # None /\ j.path = x.path
      BY <1>4, <2>6 DEF IsSolution
    <3>2. ASSUME NEW p \in T, p # x.path, Feasible(p)  PROVE Total(x.path) < Total(p)
      <4>1. p \in S
        BY <1>3, <3>2
      <4>2. i # None /\ Total(x.path) < Total(i.path)
        BY <2>1, <2>2, <2>6, <3>2, <4>1
      <4>3. Total(i.path) <= Total(p)
        BY <2>1, <2>3, <3>2, <4>1, <4>2, <2>4
      <4> QED  BY <2>3, <2>4, <2>5, <4>2, <4>3
    <3> QED  BY <2>2, <2>6, <3>1, <3>2
  <2>7. CASE ~EnumerationAccept(x)
    <3>1. j = i
      BY <2>7
    <3>2. CASE i = None
      BY <1>3, <2>1, <2>2, <2>7, <3>1, <3>2
    <3>3. CASE i # None
      <4>1. Feasible(x.path) => \/ Total(i.path) < Total(x.path)
                                \/ Total(i.path) = Total(x.path) /\ LexLess(i.path, x.path)
        BY <1>5, <2>2, <2>4, <2>5, <2>7, <3>3
      <4> HIDE DEF j
      <4> QED  BY <1>3, <2>1, <3>1, <3>3, <4>1
    <3> QED  BY <3>2, <3>3
  <2> QED  BY <2>6, <2>7
<1> QED  BY <1>1, <1>6, <1>7, <1>8 DEF Sound, t, T, x

-----------------------------------------------------------------------------
(* The steps.  While the search runs its input stays, and with it what the  *)
(* invariant says of nodes and assignments.                                 *)
LEMMA SameInput ==
  ASSUME Setting, UNCHANGED input, Sound(todo', incumbent')
  PROVE  SearchInv'
<1>1. costs' = costs /\ threshold' = threshold /\ search' = search /\ grid' = grid
  BY DEF input
<1>2. Rows' = Rows /\ \A i : Methods(i)' = Methods(i)
  BY <1>1 DEF Rows, Methods
<1>3. /\ \A i, m : Contribution(i, m)' = Contribution(i, m)
      /\ \A i, m, k : Score(i, m, k)' = Score(i, m, k)
  BY <1>1 DEF Contribution, Score
<1>4. \A p : /\ Chosen(p)' = Chosen(p) /\ Linears(p)' = Linears(p)
             /\ \A k : Scores(p, k)' = Scores(p, k)
  BY <1>1, <1>3 DEF Chosen, Linears, Scores
<1>5. Setting'
  BY <1>1, <1>2 DEF Setting
<1>6. Leaves' = Leaves
  BY <1>2 DEF Leaves
<1>7. \A x : Completions(x)' = Completions(x)
  BY <1>6 DEF Completions
<1>8. \A S : {p \in Leaves' : \A x \in S : p \notin Completions(x)'} = Done(S)
  BY <1>6, <1>7 DEF Done
<1>9. \A p : Total(p)' = Total(p) /\ C12(p)' = C12(p) /\ C3(p)' = C3(p)
  BY <1>2, <1>4 DEF Total, C12, C3
<1>10. \A p : Feasible(p)' <=> Feasible(p)
  BY <1>1, <1>9 DEF Feasible
<1>11. \A p, q : Preferred(p, q)' <=> Preferred(p, q)
  BY <1>9 DEF Preferred
<1>12. PositiveCosts' <=> PositiveCosts
  BY <1>1, <1>2 DEF PositiveCosts
<1>13. Nodes' = Nodes
  BY <1>1 DEF Nodes
<1>14. \A p, n : Assigns(p, n)' <=> Assigns(p, n)
  BY <1>1, <1>2 DEF Assigns
<1>15. \A x : Exact(x)' <=> Exact(x)
  BY <1>1, <1>4, <1>13, <1>14 DEF Exact
<1>16. Sorted(todo)'
  BY <1>13, <1>15 DEF Sound, Sorted
<1>17. Behind(incumbent, todo)'
  BY <1>6, <1>9 DEF Sound, Behind, IsSolution
<1>18. Done(ToSet(todo))' = Done(ToSet(todo'))
  BY <1>8 DEF Done
<1>19. BestOf(incumbent, Done(ToSet(todo)))'
  <2>1. BestOf(incumbent', Done(ToSet(todo')))
    BY DEF Sound
  <2> QED  BY <1>1, <1>10, <1>11, <1>18, <2>1 DEF BestOf, IsBestOf
<1>20. CheapestOf(incumbent, Done(ToSet(todo)))'
  <2>1. CheapestOf(incumbent', Done(ToSet(todo')))
    BY DEF Sound
  <2> QED  BY <1>1, <1>9, <1>10, <1>12, <1>18, <2>1 DEF CheapestOf
<1> QED  BY <1>5, <1>16, <1>17, <1>19, <1>20 DEF SearchInv, Sound

LEMMA StepKeepsSearch ==
  ASSUME SearchInv, Step \/ PredicateFails
  PROVE  SearchInv'
<1>1. Setting /\ Sound(todo, incumbent)
  BY DEF SearchInv
<1>2. ASSUME UNCHANGED <<input, todo, incumbent>>  PROVE SearchInv'
  <2>1. UNCHANGED input /\ Sound(todo', incumbent')
    BY <1>1, <1>2
  <2> QED  BY <1>1, <2>1, SameInput
<1>3. CASE VisitLeaf
  <2>1. /\ UNCHANGED input /\ todo # <<>> /\ IsLeaf(Head(todo)) /\ search # "enumerate"
        /\ incumbent' = IF Accept(Head(todo)) THEN Solution(Head(todo)) ELSE incumbent
        /\ todo' = Tail(todo)
    BY <1>3 DEF VisitLeaf, Visit
  <2>2. Sound(todo', incumbent')
    BY <2>1, LeafIsSound
  <2> QED  BY <1>1, <2>1, <2>2, SameInput
<1>4. CASE VisitInner
  <2>1. /\ UNCHANGED <<input, incumbent>> /\ todo # <<>> /\ ~IsLeaf(Head(todo))
        /\ search # "enumerate"
        /\ todo' = IF Prune(Head(todo)) THEN Tail(todo)
                   ELSE Children(Head(todo)) \o Tail(todo)
    BY <1>4 DEF VisitInner, Visit
  <2>2. Sound(todo', incumbent')
    BY <2>1, PruneIsSound, InnerIsSound
  <2> QED  BY <1>1, <2>1, <2>2, SameInput
<1>5. CASE VisitPlain
  <2>1. /\ UNCHANGED input /\ todo # <<>> /\ search # "enumerate"
        /\ IF Prune(Head(todo))
           THEN todo' = Tail(todo) /\ UNCHANGED incumbent
           ELSE IF IsLeaf(Head(todo))
                THEN /\ incumbent' = IF PlainAccept(Head(todo))
                                     THEN Solution(Head(todo)) ELSE incumbent
                     /\ todo' = Tail(todo)
                ELSE /\ todo' = Children(Head(todo)) \o Tail(todo)
                     /\ UNCHANGED incumbent
    BY <1>5 DEF VisitPlain, Visit
  <2>2. Sound(todo', incumbent')
    <3>1. CASE Prune(Head(todo))
      BY <2>1, <3>1, PruneIsSound
    <3>2. CASE ~Prune(Head(todo)) /\ IsLeaf(Head(todo))
      BY <2>1, <3>2, LeafIsSound
    <3>3. CASE ~Prune(Head(todo)) /\ ~IsLeaf(Head(todo))
      BY <2>1, <3>3, InnerIsSound
    <3> QED  BY <3>1, <3>2, <3>3
  <2>3. UNCHANGED input
    BY <2>1
  <2> QED  BY <1>1, <2>2, <2>3, SameInput
<1>6. CASE VisitEnumerated
  <2>1. /\ UNCHANGED input /\ todo # <<>> /\ search = "enumerate"
        /\ IF IsLeaf(Head(todo))
           THEN /\ incumbent' = IF EnumerationAccept(Head(todo))
                                THEN Solution(Head(todo)) ELSE incumbent
                /\ todo' = Tail(todo)
           ELSE todo' = Children(Head(todo)) \o Tail(todo) /\ UNCHANGED incumbent
    BY <1>6 DEF VisitEnumerated, Visit
  <2>2. Sound(todo', incumbent')
    <3>1. CASE IsLeaf(Head(todo))
      BY <2>1, <3>1, EnumeratedIsSound
    <3>2. CASE ~IsLeaf(Head(todo))
      BY <2>1, <3>2, InnerIsSound
    <3> QED  BY <3>1, <3>2
  <2>3. UNCHANGED input
    BY <2>1
  <2> QED  BY <1>1, <2>2, <2>3, SameInput
<1>7. CASE Finish
  BY <1>2, <1>7 DEF Finish
<1>8. CASE Verify
  BY <1>2, <1>8 DEF Verify
<1>9. CASE PredicateFails
  BY <1>2, <1>9 DEF PredicateFails
<1> QED  BY <1>3, <1>4, <1>5, <1>6, <1>7, <1>8, <1>9 DEF Step

-----------------------------------------------------------------------------
(* The grid.  Support is monotone, so the binary search keeps its bracket;  *)
(* the values of the grid stay below the multiplier that it finds.          *)
LEMMA Division ==
  ASSUME NEW a \in Int, NEW n \in Nat \ {0}
  PROVE  a \div n \in Int /\ n * (a \div n) <= a /\ a < n * (a \div n) + n
OBVIOUS

(* The rounded shares of u stay between zero and u. *)
LEMMA SharesFit ==
  ASSUME NEW u \in Nat, NEW n \in Nat \ {0}, NEW i \in 1..n
  PROVE  (u * i + n \div 2) \div n \in 0..u
<1> DEFINE h == n \div 2
           a == u * i + h
           q == a \div n
<1>1. h \in Nat /\ h < n
  OBVIOUS
<1>2. u * i \in Nat /\ u * i <= u * n /\ u * n \in Nat
  OBVIOUS
<1> HIDE DEF h
<1>3. a \in Nat /\ a < u * n + n
  BY <1>1, <1>2
<1> HIDE DEF a
<1>4. q \in Int /\ n * q <= a /\ a < n * q + n
  BY <1>3, Division
<1> HIDE DEF q
<1>5. q <= u
  <2> SUFFICES ASSUME q >= u + 1  PROVE FALSE
    BY <1>4
  <2>1. n * q >= n * (u + 1)
    BY <1>4
  <2>2. n * (u + 1) = u * n + n
    OBVIOUS
  <2> QED  BY <1>3, <1>4, <2>1, <2>2
<1>6. q >= 0
  <2> SUFFICES ASSUME q <= -1  PROVE FALSE
    BY <1>4
  <2>1. n * q <= n * (-1)
    BY <1>4
  <2>2. n * (-1) = -n
    OBVIOUS
  <2> QED  BY <1>3, <1>4, <2>1, <2>2
<1> QED  BY <1>4, <1>5, <1>6 DEF q, a, h

(* The arguments of a grid, as Init chooses them.                           *)
Arguments ==
  /\ domain \in Domains /\ config \in Configs
  /\ threshold \in Nat /\ threshold < domain.scale

LEMMA ArgumentTypes ==
  ASSUME Arguments
  PROVE  /\ domain.costBits \in Nat /\ domain.compareBits \in Nat
         /\ domain.scale \in Nat /\ domain.rows \in Nat
         /\ G!Q \in Nat /\ G!Alpha \in Nat \ {0}
         /\ config.requested \in Nat \ {0} /\ config.span \in Nat \ {0}
         /\ config.denominator \in Nat
         /\ SecureBits \in Nat /\ MaxInt \in Nat
<1>1. /\ domain.scale \in Nat \ {0} /\ domain.rows \in Nat
      /\ domain.costBits \in Nat /\ domain.compareBits \in Nat
      /\ config.denominator \in Nat /\ config.span \in Nat \ {0}
      /\ config.requested \in Nat \ {0} /\ SecureBits \in Nat /\ MaxInt \in Nat
  BY SolveAssumption DEF Arguments
<1>2. domain.scale - threshold \in Nat \ {0} /\ domain.scale * config.denominator \in Nat
  BY <1>1 DEF Arguments
<1> QED  BY <1>1, <1>2 DEF G!Q, G!Alpha

(* The instance reads Cardinality and Max as everybody does. *)
LEMMA SameOperators ==
  \A S : G!Cardinality(S) = Cardinality(S) /\ G!Max(S) = Max(S)
BY DEF G!Cardinality, Cardinality, G!Max, Max

LEMMA CeilLog2Monotone ==
  ASSUME SecureBits \in Nat, NEW v \in Int, NEW w \in Int, v <= w
  PROVE  /\ G!CeilLog2(v) \in Nat /\ G!CeilLog2(w) \in Nat
         /\ G!CeilLog2(v) <= G!CeilLog2(w)
<1> DEFINE D == 0..SecureBits
           V == {b \in D : 2^b < v}
           W == {b \in D : 2^b < w}
<1>1. IsFiniteSet(D)
  <2>1. 0 \in Int /\ SecureBits \in Int
    OBVIOUS
  <2> QED  BY <2>1, FS_Interval
<1>2. V \in SUBSET W
  <2> SUFFICES ASSUME NEW b \in D, 2^b < v  PROVE 2^b < w
    OBVIOUS
  <2>1. 2^b \in Int
    OBVIOUS
  <2> QED  BY <2>1
<1>3. W \in SUBSET D
  OBVIOUS
<1>4. G!CeilLog2(v) = Cardinality(V) /\ G!CeilLog2(w) = Cardinality(W)
  BY SameOperators DEF G!CeilLog2
<1> HIDE DEF V, W, D
<1>5. IsFiniteSet(W)
  BY <1>1, <1>3, FS_Subset
<1>6. IsFiniteSet(V) /\ Cardinality(V) <= Cardinality(W)
  BY <1>2, <1>5, FS_Subset
<1>7. Cardinality(V) \in Nat /\ Cardinality(W) \in Nat
  BY <1>5, <1>6, FS_CardinalityType
<1> QED  BY <1>4, <1>6, <1>7

LEMMA CoefficientMonotone ==
  ASSUME Arguments, NEW a \in Nat, NEW b \in Nat, a <= b
  PROVE  /\ G!CoefficientBound(a) \in Int /\ G!CoefficientBound(b) \in Int
         /\ G!CoefficientBound(a) <= G!CoefficientBound(b)
<1> DEFINE q == G!Q
           s == G!Alpha
           t == threshold
<1>1. q \in Nat /\ s \in Nat /\ t \in Nat
  BY ArgumentTypes DEF Arguments
<1>2. \A k : G!CoefficientBound(k) = G!Larger(G!Abs(q - k * s), q + k * t)
  BY DEF G!CoefficientBound
<1> HIDE DEF q, s, t
<1>3. /\ a * s \in Nat /\ b * s \in Nat /\ a * s <= b * s
      /\ a * t \in Nat /\ b * t \in Nat /\ a * t <= b * t
  BY <1>1
<1> DEFINE sa == a * s
           sb == b * s
           ta == a * t
           tb == b * t
<1>4. sa \in Nat /\ sb \in Nat /\ sa <= sb /\ ta \in Nat /\ tb \in Nat /\ ta <= tb
  BY <1>3
<1>5. /\ G!CoefficientBound(a) = G!Larger(G!Abs(q - sa), q + ta)
      /\ G!CoefficientBound(b) = G!Larger(G!Abs(q - sb), q + tb)
  BY <1>2
<1> HIDE DEF sa, sb, ta, tb
<1> DEFINE u == G!Abs(q - sa)
           w == G!Abs(q - sb)
<1>6. /\ u = (IF q - sa < 0 THEN sa - q ELSE q - sa)
      /\ w = (IF q - sb < 0 THEN sb - q ELSE q - sb)
  BY <1>1, <1>4 DEF G!Abs
<1> HIDE DEF u, w
<1>7. /\ G!CoefficientBound(a) = (IF u > q + ta THEN u ELSE q + ta)
      /\ G!CoefficientBound(b) = (IF w > q + tb THEN w ELSE q + tb)
  BY <1>5 DEF G!Larger, u, w
<1> QED  BY <1>1, <1>4, <1>6, <1>7

LEMMA SupportMonotone ==
  ASSUME Arguments, NEW a \in Nat, NEW b \in Nat, a <= b, G!Supported(b)
  PROVE  G!Supported(a)
<1> DEFINE v == G!CoefficientBound(a)
           w == G!CoefficientBound(b)
           r == G!CeilLog2(domain.rows)
<1>1. /\ domain.costBits \in Nat /\ domain.compareBits \in Nat
      /\ domain.rows \in Int /\ SecureBits \in Nat
  BY ArgumentTypes
<1>2. v \in Int /\ w \in Int /\ v <= w
  BY CoefficientMonotone
<1> HIDE DEF v, w
<1>3. /\ G!CeilLog2(v) \in Nat /\ G!CeilLog2(w) \in Nat
      /\ G!CeilLog2(v) <= G!CeilLog2(w)
  BY <1>1, <1>2, CeilLog2Monotone
<1>4. r \in Nat
  BY <1>1, CeilLog2Monotone
<1>5. G!ScoreBits(a) = domain.costBits + G!CeilLog2(v)
      /\ G!ScoreBits(b) = domain.costBits + G!CeilLog2(w)
  BY DEF G!ScoreBits, v, w
<1> HIDE DEF r
<1>6. /\ G!ScoreBits(a) \in Nat /\ G!ScoreBits(b) \in Nat
      /\ G!ScoreBits(a) <= G!ScoreBits(b)
  BY <1>1, <1>3, <1>5
<1>7. /\ G!DeltaBits(a) <= G!DeltaBits(b) /\ G!BoundBits(a) <= G!BoundBits(b)
      /\ G!DeltaBits(a) \in Nat /\ G!DeltaBits(b) \in Nat
      /\ G!BoundBits(a) \in Nat /\ G!BoundBits(b) \in Nat
  BY <1>4, <1>6 DEF G!DeltaBits, G!BoundBits, r
<1> QED  BY <1>1, <1>7 DEF G!Supported

(* What the building of the grid maintains.                                 *)
Reachable == G!Anchors \cap (1..G!Upper)

Kept == Reachable \subseteq values \/ (config.requested = 2 /\ G!AlphaAnchor \in values)

GridInv ==
  /\ Arguments
  /\ pc \in {"start", "rejected", "search", "trim", "done"}
  /\ low \in 0..MaxInt /\ high \in 0..MaxInt /\ low <= high
  /\ values \in SUBSET (0..MaxInt)
  /\ pc \in {"start", "rejected", "search"} => values = {0}
  /\ pc = "start" => low = 0 /\ high = MaxInt
  /\ pc = "trim" => config.requested # 1 /\ threshold # 0
  /\ pc \in {"trim", "done"} => \A mu \in values : mu <= low
  /\ pc \in {"trim", "done"} /\ threshold # 0 /\ config.requested >= 2 => Kept
  /\ G!SizeBounded
  /\ G!SearchBrackets

(* The arguments stay, and with them support and the anchors.               *)
LEMMA SameArguments ==
  ASSUME UNCHANGED <<domain, threshold, config>>
  PROVE  /\ Arguments' <=> Arguments
         /\ \A mu : G!Supported(mu)' <=> G!Supported(mu)
         /\ G!Anchors' = G!Anchors /\ G!AlphaAnchor' = G!AlphaAnchor
         /\ low' = low => Reachable' = Reachable
<1>1. domain' = domain /\ threshold' = threshold /\ config' = config
  OBVIOUS
<1>2. G!Q' = G!Q /\ G!Alpha' = G!Alpha
  BY <1>1 DEF G!Q, G!Alpha
<1>3. \A mu : G!CoefficientBound(mu)' = G!CoefficientBound(mu)
  BY <1>1, <1>2 DEF G!CoefficientBound
<1>4. \A mu : G!ScoreBits(mu)' = G!ScoreBits(mu)
  BY <1>1, <1>3 DEF G!ScoreBits
<1>5. \A mu : G!Supported(mu)' <=> G!Supported(mu)
  BY <1>1, <1>4 DEF G!Supported, G!DeltaBits, G!BoundBits
<1>6. G!AlphaAnchor' = G!AlphaAnchor /\ G!ThresholdAnchor' = G!ThresholdAnchor
  BY <1>1, <1>2 DEF G!AlphaAnchor, G!ThresholdAnchor
<1>7. G!Anchors' = G!Anchors
  BY <1>6 DEF G!Anchors
<1>8. low' = low => G!Upper' = G!Upper
  BY <1>1, <1>6 DEF G!Upper
<1>9. low' = low => Reachable' = Reachable
  BY <1>7, <1>8 DEF Reachable
<1> QED  BY <1>1, <1>5, <1>6, <1>7, <1>9 DEF Arguments

LEMMA GridBegins ==
  ASSUME G!Init
  PROVE  GridInv
<1>1. Arguments
  BY SearchAssumption DEF G!Init, Arguments
<1>2. /\ low = 0 /\ high = MaxInt /\ values = {0} /\ pc = "start" /\ MaxInt \in Nat
  BY SolveAssumption DEF G!Init
<1>3. low \in 0..MaxInt /\ high \in 0..MaxInt /\ low <= high /\ values \in SUBSET (0..MaxInt)
  BY <1>2
<1> QED  BY <1>1, <1>2, <1>3 DEF GridInv, G!SizeBounded, G!SearchBrackets

LEMMA StartKeepsGrid ==
  ASSUME GridInv, G!Start
  PROVE  GridInv'
<1>1. /\ UNCHANGED <<domain, threshold, config, low, high, values>>
      /\ pc = "start" /\ pc' = IF G!Q > MaxInt \/ ~G!Supported(0) THEN "rejected" ELSE "search"
  BY DEF G!Start, G!input
<1>2. /\ Arguments /\ low = 0 /\ high = MaxInt /\ values = {0} /\ MaxInt \in Nat
      /\ low \in 0..MaxInt /\ high \in 0..MaxInt /\ low <= high
      /\ values \in SUBSET (0..MaxInt)
  BY <1>1, SolveAssumption DEF GridInv
<1>3. Arguments' /\ \A mu : G!Supported(mu)' <=> G!Supported(mu)
  BY <1>1, <1>2, SameArguments
<1>4. G!SearchBrackets'
  <2> SUFFICES ASSUME pc' = "search", NEW mu \in 0..MaxInt'
               PROVE  /\ mu <= low' => G!Supported(mu)'
                      /\ mu > high' => ~G!Supported(mu)'
    BY <1>1 DEF G!SearchBrackets
  <2>1. G!Supported(0) /\ mu \in 0..MaxInt
    BY <1>1
  <2> QED  BY <1>1, <1>2, <1>3, <2>1
<1>5. pc' \in {"rejected", "search"}
  BY <1>1
<1> QED  BY <1>1, <1>2, <1>3, <1>4, <1>5 DEF GridInv, G!SizeBounded

LEMMA BisectKeepsGrid ==
  ASSUME GridInv, G!Bisect
  PROVE  GridInv'
<1> DEFINE m == low + (high - low + 1) \div 2
<1>1. /\ UNCHANGED <<domain, threshold, config, values, pc>> /\ pc = "search" /\ low < high
      /\ IF G!Supported(m) THEN low' = m /\ UNCHANGED high
                           ELSE high' = m - 1 /\ UNCHANGED low
  BY DEF G!Bisect, G!input
<1>2. /\ Arguments /\ low \in 0..MaxInt /\ high \in 0..MaxInt /\ MaxInt \in Nat
      /\ values = {0} /\ values \in SUBSET (0..MaxInt)
  BY <1>1, SolveAssumption DEF GridInv
<1>3. m \in Nat /\ low < m /\ m <= high
  BY <1>1, <1>2
<1>4. Arguments' /\ \A mu : G!Supported(mu)' <=> G!Supported(mu)
  BY <1>1, <1>2, SameArguments
<1>5. \A mu \in 0..MaxInt : /\ mu <= low => G!Supported(mu)
                            /\ mu > high => ~G!Supported(mu)
  BY <1>1 DEF GridInv, G!SearchBrackets
<1> HIDE DEF m
<1>6. low' \in 0..MaxInt /\ high' \in 0..MaxInt /\ low' <= high'
  BY <1>1, <1>2, <1>3
<1>7. ASSUME NEW mu \in 0..MaxInt
      PROVE  /\ mu <= low' => G!Supported(mu)
             /\ mu > high' => ~G!Supported(mu)
  <2>1. mu \in Nat
    BY <1>2
  <2>2. CASE G!Supported(m)
    <3>1. mu <= m => G!Supported(mu)
      BY <1>2, <1>3, <2>1, <2>2, SupportMonotone
    <3> QED  BY <1>1, <1>5, <2>2, <3>1
  <2>3. CASE ~G!Supported(m)
    <3>1. m <= mu => ~G!Supported(mu)
      BY <1>2, <1>3, <2>1, <2>3, SupportMonotone
    <3>2. mu > m - 1 => m <= mu
      BY <1>3, <2>1
    <3> QED  BY <1>1, <1>5, <2>3, <3>1, <3>2
  <2> QED  BY <2>2, <2>3
<1>8. G!SearchBrackets'
  BY <1>4, <1>7 DEF G!SearchBrackets
<1>9. values' = {0} /\ values' \in SUBSET (0..MaxInt) /\ pc' = "search"
  BY <1>1, <1>2
<1> QED  BY <1>4, <1>6, <1>8, <1>9 DEF GridInv, G!SizeBounded

LEMMA OnlyZeroKeepsGrid ==
  ASSUME GridInv, G!OnlyZero
  PROVE  GridInv'
<1>1. /\ UNCHANGED <<domain, threshold, config, low, high, values>>
      /\ pc = "search" /\ pc' = "done" /\ (threshold = 0 \/ config.requested = 1)
  BY DEF G!OnlyZero, G!input
<1>2. /\ Arguments /\ low \in 0..MaxInt /\ high \in 0..MaxInt /\ low <= high
      /\ values = {0} /\ values \in SUBSET (0..MaxInt) /\ MaxInt \in Nat
  BY <1>1, SolveAssumption DEF GridInv
<1>3. Arguments' /\ \A mu : G!Supported(mu)' <=> G!Supported(mu)
  BY <1>1, <1>2, SameArguments
<1>4. G!SearchBrackets'
  BY <1>1, <1>3 DEF GridInv, G!SearchBrackets
<1>5. G!SizeBounded'
  <2>1. Cardinality({0}) = 1
    BY FS_Singleton
  <2>2. config.requested \in Nat \ {0}
    BY <1>2, ArgumentTypes
  <2>3. Cardinality(values') <= config'.requested
    BY <1>1, <1>2, <2>1, <2>2
  <2> QED  BY <2>3, SameOperators DEF G!SizeBounded
<1>6. \A mu \in values' : mu <= low'
  BY <1>1, <1>2
<1>7. ~(threshold' # 0 /\ config'.requested >= 2)
  BY <1>1
<1> QED  BY <1>1, <1>2, <1>3, <1>4, <1>5, <1>6, <1>7 DEF GridInv

LEMMA AnchorTypes ==
  ASSUME Arguments, threshold # 0, low \in 0..MaxInt
  PROVE  /\ G!AlphaAnchor \in Int /\ G!ThresholdAnchor \in Int
         /\ G!Upper \in Int /\ G!Upper <= low
<1>1. /\ config.denominator \in Nat /\ domain.scale \in Nat /\ G!Alpha \in Nat \ {0}
      /\ threshold \in Nat \ {0} /\ MaxInt \in Nat /\ config.span \in Nat
  BY ArgumentTypes DEF Arguments
<1>2. ASSUME NEW a \in Nat, NEW b \in Nat, NEW d \in Nat \ {0}
      PROVE  G!RoundedRatio(a, b, d) \in Int
  <2>1. d \div 2 \in Int /\ a * b \in Int
    OBVIOUS
  <2>2. a * b + d \div 2 \in Int
    BY <2>1
  <2>3. (a * b + d \div 2) \div d \in Int
    BY <2>2, Division
  <2> QED  BY <1>1, <2>3 DEF G!RoundedRatio, G!Smaller
<1>3. G!AlphaAnchor \in Int /\ G!ThresholdAnchor \in Int
  BY <1>1, <1>2 DEF G!AlphaAnchor, G!ThresholdAnchor
<1>4. G!Larger(G!AlphaAnchor, G!ThresholdAnchor) \in Int
  BY <1>3 DEF G!Larger
<1>5. G!Upper \in Int /\ G!Upper <= low
  <2> DEFINE s == config.span * G!Larger(G!AlphaAnchor, G!ThresholdAnchor)
             w == G!Smaller(s, MaxInt)
  <2>1. s \in Int /\ low \in Int
    BY <1>1, <1>4
  <2>2. G!Upper = G!Smaller(low, w)
    BY DEF G!Upper
  <2> HIDE DEF s
  <2>3. w \in Int
    BY <1>1, <2>1 DEF G!Smaller
  <2> HIDE DEF w
  <2> QED  BY <2>1, <2>2, <2>3 DEF G!Smaller
<1> QED  BY <1>3, <1>5

LEMMA FillKeepsGrid ==
  ASSUME GridInv, G!Fill
  PROVE  GridInv'
<1> DEFINE A == G!AlphaAnchor
           T == G!ThresholdAnchor
           U == G!Upper
           n == config.requested
           one == G!AddAnchor({0}, A)
           two == G!AddAnchor(one, T)
<1>1. /\ UNCHANGED <<domain, threshold, config, low, high>>
      /\ pc = "search" /\ pc' = "trim" /\ threshold # 0 /\ n # 1
      /\ values' = G!AddAnchor(G!AddAnchor(values, A), T) \cup G!Spread
  BY DEF G!Fill, G!input
<1>2. /\ Arguments /\ low \in 0..MaxInt /\ high \in 0..MaxInt /\ low <= high
      /\ values = {0} /\ MaxInt \in Nat /\ n \in Nat \ {0}
  BY <1>1, SolveAssumption, ArgumentTypes DEF GridInv
<1>3. A \in Int /\ T \in Int /\ U \in Int /\ U <= low
  BY <1>1, <1>2, AnchorTypes
<1>4. \A set, x : G!AddAnchor(set, x)
                    = IF Cardinality(set) < n /\ x > 0 /\ x <= U THEN set \cup {x} ELSE set
  BY SameOperators DEF G!AddAnchor
<1>5. G!Spread \subseteq 0..low
  <2> SUFFICES ASSUME NEW v \in G!Spread  PROVE v \in 0..low
    OBVIOUS
  <2> DEFINE k == n - 1
  <2>1. k \in Nat \ {0}
    BY <1>1, <1>2
  <2>2. U > 0 /\ \E i \in 1..k : v = (U * i + k \div 2) \div k
    BY DEF G!Spread
  <2> HIDE DEF k
  <2>3. PICK i \in 1..k : v = (U * i + k \div 2) \div k
    BY <2>2
  <2> HIDE DEF U
  <2>4. v \in 0..U
    BY <1>3, <2>1, <2>2, <2>3, SharesFit
  <2> QED  BY <1>2, <1>3, <2>4
<1>6. Reachable = {A, T} \cap (1..U)
  BY DEF Reachable, G!Anchors
<1>7. values' = two \cup G!Spread
  BY <1>1, <1>2
<1>8. /\ one = IF Cardinality({0}) < n /\ A > 0 /\ A <= U THEN {0} \cup {A} ELSE {0}
      /\ two = IF Cardinality(one) < n /\ T > 0 /\ T <= U THEN one \cup {T} ELSE one
  BY <1>4
<1> HIDE DEF A, T, U, n, one, two
<1>9. one \subseteq 0..low /\ two \subseteq 0..low
  <2>1. 0 \in 0..low
    BY <1>2
  <2>2. (A > 0 /\ A <= U => A \in 0..low) /\ (T > 0 /\ T <= U => T \in 0..low)
    BY <1>2, <1>3
  <2> QED  BY <1>8, <2>1, <2>2
<1>10. values' \subseteq 0..low
  BY <1>5, <1>7, <1>9
<1>11. Reachable \subseteq two \/ (n = 2 /\ A \in two)
  <2>1. Cardinality({0}) = 1 /\ IsFiniteSet({0})
    BY FS_Singleton
  <2>2. Cardinality({0} \cup {A}) <= 2
    BY <2>1, FS_AddElement
  <2>3. n >= 2
    BY <1>1, <1>2 DEF n
  <2>4. CASE A > 0 /\ A <= U
    <3>1. one = {0} \cup {A} /\ A \in two
      BY <1>2, <1>8, <2>1, <2>3, <2>4
    <3>2. CASE n = 2
      BY <3>1, <3>2
    <3>3. CASE n # 2
      <4>0. Cardinality({0} \cup {A}) \in Nat
        BY <2>1, FS_AddElement, FS_CardinalityType
      <4>1. Cardinality(one) < n
        BY <1>2, <2>2, <2>3, <3>1, <3>3, <4>0
      <4>2. T > 0 /\ T <= U => T \in two
        BY <1>8, <4>1
      <4> QED  BY <1>3, <1>6, <3>1, <4>2
    <3> QED  BY <3>2, <3>3
  <2>5. CASE ~(A > 0 /\ A <= U)
    <3>1. one = {0} /\ Cardinality(one) < n
      BY <1>2, <1>8, <2>1, <2>3, <2>5
    <3>2. T > 0 /\ T <= U => T \in two
      BY <1>8, <3>1
    <3> QED  BY <1>3, <1>6, <2>5, <3>2
  <2> QED  BY <2>4, <2>5
<1>12. Kept'
  <2>1. Reachable' = Reachable /\ G!AlphaAnchor' = A /\ config' = config
    BY <1>1, SameArguments DEF A
  <2> QED  BY <1>7, <1>11, <2>1 DEF Kept, n
<1>13. Arguments' /\ \A mu : G!Supported(mu)' <=> G!Supported(mu)
  BY <1>1, <1>2, SameArguments
<1>14. G!SearchBrackets'
  BY <1>1, <1>13 DEF GridInv, G!SearchBrackets
<1>15. values' \in SUBSET (0..MaxInt) /\ \A mu \in values' : mu <= low'
  BY <1>1, <1>2, <1>10
<1>16. config'.requested # 1 /\ threshold' # 0
  BY <1>1 DEF n
<1> QED  BY <1>1, <1>2, <1>12, <1>13, <1>14, <1>15, <1>16 DEF GridInv, G!SizeBounded

LEMMA AtMostThree ==
  \A a, b : LET S == {0} \cup {a} \cup {b}
            IN  IsFiniteSet(S) /\ Cardinality(S) \in Nat /\ Cardinality(S) <= 3
<1> SUFFICES ASSUME NEW a, NEW b
             PROVE  LET S == {0} \cup {a} \cup {b}
                    IN  IsFiniteSet(S) /\ Cardinality(S) \in Nat /\ Cardinality(S) <= 3
  OBVIOUS
<1>1. IsFiniteSet({0}) /\ Cardinality({0}) = 1
  BY FS_Singleton
<1> DEFINE E == {0} \cup {a}
<1>2. /\ IsFiniteSet(E)
      /\ Cardinality(E) = (IF a \in {0} THEN Cardinality({0}) ELSE Cardinality({0}) + 1)
  BY <1>1, FS_AddElement
<1>3. Cardinality(E) \in 1..2
  BY <1>1, <1>2
<1> DEFINE S == E \cup {b}
<1> HIDE DEF E
<1>4. /\ IsFiniteSet(S)
      /\ Cardinality(S) = (IF b \in E THEN Cardinality(E) ELSE Cardinality(E) + 1)
  BY <1>2, FS_AddElement
<1>5. Cardinality(S) \in Nat /\ Cardinality(S) <= 3
  BY <1>3, <1>4
<1> QED  BY <1>4, <1>5 DEF E

LEMMA TrimKeepsGrid ==
  ASSUME GridInv, G!Trim
  PROVE  GridInv'
<1> DEFINE n == config.requested
           R == G!Removable
<1>1. /\ UNCHANGED <<domain, threshold, config, low, high>> /\ pc = "trim"
      /\ IF G!Cardinality(values) > n /\ R # {}
         THEN values' = values \ R /\ UNCHANGED pc
         ELSE pc' = "done" /\ UNCHANGED values
  BY DEF G!Trim, G!input
<1>2. /\ Arguments /\ low \in 0..MaxInt /\ high \in 0..MaxInt /\ low <= high
      /\ values \in SUBSET (0..MaxInt) /\ MaxInt \in Nat /\ n \in Nat \ {0}
      /\ n # 1 /\ threshold # 0 /\ Kept /\ \A mu \in values : mu <= low
  <2>1. n \in Nat \ {0} /\ MaxInt \in Nat
    BY SolveAssumption, ArgumentTypes DEF GridInv
  <2>2. n # 1
    BY <1>1 DEF GridInv
  <2>3. n >= 2
    BY <2>1, <2>2
  <2> QED  BY <1>1, <2>1, <2>2, <2>3 DEF GridInv
<1>3. /\ Arguments' /\ (\A mu : G!Supported(mu)' <=> G!Supported(mu))
      /\ Reachable' = Reachable /\ G!Anchors' = G!Anchors
      /\ G!AlphaAnchor' = G!AlphaAnchor
  BY <1>1, <1>2, SameArguments
<1>4. G!SearchBrackets'
  BY <1>1, <1>3 DEF GridInv, G!SearchBrackets
<1>5. IsFiniteSet(values)
  <2>1. IsFiniteSet(0..MaxInt)
    BY <1>2, FS_Interval, 0 \in Int, MaxInt \in Int
  <2> QED  BY <1>2, <2>1, FS_Subset
<1>6. R \cap G!Anchors = {}
  <2>1. G!Removable = IF Max(values) \notin G!Anchors THEN {Max(values)}
                      ELSE IF values \ (G!Anchors \cup {0}) = {} THEN {}
                           ELSE {Max(values \ (G!Anchors \cup {0}))}
    BY SameOperators DEF G!Removable
  <2> DEFINE F == values \ (G!Anchors \cup {0})
  <2>2. F # {} => Max(F) \in F
    <3>1. IsFiniteSet(F)
      BY <1>5, FS_Subset
    <3>2. F \in SUBSET Int
      <4>1. \A v \in 0..MaxInt : v \in Int
        OBVIOUS
      <4> QED  BY <1>2, <4>1
    <3> HIDE DEF F
    <3> QED  BY <3>1, <3>2, MaxIsLargest
  <2> QED  BY <2>1, <2>2
<1> HIDE DEF R
<1>7. Kept'
  <2>1. config' = config /\ Reachable \subseteq G!Anchors /\ G!AlphaAnchor \in G!Anchors
    BY <1>1 DEF Reachable, G!Anchors
  <2>2. values' = values \/ values' = values \ R
    BY <1>1
  <2> QED  BY <1>2, <1>3, <1>6, <2>1, <2>2 DEF Kept
<1>8. /\ values' \in SUBSET (0..MaxInt) /\ (\A mu \in values' : mu <= low')
      /\ pc' \in {"trim", "done"} /\ config'.requested # 1 /\ threshold' # 0
  BY <1>1, <1>2
<1>9. G!SizeBounded'
  <2> SUFFICES ASSUME pc' = "done"
               PROVE  \/ Cardinality(values') <= config'.requested
                      \/ values' = {0} \cup G!Anchors'
    BY SameOperators DEF G!SizeBounded
  <2>1. UNCHANGED values /\ ~(Cardinality(values) > n /\ R # {})
    BY <1>1, SameOperators
  <2>2. Cardinality(values) \in Nat
    BY <1>5, FS_CardinalityType
  <2>3. CASE ~(Cardinality(values) > n)
    BY <1>1, <1>2, <2>1, <2>2, <2>3
  <2>4. CASE Cardinality(values) > n /\ R = {}
    <3>1. values \ (G!Anchors \cup {0}) = {}
      BY <2>4, SameOperators DEF G!Removable, R
    <3> DEFINE B == {0} \cup {G!AlphaAnchor} \cup {G!ThresholdAnchor}
    <3>2. values \in SUBSET B /\ B = {0} \cup G!Anchors
      BY <3>1 DEF G!Anchors
    <3>3. IsFiniteSet(B) /\ Cardinality(B) <= 3 /\ Cardinality(B) \in Nat
      BY AtMostThree
    <3> HIDE DEF B
    <3>4. Cardinality(values) >= 3
      BY <1>2, <2>2, <2>4
    <3>5. values = B
      <4>1. Cardinality(values) <= Cardinality(B)
            /\ (Cardinality(B) = Cardinality(values) => B = values)
        BY <3>2, <3>3, FS_Subset
      <4> QED  BY <2>2, <3>3, <3>4, <4>1
    <3> QED  BY <1>3, <2>1, <3>2, <3>5
  <2> QED  BY <2>1, <2>3, <2>4
<1> QED  BY <1>1, <1>2, <1>3, <1>4, <1>7, <1>8, <1>9 DEF GridInv

-----------------------------------------------------------------------------
(* The request: a grid is built before the lagrangian search begins, and    *)
(* never again.                                                             *)
SolveInv ==
  /\ SearchInv
  /\ IF status = "preparing" /\ search = "lagrangian" THEN GridInv ELSE pc = "unused"

LEMMA GridKeeps ==
  ASSUME GridInv, G!Next \/ UNCHANGED <<threshold, gridVars>>
  PROVE  GridInv'
<1>1. CASE G!Start
  BY <1>1, StartKeepsGrid
<1>2. CASE G!Bisect
  BY <1>2, BisectKeepsGrid
<1>3. CASE G!OnlyZero
  BY <1>3, OnlyZeroKeepsGrid
<1>4. CASE G!Fill
  BY <1>4, FillKeepsGrid
<1>5. CASE G!Trim
  BY <1>5, TrimKeepsGrid
<1>6. CASE UNCHANGED <<threshold, gridVars>>
  <2>1. UNCHANGED <<domain, threshold, config, low, high, values, pc>>
    BY <1>6 DEF gridVars
  <2>2. /\ Arguments' <=> Arguments
        /\ \A mu : G!Supported(mu)' <=> G!Supported(mu)
        /\ G!Anchors' = G!Anchors /\ G!AlphaAnchor' = G!AlphaAnchor
        /\ Reachable' = Reachable
    BY <2>1, SameArguments
  <2>3. Kept' <=> Kept
    BY <2>1, <2>2 DEF Kept
  <2>4. G!SizeBounded' <=> G!SizeBounded
    BY <2>1, <2>2, SameOperators DEF G!SizeBounded
  <2>5. G!SearchBrackets' <=> G!SearchBrackets
    BY <2>1, <2>2 DEF G!SearchBrackets
  <2> QED  BY <2>1, <2>2, <2>3, <2>4, <2>5 DEF GridInv
<1> QED  BY <1>1, <1>2, <1>3, <1>4, <1>5, <1>6 DEF G!Next

(* Before the search there are no rows, and the empty assignment is not     *)
(* feasible.                                                                *)
LEMMA IdleIsSound ==
  ASSUME Idle, threshold \in Nat
  PROVE  SearchInv
<1>1. costs = <<>> /\ grid = NoGrid /\ todo = <<>> /\ incumbent = None
  BY DEF Idle
<1>2. Rows = {} /\ costs \in Seq([1..3 -> Nat \cup {None}])
  <2>1. Len(<<>>) = 0 /\ 1..0 = {}
    OBVIOUS
  <2> QED  BY <1>1, <2>1 DEF Rows
<1>3. Setting
  <2>1. grid.q = 1 /\ grid.mu = {}
    BY <1>1 DEF NoGrid
  <2> QED  BY <1>2, <2>1 DEF Setting
<1>4. todo \in Seq(Nodes) /\ DOMAIN todo = {} /\ ToSet(todo) = {}
  BY <1>1 DEF ToSet
<1>5. Sorted(todo) /\ Behind(incumbent, todo)
  BY <1>1, <1>4 DEF Sorted, InOrder, Behind
<1>6. ASSUME NEW p \in Leaves  PROVE ~Feasible(p)
  <2>1. C3(p) = 0
    BY <1>2, SumEmpty DEF C3, Threes
  <2> QED  BY <1>3, <2>1, FeasibleMeans
<1>7. \A p \in Done(ToSet(todo)) : ~Feasible(p)
  BY <1>6 DEF Done
<1> QED  BY <1>1, <1>3, <1>5, <1>7 DEF SearchInv, Sound, BestOf, CheapestOf

LEMMA SolveBegins ==
  ASSUME SolveInit
  PROVE  SolveInv
<1>1. Idle /\ status = "preparing"
  BY DEF SolveInit, Idle
<1>2. CASE search = "lagrangian"
  <2>1. GridInv
    BY <1>2, GridBegins DEF SolveInit
  <2>2. threshold \in Nat
    BY <2>1 DEF GridInv, Arguments
  <2> QED  BY <1>1, <1>2, <2>1, <2>2, IdleIsSound DEF SolveInv
<1>3. CASE search # "lagrangian"
  <2>1. threshold \in Nat /\ pc = "unused"
    BY <1>3, SolveAssumption DEF SolveInit
  <2> QED  BY <1>1, <1>3, <2>1, IdleIsSound DEF SolveInv
<1> QED  BY <1>2, <1>3

LEMMA SearchBegins ==
  ASSUME SolveInv, BeginSearch
  PROVE  SearchInv'
<1>1. /\ status = "preparing" /\ costs' \in Matrices /\ threshold' = threshold
      /\ IF search = "lagrangian" THEN grid' = [q |-> G!Q, mu |-> values] ELSE grid' = grid
      /\ todo' = <<Root>>' /\ incumbent' = None
  BY DEF BeginSearch, Begin
<1>2. Setting
  BY DEF SolveInv, SearchInv
<1>3. grid'.q \in Nat /\ grid'.mu \in SUBSET Nat
  <2>1. CASE search = "lagrangian"
    <3>1. GridInv
      BY <1>1, <2>1 DEF SolveInv
    <3>2. G!Q \in Nat /\ values \in SUBSET Nat
      <4>1. \A v \in 0..MaxInt : v \in Nat
        BY SolveAssumption
      <4> QED  BY <3>1, <4>1, ArgumentTypes DEF GridInv
    <3>3. grid'.q = G!Q /\ grid'.mu = values
      <4> DEFINE q == G!Q
      <4>1. grid' = [q |-> q, mu |-> values]
        BY <1>1, <2>1
      <4> HIDE DEF q
      <4> QED  BY <4>1 DEF q
    <3> QED  BY <3>2, <3>3
  <2>2. CASE search # "lagrangian"
    BY <1>1, <1>2, <2>2 DEF Setting
  <2> QED  BY <2>1, <2>2
<1>4. /\ costs' \in Seq([1..3 -> Nat \cup {None}])
      /\ \A i \in DOMAIN costs' : \E m \in 1..3 : costs'[i][m] # None
  BY <1>1, MatrixAssumption
<1>5. DOMAIN costs' = 1..Len(costs')
  BY <1>4, LenProperties
<1>6. (\A i \in Rows : Methods(i) # {})'
  BY <1>4, <1>5 DEF Rows, Methods
<1>7. Fresh'
  BY <1>1, <1>2, <1>3, <1>4, <1>6 DEF Fresh, Setting
<1> QED  BY <1>7, FreshIsSoundNext

LEMMA SolveStepKeeps == SolveInv /\ [SolveNext]_solveVars => SolveInv'
<1> SUFFICES ASSUME SolveInv, [SolveNext]_solveVars  PROVE SolveInv'
  OBVIOUS
<1>1. SearchInv
  BY DEF SolveInv
<1>2. ASSUME UNCHANGED <<costs, search, grid, todo, incumbent, threshold>>
      PROVE  SearchInv'
  <2>1. UNCHANGED input /\ Setting /\ Sound(todo', incumbent')
    BY <1>1, <1>2 DEF input, SearchInv
  <2> QED  BY <2>1, SameInput
<1>3. CASE BuildGrid
  <2>1. /\ status = "preparing" /\ status' = status /\ search' = search
        /\ UNCHANGED <<costs, search, grid, todo, incumbent>> /\ G!Next
    BY <1>3 DEF BuildGrid
  <2>2. pc # "unused" /\ threshold' = threshold
    BY <2>1 DEF G!Next, G!Start, G!Bisect, G!OnlyZero, G!Fill, G!Trim, G!input
  <2>3. search = "lagrangian" /\ GridInv
    BY <2>2 DEF SolveInv
  <2>4. GridInv'
    BY <2>1, <2>3, GridKeeps
  <2> QED  BY <1>2, <2>1, <2>2, <2>3, <2>4 DEF SolveInv
<1>4. CASE BeginSearch
  <2>1. status' = "searching" /\ pc' = "unused"
    BY <1>4 DEF BeginSearch, Begin, EndBuilding
  <2>2. SearchInv'
    BY <1>4, SearchBegins
  <2> QED  BY <2>1, <2>2 DEF SolveInv
<1>5. CASE Search
  <2>1. (Step \/ PredicateFails) /\ pc' = pc
    BY <1>5 DEF Search, gridVars
  <2>2. status # "preparing" /\ status' # "preparing"
    BY <2>1 DEF Step, PredicateFails, VisitLeaf, VisitInner, VisitPlain,
                VisitEnumerated, Finish, Verify, Visit
  <2>3. SearchInv'
    BY <1>1, <2>1, StepKeepsSearch
  <2> QED  BY <2>1, <2>2, <2>3 DEF SolveInv
<1>6. CASE UNCHANGED solveVars
  <2>1. /\ UNCHANGED <<costs, search, grid, todo, incumbent, threshold>>
        /\ UNCHANGED <<threshold, gridVars>> /\ status' = status /\ pc' = pc
    BY <1>6 DEF solveVars, vars, input, gridVars
  <2>2. GridInv => GridInv'
    BY <2>1, GridKeeps
  <2> QED  BY <1>2, <2>1, <2>2 DEF SolveInv
<1> QED  BY <1>3, <1>4, <1>5, <1>6 DEF SolveNext

LEMMA SolveInvariant == SolveSpec => []SolveInv
<1>1. SolveInit => SolveInv
  BY SolveBegins
<1> QED  BY <1>1, SolveStepKeeps, PTL DEF SolveSpec

-----------------------------------------------------------------------------
(* Magnitudes.                                                              *)
LEMMA MagnitudeBelow ==
  ASSUME NEW v, NEW w \in Int, NEW e \in Int, Within(v, w), w < e
  PROVE  Magnitude(v) < e
BY DEF Within, Magnitude, G!Abs

(* What a number of bits stands for: the doublings counted reach the value, *)
(* and products of values add up their bits.                                *)
LEMMA CeilCovers ==
  ASSUME SecureBits \in Nat, NEW v \in Int, G!CeilLog2(v) <= SecureBits
  PROVE  G!CeilLog2(v) \in Nat /\ v <= 2^G!CeilLog2(v)
<1> DEFINE D == 0..SecureBits
           V == {b \in D : 2^b < v}
           k == G!CeilLog2(v)
           C == 0..k
<1>1. IsFiniteSet(D) /\ V \in SUBSET D
  BY FS_Interval
<1>2. IsFiniteSet(V) /\ Cardinality(V) \in Nat
  <2> HIDE DEF V, D
  <2> QED  BY <1>1, FS_Subset, FS_CardinalityType
<1>3. k = Cardinality(V)
  BY SameOperators DEF G!CeilLog2
<1>4. k \in Nat /\ k <= SecureBits
  BY <1>2, <1>3
<1>5. IsFiniteSet(C) /\ Cardinality(C) = k + 1
  BY <1>4, FS_Interval
<1>6. 2^k \in Int
  BY <1>4, PowerIsCount
<1> SUFFICES ASSUME 2^k < v  PROVE FALSE
  BY <1>4, <1>6
<1>7. C \in SUBSET V
  <2> SUFFICES ASSUME NEW b \in C  PROVE b \in V
    OBVIOUS
  <2>1. b \in Nat /\ b <= k /\ b \in D
    BY <1>4
  <2>2. 2^b \in Nat /\ 2^k \in Nat /\ 2^b <= 2^k
    BY <1>4, <2>1, PowerMonotone
  <2> HIDE DEF k
  <2>3. 2^b < v
    BY <2>2
  <2> QED  BY <2>1, <2>3
<1> HIDE DEF C, V, k
<1>8. Cardinality(C) <= Cardinality(V)
  BY <1>2, <1>7, FS_Subset
<1> QED  BY <1>3, <1>4, <1>5, <1>8

(* The largest cost that the domain declares. *)
CostCap == 2 ^ domain.costBits - 1

LEMMA BitsSuffice ==
  ASSUME domain.costBits \in Nat, NEW r \in Nat, NEW b \in Nat, NEW e \in Nat,
         domain.costBits + b + r <= e,
         NEW n \in Nat, n <= 2^r, NEW w \in Nat, w <= 2^b
  PROVE  CostCap \in Nat /\ n * (CostCap * w) \in Nat /\ n * (CostCap * w) < 2^e
<1> DEFINE c == domain.costBits
           x == 2^c
           y == 2^b
           z == 2^r
           u == 2^(c + b)
           t == 2^((c + b) + r)
           h == 2^e
<1>1. c \in Nat /\ c + b \in Nat /\ (c + b) + r \in Nat /\ (c + b) + r <= e
  OBVIOUS
<1>2. x \in Nat /\ 1 <= x
  <2> HIDE DEF c
  <2> QED  BY <1>1, PowerMonotone
<1>3. y \in Nat /\ 1 <= y /\ z \in Nat /\ 1 <= z
  BY PowerMonotone
<1>4. u = x * y /\ t = u * z
  <2> HIDE DEF c
  <2>1. u = x * y
    BY <1>1, PowerSum
  <2> DEFINE d == c + b
  <2>2. d \in Nat
    BY <1>1
  <2> HIDE DEF d
  <2>3. 2^(d + r) = 2^d * z
    BY <2>2, PowerSum
  <2> QED  BY <2>1, <2>3 DEF d
<1>5. t \in Nat /\ h \in Nat /\ t <= h
  <2> DEFINE f == (c + b) + r
  <2>1. f \in Nat /\ f <= e
    BY <1>1
  <2> HIDE DEF f
  <2>2. 2^f \in Nat /\ 2^e \in Nat /\ 2^f <= 2^e
    BY <2>1, PowerMonotone
  <2> QED  BY <2>2 DEF f
<1>6. CostCap = x - 1
  BY DEF CostCap
<1> HIDE DEF c, x, y, z, u, t, h
<1>7. n <= z /\ w <= y
  BY DEF y, z
<1> DEFINE a == x - 1
<1>8. a \in Nat /\ a * w \in Nat /\ a * y \in Nat /\ a * w <= a * y /\ a * y < x * y
      /\ x * y \in Nat
  BY <1>2, <1>3, <1>7
<1> DEFINE p == a * w
           q == x * y
<1>9. p \in Nat /\ q \in Nat /\ p < q /\ t = q * z
  BY <1>4, <1>8
<1> HIDE DEF a, p, q
<1>10. n * p \in Nat /\ z * p \in Nat /\ n * p <= z * p
  BY <1>3, <1>7, <1>9
<1>11. z * p < z * q /\ z * q = q * z
  BY <1>3, <1>9
<1>12. n * p < h
  BY <1>5, <1>9, <1>10, <1>11
<1>13. CostCap \in Nat /\ n * (CostCap * w) = n * p
  BY <1>6, <1>8 DEF a, p
<1> QED  BY <1>10, <1>12, <1>13 DEF h

-----------------------------------------------------------------------------
(* What a search is entitled to: costs within the declared domain, and      *)
(* multipliers whose coefficients have the bits the grid was checked for.   *)
Declared == domain \in Domains /\ domain.scale = Scale /\ threshold < Scale

Weight(k) ==
  G!Larger(G!Abs(grid.q - k * (Scale - threshold)), grid.q + k * threshold)

WeightBits(k) == G!CeilLog2(Weight(k))

Fitting(k) ==
  /\ domain.costBits + WeightBits(k) + 1 <= SecureBits
  /\ domain.costBits + WeightBits(k) + G!CeilLog2(domain.rows) <= domain.compareBits
  /\ domain.compareBits <= SecureBits

Fits == Declared /\ DomainAccepted(domain) /\ WithinDomain(costs)

LEMMA DeclaredTypes ==
  ASSUME Setting, Declared
  PROVE  /\ domain.costBits \in Nat /\ domain.compareBits \in Nat /\ SecureBits \in Nat
         /\ domain.rows \in Nat \ {0} /\ Scale \in Nat \ {0}
         /\ threshold \in Nat /\ Scale - threshold \in Nat
         /\ CostCap \in Nat
<1>1. /\ domain.costBits \in Nat /\ domain.compareBits \in Nat /\ SecureBits \in Nat
      /\ domain.rows \in Nat \ {0}
  BY SolveAssumption DEF Declared
<1>2. Scale \in Nat \ {0} /\ threshold \in Nat /\ threshold < Scale
  BY SearchAssumption DEF Setting, Declared
<1>3. 2 ^ domain.costBits \in Nat /\ 1 <= 2 ^ domain.costBits
  BY <1>1, PowerMonotone
<1>4. CostCap \in Nat
  BY <1>3 DEF CostCap
<1> QED  BY <1>1, <1>2, <1>4

LEMMA CostsWithin ==
  ASSUME Setting, Fits, NEW i \in Rows, NEW m \in Methods(i)
  PROVE  costs[i][m] \in Nat /\ costs[i][m] <= CostCap /\ m \in 1..3
<1>1. costs[i][m] \in Nat /\ m \in 1..3 /\ costs[i][m] # None
  BY RowTypes DEF Methods
<1>2. DOMAIN costs = Rows
  BY LenProperties DEF Setting, Rows
<1>3. costs[i][m] < 2 ^ domain.costBits
  BY <1>1, <1>2 DEF Fits, WithinDomain
<1>4. 2 ^ domain.costBits \in Nat
  BY DeclaredTypes, PowerIsCount DEF Fits
<1> QED  BY <1>1, <1>3, <1>4 DEF CostCap

(* A contribution of a row, and how far two of them are apart.              *)
LEMMA ContributionsWithin ==
  ASSUME Setting, Fits, NEW i \in Rows
  PROVE  /\ \A m \in Methods(i) : Within(Contribution(i, m), CostCap * Scale)
         /\ \A a, b \in Methods(i) :
              Within(Contribution(i, a) - Contribution(i, b), CostCap * Scale)
<1> DEFINE t == threshold
           s == Scale - threshold
           c == CostCap
<1>1. t \in Nat /\ s \in Nat /\ c \in Nat /\ s + t = Scale /\ Scale \in Nat
  BY DeclaredTypes DEF Fits
<1>2. c * t \in Nat /\ c * s \in Nat /\ c * Scale = c * s + c * t
  <2> HIDE DEF c, t, s
  <2>1. c * t \in Nat /\ c * s \in Nat /\ c * (s + t) = c * s + c * t
    BY <1>1
  <2> QED  BY <1>1, <2>1
<1>3. ASSUME NEW m \in Methods(i)
      PROVE  /\ Contribution(i, m) \in Int
             /\ -(c * t) <= Contribution(i, m) /\ Contribution(i, m) <= c * s
  <2> DEFINE x == costs[i][m]
  <2>1. x \in Nat /\ x <= c /\ m \in 1..3
    BY CostsWithin
  <2>2. Contribution(i, m) = IF m < 3 THEN x * s ELSE x * (-t)
    BY DEF Contribution
  <2> HIDE DEF x, c, s, t
  <2>3. /\ x * s \in Nat /\ x * s <= c * s /\ x * t \in Nat /\ x * t <= c * t
        /\ x * (-t) = -(x * t)
    BY <1>1, <2>1
  <2> QED  BY <1>2, <2>2, <2>3
<1> DEFINE u == c * t
           v == c * s
<1>4. u \in Nat /\ v \in Nat /\ CostCap * Scale = v + u
  BY <1>2
<1>5. \A m \in Methods(i) : /\ Contribution(i, m) \in Int
                            /\ -u <= Contribution(i, m) /\ Contribution(i, m) <= v
  BY <1>3
<1> HIDE DEF u, v
<1>6. ASSUME NEW m \in Methods(i)  PROVE Within(Contribution(i, m), v + u)
  BY <1>4, <1>5 DEF Within
<1>7. ASSUME NEW a \in Methods(i), NEW b \in Methods(i)
      PROVE  Within(Contribution(i, a) - Contribution(i, b), v + u)
  <2>1. /\ Contribution(i, a) \in Int /\ -u <= Contribution(i, a) /\ Contribution(i, a) <= v
        /\ Contribution(i, b) \in Int /\ -u <= Contribution(i, b) /\ Contribution(i, b) <= v
    BY <1>5
  <2> QED  BY <1>4, <2>1 DEF Within
<1> QED  BY <1>4, <1>6, <1>7

LEMMA WeightTypes ==
  ASSUME Setting, Fits, NEW k \in Nat
  PROVE  /\ Weight(k) \in Nat
         /\ Within(grid.q - k * (Scale - threshold), Weight(k))
         /\ Within(grid.q + k * threshold, Weight(k))
         /\ grid.q \in Nat /\ grid.q <= Weight(k)
<1> DEFINE q == grid.q
           x == k * (Scale - threshold)
           y == k * threshold
<1>1. q \in Nat /\ x \in Nat /\ y \in Nat
  BY DeclaredTypes DEF Fits, Setting
<1>2. Weight(k) = G!Larger(G!Abs(q - x), q + y)
  BY DEF Weight
<1> HIDE DEF q, x, y
<1> DEFINE a == G!Abs(q - x)
<1>3. a = IF q - x < 0 THEN x - q ELSE q - x
  BY <1>1 DEF G!Abs
<1> HIDE DEF a
<1>4. Weight(k) = IF a > q + y THEN a ELSE q + y
  BY <1>2 DEF G!Larger, a
<1>5. /\ Weight(k) \in Nat /\ q <= Weight(k)
      /\ -Weight(k) <= q - x /\ q - x <= Weight(k)
      /\ -Weight(k) <= q + y /\ q + y <= Weight(k)
  BY <1>1, <1>3, <1>4
<1> QED  BY <1>1, <1>5 DEF Within, q, x, y

(* A score is the cost times the coefficient of its method.                 *)
LEMMA ScoresWithin ==
  ASSUME Setting, Fits, NEW i \in Rows, NEW k \in grid.mu
  PROVE  /\ \A m \in Methods(i) : Within(Score(i, m, k), CostCap * Weight(k))
         /\ \A a, b \in Methods(i) :
              Within(Score(i, a, k) - Score(i, b, k), 2 * (CostCap * Weight(k)))
<1>0. k \in Nat
  BY DEF Setting
<1> DEFINE q == grid.q
           t == threshold
           s == Scale - threshold
           w == Weight(k)
           c == CostCap
<1>1. /\ q \in Nat /\ t \in Nat /\ s \in Nat /\ c \in Nat /\ w \in Nat /\ k \in Nat
      /\ Within(q - k * s, w) /\ Within(q + k * t, w)
  BY <1>0, DeclaredTypes, WeightTypes DEF Fits
<1>2. ASSUME NEW m \in Methods(i)  PROVE Within(Score(i, m, k), c * w)
  <2> DEFINE x == costs[i][m]
  <2>1. x \in Nat /\ x <= c /\ m \in 1..3
    BY CostsWithin
  <2>2. Score(i, m, k) = q * x - k * (x * (IF m < 3 THEN s ELSE -t))
    BY DEF Score, Contribution
  <2> HIDE DEF x, c, s, t, q, w
  <2>3. Within(x * (q - k * s), c * w) /\ Within(x * (q + k * t), c * w)
    BY <1>1, <2>1, WithinProduct
  <2>4. q * x - k * (x * s) = x * (q - k * s)
    BY <1>1, <2>1
  <2>5. q * x - k * (x * (-t)) = x * (q + k * t)
    <3>1. x * (-t) = -(x * t) /\ x * t \in Nat
      BY <1>1, <2>1
    <3>2. k * (-(x * t)) = -(k * (x * t)) /\ k * (x * t) = x * (k * t) /\ k * t \in Nat
          /\ q * x = x * q /\ x * (q + k * t) = x * q + x * (k * t)
          /\ x * q \in Nat /\ x * (k * t) \in Nat
      BY <1>1, <2>1, <3>1
    <3> QED  BY <3>1, <3>2
  <2>6. CASE m < 3
    <3>1. Score(i, m, k) = x * (q - k * s)
      BY <2>2, <2>4, <2>6
    <3> QED  BY <2>3, <3>1, Zenon
  <2>7. CASE ~(m < 3)
    <3>1. Score(i, m, k) = x * (q + k * t)
      BY <2>2, <2>5, <2>7
    <3> QED  BY <2>3, <3>1, Zenon
  <2> QED  BY <2>6, <2>7
<1> DEFINE v == c * w
<1>3. v \in Nat
  <2> HIDE DEF c, w
  <2> QED  BY <1>1
<1>4. \A m \in Methods(i) : Within(Score(i, m, k), v)
  BY <1>2
<1> HIDE DEF v
<1>5. ASSUME NEW a \in Methods(i), NEW b \in Methods(i)
      PROVE  Within(Score(i, a, k) - Score(i, b, k), 2 * v)
  <2>1. Within(Score(i, a, k) - Score(i, b, k), v + v)
    <3> DEFINE x == Score(i, a, k)
               y == Score(i, b, k)
    <3>1. Within(x, v) /\ Within(y, v) /\ v \in Int
      BY <1>3, <1>4
    <3> HIDE DEF x, y
    <3>2. Within(x - y, v + v)
      BY <3>1, WithinSum
    <3> QED  BY <3>2 DEF x, y
  <2>2. v + v = 2 * v
    BY <1>3
  <2> QED  BY <2>1, <2>2, Zenon
<1> QED  BY <1>4, <1>5 DEF v

(* What is best in a row is one of its values.                              *)
LEMMA BestsWithin ==
  ASSUME Setting, Fits, NEW i \in Rows
  PROVE  /\ Within(RowMinCost(i), CostCap * 1)
         /\ Within(RowMaxLinear(i), CostCap * Scale)
         /\ \A k \in grid.mu : Within(RowLower(i, k), CostCap * Weight(k))
<1>1. Within(RowMinCost(i), CostCap * 1)
  <2>1. PICK m \in Methods(i) : RowMinCost(i) = costs[i][m]
    BY RowBounds
  <2>2. costs[i][m] \in Nat /\ costs[i][m] <= CostCap
    BY CostsWithin
  <2>3. CostCap \in Nat /\ CostCap * 1 = CostCap
    BY DeclaredTypes DEF Fits
  <2> QED  BY <2>1, <2>2, <2>3 DEF Within
<1>2. Within(RowMaxLinear(i), CostCap * Scale)
  BY RowBounds, ContributionsWithin, Zenon
<1>3. ASSUME NEW k \in grid.mu  PROVE Within(RowLower(i, k), CostCap * Weight(k))
  BY RowLowerBounds, ScoresWithin, Zenon
<1> QED  BY <1>1, <1>2, <1>3

-----------------------------------------------------------------------------
(* Sums along a path and below it have no more terms than the matrix rows.  *)
LEMMA RowCount ==
  ASSUME Setting, NEW n \in 0..Len(costs), NEW d, NEW b,
         d = 1..n, b = n + 1 .. Len(costs)
  PROVE  /\ IsFiniteSet(Rows) /\ d \in SUBSET Rows /\ b \in SUBSET Rows
         /\ IsFiniteSet(d) /\ Cardinality(d) = n
         /\ IsFiniteSet(b) /\ Cardinality(b) = Len(costs) - n
         /\ Cardinality(Rows) = Len(costs) /\ Len(costs) \in Nat
<1>1. Len(costs) \in Nat /\ n \in Nat /\ n <= Len(costs) /\ IsFiniteSet(Rows)
  BY RowsAreFinite
<1>2. IsFiniteSet(1..n) /\ Cardinality(1..n) = n
  BY <1>1, FS_Interval
<1>3. IsFiniteSet(n + 1 .. Len(costs)) /\ Cardinality(n + 1 .. Len(costs)) = Len(costs) - n
  <2>1. n + 1 \in Int /\ Len(costs) \in Int
    BY <1>1
  <2>2. /\ IsFiniteSet(n + 1 .. Len(costs))
        /\ Cardinality(n + 1 .. Len(costs))
             = IF n + 1 > Len(costs) THEN 0 ELSE Len(costs) - (n + 1) + 1
    BY <2>1, FS_Interval
  <2> QED  BY <1>1, <2>2
<1>4. Cardinality(1..Len(costs)) = Len(costs)
  <2> DEFINE r == Len(costs)
  <2>1. 1 \in Int /\ r \in Int /\ r >= 0
    BY <1>1
  <2> HIDE DEF r
  <2>2. Cardinality(1..r) = IF 1 > r THEN 0 ELSE r - 1 + 1
    BY <2>1, FS_Interval
  <2>3. Cardinality(1..r) = r
    BY <2>1, <2>2
  <2> QED  BY <2>3 DEF r
<1>5. 1..n \in SUBSET Rows /\ n + 1 .. Len(costs) \in SUBSET Rows
  BY <1>1 DEF Rows
<1> QED  BY <1>1, <1>2, <1>3, <1>4, <1>5 DEF Rows

(* A value summed along a path and one below it, with the same limit for    *)
(* every row.                                                               *)
LEMMA NodeSumWithin ==
  ASSUME Setting, NEW x, Exact(x), NEW w \in Nat,
         NEW f \in [DOMAIN x.path -> Int], NEW g \in [Rows -> Int],
         \A i \in DOMAIN x.path : Within(f[i], w),
         \A i \in Rows : Within(g[i], w)
  PROVE  /\ Within(SumOver(f, DOMAIN x.path), Len(costs) * w)
         /\ Within(SumOver(f, DOMAIN x.path) + SumOver(g, Below(x)), Len(costs) * w)
<1> DEFINE n == Len(x.path)
           d == DOMAIN x.path
           b == Below(x)
<1>1. n \in 0..Len(costs) /\ d = 1..n /\ b = n + 1 .. Len(costs)
  BY ChosenTypes DEF Exact, Assigns, Below
<1> HIDE DEF n, d, b
<1>2. /\ IsFiniteSet(Rows) /\ b \in SUBSET Rows /\ IsFiniteSet(d) /\ Cardinality(d) = n
      /\ Cardinality(b) = Len(costs) - n /\ Len(costs) \in Nat
  BY <1>1, RowCount
<1>3. f \in [d -> Int] /\ (\A i \in d : Within(f[i], w)) /\ d \in SUBSET d
  BY DEF d
<1>4. Within(SumOver(f, d), Cardinality(d) * w)
  BY <1>2, <1>3, SumWithin
<1>5. Within(SumOver(g, b), Cardinality(b) * w)
  BY <1>2, SumWithin
<1> DEFINE r == Len(costs)
           v == n * w
           u == (r - n) * w
           z == r * w
<1>6. r \in Nat /\ n \in Nat /\ n <= r
  BY <1>1, <1>2
<1>7. v \in Nat /\ u \in Nat /\ z \in Nat /\ v + u = z
  <2> HIDE DEF r
  <2>1. n * w \in Nat /\ (r - n) * w \in Nat /\ r * w \in Nat
    BY <1>6
  <2>2. n * w + (r - n) * w = r * w
    BY <1>6
  <2> QED  BY <2>1, <2>2
<1>8. Within(SumOver(f, d), v) /\ Within(SumOver(g, b), u)
  BY <1>2, <1>4, <1>5
<1> HIDE DEF v, u, z, r
<1>9. Within(SumOver(f, d) + SumOver(g, b), v + u)
  BY <1>7, <1>8, WithinSum
<1>10. Within(SumOver(f, d), z)
  BY <1>7, <1>8 DEF Within
<1> QED  BY <1>7, <1>9, <1>10, Zenon DEF d, b, z, r

LEMMA NodeWithin ==
  ASSUME Setting, Fits, NEW x, Exact(x)
  PROVE  /\ Within(x.linear, Len(costs) * (CostCap * Scale))
         /\ Within(LinearUpper(x), Len(costs) * (CostCap * Scale))
         /\ Within(x.total + MinCostSuffix(x), Len(costs) * (CostCap * 1))
         /\ \A k \in grid.mu :
              Within(x.lag[k] + LagrangianSuffix(x, k), Len(costs) * (CostCap * Weight(k)))
<1> DEFINE p == x.path
           d == DOMAIN x.path
<1>1. /\ Chosen(p) \in [d -> Int] /\ Linears(p) \in [d -> Int]
      /\ \A k \in grid.mu : Scores(p, k) \in [d -> Int]
      /\ \A i \in d : i \in Rows /\ p[i] \in Methods(i)
  BY ChosenTypes DEF Exact
<1>2. /\ x.total = SumOver(Chosen(p), d) /\ x.linear = SumOver(Linears(p), d)
      /\ \A k \in grid.mu : x.lag[k] = SumOver(Scores(p, k), d)
  BY DEF Exact
<1>3. CostCap \in Nat /\ Scale \in Nat
  BY DeclaredTypes DEF Fits
<1>4. CostCap * Scale \in Nat /\ CostCap * 1 \in Nat
  BY <1>3
<1>5. \A i \in d : /\ Chosen(p)[i] = costs[i][p[i]] /\ Linears(p)[i] = Contribution(i, p[i])
                   /\ \A k : Scores(p, k)[i] = Score(i, p[i], k)
  BY DEF Chosen, Linears, Scores
<1>6. /\ Within(x.linear, Len(costs) * (CostCap * Scale))
      /\ Within(LinearUpper(x), Len(costs) * (CostCap * Scale))
  <2> DEFINE g == [i \in Rows |-> RowMaxLinear(i)]
             f == Linears(p)
             w == CostCap * Scale
  <2>1. g \in [Rows -> Int] /\ \A i \in Rows : g[i] = RowMaxLinear(i)
    BY RowBounds
  <2>2. \A i \in Rows : Within(g[i], w)
    BY <2>1, BestsWithin
  <2>3. \A i \in d : Within(f[i], w)
    BY <1>1, <1>5, ContributionsWithin
  <2>4. LinearUpper(x) = x.linear + SumOver(g, Below(x))
    BY DEF LinearUpper, MaxLinearSuffix
  <2>5. f \in [DOMAIN x.path -> Int] /\ w \in Nat /\ \A i \in DOMAIN x.path : Within(f[i], w)
    BY <1>1, <1>4, <2>3
  <2>6. x.linear = SumOver(f, DOMAIN x.path)
    BY <1>2
  <2> HIDE DEF f, g, w, p, d
  <2>7. /\ Within(SumOver(f, DOMAIN x.path), Len(costs) * w)
        /\ Within(SumOver(f, DOMAIN x.path) + SumOver(g, Below(x)), Len(costs) * w)
    BY <2>1, <2>2, <2>5, NodeSumWithin
  <2> QED  BY <2>4, <2>6, <2>7, Zenon DEF w
<1>7. Within(x.total + MinCostSuffix(x), Len(costs) * (CostCap * 1))
  <2> DEFINE g == [i \in Rows |-> RowMinCost(i)]
             f == Chosen(p)
             w == CostCap * 1
  <2>1. g \in [Rows -> Int] /\ \A i \in Rows : g[i] = RowMinCost(i)
    BY RowBounds
  <2>2. \A i \in Rows : Within(g[i], w)
    BY <2>1, BestsWithin
  <2>3. \A i \in d : Within(f[i], w)
    <3> SUFFICES ASSUME NEW i \in d  PROVE Within(f[i], w)
      OBVIOUS
    <3>1. f[i] \in Nat /\ f[i] <= CostCap
      BY <1>1, <1>5, CostsWithin
    <3> QED  BY <1>3, <3>1 DEF Within
  <2>4. MinCostSuffix(x) = SumOver(g, Below(x))
    BY DEF MinCostSuffix
  <2>5. f \in [DOMAIN x.path -> Int] /\ w \in Nat /\ \A i \in DOMAIN x.path : Within(f[i], w)
    BY <1>1, <1>4, <2>3
  <2>6. x.total = SumOver(f, DOMAIN x.path)
    BY <1>2
  <2> HIDE DEF f, g, w, p, d
  <2>7. Within(SumOver(f, DOMAIN x.path) + SumOver(g, Below(x)), Len(costs) * w)
    BY <2>1, <2>2, <2>5, NodeSumWithin
  <2> QED  BY <2>4, <2>6, <2>7, Zenon DEF w
<1>8. ASSUME NEW k \in grid.mu
      PROVE  Within(x.lag[k] + LagrangianSuffix(x, k), Len(costs) * (CostCap * Weight(k)))
  <2> DEFINE g == [i \in Rows |-> RowLower(i, k)]
             f == Scores(p, k)
             w == CostCap * Weight(k)
  <2>0. k \in Nat /\ Weight(k) \in Nat
    BY WeightTypes DEF Setting
  <2>1. g \in [Rows -> Int] /\ \A i \in Rows : g[i] = RowLower(i, k)
    BY RowLowerBounds
  <2>2. \A i \in Rows : Within(g[i], w)
    BY <2>1, BestsWithin
  <2>3. \A i \in d : Within(f[i], w)
    BY <1>1, <1>5, ScoresWithin
  <2>4. LagrangianSuffix(x, k) = SumOver(g, Below(x))
    BY DEF LagrangianSuffix
  <2>5. f \in [DOMAIN x.path -> Int] /\ w \in Nat /\ \A i \in DOMAIN x.path : Within(f[i], w)
    BY <1>1, <1>3, <2>0, <2>3
  <2>6. x.lag[k] = SumOver(f, DOMAIN x.path)
    BY <1>2
  <2> HIDE DEF f, g, w, p, d
  <2>7. Within(SumOver(f, DOMAIN x.path) + SumOver(g, Below(x)), Len(costs) * w)
    BY <2>1, <2>2, <2>5, NodeSumWithin
  <2> QED  BY <2>4, <2>6, <2>7, Zenon DEF w
<1> QED  BY <1>6, <1>7, <1>8

LEMMA SolutionWithin ==
  ASSUME Setting, Fits, NEW i, IsSolution(i)
  PROVE  /\ Within(i.total, Len(costs) * (CostCap * 1))
         /\ Within(grid.q * i.total, Len(costs) * (CostCap * Weight(0)))
<1> DEFINE p == i.path
           f == Chosen(p)
<1>1. Assigns(p, Len(costs))
  BY LeafAssigns DEF IsSolution
<1>2. /\ DOMAIN p = 1..Len(costs) /\ f \in [DOMAIN p -> Int]
      /\ \A j \in DOMAIN p : j \in Rows /\ p[j] \in Methods(j)
  BY <1>1, ChosenTypes
<1>3. /\ CostCap \in Nat /\ Len(costs) \in Nat /\ IsFiniteSet(Rows)
      /\ Weight(0) \in Nat /\ grid.q \in Nat /\ grid.q <= Weight(0)
  <2>1. 0 \in Nat
    OBVIOUS
  <2> QED  BY <2>1, DeclaredTypes, RowsAreFinite, WeightTypes DEF Fits
<1>4. \A j \in DOMAIN p : Within(f[j], CostCap)
  <2> SUFFICES ASSUME NEW j \in DOMAIN p  PROVE Within(f[j], CostCap)
    OBVIOUS
  <2>1. f[j] = costs[j][p[j]]
    BY DEF Chosen
  <2>2. f[j] \in Nat /\ f[j] <= CostCap
    BY <1>2, <2>1, CostsWithin
  <2> QED  BY <1>3, <2>2 DEF Within
<1>5. i.total = SumOver(f, Rows) /\ DOMAIN p = Rows
  BY <1>2 DEF IsSolution, Total, Rows
<1> HIDE DEF f, p
<1>6. Cardinality(Rows) = Len(costs)
  <2>1. Len(costs) \in 0..Len(costs)
    BY <1>3
  <2> QED  BY <2>1, RowCount
<1>7. Within(SumOver(f, Rows), Len(costs) * CostCap)
  <2>1. Rows \in SUBSET Rows /\ f \in [Rows -> Int] /\ \A j \in Rows : Within(f[j], CostCap)
    BY <1>2, <1>4, <1>5
  <2> QED  BY <1>3, <1>6, <2>1, SumWithin
<1> DEFINE n == Len(costs)
           c == CostCap
           w == Weight(0)
           m == n * c
           t == i.total
<1>8. n \in Nat /\ c \in Nat /\ w \in Nat /\ Within(t, m)
  BY <1>3, <1>5, <1>7
<1>9. grid.q \in Nat /\ grid.q <= w
  BY <1>3
<1>10. m \in Nat /\ n * (c * 1) = m /\ w * m = n * (c * w)
  <2> HIDE DEF n, c, w
  <2>1. n * c \in Nat /\ c * 1 = c /\ w * (n * c) = n * (c * w)
    BY <1>8
  <2> QED  BY <2>1
<1> HIDE DEF n, c, w, m, t
<1>11. Within(grid.q * t, w * m)
  BY <1>8, <1>9, <1>10, WithinProduct
<1>12. Within(t, n * (c * 1)) /\ Within(grid.q * t, n * (c * w))
  BY <1>8, <1>10, <1>11, Zenon
<1> QED  BY <1>12 DEF n, c, w, t

(* The limits.                                                              *)
LEMMA LinearBits ==
  ASSUME Setting, Fits
  PROVE  /\ CostCap * Scale \in Nat /\ CostCap * Scale < 2^SecureBits
         /\ Len(costs) * (CostCap * Scale) \in Nat
         /\ Len(costs) * (CostCap * Scale) < 2 ^ domain.compareBits
         /\ Len(costs) * (CostCap * 1) \in Nat
         /\ Len(costs) * (CostCap * 1) < 2 ^ domain.compareBits
<1> DEFINE b == domain.costBits
           r == G!CeilLog2(domain.rows)
           s == G!CeilLog2(domain.scale)
           e == domain.compareBits
<1>1. /\ b \in Nat /\ e \in Nat /\ SecureBits \in Nat
      /\ domain.rows \in Nat \ {0} /\ Scale \in Nat \ {0} /\ domain.scale = Scale
  BY DeclaredTypes DEF Fits, Declared
<1>2. (b + r) + s + 1 <= e /\ e <= SecureBits
  BY DEF Fits, DomainAccepted
<1>3. r \in Nat /\ s \in Nat
  BY <1>1, CeilLog2Monotone
<1>4. r <= SecureBits /\ s <= SecureBits
  <2> HIDE DEF b, r, s, e
  <2> QED  BY <1>1, <1>2, <1>3
<1>5. domain.rows <= 2^r /\ Scale <= 2^s
  BY <1>1, <1>4, CeilCovers
<1>6. Len(costs) \in Nat /\ Len(costs) <= domain.rows
  BY RowsAreFinite DEF Fits, WithinDomain
<1>7. 2^r \in Nat
  BY <1>3, PowerIsCount
<1>8. Len(costs) <= 2^r
  BY <1>1, <1>5, <1>6, <1>7
<1>9. 2^0 = 1 /\ 1 \in Nat /\ 0 \in Nat /\ 1 <= 1 /\ Scale \in Nat
  BY <1>1, PowerZero
<1> HIDE DEF r, s, e
<1>10. /\ domain.costBits + s + r <= e /\ domain.costBits + s + 0 <= SecureBits
       /\ domain.costBits + 0 + r <= e /\ domain.costBits \in Nat
  BY <1>1, <1>2, <1>3
<1>11. /\ CostCap \in Nat /\ Len(costs) * (CostCap * Scale) \in Nat
       /\ Len(costs) * (CostCap * Scale) < 2^e
  BY <1>1, <1>3, <1>5, <1>6, <1>8, <1>10, BitsSuffice
<1>12. Len(costs) * (CostCap * 1) \in Nat /\ Len(costs) * (CostCap * 1) < 2^e
  <2>1. 1 <= 2^0
    BY <1>9, Zenon
  <2> QED  BY <1>1, <1>3, <1>6, <1>8, <1>9, <1>10, <2>1, BitsSuffice
<1>13. 1 * (CostCap * Scale) \in Nat /\ 1 * (CostCap * Scale) < 2^SecureBits
  <2>1. 1 <= 2^0
    BY <1>9, Zenon
  <2> QED  BY <1>1, <1>3, <1>5, <1>9, <1>10, <2>1, BitsSuffice
<1>14. 1 * (CostCap * Scale) = CostCap * Scale
  BY <1>1, <1>11
<1>15. CostCap * Scale \in Nat /\ CostCap * Scale < 2^SecureBits
  BY <1>13, <1>14, Zenon
<1> QED  BY <1>11, <1>12, <1>15 DEF e

LEMMA ScoreBitsSuffice ==
  ASSUME Setting, Fits, NEW k \in Nat, Fitting(k)
  PROVE  /\ 2 * (CostCap * Weight(k)) \in Nat /\ 2 * (CostCap * Weight(k)) < 2^SecureBits
         /\ Len(costs) * (CostCap * Weight(k)) \in Nat
         /\ Len(costs) * (CostCap * Weight(k)) < 2 ^ domain.compareBits
<1> DEFINE b == domain.costBits
           r == G!CeilLog2(domain.rows)
           w == Weight(k)
           s == G!CeilLog2(w)
           e == domain.compareBits
<1>1. /\ b \in Nat /\ e \in Nat /\ SecureBits \in Nat
      /\ domain.rows \in Nat \ {0} /\ w \in Nat
  BY DeclaredTypes, WeightTypes DEF Fits, Declared
<1>2. b + s + 1 <= SecureBits /\ b + s + r <= e /\ e <= SecureBits
  BY DEF Fitting, WeightBits
<1> HIDE DEF w
<1>3. r \in Nat /\ s \in Nat
  BY <1>1, CeilLog2Monotone
<1>4. r <= SecureBits /\ s <= SecureBits
  <2> HIDE DEF b, r, s, e
  <2> QED  BY <1>1, <1>2, <1>3
<1>5. domain.rows <= 2^r /\ w <= 2^s
  BY <1>1, <1>4, CeilCovers
<1>6. Len(costs) \in Nat /\ Len(costs) <= domain.rows
  BY RowsAreFinite DEF Fits, WithinDomain
<1>7. 2^r \in Nat
  BY <1>3, PowerIsCount
<1>8. Len(costs) <= 2^r
  BY <1>1, <1>5, <1>6, <1>7
<1>9. 2 <= 2^1 /\ 1 \in Nat /\ 2 \in Nat
  <2>1. 2^(0 + 1) = 2 * 2^0 /\ 2^0 = 1
    BY PowerNext, PowerZero
  <2>2. 0 + 1 = 1 /\ 2 * 1 = 2 /\ 2 <= 2
    OBVIOUS
  <2>3. 2^1 = 2
    BY <2>1, <2>2, Zenon
  <2> QED  BY <2>2, <2>3, Zenon
<1> HIDE DEF r, s, e
<1>10. /\ domain.costBits + s + r <= e /\ domain.costBits + s + 1 <= SecureBits
       /\ domain.costBits \in Nat
  BY <1>1, <1>2, <1>3
<1>11. /\ Len(costs) * (CostCap * w) \in Nat
       /\ Len(costs) * (CostCap * w) < 2^e
  BY <1>1, <1>3, <1>5, <1>6, <1>8, <1>10, BitsSuffice
<1>12. 2 * (CostCap * w) \in Nat /\ 2 * (CostCap * w) < 2^SecureBits
  BY <1>1, <1>3, <1>5, <1>9, <1>10, BitsSuffice
<1> QED  BY <1>11, <1>12 DEF e, w

-----------------------------------------------------------------------------
(* What was validated when the search began stays true of its input.       *)
Bounded == status # "preparing" /\ search \in {"suffix", "lagrangian"}

FitInv ==
  /\ search = "suffix" => grid = NoGrid
  /\ status = "preparing" /\ search = "suffix" => Declared
  /\ Bounded => Fits
  /\ Bounded /\ search = "lagrangian" => \A k \in grid.mu \cup {0} : Fitting(k)

LEMMA FitBegins ==
  ASSUME SolveInit
  PROVE  FitInv
<1>1. status = "preparing"
  BY DEF SolveInit, Idle
<1>2. ASSUME search = "suffix"  PROVE Declared
  <2>1. /\ threshold \in {t \in SearchThresholds : search = "suffix" => t < Scale}
        /\ domain \in {s[1] : s \in Searched}
    BY <1>2 DEF SolveInit
  <2>2. PICK s \in Searched : domain = s[1]
    BY <2>1
  <2>3. s \in Domains \X Configs /\ s[1].scale = Scale
    BY SolveAssumption
  <2> QED  BY <1>2, <2>1, <2>2, <2>3 DEF Declared
<1>3. grid = NoGrid
  BY DEF SolveInit, Idle
<1> QED  BY <1>1, <1>2, <1>3 DEF FitInv, Bounded

(* The grid the search takes over has passed the checks of its builder.     *)
LEMMA GridFitsBegins ==
  ASSUME SolveInv, BeginSearch, search = "lagrangian"
  PROVE  Declared /\ \A k \in (grid.mu \cup {0})' : Fitting(k)'
<1>1. /\ status = "preparing" /\ pc = "done" /\ Continues
      /\ grid' = [q |-> G!Q, mu |-> values]
      /\ domain' = domain /\ threshold' = threshold
  BY DEF BeginSearch, EndBuilding
<1>2. GridInv
  BY <1>1 DEF SolveInv
<1>3. Declared
  <2>1. <<domain, config>> \in Searched /\ threshold < domain.scale /\ domain \in Domains
    BY <1>1, <1>2 DEF Continues, GridInv, Arguments
  <2>2. <<domain, config>>[1].scale = Scale
    BY <2>1, SolveAssumption
  <2> QED  BY <2>1, <2>2 DEF Declared
<1>4. ASSUME NEW k \in values \cup {0}  PROVE G!Supported(k)
  <2>1. low \in 0..MaxInt /\ values \in SUBSET (0..MaxInt) /\ MaxInt \in Nat
        /\ \A mu \in values : mu <= low
    BY <1>1, <1>2, SolveAssumption DEF GridInv
  <2>2. k \in 0..MaxInt /\ k <= low
    BY <2>1
  <2> QED  BY <1>1, <1>2, <2>2 DEF GridInv, G!SearchBrackets
<1> DEFINE q == G!Q
<1>5. grid'.q = q /\ grid'.mu = values
  <2>1. grid' = [q |-> q, mu |-> values]
    BY <1>1
  <2> HIDE DEF q
  <2> QED  BY <2>1
<1>6. ASSUME NEW k \in values \cup {0}  PROVE Fitting(k)'
  <2>1. Weight(k)' = G!Larger(G!Abs(q - k * (Scale - threshold)), q + k * threshold)
    BY <1>1, <1>5 DEF Weight, G!Larger, G!Abs
  <2>2. G!Alpha = Scale - threshold
    BY <1>3 DEF G!Alpha, Declared
  <2>3. Weight(k)' = G!CoefficientBound(k)
    BY <2>1, <2>2, Zenon DEF G!CoefficientBound
  <2>4. WeightBits(k)' = G!CeilLog2(G!CoefficientBound(k))
    BY <2>3 DEF WeightBits, G!CeilLog2
  <2>5. (G!CeilLog2(domain.rows))' = G!CeilLog2(domain.rows)
    BY <1>1 DEF G!CeilLog2
  <2>6. /\ G!DeltaBits(k) <= SecureBits /\ G!BoundBits(k) <= domain.compareBits
        /\ domain.compareBits <= SecureBits
    BY <1>4 DEF G!Supported
  <2> QED  BY <1>1, <2>4, <2>5, <2>6 DEF Fitting, G!DeltaBits, G!BoundBits, G!ScoreBits
<1> QED  BY <1>3, <1>5, <1>6

LEMMA FitKeeps ==
  ASSUME SolveInv, FitInv, [SolveNext]_solveVars
  PROVE  FitInv'
<1>1. ASSUME UNCHANGED <<costs, domain, threshold, search, grid>>,
             status' = "preparing" <=> status = "preparing"
      PROVE  FitInv'
  <2>1. /\ costs' = costs /\ domain' = domain /\ threshold' = threshold
        /\ search' = search /\ grid' = grid
    BY <1>1
  <2>2. Declared' <=> Declared
    BY <2>1 DEF Declared
  <2>3. \A v : (G!CeilLog2(v))' = G!CeilLog2(v)
    BY DEF G!CeilLog2
  <2>4. Fits' <=> Fits
    BY <2>1, <2>2, <2>3 DEF Fits, DomainAccepted, WithinDomain
  <2>5. \A k : Fitting(k)' <=> Fitting(k)
    BY <2>1, <2>3 DEF Fitting, WeightBits, Weight, G!CeilLog2
  <2>6. Bounded' <=> Bounded
    BY <1>1, <2>1 DEF Bounded
  <2> QED  BY <1>1, <2>1, <2>2, <2>4, <2>5, <2>6 DEF FitInv
<1>2. CASE BuildGrid
  <2>1. /\ status = "preparing" /\ status' = status /\ search' = search /\ G!Next
        /\ grid' = grid
    BY <1>2 DEF BuildGrid
  <2>2. pc # "unused"
    BY <2>1 DEF G!Next, G!Start, G!Bisect, G!OnlyZero, G!Fill, G!Trim
  <2>3. search = "lagrangian"
    BY <2>2 DEF SolveInv
  <2> QED  BY <2>1, <2>3 DEF FitInv, Bounded
<1>3. CASE BeginSearch
  <2>1. /\ status = "preparing" /\ status' = "searching" /\ search' = search
        /\ domain' = domain /\ threshold' = threshold
        /\ search = "suffix" => DomainAccepted(domain)
        /\ search = "lagrangian" => DomainAccepted(domain)
        /\ search \in {"suffix", "lagrangian"} => WithinDomain(costs')
        /\ search = "suffix" => grid' = grid
    BY <1>3 DEF BeginSearch, Begin, EndBuilding, Continues
  <2>2. search \in {"suffix", "lagrangian"} => Declared
    BY <1>3, <2>1, GridFitsBegins DEF FitInv
  <2>3. search \in {"suffix", "lagrangian"} => Fits'
    <3>1. Declared' <=> Declared
      BY <2>1 DEF Declared
    <3>2. DomainAccepted(domain)' <=> DomainAccepted(domain)
      BY <2>1 DEF DomainAccepted, G!CeilLog2
    <3>3. WithinDomain(costs)' <=> WithinDomain(costs')
      BY <2>1 DEF WithinDomain
    <3> QED  BY <2>1, <2>2, <3>1, <3>2, <3>3 DEF Fits
  <2>4. search = "lagrangian" => \A k \in (grid.mu \cup {0})' : Fitting(k)'
    BY <1>3, GridFitsBegins
  <2> QED  BY <2>1, <2>3, <2>4 DEF FitInv, Bounded
<1>4. CASE Search
  <2>1. (Step \/ PredicateFails) /\ UNCHANGED gridVars
    BY <1>4 DEF Search
  <2>2. /\ status # "preparing" /\ status' # "preparing"
        /\ UNCHANGED input
    BY <2>1 DEF Step, PredicateFails, VisitLeaf, VisitInner, VisitPlain,
                VisitEnumerated, Finish, Verify, Visit
  <2> QED  BY <1>1, <2>1, <2>2 DEF gridVars, input
<1>5. CASE UNCHANGED solveVars
  BY <1>1, <1>5 DEF solveVars, vars, input, gridVars
<1> QED  BY <1>2, <1>3, <1>4, <1>5 DEF SolveNext

LEMMA FitInvariant == SolveSpec => [](SolveInv /\ FitInv)
<1>1. SolveInit => FitInv
  BY FitBegins
<1>2. SolveInv /\ FitInv /\ [SolveNext]_solveVars => FitInv'
  BY FitKeeps
<1> QED  BY <1>1, <1>2, SolveInvariant, PTL DEF SolveSpec

-----------------------------------------------------------------------------
(* The encrypted division: after j digits the rest is what the quotient     *)
(* leaves of the dividend, and less than the divisor times the next power.  *)
DivisionStep(g, j, a, b) ==
  IF j = 0 THEN [quotient |-> 0, rest |-> a] ELSE Digit(g[j - 1], QuotientBits - j, b)

IsDivision(g, n, a, b) == g = [j \in 0..n |-> DivisionStep(g, j, a, b)]

LEMMA DivisionUnfold ==
  ASSUME NEW a, NEW b
  PROVE  SecureQuotient(a, b)
           = (CHOOSE g : IsDivision(g, QuotientBits, a, b))[QuotientBits].quotient
BY DEF SecureQuotient, IsDivision, DivisionStep

LEMMA DivisionExists ==
  ASSUME NEW a, NEW b, NEW n \in Nat
  PROVE  \E g : IsDivision(g, n, a, b)
<1> DEFINE Bad == {k \in Nat : ~ \E g : IsDivision(g, k, a, b)}
<1> SUFFICES ASSUME Bad # {}  PROVE FALSE
  OBVIOUS
<1>1. PICK k \in Bad : \A j \in Bad : ~(j < k)
  <2>1. Bad \in SUBSET Nat
    OBVIOUS
  <2> HIDE DEF Bad
  <2> QED  BY <2>1, Smallest
<1>2. k \in Nat /\ ~ \E g : IsDivision(g, k, a, b)
  OBVIOUS
<1>3. CASE k = 0
  <2> DEFINE g == [j \in 0..0 |-> [quotient |-> 0, rest |-> a]]
  <2>1. \A j \in 0..0 : DivisionStep(g, j, a, b) = [quotient |-> 0, rest |-> a]
    BY DEF DivisionStep
  <2>2. g = [j \in 0..0 |-> DivisionStep(g, j, a, b)]
    BY <2>1
  <2> QED  BY <1>2, <1>3, <2>2, Zenon DEF IsDivision
<1>4. CASE k # 0
  <2>1. k - 1 \in Nat /\ k - 1 < k
    BY <1>2, <1>4
  <2>2. PICK h : IsDivision(h, k - 1, a, b)
    BY <1>1, <2>1
  <2> DEFINE g == [j \in 0..k |-> DivisionStep(h, j, a, b)]
  <2>3. \A j \in 0 .. k - 1 : h[j] = DivisionStep(h, j, a, b)
    BY <2>2 DEF IsDivision
  <2>4. \A j \in 0 .. k - 1 : j \in 0..k /\ g[j] = h[j]
    BY <2>1, <2>3
  <2>5. \A j \in 0..k : DivisionStep(h, j, a, b) = DivisionStep(g, j, a, b)
    <3> SUFFICES ASSUME NEW j \in 0..k
                 PROVE  DivisionStep(h, j, a, b) = DivisionStep(g, j, a, b)
      OBVIOUS
    <3>1. CASE j = 0
      BY <3>1 DEF DivisionStep
    <3>2. CASE j # 0
      <4>1. j - 1 \in 0 .. k - 1
        BY <1>2, <3>2
      <4>2. g[j - 1] = h[j - 1]
        BY <2>4, <4>1
      <4> HIDE DEF g
      <4> QED  BY <3>2, <4>2 DEF DivisionStep
    <3> QED  BY <3>1, <3>2
  <2>6. g = [j \in 0..k |-> DivisionStep(g, j, a, b)]
    <3> DEFINE u == [j \in 0..k |-> DivisionStep(g, j, a, b)]
    <3>1. \A j \in 0..k : g[j] = u[j]
      BY <2>5
    <3> QED  BY <2>5
  <2> QED  BY <1>2, <2>6, Zenon DEF IsDivision
<1> QED  BY <1>3, <1>4

LEMMA DigitKeeps ==
  ASSUME NEW a \in Nat, NEW b \in Nat, NEW n \in Nat, NEW q \in Nat, NEW r \in Nat,
         a = q * b + r, r < b * 2^(n + 1), NEW acc, acc.quotient = q, acc.rest = r
  PROVE  /\ Digit(acc, n, b).quotient \in Nat /\ Digit(acc, n, b).rest \in Nat
         /\ a = Digit(acc, n, b).quotient * b + Digit(acc, n, b).rest
         /\ Digit(acc, n, b).rest < b * 2^n
<1> DEFINE e == 2^n
           s == b * e
           take == ~(r < s)
           x == IF take THEN q + e ELSE q
           y == IF take THEN r - s ELSE r
<1>1. e \in Nat /\ 2^(n + 1) = 2 * e
  BY PowerIsCount, PowerNext
<1>2. Digit(acc, n, b).quotient = x /\ Digit(acc, n, b).rest = y
  BY DEF Digit
<1>3. r < b * (2 * e)
  BY <1>1
<1> HIDE DEF e
<1>4. s \in Nat /\ b * (2 * e) = s + s
  BY <1>1
<1>5. q * b \in Nat /\ (q + e) * b = q * b + s /\ q + e \in Nat
  BY <1>1
<1> DEFINE m == q * b
           p == (q + e) * b
<1>6. m \in Nat /\ p = m + s /\ a = m + r /\ r < s + s
  BY <1>3, <1>4, <1>5
<1>7. CASE take
  <2>1. x = q + e /\ y = r - s
    BY <1>7
  <2> HIDE DEF s, m, p
  <2>2. r >= s
    BY <1>4, <1>7 DEF take
  <2> HIDE DEF take, x, y
  <2>3. y \in Nat /\ y < s /\ a = p + y
    BY <1>4, <1>6, <2>1, <2>2
  <2>4. p = x * b /\ x \in Nat
    BY <1>5, <2>1 DEF p
  <2> QED  BY <1>2, <2>3, <2>4, Zenon DEF s, e
<1>8. CASE ~take
  <2>1. x = q /\ y = r /\ r < s
    BY <1>8
  <2> HIDE DEF take, x, y, s
  <2>2. y \in Nat /\ x \in Nat /\ a = x * b + y /\ y < s
    BY <2>1
  <2> QED  BY <1>2, <2>2, Zenon DEF s, e
<1> QED  BY <1>7, <1>8

LEMMA QuotientIsDivision ==
  ASSUME NEW a \in Nat, NEW b \in Nat, a < b * 2^QuotientBits
  PROVE  SecureQuotient(a, b) \in Nat /\ SecureQuotient(a, b) = a \div b
<1>1. QuotientBits \in Nat
  BY SearchAssumption
<1> DEFINE Q == QuotientBits
           g == CHOOSE f : IsDivision(f, QuotientBits, a, b)
<1>2. IsDivision(g, Q, a, b) /\ SecureQuotient(a, b) = g[Q].quotient
  <2>1. \E f : IsDivision(f, QuotientBits, a, b)
    BY <1>1, DivisionExists
  <2> QED  BY <2>1, DivisionUnfold, Zenon
<1> HIDE DEF g
<1>3. \A j \in 0..Q : g[j] = DivisionStep(g, j, a, b)
  BY <1>2 DEF IsDivision
<1> DEFINE Good(j) == /\ g[j].quotient \in Nat /\ g[j].rest \in Nat
                      /\ a = g[j].quotient * b + g[j].rest
                      /\ g[j].rest < b * 2^(Q - j)
           Bad == {j \in 0..Q : ~Good(j)}
<1>4. Good(0)
  <2>1. 0 \in 0..Q /\ Q - 0 = Q
    BY <1>1
  <2>2. g[0] = [quotient |-> 0, rest |-> a]
    BY <1>3, <2>1 DEF DivisionStep
  <2>3. g[0].quotient = 0 /\ g[0].rest = a
    BY <2>2
  <2>4. a = 0 * b + a
    OBVIOUS
  <2> QED  BY <2>1, <2>3, <2>4
<1>5. Bad = {}
  <2> SUFFICES ASSUME Bad # {}  PROVE FALSE
    OBVIOUS
  <2>1. PICK k \in Bad : \A j \in Bad : ~(j < k)
    <3>1. Bad \in SUBSET Nat
      BY <1>1
    <3> HIDE DEF Bad
    <3> QED  BY <3>1, Smallest
  <2>2. k \in 0..Q /\ ~Good(k) /\ k # 0
    <3>1. k \in 0..Q /\ ~Good(k)
      OBVIOUS
    <3> HIDE DEF Good
    <3> QED  BY <1>4, <3>1
  <2>3. k - 1 \in 0..Q /\ k - 1 < k /\ Q - k \in Nat /\ Q - (k - 1) = (Q - k) + 1
    BY <1>1, <2>2
  <2>4. Good(k - 1)
    <3> HIDE DEF Good
    <3> QED  BY <2>1, <2>3
  <2>5. g[k] = Digit(g[k - 1], Q - k, b)
    BY <1>3, <2>2 DEF DivisionStep
  <2> DEFINE n == Q - k
             acc == g[k - 1]
  <2>6. /\ acc.quotient \in Nat /\ acc.rest \in Nat /\ n \in Nat
        /\ a = acc.quotient * b + acc.rest /\ acc.rest < b * 2^(n + 1)
    BY <2>3, <2>4
  <2> HIDE DEF n, acc, Good
  <2>7. /\ Digit(acc, n, b).quotient \in Nat /\ Digit(acc, n, b).rest \in Nat
        /\ a = Digit(acc, n, b).quotient * b + Digit(acc, n, b).rest
        /\ Digit(acc, n, b).rest < b * 2^n
    BY <2>6, DigitKeeps
  <2>8. Good(k)
    BY <2>5, <2>7 DEF Good, n, acc
  <2> QED  BY <2>2, <2>8
<1>6. Good(Q)
  <2>1. Q \in 0..Q
    BY <1>1
  <2> HIDE DEF Good
  <2> QED  BY <1>5, <2>1
<1> DEFINE x == g[Q].quotient
           y == g[Q].rest
<1>7. x \in Nat /\ y \in Nat /\ a = x * b + y /\ y < b
  <2>1. 2^(Q - Q) = 1
    <3>1. Q - Q = 0
      BY <1>1
    <3> QED  BY <3>1, PowerZero, Zenon
  <2>2. y < b * 1
    BY <1>6, <2>1
  <2>3. b * 1 = b
    OBVIOUS
  <2> QED  BY <1>6, <2>2, <2>3
<1> HIDE DEF x, y, Good
<1>8. x = a \div b
  <2>1. b \in Nat \ {0} /\ a \in Int
    BY <1>7
  <2> DEFINE z == a \div b
  <2>2. z \in Int /\ b * z <= a /\ a < b * z + b
    BY <2>1, Division
  <2>3. x * b = b * x /\ b * x \in Nat
    BY <1>7
  <2> HIDE DEF z
  <2>4. ~(z <= x - 1)
    <3> SUFFICES ASSUME z <= x - 1  PROVE FALSE
      OBVIOUS
    <3>1. b * z <= b * (x - 1) /\ b * (x - 1) = b * x - b /\ b * z \in Int
      BY <1>7, <2>2
    <3> QED  BY <1>7, <2>2, <2>3, <3>1
  <2>5. ~(z >= x + 1)
    <3> SUFFICES ASSUME z >= x + 1  PROVE FALSE
      OBVIOUS
    <3>1. b * z >= b * (x + 1) /\ b * (x + 1) = b * x + b /\ b * z \in Int
      BY <1>7, <2>2
    <3> QED  BY <1>7, <2>2, <2>3, <3>1
  <2>6. x = z
    BY <1>7, <2>2, <2>4, <2>5
  <2> QED  BY <2>6 DEF z
<1> QED  BY <1>2, <1>7, <1>8 DEF x

-----------------------------------------------------------------------------
(* The values that a node accumulates over its calls are the sums over its  *)
(* path, for every matrix, threshold and grid.                              *)
THEOREM AccumulatorsAreSums == SolveSpec => []AccumulatorsExact
<1>1. SolveInv => AccumulatorsExact
  <2> SUFFICES ASSUME SolveInv  PROVE AccumulatorsExact
    OBVIOUS
  <2>1. Setting /\ \A x \in ToSet(todo) : Exact(x)
    BY DEF SolveInv, SearchInv, Sound, Sorted
  <2> QED  BY <2>1, ExactAccumulators DEF AccumulatorsExact
<1> QED  BY <1>1, SolveInvariant, PTL

(* The prefix and suffix bounds, linear, cheapest and Lagrangian, are       *)
(* admissible: no feasible assignment below a node is cut off.              *)
THEOREM BoundsAreAdmissible == SolveSpec => []BoundsAdmissible
<1>1. SolveInv => BoundsAdmissible
  <2> SUFFICES ASSUME SolveInv, NEW x \in ToSet(todo),
                      NEW p \in Completions(x), Feasible(p)
               PROVE  /\ LinearUpper(x) >= 0
                      /\ \A lower \in CostLowers(x) :
                           lower <= (IF search = "lagrangian" THEN grid.q ELSE 1) * Total(p)
    BY DEF BoundsAdmissible
  <2>1. Setting /\ Exact(x)
    BY DEF SolveInv, SearchInv, Sound, Sorted
  <2> QED  BY <2>1, BoundsHold
<1> QED  BY <1>1, SolveInvariant, PTL

(* The three branch-and-bound searches hold the preferred solution of all   *)
(* that they have visited or pruned, ties included: the optimum at the end. *)
THEOREM SearchFindsOptimum == SolveSpec => []IncumbentBestOfSettled
<1>1. SolveInv => IncumbentBestOfSettled
  <2> SUFFICES ASSUME SolveInv  PROVE IncumbentBestOfSettled
    OBVIOUS
  <2>1. BestOf(incumbent, Done(ToSet(todo)))
    BY DEF SolveInv, SearchInv, Sound
  <2>2. Settled = Done(ToSet(todo))
    BY DEF Settled, Done
  <2> QED  BY <2>1, <2>2 DEF BestOf, IncumbentBestOfSettled
<1> QED  BY <1>1, SolveInvariant, PTL

(* optimize_encrypted, with positive costs, keeps the first of the cheapest *)
(* feasible assignments.                                                    *)
THEOREM EnumerationIsOptimal == SolveSpec => []EnumerationFindsOptimum
<1>1. SolveInv => EnumerationFindsOptimum
  <2> SUFFICES ASSUME SolveInv  PROVE EnumerationFindsOptimum
    OBVIOUS
  <2>1. CheapestOf(incumbent, Done(ToSet(todo)))
    BY DEF SolveInv, SearchInv, Sound
  <2>2. Settled = Done(ToSet(todo))
    BY DEF Settled, Done
  <2> QED  BY <2>1, <2>2 DEF CheapestOf, PositiveCosts, EnumerationFindsOptimum
<1> QED  BY <1>1, SolveInvariant, PTL

(* maximumMu: support is monotone, so what the binary search has excluded   *)
(* is unsupported and what it has accepted is supported with all below it.  *)
THEOREM GridSearchBrackets == SolveSpec => []SearchBrackets
<1>1. SolveInv => SearchBrackets
  <2> SUFFICES ASSUME SolveInv  PROVE SearchBrackets
    OBVIOUS
  <2>1. GridInv \/ pc = "unused"
    BY DEF SolveInv
  <2>2. CASE pc = "unused"
    BY <2>2 DEF SearchBrackets, G!SearchBrackets
  <2>3. CASE GridInv
    BY <2>3 DEF SearchBrackets, GridInv
  <2> QED  BY <2>1, <2>2, <2>3
<1> QED  BY <1>1, SolveInvariant, PTL

(* buildLagrangianGrid: the finished grid is supported, keeps its anchors   *)
(* and has its size, for every domain, threshold and configuration.         *)
THEOREM GridIsSound == SolveSpec => []GridSound
<1>1. SolveInv => GridSound
  <2> SUFFICES ASSUME SolveInv  PROVE GridSound
    OBVIOUS
  <2>1. GridInv \/ pc = "unused"
    BY DEF SolveInv
  <2>2. CASE pc = "unused"
    BY <2>2 DEF GridSound, G!GridSupported, G!AnchorsKept, G!SizeBounded
  <2>3. CASE GridInv
    <3>1. G!GridSupported
      BY <2>3 DEF GridInv, G!GridSupported, G!SearchBrackets
    <3>2. G!AnchorsKept
      BY <2>3 DEF GridInv, G!AnchorsKept, Kept, Reachable
    <3>3. G!SizeBounded
      BY <2>3 DEF GridInv
    <3> QED  BY <3>1, <3>2, <3>3 DEF GridSound
  <2> QED  BY <2>1, <2>2, <2>3
<1> QED  BY <1>1, SolveInvariant, PTL
(* No number that the search multiplies or compares under encryption leaves *)
(* the bits the domain and the grid were checked for, for every matrix      *)
(* within the declared domain.                                              *)
THEOREM NumbersFit == SolveSpec => []OperandsFit
<1>1. SolveInv /\ FitInv => OperandsFit
  <2> SUFFICES ASSUME SolveInv, FitInv, status = "searching",
                      search \in {"suffix", "lagrangian"}
               PROVE  /\ \A i \in Rows : \A a, b \in Methods(i) :
                           /\ Magnitude(Contribution(i, a) - Contribution(i, b)) < 2^SecureBits
                           /\ \A k \in grid.mu :
                                Magnitude(Score(i, a, k) - Score(i, b, k)) < 2^SecureBits
                      /\ \A x \in ToSet(todo) :
                           /\ Magnitude(LinearUpper(x)) < 2 ^ domain.compareBits
                           /\ Magnitude(x.linear) < 2 ^ domain.compareBits
                           /\ \A lower \in CostLowers(x) :
                                Magnitude(lower) < 2 ^ domain.compareBits
                      /\ incumbent # None =>
                           Magnitude(PruneIncumbent) < 2 ^ domain.compareBits
    BY DEF OperandsFit
  <2>1. /\ Setting /\ Fits /\ (\A x \in ToSet(todo) : Exact(x))
        /\ incumbent # None => IsSolution(incumbent)
    BY DEF SolveInv, SearchInv, Sound, Sorted, Behind, FitInv, Bounded
  <2>2. search = "lagrangian" => Fitting(0) /\ \A k \in grid.mu : k \in Nat /\ Fitting(k)
    BY <2>1 DEF FitInv, Bounded, Setting
  <2> DEFINE e == 2 ^ domain.compareBits
             h == 2^SecureBits
  <2>3. e \in Int /\ h \in Int
    BY <2>1, DeclaredTypes, PowerIsCount DEF Fits
  <2>4. search = "suffix" => grid.mu = {}
    BY DEF FitInv, NoGrid
  <2>5. ASSUME NEW v, NEW w \in Nat, Within(v, w), w < e  PROVE Magnitude(v) < e
    <3> HIDE DEF e
    <3> QED  BY <2>3, <2>5, MagnitudeBelow
  <2>6. ASSUME NEW v, NEW w \in Nat, Within(v, w), w < h  PROVE Magnitude(v) < h
    <3> HIDE DEF h
    <3> QED  BY <2>3, <2>6, MagnitudeBelow
  <2>7. /\ CostCap * Scale \in Nat /\ CostCap * Scale < h
        /\ Len(costs) * (CostCap * Scale) \in Nat /\ Len(costs) * (CostCap * Scale) < e
        /\ Len(costs) * (CostCap * 1) \in Nat /\ Len(costs) * (CostCap * 1) < e
    BY <2>1, LinearBits
  <2>8. ASSUME NEW k \in Nat, Fitting(k)
        PROVE  /\ 2 * (CostCap * Weight(k)) \in Nat /\ 2 * (CostCap * Weight(k)) < h
               /\ Len(costs) * (CostCap * Weight(k)) \in Nat
               /\ Len(costs) * (CostCap * Weight(k)) < e
    BY <2>1, <2>8, ScoreBitsSuffice
  <2> HIDE DEF e, h
  <2>9. ASSUME NEW i \in Rows, NEW a \in Methods(i), NEW b \in Methods(i)
        PROVE  /\ Magnitude(Contribution(i, a) - Contribution(i, b)) < h
               /\ \A k \in grid.mu : Magnitude(Score(i, a, k) - Score(i, b, k)) < h
    <3>1. Magnitude(Contribution(i, a) - Contribution(i, b)) < h
      BY <2>1, <2>6, <2>7, ContributionsWithin
    <3>2. ASSUME NEW k \in grid.mu
          PROVE  Magnitude(Score(i, a, k) - Score(i, b, k)) < h
      <4>1. k \in Nat /\ Fitting(k)
        BY <2>2, <2>4
      <4>2. Within(Score(i, a, k) - Score(i, b, k), 2 * (CostCap * Weight(k)))
        BY <2>1, ScoresWithin
      <4> QED  BY <2>6, <2>8, <4>1, <4>2
    <3> QED  BY <3>1, <3>2
  <2>10. ASSUME NEW x \in ToSet(todo)
         PROVE  /\ Magnitude(LinearUpper(x)) < e /\ Magnitude(x.linear) < e
                /\ \A lower \in CostLowers(x) : Magnitude(lower) < e
    <3>1. /\ Within(x.linear, Len(costs) * (CostCap * Scale))
          /\ Within(LinearUpper(x), Len(costs) * (CostCap * Scale))
          /\ Within(x.total + MinCostSuffix(x), Len(costs) * (CostCap * 1))
          /\ \A k \in grid.mu :
               Within(x.lag[k] + LagrangianSuffix(x, k), Len(costs) * (CostCap * Weight(k)))
      BY <2>1, NodeWithin
    <3>2. Magnitude(LinearUpper(x)) < e /\ Magnitude(x.linear) < e
      BY <2>5, <2>7, <3>1
    <3>3. Magnitude(x.total + MinCostSuffix(x)) < e
      BY <2>5, <2>7, <3>1
    <3>4. ASSUME search = "lagrangian", NEW k \in grid.mu
          PROVE  Magnitude(x.lag[k] + LagrangianSuffix(x, k)) < e
      <4>1. k \in Nat /\ Fitting(k)
        BY <2>2, <3>4
      <4> QED  BY <2>5, <2>8, <3>1, <4>1
    <3> QED  BY <3>2, <3>3, <3>4 DEF CostLowers
  <2>11. ASSUME incumbent # None  PROVE Magnitude(PruneIncumbent) < e
    <3>1. /\ Within(incumbent.total, Len(costs) * (CostCap * 1))
          /\ Within(grid.q * incumbent.total, Len(costs) * (CostCap * Weight(0)))
      BY <2>1, <2>11, SolutionWithin
    <3>2. CASE search = "lagrangian"
      <4>1. 0 \in Nat /\ Fitting(0)
        BY <2>2, <3>2
      <4>2. Magnitude(grid.q * incumbent.total) < e
        BY <2>5, <2>8, <3>1, <4>1
      <4> QED  BY <3>2, <4>2 DEF PruneIncumbent
    <3>3. CASE search # "lagrangian"
      <4>1. Magnitude(incumbent.total) < e
        BY <2>5, <2>7, <3>1
      <4> QED  BY <3>3, <4>1 DEF PruneIncumbent
    <3> QED  BY <3>2, <3>3
  <2> QED  BY <2>9, <2>10, <2>11 DEF e, h
<1> QED  BY <1>1, FitInvariant, PTL
(* The encrypted verification of a plaintext result: its sums are those of  *)
(* the search, and its division finds the quotient that the plaintext does. *)
LEMMA VerifyAgrees ==
  ASSUME SolveInv, Verify
  PROVE  status' = "verified"
<1> DEFINE path  == incumbent.path
           cost  == SumOver(Chosen(path), Rows)
           cost3 == SumOver(Chosen(path), {i \in Rows : path[i] = 3})
           lhs   == (cost - cost3) * (Scale - threshold)
           rhs   == cost3 * threshold
           ratio == SecureQuotient((cost - cost3) * Scale, cost)
           expected == (incumbent.c12 * Scale) \div incumbent.total
<1>1. /\ search = "plain" /\ incumbent # None
      /\ status' = IF /\ ~(rhs > lhs) /\ cost = incumbent.total
                      /\ ratio - expected \in -1..1
                   THEN "verified" ELSE "refuted"
  BY DEF Verify
<1>2. Setting /\ IsSolution(incumbent) /\ Feasible(path) /\ path \in Leaves
  <2>1. Sound(todo, incumbent) /\ Setting
    BY DEF SolveInv, SearchInv
  <2>2. IsSolution(incumbent) /\ IsBestOf(incumbent.path, Done(ToSet(todo)))
    BY <1>1, <2>1 DEF Sound, Behind, BestOf
  <2> QED  BY <2>1, <2>2 DEF IsBestOf, IsSolution
<1>3. /\ cost = Total(path) /\ cost3 = C3(path)
      /\ cost = incumbent.total /\ incumbent.c12 = C12(path)
  BY <1>2 DEF IsSolution, Total, C3, Threes
<1>4. /\ C12(path) \in Nat /\ C3(path) \in Nat /\ Total(path) \in Nat
      /\ Total(path) > 0 /\ C12(path) = Total(path) - C3(path) /\ C3(path) > 0
      /\ C12(path) * Scale >= threshold * Total(path)
  <2>1. /\ C12(path) \in Int /\ C12(path) >= 0 /\ C3(path) >= 0 /\ Total(path) > 0
    BY <1>2, FeasibleCosts
  <2>2. /\ Total(path) \in Int /\ C3(path) \in Int /\ C12(path) = Total(path) - C3(path)
        /\ C3(path) > 0
    BY <1>2, FeasibleMeans
  <2>3. C12(path) * Scale >= threshold * Total(path)
    BY <1>2 DEF Feasible
  <2> QED  BY <2>1, <2>2, <2>3
<1>5. /\ Scale \in Nat \ {0} /\ threshold \in Nat /\ QuotientBits \in Nat
      /\ Scale <= 2^QuotientBits
  BY <1>2, SearchAssumption DEF Setting
<1> DEFINE a == C12(path)
           b == Total(path)
           c == C3(path)
<1>6. cost - cost3 = a /\ cost = b /\ cost3 = c /\ incumbent.total = b /\ incumbent.c12 = a
  BY <1>3, <1>4
<1>7. /\ a \in Nat /\ b \in Nat /\ c \in Nat /\ b > 0 /\ a = b - c /\ c > 0
      /\ a * Scale >= threshold * b
  BY <1>4
<1> HIDE DEF cost, cost3, a, b, c
<1>8. ~(rhs > lhs)
  <2>1. rhs = c * threshold /\ lhs = a * (Scale - threshold)
    BY <1>6
  <2> HIDE DEF rhs, lhs
  <2>2. b = a + c
    BY <1>7
  <2>3. threshold * (a + c) = threshold * a + threshold * c
        /\ threshold * a \in Nat /\ threshold * c \in Nat /\ a * Scale \in Nat
    BY <1>5, <1>7
  <2>4. a * (Scale - threshold) = a * Scale - threshold * a /\ c * threshold = threshold * c
    BY <1>5, <1>7
  <2> QED  BY <1>7, <2>1, <2>2, <2>3, <2>4
<1> DEFINE h == 2^QuotientBits
           n == a * Scale
<1>9. n \in Nat /\ n < b * h
  <2>1. h \in Nat /\ Scale <= h
    BY <1>5, PowerIsCount
  <2> HIDE DEF h
  <2>2. a * Scale \in Nat /\ a * Scale < b * Scale /\ b * Scale <= b * h
        /\ b * Scale \in Nat /\ b * h \in Nat
    BY <1>5, <1>7, <2>1
  <2> QED  BY <2>2
<1>10. ratio = n \div b /\ expected = n \div b /\ n \div b \in Int
  <2>1. ratio = SecureQuotient(n, b) /\ expected = n \div b
    BY <1>6
  <2> HIDE DEF n
  <2>2. SecureQuotient(n, b) \in Nat /\ SecureQuotient(n, b) = n \div b
    BY <1>7, <1>9, QuotientIsDivision
  <2> QED  BY <2>1, <2>2
<1>11. ratio - expected \in -1..1
  <2> HIDE DEF ratio, expected, n
  <2> QED  BY <1>10
<1> HIDE DEF rhs, lhs, ratio, expected
<1> QED  BY <1>1, <1>3, <1>8, <1>11

(* The verification that Optimizer::optimize makes under encryption never   *)
(* refutes what its plaintext search has found.                             *)
THEOREM VerificationAgrees == SolveSpec => []NeverRefuted
<1>1. SolveInit => NeverRefuted
  BY DEF SolveInit, Idle, NeverRefuted
<1>2. SolveInv /\ NeverRefuted /\ [SolveNext]_solveVars => NeverRefuted'
  <2> SUFFICES ASSUME SolveInv, NeverRefuted, [SolveNext]_solveVars  PROVE NeverRefuted'
    OBVIOUS
  <2>1. CASE BuildGrid
    BY <2>1 DEF BuildGrid, NeverRefuted
  <2>2. CASE BeginSearch
    BY <2>2 DEF BeginSearch, Begin, NeverRefuted
  <2>3. CASE Search
    <3>1. CASE Verify
      BY <3>1, VerifyAgrees DEF NeverRefuted
    <3>2. CASE (Step /\ ~Verify) \/ PredicateFails
      BY <3>2 DEF Step, PredicateFails, VisitLeaf, VisitInner, VisitPlain,
                  VisitEnumerated, Finish, Visit, NeverRefuted
    <3> QED  BY <2>3, <3>1, <3>2 DEF Search
  <2>4. CASE UNCHANGED solveVars
    BY <2>4 DEF solveVars, vars, NeverRefuted
  <2> QED  BY <2>1, <2>2, <2>3, <2>4 DEF SolveNext
<1> QED  BY <1>1, <1>2, SolveInvariant, PTL DEF SolveSpec
=============================================================================
