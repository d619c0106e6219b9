----------------------------- MODULE PegaProofs -----------------------------
(***************************************************************************)
(* Theorems about the encrypted genetic search, for every matrix,          *)
(* configuration and domain that is accepted.  An individual is shown to   *)
(* be, after every operation, the one that its methods determine.          *)
(***************************************************************************)
EXTENDS Pega, SumsAndPowers

-----------------------------------------------------------------------------
(* Bits. *)
Bits == 0..1

LEMMA BitArithmetic ==
  ASSUME NEW a \in Bits, NEW b \in Bits
  PROVE  Not(a) \in Bits /\ And(a, b) \in Bits /\ Or(a, b) \in Bits
<1>1. a \in {0, 1} /\ b \in {0, 1}
  BY DEF Bits
<1>2. Bits = {0, 1}
  BY DEF Bits
<1>3. CASE a = 0
  BY <1>1, <1>2, <1>3 DEF Not, And, Or
<1>4. CASE a = 1
  BY <1>1, <1>2, <1>4 DEF Not, And, Or
<1> QED  BY <1>1, <1>3, <1>4

LEMMA ComparisonBits ==
  ASSUME NEW a \in Int, NEW b \in Int
  PROVE  Greater(a, b) \in Bits /\ Less(a, b) \in Bits /\ Equal(a, b) \in Bits
BY DEF Bits, Greater, Less, Equal, Not, OrExclusive

LEMMA SelectBit ==
  ASSUME NEW bit \in Bits, NEW yes \in Int, NEW no \in Int
  PROVE  Select(bit, yes, no) = (IF bit = 1 THEN yes ELSE no)
<1>1. bit = 0 \/ bit = 1
  BY DEF Bits
<1>2. CASE bit = 0
  BY <1>2 DEF Select
<1>3. CASE bit = 1
  BY <1>3 DEF Select
<1> QED  BY <1>1, <1>2, <1>3

-----------------------------------------------------------------------------
(* A fold of a sequence, as SequencesExt defines it, is the value at the    *)
(* whole domain of some function on its subsets.  If every step stays in V  *)
(* then such a function exists, so the chosen one follows the steps too.    *)
Follows(h, step, base, V, D) ==
  /\ h[{}] = base
  /\ \A s \in SUBSET D : s # {} /\ h[s \ {Max(s)}] \in V /\ Max(s) \in D =>
       h[s] = step[<<h[s \ {Max(s)}], Max(s)>>]

LEMMA FoldValue ==
  ASSUME NEW D, Indices(D), NEW V, NEW base \in V, NEW step \in [V \X D -> V], NEW c,
         (\E h : StaysIn(h, step, base, V, D)) => Follows(c, step, base, V, D)
  PROVE  c[D] \in V
<1>1. Follows(c, step, base, V, D)
  BY FoldWithin
<1>2. c[{}] \in V
  BY <1>1 DEF Follows
<1>3. ASSUME NEW s \in SUBSET D, s # {}, c[s \ {Max(s)}] \in V
      PROVE  c[s] \in V
  <2>1. s \in SUBSET Nat /\ IsFiniteSet(s)
    BY IndicesBelow
  <2>2. Max(s) \in D
    BY <1>3, <2>1, MaxIsIn
  <2>3. <<c[s \ {Max(s)}], Max(s)>> \in V \X D
    BY <1>3, <2>2
  <2>4. c[s] = step[<<c[s \ {Max(s)}], Max(s)>>]
    BY <1>1, <1>3, <2>2 DEF Follows
  <2> QED  BY <2>3, <2>4
<1> QED  BY <1>2, <1>3, FoldStays

LEMMA RangeIndices ==
  ASSUME NEW n \in Nat
  PROVE  Indices(1..n)
BY FS_Interval DEF Indices

-----------------------------------------------------------------------------
(* What a task that is accepted provides.                                   *)
Setting == task \in Tasks /\ Validated(task)
Costs   == [1..3 -> Nat \cup {None}]

LEMMA TaskFacts ==
  ASSUME Setting
  PROVE  /\ Requested(task) /\ Validated(task)
         /\ task.costs \in Seq(Costs) /\ Len(task.costs) \in Nat \ {0}
         /\ Scale \in Nat /\ task.threshold \in Nat
<1>1. Requested(task) /\ HasLength(Scale)
  BY PegaAssumption DEF Setting
<1>2. Validated(task)
  BY DEF Setting
<1>3. task.costs \in Seq(Costs) /\ task.threshold \in Nat
  BY <1>1 DEF Requested, Costs
<1>4. task.costs # <<>>
  BY <1>2 DEF Validated
<1>5. Len(task.costs) \in Nat \ {0}
  BY <1>3, <1>4
<1>6. Scale \in Nat
  BY <1>1 DEF HasLength
<1> QED  BY <1>1, <1>2, <1>3, <1>5, <1>6

LEMMA RowFacts ==
  ASSUME Setting
  PROVE  /\ Rows = 1 .. Len(task.costs) /\ IsFiniteSet(Rows) /\ Rows # {}
         /\ Indices(Rows) /\ Rows \in SUBSET Int
<1>1. Rows = 1 .. Len(task.costs)
  BY DEF Rows
<1>2. Len(task.costs) \in Nat \ {0}
  BY TaskFacts
<1>3. Indices(Rows)
  BY <1>1, <1>2, RangeIndices
<1>4. IsFiniteSet(Rows)
  BY <1>3 DEF Indices
<1>5. Rows # {} /\ Rows \in SUBSET Int
  BY <1>1, <1>2
<1> QED  BY <1>1, <1>3, <1>4, <1>5

LEMMA MethodFacts ==
  ASSUME Setting, NEW i \in Rows
  PROVE  /\ \A m : m \in Methods(i) <=> m \in {1, 2, 3} /\ Cost(i, m) # None
         /\ Methods(i) \in SUBSET (1..3) /\ Methods(i) # {} /\ IsFiniteSet(Methods(i))
         /\ \A m \in Methods(i) : Cost(i, m) \in Nat /\ Contribution(i, m) \in Int
<1>1. task.costs[i] \in Costs
  <2>1. i \in DOMAIN task.costs
    BY RowFacts, TaskFacts
  <2> QED  BY <2>1, TaskFacts
<1>2. Methods(i) = {m \in 1..3 : task.costs[i][m] # None}
  BY DEF Methods, Cost
<1>3. \A m : Cost(i, m) = task.costs[i][m]
  BY DEF Cost
<1>4. 1..3 = {1, 2, 3}
  OBVIOUS
<1>5. Methods(i) # {}
  <2>1. i \in DOMAIN task.costs
    BY RowFacts, TaskFacts
  <2>2. \E m \in 1..3 : task.costs[i][m] # None
    BY <2>1, TaskFacts DEF Validated
  <2> QED  BY <1>2, <2>2
<1>6. \A m \in Methods(i) : Cost(i, m) \in Nat
  BY <1>1, <1>2, <1>3 DEF Costs
<1>7. \A m \in Methods(i) : Contribution(i, m) \in Int
  <2>1. \A m : Contribution(i, m) =
          Cost(i, m) * (IF m < 3 THEN Scale - task.threshold ELSE -task.threshold)
    BY DEF Contribution
  <2> QED  BY <1>6, <2>1, TaskFacts
<1>8. IsFiniteSet(Methods(i))
  <2>1. IsFiniteSet(1..3)
    <3>1. Indices(1..3)
      BY RangeIndices
    <3> QED  BY <3>1 DEF Indices
  <2>2. Methods(i) \in SUBSET (1..3)
    BY <1>2
  <2> QED  BY <2>1, <2>2, FS_Subset
<1> QED  BY <1>2, <1>3, <1>4, <1>5, <1>6, <1>7, <1>8

LEMMA AssignmentFacts ==
  ASSUME Setting
  PROVE  \A g : g \in Assignments <=> /\ g \in [Rows -> 1..3]
                                      /\ \A i \in Rows : g[i] \in Methods(i)
BY DEF Assignments

(* There is an increasing sequence of the methods of a row.                 *)
Increasing(S) ==
  {s \in [1 .. Cardinality(S) -> S] : \A j, k \in DOMAIN s : j < k => s[j] < s[k]}

LEMMA IncreasingExists ==
  ASSUME NEW S \in SUBSET {1, 2, 3}, S # {}
  PROVE  Cardinality(S) \in Nat \ {0} /\ Increasing(S) # {}
<1>1. \A x : IsFiniteSet({x}) /\ Cardinality({x}) = 1
  BY FS_Singleton
<1>2. \A x, y \in {1, 2, 3} : x < y => Cardinality({x, y}) = 2 /\ IsFiniteSet({x, y})
  <2> SUFFICES ASSUME NEW x \in {1, 2, 3}, NEW y \in {1, 2, 3}, x < y
               PROVE  Cardinality({x, y}) = 2 /\ IsFiniteSet({x, y})
    OBVIOUS
  <2>1. y \notin {x} /\ {x} \cup {y} = {x, y}
    OBVIOUS
  <2>2. IsFiniteSet({x}) /\ Cardinality({x}) = 1
    BY <1>1
  <2>3. IsFiniteSet({x} \cup {y}) /\ Cardinality({x} \cup {y}) = 1 + 1
    BY <2>1, <2>2, FS_AddElement
  <2> QED  BY <2>1, <2>3
<1>3. Cardinality({1, 2, 3}) = 3
  <2>1. 3 \notin {1, 2} /\ {1, 2} \cup {3} = {1, 2, 3}
    OBVIOUS
  <2>2. Cardinality({1, 2}) = 2 /\ IsFiniteSet({1, 2})
    BY <1>2
  <2> QED  BY <2>1, <2>2, FS_AddElement
<1>4. ASSUME NEW x \in {1, 2, 3}, S = {x}
      PROVE  Cardinality(S) \in Nat \ {0} /\ Increasing(S) # {}
  <2>1. Cardinality(S) = 1
    BY <1>1, <1>4
  <2>2. [j \in 1..1 |-> x] \in Increasing(S)
    BY <1>4, <2>1 DEF Increasing
  <2> QED  BY <2>1, <2>2
<1>5. ASSUME NEW x \in {1, 2, 3}, NEW y \in {1, 2, 3}, x < y, S = {x, y}
      PROVE  Cardinality(S) \in Nat \ {0} /\ Increasing(S) # {}
  <2>1. Cardinality(S) = 2
    BY <1>2, <1>5
  <2>2. [j \in 1..2 |-> IF j = 1 THEN x ELSE y] \in Increasing(S)
    BY <1>5, <2>1 DEF Increasing
  <2> QED  BY <2>1, <2>2
<1>6. ASSUME S = {1, 2, 3}
      PROVE  Cardinality(S) \in Nat \ {0} /\ Increasing(S) # {}
  <2>1. [j \in 1..3 |-> j] \in Increasing(S)
    BY <1>3, <1>6 DEF Increasing
  <2> QED  BY <1>3, <1>6, <2>1
<1>7. \/ S = {1} \/ S = {2} \/ S = {3}
      \/ S = {1, 2} \/ S = {1, 3} \/ S = {2, 3} \/ S = {1, 2, 3}
  OBVIOUS
<1> QED  BY <1>4, <1>5, <1>6, <1>7

LEMMA AvailableFacts ==
  ASSUME Setting, NEW i \in Rows
  PROVE  /\ Cardinality(Methods(i)) \in Nat \ {0}
         /\ Available(i) \in [1 .. Cardinality(Methods(i)) -> Methods(i)]
         /\ Available(i) \in Seq(Methods(i)) /\ Len(Available(i)) = Cardinality(Methods(i))
<1> DEFINE S == Methods(i)
<1>1. S \in SUBSET {1, 2, 3} /\ S # {}
  BY MethodFacts
<1>2. Cardinality(S) \in Nat \ {0} /\ Increasing(S) # {}
  <2> HIDE DEF S
  <2> QED  BY <1>1, IncreasingExists
<1>3. Available(i) = CHOOSE s \in [1 .. Cardinality(S) -> S] :
                       \A j, k \in DOMAIN s : j < k => s[j] < s[k]
  BY DEF Available
<1>4. Available(i) \in [1 .. Cardinality(S) -> S]
  <2> HIDE DEF S
  <2>1. \E s \in [1 .. Cardinality(S) -> S] : \A j, k \in DOMAIN s : j < k => s[j] < s[k]
    BY <1>2 DEF Increasing
  <2> QED  BY <1>3, <2>1
<1> HIDE DEF S
<1>5. Available(i) \in Seq(S) /\ Len(Available(i)) = Cardinality(S)
  BY <1>2, <1>4
<1> QED  BY <1>2, <1>4, <1>5 DEF S

-----------------------------------------------------------------------------
(* The individual of an assignment: its terms and sums are those of the     *)
(* method that each row has.                                                *)
GenesOf(g)   == [i \in Rows |-> OneHot(g[i])]
RowCost(g)   == [i \in Rows |-> Cost(i, g[i])]
RowC12(g)    == [i \in Rows |-> IF g[i] \in {1, 2} THEN Cost(i, g[i]) ELSE 0]
RowC3(g)     == [i \in Rows |-> IF g[i] = 3 THEN Cost(i, g[i]) ELSE 0]
RowLinear(g) == [i \in Rows |-> Contribution(i, g[i])]
RowCount(g)  == [i \in Rows |-> IF g[i] = 3 THEN 1 ELSE 0]

Terms == {"kept", "dropped"}

Exact(g, memo, terms) ==
  [genes |-> GenesOf(g), memo |-> memo,
   row_cost   |-> IF terms = "kept" THEN RowCost(g) ELSE <<>>,
   row_c12    |-> IF terms = "kept" THEN RowC12(g) ELSE <<>>,
   row_c3     |-> IF terms = "kept" THEN RowC3(g) ELSE <<>>,
   row_linear |-> IF terms = "kept" THEN RowLinear(g) ELSE <<>>,
   total  |-> SumOver(RowCost(g), Rows),
   c12    |-> SumOver(RowC12(g), Rows),
   c3     |-> SumOver(RowC3(g), Rows),
   linear |-> SumOver(RowLinear(g), Rows)]

LEMMA RowTermTypes ==
  ASSUME Setting, NEW g \in Assignments
  PROVE  /\ \A i \in Rows : g[i] \in Methods(i) /\ g[i] \in {1, 2, 3}
         /\ RowCost(g) \in [Rows -> Int] /\ RowC12(g) \in [Rows -> Int]
         /\ RowC3(g) \in [Rows -> Int] /\ RowLinear(g) \in [Rows -> Int]
         /\ RowCount(g) \in [Rows -> Int]
<1>1. \A i \in Rows : g[i] \in Methods(i)
  BY AssignmentFacts
<1>2. \A i \in Rows : g[i] \in {1, 2, 3} /\ Cost(i, g[i]) \in Int /\ Contribution(i, g[i]) \in Int
  BY <1>1, MethodFacts
<1> QED  BY <1>1, <1>2 DEF RowCost, RowC12, RowC3, RowLinear, RowCount

LEMMA ExactTypes ==
  ASSUME Setting, NEW g \in Assignments
  PROVE  /\ SumOver(RowCost(g), Rows) \in Int /\ SumOver(RowC12(g), Rows) \in Int
         /\ SumOver(RowC3(g), Rows) \in Int /\ SumOver(RowLinear(g), Rows) \in Int
<1>1. IsFiniteSet(Rows) /\ Rows \in SUBSET Rows
  BY RowFacts
<1> QED  BY <1>1, RowTermTypes, SumType

LEMMA OneTermSum ==
  ASSUME NEW D, IsFiniteSet(D), NEW m \in D, NEW f \in [D -> Int],
         NEW h, h = [k \in D |-> IF k = m THEN f[k] ELSE 0]
  PROVE  \A T \in SUBSET D : SumOver(h, T) = IF m \in T THEN f[m] ELSE 0
<1>0. h \in [D -> Int]
  OBVIOUS
<1>1. ASSUME NEW T \in SUBSET D, m \notin T  PROVE SumOver(h, T) = 0
  <2> DEFINE z == [k \in T |-> 0]
  <2>1. IsFiniteSet(T) /\ T \in SUBSET T
    BY FS_Subset
  <2>2. \A k \in T : h[k] = z[k]
    BY <1>1
  <2>3. z \in [T -> Int] /\ \A k \in T : z[k] = 0
    OBVIOUS
  <2> HIDE DEF z
  <2>4. SumOver(z, T) = 0
    BY <2>1, <2>3, SumZero
  <2>5. SumOver(h, T) = SumOver(z, T)
    BY <2>1, <2>2, SumSame, SMTT(30)
  <2> QED  BY <2>4, <2>5
<1>2. ASSUME NEW T \in SUBSET D, m \in T  PROVE SumOver(h, T) = f[m]
  <2>1. SumOver(h, T) = h[m] + SumOver(h, T \ {m})
    BY <1>0, <1>2, SumRemove
  <2>2. SumOver(h, T \ {m}) = 0
    <3>1. T \ {m} \in SUBSET D /\ m \notin T \ {m}
      OBVIOUS
    <3> QED  BY <1>1, <3>1
  <2> QED  BY <2>1, <2>2
<1> QED  BY <1>1, <1>2

(* The masked sum over the methods of a row is the term of its own method.  *)
LEMMA MaskedTerm ==
  ASSUME Setting, NEW g \in Assignments, NEW i \in Rows, NEW f \in [Methods(i) -> Int],
         NEW ms
  PROVE  SumOver([m \in Methods(i) |-> GenesOf(g)[i][m] * f[m]], ms \cap Methods(i)) =
           IF g[i] \in ms THEN f[g[i]] ELSE 0
<1> DEFINE D == Methods(i)
           h == [m \in D |-> GenesOf(g)[i][m] * f[m]]
           k == g[i]
<1>1. IsFiniteSet(D) /\ k \in D /\ D \in SUBSET (1..3)
  BY MethodFacts, RowTermTypes
<1>2. GenesOf(g)[i] = OneHot(k)
  BY DEF GenesOf
<1>3. h = [m \in D |-> IF m = k THEN f[m] ELSE 0]
  <2>1. ASSUME NEW m \in D
        PROVE  GenesOf(g)[i][m] * f[m] = IF m = k THEN f[m] ELSE 0
    <3>1. m \in 1..3 /\ f[m] \in Int
      BY <1>1
    <3>2. GenesOf(g)[i][m] = IF m = k THEN 1 ELSE 0
      <4> HIDE DEF k
      <4> QED  BY <1>2, <3>1 DEF OneHot
    <3> HIDE DEF k
    <3> QED  BY <3>1, <3>2
  <2> HIDE DEF D, k
  <2> QED  BY <2>1
<1>4. ms \cap D \in SUBSET D
  OBVIOUS
<1>5. SumOver(h, ms \cap D) = IF k \in ms \cap D THEN f[k] ELSE 0
  <2> HIDE DEF D, h, k
  <2>1. f \in [D -> Int]
    BY DEF D
  <2>2. IsFiniteSet(D) /\ k \in D
    BY <1>1
  <2>3. \A T \in SUBSET D : SumOver(h, T) = IF k \in T THEN f[k] ELSE 0
    BY <1>3, <2>1, <2>2, OneTermSum
  <2> QED  BY <1>4, <2>3
<1> QED  BY <1>1, <1>5

LEMMA EvaluateIsExact ==
  ASSUME Setting, NEW g \in Assignments
  PROVE  Evaluate(GenesOf(g)) = Exact(g, None, "kept")
<1> DEFINE x == GenesOf(g)
           C(i) == [m \in Methods(i) |-> x[i][m] * Cost(i, m)]
           L(i) == [m \in Methods(i) |-> x[i][m] * Contribution(i, m)]
           cost   == [i \in Rows |-> SumOver(C(i), (1..3) \cap Methods(i))]
           cost12 == [i \in Rows |-> SumOver(C(i), (1..2) \cap Methods(i))]
           cost3  == [i \in Rows |-> SumOver(C(i), {3} \cap Methods(i))]
           lin    == [i \in Rows |-> SumOver(L(i), (1..3) \cap Methods(i))]
<1>1. Evaluate(x) =
        [genes |-> x, memo |-> None,
         row_cost |-> cost, row_c12 |-> cost12, row_c3 |-> cost3, row_linear |-> lin,
         total |-> SumOver(cost, Rows), c12 |-> SumOver(cost12, Rows),
         c3 |-> SumOver(cost3, Rows), linear |-> SumOver(lin, Rows)]
  BY DEF Evaluate
<1>2. \A i \in Rows : g[i] \in {1, 2, 3}
  BY RowTermTypes
<1>3. ASSUME NEW i \in Rows, NEW ms
      PROVE  /\ SumOver(C(i), ms \cap Methods(i)) =
                  IF g[i] \in ms THEN Cost(i, g[i]) ELSE 0
             /\ SumOver(L(i), ms \cap Methods(i)) =
                  IF g[i] \in ms THEN Contribution(i, g[i]) ELSE 0
  <2> DEFINE f == [m \in Methods(i) |-> Cost(i, m)]
             l == [m \in Methods(i) |-> Contribution(i, m)]
  <2>1. f \in [Methods(i) -> Int] /\ l \in [Methods(i) -> Int]
    BY MethodFacts
  <2>2. f[g[i]] = Cost(i, g[i]) /\ l[g[i]] = Contribution(i, g[i])
    BY RowTermTypes
  <2>3. /\ C(i) = [m \in Methods(i) |-> x[i][m] * f[m]]
        /\ L(i) = [m \in Methods(i) |-> x[i][m] * l[m]]
    OBVIOUS
  <2>4. \A h \in [Methods(i) -> Int] :
          SumOver([m \in Methods(i) |-> x[i][m] * h[m]], ms \cap Methods(i)) =
            IF g[i] \in ms THEN h[g[i]] ELSE 0
    BY MaskedTerm
  <2> HIDE DEF C, L, f, l, x
  <2> QED  BY <2>1, <2>2, <2>3, <2>4
<1> HIDE DEF C, L
<1>4. cost = RowCost(g)
  <2>1. ASSUME NEW i \in Rows
        PROVE  SumOver(C(i), (1..3) \cap Methods(i)) = Cost(i, g[i])
    <3>1. g[i] \in 1..3
      BY <1>2
    <3>2. SumOver(C(i), (1..3) \cap Methods(i)) =
            IF g[i] \in 1..3 THEN Cost(i, g[i]) ELSE 0
      BY <1>3, Zenon
    <3> QED  BY <3>1, <3>2, Zenon
  <2> QED  BY <2>1 DEF RowCost
<1>5. cost12 = RowC12(g)
  <2>1. ASSUME NEW i \in Rows
        PROVE  SumOver(C(i), (1..2) \cap Methods(i)) = IF g[i] \in {1, 2} THEN Cost(i, g[i]) ELSE 0
    <3>1. g[i] \in 1..2 <=> g[i] \in {1, 2}
      BY <1>2
    <3>2. SumOver(C(i), (1..2) \cap Methods(i)) =
            IF g[i] \in 1..2 THEN Cost(i, g[i]) ELSE 0
      BY <1>3, Zenon
    <3> QED  BY <3>1, <3>2, Zenon
  <2> QED  BY <2>1 DEF RowC12
<1>6. cost3 = RowC3(g)
  <2>1. ASSUME NEW i \in Rows
        PROVE  SumOver(C(i), {3} \cap Methods(i)) = IF g[i] = 3 THEN Cost(i, g[i]) ELSE 0
    BY <1>2, <1>3
  <2> QED  BY <2>1 DEF RowC3
<1>7. lin = RowLinear(g)
  <2>1. ASSUME NEW i \in Rows
        PROVE  SumOver(L(i), (1..3) \cap Methods(i)) = Contribution(i, g[i])
    <3>1. g[i] \in 1..3
      BY <1>2
    <3>2. SumOver(L(i), (1..3) \cap Methods(i)) =
            IF g[i] \in 1..3 THEN Contribution(i, g[i]) ELSE 0
      BY <1>3, Zenon
    <3> QED  BY <3>1, <3>2, Zenon
  <2> QED  BY <2>1 DEF RowLinear
<1> HIDE DEF cost, cost12, cost3, lin
<1> QED  BY <1>1, <1>4, <1>5, <1>6, <1>7 DEF Exact

-----------------------------------------------------------------------------
(* The largest cost of a row is the cost of one of its methods.             *)
LEMMA RowMaximumIn ==
  ASSUME Setting, NEW i \in Rows
  PROVE  RowMaximum(i) \in {Cost(i, m) : m \in Methods(i)}
<1> DEFINE q == Tail(Available(i))
           D == DOMAIN q
           V == {Cost(i, m) : m \in Methods(i)}
           base == Cost(i, Head(Available(i)))
           op(acc, m) == Select(Greater(Cost(i, m), acc), Cost(i, m), acc)
           Folds(h) == h = [s \in SUBSET D |->
                              IF s = {} THEN base ELSE op(h[s \ {Max(s)}], q[Max(s)])]
           step == [p \in V \X D |-> op(p[1], q[p[2]])]
           c    == CHOOSE h : Folds(h)
<1>1. RowMaximum(i) = c[D]
  BY DEF RowMaximum, FoldLeft, MapThenFoldSet
<1>2. Indices(D) /\ \A j \in D : q[j] \in Methods(i)
  <2>1. q \in Seq(Methods(i)) /\ Len(q) \in Nat
    BY AvailableFacts
  <2>2. D = 1 .. Len(q)
    BY <2>1
  <2> QED  BY <2>1, <2>2, RangeIndices
<1>3. base \in V
  BY AvailableFacts
<1>4. ASSUME NEW v \in V, NEW j \in D  PROVE op(v, q[j]) \in V
  <2>1. v \in Int /\ q[j] \in Methods(i) /\ Cost(i, q[j]) \in Int
    BY <1>2, MethodFacts
  <2>2. op(v, q[j]) = v \/ op(v, q[j]) = Cost(i, q[j])
    BY <2>1, ComparisonBits, SelectBit
  <2> QED  BY <2>1, <2>2
<1>5. step \in [V \X D -> V]
  BY <1>4
<1>6. ASSUME NEW h, StaysIn(h, step, base, V, D)  PROVE Folds(h)
  <2>1. ASSUME NEW s \in SUBSET D
        PROVE  h[s] = IF s = {} THEN base ELSE op(h[s \ {Max(s)}], q[Max(s)])
    <3> HIDE DEF op, base, D, V, q
    <3> QED  BY <1>6 DEF StaysIn
  <2> HIDE DEF op, base, D, V, q
  <2> QED  BY <1>6, <2>1 DEF StaysIn
<1>7. ASSUME Folds(c)  PROVE Follows(c, step, base, V, D)
  <2> HIDE DEF op, base, V, q, D
  <2>1. c[{}] = base
    BY <1>7
  <2>2. ASSUME NEW s \in SUBSET D, s # {}, c[s \ {Max(s)}] \in V, Max(s) \in D
        PROVE  c[s] = step[<<c[s \ {Max(s)}], Max(s)>>]
    <3> HIDE DEF c
    <3> QED  BY <1>7, <2>2
  <2> QED  BY <2>1, <2>2 DEF Follows
<1>8. (\E h : StaysIn(h, step, base, V, D)) => Follows(c, step, base, V, D)
  <2> HIDE DEF step
  <2> QED  BY <1>6, <1>7
<1>9. c[D] \in V
  <2> HIDE DEF c, step, base, V, D
  <2> QED  BY <1>2, <1>3, <1>5, <1>8, FoldValue
<1> QED  BY <1>1, <1>9

LEMMA PenaltyFacts ==
  ASSUME Setting
  PROVE  /\ MaximumTotal \in Nat /\ Penalty \in Nat /\ MissingPenalty \in Nat
         /\ [i \in Rows |-> RowMaximum(i)] \in [Rows -> Int]
         /\ \A i \in Rows : RowMaximum(i) \in Nat
<1>1. \A i \in Rows : RowMaximum(i) \in Nat
  BY RowMaximumIn, MethodFacts
<1> DEFINE f == [i \in Rows |-> RowMaximum(i)]
<1>2. f \in [Rows -> Int] /\ \A i \in Rows : f[i] >= 0
  BY <1>1
<1>3. SumOver(f, Rows) \in Int /\ SumOver(f, Rows) >= 0
  <2>1. IsFiniteSet(Rows) /\ Rows \in SUBSET Rows
    BY RowFacts
  <2> HIDE DEF f
  <2> QED  BY <1>2, <2>1, SumType, SumNatural
<1>4. MaximumTotal \in Nat
  BY <1>3 DEF MaximumTotal
<1>5. task.penalty \in Nat
  <2>1. task.penalty = 0 \/ HasLength(task.penalty)
    BY TaskFacts DEF Requested
  <2>2. HasLength(task.penalty) => task.penalty \in Nat
    BY DEF HasLength
  <2> QED  BY <2>1, <2>2
<1>6. Penalty \in Nat
  <2> DEFINE a == MaximumTotal + 1
             b == task.penalty
  <2>1. a \in Nat /\ b \in Nat
    BY <1>4, <1>5
  <2>2. Penalty = a * b
    BY DEF Penalty
  <2> HIDE DEF a, b
  <2> QED  BY <2>1, <2>2
<1>7. MissingPenalty \in Nat
  <2> DEFINE a == MaximumTotal + 1
             b == Penalty
             d == Scale
  <2>1. a \in Nat /\ b \in Nat /\ d \in Nat
    BY <1>4, <1>6, TaskFacts
  <2>2. MissingPenalty = b * a * d
    BY DEF MissingPenalty
  <2> HIDE DEF a, b, d
  <2>3. b * a \in Nat
    BY <2>1
  <2> DEFINE e == b * a
  <2>4. e \in Nat /\ MissingPenalty = e * d
    BY <2>2, <2>3
  <2> HIDE DEF e
  <2> QED  BY <2>1, <2>4
<1> QED  BY <1>1, <1>2, <1>4, <1>6, <1>7

-----------------------------------------------------------------------------
(* The individuals of the search: those of assignments, with or without row *)
(* terms and memo.                                                          *)
Memo(g) == [feasible |-> ComputedFeasible(Exact(g, None, "kept")),
            fitness  |-> ComputedFitness(Exact(g, None, "kept"))]

Memos(g) == {None, Memo(g)}
Sound    == UNION {{Exact(g, memo, terms) : memo \in Memos(g), terms \in Terms} :
                     g \in Assignments}
Complete == {Exact(g, None, "kept") : g \in Assignments}

LEMMA SoundIs ==
  ASSUME NEW x
  PROVE  x \in Sound <=> \E g \in Assignments, terms \in Terms :
                           x = Exact(g, None, terms) \/ x = Exact(g, Memo(g), terms)
BY DEF Sound, Memos

LEMMA CompleteIsSound == Complete \in SUBSET Sound
<1> SUFFICES ASSUME NEW g \in Assignments  PROVE Exact(g, None, "kept") \in Sound
  BY DEF Complete
<1> DEFINE x == Exact(g, None, "kept")
<1>1. "kept" \in Terms /\ x = Exact(g, None, "kept")
  BY DEF Terms
<1>2. x \in Sound
  <2> HIDE DEF x
  <2> QED  BY <1>1, SoundIs
<1> QED  BY <1>2

LEMMA ExactFields ==
  ASSUME NEW g, NEW memo, NEW terms
  PROVE  /\ Exact(g, memo, terms).genes = GenesOf(g) /\ Exact(g, memo, terms).memo = memo
         /\ Exact(g, memo, terms).total = SumOver(RowCost(g), Rows)
         /\ Exact(g, memo, terms).c12 = SumOver(RowC12(g), Rows)
         /\ Exact(g, memo, terms).c3 = SumOver(RowC3(g), Rows)
         /\ Exact(g, memo, terms).linear = SumOver(RowLinear(g), Rows)
<1> DEFINE cost == SumOver(RowCost(g), Rows)
           c12  == SumOver(RowC12(g), Rows)
           c3   == SumOver(RowC3(g), Rows)
           lin  == SumOver(RowLinear(g), Rows)
           a == IF terms = "kept" THEN RowCost(g) ELSE <<>>
           b == IF terms = "kept" THEN RowC12(g) ELSE <<>>
           d == IF terms = "kept" THEN RowC3(g) ELSE <<>>
           e == IF terms = "kept" THEN RowLinear(g) ELSE <<>>
           x == GenesOf(g)
<1>1. Exact(g, memo, terms) =
        [genes |-> x, memo |-> memo, row_cost |-> a, row_c12 |-> b, row_c3 |-> d,
         row_linear |-> e, total |-> cost, c12 |-> c12, c3 |-> c3, linear |-> lin]
  BY DEF Exact
<1> HIDE DEF cost, c12, c3, lin, a, b, d, e, x
<1>2. /\ Exact(g, memo, terms).genes = x /\ Exact(g, memo, terms).memo = memo
      /\ Exact(g, memo, terms).total = cost /\ Exact(g, memo, terms).c12 = c12
      /\ Exact(g, memo, terms).c3 = c3 /\ Exact(g, memo, terms).linear = lin
  BY <1>1
<1> QED  BY <1>2 DEF cost, c12, c3, lin, x

LEMMA ComputedSame ==
  ASSUME NEW g, NEW memo, NEW terms
  PROVE  /\ ComputedFeasible(Exact(g, memo, terms)) = Memo(g).feasible
         /\ ComputedFitness(Exact(g, memo, terms)) = Memo(g).fitness
<1> DEFINE x == Exact(g, memo, terms)
           y == Exact(g, None, "kept")
<1>1. x.linear = y.linear /\ x.c3 = y.c3 /\ x.total = y.total
  BY ExactFields
<1> HIDE DEF x, y
<1>2. ComputedFeasible(x) = ComputedFeasible(y)
  BY <1>1 DEF ComputedFeasible
<1>3. ComputedFitness(x) = ComputedFitness(y)
  BY <1>1 DEF ComputedFitness
<1>4. Memo(g) = [feasible |-> ComputedFeasible(y), fitness |-> ComputedFitness(y)]
  BY DEF Memo, y
<1>5. Memo(g).feasible = ComputedFeasible(y) /\ Memo(g).fitness = ComputedFitness(y)
  <2> DEFINE p == ComputedFeasible(y)
             q == ComputedFitness(y)
  <2>1. Memo(g) = [feasible |-> p, fitness |-> q]
    BY <1>4
  <2> HIDE DEF p, q
  <2>2. Memo(g).feasible = p /\ Memo(g).fitness = q
    BY <2>1
  <2> QED  BY <2>2 DEF p, q
<1> QED  BY <1>2, <1>3, <1>5 DEF x

LEMMA MemoTypes ==
  ASSUME Setting, NEW g \in Assignments
  PROVE  Memo(g).feasible \in Bits /\ Memo(g).fitness \in Int
<1> DEFINE x == Exact(g, None, "kept")
<1>1. x.linear \in Int /\ x.c3 \in Int /\ x.total \in Int
  BY ExactFields, ExactTypes
<1> HIDE DEF x
<1>2. ComputedFeasible(x) \in Bits
  <2> DEFINE p == Less(x.linear, 0)
             q == Greater(x.c3, 0)
             r == Greater(x.total, 0)
  <2>1. p \in Bits /\ q \in Bits /\ r \in Bits
    BY <1>1, ComparisonBits
  <2>2. ComputedFeasible(x) = And(And(Not(p), q), r)
    BY DEF ComputedFeasible
  <2> HIDE DEF p, q, r
  <2>3. Not(p) \in Bits
    BY <2>1, BitArithmetic
  <2>4. And(Not(p), q) \in Bits
    BY <2>1, <2>3, BitArithmetic
  <2> QED  BY <2>1, <2>2, <2>4, BitArithmetic
<1>3. ComputedFitness(x) \in Int
  <2> DEFINE v == Select(Greater(-x.linear, 0), -x.linear, 0)
             n == Not(Greater(x.c3, 0))
             a == x.total * Scale
             b == Penalty * Scale
             d == Penalty * v
             e == MissingPenalty * n
  <2>1. Greater(-x.linear, 0) \in Bits /\ Greater(x.c3, 0) \in Bits
    BY <1>1, ComparisonBits
  <2>2. v \in Int
    BY <1>1, <2>1, SelectBit
  <2>3. n \in Bits
    BY <2>1, BitArithmetic
  <2>4. ComputedFitness(x) = a + b + d + e
    BY DEF ComputedFitness
  <2>5. Penalty \in Int /\ MissingPenalty \in Int /\ Scale \in Int /\ n \in Int
    BY <2>3, PenaltyFacts, TaskFacts DEF Bits
  <2> HIDE DEF v, n
  <2>6. a \in Int /\ b \in Int /\ d \in Int /\ e \in Int
    BY <1>1, <2>2, <2>5
  <2> HIDE DEF a, b, d, e
  <2> QED  BY <2>4, <2>6
<1> QED  BY <1>2, <1>3, ComputedSame DEF x

(* What is read of a sound individual.                                      *)
Ranked(x) ==
  /\ x.total \in Int /\ x.linear \in Int /\ x.c3 \in Int /\ x.c12 \in Int
  /\ Feasible(x) \in Bits /\ Fitness(x) \in Int
  /\ \A i \in Rows : \A m \in {1, 2, 3} : x.genes[i][m] \in Int

LEMMA SoundIsRanked ==
  ASSUME Setting, NEW x \in Sound
  PROVE  Ranked(x)
<1>1. PICK g \in Assignments, terms \in Terms :
        x = Exact(g, None, terms) \/ x = Exact(g, Memo(g), terms)
  BY SoundIs
<1>2. x.total \in Int /\ x.linear \in Int /\ x.c3 \in Int /\ x.c12 \in Int
  BY <1>1, ExactFields, ExactTypes
<1>3. x.memo = None \/ x.memo = Memo(g)
  BY <1>1, ExactFields
<1>4. Feasible(x) = Memo(g).feasible /\ Fitness(x) = Memo(g).fitness
  <2>1. ComputedFeasible(x) = Memo(g).feasible /\ ComputedFitness(x) = Memo(g).fitness
    BY <1>1, ComputedSame
  <2> QED  BY <1>3, <2>1 DEF Feasible, Fitness
<1>5. ASSUME NEW i \in Rows, NEW m \in {1, 2, 3}  PROVE x.genes[i][m] \in Int
  <2>0. x.genes = GenesOf(g)
    BY <1>1, ExactFields
  <2>1. x.genes[i] = OneHot(g[i])
    BY <2>0 DEF GenesOf
  <2> QED  BY <2>1 DEF OneHot
<1> QED  BY <1>2, <1>4, <1>5, MemoTypes DEF Ranked


-----------------------------------------------------------------------------
(* Ranks are bits.                                                          *)
LEMMA LexLessIsBit ==
  ASSUME Setting, NEW a, NEW b, Ranked(a), Ranked(b)
  PROVE  LexLess(a, b) \in Bits
<1> DEFINE q == [i \in Rows |-> i]
           index(x, i) == x.genes[i][2] + 2 * x.genes[i][3]
           D == DOMAIN q
           V == [less : Bits, equal : Bits]
           base == [less |-> 0, equal |-> 1]
           op(acc, i) ==
             [less  |-> Or(acc.less, And(acc.equal, Less(index(a, i), index(b, i)))),
              equal |-> And(acc.equal, Equal(index(a, i), index(b, i)))]
           Folds(h) == h = [s \in SUBSET D |->
                              IF s = {} THEN base ELSE op(h[s \ {Max(s)}], q[Max(s)])]
           step == [p \in V \X D |-> op(p[1], q[p[2]])]
           c    == CHOOSE h : Folds(h)
<1>1. LexLess(a, b) = (c[D]).less
  BY DEF LexLess, FoldLeft, MapThenFoldSet
<1>2. Indices(D) /\ \A j \in D : j \in Rows /\ q[j] = j
  BY RowFacts
<1>3. base \in V
  BY DEF Bits
<1>4. ASSUME NEW v \in V, NEW j \in D  PROVE op(v, q[j]) \in V
  <2>1. /\ q[j] \in Rows /\ v \in [less : Bits, equal : Bits]
        /\ v.less \in Bits /\ v.equal \in Bits
    BY <1>2
  <2>2. index(a, q[j]) \in Int /\ index(b, q[j]) \in Int
    BY <2>1 DEF Ranked
  <2> DEFINE p == Less(index(a, q[j]), index(b, q[j]))
             r == Equal(index(a, q[j]), index(b, q[j]))
  <2>3. p \in Bits /\ r \in Bits
    <3> HIDE DEF index
    <3> QED  BY <2>2, ComparisonBits
  <2>4. op(v, q[j]) = [less |-> Or(v.less, And(v.equal, p)), equal |-> And(v.equal, r)]
    OBVIOUS
  <2> HIDE DEF p, r, op
  <2>5. And(v.equal, p) \in Bits /\ And(v.equal, r) \in Bits
    BY <2>1, <2>3, BitArithmetic
  <2>6. Or(v.less, And(v.equal, p)) \in Bits
    BY <2>1, <2>5, BitArithmetic
  <2> QED  BY <2>4, <2>5, <2>6
<1>5. step \in [V \X D -> V]
  BY <1>4
<1>6. ASSUME NEW h, StaysIn(h, step, base, V, D)  PROVE Folds(h)
  <2>1. ASSUME NEW s \in SUBSET D
        PROVE  h[s] = IF s = {} THEN base ELSE op(h[s \ {Max(s)}], q[Max(s)])
    <3> HIDE DEF op, base, D, V, q
    <3> QED  BY <1>6 DEF StaysIn
  <2> HIDE DEF op, base, D, V, q
  <2> QED  BY <1>6, <2>1 DEF StaysIn
<1>7. ASSUME Folds(c)  PROVE Follows(c, step, base, V, D)
  <2> HIDE DEF op, base, V, q, D
  <2>1. c[{}] = base
    BY <1>7
  <2>2. ASSUME NEW s \in SUBSET D, s # {}, c[s \ {Max(s)}] \in V, Max(s) \in D
        PROVE  c[s] = step[<<c[s \ {Max(s)}], Max(s)>>]
    <3> HIDE DEF c
    <3> QED  BY <1>7, <2>2
  <2> QED  BY <2>1, <2>2 DEF Follows
<1>8. (\E h : StaysIn(h, step, base, V, D)) => Follows(c, step, base, V, D)
  <2> HIDE DEF step
  <2> QED  BY <1>6, <1>7
<1>9. c[D] \in V
  <2> HIDE DEF c, step, base, V, D
  <2> QED  BY <1>2, <1>3, <1>5, <1>8, FoldValue
<1> QED
  <2> DEFINE w == c[D]
  <2>1. w \in [less : Bits, equal : Bits] /\ LexLess(a, b) = w.less
    BY <1>1, <1>9
  <2>2. w.less \in Bits
    <3> HIDE DEF w, op, q, D, V, base, Folds, step, c
    <3> QED  BY <2>1
  <2> HIDE DEF w, op, q, D, V, base, Folds, step, c
  <2> DEFINE less == w.less
  <2>3. less \in Bits /\ LexLess(a, b) = less
    BY <2>1, <2>2, Zenon
  <2> HIDE DEF less
  <2> QED  BY <2>3, Zenon

LEMMA BetterIsBit ==
  ASSUME Setting, NEW a, NEW b, Ranked(a), Ranked(b)
  PROVE  Better(a, b) \in Bits
<1>1. LexLess(a, b) \in Bits /\ Feasible(a) \in Bits /\ Feasible(b) \in Bits
  BY LexLessIsBit DEF Ranked
<1>2. \A u, v \in Int : Less(u, v) \in Bits /\ Equal(u, v) \in Bits
  BY ComparisonBits
<1>3. \A u, v \in Bits : Not(u) \in Bits /\ And(u, v) \in Bits /\ Or(u, v) \in Bits
  BY BitArithmetic
<1> DEFINE tie     == Or(Less(a.linear, b.linear),
                         And(Equal(a.linear, b.linear), LexLess(a, b)))
           cheaper == Or(Less(a.total, b.total), And(Equal(a.total, b.total), tie))
           fitter  == Or(Less(Fitness(a), Fitness(b)),
                         And(Equal(Fitness(a), Fitness(b)), LexLess(a, b)))
<1>4. tie \in Bits
  <2>1. Less(a.linear, b.linear) \in Bits /\ Equal(a.linear, b.linear) \in Bits
    BY <1>2 DEF Ranked
  <2> QED  BY <1>1, <1>3, <2>1
<1>5. cheaper \in Bits
  <2>1. Less(a.total, b.total) \in Bits /\ Equal(a.total, b.total) \in Bits
    BY <1>2 DEF Ranked
  <2> HIDE DEF tie
  <2> QED  BY <1>3, <1>4, <2>1
<1>6. fitter \in Bits
  <2>1. Less(Fitness(a), Fitness(b)) \in Bits /\ Equal(Fitness(a), Fitness(b)) \in Bits
    BY <1>2 DEF Ranked
  <2> QED  BY <1>1, <1>3, <2>1
<1>7. Better(a, b) =
        Or(And(Feasible(a), Not(Feasible(b))),
           Or(And(And(Feasible(a), Feasible(b)), cheaper),
              And(And(Not(Feasible(a)), Not(Feasible(b))), fitter)))
  BY DEF Better
<1> HIDE DEF tie, cheaper, fitter
<1>8. /\ Not(Feasible(a)) \in Bits /\ Not(Feasible(b)) \in Bits
      /\ And(Feasible(a), Feasible(b)) \in Bits
  BY <1>1, <1>3
<1>9. /\ And(Feasible(a), Not(Feasible(b))) \in Bits
      /\ And(And(Feasible(a), Feasible(b)), cheaper) \in Bits
      /\ And(And(Not(Feasible(a)), Not(Feasible(b))), fitter) \in Bits
  BY <1>1, <1>3, <1>5, <1>6, <1>8
<1> QED  BY <1>3, <1>7, <1>9

(* A selection of sound individuals is one of them, without its terms.      *)
LEMMA ChooseIsOne ==
  ASSUME Setting, NEW bit \in Bits, NEW g \in Assignments, NEW h \in Assignments,
         NEW memo, NEW memo2, NEW terms, NEW terms2
  PROVE  Choose(bit, Exact(g, memo, terms), Exact(h, memo2, terms2)) =
           Exact(IF bit = 1 THEN g ELSE h, None, "dropped")
<1> DEFINE yes == Exact(g, memo, terms)
           no  == Exact(h, memo2, terms2)
           k   == IF bit = 1 THEN g ELSE h
<1>1. Choose(bit, yes, no) =
  [genes |-> [i \in Rows |->
                [m \in 1..3 |-> Select(bit, yes.genes[i][m], no.genes[i][m])]],
   memo |-> None,
   row_cost |-> <<>>, row_c12 |-> <<>>, row_c3 |-> <<>>, row_linear |-> <<>>,
   total |-> Select(bit, yes.total, no.total),
   c12 |-> Select(bit, yes.c12, no.c12), c3 |-> Select(bit, yes.c3, no.c3),
   linear |-> Select(bit, yes.linear, no.linear)]
  BY DEF Choose
<1>2. /\ yes.genes = GenesOf(g) /\ no.genes = GenesOf(h)
      /\ yes.total = SumOver(RowCost(g), Rows) /\ no.total = SumOver(RowCost(h), Rows)
      /\ yes.c12 = SumOver(RowC12(g), Rows) /\ no.c12 = SumOver(RowC12(h), Rows)
      /\ yes.c3 = SumOver(RowC3(g), Rows) /\ no.c3 = SumOver(RowC3(h), Rows)
      /\ yes.linear = SumOver(RowLinear(g), Rows) /\ no.linear = SumOver(RowLinear(h), Rows)
  BY ExactFields
<1> HIDE DEF yes, no
<1>3. /\ Select(bit, yes.total, no.total) = SumOver(RowCost(k), Rows)
      /\ Select(bit, yes.c12, no.c12) = SumOver(RowC12(k), Rows)
      /\ Select(bit, yes.c3, no.c3) = SumOver(RowC3(k), Rows)
      /\ Select(bit, yes.linear, no.linear) = SumOver(RowLinear(k), Rows)
  <2>1. /\ yes.total \in Int /\ no.total \in Int /\ yes.c12 \in Int /\ no.c12 \in Int
        /\ yes.c3 \in Int /\ no.c3 \in Int /\ yes.linear \in Int /\ no.linear \in Int
    BY <1>2, ExactTypes
  <2> QED  BY <1>2, <2>1, SelectBit
<1>4. ASSUME NEW i \in Rows
      PROVE  [m \in 1..3 |-> Select(bit, yes.genes[i][m], no.genes[i][m])] = GenesOf(k)[i]
  <2>1. ASSUME NEW m \in 1..3
        PROVE  Select(bit, yes.genes[i][m], no.genes[i][m]) =
                 IF m = k[i] THEN 1 ELSE 0
    <3>1. /\ yes.genes[i][m] = (IF m = g[i] THEN 1 ELSE 0)
          /\ no.genes[i][m] = (IF m = h[i] THEN 1 ELSE 0)
      BY <1>2 DEF GenesOf, OneHot
    <3>2. yes.genes[i][m] \in Int /\ no.genes[i][m] \in Int
      BY <3>1
    <3> QED  BY <3>1, <3>2, SelectBit
  <2>2. GenesOf(k)[i] = OneHot(k[i])
    BY DEF GenesOf
  <2> HIDE DEF k
  <2> QED  BY <2>1, <2>2 DEF OneHot
<1>5. [i \in Rows |-> [m \in 1..3 |-> Select(bit, yes.genes[i][m], no.genes[i][m])]] = GenesOf(k)
  <2>1. GenesOf(k) = [i \in Rows |-> GenesOf(k)[i]]
    BY DEF GenesOf
  <2> HIDE DEF k
  <2> QED  BY <1>4, <2>1
<1> DEFINE genes == [i \in Rows |->
                       [m \in 1..3 |-> Select(bit, yes.genes[i][m], no.genes[i][m])]]
           total == Select(bit, yes.total, no.total)
           c12 == Select(bit, yes.c12, no.c12)
           c3  == Select(bit, yes.c3, no.c3)
           lin == Select(bit, yes.linear, no.linear)
<1>6. Choose(bit, yes, no) =
        [genes |-> genes, memo |-> None,
         row_cost |-> <<>>, row_c12 |-> <<>>, row_c3 |-> <<>>, row_linear |-> <<>>,
         total |-> total, c12 |-> c12, c3 |-> c3, linear |-> lin]
  BY <1>1
<1>7. /\ genes = GenesOf(k) /\ total = SumOver(RowCost(k), Rows)
      /\ c12 = SumOver(RowC12(k), Rows) /\ c3 = SumOver(RowC3(k), Rows)
      /\ lin = SumOver(RowLinear(k), Rows)
  BY <1>3, <1>5
<1> HIDE DEF genes, total, c12, c3, lin, k
<1>8. Choose(bit, yes, no) = Exact(k, None, "dropped")
  BY <1>6, <1>7 DEF Exact
<1> QED  BY <1>8 DEF yes, no, k

LEMMA ChooseIsSound ==
  ASSUME Setting, NEW bit \in Bits, NEW x \in Sound, NEW y \in Sound
  PROVE  Choose(bit, x, y) \in Sound
<1>1. PICK g \in Assignments, terms \in Terms :
        x = Exact(g, None, terms) \/ x = Exact(g, Memo(g), terms)
  BY SoundIs
<1>2. PICK h \in Assignments, terms2 \in Terms :
        y = Exact(h, None, terms2) \/ y = Exact(h, Memo(h), terms2)
  BY SoundIs
<1> DEFINE k == IF bit = 1 THEN g ELSE h
<1>3. Choose(bit, x, y) = Exact(k, None, "dropped")
  BY <1>1, <1>2, ChooseIsOne
<1>4. k \in Assignments /\ "dropped" \in Terms
  BY DEF Terms
<1> HIDE DEF k
<1> QED  BY <1>3, <1>4, SoundIs

LEMMA FitterIsSound ==
  ASSUME Setting, NEW x \in Sound, NEW y \in Sound
  PROVE  Fitter(x, y) \in Sound /\ Better(x, y) \in Bits
<1>1. Better(x, y) \in Bits
  BY SoundIsRanked, BetterIsBit
<1> QED  BY <1>1, ChooseIsSound DEF Fitter


-----------------------------------------------------------------------------
(* Repair: a row's terms, replaced under a mask.                            *)
LEMMA SumOne ==
  ASSUME NEW D, IsFiniteSet(D), NEW f \in [D -> Int], NEW i \in D
  PROVE  SumOver(f, D) = f[i] + SumOver(f, D \ {i})
<1>1. \A S \in SUBSET D : \A x \in S : SumOver(f, S) = f[x] + SumOver(f, S \ {x})
  <2> SUFFICES ASSUME NEW S \in SUBSET D, NEW x \in S
               PROVE  SumOver(f, S) = f[x] + SumOver(f, S \ {x})
    OBVIOUS
  <2> QED  BY SumRemove
<1>2. D \in SUBSET D
  OBVIOUS
<1> QED  BY <1>1, <1>2

LEMMA SumReplace ==
  ASSUME NEW D, IsFiniteSet(D), NEW f \in [D -> Int], NEW f2 \in [D -> Int],
         NEW i \in D, NEW d \in Int, f2[i] = f[i] + d,
         \A j \in D : j # i => f2[j] = f[j]
  PROVE  [f EXCEPT ![i] = @ + d] = f2 /\ SumOver(f2, D) = SumOver(f, D) + d
<1>1. [f EXCEPT ![i] = @ + d] = f2
  OBVIOUS
<1> DEFINE E == D \ {i}
<1>2. E \in SUBSET D /\ D \in SUBSET D /\ IsFiniteSet(E) /\ E \in SUBSET E
  BY FS_Subset
<1>3. \A j \in E : f[j] = f2[j]
  OBVIOUS
<1>4. SumOver(f, D) = f[i] + SumOver(f, E) /\ SumOver(f2, D) = f2[i] + SumOver(f2, E)
  BY SumOne
<1>5. SumOver(f, E) = SumOver(f2, E)
  <2> HIDE DEF E
  <2> QED  BY <1>2, <1>3, SumSame
<1>6. SumOver(f, E) \in Int /\ f[i] \in Int
  <2> HIDE DEF E
  <2> QED  BY <1>2, SumType
<1> QED  BY <1>1, <1>4, <1>5, <1>6

Applied(g, bit, i, m) == IF bit = 1 THEN [g EXCEPT ![i] = m] ELSE g

LEMMA AppliedIsAssignment ==
  ASSUME Setting, NEW g \in Assignments, NEW bit, NEW i \in Rows, NEW m \in Methods(i)
  PROVE  Applied(g, bit, i, m) \in Assignments
<1>1. g \in [Rows -> 1..3] /\ \A j \in Rows : g[j] \in Methods(j)
  BY AssignmentFacts
<1>2. m \in 1..3
  BY MethodFacts
<1> DEFINE h == [g EXCEPT ![i] = m]
<1>3. h \in [Rows -> 1..3] /\ \A j \in Rows : h[j] \in Methods(j)
  BY <1>1, <1>2
<1> HIDE DEF h
<1>4. h \in Assignments
  BY <1>3, AssignmentFacts
<1> QED  BY <1>4 DEF Applied, h

LEMMA InstallIsExact ==
  ASSUME Setting, NEW g \in Assignments, NEW mask \in Bits, NEW c,
         c[1] \in Rows, c[2] \in Methods(c[1])
  PROVE  Install(Exact(g, None, "kept"), mask, c) =
           Exact(Applied(g, mask, c[1], c[2]), None, "kept")
<1> DEFINE i == c[1]
           m == c[2]
           k == Applied(g, mask, i, m)
           x == Exact(g, None, "kept")
<1>0. k \in Assignments /\ i \in Rows /\ m \in Methods(i)
  BY AppliedIsAssignment
<1>1. /\ RowCost(g) \in [Rows -> Int] /\ RowCost(k) \in [Rows -> Int]
      /\ RowC12(g) \in [Rows -> Int] /\ RowC12(k) \in [Rows -> Int]
      /\ RowC3(g) \in [Rows -> Int] /\ RowC3(k) \in [Rows -> Int]
      /\ RowLinear(g) \in [Rows -> Int] /\ RowLinear(k) \in [Rows -> Int]
  <2> HIDE DEF k
  <2> QED  BY <1>0, RowTermTypes
<1>2. /\ \A j \in Rows : j # i => k[j] = g[j]
      /\ k[i] = IF mask = 1 THEN m ELSE g[i]
      /\ mask = 0 \/ mask = 1
      /\ m \in {1, 2, 3} /\ g[i] \in {1, 2, 3}
  <2>1. g \in [Rows -> 1..3]
    BY AssignmentFacts
  <2>2. m \in {1, 2, 3} /\ g[i] \in {1, 2, 3}
    BY <1>0, MethodFacts, RowTermTypes
  <2>3. \A j \in Rows : j # i => k[j] = g[j]
    BY <1>0, <2>1 DEF Applied
  <2>4. k[i] = IF mask = 1 THEN m ELSE g[i]
    BY <1>0, <2>1 DEF Applied
  <2> QED  BY <2>2, <2>3, <2>4 DEF Bits
<1> DEFINE cost   == mask * (Cost(i, m) - RowCost(g)[i])
           gain   == mask * (Contribution(i, m) - RowLinear(g)[i])
           cost12 == mask * ((IF m < 3 THEN Cost(i, m) ELSE 0) - RowC12(g)[i])
           cost3  == mask * ((IF m = 3 THEN Cost(i, m) ELSE 0) - RowC3(g)[i])
<1>3. Cost(i, m) \in Int /\ Contribution(i, m) \in Int
  BY <1>0, MethodFacts
<1> HIDE DEF k, i, m
<1>4. cost \in Int /\ RowCost(k)[i] = RowCost(g)[i] + cost
  <2>1. RowCost(k)[i] = (IF mask = 1 THEN Cost(i, m) ELSE RowCost(g)[i]) /\ RowCost(g)[i] \in Int
    BY <1>0, <1>1, <1>2 DEF RowCost
  <2> QED  BY <1>2, <1>3, <2>1
<1>5. gain \in Int /\ RowLinear(k)[i] = RowLinear(g)[i] + gain
  <2>1. /\ RowLinear(k)[i] = (IF mask = 1 THEN Contribution(i, m) ELSE RowLinear(g)[i])
        /\ RowLinear(g)[i] \in Int
    BY <1>0, <1>1, <1>2 DEF RowLinear
  <2> QED  BY <1>2, <1>3, <2>1
<1>6. cost12 \in Int /\ RowC12(k)[i] = RowC12(g)[i] + cost12
  <2> DEFINE t == IF m < 3 THEN Cost(i, m) ELSE 0
  <2>1. t \in Int /\ RowC12(k)[i] = (IF mask = 1 THEN t ELSE RowC12(g)[i]) /\ RowC12(g)[i] \in Int
    BY <1>0, <1>1, <1>2, <1>3 DEF RowC12
  <2> HIDE DEF t
  <2>2. CASE mask = 0
    BY <2>1, <2>2 DEF t
  <2>3. CASE mask = 1
    BY <2>1, <2>3 DEF t
  <2> QED  BY <1>2, <2>2, <2>3
<1>7. cost3 \in Int /\ RowC3(k)[i] = RowC3(g)[i] + cost3
  <2> DEFINE t == IF m = 3 THEN Cost(i, m) ELSE 0
  <2>1. t \in Int /\ RowC3(k)[i] = (IF mask = 1 THEN t ELSE RowC3(g)[i]) /\ RowC3(g)[i] \in Int
    BY <1>0, <1>1, <1>2, <1>3 DEF RowC3
  <2> HIDE DEF t
  <2>2. CASE mask = 0
    BY <2>1, <2>2 DEF t
  <2>3. CASE mask = 1
    BY <2>1, <2>3 DEF t
  <2> QED  BY <1>2, <2>2, <2>3
<1>8. \A j \in Rows : j # i => /\ RowCost(k)[j] = RowCost(g)[j]
                               /\ RowC12(k)[j] = RowC12(g)[j]
                               /\ RowC3(k)[j] = RowC3(g)[j]
                               /\ RowLinear(k)[j] = RowLinear(g)[j]
  BY <1>2 DEF RowCost, RowC12, RowC3, RowLinear
<1>9. IsFiniteSet(Rows)
  BY RowFacts
<1> HIDE DEF cost, gain, cost12, cost3
<1>10. /\ [RowCost(g) EXCEPT ![i] = @ + cost] = RowCost(k)
       /\ SumOver(RowCost(k), Rows) = SumOver(RowCost(g), Rows) + cost
  BY <1>0, <1>1, <1>4, <1>8, <1>9, SumReplace, SMTT(30)
<1>11. /\ [RowLinear(g) EXCEPT ![i] = @ + gain] = RowLinear(k)
       /\ SumOver(RowLinear(k), Rows) = SumOver(RowLinear(g), Rows) + gain
  BY <1>0, <1>1, <1>5, <1>8, <1>9, SumReplace
<1>12. /\ [RowC12(g) EXCEPT ![i] = @ + cost12] = RowC12(k)
       /\ SumOver(RowC12(k), Rows) = SumOver(RowC12(g), Rows) + cost12
  <2> DEFINE f  == RowC12(g)
             f2 == RowC12(k)
  <2>1. /\ f \in [Rows -> Int] /\ f2 \in [Rows -> Int] /\ f2[i] = f[i] + cost12
        /\ \A j \in Rows : j # i => f2[j] = f[j]
    BY <1>1, <1>6, <1>8
  <2> HIDE DEF f, f2
  <2>2. [f EXCEPT ![i] = @ + cost12] = f2 /\ SumOver(f2, Rows) = SumOver(f, Rows) + cost12
    BY <1>0, <1>6, <1>9, <2>1, SumReplace
  <2> QED  BY <2>2 DEF f, f2
<1>13. /\ [RowC3(g) EXCEPT ![i] = @ + cost3] = RowC3(k)
       /\ SumOver(RowC3(k), Rows) = SumOver(RowC3(g), Rows) + cost3
  <2> DEFINE f  == RowC3(g)
             f2 == RowC3(k)
  <2>1. /\ f \in [Rows -> Int] /\ f2 \in [Rows -> Int] /\ f2[i] = f[i] + cost3
        /\ \A j \in Rows : j # i => f2[j] = f[j]
    BY <1>1, <1>7, <1>8
  <2> HIDE DEF f, f2
  <2>2. [f EXCEPT ![i] = @ + cost3] = f2 /\ SumOver(f2, Rows) = SumOver(f, Rows) + cost3
    BY <1>0, <1>7, <1>9, <2>1, SumReplace
  <2> QED  BY <2>2 DEF f, f2
<1> DEFINE gene == [n \in 1..3 |->
                      GenesOf(g)[i][n] + mask * (OneHot(m)[n] - GenesOf(g)[i][n])]
<1>14. [GenesOf(g) EXCEPT ![i] = gene] = GenesOf(k)
  <2>1. gene = OneHot(k[i])
    <3>1. ASSUME NEW n \in 1..3
          PROVE  GenesOf(g)[i][n] + mask * (OneHot(m)[n] - GenesOf(g)[i][n]) =
                   IF n = k[i] THEN 1 ELSE 0
      <4>1. GenesOf(g)[i][n] = IF n = g[i] THEN 1 ELSE 0
        BY <1>0 DEF GenesOf, OneHot
      <4>2. OneHot(m)[n] = IF n = m THEN 1 ELSE 0
        BY DEF OneHot
      <4> QED  BY <1>2, <4>1, <4>2
    <3> QED  BY <3>1 DEF OneHot
  <2> HIDE DEF gene
  <2>2. \A j \in Rows : j # i => GenesOf(g)[j] = GenesOf(k)[j]
    BY <1>2 DEF GenesOf
  <2>3. GenesOf(k)[i] = OneHot(k[i])
    BY <1>0 DEF GenesOf
  <2>4. GenesOf(g) = [j \in Rows |-> GenesOf(g)[j]] /\ GenesOf(k) = [j \in Rows |-> GenesOf(k)[j]]
    BY DEF GenesOf
  <2> QED  BY <2>1, <2>2, <2>3, <2>4
<1> DEFINE xg == GenesOf(g)
           xc == RowCost(g)
           x2 == RowC12(g)
           x3 == RowC3(g)
           xl == RowLinear(g)
           sc == SumOver(RowCost(g), Rows)
           s2 == SumOver(RowC12(g), Rows)
           s3 == SumOver(RowC3(g), Rows)
           sl == SumOver(RowLinear(g), Rows)
<1>15. x = [genes |-> xg, memo |-> None, row_cost |-> xc, row_c12 |-> x2, row_c3 |-> x3,
            row_linear |-> xl, total |-> sc, c12 |-> s2, c3 |-> s3, linear |-> sl]
  BY DEF Exact
<1>16. Install(x, mask, c) =
         [x EXCEPT !.total = @ + (mask * (Cost(i, m) - x.row_cost[i])),
                   !.linear = @ + (mask * (Contribution(i, m) - x.row_linear[i])),
                   !.c12 = @ + (mask * ((IF m < 3 THEN Cost(i, m) ELSE 0) - x.row_c12[i])),
                   !.c3 = @ + (mask * ((IF m = 3 THEN Cost(i, m) ELSE 0) - x.row_c3[i])),
                   !.row_cost[i] = @ + (mask * (Cost(i, m) - x.row_cost[i])),
                   !.row_linear[i] = @ + (mask * (Contribution(i, m) - x.row_linear[i])),
                   !.row_c12[i] = @ + (mask * ((IF m < 3 THEN Cost(i, m) ELSE 0) - x.row_c12[i])),
                   !.row_c3[i] = @ + (mask * ((IF m = 3 THEN Cost(i, m) ELSE 0) - x.row_c3[i])),
                   !.genes[i] = [n \in 1..3 |->
                     x.genes[i][n] + mask * (OneHot(m)[n] - x.genes[i][n])]]
  BY DEF Install, i, m
<1> HIDE DEF x, gene, xg, xc, x2, x3, xl, sc, s2, s3, sl
<1>17. x.row_cost = xc /\ x.row_linear = xl /\ x.row_c12 = x2 /\ x.row_c3 = x3 /\ x.genes = xg
  BY <1>15
<1>18. /\ mask * (Cost(i, m) - x.row_cost[i]) = cost
       /\ mask * (Contribution(i, m) - x.row_linear[i]) = gain
       /\ mask * ((IF m < 3 THEN Cost(i, m) ELSE 0) - x.row_c12[i]) = cost12
       /\ mask * ((IF m = 3 THEN Cost(i, m) ELSE 0) - x.row_c3[i]) = cost3
       /\ [n \in 1..3 |-> x.genes[i][n] + mask * (OneHot(m)[n] - x.genes[i][n])] = gene
  BY <1>17 DEF cost, gain, cost12, cost3, gene, xc, xl, x2, x3, xg
<1>19. Install(x, mask, c) =
         [x EXCEPT !.total = @ + cost, !.linear = @ + gain, !.c12 = @ + cost12,
                   !.c3 = @ + cost3, !.row_cost[i] = @ + cost, !.row_linear[i] = @ + gain,
                   !.row_c12[i] = @ + cost12, !.row_c3[i] = @ + cost3, !.genes[i] = gene]
  BY <1>16, <1>18
<1> DEFINE ng == [xg EXCEPT ![i] = gene]
           nc == [xc EXCEPT ![i] = @ + cost]
           n2 == [x2 EXCEPT ![i] = @ + cost12]
           n3 == [x3 EXCEPT ![i] = @ + cost3]
           nl == [xl EXCEPT ![i] = @ + gain]
           tc == sc + cost
           t2 == s2 + cost12
           t3 == s3 + cost3
           tl == sl + gain
<1>20. Install(x, mask, c) =
         [x EXCEPT !.total = tc, !.linear = tl, !.c12 = t2, !.c3 = t3,
                   !.row_cost = nc, !.row_linear = nl, !.row_c12 = n2, !.row_c3 = n3,
                   !.genes = ng]
  <2>1. x.total = sc /\ x.linear = sl /\ x.c12 = s2 /\ x.c3 = s3
    BY <1>15
  <2>2. Install(x, mask, c) =
         [x EXCEPT !.total = x.total + cost, !.linear = x.linear + gain,
                   !.c12 = x.c12 + cost12, !.c3 = x.c3 + cost3,
                   !.row_cost = [x.row_cost EXCEPT ![i] = @ + cost],
                   !.row_linear = [x.row_linear EXCEPT ![i] = @ + gain],
                   !.row_c12 = [x.row_c12 EXCEPT ![i] = @ + cost12],
                   !.row_c3 = [x.row_c3 EXCEPT ![i] = @ + cost3],
                   !.genes = [x.genes EXCEPT ![i] = gene]]
    <3> HIDE DEF ng, nc, n2, n3, nl, tc, t2, t3, tl
    <3> QED  BY <1>19, SMTT(60)
  <2> QED  BY <1>17, <2>1, <2>2
<1>23. Install(x, mask, c) =
         [genes |-> ng, memo |-> None, row_cost |-> nc, row_c12 |-> n2, row_c3 |-> n3,
          row_linear |-> nl, total |-> tc, c12 |-> t2, c3 |-> t3, linear |-> tl]
  <2> HIDE DEF ng, nc, n2, n3, nl, tc, t2, t3, tl
  <2> QED  BY <1>15, <1>20, ZenonT(60)
<1>21. Install(x, mask, c) =
         [genes |-> GenesOf(k), memo |-> None,
          row_cost |-> RowCost(k), row_c12 |-> RowC12(k), row_c3 |-> RowC3(k),
          row_linear |-> RowLinear(k),
          total |-> SumOver(RowCost(k), Rows), c12 |-> SumOver(RowC12(k), Rows),
          c3 |-> SumOver(RowC3(k), Rows), linear |-> SumOver(RowLinear(k), Rows)]
  BY <1>10, <1>11, <1>12, <1>13, <1>14, <1>23 DEF xg, xc, x2, x3, xl, sc, s2, s3, sl
<1>22. Install(x, mask, c) = Exact(k, None, "kept")
  BY <1>21 DEF Exact
<1> QED  BY <1>22 DEF x, k, i, m


-----------------------------------------------------------------------------
(* The two scans of a repair round.                                         *)
LEMMA ScannedFacts ==
  ASSUME Setting
  PROVE  /\ Indices(DOMAIN Scanned)
         /\ \A j \in DOMAIN Scanned : /\ Scanned[j][1] \in Rows
                                      /\ Scanned[j][2] \in 1..3
<1> DEFINE n == Len(task.costs)
<1>1. n \in Nat /\ Rows = 1..n
  BY TaskFacts, RowFacts
<1>2. Scanned = [k \in 1 .. 3 * n |-> <<((k - 1) \div 3) + 1, ((k - 1) % 3) + 1>>]
  BY DEF Scanned
<1> HIDE DEF n
<1>3. DOMAIN Scanned = 1 .. 3 * n
  BY <1>2
<1>4. Indices(DOMAIN Scanned)
  BY <1>1, <1>3, RangeIndices
<1>5. ASSUME NEW j \in 1 .. 3 * n
      PROVE  ((j - 1) \div 3) + 1 \in 1..n /\ ((j - 1) % 3) + 1 \in 1..3
  BY <1>1
<1> QED  BY <1>1, <1>2, <1>3, <1>4, <1>5

Proposals == [cost : Int, gain : Int, id : Int, have : Bits,
              cost3 : Int, id3 : Int, have3 : Bits]

NoProposal == [cost |-> 0, gain |-> 0, id |-> 0, have |-> 0,
               cost3 |-> 0, id3 |-> 0, have3 |-> 0]

Found(x, need3, count3) ==
  FoldLeft(LAMBDA acc, c : IF IsAvailable(c)
                           THEN Propose(x, need3, count3, acc, c) ELSE acc,
           NoProposal, Scanned)

Moved(x, apply, id) ==
  FoldLeft(LAMBDA y, c : IF IsAvailable(c)
                         THEN Install(y, apply * Equal(id, Id(c)), c) ELSE y,
           x, Scanned)

LEMMA SelectIsInt ==
  ASSUME NEW bit \in Bits, NEW yes \in Int, NEW no \in Int
  PROVE  Select(bit, yes, no) \in Int
BY SelectBit

LEMMA ProposeTypes ==
  ASSUME Setting, NEW g \in Assignments, NEW need3 \in Bits, NEW count3 \in Int,
         NEW acc \in Proposals, NEW c, c[1] \in Rows, c[2] \in Methods(c[1]),
         c[1] \in Int, c[2] \in Int
  PROVE  Propose(Exact(g, None, "kept"), need3, count3, acc, c) \in Proposals
<1> DEFINE x == Exact(g, None, "kept")
           i == c[1]
           m == c[2]
           cost     == Cost(i, m) - x.row_cost[i]
           gain     == Contribution(i, m) - x.row_linear[i]
           keeps    == IF m = 3 THEN Not(need3) ELSE Greater(count3 - x.genes[i][3], 0)
           valid    == And(Greater(gain, 0), keeps)
           smaller  == Less(cost * acc.gain, acc.cost * gain)
           replace  == And(valid, Or(Not(acc.have), smaller))
           replace3 == IF m = 3 THEN Or(Not(acc.have3), Less(cost, acc.cost3)) ELSE 0
<1>1. Propose(x, need3, count3, acc, c) =
        [cost  |-> Select(replace, cost, acc.cost),
         gain  |-> Select(replace, gain, acc.gain),
         id    |-> Select(replace, Id(c), acc.id),
         have  |-> Or(acc.have, valid),
         cost3 |-> Select(replace3, cost, acc.cost3),
         id3   |-> Select(replace3, Id(c), acc.id3),
         have3 |-> Or(acc.have3, replace3)]
  BY DEF Propose
<1>2. /\ acc.cost \in Int /\ acc.gain \in Int /\ acc.id \in Int /\ acc.have \in Bits
      /\ acc.cost3 \in Int /\ acc.id3 \in Int /\ acc.have3 \in Bits
  BY DEF Proposals
<1>3. cost \in Int /\ gain \in Int /\ x.genes[i][3] \in Int
  <2>1. x.row_cost = RowCost(g) /\ x.row_linear = RowLinear(g) /\ x.genes = GenesOf(g)
    BY DEF Exact
  <2>2. Cost(i, m) \in Int /\ Contribution(i, m) \in Int
    BY MethodFacts
  <2>3. x.row_cost[i] \in Int /\ x.row_linear[i] \in Int
    <3> HIDE DEF x
    <3> QED  BY <2>1, RowTermTypes
  <2>4. x.genes[i][3] = IF 3 = g[i] THEN 1 ELSE 0
    <3> HIDE DEF x
    <3> QED  BY <2>1 DEF GenesOf, OneHot
  <2> HIDE DEF x
  <2> QED  BY <2>2, <2>3, <2>4
<1>4. Id(c) \in Int
  BY DEF Id
<1> HIDE DEF x, cost, gain, i, m
<1>5. keeps \in Bits
  <2>1. Not(need3) \in Bits
    BY BitArithmetic
  <2>2. count3 - x.genes[i][3] \in Int
    BY <1>3
  <2>3. Greater(count3 - x.genes[i][3], 0) \in Bits
    BY <2>2, ComparisonBits
  <2> QED  BY <2>1, <2>3
<1>6. Greater(gain, 0) \in Bits
  BY <1>3, ComparisonBits
<1> HIDE DEF keeps
<1>7. valid \in Bits
  BY <1>5, <1>6, BitArithmetic
<1>8. smaller \in Bits
  <2> DEFINE p == cost * acc.gain
             q == acc.cost * gain
  <2>1. p \in Int /\ q \in Int
    BY <1>2, <1>3
  <2> HIDE DEF p, q
  <2>2. Less(p, q) \in Bits
    BY <2>1, ComparisonBits
  <2> QED  BY <2>2 DEF p, q
<1> HIDE DEF valid, smaller
<1>9. Not(acc.have) \in Bits /\ Not(acc.have3) \in Bits /\ Or(acc.have, valid) \in Bits
  BY <1>2, <1>7, BitArithmetic
<1>10. replace \in Bits
  <2>1. Or(Not(acc.have), smaller) \in Bits
    BY <1>8, <1>9, BitArithmetic
  <2> QED  BY <1>7, <2>1, BitArithmetic
<1>11. replace3 \in Bits
  <2>1. Less(cost, acc.cost3) \in Bits
    BY <1>2, <1>3, ComparisonBits
  <2>2. Or(Not(acc.have3), Less(cost, acc.cost3)) \in Bits
    BY <1>9, <2>1, BitArithmetic
  <2> QED  BY <2>2 DEF Bits
<1> HIDE DEF replace, replace3
<1>12. Or(acc.have3, replace3) \in Bits
  BY <1>2, <1>11, BitArithmetic
<1>13. /\ Select(replace, cost, acc.cost) \in Int /\ Select(replace, gain, acc.gain) \in Int
       /\ Select(replace, Id(c), acc.id) \in Int /\ Select(replace3, cost, acc.cost3) \in Int
       /\ Select(replace3, Id(c), acc.id3) \in Int
  BY <1>2, <1>3, <1>4, <1>10, <1>11, SelectIsInt
<1>14. Propose(x, need3, count3, acc, c) \in Proposals
  BY <1>1, <1>9, <1>12, <1>13 DEF Proposals
<1> QED  BY <1>14 DEF x

LEMMA FoundTypes ==
  ASSUME Setting, NEW x \in Complete, NEW need3 \in Bits, NEW count3 \in Int
  PROVE  Found(x, need3, count3) \in Proposals
<1> DEFINE q == Scanned
           D == DOMAIN q
           V == Proposals
           base == NoProposal
           op(acc, e) == IF IsAvailable(e) THEN Propose(x, need3, count3, acc, e) ELSE acc
           Folds(h) == h = [s \in SUBSET D |->
                              IF s = {} THEN base ELSE op(h[s \ {Max(s)}], q[Max(s)])]
           step == [p \in V \X D |-> op(p[1], q[p[2]])]
           c    == CHOOSE h : Folds(h)
<1>1. Found(x, need3, count3) = c[D]
  BY DEF Found, FoldLeft, MapThenFoldSet
<1>2. Indices(D) /\ \A j \in D : q[j][1] \in Rows /\ q[j][2] \in 1..3
  BY ScannedFacts
<1>3. base \in V
  BY DEF NoProposal, Proposals, Bits
<1>4. ASSUME NEW v \in V, NEW j \in D  PROVE op(v, q[j]) \in V
  <2>1. CASE IsAvailable(q[j])
    <3>1. /\ q[j][1] \in Rows /\ q[j][2] \in Methods(q[j][1])
          /\ q[j][1] \in Int /\ q[j][2] \in Int
      BY <1>2, <2>1, RowFacts DEF IsAvailable
    <3>2. PICK g \in Assignments : x = Exact(g, None, "kept")
      BY DEF Complete
    <3> DEFINE d == q[j]
    <3>3. op(v, d) = Propose(x, need3, count3, v, d)
      BY <2>1
    <3> HIDE DEF op, d
    <3> QED  BY <3>1, <3>2, <3>3, ProposeTypes DEF d
  <2>2. CASE ~ IsAvailable(q[j])
    BY <2>2
  <2> QED  BY <2>1, <2>2
<1>5. step \in [V \X D -> V]
  BY <1>4
<1>6. ASSUME NEW h, StaysIn(h, step, base, V, D)  PROVE Folds(h)
  <2>1. ASSUME NEW s \in SUBSET D
        PROVE  h[s] = IF s = {} THEN base ELSE op(h[s \ {Max(s)}], q[Max(s)])
    <3> HIDE DEF op, base, D, V, q
    <3> QED  BY <1>6 DEF StaysIn
  <2> HIDE DEF op, base, D, V, q
  <2> QED  BY <1>6, <2>1 DEF StaysIn
<1>7. ASSUME Folds(c)  PROVE Follows(c, step, base, V, D)
  <2> HIDE DEF op, base, V, q, D
  <2>1. c[{}] = base
    BY <1>7
  <2>2. ASSUME NEW s \in SUBSET D, s # {}, c[s \ {Max(s)}] \in V, Max(s) \in D
        PROVE  c[s] = step[<<c[s \ {Max(s)}], Max(s)>>]
    <3> HIDE DEF c
    <3> QED  BY <1>7, <2>2
  <2> QED  BY <2>1, <2>2 DEF Follows
<1>8. (\E h : StaysIn(h, step, base, V, D)) => Follows(c, step, base, V, D)
  <2> HIDE DEF step
  <2> QED  BY <1>6, <1>7
<1>9. c[D] \in V
  <2> HIDE DEF c, step, base, V, D
  <2> QED  BY <1>2, <1>3, <1>5, <1>8, FoldValue
<1> QED  BY <1>1, <1>9

LEMMA MovedIsComplete ==
  ASSUME Setting, NEW x \in Complete, NEW apply \in Bits, NEW id \in Int
  PROVE  Moved(x, apply, id) \in Complete
<1> DEFINE q == Scanned
           D == DOMAIN q
           V == Complete
           base == x
           op(y, e) == IF IsAvailable(e) THEN Install(y, apply * Equal(id, Id(e)), e) ELSE y
           Folds(h) == h = [s \in SUBSET D |->
                              IF s = {} THEN base ELSE op(h[s \ {Max(s)}], q[Max(s)])]
           step == [p \in V \X D |-> op(p[1], q[p[2]])]
           c    == CHOOSE h : Folds(h)
<1>1. Moved(x, apply, id) = c[D]
  BY DEF Moved, FoldLeft, MapThenFoldSet
<1>2. Indices(D) /\ \A j \in D : q[j][1] \in Rows /\ q[j][2] \in 1..3
  BY ScannedFacts
<1>3. base \in V
  OBVIOUS
<1>4. ASSUME NEW v \in V, NEW j \in D  PROVE op(v, q[j]) \in V
  <2>1. CASE IsAvailable(q[j])
    <3> DEFINE d == q[j]
               mask == apply * Equal(id, Id(d))
    <3>1. /\ d[1] \in Rows /\ d[2] \in Methods(d[1])
          /\ d[1] \in Int /\ d[2] \in Int
      BY <1>2, <2>1, RowFacts DEF IsAvailable
    <3>2. PICK g \in Assignments : v = Exact(g, None, "kept")
      BY DEF Complete
    <3>3. op(v, d) = Install(v, mask, d)
      BY <2>1
    <3> HIDE DEF op, d
    <3>4. mask \in Bits
      <4>1. Equal(id, Id(d)) \in Bits
        <5>1. Id(d) \in Int
          BY <3>1 DEF Id
        <5> QED  BY <5>1, ComparisonBits
      <4> QED  BY <4>1, BitArithmetic DEF And
    <3> HIDE DEF mask
    <3>5. Install(v, mask, d) = Exact(Applied(g, mask, d[1], d[2]), None, "kept")
      BY <3>1, <3>2, <3>4, InstallIsExact
    <3>6. Applied(g, mask, d[1], d[2]) \in Assignments
      BY <3>1, AppliedIsAssignment
    <3>7. op(v, d) \in Complete
      BY <3>3, <3>5, <3>6 DEF Complete
    <3> QED  BY <3>7 DEF d
  <2>2. CASE ~ IsAvailable(q[j])
    BY <2>2
  <2> QED  BY <2>1, <2>2
<1>5. step \in [V \X D -> V]
  BY <1>4
<1>6. ASSUME NEW h, StaysIn(h, step, base, V, D)  PROVE Folds(h)
  <2>1. ASSUME NEW s \in SUBSET D
        PROVE  h[s] = IF s = {} THEN base ELSE op(h[s \ {Max(s)}], q[Max(s)])
    <3> HIDE DEF op, base, D, V, q
    <3> QED  BY <1>6 DEF StaysIn
  <2> HIDE DEF op, base, D, V, q
  <2> QED  BY <1>6, <2>1 DEF StaysIn
<1>7. ASSUME Folds(c)  PROVE Follows(c, step, base, V, D)
  <2> HIDE DEF op, base, V, q, D
  <2>1. c[{}] = base
    BY <1>7
  <2>2. ASSUME NEW s \in SUBSET D, s # {}, c[s \ {Max(s)}] \in V, Max(s) \in D
        PROVE  c[s] = step[<<c[s \ {Max(s)}], Max(s)>>]
    <3> HIDE DEF c
    <3> QED  BY <1>7, <2>2
  <2> QED  BY <2>1, <2>2 DEF Follows
<1>8. (\E h : StaysIn(h, step, base, V, D)) => Follows(c, step, base, V, D)
  <2> HIDE DEF step
  <2> QED  BY <1>6, <1>7
<1>9. c[D] \in V
  <2> HIDE DEF c, step, base, V, D
  <2> QED  BY <1>2, <1>3, <1>5, <1>8, FoldValue
<1> QED  BY <1>1, <1>9

LEMMA RoundIsComplete ==
  ASSUME Setting, NEW x \in Complete
  PROVE  RepairRound(x) \in Complete
<1> DEFINE need3  == Not(Greater(x.c3, 0))
           count3 == SumOver([i \in Rows |-> x.genes[i][3]], Rows)
           found  == Found(x, need3, count3)
           id     == Select(need3, found.id3, found.id)
           have   == Or(found.have, And(need3, found.have3))
           apply  == And(Not(Feasible(x)), have)
           moved  == Moved(x, apply, id)
<1>1. RepairRound(x) = [moved EXCEPT !.memo = None]
  BY DEF RepairRound, Found, Moved, NoProposal
<1>2. Ranked(x)
  BY CompleteIsSound, SoundIsRanked
<1>3. need3 \in Bits
  <2>1. Greater(x.c3, 0) \in Bits
    BY <1>2, ComparisonBits DEF Ranked
  <2> QED  BY <2>1, BitArithmetic
<1>4. count3 \in Int
  <2> DEFINE f == [i \in Rows |-> x.genes[i][3]]
  <2>1. f \in [Rows -> Int]
    BY <1>2 DEF Ranked
  <2>2. IsFiniteSet(Rows) /\ Rows \in SUBSET Rows
    BY RowFacts
  <2> HIDE DEF f
  <2>3. SumOver(f, Rows) \in Int
    BY <2>1, <2>2, SumType
  <2> QED  BY <2>3 DEF f
<1> HIDE DEF need3, count3
<1>5. found \in Proposals
  BY <1>3, <1>4, FoundTypes
<1> HIDE DEF found
<1>6. found.id \in Int /\ found.id3 \in Int /\ found.have \in Bits /\ found.have3 \in Bits
  BY <1>5 DEF Proposals
<1>7. id \in Int
  BY <1>3, <1>6, SelectIsInt
<1>8. have \in Bits
  <2>1. And(need3, found.have3) \in Bits
    BY <1>3, <1>6, BitArithmetic
  <2> QED  BY <1>6, <2>1, BitArithmetic
<1> HIDE DEF id, have
<1>9. apply \in Bits
  <2>1. Not(Feasible(x)) \in Bits
    BY <1>2, BitArithmetic DEF Ranked
  <2> QED  BY <1>8, <2>1, BitArithmetic
<1> HIDE DEF apply
<1>10. moved \in Complete
  BY <1>7, <1>9, MovedIsComplete
<1> HIDE DEF moved
<1>11. [moved EXCEPT !.memo = None] = moved
  <2>1. PICK g \in Assignments : moved = Exact(g, None, "kept")
    BY <1>10 DEF Complete
  <2> QED  BY <2>1 DEF Exact
<1> QED  BY <1>1, <1>10, <1>11

LEMMA RepairIsComplete ==
  ASSUME Setting, NEW x \in Complete
  PROVE  Repair(x) \in Complete
<1> DEFINE q == [k \in 1..Rounds |-> k]
           D == DOMAIN q
           V == Complete
           base == x
           op(y, k) == RepairRound(y)
           Folds(h) == h = [s \in SUBSET D |->
                              IF s = {} THEN base ELSE op(h[s \ {Max(s)}], q[Max(s)])]
           step == [p \in V \X D |-> op(p[1], q[p[2]])]
           c    == CHOOSE h : Folds(h)
<1>1. Repair(x) = c[D]
  BY DEF Repair, FoldLeft, MapThenFoldSet
<1>2. Indices(D)
  <2>1. Rounds \in Nat
    BY TaskFacts DEF Rounds, Requested
  <2>2. D = 1..Rounds
    OBVIOUS
  <2> QED  BY <2>1, <2>2, RangeIndices
<1>3. base \in V
  OBVIOUS
<1>4. ASSUME NEW v \in V, NEW j \in D  PROVE op(v, q[j]) \in V
  BY RoundIsComplete
<1>5. step \in [V \X D -> V]
  BY <1>4
<1>6. ASSUME NEW h, StaysIn(h, step, base, V, D)  PROVE Folds(h)
  <2>1. ASSUME NEW s \in SUBSET D
        PROVE  h[s] = IF s = {} THEN base ELSE op(h[s \ {Max(s)}], q[Max(s)])
    <3> HIDE DEF op, base, D, V, q
    <3> QED  BY <1>6 DEF StaysIn
  <2> HIDE DEF op, base, D, V, q
  <2> QED  BY <1>6, <2>1 DEF StaysIn
<1>7. ASSUME Folds(c)  PROVE Follows(c, step, base, V, D)
  <2> HIDE DEF op, base, V, q, D
  <2>1. c[{}] = base
    BY <1>7
  <2>2. ASSUME NEW s \in SUBSET D, s # {}, c[s \ {Max(s)}] \in V, Max(s) \in D
        PROVE  c[s] = step[<<c[s \ {Max(s)}], Max(s)>>]
    <3> HIDE DEF c
    <3> QED  BY <1>7, <2>2
  <2> QED  BY <2>1, <2>2 DEF Follows
<1>8. (\E h : StaysIn(h, step, base, V, D)) => Follows(c, step, base, V, D)
  <2> HIDE DEF step
  <2> QED  BY <1>6, <1>7
<1>9. c[D] \in V
  <2> HIDE DEF c, step, base, V, D
  <2> QED  BY <1>2, <1>3, <1>5, <1>8, FoldValue
<1> QED  BY <1>1, <1>9

(* What repair makes of genes that are an assignment's.                     *)
LEMMA RepairedIsSound ==
  ASSUME Setting, NEW g \in Assignments
  PROVE  Repair(Evaluate(GenesOf(g))) \in Sound
<1>1. Evaluate(GenesOf(g)) \in Complete
  BY EvaluateIsExact DEF Complete
<1> QED  BY <1>1, RepairIsComplete, CompleteIsSound

-----------------------------------------------------------------------------
(* The genes that the search starts from and breeds.                        *)
LEMMA CheapestGenesIn ==
  ASSUME Setting, NEW i \in Rows
  PROVE  CheapestGenes(i) \in {OneHot(m) : m \in Methods(i)}
<1> DEFINE first == Head(Available(i))
           q == Tail(Available(i))
           entry(m) == [cost |-> Cost(i, m), genes |-> OneHot(m)]
           D == DOMAIN q
           V == {entry(m) : m \in Methods(i)}
           base == [cost |-> Cost(i, first), genes |-> OneHot(first)]
           op(acc, m) ==
             LET cheaper == Less(Cost(i, m), acc.cost)
             IN  [cost  |-> Select(cheaper, Cost(i, m), acc.cost),
                  genes |-> [k \in 1..3 |->
                               Select(cheaper, OneHot(m)[k], acc.genes[k])]]
           Folds(h) == h = [s \in SUBSET D |->
                              IF s = {} THEN base ELSE op(h[s \ {Max(s)}], q[Max(s)])]
           step == [p \in V \X D |-> op(p[1], q[p[2]])]
           c    == CHOOSE h : Folds(h)
<1>1. CheapestGenes(i) = (c[D]).genes
  BY DEF CheapestGenes, FoldLeft, MapThenFoldSet
<1>2. Indices(D) /\ \A j \in D : q[j] \in Methods(i)
  <2>1. q \in Seq(Methods(i)) /\ Len(q) \in Nat
    BY AvailableFacts
  <2>2. D = 1 .. Len(q)
    BY <2>1
  <2> QED  BY <2>1, <2>2, RangeIndices
<1>3. base \in V
  BY AvailableFacts
<1>4. ASSUME NEW v \in V, NEW j \in D  PROVE op(v, q[j]) \in V
  <2>1. PICK k \in Methods(i) : v = entry(k)
    OBVIOUS
  <2> DEFINE m == q[j]
             n == IF Less(Cost(i, m), Cost(i, k)) = 1 THEN m ELSE k
  <2>2. m \in Methods(i) /\ Cost(i, m) \in Int /\ Cost(i, k) \in Int
    BY <1>2, MethodFacts
  <2>3. v.cost = Cost(i, k) /\ v.genes = OneHot(k)
    BY <2>1
  <2>4. op(v, m) =
          [cost |-> Select(Less(Cost(i, m), v.cost), Cost(i, m), v.cost),
           genes |-> [l \in 1..3 |->
                        Select(Less(Cost(i, m), v.cost), OneHot(m)[l], v.genes[l])]]
    OBVIOUS
  <2> HIDE DEF op, m
  <2>5. Less(Cost(i, m), v.cost) \in Bits
    BY <2>2, <2>3, ComparisonBits
  <2>6. Select(Less(Cost(i, m), v.cost), Cost(i, m), v.cost) = Cost(i, n)
    BY <2>2, <2>3, <2>5, SelectBit
  <2>7. ASSUME NEW l \in 1..3
        PROVE  Select(Less(Cost(i, m), v.cost), OneHot(m)[l], v.genes[l]) = OneHot(n)[l]
    <3>1. OneHot(m)[l] \in Int /\ v.genes[l] \in Int /\ v.genes[l] = OneHot(k)[l]
      BY <2>3 DEF OneHot
    <3> QED  BY <2>3, <2>5, <3>1, SelectBit
  <2>8. n \in Methods(i)
    BY <2>2
  <2> HIDE DEF n, entry, V
  <2>9. [l \in 1..3 |-> Select(Less(Cost(i, m), v.cost), OneHot(m)[l], v.genes[l])] = OneHot(n)
    <3>1. OneHot(n) = [l \in 1..3 |-> OneHot(n)[l]]
      BY DEF OneHot
    <3> QED  BY <2>7, <3>1
  <2>10. op(v, m) = entry(n)
    BY <2>4, <2>6, <2>9 DEF entry
  <2> QED  BY <2>8, <2>10 DEF V, m
<1>5. step \in [V \X D -> V]
  BY <1>4
<1>6. ASSUME NEW h, StaysIn(h, step, base, V, D)  PROVE Folds(h)
  <2>1. ASSUME NEW s \in SUBSET D
        PROVE  h[s] = IF s = {} THEN base ELSE op(h[s \ {Max(s)}], q[Max(s)])
    <3> HIDE DEF op, base, D, V, q
    <3> QED  BY <1>6 DEF StaysIn
  <2> HIDE DEF op, base, D, V, q
  <2> QED  BY <1>6, <2>1 DEF StaysIn
<1>7. ASSUME Folds(c)  PROVE Follows(c, step, base, V, D)
  <2> HIDE DEF op, base, V, q, D
  <2>1. c[{}] = base
    BY <1>7
  <2>2. ASSUME NEW s \in SUBSET D, s # {}, c[s \ {Max(s)}] \in V, Max(s) \in D
        PROVE  c[s] = step[<<c[s \ {Max(s)}], Max(s)>>]
    <3> HIDE DEF c
    <3> QED  BY <1>7, <2>2
  <2> QED  BY <2>1, <2>2 DEF Follows
<1>8. (\E h : StaysIn(h, step, base, V, D)) => Follows(c, step, base, V, D)
  <2> HIDE DEF step, base, V, D, op, q
  <2> QED  BY <1>6, <1>7
<1>9. c[D] \in V
  <2> HIDE DEF c, step, base, V, D
  <2> QED  BY <1>2, <1>3, <1>5, <1>8, FoldValue
<1>10. PICK m \in Methods(i) : c[D] = entry(m)
  BY <1>9
<1> HIDE DEF c, D
<1>11. CheapestGenes(i) = OneHot(m)
  BY <1>1, <1>10
<1> QED  BY <1>11

AllGenes == {GenesOf(g) : g \in Assignments}

LEMMA GenesRowByRow ==
  ASSUME Setting, NEW f, f = [i \in Rows |-> f[i]],
         \A i \in Rows : f[i] \in {OneHot(m) : m \in Methods(i)}
  PROVE  f \in AllGenes
<1> DEFINE g == [i \in Rows |-> CHOOSE m \in Methods(i) : f[i] = OneHot(m)]
<1>1. \A i \in Rows : g[i] \in Methods(i) /\ f[i] = OneHot(g[i])
  OBVIOUS
<1>2. g \in [Rows -> 1..3]
  <2>1. \A i \in Rows : Methods(i) \in SUBSET (1..3)
    BY MethodFacts
  <2>2. g = [i \in Rows |-> g[i]]
    OBVIOUS
  <2> HIDE DEF g
  <2> QED  BY <1>1, <2>1, <2>2
<1> HIDE DEF g
<1>3. g \in Assignments
  BY <1>1, <1>2, AssignmentFacts
<1>4. f = GenesOf(g)
  BY <1>1 DEF GenesOf
<1> QED  BY <1>3, <1>4 DEF AllGenes

LEMMA GenesRows ==
  ASSUME Setting, NEW f \in AllGenes
  PROVE  f = [i \in Rows |-> f[i]] /\ \A i \in Rows : f[i] \in {OneHot(m) : m \in Methods(i)}
<1>1. PICK g \in Assignments : f = GenesOf(g)
  BY DEF AllGenes
<1> QED  BY <1>1, RowTermTypes DEF GenesOf

LEMMA CheapestIsGenes ==
  ASSUME Setting
  PROVE  Cheapest \in AllGenes
<1>1. Cheapest = [i \in Rows |-> Cheapest[i]]
  BY DEF Cheapest
<1>2. \A i \in Rows : Cheapest[i] \in {OneHot(m) : m \in Methods(i)}
  BY CheapestGenesIn DEF Cheapest
<1> QED  BY <1>1, <1>2, GenesRowByRow

LEMMA DrawnIsGenes ==
  ASSUME Setting, NEW d \in SeedDraws
  PROVE  Drawn(d) \in AllGenes
<1>1. ASSUME NEW i \in Rows
      PROVE  OneHot(Available(i)[d[i]]) \in {OneHot(m) : m \in Methods(i)}
  <2> DEFINE n == Cardinality(Methods(i))
  <2>1. n \in Nat \ {0} /\ Available(i) \in [1..n -> Methods(i)]
    BY AvailableFacts
  <2>2. d[i] \in 1..3 /\ d[i] <= n
    BY DEF SeedDraws
  <2> HIDE DEF n
  <2>3. d[i] \in 1..n
    BY <2>1, <2>2
  <2>4. Available(i)[d[i]] \in Methods(i)
    BY <2>1, <2>3
  <2> QED  BY <2>4
<1> DEFINE f == [i \in Rows |-> OneHot(Available(i)[d[i]])]
<1>2. Drawn(d) = f /\ f = [i \in Rows |-> f[i]]
      /\ \A i \in Rows : f[i] \in {OneHot(m) : m \in Methods(i)}
  BY <1>1 DEF Drawn
<1> HIDE DEF f
<1> QED  BY <1>2, GenesRowByRow

LEMMA SoundGenes ==
  ASSUME NEW x \in Sound
  PROVE  x.genes \in AllGenes
<1>1. PICK g \in Assignments, terms \in Terms :
        x = Exact(g, None, terms) \/ x = Exact(g, Memo(g), terms)
  BY SoundIs
<1>2. x.genes = GenesOf(g)
  BY <1>1, ExactFields
<1> QED  BY <1>2 DEF AllGenes

LEMMA MutatedRow ==
  ASSUME Setting, NEW i \in Rows, NEW gene \in {OneHot(m) : m \in Methods(i)},
         NEW drawn \in 1 .. Cardinality(Methods(i))
  PROVE  MutateRow(gene, i, drawn) \in {OneHot(m) : m \in Methods(i)}
<1> DEFINE choices  == Available(i)
           n        == Cardinality(Methods(i))
           selected == choices[drawn]
           after    == (drawn % n) + 1
           fallback == choices[after]
           same     == Not(Or(Greater(gene[selected], 1), Greater(1, gene[selected])))
           m        == IF same = 1 THEN fallback ELSE selected
<1>1. n \in Nat \ {0} /\ Len(choices) = n /\ choices \in [1..n -> Methods(i)]
  BY AvailableFacts
<1>2. selected \in Methods(i) /\ fallback \in Methods(i)
  <2> HIDE DEF n, choices
  <2>1. drawn \in 1..n
    BY DEF n
  <2>2. after \in 1..n
    BY <1>1, <2>1
  <2> HIDE DEF after
  <2> QED  BY <1>1, <2>1, <2>2
<1>3. MutateRow(gene, i, drawn) =
        [k \in 1..3 |-> Select(same, OneHot(fallback)[k], OneHot(selected)[k])]
  BY <1>1 DEF MutateRow
<1>4. same \in Bits
  <2>1. gene[selected] \in Int
    <3>1. selected \in 1..3
      BY <1>2, MethodFacts
    <3> HIDE DEF selected
    <3> QED  BY <3>1 DEF OneHot
  <2> HIDE DEF selected
  <2>2. Greater(gene[selected], 1) \in Bits /\ Greater(1, gene[selected]) \in Bits
    BY <2>1, ComparisonBits
  <2>3. Or(Greater(gene[selected], 1), Greater(1, gene[selected])) \in Bits
    BY <2>2, BitArithmetic
  <2> QED  BY <2>3, BitArithmetic
<1> HIDE DEF choices, n, selected, after, fallback, same
<1>5. ASSUME NEW k \in 1..3
      PROVE  Select(same, OneHot(fallback)[k], OneHot(selected)[k]) = OneHot(m)[k]
  <2>1. OneHot(fallback)[k] \in Int /\ OneHot(selected)[k] \in Int
    BY DEF OneHot
  <2> QED  BY <1>4, <2>1, SelectBit
<1>6. m \in Methods(i)
  BY <1>2
<1> HIDE DEF m
<1>7. MutateRow(gene, i, drawn) = OneHot(m)
  <2>1. OneHot(m) = [k \in 1..3 |-> OneHot(m)[k]]
    BY DEF OneHot
  <2> QED  BY <1>3, <1>5, <2>1
<1> QED  BY <1>6, <1>7

(* What is crossed and mutated keeps the genes of an assignment.            *)
LEMMA CrossedGenes ==
  ASSUME Setting, NEW a \in Sound, NEW b \in Sound, NEW fromB
  PROVE  Crossing(a, b, fromB) \in AllGenes
<1> DEFINE f == [i \in Rows |-> IF i \in fromB THEN b.genes[i] ELSE a.genes[i]]
<1>1. a.genes \in AllGenes /\ b.genes \in AllGenes
  BY SoundGenes
<1>2. \A i \in Rows : /\ a.genes[i] \in {OneHot(m) : m \in Methods(i)}
                      /\ b.genes[i] \in {OneHot(m) : m \in Methods(i)}
  BY <1>1, GenesRows
<1>3. /\ Crossing(a, b, fromB) = f /\ f = [i \in Rows |-> f[i]]
      /\ \A i \in Rows : f[i] \in {OneHot(m) : m \in Methods(i)}
  BY <1>2 DEF Crossing
<1> HIDE DEF f
<1> QED  BY <1>3, GenesRowByRow

LEMMA MutatedGenes ==
  ASSUME Setting, NEW genes \in AllGenes, NEW drawn \in MutationDraws
  PROVE  [i \in Rows |-> IF drawn[i] = 0 THEN genes[i]
                         ELSE MutateRow(genes[i], i, drawn[i])] \in AllGenes
<1> DEFINE f == [i \in Rows |-> IF drawn[i] = 0 THEN genes[i]
                               ELSE MutateRow(genes[i], i, drawn[i])]
<1>1. ASSUME NEW i \in Rows  PROVE f[i] \in {OneHot(m) : m \in Methods(i)}
  <2>1. genes[i] \in {OneHot(m) : m \in Methods(i)}
    BY GenesRows
  <2>2. CASE drawn[i] = 0
    BY <2>1, <2>2
  <2>3. CASE drawn[i] # 0
    <3> DEFINE n == Cardinality(Methods(i))
    <3>1. drawn[i] \in 0..3 /\ drawn[i] <= n
      BY <2>3 DEF MutationDraws
    <3>2. n \in Nat \ {0}
      BY AvailableFacts
    <3> HIDE DEF n
    <3>3. drawn[i] \in 1..n
      BY <2>3, <3>1, <3>2
    <3>4. MutateRow(genes[i], i, drawn[i]) \in {OneHot(m) : m \in Methods(i)}
      BY <2>1, <3>3, MutatedRow DEF n
    <3> QED  BY <2>3, <3>4
  <2> QED  BY <2>2, <2>3
<1>2. f = [i \in Rows |-> f[i]]
  OBVIOUS
<1> HIDE DEF f
<1>3. f \in AllGenes
  BY <1>1, <1>2, GenesRowByRow
<1> QED  BY <1>3 DEF f

-----------------------------------------------------------------------------
(* None of this changes while the task does not.                            *)
ChosenIncreasing(S) ==
  CHOOSE s \in [1 .. Cardinality(S) -> S] : \A j, k \in DOMAIN s : j < k => s[j] < s[k]

LargestOf(row, q) ==
  FoldLeft(LAMBDA acc, m : Select(Greater(row[m], acc), row[m], acc),
           row[Head(q)], Tail(q))

LEMMA SameRows ==
  ASSUME task' = task
  PROVE  /\ Rows' = Rows
         /\ \A i, m : Cost(i, m)' = Cost(i, m) /\ Contribution(i, m)' = Contribution(i, m)
         /\ \A i : Methods(i)' = Methods(i)
<1>1. Rows' = Rows
  BY DEF Rows
<1>2. \A i, m : Cost(i, m)' = Cost(i, m)
  BY DEF Cost
<1>3. \A i, m : Contribution(i, m)' = Contribution(i, m)
  BY DEF Contribution, Cost
<1>4. \A i : Methods(i)' = Methods(i)
  BY DEF Methods, Cost
<1> QED  BY <1>1, <1>2, <1>3, <1>4

LEMMA SameAssignments ==
  ASSUME task' = task
  PROVE  Assignments' = Assignments
BY SameRows DEF Assignments

LEMMA SamePenalties ==
  ASSUME task' = task
  PROVE  MaximumTotal' = MaximumTotal /\ Penalty' = Penalty /\ MissingPenalty' = MissingPenalty
<1>1. \A i : Available(i) = ChosenIncreasing(Methods(i))
  BY DEF Available, ChosenIncreasing
<1>2. \A i : Available(i)' = Available(i)
  <2>1. \A i : Available(i)' = ChosenIncreasing(Methods(i)')
    BY DEF Available, ChosenIncreasing
  <2> QED  BY <1>1, <2>1, SameRows
<1>3. \A i : RowMaximum(i) = LargestOf(task.costs[i], Available(i))
  BY DEF RowMaximum, LargestOf, Cost, FoldLeft, MapThenFoldSet
<1>4. \A i : RowMaximum(i)' = LargestOf(task'.costs[i], Available(i)')
  BY DEF RowMaximum, LargestOf, Cost, FoldLeft, MapThenFoldSet
<1>5. \A i : RowMaximum(i)' = RowMaximum(i)
  BY <1>2, <1>3, <1>4
<1>6. MaximumTotal' = MaximumTotal
  <2> DEFINE f == [i \in Rows |-> RowMaximum(i)]
  <2>1. f' = f
    BY <1>5, SameRows
  <2>2. MaximumTotal = SumOver(f, Rows)
    BY DEF MaximumTotal
  <2> HIDE DEF f
  <2> QED  BY <2>1, <2>2, SameRows DEF MaximumTotal, f
<1>7. Penalty' = Penalty
  BY <1>6 DEF Penalty
<1>8. MissingPenalty' = MissingPenalty
  BY <1>6, <1>7 DEF MissingPenalty
<1> QED  BY <1>6, <1>7, <1>8

LEMMA SameExact ==
  ASSUME task' = task, NEW CONSTANT g, NEW CONSTANT memo, NEW CONSTANT terms
  PROVE  Exact(g, memo, terms)' = Exact(g, memo, terms)
<1>1. GenesOf(g)' = GenesOf(g)
  BY SameRows DEF GenesOf
<1>2. /\ RowCost(g)' = RowCost(g) /\ RowC12(g)' = RowC12(g)
      /\ RowC3(g)' = RowC3(g) /\ RowLinear(g)' = RowLinear(g)
  BY SameRows DEF RowCost, RowC12, RowC3, RowLinear
<1>3. Rows' = Rows
  BY SameRows
<1> QED  BY <1>1, <1>2, <1>3 DEF Exact

LEMMA SameMemo ==
  ASSUME task' = task, NEW CONSTANT g
  PROVE  Memo(g)' = Memo(g)
<1>1. \A x : ComputedFitness(x)' = ComputedFitness(x)
  BY SamePenalties DEF ComputedFitness
<1>2. \A x : ComputedFeasible(x)' = ComputedFeasible(x)
  BY DEF ComputedFeasible
<1>3. Exact(g, None, "kept")' = Exact(g, None, "kept")
  BY SameExact
<1> QED  BY <1>1, <1>2, <1>3 DEF Memo

LEMMA SameSound ==
  ASSUME task' = task
  PROVE  Sound' = Sound
<1>1. Assignments' = Assignments
  BY SameAssignments
<1>2. \A g : Memos(g)' = Memos(g)
  BY SameMemo DEF Memos
<1>3. \A g, memo, terms : Exact(g, memo, terms)' = Exact(g, memo, terms)
  BY SameExact
<1> QED  BY <1>1, <1>2, <1>3 DEF Sound


-----------------------------------------------------------------------------
(* Selection: the tournaments, the elite and the best individual.           *)
LEMMA WinnerIsSound ==
  ASSUME Setting, NEW P, population \in Seq(Sound),
         P = 1 .. Len(population), NEW picks \in [1 .. task.tournament -> P]
  PROVE  Winner(picks) \in Sound
<1>a. picks \in Seq(P) /\ Len(picks) \in Nat \ {0} /\ Head(picks) \in P
  <2>1. task.tournament \in Nat /\ task.tournament > 0
    BY TaskFacts DEF Requested, Validated
  <2> QED  BY <2>1
<1> DEFINE q == Tail(picks)
           D == DOMAIN q
           V == Sound
           base == population[Head(picks)]
           op(w, k) == Fitter(population[k], w)
           Folds(h) == h = [s \in SUBSET D |->
                              IF s = {} THEN base ELSE op(h[s \ {Max(s)}], q[Max(s)])]
           step == [p \in V \X D |-> op(p[1], q[p[2]])]
           c    == CHOOSE h : Folds(h)
<1>1. Winner(picks) = c[D]
  BY DEF Winner, FoldLeft, MapThenFoldSet
<1>2. Indices(D) /\ \A j \in D : q[j] \in P
  <2>1. q \in Seq(P) /\ Len(q) \in Nat
    BY <1>a
  <2>2. D = 1 .. Len(q)
    BY <2>1
  <2>3. Indices(D)
    BY <2>1, <2>2, RangeIndices
  <2> HIDE DEF q, D
  <2> QED  BY <2>1, <2>2, <2>3
<1>3. base \in V
  BY <1>a
<1>4. ASSUME NEW v \in V, NEW j \in D  PROVE op(v, q[j]) \in V
  <2>1. population[q[j]] \in Sound
    BY <1>2
  <2> QED  BY <2>1, FitterIsSound
<1>5. step \in [V \X D -> V]
  BY <1>4
<1>6. ASSUME NEW h, StaysIn(h, step, base, V, D)  PROVE Folds(h)
  <2>1. ASSUME NEW s \in SUBSET D
        PROVE  h[s] = IF s = {} THEN base ELSE op(h[s \ {Max(s)}], q[Max(s)])
    <3> HIDE DEF op, base, D, V, q
    <3> QED  BY <1>6 DEF StaysIn
  <2> HIDE DEF op, base, D, V, q
  <2> QED  BY <1>6, <2>1 DEF StaysIn
<1>7. ASSUME Folds(c)  PROVE Follows(c, step, base, V, D)
  <2> HIDE DEF op, base, V, q, D
  <2>1. c[{}] = base
    BY <1>7
  <2>2. ASSUME NEW s \in SUBSET D, s # {}, c[s \ {Max(s)}] \in V, Max(s) \in D
        PROVE  c[s] = step[<<c[s \ {Max(s)}], Max(s)>>]
    <3> HIDE DEF c
    <3> QED  BY <1>7, <2>2
  <2> QED  BY <2>1, <2>2 DEF Follows
<1>8. (\E h : StaysIn(h, step, base, V, D)) => Follows(c, step, base, V, D)
  <2> HIDE DEF step, base, V, D, op, q
  <2> QED  BY <1>6, <1>7
<1>9. c[D] \in V
  <2> HIDE DEF c, step, base, V, D
  <2> QED  BY <1>2, <1>3, <1>5, <1>8, FoldValue
<1> QED  BY <1>1, <1>9

LEMMA ChildIsGenes ==
  ASSUME Setting, population \in Seq(Sound), NEW d \in BreedDraws(Len(population))
  PROVE  ChildGenes(d) \in AllGenes
<1>1. /\ d.picks \in [1 .. task.tournament -> 1 .. Len(population)]
      /\ d.others \in [1 .. task.tournament -> 1 .. Len(population)]
      /\ d.mutated \in MutationDraws
  BY DEF BreedDraws
<1> DEFINE a     == Winner(d.picks)
           b     == Winner(d.others)
           genes == Crossing(a, b, d.fromB)
<1>2. a \in Sound /\ b \in Sound
  BY <1>1, WinnerIsSound
<1> HIDE DEF a, b
<1>3. genes \in AllGenes
  BY <1>2, CrossedGenes
<1>4. ChildGenes(d) = [i \in Rows |-> IF d.mutated[i] = 0 THEN genes[i]
                                     ELSE MutateRow(genes[i], i, d.mutated[i])]
  BY DEF ChildGenes, a, b
<1> HIDE DEF genes
<1> QED  BY <1>1, <1>3, <1>4, MutatedGenes

LEMMA CarriedIsSound ==
  ASSUME Setting, NEW elite \in Seq(Sound), NEW x \in Sound
  PROVE  FoldLeft(Carry, [elite |-> elite, carry |-> x], [rank \in 1 .. Len(elite) |-> rank])
           \in [elite : [1 .. Len(elite) -> Sound], carry : Sound]
<1> DEFINE n == Len(elite)
           q == [rank \in 1..n |-> rank]
           D == DOMAIN q
           V == [elite : [1..n -> Sound], carry : Sound]
           base == [elite |-> elite, carry |-> x]
           op(acc, rank) == Carry(acc, rank)
           Folds(h) == h = [s \in SUBSET D |->
                              IF s = {} THEN base ELSE op(h[s \ {Max(s)}], q[Max(s)])]
           step == [p \in V \X D |-> op(p[1], q[p[2]])]
           c    == CHOOSE h : Folds(h)
<1>1. FoldLeft(Carry, [elite |-> elite, carry |-> x], [rank \in 1 .. Len(elite) |-> rank]) = c[D]
  BY DEF FoldLeft, MapThenFoldSet
<1>2. Indices(D) /\ \A j \in D : q[j] \in 1..n
  <2>1. n \in Nat /\ D = 1..n
    OBVIOUS
  <2> QED  BY <2>1, RangeIndices
<1>3. base \in V
  OBVIOUS
<1>4. ASSUME NEW v \in V, NEW j \in D  PROVE op(v, q[j]) \in V
  <2> DEFINE r    == q[j]
             wins == Better(v.carry, v.elite[r])
             old  == v.elite[r]
  <2>1. v.elite \in [1..n -> Sound] /\ v.carry \in Sound /\ r \in 1..n
    BY <1>2
  <2>2. old \in Sound
    BY <2>1
  <2>3. op(v, r) = [elite |-> [v.elite EXCEPT ![r] = Choose(wins, v.carry, old)],
                    carry |-> Choose(wins, old, v.carry)]
    BY DEF Carry
  <2> HIDE DEF op, r, n
  <2>4. wins \in Bits
    BY <2>1, <2>2, FitterIsSound
  <2> HIDE DEF wins, old
  <2>5. Choose(wins, v.carry, old) \in Sound /\ Choose(wins, old, v.carry) \in Sound
    BY <2>1, <2>2, <2>4, ChooseIsSound
  <2>6. [v.elite EXCEPT ![r] = Choose(wins, v.carry, old)] \in [1..n -> Sound]
    BY <2>1, <2>5
  <2>7. op(v, r) \in V
    BY <2>3, <2>5, <2>6
  <2> QED  BY <2>7 DEF r
<1>5. step \in [V \X D -> V]
  BY <1>4
<1>6. ASSUME NEW h, StaysIn(h, step, base, V, D)  PROVE Folds(h)
  <2>1. ASSUME NEW s \in SUBSET D
        PROVE  h[s] = IF s = {} THEN base ELSE op(h[s \ {Max(s)}], q[Max(s)])
    <3> HIDE DEF op, base, D, V, q
    <3> QED  BY <1>6 DEF StaysIn
  <2> HIDE DEF op, base, D, V, q
  <2> QED  BY <1>6, <2>1 DEF StaysIn
<1>7. ASSUME Folds(c)  PROVE Follows(c, step, base, V, D)
  <2> HIDE DEF op, base, V, q, D
  <2>1. c[{}] = base
    BY <1>7
  <2>2. ASSUME NEW s \in SUBSET D, s # {}, c[s \ {Max(s)}] \in V, Max(s) \in D
        PROVE  c[s] = step[<<c[s \ {Max(s)}], Max(s)>>]
    <3> HIDE DEF c
    <3> QED  BY <1>7, <2>2
  <2> QED  BY <2>1, <2>2 DEF Follows
<1>8. (\E h : StaysIn(h, step, base, V, D)) => Follows(c, step, base, V, D)
  <2> HIDE DEF step, base, V, D, op, q
  <2> QED  BY <1>6, <1>7
<1>9. c[D] \in V
  <2> HIDE DEF c, step, base, V, D
  <2> QED  BY <1>2, <1>3, <1>5, <1>8, FoldValue
<1> QED  BY <1>1, <1>9

Elites == {e \in Seq(Sound) : Len(e) <= task.elitism}

LEMMA InsertIsElite ==
  ASSUME Setting, NEW e \in Elites, NEW x \in Sound
  PROVE  Insert(e, x) \in Elites
<1> DEFINE acc == FoldLeft(Carry, [elite |-> e, carry |-> x], [rank \in 1 .. Len(e) |-> rank])
<1>1. e \in Seq(Sound) /\ Len(e) \in Nat /\ Len(e) <= task.elitism /\ task.elitism \in Nat
  <2>1. e \in Seq(Sound) /\ Len(e) <= task.elitism
    BY DEF Elites
  <2>2. task.elitism \in Nat
    BY TaskFacts DEF Requested
  <2> QED  BY <2>1, <2>2
<1>2. acc \in [elite : [1 .. Len(e) -> Sound], carry : Sound]
  BY <1>1, CarriedIsSound
<1>3. Insert(e, x) = IF Len(e) < task.elitism THEN Append(acc.elite, acc.carry) ELSE acc.elite
  BY DEF Insert
<1> HIDE DEF acc
<1>4. acc.elite \in Seq(Sound) /\ Len(acc.elite) = Len(e) /\ acc.carry \in Sound
  BY <1>1, <1>2
<1>5. Append(acc.elite, acc.carry) \in Seq(Sound) /\ Len(Append(acc.elite, acc.carry)) = Len(e) + 1
  BY <1>1, <1>4
<1> QED  BY <1>1, <1>3, <1>4, <1>5 DEF Elites

LEMMA EliteSetIsElite ==
  ASSUME Setting, population \in Seq(Sound), population # <<>>
  PROVE  EliteSet \in Elites
<1> DEFINE q == Tail(population)
           D == DOMAIN q
           V == Elites
           base == <<Head(population)>>
           op(e, x) == Insert(e, x)
           Folds(h) == h = [s \in SUBSET D |->
                              IF s = {} THEN base ELSE op(h[s \ {Max(s)}], q[Max(s)])]
           step == [p \in V \X D |-> op(p[1], q[p[2]])]
           c    == CHOOSE h : Folds(h)
<1>1. EliteSet = c[D]
  BY DEF EliteSet, FoldLeft, MapThenFoldSet
<1>2. Indices(D) /\ \A j \in D : q[j] \in Sound
  <2>1. q \in Seq(Sound) /\ Len(q) \in Nat
    OBVIOUS
  <2>2. D = 1 .. Len(q)
    BY <2>1
  <2>3. Indices(D)
    BY <2>1, <2>2, RangeIndices
  <2> QED  BY <2>1, <2>2, <2>3
<1>3. base \in V
  <2>1. Head(population) \in Sound /\ task.elitism \in Nat /\ task.elitism > 0
    <3>1. Head(population) \in Sound
      <4> HIDE DEF Sound
      <4> QED  OBVIOUS
    <3>2. Requested(task) /\ Validated(task)
      BY TaskFacts
    <3>3. task.elitism \in Nat
      BY <3>2 DEF Requested
    <3>4. task.elitism > 0
      BY <3>2 DEF Validated
    <3> QED  BY <3>1, <3>3, <3>4
  <2> QED  BY <2>1 DEF Elites
<1>4. ASSUME NEW v \in V, NEW j \in D  PROVE op(v, q[j]) \in V
  BY <1>2, InsertIsElite
<1>5. step \in [V \X D -> V]
  BY <1>4
<1>6. ASSUME NEW h, StaysIn(h, step, base, V, D)  PROVE Folds(h)
  <2>1. ASSUME NEW s \in SUBSET D
        PROVE  h[s] = IF s = {} THEN base ELSE op(h[s \ {Max(s)}], q[Max(s)])
    <3> HIDE DEF op, base, D, V, q
    <3> QED  BY <1>6 DEF StaysIn
  <2> HIDE DEF op, base, D, V, q
  <2> QED  BY <1>6, <2>1 DEF StaysIn
<1>7. ASSUME Folds(c)  PROVE Follows(c, step, base, V, D)
  <2> HIDE DEF op, base, V, q, D
  <2>1. c[{}] = base
    BY <1>7
  <2>2. ASSUME NEW s \in SUBSET D, s # {}, c[s \ {Max(s)}] \in V, Max(s) \in D
        PROVE  c[s] = step[<<c[s \ {Max(s)}], Max(s)>>]
    <3> HIDE DEF c
    <3> QED  BY <1>7, <2>2
  <2> QED  BY <2>1, <2>2 DEF Follows
<1>8. (\E h : StaysIn(h, step, base, V, D)) => Follows(c, step, base, V, D)
  <2> HIDE DEF step, base, V, D, op, q
  <2> QED  BY <1>6, <1>7
<1>9. c[D] \in V
  <2> HIDE DEF c, step, base, V, D
  <2> QED  BY <1>2, <1>3, <1>5, <1>8, FoldValue
<1> QED  BY <1>1, <1>9

BestOf(b, z) == FoldLeft(LAMBDA c, x : Fitter(x, c), b, z)

LEMMA BestIsSound ==
  ASSUME Setting, NEW b \in Sound, NEW z \in Seq(Sound)
  PROVE  BestOf(b, z) \in Sound
<1> DEFINE q == z
           D == DOMAIN q
           V == Sound
           base == b
           op(w, x) == Fitter(x, w)
           Folds(h) == h = [s \in SUBSET D |->
                              IF s = {} THEN base ELSE op(h[s \ {Max(s)}], q[Max(s)])]
           step == [p \in V \X D |-> op(p[1], q[p[2]])]
           c    == CHOOSE h : Folds(h)
<1>1. BestOf(b, z) = c[D]
  BY DEF BestOf, FoldLeft, MapThenFoldSet
<1>2. Indices(D) /\ \A j \in D : q[j] \in Sound
  <2>1. q \in Seq(Sound) /\ Len(q) \in Nat
    OBVIOUS
  <2>2. D = 1 .. Len(q)
    BY <2>1
  <2>3. Indices(D)
    BY <2>1, <2>2, RangeIndices
  <2> QED  BY <2>1, <2>2, <2>3
<1>3. base \in V
  OBVIOUS
<1>4. ASSUME NEW v \in V, NEW j \in D  PROVE op(v, q[j]) \in V
  BY <1>2, FitterIsSound
<1>5. step \in [V \X D -> V]
  BY <1>4
<1>6. ASSUME NEW h, StaysIn(h, step, base, V, D)  PROVE Folds(h)
  <2>1. ASSUME NEW s \in SUBSET D
        PROVE  h[s] = IF s = {} THEN base ELSE op(h[s \ {Max(s)}], q[Max(s)])
    <3> HIDE DEF op, base, D, V, q
    <3> QED  BY <1>6 DEF StaysIn
  <2> HIDE DEF op, base, D, V, q
  <2> QED  BY <1>6, <2>1 DEF StaysIn
<1>7. ASSUME Folds(c)  PROVE Follows(c, step, base, V, D)
  <2> HIDE DEF op, base, V, q, D
  <2>1. c[{}] = base
    BY <1>7
  <2>2. ASSUME NEW s \in SUBSET D, s # {}, c[s \ {Max(s)}] \in V, Max(s) \in D
        PROVE  c[s] = step[<<c[s \ {Max(s)}], Max(s)>>]
    <3> HIDE DEF c
    <3> QED  BY <1>7, <2>2
  <2> QED  BY <2>1, <2>2 DEF Follows
<1>8. (\E h : StaysIn(h, step, base, V, D)) => Follows(c, step, base, V, D)
  <2> HIDE DEF step, base, V, D, op, q
  <2> QED  BY <1>6, <1>7
<1>9. c[D] \in V
  <2> HIDE DEF c, step, base, V, D
  <2> QED  BY <1>2, <1>3, <1>5, <1>8, FoldValue
<1> QED  BY <1>1, <1>9

LEMMA MemoisedIsSound ==
  ASSUME Setting, NEW x \in Sound
  PROVE  Memoised(x) \in Sound
<1>1. PICK g \in Assignments, terms \in Terms :
        x = Exact(g, None, terms) \/ x = Exact(g, Memo(g), terms)
  BY SoundIs
<1>2. x.memo = None \/ x.memo = Memo(g)
  BY <1>1, ExactFields
<1>3. ComputedFeasible(x) = Memo(g).feasible /\ ComputedFitness(x) = Memo(g).fitness
  BY <1>1, ComputedSame
<1>4. Feasible(x) = Memo(g).feasible /\ Fitness(x) = Memo(g).fitness
  BY <1>2, <1>3 DEF Feasible, Fitness
<1>5. Memo(g) = [feasible |-> Memo(g).feasible, fitness |-> Memo(g).fitness]
  <2> DEFINE p == ComputedFeasible(Exact(g, None, "kept"))
             q == ComputedFitness(Exact(g, None, "kept"))
  <2>1. Memo(g) = [feasible |-> p, fitness |-> q]
    BY DEF Memo
  <2> HIDE DEF p, q
  <2> QED  BY <2>1
<1>6. Memoised(x) = [x EXCEPT !.memo = Memo(g)]
  BY <1>4, <1>5 DEF Memoised
<1>7. [x EXCEPT !.memo = Memo(g)] = Exact(g, Memo(g), terms)
  BY <1>1 DEF Exact
<1> QED  BY <1>6, <1>7, SoundIs


-----------------------------------------------------------------------------
(* The invariant.                                                           *)
IInv ==
  /\ Setting
  /\ population \in Seq(Sound) /\ next \in Seq(Sound) /\ Len(next) <= task.population
  /\ generation \in 0..task.generations /\ status \in {"running", "done"}
  /\ best = None \/ best \in Sound
  /\ population # <<>> => best \in Sound
  /\ generation > 0 => population # <<>>

LEMMA SizesFacts ==
  ASSUME Setting
  PROVE  /\ task.population \in Nat /\ task.generations \in Nat /\ task.elitism \in Nat
         /\ task.population >= 2 /\ task.elitism < task.population
<1>1. task.population \in Nat /\ task.generations \in Nat /\ task.elitism \in Nat
  BY TaskFacts DEF Requested
<1>2. task.population >= 2 /\ task.elitism < task.population
  BY TaskFacts DEF Validated
<1> QED  BY <1>1, <1>2

LEMMA InitInv == Init => IInv
<1> SUFFICES ASSUME Init  PROVE IInv
  OBVIOUS
<1>1. Setting
  BY DEF Init, Setting
<1> QED  BY <1>1, SizesFacts DEF Init, IInv

LEMMA SettingStays ==
  ASSUME Setting, task' = task
  PROVE  Setting' /\ Sound' = Sound
<1>1. Setting'
  BY DEF Setting
<1> QED  BY <1>1, SameSound

LEMMA AdmitInv ==
  ASSUME IInv, NEW x \in Sound, Admit(x)
  PROVE  IInv'
<1>1. task' = task /\ Setting
  BY DEF Admit, IInv
<1>2. Setting' /\ Sound' = Sound
  BY <1>1, SettingStays
<1>3. next' = Append(next, x) /\ Len(next) < task.population /\ next \in Seq(Sound)
  BY DEF Admit, IInv
<1>4. next' \in Seq(Sound) /\ Len(next') <= task.population
  <2>1. task.population \in Nat
    BY <1>1, SizesFacts
  <2>2. Len(next) \in Nat /\ next' \in Seq(Sound) /\ Len(next') = Len(next) + 1
    BY <1>3
  <2> QED  BY <1>3, <2>1, <2>2
<1>5. UNCHANGED <<population, best, generation, status>>
  BY DEF Admit
<1> QED  BY <1>1, <1>2, <1>4, <1>5 DEF IInv

LEMMA SeedInv == IInv /\ Seed => IInv'
<1> SUFFICES ASSUME IInv, Seed  PROVE IInv'
  OBVIOUS
<1>0. Setting
  BY DEF IInv
<1>1. PICK seed \in Seeds : Admit(Repair(Evaluate(seed[2])))
  BY DEF Seed
<1> DEFINE genes == seed[2]
<1>2. genes \in AllGenes
  <2>1. CASE next = <<>>
    <3>1. genes = Cheapest
      BY <2>1 DEF Seeds
    <3> QED  BY <1>0, <3>1, CheapestIsGenes
  <2>2. CASE next # <<>>
    <3>1. PICK d \in SeedDraws : genes = Drawn(d)
      BY <2>2 DEF Seeds
    <3> QED  BY <1>0, <3>1, DrawnIsGenes
  <2> QED  BY <2>1, <2>2
<1> HIDE DEF genes
<1>3. PICK g \in Assignments : genes = GenesOf(g)
  BY <1>2 DEF AllGenes
<1>4. Repair(Evaluate(genes)) \in Sound
  BY <1>0, <1>3, RepairedIsSound
<1>5. Admit(Repair(Evaluate(genes)))
  BY <1>1 DEF genes
<1> QED  BY <1>4, <1>5, AdmitInv

LEMMA BreedInv == IInv /\ Breed => IInv'
<1> SUFFICES ASSUME IInv, Breed  PROVE IInv'
  OBVIOUS
<1>0. Setting /\ population \in Seq(Sound)
  BY DEF IInv
<1>1. PICK d \in BreedDraws(Len(population)) : Admit(Repair(Evaluate(ChildGenes(d))))
  BY DEF Breed, Children
<1> DEFINE x == Repair(Evaluate(ChildGenes(d)))
<1>2. PICK g \in Assignments : ChildGenes(d) = GenesOf(g)
  BY <1>0, ChildIsGenes DEF AllGenes
<1>3. x \in Sound
  BY <1>0, <1>2, RepairedIsSound
<1> HIDE DEF x
<1>4. Admit(x)
  BY <1>1 DEF x
<1> QED  BY <1>3, <1>4, AdmitInv

LEMMA ReplaceInv == IInv /\ Replace => IInv'
<1> SUFFICES ASSUME IInv, Replace  PROVE IInv'
  OBVIOUS
<1> DEFINE fresh == [k \in DOMAIN next |->
                       IF generation = 0 /\ k = 1 THEN next[k] ELSE Memoised(next[k])]
<1>0. Setting /\ task' = task /\ next \in Seq(Sound) /\ population \in Seq(Sound)
  BY DEF IInv, Replace
<1>1. Setting' /\ Sound' = Sound
  BY <1>0, SettingStays
<1>2. Len(next) \in Nat /\ Len(next) >= 2
  BY <1>0, SizesFacts DEF Replace
<1>3. fresh \in Seq(Sound) /\ Len(fresh) = Len(next)
  <2>1. \A k \in DOMAIN next : next[k] \in Sound /\ DOMAIN next = 1 .. Len(next)
    BY <1>0
  <2>2. \A k \in DOMAIN next : Memoised(next[k]) \in Sound
    BY <1>0, <2>1, MemoisedIsSound
  <2>3. fresh \in [1 .. Len(next) -> Sound]
    BY <1>0, <2>1, <2>2
  <2> HIDE DEF fresh
  <2> QED  BY <1>2, <2>3
<1>4. /\ population' = fresh
      /\ best' = IF generation = 0 THEN BestOf(Head(fresh), Tail(fresh)) ELSE BestOf(best, fresh)
      /\ next' = <<>> /\ UNCHANGED <<task, generation, status>>
  BY DEF Replace, BestOf
<1> HIDE DEF fresh
<1>5. best' \in Sound
  <2>1. CASE generation = 0
    <3>1. Head(fresh) \in Sound /\ Tail(fresh) \in Seq(Sound)
      BY <1>2, <1>3
    <3> QED  BY <1>0, <1>4, <2>1, <3>1, BestIsSound
  <2>2. CASE generation # 0
    <3>1. best \in Sound
      BY <2>2 DEF IInv
    <3> QED  BY <1>0, <1>3, <1>4, <2>2, <3>1, BestIsSound
  <2> QED  BY <2>1, <2>2
<1>6. population' \in Seq(Sound) /\ population' # <<>>
  BY <1>2, <1>3, <1>4
<1>7. next' \in Seq(Sound) /\ Len(next') <= task.population
  BY <1>0, <1>4, SizesFacts
<1> QED  BY <1>0, <1>1, <1>4, <1>5, <1>6, <1>7 DEF IInv

LEMMA KeepEliteInv == IInv /\ KeepElite => IInv'
<1> SUFFICES ASSUME IInv, KeepElite  PROVE IInv'
  OBVIOUS
<1>0. Setting /\ task' = task /\ population \in Seq(Sound) /\ population # <<>>
  BY DEF IInv, KeepElite
<1>1. Setting' /\ Sound' = Sound
  BY <1>0, SettingStays
<1>2. next' = EliteSet /\ EliteSet \in Elites
  BY <1>0, EliteSetIsElite DEF KeepElite
<1>3. next' \in Seq(Sound) /\ Len(next') <= task.population
  <2>1. next' \in Seq(Sound) /\ Len(next') <= task.elitism
    BY <1>2 DEF Elites
  <2>2. Len(next') \in Nat
    BY <2>1
  <2> QED  BY <1>0, <2>1, <2>2, SizesFacts
<1>4. generation' = generation + 1 /\ generation < task.generations
  BY DEF KeepElite
<1>5. generation' \in 0..task.generations
  BY <1>0, <1>4, SizesFacts DEF IInv
<1>6. UNCHANGED <<population, best, status>>
  BY DEF KeepElite
<1> QED  BY <1>0, <1>1, <1>3, <1>5, <1>6 DEF IInv

LEMMA FinishInv == IInv /\ Finish => IInv'
<1> SUFFICES ASSUME IInv, Finish  PROVE IInv'
  OBVIOUS
<1>1. Setting' /\ Sound' = Sound
  BY SettingStays DEF IInv, Finish
<1> QED  BY <1>1 DEF IInv, Finish

LEMMA InvHolds == Spec => []IInv
<1>1. IInv /\ [Next]_pegaVars => IInv'
  <2> SUFFICES ASSUME IInv, [Next]_pegaVars  PROVE IInv'
    OBVIOUS
  <2>1. CASE Seed
    BY <2>1, SeedInv
  <2>2. CASE Breed
    BY <2>2, BreedInv
  <2>3. CASE Replace
    BY <2>3, ReplaceInv
  <2>4. CASE KeepElite
    BY <2>4, KeepEliteInv
  <2>5. CASE Finish
    BY <2>5, FinishInv
  <2>6. CASE UNCHANGED pegaVars
    <3>1. Setting' /\ Sound' = Sound
      BY <2>6, SettingStays DEF IInv, pegaVars
    <3> QED  BY <2>6, <3>1 DEF IInv, pegaVars
  <2> QED  BY <2>1, <2>2, <2>3, <2>4, <2>5, <2>6 DEF Next
<1> QED  BY InitInv, <1>1, PTL DEF Spec

LEMMA IndividualsAreSound ==
  ASSUME IInv, NEW x \in Individuals
  PROVE  x \in Sound
<1>1. CASE x \in ToSet(population)
  BY <1>1 DEF IInv, ToSet
<1>2. CASE x \in ToSet(next)
  BY <1>2 DEF IInv, ToSet
<1>3. CASE best # None /\ x = best
  BY <1>3 DEF IInv
<1> QED  BY <1>1, <1>2, <1>3 DEF Individuals

LEMMA DecodedIsAssignment ==
  ASSUME Setting, NEW g \in Assignments, NEW x, x.genes = GenesOf(g)
  PROVE  Decoded(x) = g
<1>1. g \in [Rows -> 1..3] /\ g = [i \in Rows |-> g[i]]
  BY AssignmentFacts
<1>2. ASSUME NEW i \in Rows
      PROVE  (IF \E m \in 1..3 : x.genes[i] = OneHot(m)
              THEN CHOOSE m \in 1..3 : x.genes[i] = OneHot(m) ELSE 0) = g[i]
  <2>1. x.genes[i] = OneHot(g[i]) /\ g[i] \in 1..3
    BY <1>1 DEF GenesOf
  <2>2. ASSUME NEW m \in 1..3, x.genes[i] = OneHot(m)  PROVE m = g[i]
    <3>1. OneHot(m)[m] = 1 /\ OneHot(g[i])[m] = IF m = g[i] THEN 1 ELSE 0
      BY DEF OneHot
    <3> QED  BY <2>1, <2>2, <3>1
  <2> QED  BY <2>1, <2>2
<1>3. DOMAIN x.genes = Rows
  BY DEF GenesOf
<1> QED  BY <1>1, <1>2, <1>3 DEF Decoded

(* Under the masks every gene stays one-hot on a method of its row, and     *)
(* feasibility bits are bits: pega keeps individuals that decode to an      *)
(* assignment, whatever its comparisons and draws.                          *)
THEOREM PegaTypes == Spec => []TypeOK
<1>1. IInv => TypeOK
  <2> SUFFICES ASSUME IInv  PROVE TypeOK
    OBVIOUS
  <2>0. Setting
    BY DEF IInv
  <2>1. ASSUME NEW x \in Individuals
        PROVE  Decoded(x) \in Assignments /\ ComputedFeasible(x) \in 0..1
    <3>1. x \in Sound
      BY IndividualsAreSound
    <3>2. PICK g \in Assignments, terms \in Terms :
            x = Exact(g, None, terms) \/ x = Exact(g, Memo(g), terms)
      BY <3>1, SoundIs
    <3>3. x.genes = GenesOf(g) /\ ComputedFeasible(x) = Memo(g).feasible
      BY <3>2, ExactFields, ComputedSame
    <3>4. Decoded(x) = g
      BY <2>0, <3>3, DecodedIsAssignment
    <3>5. ComputedFeasible(x) \in Bits
      BY <2>0, <3>3, MemoTypes
    <3> QED  BY <3>4, <3>5 DEF Assignments, Bits
  <2> QED  BY <2>1 DEF TypeOK, IInv
<1> QED  BY <1>1, InvHolds, PTL

(* The sums that repair updates in place under masks and that selections    *)
(* copy stay those of the genes, in every individual and for every matrix,  *)
(* threshold and configuration that validate accepts; the row terms and the *)
(* memo too, where there are any.                                           *)
THEOREM PegaSums == Spec => []SumsExact
<1>1. IInv => SumsExact
  <2> SUFFICES ASSUME IInv, NEW x \in Individuals
               PROVE  LET y == Evaluate(x.genes)
                      IN  /\ x.total = y.total /\ x.c12 = y.c12 /\ x.c3 = y.c3
                          /\ x.linear = y.linear
                          /\ x.row_cost # <<>> =>
                               /\ x.row_cost = y.row_cost /\ x.row_linear = y.row_linear
                               /\ x.row_c12 = y.row_c12 /\ x.row_c3 = y.row_c3
                          /\ x.memo # None =>
                               x.memo = [feasible |-> ComputedFeasible(y),
                                         fitness |-> ComputedFitness(y)]
    BY DEF SumsExact
  <2>0. Setting
    BY DEF IInv
  <2>1. PICK g \in Assignments, terms \in Terms :
          x = Exact(g, None, terms) \/ x = Exact(g, Memo(g), terms)
    BY IndividualsAreSound, SoundIs
  <2> DEFINE y == Exact(g, None, "kept")
  <2>2. Evaluate(x.genes) = y
    <3>1. x.genes = GenesOf(g)
      BY <2>1, ExactFields
    <3> QED  BY <2>0, <3>1, EvaluateIsExact
  <2>3. x.total = y.total /\ x.c12 = y.c12 /\ x.c3 = y.c3 /\ x.linear = y.linear
    BY <2>1, ExactFields
  <2>4. x.row_cost # <<>> =>
          /\ x.row_cost = y.row_cost /\ x.row_linear = y.row_linear
          /\ x.row_c12 = y.row_c12 /\ x.row_c3 = y.row_c3
    <3>1. CASE terms = "kept"
      BY <2>1, <3>1 DEF Exact
    <3>2. CASE terms = "dropped"
      <4>1. x.row_cost = <<>>
        BY <2>1, <3>2 DEF Exact
      <4> QED  BY <4>1
    <3> QED  BY <3>1, <3>2 DEF Terms
  <2>5. x.memo # None =>
          x.memo = [feasible |-> ComputedFeasible(y), fitness |-> ComputedFitness(y)]
    <3>1. x.memo = None \/ x.memo = Memo(g)
      BY <2>1, ExactFields
    <3>2. Memo(g) = [feasible |-> ComputedFeasible(y), fitness |-> ComputedFitness(y)]
      BY DEF Memo
    <3> HIDE DEF y
    <3> QED  BY <3>1, <3>2
  <2> HIDE DEF y
  <2> QED  BY <2>2, <2>3, <2>4, <2>5
<1> QED  BY <1>1, InvHolds, PTL


-----------------------------------------------------------------------------
(* Magnitudes.  With the bits that the caller declares for costs, totals    *)
(* and linear values, what is compared stays below the bits that validate   *)
(* admits.                                                                  *)
LEMMA LengthBounds ==
  ASSUME NEW x, HasLength(x)
  PROVE  /\ x \in Nat /\ BitLength(x) \in Nat /\ BitLength(x) >= 1
         /\ x < 2^BitLength(x) /\ 1 <= x
<1> DEFINE b == BitLength(x)
<1>1. b \in 1..64 /\ 2^(b - 1) <= x /\ x < 2^b /\ x \in Nat
  BY DEF HasLength, BitLength
<1> HIDE DEF b
<1>2. b - 1 \in Nat /\ b \in Nat
  BY <1>1
<1>3. 2^(b - 1) \in Nat /\ 1 <= 2^(b - 1)
  BY <1>2, PowerMonotone
<1> QED  BY <1>1, <1>2, <1>3 DEF b

(* The numbers of the domain, and the budgets of validate.                  *)
CB == task.domain.costBits
TB == task.domain.totalBits
LB == task.domain.linearBits
KB == task.domain.compareBits
SB == BitLength(Scale)
PB == BitLength(task.penalty)

LEMMA Budgets ==
  ASSUME Setting
  PROVE  /\ CB \in Nat /\ TB \in Nat /\ LB \in Nat \ {0} /\ KB \in Nat
         /\ SB \in Nat /\ Scale < 2^SB /\ Scale \in Nat /\ 1 <= Scale
         /\ PB \in Nat /\ task.penalty < 2^PB /\ task.penalty \in Nat
         /\ task.threshold \in Nat /\ task.threshold < Scale
         /\ CB + LB <= KB /\ TB + PB + 1 + LB <= KB /\ 2 * TB + PB + SB + 2 <= KB
<1>1. Requested(task) /\ Validated(task)
  BY TaskFacts
<1>2. task.domain \in [costBits : Nat, totalBits : Nat, linearBits : Nat \ {0},
                       compareBits : Nat]
  BY <1>1 DEF Requested
<1>3. CB \in Nat /\ TB \in Nat /\ LB \in Nat \ {0} /\ KB \in Nat
  BY <1>2 DEF CB, TB, LB, KB
<1>4. HasLength(Scale) /\ HasLength(task.penalty)
  <2>1. task.penalty = 0 \/ HasLength(task.penalty)
    BY <1>1 DEF Requested
  <2>2. task.penalty > 0
    BY <1>1 DEF Validated
  <2> QED  BY <2>1, <2>2, PegaAssumption
<1>5. /\ SB \in Nat /\ Scale < 2^SB /\ Scale \in Nat /\ 1 <= Scale
      /\ PB \in Nat /\ task.penalty < 2^PB /\ task.penalty \in Nat
  BY <1>4, LengthBounds DEF SB, PB
<1>6. task.threshold \in Nat /\ task.threshold < Scale
  <2>1. task.threshold < Scale
    BY <1>1 DEF Validated
  <2> QED  BY <2>1, TaskFacts
<1>7. \A bits \in {LB + TB, CB + LB, TB + SB, (TB + 1 + PB) + LB,
                   (TB + 1 + PB) + TB + 1 + SB} : bits <= KB
  BY <1>1 DEF Validated, CB, TB, LB, KB, SB, PB
<1>8. CB + LB <= KB /\ (TB + 1 + PB) + LB <= KB /\ (TB + 1 + PB) + TB + 1 + SB <= KB
  BY <1>7
<1>9. TB + PB + 1 + LB <= KB /\ 2 * TB + PB + SB + 2 <= KB
  BY <1>3, <1>5, <1>8
<1> QED  BY <1>3, <1>5, <1>6, <1>8, <1>9

(* The row costs, times the scale, fit.                                     *)
LEMMA Capacities ==
  ASSUME Setting
  PROVE  /\ 2^CB \in Nat /\ 1 <= 2^CB /\ 2^TB \in Nat /\ 1 <= 2^TB
         /\ 2^(LB - 1) \in Nat /\ 1 <= 2^(LB - 1)
         /\ Len(task.costs) * 2^CB <= 2^TB
         /\ (Len(task.costs) * 2^CB) * Scale <= 2^(LB - 1)
<1>1. /\ CB \in Nat /\ TB \in Nat /\ LB - 1 \in Nat
  BY Budgets
<1>2. /\ 2^CB \in Nat /\ 1 <= 2^CB /\ 2^TB \in Nat /\ 1 <= 2^TB
      /\ 2^(LB - 1) \in Nat /\ 1 <= 2^(LB - 1)
  BY <1>1, PowerMonotone
<1>3. /\ Len(task.costs) * 2^CB <= 2^TB
      /\ (Len(task.costs) * 2^CB) * Scale <= 2^(LB - 1)
  <2>1. Requested(task)
    BY TaskFacts
  <2> QED  BY <2>1 DEF Requested, CB, TB, LB
<1> QED  BY <1>2, <1>3

LEMMA CostBounds ==
  ASSUME Setting, NEW i \in Rows, NEW m \in Methods(i)
  PROVE  /\ Cost(i, m) \in Nat /\ Cost(i, m) <= 2^CB - 1
         /\ Within(Contribution(i, m), (2^CB - 1) * Scale)
<1>1. Cost(i, m) \in Nat /\ Cost(i, m) # None /\ m \in 1..3
  BY MethodFacts
<1>2. Cost(i, m) < 2^CB
  <2>1. i \in DOMAIN task.costs
    BY RowFacts, TaskFacts
  <2>2. Cost(i, m) = task.costs[i][m]
    BY DEF Cost
  <2>3. Requested(task)
    BY TaskFacts
  <2>4. task.costs[i][m] # None => task.costs[i][m] < 2^task.domain.costBits
    BY <1>1, <2>1, <2>3 DEF Requested
  <2> QED  BY <1>1, <2>2, <2>4 DEF CB
<1> DEFINE c == Cost(i, m)
           w == IF m < 3 THEN Scale - task.threshold ELSE -task.threshold
           B == 2^CB
           S == Scale
<1>3. Contribution(i, m) = c * w
  BY DEF Contribution
<1>4. w \in Int /\ -S <= w /\ w <= S /\ S \in Nat
  BY Budgets
<1>5. c \in Nat /\ B \in Nat /\ c <= B - 1 /\ B - 1 \in Nat
  <2>1. B \in Nat /\ 1 <= B
    BY Capacities
  <2> HIDE DEF c, B
  <2> QED  BY <1>1, <1>2, <2>1 DEF c, B
<1> HIDE DEF c, w, B, S
<1>6. Within(w, S)
  BY <1>4 DEF Within
<1> DEFINE M == B - 1
<1>7. c \in Nat /\ M \in Nat /\ c <= M
  BY <1>5
<1> HIDE DEF M
<1>8. Within(c * w, M * S)
  BY <1>4, <1>6, <1>7, WithinProduct
<1> QED  BY <1>3, <1>5, <1>8 DEF c, B, S, M

LEMMA RowsBound ==
  ASSUME Setting, NEW f \in [Rows -> Int], NEW w \in Nat, \A i \in Rows : Within(f[i], w)
  PROVE  Within(SumOver(f, Rows), Len(task.costs) * w)
<1>1. IsFiniteSet(Rows) /\ Rows \in SUBSET Rows
  BY RowFacts
<1>2. Cardinality(Rows) = Len(task.costs)
  <2> DEFINE n == Len(task.costs)
  <2>1. n \in Nat /\ Rows = 1..n
    BY RowFacts, TaskFacts
  <2> HIDE DEF n
  <2>2. Cardinality(1..n) = IF 1 > n THEN 0 ELSE n - 1 + 1
    BY <2>1, FS_Interval
  <2>3. Cardinality(1..n) = n
    BY <2>1, <2>2
  <2> QED  BY <2>1, <2>3 DEF n
<1>3. \A S \in SUBSET Rows : Within(SumOver(f, S), Cardinality(S) * w)
  BY <1>1, SumWithin
<1> QED  BY <1>1, <1>2, <1>3

LEMMA TotalBounds ==
  ASSUME Setting
  PROVE  /\ MaximumTotal + 1 <= 2^TB
         /\ \A g \in Assignments :
              /\ SumOver(RowCost(g), Rows) \in Nat /\ SumOver(RowCost(g), Rows) + 1 <= 2^TB
              /\ Within(SumOver(RowLinear(g), Rows), 2^(LB - 1) - 1)
<1> DEFINE n == Len(task.costs)
           B == 2^CB
           T == 2^TB
           S == Scale
           H == 2^(LB - 1)
<1>1. /\ n \in Nat /\ 1 <= n /\ B \in Nat /\ 1 <= B /\ T \in Nat /\ S \in Nat /\ 1 <= S
      /\ H \in Nat /\ n * B <= T /\ (n * B) * S <= H
  <2>1. n \in Nat /\ 1 <= n
    BY TaskFacts
  <2>2. /\ B \in Nat /\ 1 <= B /\ T \in Nat /\ H \in Nat
        /\ n * B <= T /\ (n * B) * S <= H
    BY Capacities, Zenon
  <2>3. S \in Nat /\ 1 <= S
    BY Budgets
  <2> QED  BY <2>1, <2>2, <2>3
<1>2. ASSUME NEW f \in [Rows -> Int], \A i \in Rows : f[i] \in Nat /\ f[i] <= B - 1
      PROVE  SumOver(f, Rows) \in Nat /\ SumOver(f, Rows) + 1 <= T
  <2> DEFINE w == B - 1
             v == SumOver(f, Rows)
  <2> HIDE DEF n, B, T, S, H
  <2>1. w \in Nat /\ \A i \in Rows : Within(f[i], w)
    BY <1>1, <1>2 DEF Within
  <2> HIDE DEF w
  <2>2. Within(v, n * w)
    BY <2>1, RowsBound DEF n
  <2>3. v >= 0
    <3>1. IsFiniteSet(Rows) /\ Rows \in SUBSET Rows
      BY RowFacts
    <3>2. \A i \in Rows : f[i] >= 0
      BY <1>2
    <3> QED  BY <3>1, <3>2, SumNatural
  <2> HIDE DEF v
  <2>4. n * w = n * B - n
    <3> DEFINE u == n * B
    <3>1. n * (B - 1) = u - n
      BY <1>1
    <3> QED  BY <3>1 DEF w
  <2> DEFINE u == n * B
  <2>5. u \in Nat /\ u <= T /\ Within(v, u - n)
    BY <1>1, <2>2, <2>4
  <2> HIDE DEF u
  <2>6. v \in Nat /\ v + 1 <= T
    BY <1>1, <2>3, <2>5 DEF Within
  <2> QED  BY <2>6 DEF v
<1>3. MaximumTotal + 1 <= T
  <2> DEFINE f == [i \in Rows |-> RowMaximum(i)]
  <2>1. f \in [Rows -> Int]
    BY PenaltyFacts
  <2>2. \A i \in Rows : f[i] \in Nat /\ f[i] <= B - 1
    <3> SUFFICES ASSUME NEW i \in Rows  PROVE RowMaximum(i) \in Nat /\ RowMaximum(i) <= B - 1
      OBVIOUS
    <3>1. PICK m \in Methods(i) : RowMaximum(i) = Cost(i, m)
      BY RowMaximumIn
    <3> QED  BY <3>1, CostBounds
  <2> HIDE DEF f, B, T
  <2>3. SumOver(f, Rows) + 1 <= T
    BY <1>2, <2>1, <2>2
  <2> QED  BY <2>3 DEF f, MaximumTotal
<1>4. ASSUME NEW g \in Assignments
      PROVE  SumOver(RowCost(g), Rows) \in Nat /\ SumOver(RowCost(g), Rows) + 1 <= T
  <2>1. RowCost(g) \in [Rows -> Int]
    BY RowTermTypes
  <2>2. \A i \in Rows : RowCost(g)[i] \in Nat /\ RowCost(g)[i] <= B - 1
    <3> SUFFICES ASSUME NEW i \in Rows
                 PROVE  RowCost(g)[i] \in Nat /\ RowCost(g)[i] <= B - 1
      OBVIOUS
    <3>1. g[i] \in Methods(i) /\ RowCost(g)[i] = Cost(i, g[i])
      BY RowTermTypes DEF RowCost
    <3> QED  BY <3>1, CostBounds
  <2> HIDE DEF B, T
  <2> QED  BY <1>2, <2>1, <2>2
<1>5. ASSUME NEW g \in Assignments
      PROVE  Within(SumOver(RowLinear(g), Rows), H - 1)
  <2> DEFINE w == (B - 1) * S
             v == SumOver(RowLinear(g), Rows)
  <2>1. RowLinear(g) \in [Rows -> Int]
    BY RowTermTypes
  <2>2. \A i \in Rows : Within(RowLinear(g)[i], w)
    <3> SUFFICES ASSUME NEW i \in Rows  PROVE Within(RowLinear(g)[i], w)
      OBVIOUS
    <3>1. g[i] \in Methods(i) /\ RowLinear(g)[i] = Contribution(i, g[i])
      BY RowTermTypes DEF RowLinear
    <3> QED  BY <3>1, CostBounds
  <2> HIDE DEF n, B, T, S, H
  <2>3. w \in Nat
    <3>1. B - 1 \in Nat
      BY <1>1
    <3> QED  BY <1>1, <3>1
  <2>4. n * w = (n * B) * S - n * S
    BY <1>1
  <2> HIDE DEF w
  <2>5. Within(v, n * w)
    BY <2>1, <2>2, <2>3, RowsBound DEF n
  <2> HIDE DEF v
  <2> DEFINE u == (n * B) * S
             k == n * S
  <2>6. u \in Nat /\ k \in Nat /\ 1 <= k /\ u <= H /\ n * w = u - k
    BY <1>1, <2>4
  <2> HIDE DEF u, k
  <2>7. Within(v, H - 1)
    BY <1>1, <2>5, <2>6 DEF Within
  <2> QED  BY <2>7 DEF v
<1> QED  BY <1>3, <1>4, <1>5


LEMMA ProductAtMost ==
  ASSUME NEW a \in Nat, NEW b \in Nat, NEW x \in Nat, NEW y \in Nat, a <= x, b <= y
  PROVE  a * b \in Nat /\ x * y \in Nat /\ a * b <= x * y
<1>1. a * b \in Nat /\ x * y \in Nat /\ a * y \in Nat
  OBVIOUS
<1>2. a * b <= a * y
  OBVIOUS
<1>3. a * y <= x * y
  OBVIOUS
<1> DEFINE p == a * b
           q == a * y
           r == x * y
<1>4. p \in Nat /\ q \in Nat /\ r \in Nat /\ p <= q /\ q <= r
  BY <1>1, <1>2, <1>3
<1> HIDE DEF p, q, r
<1>5. p \in Nat /\ r \in Nat /\ p <= r
  BY <1>4
<1> QED  BY <1>5 DEF p, r

LEMMA ProductBelow ==
  ASSUME NEW a \in Nat, NEW b \in Nat, NEW x \in Nat, NEW y \in Nat, a < x, b <= y, 1 <= y
  PROVE  a * b \in Nat /\ x * y \in Nat /\ a * b < x * y
<1> DEFINE c == x - 1
           p == a * b
           q == c * y
           r == x * y
<1>1. c \in Nat /\ a <= c
  OBVIOUS
<1>2. p \in Nat /\ q \in Nat /\ p <= q
  <2> HIDE DEF c
  <2> QED  BY <1>1, ProductAtMost
<1>3. q = r - y /\ r \in Nat
  OBVIOUS
<1> HIDE DEF p, q, r
<1>4. p \in Nat /\ r \in Nat /\ p < r
  BY <1>2, <1>3
<1> QED  BY <1>4 DEF p, r

LEMMA WithinProducts ==
  ASSUME NEW X \in Nat, NEW Y \in Nat, NEW x, NEW y, Within(x, X), Within(y, Y)
  PROVE  X * Y \in Nat /\ Within(x * y, X * Y)
<1>1. x \in Int /\ y \in Int /\ -X <= x /\ x <= X
  BY DEF Within
<1>2. CASE x >= 0
  <2>1. x \in Nat
    BY <1>1, <1>2
  <2> QED  BY <1>1, <2>1, WithinProduct
<1>3. CASE x < 0
  <2> DEFINE z == -x
             v == z * y
             w == X * Y
  <2>1. z \in Nat /\ z <= X
    BY <1>1, <1>3
  <2>2. w \in Nat /\ Within(v, w)
    <3> HIDE DEF z
    <3> QED  BY <2>1, WithinProduct
  <2>3. x * y = -v
    BY <1>1
  <2> HIDE DEF v, w
  <2>4. w \in Nat /\ Within(-v, w)
    BY <2>2 DEF Within
  <2> QED  BY <2>3, <2>4 DEF w
<1> QED  BY <1>1, <1>2, <1>3

(* The parts of a fitness: with what validate leaves above the largest      *)
(* penalty for a missing method 3, each is at most a quarter of the range.  *)
Quarter == 2^(KB - 2)

LEMMA QuarterFacts ==
  ASSUME Setting
  PROVE  /\ Quarter \in Nat /\ 2^KB = 4 * Quarter
         /\ 2^TB * 2^SB <= Quarter
         /\ (2^TB * 2^PB) * 2^SB <= Quarter
         /\ (2^TB * 2^PB) * 2^(LB - 1) <= Quarter
         /\ ((2^TB * 2^PB) * 2^TB) * 2^SB <= Quarter
<1> DEFINE t == TB
           p == PB
           s == SB
           l == LB - 1
           k == KB - 2
<1>1. /\ t \in Nat /\ p \in Nat /\ s \in Nat /\ l \in Nat /\ k \in Nat
      /\ t + p + l <= k /\ ((t + p) + t) + s <= k
  BY Budgets
<1>2. KB = (k + 1) + 1
  BY Budgets
<1> HIDE DEF t, p, s, l, k
<1>3. 2^(k + 1) = 2 * 2^k /\ 2^((k + 1) + 1) = 2 * 2^(k + 1)
  <2>1. k + 1 \in Nat
    BY <1>1
  <2> QED  BY <1>1, <2>1, PowerNext
<1>4. 2^k \in Nat /\ 2^(k + 1) \in Nat
  <2>1. k + 1 \in Nat /\ k <= k + 1
    BY <1>1
  <2> QED  BY <1>1, <2>1, PowerMonotone
<1>5. 2^((k + 1) + 1) = 4 * 2^k
  BY <1>3, <1>4
<1>6. /\ 2^t * 2^s = 2^(t + s) /\ 2^t * 2^p = 2^(t + p)
  BY <1>1, PowerSum
<1>7. /\ 2^(t + p) * 2^s = 2^((t + p) + s) /\ 2^(t + p) * 2^l = 2^((t + p) + l)
      /\ 2^(t + p) * 2^t = 2^((t + p) + t)
      /\ 2^((t + p) + t) * 2^s = 2^(((t + p) + t) + s)
  <2>1. t + p \in Nat /\ (t + p) + t \in Nat
    BY <1>1
  <2> QED  BY <1>1, <2>1, PowerSum
<1>8. \A e \in Nat : e <= k => 2^e <= 2^k
  BY <1>1, PowerMonotone
<1>9. /\ t + s \in Nat /\ t + s <= k /\ (t + p) + s \in Nat /\ (t + p) + s <= k
      /\ (t + p) + l \in Nat /\ (t + p) + l <= k
      /\ ((t + p) + t) + s \in Nat /\ ((t + p) + t) + s <= k
  BY <1>1
<1>10. /\ 2^(t + s) <= 2^k /\ 2^((t + p) + s) <= 2^k /\ 2^((t + p) + l) <= 2^k
       /\ 2^(((t + p) + t) + s) <= 2^k
  BY <1>8, <1>9
<1>11. /\ 2^t * 2^s <= 2^k /\ (2^t * 2^p) * 2^s <= 2^k /\ (2^t * 2^p) * 2^l <= 2^k
       /\ ((2^t * 2^p) * 2^t) * 2^s <= 2^k
  BY <1>6, <1>7, <1>10, Zenon
<1>12. Quarter = 2^k
  BY DEF Quarter, k
<1>13. 2^KB = 4 * Quarter
  BY <1>2, <1>5, <1>12, Zenon
<1>14. Quarter \in Nat
  BY <1>4, <1>12
<1> QED  BY <1>11, <1>12, <1>13, <1>14, Zenon DEF t, p, s, l

(* A fitness is the sum of four numbers, each at most a quarter of what     *)
(* compareBits hold, the first less.                                        *)
LEMMA FitnessBound ==
  ASSUME Setting, NEW g \in Assignments, NEW x,
         x.total = SumOver(RowCost(g), Rows), x.c3 = SumOver(RowC3(g), Rows),
         x.linear = SumOver(RowLinear(g), Rows)
  PROVE  ComputedFitness(x) \in Nat /\ ComputedFitness(x) < 2^KB
<1> DEFINE T == 2^TB
           P == 2^PB
           S == 2^SB
           H == 2^(LB - 1)
           Q == Quarter
           v == Select(Greater(-x.linear, 0), -x.linear, 0)
           n == Not(Greater(x.c3, 0))
           a == x.total * Scale
           b == Penalty * Scale
           d == Penalty * v
           e == MissingPenalty * n
<1>1. /\ T \in Nat /\ 1 <= T /\ P \in Nat /\ 1 <= P /\ S \in Nat /\ 1 <= S
      /\ H \in Nat /\ 1 <= H
  <2>1. T \in Nat /\ 1 <= T /\ H \in Nat /\ 1 <= H
    BY Capacities
  <2>2. PB \in Nat /\ SB \in Nat
    BY Budgets
  <2>3. P \in Nat /\ 1 <= P
    BY <2>2, PowerMonotone
  <2>4. S \in Nat /\ 1 <= S
    BY <2>2, PowerMonotone
  <2> QED  BY <2>1, <2>3, <2>4
<1>2. /\ Q \in Nat /\ 2^KB = 4 * Q /\ T * S <= Q /\ (T * P) * S <= Q
      /\ (T * P) * H <= Q /\ ((T * P) * T) * S <= Q
  BY QuarterFacts
<1>3. Scale \in Nat /\ Scale <= S /\ 1 <= Scale /\ task.penalty \in Nat /\ task.penalty <= P
  BY Budgets
<1>4. /\ MaximumTotal + 1 \in Nat /\ MaximumTotal + 1 <= T
      /\ x.total \in Nat /\ x.total < T /\ Within(x.linear, H - 1)
  <2> DEFINE M == MaximumTotal
             y == SumOver(RowCost(g), Rows)
  <2>1. M + 1 <= T /\ y \in Nat /\ y + 1 <= T /\ Within(x.linear, H - 1)
    BY TotalBounds
  <2>2. M \in Nat
    BY PenaltyFacts
  <2>3. x.total = y
    OBVIOUS
  <2> HIDE DEF M, y, T, H
  <2>4. M + 1 \in Nat /\ y < T
    BY <1>1, <2>1, <2>2
  <2> QED  BY <2>1, <2>3, <2>4 DEF M
<1>5. x.c3 \in Int /\ x.linear \in Int
  BY ExactTypes
<1>6. v \in Nat /\ v <= H
  <2> DEFINE l == x.linear
             q == Greater(-l, 0)
  <2>1. l \in Int /\ -l \in Int /\ Within(l, H - 1)
    BY <1>4, <1>5
  <2> HIDE DEF l
  <2>2. q \in Bits /\ (q = 1 <=> -l > 0)
    BY <2>1, ComparisonBits DEF Greater
  <2> HIDE DEF q, H
  <2>3. Select(q, -l, 0) = IF q = 1 THEN -l ELSE 0
    BY <2>1, <2>2, SelectBit
  <2>4. Select(q, -l, 0) \in Nat /\ Select(q, -l, 0) <= H
    BY <1>1, <2>1, <2>2, <2>3 DEF Within
  <2> QED  BY <2>4 DEF q, l
<1>7. n \in {0, 1}
  <2> DEFINE c == x.c3
  <2>1. c \in Int
    BY <1>5
  <2> HIDE DEF c
  <2>2. Not(Greater(c, 0)) \in Bits
    BY <2>1, ComparisonBits, BitArithmetic
  <2> QED  BY <2>2 DEF Bits, c
<1>8. ComputedFitness(x) = a + b + d + e
  BY DEF ComputedFitness
<1> HIDE DEF T, P, S, H, Q, v, n
<1>9. Penalty \in Nat /\ T * P \in Nat /\ Penalty <= T * P
  <2> DEFINE y == MaximumTotal + 1
             z == task.penalty
  <2>1. y \in Nat /\ y <= T /\ z \in Nat /\ z <= P /\ Penalty = y * z
    BY <1>3, <1>4 DEF Penalty
  <2> HIDE DEF y, z
  <2> QED  BY <1>1, <2>1, ProductAtMost
<1>10. a \in Nat /\ a < Q
  <2> DEFINE y == x.total
             z == Scale
             u == T * S
  <2>1. y \in Nat /\ y < T /\ z \in Nat /\ z <= S /\ 1 <= S
    BY <1>1, <1>3, <1>4
  <2>2. a = y * z
    OBVIOUS
  <2> HIDE DEF y, z, a
  <2>3. y * z \in Nat /\ T * S \in Nat /\ y * z < T * S
    BY <1>1, <2>1, ProductBelow
  <2>4. a \in Nat /\ u \in Nat /\ a < u /\ u <= Q
    BY <1>2, <2>2, <2>3
  <2> HIDE DEF u
  <2> QED  BY <1>2, <2>4
<1> DEFINE R == T * P
<1>11. b \in Nat /\ b <= Q
  <2> DEFINE y == Penalty
             z == Scale
             u == R * S
  <2>1. y \in Nat /\ y <= R /\ R \in Nat /\ z \in Nat /\ z <= S /\ b = y * z /\ u <= Q
    BY <1>2, <1>3, <1>9
  <2> HIDE DEF y, z, b, R
  <2>2. y * z \in Nat /\ R * S \in Nat /\ y * z <= R * S
    BY <1>1, <2>1, ProductAtMost
  <2>3. b \in Nat /\ u \in Nat /\ b <= u
    BY <2>1, <2>2
  <2> HIDE DEF u
  <2> QED  BY <1>2, <2>1, <2>3
<1>12. d \in Nat /\ d <= Q
  <2> DEFINE y == Penalty
             u == R * H
  <2>1. y \in Nat /\ y <= R /\ R \in Nat /\ d = y * v /\ u <= Q
    BY <1>2, <1>9
  <2> HIDE DEF y, d, R
  <2>2. y * v \in Nat /\ R * H \in Nat /\ y * v <= R * H
    BY <1>1, <1>6, <2>1, ProductAtMost
  <2>3. d \in Nat /\ u \in Nat /\ d <= u
    BY <2>1, <2>2
  <2> HIDE DEF u
  <2> QED  BY <1>2, <2>1, <2>3
<1>13. e \in Nat /\ e <= Q
  <2> DEFINE p == Penalty
             y == MaximumTotal + 1
             z == Scale
             f == p * y
             F == R * T
             w == f * z
             u == F * S
  <2>1. /\ p \in Nat /\ p <= R /\ R \in Nat /\ y \in Nat /\ y <= T /\ z \in Nat /\ z <= S
        /\ MissingPenalty = w /\ u <= Q
    BY <1>2, <1>3, <1>4, <1>9 DEF MissingPenalty
  <2> HIDE DEF p, y, z, R
  <2>2. f \in Nat /\ F \in Nat /\ f <= F
    BY <1>1, <2>1, ProductAtMost
  <2> HIDE DEF f, F
  <2>3. w \in Nat /\ u \in Nat /\ w <= u
    BY <1>1, <2>1, <2>2, ProductAtMost
  <2>4. e = w * n
    BY <2>1
  <2> HIDE DEF w, u, e
  <2>5. e = 0 \/ e = w
    BY <1>7, <2>3, <2>4
  <2> QED  BY <1>2, <2>1, <2>3, <2>5
<1> HIDE DEF a, b, d, e
<1>14. a + b + d + e \in Nat /\ a + b + d + e < 4 * Q
  BY <1>2, <1>10, <1>11, <1>12, <1>13
<1> QED  BY <1>2, <1>8, <1>14

LEMMA SumsFit ==
  ASSUME Setting, NEW g \in Assignments
  PROVE  /\ FitsCompare(SumOver(RowCost(g), Rows))
         /\ FitsCompare(SumOver(RowLinear(g), Rows))
<1> DEFINE T == 2^TB
           H == 2^(LB - 1)
           K == 2^KB
           y == SumOver(RowCost(g), Rows)
           z == SumOver(RowLinear(g), Rows)
<1>1. /\ TB \in Nat /\ KB \in Nat /\ LB - 1 \in Nat /\ TB <= KB /\ LB - 1 <= KB
  BY Budgets
<1>2. T \in Nat /\ K \in Nat /\ 1 <= T /\ T <= K
  BY <1>1, PowerMonotone
<1>3. H \in Nat /\ 1 <= H /\ H <= K
  BY <1>1, PowerMonotone
<1>4. y \in Nat /\ y + 1 <= T /\ Within(z, H - 1)
  BY TotalBounds
<1>5. \A v : FitsCompare(v) <=> -K < v /\ v < K
  BY DEF FitsCompare, KB
<1> HIDE DEF T, H, K, y, z
<1>6. z \in Int /\ -(H - 1) <= z /\ z <= H - 1
  BY <1>4 DEF Within
<1>7. -K < y /\ y < K /\ -K < z /\ z < K
  BY <1>2, <1>3, <1>4, <1>6
<1>8. FitsCompare(y) /\ FitsCompare(z)
  BY <1>5, <1>7
<1> QED  BY <1>8 DEF y, z

(* What a repair multiplies: the change of one row's cost by the change of  *)
(* another row's linear value.                                              *)
LEMMA ProductsFit ==
  ASSUME Setting, NEW i \in Rows, NEW j \in Rows, NEW a \in Methods(i), NEW b \in Methods(i),
         NEW c \in Methods(j), NEW d \in Methods(j)
  PROVE  FitsCompare((Cost(i, a) - Cost(i, b)) * (Contribution(j, c) - Contribution(j, d)))
<1> DEFINE B == 2^CB
           S == Scale
           H == 2^(LB - 1)
           G == 2^LB
           K == 2^KB
           X == B - 1
           Y == 2 * (X * S)
           x == Cost(i, a) - Cost(i, b)
           y == Contribution(j, c) - Contribution(j, d)
<1>1. B \in Nat /\ 1 <= B /\ H \in Nat /\ S \in Nat /\ 1 <= S
  BY Budgets, Capacities
<1>2. (B * S) <= H
  <2> DEFINE n == Len(task.costs)
             p == B * S
  <2>1. n \in Nat /\ 1 <= n /\ (n * B) * S <= H
    BY Capacities, TaskFacts
  <2> HIDE DEF B, S, H, n
  <2>2. p \in Nat /\ (n * B) * S = n * p
    BY <1>1, <2>1
  <2> HIDE DEF p
  <2>3. 1 * p <= n * p
    BY <2>1, <2>2, ProductAtMost
  <2> DEFINE q == n * p
  <2>4. q \in Nat /\ q <= H /\ p <= q
    BY <2>1, <2>2, <2>3
  <2> HIDE DEF q
  <2> QED  BY <1>1, <2>2, <2>4 DEF p
<1>3. G = 2 * H /\ K \in Nat /\ B * G <= K
  <2>1. LB - 1 \in Nat /\ LB = (LB - 1) + 1 /\ LB \in Nat /\ CB \in Nat /\ KB \in Nat
    BY Budgets
  <2>2. 2^((LB - 1) + 1) = 2 * 2^(LB - 1)
    BY <2>1, PowerNext
  <2>3. 2^(CB + LB) = 2^CB * 2^LB
    BY <2>1, PowerSum
  <2>4. CB + LB \in Nat /\ CB + LB <= KB
    BY <2>1, Budgets
  <2>5. 2^KB \in Nat /\ 2^(CB + LB) <= 2^KB
    BY <2>1, <2>4, PowerMonotone
  <2> QED  BY <2>1, <2>2, <2>3, <2>5, Zenon
<1>4. Within(x, X)
  <2> DEFINE p == Cost(i, a)
             q == Cost(i, b)
  <2>1. p \in Nat /\ p <= X /\ q \in Nat /\ q <= X
    BY CostBounds
  <2> HIDE DEF p, q, B
  <2>2. Within(p - q, X)
    BY <1>1, <2>1 DEF Within
  <2> QED  BY <2>2 DEF p, q
<1>5. Within(y, Y)
  <2> DEFINE p == Contribution(j, c)
             q == Contribution(j, d)
             m == X * S
  <2>1. Within(p, m) /\ Within(q, m)
    BY CostBounds
  <2>2. m \in Int
    <3> HIDE DEF B, S
    <3> QED  BY <1>1
  <2> HIDE DEF p, q, m
  <2>3. Within(p - q, 2 * m)
    BY <2>1, <2>2 DEF Within
  <2> QED  BY <2>3 DEF p, q, m
<1> HIDE DEF B, S, H, G, K, x, y
<1>6. X \in Nat /\ Y \in Nat /\ Y <= G
  <2> DEFINE m == X * S
             p == B * S
  <2>1. X \in Nat
    BY <1>1
  <2>2. m = p - S /\ p \in Nat /\ p <= H
    BY <1>1, <1>2
  <2>3. m \in Nat
    <3> HIDE DEF X
    <3> QED  BY <1>1, <2>1
  <2> HIDE DEF m, p
  <2>4. 2 * m \in Nat /\ 2 * m <= G
    BY <1>1, <1>3, <2>2, <2>3
  <2> QED  BY <2>1, <2>4 DEF m
<1> HIDE DEF Y
<1>7. Within(x * y, X * Y) /\ X * Y \in Nat
  <2> HIDE DEF X
  <2> QED  BY <1>4, <1>5, <1>6, WithinProducts
<1>8. X * Y < K
  <2> DEFINE p == B * G
             q == X * G
             r == X * Y
  <2>1. G \in Nat /\ (G = 0 \/ 1 <= G)
    BY <1>1, <1>3
  <2>2. 1 <= G
    <3> DEFINE t == B * S
    <3>1. t \in Nat /\ 1 * 1 <= t
      BY <1>1, ProductAtMost
    <3>2. t <= H
      BY <1>2
    <3> HIDE DEF t
    <3> QED  BY <1>1, <1>3, <3>1, <3>2
  <2>3. q = p - G /\ p \in Nat /\ p <= K
    BY <1>1, <1>3, <2>1
  <2>4. r \in Nat /\ q \in Nat /\ r <= q
    <3> HIDE DEF X
    <3> QED  BY <1>6, <2>1, ProductAtMost
  <2> HIDE DEF p, q, r
  <2>5. r < K
    BY <1>3, <2>1, <2>2, <2>3, <2>4
  <2> QED  BY <2>5 DEF r
<1>9. -K < x * y /\ x * y < K
  <2> DEFINE p == x * y
             r == X * Y
  <2>1. Within(p, r) /\ r \in Nat /\ r < K
    BY <1>7, <1>8
  <2> HIDE DEF p, r
  <2>2. -K < p /\ p < K
    BY <1>3, <2>1 DEF Within
  <2> QED  BY <2>2 DEF p
<1>10. \A v : FitsCompare(v) <=> -K < v /\ v < K
  BY DEF FitsCompare, KB, K
<1>11. FitsCompare(x * y)
  BY <1>9, <1>10
<1> QED  BY <1>11 DEF x, y

(* What pega compares or multiplies keeps to compareBits: the fitness, the  *)
(* total and the linear value of every individual, and the products of      *)
(* every repair step, for every scale, penalty and domain that validate and *)
(* the constructor of ThresholdSecureOps accept.                            *)
THEOREM PegaFits == Spec => []OperandsFit
<1>1. IInv => OperandsFit
  <2> SUFFICES ASSUME IInv  PROVE OperandsFit
    OBVIOUS
  <2>0. Setting
    BY DEF IInv
  <2>1. ASSUME NEW x \in Individuals
        PROVE  /\ FitsCompare(ComputedFitness(x))
               /\ FitsCompare(x.linear) /\ FitsCompare(x.total)
    <3>1. PICK g \in Assignments, terms \in Terms :
            x = Exact(g, None, terms) \/ x = Exact(g, Memo(g), terms)
      BY IndividualsAreSound, SoundIs
    <3>2. /\ x.total = SumOver(RowCost(g), Rows) /\ x.c3 = SumOver(RowC3(g), Rows)
          /\ x.linear = SumOver(RowLinear(g), Rows)
      BY <3>1, ExactFields
    <3>3. FitsCompare(x.linear) /\ FitsCompare(x.total)
      BY <2>0, <3>2, SumsFit
    <3>4. FitsCompare(ComputedFitness(x))
      <4> DEFINE v == ComputedFitness(x)
                 K == 2^KB
      <4>1. v \in Nat /\ v < K
        BY <2>0, <3>2, FitnessBound
      <4>2. K \in Nat
        <5>1. KB \in Nat
          BY <2>0, Budgets
        <5> QED  BY <5>1, PowerMonotone
      <4>3. FitsCompare(v) <=> -K < v /\ v < K
        BY DEF FitsCompare, KB
      <4> HIDE DEF v, K
      <4>4. -K < v /\ v < K
        BY <4>1, <4>2
      <4> QED  BY <4>3, <4>4 DEF v
    <3> QED  BY <3>3, <3>4
  <2>2. \A i, j \in Rows : \A a, b \in Methods(i), c, d \in Methods(j) :
          FitsCompare((Cost(i, a) - Cost(i, b)) * (Contribution(j, c) - Contribution(j, d)))
    BY <2>0, ProductsFit
  <2> QED  BY <2>1, <2>2 DEF OperandsFit
<1> QED  BY <1>1, InvHolds, PTL

=============================================================================
