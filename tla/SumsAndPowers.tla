---------------------------- MODULE SumsAndPowers ---------------------------
(***************************************************************************)
(* Facts that the proofs about the searches share: sums over finite sets,  *)
(* the largest and the smallest of finitely many integers, powers of two,  *)
(* and magnitudes.                                                         *)
(***************************************************************************)
EXTENDS FiniteSums, FiniteSetTheorems, SequenceTheorems, WellFoundedInduction, TLAPS

-----------------------------------------------------------------------------
(* What sums over finite sets satisfy.  The sum takes the elements in an   *)
(* order that CHOOSE fixes; the lemmas make it the sum of mathematics.     *)
(* Induction is on the set: a statement that fails for some subset of a    *)
(* finite set fails for a smallest one (SmallestSubset).                   *)
LEMMA SmallestSubset ==
  ASSUME NEW S, IsFiniteSet(S), NEW Bad \in SUBSET (SUBSET S), Bad # {}
  PROVE  \E T \in Bad : /\ IsFiniteSet(T)
                        /\ \A U \in SUBSET T : U \in Bad => U = T
<1>1. IsWellFoundedOn(StrictSubsetOrdering(S), SUBSET S)
  BY FS_StrictSubsetOrderingWellFounded, FS_FiniteSubsetsOfFinite
<1>2. PICK T \in Bad : \A U \in Bad : ~ (<<U, T>> \in StrictSubsetOrdering(S))
  BY <1>1, WFMin
<1>3. \A U \in Bad : U \subseteq T => U = T
  BY <1>2 DEF StrictSubsetOrdering
<1>4. IsFiniteSet(T)
  BY FS_Subset
<1> QED  BY <1>3, <1>4

-----------------------------------------------------------------------------
(* The recursion behind the sum: at every set one element is taken.        *)
Pick(s) == CHOOSE x \in s : TRUE

SumStep(f, g, s) == IF s = {} THEN 0 ELSE f[Pick(s)] + g[s \ {Pick(s)}]
IsSum(g, f, S)   == g = [s \in SUBSET S |-> SumStep(f, g, s)]

LEMMA PickIsIn == ASSUME NEW s, s # {}  PROVE Pick(s) \in s
BY DEF Pick

LEMMA SumUnfold ==
  ASSUME NEW f, NEW S
  PROVE  SumOver(f, S) = (CHOOSE g : IsSum(g, f, S))[S]
BY DEF SumOver, MapThenSumSet, MapThenFoldSet, IsSum, SumStep, Pick

(* Two functions that satisfy the recursion agree where both are defined.  *)
LEMMA SumsAgree ==
  ASSUME NEW f, NEW g, NEW h, NEW S, NEW T, IsFiniteSet(S), T \subseteq S,
         IsSum(g, f, S), IsSum(h, f, T)
  PROVE  \A u \in SUBSET T : g[u] = h[u]
<1> DEFINE Bad == {u \in SUBSET T : g[u] # h[u]}
<1> SUFFICES ASSUME Bad # {}  PROVE FALSE
  OBVIOUS
<1>0. IsFiniteSet(T)
  BY FS_Subset
<1>1. PICK u \in Bad : \A v \in SUBSET u : v \in Bad => v = u
  <2>1. Bad \in SUBSET (SUBSET T)
    OBVIOUS
  <2> HIDE DEF Bad
  <2> QED  BY <1>0, <2>1, SmallestSubset
<1>2. g[u] = SumStep(f, g, u) /\ h[u] = SumStep(f, h, u)
  <2>1. u \in SUBSET S /\ u \in SUBSET T
    OBVIOUS
  <2> QED  BY <2>1 DEF IsSum
<1>3. CASE u = {}
  BY <1>2, <1>3 DEF SumStep
<1>4. CASE u # {}
  <2> DEFINE v == u \ {Pick(u)}
  <2>1. v \in SUBSET u /\ v # u /\ v \in SUBSET T
    BY <1>4, PickIsIn
  <2>2. g[v] = h[v]
    BY <1>1, <2>1
  <2> QED  BY <1>2, <1>4, <2>2 DEF SumStep
<1> QED  BY <1>3, <1>4

(* Every finite set has one.                                               *)
LEMMA SumExists ==
  ASSUME NEW f, NEW S, IsFiniteSet(S)
  PROVE  \E g : IsSum(g, f, S)
<1> DEFINE Bad == {T \in SUBSET S : ~ \E g : IsSum(g, f, T)}
<1> SUFFICES ASSUME Bad # {}  PROVE FALSE
  OBVIOUS
<1>1. PICK T \in Bad : IsFiniteSet(T) /\ \A U \in SUBSET T : U \in Bad => U = T
  <2>1. Bad \in SUBSET (SUBSET S)
    OBVIOUS
  <2> HIDE DEF Bad
  <2> QED  BY <2>1, SmallestSubset
<1> DEFINE Sums(U) == CHOOSE g : IsSum(g, f, U)
           Val  == [U \in SUBSET T |-> Sums(U)[U]]
           g    == [U \in SUBSET T |-> SumStep(f, Val, U)]
<1>2. \A U \in SUBSET T : U # T => IsSum(Sums(U), f, U) /\ IsFiniteSet(U)
  <2> SUFFICES ASSUME NEW U \in SUBSET T, U # T
               PROVE  IsSum(Sums(U), f, U) /\ IsFiniteSet(U)
    OBVIOUS
  <2>1. \E k : IsSum(k, f, U)
    BY <1>1
  <2> QED  BY <1>1, <2>1, FS_Subset
<1>3. \A U \in SUBSET T : U # T => g[U] = Val[U]
  <2> SUFFICES ASSUME NEW U \in SUBSET T, U # T
               PROVE  SumStep(f, Val, U) = Sums(U)[U]
    OBVIOUS
  <2>1. Sums(U)[U] = SumStep(f, Sums(U), U)
    <3> HIDE DEF Sums
    <3> QED  BY <1>2 DEF IsSum
  <2>2. CASE U = {}
    BY <2>1, <2>2 DEF SumStep
  <2>3. CASE U # {}
    <3> DEFINE V == U \ {Pick(U)}
    <3>1. V \in SUBSET U /\ V \in SUBSET T /\ V # T
      BY <2>3, PickIsIn
    <3>2. Sums(U)[V] = Sums(V)[V]
      <4> HIDE DEF Sums, V
      <4> QED  BY <1>2, <3>1, SumsAgree
    <3>3. Val[V] = Sums(V)[V]
      BY <3>1
    <3> HIDE DEF Sums, Val
    <3> QED  BY <2>1, <2>3, <3>2, <3>3 DEF SumStep
  <2> QED  BY <2>2, <2>3
<1>4. \A U \in SUBSET T : SumStep(f, Val, U) = SumStep(f, g, U)
  <2> TAKE U \in SUBSET T
  <2>1. CASE U = {}
    BY <2>1 DEF SumStep
  <2>2. CASE U # {}
    <3>1. U \ {Pick(U)} \in SUBSET T /\ U \ {Pick(U)} # T
      BY <2>2, PickIsIn
    <3>2. Val[U \ {Pick(U)}] = g[U \ {Pick(U)}]
      <4> HIDE DEF g, Val
      <4> QED  BY <1>3, <3>1
    <3> HIDE DEF g, Val
    <3> QED  BY <2>2, <3>2 DEF SumStep
  <2> QED  BY <2>1, <2>2
<1>5. IsSum(g, f, T)
  BY <1>4 DEF IsSum
<1> QED  BY <1>1, <1>5

LEMMA SumIsSum ==
  ASSUME NEW f, NEW S, IsFiniteSet(S)
  PROVE  \E g : /\ IsSum(g, f, S)
                /\ \A T \in SUBSET S : SumOver(f, T) = g[T]
<1> DEFINE Sums(T) == CHOOSE g : IsSum(g, f, T)
<1>1. \A T \in SUBSET S : IsSum(Sums(T), f, T) /\ SumOver(f, T) = Sums(T)[T]
  BY FS_Subset, SumExists, SumUnfold
<1>2. \A T \in SUBSET S : Sums(S)[T] = Sums(T)[T]
  <2> HIDE DEF Sums
  <2> QED  BY <1>1, SumsAgree
<1> HIDE DEF Sums
<1> QED  BY <1>1, <1>2

LEMMA SumEmpty ==
  ASSUME NEW f  PROVE SumOver(f, {}) = 0
<1>1. PICK g : IsSum(g, f, {}) /\ \A T \in SUBSET {} : SumOver(f, T) = g[T]
  BY FS_EmptySet, SumIsSum
<1>2. {} \in SUBSET {}
  OBVIOUS
<1>3. g[{}] = SumStep(f, g, {})
  BY <1>1, <1>2 DEF IsSum
<1> QED  BY <1>1, <1>2, <1>3 DEF SumStep

LEMMA SumPick ==
  ASSUME NEW f, NEW S, IsFiniteSet(S), S # {}
  PROVE  SumOver(f, S) = f[Pick(S)] + SumOver(f, S \ {Pick(S)})
<1>1. PICK g : IsSum(g, f, S) /\ \A T \in SUBSET S : SumOver(f, T) = g[T]
  BY SumIsSum
<1>2. S \in SUBSET S /\ S \ {Pick(S)} \in SUBSET S
  OBVIOUS
<1>3. g[S] = SumStep(f, g, S)
  BY <1>1, <1>2 DEF IsSum
<1> QED  BY <1>1, <1>2, <1>3 DEF SumStep

-----------------------------------------------------------------------------
(* A sum of integers is one; its terms may be taken in any order.          *)
LEMMA SumType ==
  ASSUME NEW D, IsFiniteSet(D), NEW f \in [D -> Int]
  PROVE  \A S \in SUBSET D : SumOver(f, S) \in Int
<1> DEFINE Bad == {S \in SUBSET D : SumOver(f, S) \notin Int}
<1> SUFFICES ASSUME Bad # {}  PROVE FALSE
  OBVIOUS
<1>1. PICK S \in Bad : IsFiniteSet(S) /\ \A T \in SUBSET S : T \in Bad => T = S
  <2>1. Bad \in SUBSET (SUBSET D)
    OBVIOUS
  <2> HIDE DEF Bad
  <2> QED  BY <2>1, SmallestSubset
<1>2. S # {}
  BY SumEmpty
<1>3. Pick(S) \in S
  BY <1>2, PickIsIn
<1>4. SumOver(f, S \ {Pick(S)}) \in Int
  <2>1. S \ {Pick(S)} \in SUBSET S /\ S \ {Pick(S)} # S /\ S \ {Pick(S)} \in SUBSET D
    BY <1>3
  <2> QED  BY <1>1, <2>1
<1>5. f[Pick(S)] \in Int
  BY <1>3
<1> QED  BY <1>1, <1>2, <1>4, <1>5, SumPick

LEMMA SumRemove ==
  ASSUME NEW D, IsFiniteSet(D), NEW f \in [D -> Int]
  PROVE  \A S \in SUBSET D : \A x \in S : SumOver(f, S) = f[x] + SumOver(f, S \ {x})
<1> DEFINE Bad == {S \in SUBSET D : \E x \in S : SumOver(f, S) # f[x] + SumOver(f, S \ {x})}
<1> SUFFICES ASSUME Bad # {}  PROVE FALSE
  OBVIOUS
<1>1. PICK S \in Bad : IsFiniteSet(S) /\ \A T \in SUBSET S : T \in Bad => T = S
  <2>1. Bad \in SUBSET (SUBSET D)
    OBVIOUS
  <2> HIDE DEF Bad
  <2> QED  BY <2>1, SmallestSubset
<1>2. PICK x \in S : SumOver(f, S) # f[x] + SumOver(f, S \ {x})
  BY <1>1
<1> DEFINE y == Pick(S)
<1>3. y \in S /\ SumOver(f, S) = f[y] + SumOver(f, S \ {y})
  BY <1>1, <1>2, PickIsIn, SumPick
<1> HIDE DEF y
<1>4. x # y
  BY <1>2, <1>3
<1>5. SumOver(f, S \ {y}) = f[x] + SumOver(f, (S \ {y}) \ {x})
  <2>1. S \ {y} \in SUBSET S /\ S \ {y} # S /\ S \ {y} \in SUBSET D /\ x \in S \ {y}
    BY <1>3, <1>4
  <2> QED  BY <1>1, <2>1
<1>6. SumOver(f, S \ {x}) = f[y] + SumOver(f, (S \ {x}) \ {y})
  <2>1. S \ {x} \in SUBSET S /\ S \ {x} # S /\ S \ {x} \in SUBSET D /\ y \in S \ {x}
    BY <1>3, <1>4
  <2> QED  BY <1>1, <2>1
<1>7. (S \ {y}) \ {x} = (S \ {x}) \ {y} /\ (S \ {x}) \ {y} \in SUBSET D
  OBVIOUS
<1>8. /\ f[x] \in Int /\ f[y] \in Int /\ SumOver(f, (S \ {x}) \ {y}) \in Int
      /\ S \in SUBSET D
  BY <1>3, <1>7, SumType
<1>9. \A a, b, c \in Int : a + (b + c) = b + (a + c)
  OBVIOUS
<1>10. SumOver(f, S) = f[y] + (f[x] + SumOver(f, (S \ {x}) \ {y}))
  BY <1>3, <1>5, <1>7
<1> QED  BY <1>2, <1>6, <1>8, <1>9, <1>10

LEMMA SumAdd ==
  ASSUME NEW D, IsFiniteSet(D), NEW f \in [D -> Int], NEW S \in SUBSET D, NEW x \in D \ S
  PROVE  SumOver(f, S \cup {x}) = SumOver(f, S) + f[x]
<1>1. S \cup {x} \in SUBSET D /\ x \in S \cup {x} /\ (S \cup {x}) \ {x} = S
  OBVIOUS
<1>2. SumOver(f, S) \in Int /\ f[x] \in Int
  BY SumType
<1> QED  BY <1>1, <1>2, SumRemove

(* Only the values on the set count.                                       *)
LEMMA SumSame ==
  ASSUME NEW f, NEW g, NEW D, IsFiniteSet(D), \A i \in D : f[i] = g[i]
  PROVE  \A S \in SUBSET D : SumOver(f, S) = SumOver(g, S)
<1> DEFINE Bad == {S \in SUBSET D : SumOver(f, S) # SumOver(g, S)}
<1> SUFFICES ASSUME Bad # {}  PROVE FALSE
  OBVIOUS
<1>1. PICK S \in Bad : IsFiniteSet(S) /\ \A T \in SUBSET S : T \in Bad => T = S
  <2>1. Bad \in SUBSET (SUBSET D)
    OBVIOUS
  <2> HIDE DEF Bad
  <2> QED  BY <2>1, SmallestSubset
<1>2. S # {}
  BY SumEmpty
<1>3. Pick(S) \in S
  BY <1>2, PickIsIn
<1>4. SumOver(f, S \ {Pick(S)}) = SumOver(g, S \ {Pick(S)})
  <2>1. S \ {Pick(S)} \in SUBSET S /\ S \ {Pick(S)} # S /\ S \ {Pick(S)} \in SUBSET D
    BY <1>3
  <2> QED  BY <1>1, <2>1
<1>5. f[Pick(S)] = g[Pick(S)]
  BY <1>3
<1> QED  BY <1>1, <1>2, <1>4, <1>5, SumPick

(* One more element, for a function that has changed nowhere else.          *)
LEMMA SumExtend ==
  ASSUME NEW D, IsFiniteSet(D), NEW f \in [D -> Int], NEW E \in SUBSET D,
         NEW x \in D \ E, NEW g, \A i \in E : f[i] = g[i]
  PROVE  \A S \in SUBSET E : /\ SumOver(f, S) = SumOver(g, S)
                            /\ SumOver(f, S \cup {x}) = SumOver(g, S) + f[x]
<1>1. IsFiniteSet(E)
  BY FS_Subset
<1>2. \A S \in SUBSET E : SumOver(f, S) = SumOver(g, S)
  BY <1>1, SumSame
<1> TAKE S \in SUBSET E
<1>3. S \in SUBSET D /\ x \in D \ S
  OBVIOUS
<1>4. SumOver(f, S \cup {x}) = SumOver(f, S) + f[x]
  BY <1>3, SumAdd
<1> QED  BY <1>2, <1>4

-----------------------------------------------------------------------------
(* Sums respect order and linear combinations, and add up over a partition. *)
LEMMA SumAtMost ==
  ASSUME NEW D, IsFiniteSet(D), NEW f \in [D -> Int], NEW g \in [D -> Int],
         \A i \in D : f[i] <= g[i]
  PROVE  \A S \in SUBSET D : SumOver(f, S) <= SumOver(g, S)
<1> DEFINE Bad == {S \in SUBSET D : ~(SumOver(f, S) <= SumOver(g, S))}
<1> SUFFICES ASSUME Bad # {}  PROVE FALSE
  OBVIOUS
<1>1. PICK S \in Bad : IsFiniteSet(S) /\ \A T \in SUBSET S : T \in Bad => T = S
  <2>1. Bad \in SUBSET (SUBSET D)
    OBVIOUS
  <2> HIDE DEF Bad
  <2> QED  BY <2>1, SmallestSubset
<1>2. S # {}
  BY SumEmpty
<1> DEFINE x == Pick(S)
           T == S \ {x}
<1>3. x \in S /\ T \in SUBSET D /\ T \in SUBSET S /\ T # S
  BY <1>2, PickIsIn
<1>4. SumOver(f, T) <= SumOver(g, T)
  BY <1>1, <1>3
<1>5. SumOver(f, S) = f[x] + SumOver(f, T) /\ SumOver(g, S) = g[x] + SumOver(g, T)
  BY <1>1, <1>2, SumPick
<1>6. /\ f[x] \in Int /\ g[x] \in Int /\ f[x] <= g[x]
      /\ SumOver(f, T) \in Int /\ SumOver(g, T) \in Int
  BY <1>3, SumType
<1>7. ~(SumOver(f, S) <= SumOver(g, S))
  OBVIOUS
<1> HIDE DEF x, T, Bad
<1> QED  BY <1>4, <1>5, <1>6, <1>7

Combines(h, a, f, b, g, D) == \A i \in D : h[i] = a * f[i] + b * g[i]

LEMMA SumLinear ==
  ASSUME NEW D, IsFiniteSet(D), NEW f \in [D -> Int], NEW g \in [D -> Int],
         NEW h \in [D -> Int], NEW a \in Int, NEW b \in Int,
         Combines(h, a, f, b, g, D)
  PROVE  \A S \in SUBSET D : SumOver(h, S) = a * SumOver(f, S) + b * SumOver(g, S)
<1> DEFINE Bad == {S \in SUBSET D : SumOver(h, S) # a * SumOver(f, S) + b * SumOver(g, S)}
<1> SUFFICES ASSUME Bad # {}  PROVE FALSE
  OBVIOUS
<1>1. PICK S \in Bad : IsFiniteSet(S) /\ \A T \in SUBSET S : T \in Bad => T = S
  <2>1. Bad \in SUBSET (SUBSET D)
    OBVIOUS
  <2> HIDE DEF Bad
  <2> QED  BY <2>1, SmallestSubset
<1>2. S # {}
  <2>1. SumOver(h, {}) = a * SumOver(f, {}) + b * SumOver(g, {})
    BY SumEmpty
  <2> QED  BY <2>1
<1> DEFINE x == Pick(S)
           T == S \ {x}
<1>3. x \in S /\ T \in SUBSET D /\ T \in SUBSET S /\ T # S
  BY <1>2, PickIsIn
<1>4. SumOver(h, T) = a * SumOver(f, T) + b * SumOver(g, T)
  BY <1>1, <1>3
<1>5. /\ SumOver(f, S) = f[x] + SumOver(f, T) /\ SumOver(g, S) = g[x] + SumOver(g, T)
      /\ SumOver(h, S) = h[x] + SumOver(h, T)
  BY <1>1, <1>2, SumPick
<1>6. /\ f[x] \in Int /\ g[x] \in Int /\ h[x] = a * f[x] + b * g[x]
      /\ SumOver(f, T) \in Int /\ SumOver(g, T) \in Int
  BY <1>3, SumType DEF Combines
<1>7. SumOver(h, S) # a * SumOver(f, S) + b * SumOver(g, S)
  OBVIOUS
<1>8. ASSUME NEW p \in Int, NEW q \in Int, NEW r \in Int, NEW s \in Int
      PROVE  a * (p + r) + b * (q + s) = (a * p + b * q) + (a * r + b * s)
  OBVIOUS
<1> HIDE DEF x, T, Bad
<1>9. SumOver(h, S) = (a * f[x] + b * g[x]) + (a * SumOver(f, T) + b * SumOver(g, T))
  BY <1>4, <1>5, <1>6
<1>10. a * SumOver(f, S) + b * SumOver(g, S)
       = (a * f[x] + b * g[x]) + (a * SumOver(f, T) + b * SumOver(g, T))
  BY <1>5, <1>6, <1>8
<1> QED  BY <1>7, <1>9, <1>10

LEMMA SumJoin ==
  ASSUME NEW D, IsFiniteSet(D), NEW f \in [D -> Int], NEW R \in SUBSET D
  PROVE  \A S \in SUBSET (D \ R) : SumOver(f, R \cup S) = SumOver(f, R) + SumOver(f, S)
<1> DEFINE Bad == {S \in SUBSET (D \ R) : SumOver(f, R \cup S) # SumOver(f, R) + SumOver(f, S)}
<1> SUFFICES ASSUME Bad # {}  PROVE FALSE
  OBVIOUS
<1>1. PICK S \in Bad : IsFiniteSet(S) /\ \A T \in SUBSET S : T \in Bad => T = S
  <2>1. Bad \in SUBSET (SUBSET D)
    OBVIOUS
  <2> HIDE DEF Bad
  <2> QED  BY <2>1, SmallestSubset
<1>2. S # {}
  <2> SUFFICES ASSUME S = {}  PROVE FALSE
    OBVIOUS
  <2>1. R \cup S = R /\ SumOver(f, R) \in Int
    BY SumType
  <2>2. SumOver(f, S) = 0
    BY SumEmpty
  <2>3. SumOver(f, R \cup S) # SumOver(f, R) + SumOver(f, S)
    OBVIOUS
  <2> HIDE DEF Bad
  <2> QED  BY <2>1, <2>2, <2>3
<1> DEFINE x == Pick(S)
           T == S \ {x}
<1>3. /\ x \in S /\ T \in SUBSET (D \ R) /\ T \in SUBSET S /\ T # S
      /\ R \cup T \in SUBSET D /\ x \in D \ (R \cup T) /\ x \in D \ T
      /\ R \cup S = (R \cup T) \cup {x} /\ S = T \cup {x}
      /\ T \in SUBSET D
  BY <1>2, PickIsIn
<1>4. SumOver(f, R \cup T) = SumOver(f, R) + SumOver(f, T)
  BY <1>1, <1>3
<1>5. SumOver(f, R \cup S) # SumOver(f, R) + SumOver(f, S)
  OBVIOUS
<1> HIDE DEF x, T, Bad
<1>6. /\ SumOver(f, R \cup S) = SumOver(f, R \cup T) + f[x]
      /\ SumOver(f, S) = SumOver(f, T) + f[x]
  BY <1>3, SumAdd
<1>7. SumOver(f, R) \in Int /\ SumOver(f, T) \in Int /\ f[x] \in Int
  BY <1>3, SumType
<1> QED  BY <1>4, <1>5, <1>6, <1>7

-----------------------------------------------------------------------------
(* The extremes that FiniteSetsExt chooses exist: some element of a finite  *)
(* set has the largest key.                                                 *)
LEMMA LargestKey ==
  ASSUME NEW D, IsFiniteSet(D), D # {}, NEW key \in [D -> Int]
  PROVE  \E x \in D : \A y \in D : key[y] <= key[x]
<1> DEFINE Bad == {S \in SUBSET D : S # {} /\ ~ \E x \in S : \A y \in S : key[y] <= key[x]}
<1>0. SUFFICES ASSUME Bad # {}  PROVE FALSE
  OBVIOUS
<1>1. PICK S \in Bad : IsFiniteSet(S) /\ \A T \in SUBSET S : T \in Bad => T = S
  <2>1. Bad \in SUBSET (SUBSET D)
    OBVIOUS
  <2> HIDE DEF Bad
  <2> QED  BY <1>0, <2>1, SmallestSubset
<1>2. PICK x \in S : TRUE
  OBVIOUS
<1>3. S \ {x} # {} => \E z \in S \ {x} : \A y \in S \ {x} : key[y] <= key[z]
  <2>1. S \ {x} \in SUBSET S /\ S \ {x} # S /\ S \ {x} \in SUBSET D
    OBVIOUS
  <2> QED  BY <1>1, <2>1
<1>4. \A y \in S : key[y] \in Int
  OBVIOUS
<1>5. ~ \E z \in S : \A y \in S : key[y] <= key[z]
  OBVIOUS
<1> HIDE DEF Bad
<1>6. CASE S \ {x} = {}
  <2>1. \A y \in S : y = x
    BY <1>6
  <2>2. \A y \in S : key[y] <= key[x]
    BY <1>2, <1>4, <2>1
  <2> QED  BY <1>2, <1>5, <2>2
<1>7. CASE S \ {x} # {}
  <2>1. PICK z \in S \ {x} : \A y \in S \ {x} : key[y] <= key[z]
    BY <1>3, <1>7
  <2>2. CASE key[z] <= key[x]
    <3>1. \A y \in S : key[y] <= key[x]
      BY <1>2, <1>4, <2>1, <2>2
    <3> QED  BY <1>2, <1>5, <3>1
  <2>3. CASE key[x] <= key[z]
    <3>1. \A y \in S : key[y] <= key[z]
      BY <1>2, <1>4, <2>1, <2>3
    <3> QED  BY <1>5, <2>1, <3>1
  <2> QED  BY <1>2, <1>4, <2>2, <2>3
<1> QED  BY <1>6, <1>7

LEMMA MaxOfValues ==
  ASSUME NEW D, IsFiniteSet(D), D # {}, NEW f \in [D -> Int]
  PROVE  /\ Max({f[x] : x \in D}) \in {f[x] : x \in D}
         /\ \A x \in D : f[x] <= Max({f[y] : y \in D})
<1> DEFINE E == {f[x] : x \in D}
<1>1. PICK x \in D : \A y \in D : f[y] <= f[x]
  BY LargestKey
<1>2. f[x] \in E /\ \A v \in E : f[x] >= v
  BY <1>1
<1>3. Max(E) \in E /\ \A v \in E : Max(E) >= v
  <2> HIDE DEF E
  <2> QED  BY <1>2 DEF Max
<1>4. \A y \in D : f[y] \in E /\ f[y] \in Int
  OBVIOUS
<1>5. Max(E) \in Int
  BY <1>3
<1>6. \A y \in D : f[y] <= Max(E)
  <2> HIDE DEF E
  <2> QED  BY <1>3, <1>4, <1>5
<1> QED  BY <1>3, <1>6

LEMMA MinOfValues ==
  ASSUME NEW D, IsFiniteSet(D), D # {}, NEW f \in [D -> Int]
  PROVE  /\ Min({f[x] : x \in D}) \in {f[x] : x \in D}
         /\ \A x \in D : Min({f[y] : y \in D}) <= f[x]
<1> DEFINE E == {f[x] : x \in D}
           key == [x \in D |-> 0 - f[x]]
<1>1. PICK x \in D : \A y \in D : key[y] <= key[x]
  <2>1. key \in [D -> Int]
    OBVIOUS
  <2> HIDE DEF key
  <2> QED  BY <2>1, LargestKey
<1>2. f[x] \in E /\ \A v \in E : f[x] <= v
  BY <1>1
<1>3. Min(E) \in E /\ \A v \in E : Min(E) <= v
  <2> HIDE DEF E
  <2> QED  BY <1>2 DEF Min
<1>4. \A y \in D : f[y] \in E
  OBVIOUS
<1>5. \A y \in D : Min(E) <= f[y]
  <2> HIDE DEF E
  <2> QED  BY <1>3, <1>4
<1> QED  BY <1>3, <1>5

LEMMA MaxIsLargest ==
  ASSUME NEW D, IsFiniteSet(D), D \in SUBSET Int, D # {}
  PROVE  Max(D) \in D /\ \A y \in D : y <= Max(D)
<1> DEFINE f == [x \in D |-> x]
<1>1. f \in [D -> Int] /\ {f[x] : x \in D} = D /\ \A x \in D : f[x] = x
  OBVIOUS
<1> HIDE DEF f
<1> QED  BY <1>1, MaxOfValues

-----------------------------------------------------------------------------
(* Sums of zeros, of naturals and of positive numbers.                      *)
LEMMA SumZero ==
  ASSUME NEW D, IsFiniteSet(D), NEW z \in [D -> Int], \A i \in D : z[i] = 0
  PROVE  \A S \in SUBSET D : SumOver(z, S) = 0
<1>1. Combines(z, 0, z, 0, z, D)
  BY DEF Combines
<1> TAKE S \in SUBSET D
<1>2. SumOver(z, S) = 0 * SumOver(z, S) + 0 * SumOver(z, S)
  <2>1. 0 \in Int
    OBVIOUS
  <2> QED  BY <1>1, <2>1, SumLinear
<1>3. SumOver(z, S) \in Int
  BY SumType
<1> QED  BY <1>2, <1>3

LEMMA SumNatural ==
  ASSUME NEW D, IsFiniteSet(D), NEW f \in [D -> Int], \A i \in D : f[i] >= 0
  PROVE  \A S \in SUBSET D : SumOver(f, S) >= 0
<1> DEFINE z == [i \in D |-> 0]
<1>1. z \in [D -> Int] /\ (\A i \in D : z[i] = 0) /\ (\A i \in D : z[i] <= f[i])
  OBVIOUS
<1> HIDE DEF z
<1>2. \A S \in SUBSET D : SumOver(z, S) = 0
  BY <1>1, SumZero
<1>3. \A S \in SUBSET D : SumOver(z, S) <= SumOver(f, S)
  BY <1>1, SumAtMost
<1>4. \A S \in SUBSET D : SumOver(f, S) \in Int
  BY SumType
<1> QED  BY <1>2, <1>3, <1>4

LEMMA SumPositive ==
  ASSUME NEW D, IsFiniteSet(D), NEW f \in [D -> Int], \A i \in D : f[i] >= 0,
         NEW S \in SUBSET D, NEW x \in S, f[x] > 0
  PROVE  SumOver(f, S) > 0
<1>1. SumOver(f, S) = f[x] + SumOver(f, S \ {x})
  BY SumRemove
<1>2. S \ {x} \in SUBSET D
  OBVIOUS
<1>3. SumOver(f, S \ {x}) >= 0 /\ SumOver(f, S \ {x}) \in Int
  BY <1>2, SumNatural, SumType
<1> QED  BY <1>1, <1>3

-----------------------------------------------------------------------------
(* Powers of two: 2^n counts the subsets of n elements, so that one more    *)
(* element doubles it.                                                      *)
LEMMA Smallest ==
  ASSUME NEW Bad \in SUBSET Nat, Bad # {}
  PROVE  \E k \in Bad : \A j \in Bad : ~ (j < k)
<1>1. PICK k \in Bad : \A j \in Bad : ~ (<<j, k>> \in OpToRel(<, Nat))
  BY NatLessThanWellFounded, WFMin
<1> QED  BY <1>1 DEF OpToRel

LEMMA PowerIsCount ==
  ASSUME NEW n \in Nat
  PROVE  /\ IsFiniteSet(SUBSET (1..n)) /\ Cardinality(SUBSET (1..n)) = 2^n
         /\ 2^n \in Nat
<1> DEFINE D == 1..n
<1>1. IsFiniteSet(D) /\ Cardinality(D) = n
  BY FS_Interval
<1> HIDE DEF D
<1>2. IsFiniteSet(SUBSET D) /\ Cardinality(SUBSET D) = 2^Cardinality(D)
  BY <1>1, FS_SUBSET
<1>3. Cardinality(SUBSET D) \in Nat
  BY <1>2, FS_CardinalityType
<1>4. Cardinality(SUBSET D) = 2^n
  BY <1>1, <1>2, Zenon
<1>5. 2^n \in Nat
  BY <1>3, <1>4, Zenon
<1> QED  BY <1>2, <1>4, <1>5 DEF D

LEMMA PowerZero == 2^0 = 1
<1> DEFINE D == SUBSET (1..0)
<1>1. Cardinality(D) = 2^0
  BY PowerIsCount
<1>2. D = {{}}
  OBVIOUS
<1>3. Cardinality({{}}) = 1
  BY FS_Singleton
<1> HIDE DEF D
<1> QED  BY <1>1, <1>2, <1>3, Zenon

LEMMA PowerNext ==
  ASSUME NEW n \in Nat
  PROVE  2^(n + 1) = 2 * 2^n
<1> DEFINE P == SUBSET (1 .. n)
           Q == SUBSET (1 .. n + 1)
           R == {X \in Q : n + 1 \in X}
           g == [X \in P |-> X \cup {n + 1}]
<1>1. IsFiniteSet(P) /\ Cardinality(P) = 2^n /\ 2^n \in Nat
  BY PowerIsCount
<1>2. IsFiniteSet(Q) /\ Cardinality(Q) = 2^(n + 1)
  BY PowerIsCount
<1>3. Q = P \cup R /\ P \cap R = {} /\ R \subseteq Q
  <2>1. n \in Nat /\ n + 1 \notin 1 .. n /\ 1 .. n + 1 = (1 .. n) \cup {n + 1}
    OBVIOUS
  <2> QED  BY <2>1
<1>4. ExistsBijection(P, R)
  <2>1. g \in [P -> R]
    <3>1. \A X \in P : X \cup {n + 1} \in R
      OBVIOUS
    <3> QED  BY <3>1
  <2>2. \A X, Y \in P : g[X] = g[Y] => X = Y
    <3>1. \A X \in P : n + 1 \notin X
      OBVIOUS
    <3>2. \A X \in P : g[X] = X \cup {n + 1}
      OBVIOUS
    <3>3. \A X \in P : g[X] \ {n + 1} = X
      BY <3>1, <3>2
    <3> HIDE DEF P, g
    <3> QED  BY <3>3, Zenon
  <2>3. \A Y \in R : \E X \in P : g[X] = Y
    <3> SUFFICES ASSUME NEW Y \in R  PROVE \E X \in P : g[X] = Y
      OBVIOUS
    <3>1. Y \ {n + 1} \in P
      OBVIOUS
    <3>2. g[Y \ {n + 1}] = Y
      BY <3>1
    <3> QED  BY <3>1, <3>2
  <2>4. g \in Bijection(P, R)
    <3> HIDE DEF P, R, g
    <3>1. g \in Injection(P, R)
      BY <2>1, <2>2 DEF Injection, IsInjective
    <3>2. g \in Surjection(P, R)
      BY <2>1, <2>3 DEF Surjection
    <3> QED  BY <3>1, <3>2 DEF Bijection
  <2> QED  BY <2>4 DEF ExistsBijection
<1>5. IsFiniteSet(R) /\ Cardinality(R) = Cardinality(P)
  <2> HIDE DEF P, R
  <2> QED  BY <1>1, <1>4, FS_Bijection
<1> HIDE DEF P, Q, R
<1>6. /\ Cardinality(P \cup R) = Cardinality(P) + Cardinality(R) - Cardinality(P \cap R)
      /\ Cardinality({}) = 0
  BY <1>1, <1>5, FS_Union, FS_EmptySet
<1>7. Cardinality(Q) = 2^n + 2^n - 0
  BY <1>1, <1>3, <1>5, <1>6, Zenon
<1> DEFINE a == 2^n
           b == 2^(n + 1)
<1>8. b = a + a - 0 /\ a \in Nat
  BY <1>1, <1>2, <1>7, Zenon
<1> HIDE DEF a, b
<1>9. b = 2 * a
  BY <1>8
<1> QED  BY <1>9 DEF a, b

(* Doubling keeps the order. *)
LEMMA PowerMonotone ==
  ASSUME NEW m \in Nat, NEW n \in Nat, m <= n
  PROVE  2^m \in Nat /\ 2^n \in Nat /\ 1 <= 2^m /\ 2^m <= 2^n
<1>1. \A k \in Nat : 2^k \in Nat
  BY PowerIsCount
<1>2. 1 <= 2^m
  <2> DEFINE Bad == {k \in Nat : ~(1 <= 2^k)}
  <2> SUFFICES ASSUME Bad # {}  PROVE FALSE
    OBVIOUS
  <2>1. PICK k \in Bad : \A j \in Bad : ~(j < k)
    <3>1. Bad \subseteq Nat
      OBVIOUS
    <3> HIDE DEF Bad
    <3> QED  BY <3>1, Smallest
  <2>2. k \in Nat /\ k # 0
    <3>1. 1 <= 1 /\ 0 \in Nat
      OBVIOUS
    <3>2. 1 <= 2^0
      BY <3>1, PowerZero, Zenon
    <3>3. k \in Nat /\ ~(1 <= 2^k)
      OBVIOUS
    <3> QED  BY <3>2, <3>3, Zenon
  <2>3. k - 1 \in Nat /\ k - 1 < k /\ k = (k - 1) + 1
    BY <2>2
  <2>4. 2^k = 2 * 2^(k - 1)
    BY <2>3, PowerNext
  <2>5. 1 <= 2^(k - 1)
    BY <2>1, <2>3
  <2> DEFINE a == 2^(k - 1)
             b == 2^k
  <2>6. a \in Nat /\ 1 <= a /\ b = 2 * a
    BY <1>1, <2>3, <2>4, <2>5
  <2>7. ~(1 <= b)
    OBVIOUS
  <2> HIDE DEF a, b
  <2> QED  BY <2>6, <2>7
<1>3. 2^m <= 2^n
  <2> DEFINE Bad == {k \in Nat : m <= k /\ ~(2^m <= 2^k)}
  <2> SUFFICES ASSUME Bad # {}  PROVE FALSE
    OBVIOUS
  <2>1. PICK k \in Bad : \A j \in Bad : ~(j < k)
    <3>1. Bad \subseteq Nat
      OBVIOUS
    <3> HIDE DEF Bad
    <3> QED  BY <3>1, Smallest
  <2>2. k \in Nat /\ k # m
    BY <1>1
  <2>3. k - 1 \in Nat /\ k - 1 < k /\ k = (k - 1) + 1 /\ m <= k - 1
    BY <2>2
  <2>4. 2^k = 2 * 2^(k - 1)
    BY <2>3, PowerNext
  <2>5. 2^m <= 2^(k - 1)
    BY <2>1, <2>3
  <2> DEFINE a == 2^(k - 1)
             b == 2^k
             c == 2^m
  <2>6. a \in Nat /\ c \in Nat /\ c <= a /\ b = 2 * a
    BY <1>1, <2>3, <2>4, <2>5
  <2>7. ~(c <= b)
    OBVIOUS
  <2> HIDE DEF a, b, c
  <2> QED  BY <2>6, <2>7
<1> QED  BY <1>1, <1>2, <1>3

LEMMA PowerSum ==
  ASSUME NEW m \in Nat, NEW n \in Nat
  PROVE  2^(m + n) = 2^m * 2^n
<1>1. \A k \in Nat : 2^k \in Nat
  BY PowerIsCount
<1> DEFINE Bad == {k \in Nat : ~(2^(m + k) = 2^m * 2^k)}
<1> SUFFICES ASSUME Bad # {}  PROVE FALSE
  OBVIOUS
<1>2. PICK k \in Bad : \A j \in Bad : ~(j < k)
  <2>1. Bad \subseteq Nat
    OBVIOUS
  <2> HIDE DEF Bad
  <2> QED  BY <2>1, Smallest
<1>3. CASE k = 0
  <2>1. m + k = m
    BY <1>3
  <2> DEFINE c == 2^m
  <2>2. c \in Nat
    BY <1>1
  <2>3. 2^(m + k) = c /\ 2^k = 1
    BY <1>3, <2>1, PowerZero
  <2>4. ~(2^(m + k) = c * 2^k)
    OBVIOUS
  <2> HIDE DEF c
  <2> QED  BY <2>2, <2>3, <2>4
<1>4. CASE k # 0
  <2>1. k - 1 \in Nat /\ k - 1 < k /\ k = (k - 1) + 1 /\ m + k = (m + (k - 1)) + 1
        /\ m + (k - 1) \in Nat
    BY <1>4
  <2>2. 2^k = 2 * 2^(k - 1) /\ 2^(m + k) = 2 * 2^(m + (k - 1))
    BY <2>1, PowerNext
  <2>3. 2^(m + (k - 1)) = 2^m * 2^(k - 1)
    BY <1>2, <2>1
  <2> DEFINE a == 2^(k - 1)
             c == 2^m
             d == 2^(m + (k - 1))
             x == 2^k
             y == 2^(m + k)
  <2>4. a \in Nat /\ c \in Nat /\ d = c * a /\ x = 2 * a /\ y = 2 * d
    BY <1>1, <2>1, <2>2, <2>3
  <2>5. ~(y = c * x)
    OBVIOUS
  <2> HIDE DEF a, c, d, x, y
  <2>6. c * (2 * a) = 2 * (c * a)
    BY <2>4
  <2> QED  BY <2>4, <2>5, <2>6, Zenon
<1> QED  BY <1>3, <1>4

-----------------------------------------------------------------------------
(* Magnitudes.                                                              *)
Within(v, w) == v \in Int /\ -w <= v /\ v <= w

LEMMA WithinSum ==
  ASSUME NEW a, NEW b, NEW v \in Int, NEW w \in Int, Within(a, v), Within(b, w)
  PROVE  /\ a \in Int /\ b \in Int
         /\ Within(a + b, v + w) /\ Within(a - b, v + w)
BY DEF Within

LEMMA WithinProduct ==
  ASSUME NEW a \in Nat, NEW m \in Nat, a <= m, NEW b, NEW w \in Nat, Within(b, w)
  PROVE  m * w \in Nat /\ Within(a * b, m * w)
<1>1. b \in Int /\ -w <= b /\ b <= w /\ -b <= w /\ -b \in Int
  BY DEF Within
<1>2. a * w \in Int /\ m * w \in Nat /\ a * b \in Int /\ a * w <= m * w
  BY <1>1
<1>3. a * b <= a * w
  BY <1>1
<1>4. a * (-b) <= a * w /\ a * (-b) = -(a * b)
  BY <1>1
<1> DEFINE x == a * b
           y == a * w
           z == m * w
           u == a * (-b)
<1>5. x \in Int /\ y \in Int /\ z \in Nat /\ x <= y /\ u <= y /\ u = -x /\ y <= z
  BY <1>2, <1>3, <1>4
<1> HIDE DEF x, y, z, u
<1>6. -z <= x /\ x <= z
  BY <1>5
<1> QED  BY <1>5, <1>6 DEF Within, x, z

LEMMA SumWithin ==
  ASSUME NEW D, IsFiniteSet(D), NEW f \in [D -> Int], NEW w \in Nat,
         \A i \in D : Within(f[i], w)
  PROVE  \A S \in SUBSET D : /\ Cardinality(S) \in Nat
                            /\ Within(SumOver(f, S), Cardinality(S) * w)
<1>1. \A S \in SUBSET D : IsFiniteSet(S) /\ Cardinality(S) \in Nat
  BY FS_Subset, FS_CardinalityType
<1> DEFINE Bad == {S \in SUBSET D : ~Within(SumOver(f, S), Cardinality(S) * w)}
<1> SUFFICES ASSUME Bad # {}  PROVE FALSE
  BY <1>1
<1>2. PICK S \in Bad : IsFiniteSet(S) /\ \A T \in SUBSET S : T \in Bad => T = S
  <2>1. Bad \in SUBSET (SUBSET D)
    OBVIOUS
  <2> HIDE DEF Bad
  <2> QED  BY <2>1, SmallestSubset
<1>3. S # {}
  <2>1. Cardinality({}) = 0 /\ SumOver(f, {}) = 0
    BY FS_EmptySet, SumEmpty
  <2>2. Within(0, 0 * w)
    BY DEF Within
  <2>3. Within(SumOver(f, {}), Cardinality({}) * w)
    BY <2>1, <2>2, Zenon
  <2> QED  BY <1>2, <2>3, Zenon
<1> DEFINE x == Pick(S)
           T == S \ {x}
<1>4. x \in S /\ T \in SUBSET D /\ T \in SUBSET S /\ T # S
  BY <1>3, PickIsIn
<1>5. Within(SumOver(f, T), Cardinality(T) * w)
  BY <1>2, <1>4
<1>6. SumOver(f, S) = f[x] + SumOver(f, T)
  BY <1>2, <1>3, SumPick
<1>7. Cardinality(T) = Cardinality(S) - 1 /\ Cardinality(T) \in Nat /\ Cardinality(S) \in Nat
  BY <1>1, <1>2, <1>4, FS_RemoveElement
<1>8. Within(f[x], w)
  BY <1>4
<1>9. ~Within(SumOver(f, S), Cardinality(S) * w)
  BY <1>2
<1> HIDE DEF x, T, Bad
<1> DEFINE m == Cardinality(T)
           n == Cardinality(S)
           s == SumOver(f, T)
           v == m * w
<1>10. m \in Nat /\ n \in Nat /\ n = m + 1 /\ v \in Int
  BY <1>7
<1>11. Within(f[x] + s, w + v)
  <2>1. Within(s, v)
    BY <1>5
  <2> HIDE DEF s, v
  <2> QED  BY <1>8, <1>10, <2>1, WithinSum
<1>12. n * w = w + v
  BY <1>10
<1> QED  BY <1>6, <1>9, <1>11, <1>12, Zenon

-----------------------------------------------------------------------------
(* The recursion behind a fold of a sequence, on the set of its indices: the *)
(* largest is taken first.  FoldExists gives a solution, and FoldStays says  *)
(* that a solution's values stay in a set that every step keeps.             *)
FoldStep(step, base, h, s) == IF s = {} THEN base ELSE step[<<h[s \ {Max(s)}], Max(s)>>]
IsFold(h, step, base, D)   == h = [s \in SUBSET D |-> FoldStep(step, base, h, s)]

Indices(D) == D \subseteq Nat /\ IsFiniteSet(D)

LEMMA IndicesBelow ==
  ASSUME NEW D, Indices(D)
  PROVE  \A T \in SUBSET D : Indices(T) /\ IsFiniteSet(T) /\ T \in SUBSET Nat
BY FS_Subset DEF Indices

LEMMA MaxIsIn ==
  ASSUME NEW s \in SUBSET Nat, IsFiniteSet(s), s # {}
  PROVE  Max(s) \in s
<1>1. s \in SUBSET Int
  OBVIOUS
<1> QED  BY <1>1, MaxIsLargest

LEMMA FoldStays ==
  ASSUME NEW D, Indices(D), NEW V, NEW h, h[{}] \in V,
         \A s \in SUBSET D : s # {} /\ h[s \ {Max(s)}] \in V => h[s] \in V
  PROVE  h[D] \in V
<1> DEFINE Bad == {s \in SUBSET D : h[s] \notin V}
<1>a. SUFFICES ASSUME Bad # {}  PROVE FALSE
  OBVIOUS
<1>1. PICK s \in Bad : IsFiniteSet(s) /\ \A t \in SUBSET s : t \in Bad => t = s
  <2>1. Bad \in SUBSET (SUBSET D)
    OBVIOUS
  <2>2. IsFiniteSet(D)
    BY DEF Indices
  <2> HIDE DEF Bad
  <2> QED  BY <1>a, <2>1, <2>2, SmallestSubset
<1>2. s # {} /\ s \in SUBSET D /\ s \in SUBSET Nat
  BY DEF Indices
<1>3. Max(s) \in s
  BY <1>1, <1>2, MaxIsIn
<1>4. s \ {Max(s)} \in SUBSET s /\ s \ {Max(s)} # s /\ s \ {Max(s)} \in SUBSET D
  <2> HIDE DEF Bad
  <2> QED  BY <1>2, <1>3
<1>5. h[s \ {Max(s)}] \in V
  BY <1>1, <1>4
<1> QED  BY <1>2, <1>5

LEMMA FoldsAgree ==
  ASSUME NEW step, NEW base, NEW D, Indices(D), NEW T \in SUBSET D,
         NEW g, NEW h, IsFold(g, step, base, D), IsFold(h, step, base, T)
  PROVE  \A u \in SUBSET T : g[u] = h[u]
<1> DEFINE Bad == {u \in SUBSET T : g[u] # h[u]}
<1>a. SUFFICES ASSUME Bad # {}  PROVE FALSE
  OBVIOUS
<1>0. IsFiniteSet(T) /\ Indices(T)
  BY IndicesBelow
<1>1. PICK u \in Bad : IsFiniteSet(u) /\ \A v \in SUBSET u : v \in Bad => v = u
  <2>1. Bad \in SUBSET (SUBSET T)
    OBVIOUS
  <2> HIDE DEF Bad
  <2> QED  BY <1>a, <1>0, <2>1, SmallestSubset
<1>2. g[u] = FoldStep(step, base, g, u) /\ h[u] = FoldStep(step, base, h, u)
  <2>1. u \in SUBSET D /\ u \in SUBSET T
    OBVIOUS
  <2> QED  BY <2>1 DEF IsFold
<1>3. CASE u = {}
  BY <1>2, <1>3 DEF FoldStep
<1>4. CASE u # {}
  <2> DEFINE v == u \ {Max(u)}
  <2>0. u \in SUBSET Nat
    BY DEF Indices
  <2>1. v \in SUBSET u /\ v # u /\ v \in SUBSET T
    BY <1>1, <1>4, <2>0, MaxIsIn
  <2>2. g[v] = h[v]
    BY <1>1, <2>1
  <2> QED  BY <1>2, <1>4, <2>2 DEF FoldStep
<1> QED  BY <1>3, <1>4

LEMMA FoldExists ==
  ASSUME NEW step, NEW base, NEW D, Indices(D)
  PROVE  \E h : IsFold(h, step, base, D)
<1> DEFINE Bad == {T \in SUBSET D : ~ \E h : IsFold(h, step, base, T)}
<1>a. SUFFICES ASSUME Bad # {}  PROVE FALSE
  OBVIOUS
<1>1. PICK T \in Bad : IsFiniteSet(T) /\ \A U \in SUBSET T : U \in Bad => U = T
  <2>1. Bad \in SUBSET (SUBSET D)
    OBVIOUS
  <2>2. IsFiniteSet(D)
    BY DEF Indices
  <2> HIDE DEF Bad
  <2> QED  BY <1>a, <2>1, <2>2, SmallestSubset
<1>0. T \in SUBSET Nat /\ \A U \in SUBSET T : U \in SUBSET Nat /\ Indices(U)
  BY IndicesBelow
<1> DEFINE Folds(U) == CHOOSE h : IsFold(h, step, base, U)
           Val  == [U \in SUBSET T |-> Folds(U)[U]]
           h    == [U \in SUBSET T |-> FoldStep(step, base, Val, U)]
<1>2. \A U \in SUBSET T : U # T => IsFold(Folds(U), step, base, U) /\ IsFiniteSet(U)
  <2> SUFFICES ASSUME NEW U \in SUBSET T, U # T
               PROVE  IsFold(Folds(U), step, base, U) /\ IsFiniteSet(U)
    OBVIOUS
  <2>1. \E k : IsFold(k, step, base, U)
    BY <1>1
  <2> QED  BY <1>1, <2>1, FS_Subset
<1>3. \A U \in SUBSET T : U # T => h[U] = Val[U]
  <2> SUFFICES ASSUME NEW U \in SUBSET T, U # T
               PROVE  FoldStep(step, base, Val, U) = Folds(U)[U]
    OBVIOUS
  <2>1. Folds(U)[U] = FoldStep(step, base, Folds(U), U)
    <3> HIDE DEF Folds
    <3> QED  BY <1>2 DEF IsFold
  <2>2. CASE U = {}
    BY <2>1, <2>2 DEF FoldStep
  <2>3. CASE U # {}
    <3> DEFINE V == U \ {Max(U)}
    <3>0. Max(U) \in U
      <4>1. IsFiniteSet(U)
        BY <1>2
      <4> QED  BY <1>0, <2>3, <4>1, MaxIsIn
    <3>1. V \in SUBSET U /\ V \in SUBSET T /\ V # T
      BY <3>0
    <3>2. Folds(U)[V] = Folds(V)[V]
      <4>1. Indices(U) /\ IsFold(Folds(U), step, base, U) /\ IsFold(Folds(V), step, base, V)
        BY <1>0, <1>2, <3>1
      <4>2. V \in SUBSET U /\ V \in SUBSET V
        OBVIOUS
      <4> HIDE DEF Folds, V
      <4> QED  BY <4>1, <4>2, FoldsAgree
    <3>3. Val[V] = Folds(V)[V]
      BY <3>1
    <3> HIDE DEF Folds, Val
    <3> QED  BY <2>1, <2>3, <3>2, <3>3 DEF FoldStep
  <2> QED  BY <2>2, <2>3
<1>4. \A U \in SUBSET T : FoldStep(step, base, Val, U) = FoldStep(step, base, h, U)
  <2> TAKE U \in SUBSET T
  <2>1. CASE U = {}
    BY <2>1 DEF FoldStep
  <2>2. CASE U # {}
    <3>0. Max(U) \in U
      <4>1. IsFiniteSet(U)
        BY <1>1, FS_Subset
      <4> QED  BY <1>0, <2>2, <4>1, MaxIsIn
    <3>1. U \ {Max(U)} \in SUBSET T /\ U \ {Max(U)} # T
      BY <3>0
    <3>2. Val[U \ {Max(U)}] = h[U \ {Max(U)}]
      <4> HIDE DEF h, Val
      <4> QED  BY <1>3, <3>1
    <3> HIDE DEF h, Val
    <3> QED  BY <2>2, <3>2 DEF FoldStep
  <2> QED  BY <2>1, <2>2
<1>5. IsFold(h, step, base, T)
  BY <1>4 DEF IsFold
<1> QED  BY <1>1, <1>5

(* A fold whose steps stay in V, and all its values.                         *)
StaysIn(h, step, base, V, D) ==
  /\ h \in [SUBSET D -> V] /\ h[{}] = base
  /\ \A s \in SUBSET D : s # {} =>
       /\ Max(s) \in D /\ h[s \ {Max(s)}] \in V
       /\ h[s] = step[<<h[s \ {Max(s)}], Max(s)>>]

LEMMA FoldWithin ==
  ASSUME NEW D, Indices(D), NEW V, NEW base \in V,
         NEW step \in [V \X D -> V]
  PROVE  \E h : StaysIn(h, step, base, V, D)
<1>1. PICK h : IsFold(h, step, base, D)
  BY FoldExists
<1>2. \A s \in SUBSET D : h[s] = FoldStep(step, base, h, s)
  BY <1>1 DEF IsFold
<1>3. h = [s \in SUBSET D |-> h[s]]
  BY <1>1 DEF IsFold
<1>4. h[{}] = base
  BY <1>2 DEF FoldStep
<1>5. \A s \in SUBSET D : s # {} =>
        /\ Max(s) \in s /\ s \ {Max(s)} \in SUBSET D
        /\ h[s] = step[<<h[s \ {Max(s)}], Max(s)>>]
  <2> SUFFICES ASSUME NEW s \in SUBSET D, s # {}
               PROVE  Max(s) \in s /\ h[s] = step[<<h[s \ {Max(s)}], Max(s)>>]
    OBVIOUS
  <2>1. s \in SUBSET Nat /\ IsFiniteSet(s)
    BY IndicesBelow
  <2> QED  BY <1>2, <2>1, MaxIsIn DEF FoldStep
<1>6. \A s \in SUBSET D : h[s] \in V
  <2> SUFFICES ASSUME NEW t \in SUBSET D  PROVE h[t] \in V
    OBVIOUS
  <2>1. Indices(t) /\ \A s \in SUBSET t : s \in SUBSET D
    BY IndicesBelow
  <2>2. h[{}] \in V
    BY <1>4
  <2>3. ASSUME NEW s \in SUBSET t, s # {}, h[s \ {Max(s)}] \in V  PROVE h[s] \in V
    <3>1. s \in SUBSET D /\ Max(s) \in D
      BY <1>5, <2>1, <2>3
    <3>2. <<h[s \ {Max(s)}], Max(s)>> \in V \X D
      BY <2>3, <3>1
    <3> QED  BY <1>5, <2>3, <3>1, <3>2
  <2> QED  BY <2>1, <2>2, <2>3, FoldStays
<1>7. \A s \in SUBSET D : s # {} => Max(s) \in D /\ h[s \ {Max(s)}] \in V
  BY <1>5, <1>6
<1>8. h \in [SUBSET D -> V]
  BY <1>3, <1>6
<1> QED  BY <1>4, <1>5, <1>7, <1>8 DEF StaysIn
=============================================================================
