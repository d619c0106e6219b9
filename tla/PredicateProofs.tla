--------------------------- MODULE PredicateProofs --------------------------
(***************************************************************************)
(* Predicates: the engine that lets a predicate turn into a bit, for any   *)
(* sets of threads and identities, and the two ways the bit is computed.   *)
(* The fused protocol decides the predicate, for every number of lower     *)
(* bounds, all values, orientations and random labels, and the arithmetic  *)
(* of the other path computes the same bit.                                *)
(***************************************************************************)
EXTENDS PredicateEngine, PredicateCircuit, FiniteSetTheorems, SequenceTheorems,
        WellFoundedInduction, TLAPS

-----------------------------------------------------------------------------
(* The engine.                                                              *)

(* Every reachable state is well typed, and the fused engine computes no    *)
(* comparisons of its own.                                                  *)
LEMMA NextTypeOK == TypeOK /\ [Next]_vars => TypeOK'
<1> SUFFICES ASSUME TypeOK, [Next]_vars  PROVE TypeOK'
  OBVIOUS
<1> USE EngineAssumption DEF TypeOK
<1>1. ASSUME NEW p \in Callers, NEW x \in Calls, Call(p, x)  PROVE TypeOK'
  BY <1>1 DEF Call
<1>2. ASSUME NEW p \in Callers, Compute(p)  PROVE TypeOK'
  BY <1>2 DEF Compute
<1>3. ASSUME NEW p \in Callers, Authorize(p)  PROVE TypeOK'
  <2>1. op[p] \in Calls
    BY <1>3 DEF Authorize
  <2> QED  BY <1>3, <2>1 DEF Authorize
<1>4. ASSUME NEW p \in Callers, Consume(p)  PROVE TypeOK'
  <2>1. op[p].id \in Identities
    BY <1>4 DEF Consume, Calls
  <2> QED  BY <1>4, <2>1 DEF Consume
<1>5. ASSUME NEW p \in Callers, Resolve(p)  PROVE TypeOK'
  <2>1. op[p].id \in Identities
    BY <1>5 DEF Resolve, Calls
  <2> QED  BY <1>5, <2>1 DEF Resolve
<1>6. CASE UNCHANGED vars
  BY <1>6 DEF vars
<1> QED  BY <1>1, <1>2, <1>3, <1>4, <1>5, <1>6 DEF Next, Step

THEOREM TypeCorrect == Spec => []TypeOK
<1>1. Init => TypeOK
  BY EngineAssumption DEF Init, TypeOK
<1> QED  BY <1>1, NextTypeOK, PTL DEF Spec

-----------------------------------------------------------------------------
(* The inductive invariant: a thread at the resolver owns its identity, and *)
(* an identity is consumed before anything is revealed for it.              *)
Owned ==
  /\ \A p \in Callers : pc[p] = "resolve" =>
       /\ op[p].id \in consumed /\ revealed[op[p].id] = "no"
       /\ \A q \in Callers \ {p} : pc[q] = "resolve" => op[q].id # op[p].id
  /\ \A i \in Identities : revealed[i] # "no" => i \in consumed

EngineInv == TypeOK /\ Owned

LEMMA NextOwned == EngineInv /\ [Next]_vars => EngineInv'
<1> SUFFICES ASSUME EngineInv, [Next]_vars  PROVE Owned'
  BY NextTypeOK DEF EngineInv
<1> USE DEF EngineInv, TypeOK, Owned
<1>1. ASSUME NEW p \in Callers, NEW x \in Calls, Call(p, x)  PROVE Owned'
  BY <1>1 DEF Call
<1>2. ASSUME NEW p \in Callers, Compute(p) \/ Authorize(p)  PROVE Owned'
  BY <1>2 DEF Compute, Authorize
<1>3. ASSUME NEW p \in Callers, Consume(p)  PROVE Owned'
  <2>1. op[p] \in Calls /\ op[p].id \in Identities
    BY <1>3 DEF Consume, Calls
  <2>2. CASE op[p].id \in consumed
    BY <1>3, <2>1, <2>2 DEF Consume
  <2>3. CASE op[p].id \notin consumed
    <3>1. revealed[op[p].id] = "no"
      BY <2>1, <2>3
    <3>2. \A q \in Callers : pc[q] = "resolve" => op[q].id # op[p].id
      BY <2>3
    <3> QED  BY <1>3, <2>1, <2>3, <3>1, <3>2 DEF Consume
  <2> QED  BY <2>2, <2>3
<1>4. ASSUME NEW p \in Callers, Resolve(p)  PROVE Owned'
  <2>1. op[p].id \in Identities /\ op[p].id \in consumed
    BY <1>4 DEF Resolve, Calls
  <2>2. \A q \in Callers \ {p} : pc[q] = "resolve" => op[q].id # op[p].id
    BY <1>4 DEF Resolve
  <2>3. PICK outcome \in {"bit", "failed"} :
          revealed' = [revealed EXCEPT ![op[p].id] = outcome]
    BY <1>4 DEF Resolve
  <2>4. pc' = [pc EXCEPT ![p] = "idle"] /\ UNCHANGED <<op, consumed>>
    BY <1>4 DEF Resolve
  <2> QED  BY <2>1, <2>2, <2>3, <2>4
<1>5. CASE UNCHANGED vars
  BY <1>5 DEF vars
<1> QED  BY <1>1, <1>2, <1>3, <1>4, <1>5 DEF Next, Step

LEMMA EngineInvariant == Spec => []EngineInv
<1>1. Init => EngineInv
  BY EngineAssumption DEF Init, EngineInv, TypeOK, Owned
<1> QED  BY <1>1, NextOwned, PTL DEF Spec

-----------------------------------------------------------------------------
(* Only an approved call consumes an identity.                              *)
ApprovedInv ==
  /\ TypeOK
  /\ \A p \in Callers :
       pc[p] = "consume" => op[p] \in approved /\ Usable(op[p])
  /\ ConsumedWereApproved

LEMMA NextApproved == ApprovedInv /\ [Next]_vars => ApprovedInv'
<1> SUFFICES ASSUME ApprovedInv, [Next]_vars
             PROVE  /\ \A p \in Callers : pc'[p] = "consume" =>
                         op'[p] \in approved' /\ Usable(op'[p])
                    /\ ConsumedWereApproved'
  BY NextTypeOK DEF ApprovedInv, Usable
<1> DEFINE Goal == /\ \A p \in Callers : pc'[p] = "consume" =>
                        op'[p] \in approved' /\ Usable(op'[p])
                   /\ ConsumedWereApproved'
<1> USE DEF ApprovedInv, TypeOK, ConsumedWereApproved, Usable
<1>1. ASSUME NEW p \in Callers, NEW x \in Calls, Call(p, x)  PROVE Goal
  BY <1>1 DEF Call
<1>2. ASSUME NEW p \in Callers, Compute(p) \/ Resolve(p)  PROVE Goal
  BY <1>2 DEF Compute, Resolve
<1>3. ASSUME NEW p \in Callers, Authorize(p)  PROVE Goal
  BY <1>3 DEF Authorize
<1>4. ASSUME NEW p \in Callers, Consume(p)  PROVE Goal
  BY <1>4 DEF Consume
<1>5. CASE UNCHANGED vars
  BY <1>5 DEF vars
<1> QED  BY <1>1, <1>2, <1>3, <1>4, <1>5 DEF Next, Step

(* A denied, malformed or mistyped call spends nobody's identity.           *)
THEOREM DenialsBurnNothing == Spec => []ConsumedWereApproved
<1>1. Init => ApprovedInv
  BY EngineAssumption
     DEF Init, ApprovedInv, TypeOK, ConsumedWereApproved
<1>2. ApprovedInv => ConsumedWereApproved
  BY DEF ApprovedInv
<1> QED  BY <1>1, <1>2, NextApproved, PTL DEF Spec

-----------------------------------------------------------------------------
(* The engine implements SingleUse.                                         *)
LEMMA StepImplements ==
  EngineInv /\ [Next]_vars => [Abstract!Next]_Status
<1> SUFFICES ASSUME EngineInv, [Next]_vars
             PROVE  Abstract!Next \/ UNCHANGED Status
  OBVIOUS
<1> DEFINE Goal == Abstract!Next \/ UNCHANGED Status
<1>1. ASSUME UNCHANGED <<consumed, revealed>>,
             Resolving' = Resolving
      PROVE  UNCHANGED Status
  BY <1>1 DEF Status
<1>2. ASSUME NEW p \in Callers, NEW x \in Calls, Call(p, x)  PROVE Goal
  <2>1. Resolving' = Resolving
    BY <1>2 DEF Call, Resolving, EngineInv, TypeOK
  <2> QED  BY <1>1, <1>2, <2>1 DEF Call
<1>3. ASSUME NEW p \in Callers, Compute(p) \/ Authorize(p)  PROVE Goal
  <2>1. Resolving' = Resolving
    BY <1>3 DEF Compute, Authorize, Resolving, EngineInv, TypeOK
  <2> QED  BY <1>1, <1>3, <2>1 DEF Compute, Authorize
<1>4. ASSUME NEW p \in Callers, Consume(p)  PROVE Goal
  <2> DEFINE id == op[p].id
  <2>1. id \in Identities
    BY <1>4 DEF Consume, Calls, EngineInv, TypeOK
  <2>2. CASE id \in consumed
    <3>1. Resolving' = Resolving
      BY <1>4, <2>2 DEF Consume, Resolving, EngineInv, TypeOK
    <3>2. UNCHANGED <<consumed, revealed>>
      BY <1>4, <2>2 DEF Consume
    <3> QED  BY <1>1, <3>1, <3>2
  <2>3. CASE id \notin consumed
    <3>1. id \notin Resolving
      BY <2>3 DEF Resolving, EngineInv, Owned
    <3>2. Status[id] = "fresh"
      BY <2>1, <2>3, <3>1 DEF Status
    <3>3. Resolving' = Resolving \cup {id}
      BY <1>4, <2>1, <2>3 DEF Consume, Resolving, EngineInv, TypeOK
    <3>4. consumed' = consumed \cup {id} /\ revealed' = revealed
      BY <1>4 DEF Consume
    <3>5. \A i \in Identities :
            Status'[i] = IF i = id THEN "open" ELSE Status[i]
      BY <3>3, <3>4 DEF Status
    <3>6. Status' = [Status EXCEPT ![id] = "open"]
      BY <3>5 DEF Status
    <3> QED  BY <2>1, <3>2, <3>6 DEF Abstract!Next, Abstract!Open
  <2> QED  BY <2>2, <2>3
<1>5. ASSUME NEW p \in Callers, Resolve(p)  PROVE Goal
  <2> DEFINE id == op[p].id
  <2>1. id \in Identities /\ id \in consumed /\ pc[p] = "resolve"
    BY <1>5 DEF Resolve, Calls, EngineInv, TypeOK, Owned
  <2>2. id \in Resolving /\ Status[id] = "open"
    BY <2>1 DEF Resolving, Status
  <2>3. PICK outcome \in {"bit", "failed"} :
          revealed' = [revealed EXCEPT ![id] = outcome]
    BY <1>5 DEF Resolve
  <2>4. \A q \in Callers \ {p} : pc[q] = "resolve" => op[q].id # id
    BY <2>1 DEF EngineInv, Owned
  <2>5. Resolving' = Resolving \ {id}
    BY <1>5, <2>4 DEF Resolve, Resolving, EngineInv, TypeOK
  <2>6. consumed' = consumed
    BY <1>5 DEF Resolve
  <2>7. \A i \in Identities :
          revealed'[i] = IF i = id THEN outcome ELSE revealed[i]
    BY <2>1, <2>3 DEF EngineInv, TypeOK
  <2>8. \A i \in Identities :
          Status'[i] = IF i # id THEN Status[i]
                       ELSE IF outcome = "bit" THEN "decided" ELSE "burnt"
    BY <2>1, <2>5, <2>6, <2>7 DEF Status
  <2>9. CASE outcome = "bit"
    <3>1. Status' = [Status EXCEPT ![id] = "decided"]
      BY <2>8, <2>9 DEF Status
    <3> QED  BY <2>1, <2>2, <3>1 DEF Abstract!Next, Abstract!Decide
  <2>10. CASE outcome = "failed"
    <3>1. Status' = [Status EXCEPT ![id] = "burnt"]
      BY <2>8, <2>10 DEF Status
    <3> QED  BY <2>1, <2>2, <3>1 DEF Abstract!Next, Abstract!Burn
  <2> QED  BY <2>9, <2>10
<1>6. CASE UNCHANGED vars
  BY <1>1, <1>6 DEF vars, Resolving
<1> QED  BY <1>2, <1>3, <1>4, <1>5, <1>6 DEF Next, Step

(* Threads racing for one identity get at most one decision out of it.      *)
THEOREM EngineImplementsSingleUse == Spec => EngineIsSingleUse
<1>1. Init => Abstract!Init
  BY DEF Init, Abstract!Init, Status, Resolving
<1> QED  BY <1>1, StepImplements, EngineInvariant, PTL
         DEF Spec, EngineIsSingleUse, Abstract!Spec

-----------------------------------------------------------------------------
(* Parity.                                                                  *)
LEMMA Halves ==
  ASSUME NEW n \in Nat
  PROVE  /\ n % 2 \in {0, 1}
         /\ \A k \in Nat : (n + 2 * k) % 2 = n % 2
OBVIOUS

LEMMA ParityOfSum ==
  ASSUME NEW a \in Nat, NEW b \in Nat, NEW c \in Nat, NEW d \in Nat, d + 2 * c = a + b
  PROVE  (d % 2 = 1) <=> ((a % 2 = 1) # (b % 2 = 1))
OBVIOUS

(* What is in one of two sets but not in both.                              *)
LEMMA OddDiffers ==
  ASSUME NEW A, NEW B, IsFiniteSet(A), IsFiniteSet(B)
  PROVE  Odd((A \ B) \cup (B \ A)) <=> (Odd(A) # Odd(B))
<1>1. IsFiniteSet(A \ B) /\ IsFiniteSet(B \ A) /\ IsFiniteSet(A \cap B)
  BY FS_Difference, FS_Intersection
<1>2. /\ Cardinality(A \ B) = Cardinality(A) - Cardinality(A \cap B)
      /\ Cardinality(B \ A) = Cardinality(B) - Cardinality(B \cap A)
  BY FS_Difference
<1>3. (A \ B) \cap (B \ A) = {} /\ A \cap B = B \cap A
  OBVIOUS
<1>4. Cardinality((A \ B) \cup (B \ A)) = Cardinality(A \ B) + Cardinality(B \ A)
  <2>1. Cardinality((A \ B) \cup (B \ A))
          = Cardinality(A \ B) + Cardinality(B \ A) - Cardinality((A \ B) \cap (B \ A))
    BY <1>1, FS_Union
  <2>2. Cardinality(A \ B) \in Nat /\ Cardinality(B \ A) \in Nat
    BY <1>1, FS_CardinalityType
  <2>3. Cardinality((A \ B) \cap (B \ A)) = 0
    BY <1>3, FS_EmptySet
  <2> QED  BY <2>1, <2>2, <2>3
<1>5. /\ Cardinality(A) \in Nat /\ Cardinality(B) \in Nat
      /\ Cardinality(A \cap B) \in Nat /\ Cardinality((A \ B) \cup (B \ A)) \in Nat
  BY <1>1, FS_CardinalityType, FS_Union
<1>6. Cardinality((A \ B) \cup (B \ A)) + 2 * Cardinality(A \cap B)
        = Cardinality(A) + Cardinality(B)
  <2>1. /\ Cardinality(A \ B) = Cardinality(A) - Cardinality(A \cap B)
        /\ Cardinality(B \ A) = Cardinality(B) - Cardinality(A \cap B)
    BY <1>2, <1>3
  <2> QED  BY <1>4, <1>5, <2>1
<1> QED  BY <1>5, <1>6, ParityOfSum DEF Odd

LEMMA OddSmall ==
  /\ ~Odd({})
  /\ \A a : Odd({a})
  /\ \A a, b : a # b => ~Odd({a, b})
  /\ \A a, b, c : a # b /\ b # c /\ a # c => Odd({a, b, c})
<1>1. Cardinality({}) = 0 /\ IsFiniteSet({})
  BY FS_EmptySet
<1>2. \A a : Cardinality({a}) = 1 /\ IsFiniteSet({a})
  BY FS_Singleton
<1>3. \A a, b : a # b => Cardinality({a, b}) = 2 /\ IsFiniteSet({a, b})
  <2> SUFFICES ASSUME NEW a, NEW b, a # b
               PROVE  Cardinality({a, b}) = 2 /\ IsFiniteSet({a, b})
    OBVIOUS
  <2>1. {a, b} = {a} \cup {b} /\ b \notin {a}
    OBVIOUS
  <2>2. Cardinality({a} \cup {b}) = Cardinality({a}) + 1 /\ IsFiniteSet({a} \cup {b})
    BY <1>2, <2>1, FS_AddElement
  <2> QED  BY <1>2, <2>1, <2>2
<1>4. \A a, b, c : a # b /\ b # c /\ a # c => Cardinality({a, b, c}) = 3
  <2> SUFFICES ASSUME NEW a, NEW b, NEW c, a # b /\ b # c /\ a # c
               PROVE  Cardinality({a, b, c}) = 3
    OBVIOUS
  <2>1. {a, b, c} = {a, b} \cup {c} /\ c \notin {a, b}
    OBVIOUS
  <2>2. Cardinality({a, b}) = 2 /\ IsFiniteSet({a, b})
    BY <1>3
  <2>3. Cardinality({a, b} \cup {c}) = Cardinality({a, b}) + 1
    BY <2>1, <2>2, FS_AddElement
  <2> QED  BY <2>1, <2>2, <2>3
<1>5. 0 % 2 # 1 /\ 1 % 2 = 1 /\ 2 % 2 # 1 /\ 3 % 2 = 1
  OBVIOUS
<1>6. ~Odd({})
  BY <1>1, <1>5 DEF Odd
<1>7. ASSUME NEW a  PROVE Odd({a})
  BY <1>2, <1>5 DEF Odd
<1>8. ASSUME NEW a, NEW b, a # b  PROVE ~Odd({a, b})
  <2>1. Cardinality({a, b}) = 2
    BY <1>3, <1>8
  <2> QED  BY <1>5, <2>1 DEF Odd
<1>9. ASSUME NEW a, NEW b, NEW c, a # b /\ b # c /\ a # c  PROVE Odd({a, b, c})
  <2>1. Cardinality({a, b, c}) = 3
    BY <1>4, <1>9
  <2> QED  BY <1>5, <2>1 DEF Odd
<1> QED  BY <1>6, <1>7, <1>8, <1>9

-----------------------------------------------------------------------------
(* Recursion on wires: a value given by those of lower wires exists and is  *)
(* unique.                                                                  *)
LEMMA Smallest ==
  ASSUME NEW Bad \in SUBSET Nat, Bad # {}
  PROVE  \E k \in Bad : \A j \in Bad : ~ (j < k)
<1>1. PICK k \in Bad : \A j \in Bad : ~ (<<j, k>> \in OpToRel(<, Nat))
  BY NatLessThanWellFounded, WFMin
<1> QED  BY <1>1 DEF OpToRel

Follows(z, step, n) == \A w \in 0 .. n - 1 : z[w] = step[w][[v \in 0 .. w - 1 |-> z[v]]]

LEMMA RecursionExists ==
  ASSUME NEW n \in Nat, NEW V, NEW step,
         \A w \in 0 .. n - 1 : step[w] \in [[0 .. w - 1 -> V] -> V]
  PROVE  \E z \in [0 .. n - 1 -> V] : Follows(z, step, n)
<1> DEFINE Bad == {k \in Nat : k <= n /\ ~ \E z \in [0 .. k - 1 -> V] : Follows(z, step, k)}
<1>0. (\E z \in [0 .. n - 1 -> V] : Follows(z, step, n)) \/ n \in Bad
  OBVIOUS
<1> SUFFICES ASSUME Bad # {}  PROVE FALSE
  BY <1>0
<1>1. PICK k \in Bad : \A j \in Bad : ~ (j < k)
  <2>1. Bad \in SUBSET Nat
    OBVIOUS
  <2> HIDE DEF Bad
  <2> QED  BY <2>1, Smallest
<1>2. k # 0
  <2> SUFFICES ASSUME k = 0  PROVE FALSE
    OBVIOUS
  <2>1. 0 .. k - 1 = {}
    OBVIOUS
  <2> DEFINE z == [v \in 0 .. k - 1 |-> v]
  <2>2. z \in [0 .. k - 1 -> V] /\ Follows(z, step, k)
    BY <2>1 DEF Follows
  <2> QED  BY <2>2
<1>3. PICK z \in [0 .. (k - 1) - 1 -> V] : Follows(z, step, k - 1)
  <2>1. k - 1 \in Nat /\ k - 1 < k /\ k - 1 <= n
    BY <1>2
  <2> QED  BY <1>1, <2>1
<1> DEFINE y == [w \in 0 .. k - 1 |-> IF w < k - 1 THEN z[w] ELSE step[k - 1][z]]
<1>4. step[k - 1][z] \in V
  <2>1. k - 1 \in 0 .. n - 1
    BY <1>2
  <2> QED  BY <2>1
<1>5. y \in [0 .. k - 1 -> V]
  BY <1>2, <1>4
<1>6. ASSUME NEW w \in 0 .. k - 1
      PROVE  y[w] = step[w][[v \in 0 .. w - 1 |-> y[v]]]
  <2>1. [v \in 0 .. w - 1 |-> y[v]] = [v \in 0 .. w - 1 |-> z[v]]
    BY <1>2
  <2>2. CASE w < k - 1
    <3>1. w \in 0 .. (k - 1) - 1 /\ y[w] = z[w]
      BY <1>2, <2>2
    <3> HIDE DEF y
    <3> QED  BY <1>3, <2>1, <3>1 DEF Follows
  <2>3. CASE w = k - 1
    <3>1. z = [v \in 0 .. w - 1 |-> z[v]]
      BY <2>3
    <3>2. y[w] = step[w][z]
      BY <2>3
    <3> HIDE DEF y
    <3> QED  BY <2>1, <3>1, <3>2
  <2> QED  BY <1>2, <2>2, <2>3
<1>7. Follows(y, step, k)
  BY <1>6 DEF Follows
<1> QED  BY <1>5, <1>7
-----------------------------------------------------------------------------
(* The comparisons and the circuit built on them.                           *)
ProblemOK == problem \in PruneProblems \cup AcceptProblems

LEMMA Concatenated ==
  ASSUME NEW S, NEW s \in Seq(S), NEW t \in Seq(S)
  PROVE  /\ Len(s \o t) = Len(s) + Len(t)
         /\ \A i \in 1 .. Len(s) : (s \o t)[i] = s[i]
         /\ \A i \in 1 .. Len(t) : (s \o t)[Len(s) + i] = t[i]
<1>1. Len(s) \in Nat /\ Len(t) \in Nat
  OBVIOUS
<1>2. ASSUME NEW i \in 1 .. Len(t)  PROVE (s \o t)[Len(s) + i] = t[i]
  <2>1. Len(s) + i \in Len(s) + 1 .. Len(s) + Len(t) /\ (Len(s) + i) - Len(s) = i
    BY <1>1
  <2> QED  BY <2>1
<1> QED  BY <1>1, <1>2

LEMMA PruneComparisons ==
  ASSUME ProblemOK, problem.type = "prune"
  PROVE  /\ problem.incumbent \in BOOLEAN
         /\ Greater(0) <=> problem.linear < 0
         /\ ~problem.incumbent => Count = 1
         /\ problem.incumbent =>
              /\ Len(problem.lowers) \in Nat \ {0} /\ Count = Len(problem.lowers) + 1
              /\ DOMAIN problem.lowers = 1 .. Count - 1
              /\ \A i \in 1 .. Count - 1 : Greater(i) <=> problem.lowers[i] > problem.best
<1>1. problem \in PruneProblems
  BY ProblemAssumption DEF ProblemOK
<1>2. /\ problem.incumbent \in BOOLEAN /\ problem.linear \in Int /\ problem.best \in Int
      /\ problem.lowers \in Seq(Int) /\ problem.lowers # <<>>
  BY <1>1, ProblemAssumption
<1> DEFINE first == <<<<0, problem.linear>>>>
           rest  == [k \in DOMAIN problem.lowers |-> <<problem.lowers[k], problem.best>>]
<1>3. /\ Len(problem.lowers) \in Nat \ {0}
      /\ DOMAIN problem.lowers = 1 .. Len(problem.lowers)
      /\ \A i \in 1 .. Len(problem.lowers) : problem.lowers[i] \in Int
  <2> DEFINE s == problem.lowers
  <2>1. s \in Seq(Int) /\ s # <<>>
    BY <1>2
  <2> HIDE DEF s
  <2>2. Len(s) \in Nat \ {0} /\ DOMAIN s = 1 .. Len(s) /\ \A i \in 1 .. Len(s) : s[i] \in Int
    BY <2>1
  <2> QED  BY <2>2 DEF s
<1>4. rest \in Seq(Int \X Int) /\ Len(rest) = Len(problem.lowers)
  BY <1>2, <1>3
<1>5. first \in Seq(Int \X Int) /\ Len(first) = 1 /\ first[1] = <<0, problem.linear>>
  BY <1>2
<1>6. CASE problem.incumbent
  <2>1. Comparisons = first \o rest
    BY <1>6 DEF Comparisons
  <2>2. \A i \in 1 .. Len(rest) : rest[i] = <<problem.lowers[i], problem.best>>
    BY <1>3, <1>4
  <2> HIDE DEF first, rest
  <2>3. /\ Len(first \o rest) = 1 + Len(rest) /\ (first \o rest)[1] = first[1]
        /\ \A i \in 1 .. Len(rest) : (first \o rest)[i + 1] = rest[i]
    <3>1. Len(first) + 1 = 2 /\ 1 \in 1 .. Len(first) /\ Len(rest) \in Nat
      BY <1>4, <1>5
    <3>2. /\ Len(first \o rest) = Len(first) + Len(rest)
          /\ \A i \in 1 .. Len(first) : (first \o rest)[i] = first[i]
          /\ \A i \in 1 .. Len(rest) : (first \o rest)[Len(first) + i] = rest[i]
      <4> DEFINE P == Int \X Int
      <4>1. first \in Seq(P) /\ rest \in Seq(P)
        BY <1>4, <1>5
      <4> HIDE DEF P
      <4> QED  BY <4>1, Concatenated
    <3>3. \A i \in 1 .. Len(rest) : Len(first) + i = i + 1
      BY <1>5, <3>1
    <3> QED  BY <1>5, <3>1, <3>2, <3>3
  <2>4. Count = Len(problem.lowers) + 1
    BY <1>3, <1>4, <2>1, <2>3 DEF Count
  <2>5. Greater(0) <=> problem.linear < 0
    BY <1>2, <1>5, <2>1, <2>3 DEF Greater
  <2>6. \A i \in 1 .. Count - 1 : Greater(i) <=> problem.lowers[i] > problem.best
    <3> SUFFICES ASSUME NEW i \in 1 .. Len(rest)
                 PROVE  Greater(i) <=> problem.lowers[i] > problem.best
      BY <1>3, <1>4, <2>4
    <3>1. Comparisons[i + 1] = <<problem.lowers[i], problem.best>>
      BY <2>1, <2>2, <2>3
    <3> QED  BY <3>1 DEF Greater
  <2> QED  BY <1>2, <1>3, <1>6, <2>4, <2>5, <2>6
<1>7. CASE ~problem.incumbent
  <2>1. Comparisons = first
    <3>1. Comparisons = first \o <<>>
      BY <1>7 DEF Comparisons
    <3> QED  BY <1>5, <3>1
  <2> HIDE DEF first
  <2>2. Count = 1 /\ (Greater(0) <=> problem.linear < 0)
    BY <1>2, <1>5, <2>1 DEF Count, Greater
  <2> QED  BY <1>2, <1>7, <2>2
<1> QED  BY <1>2, <1>6, <1>7

LEMMA AcceptComparisons ==
  ASSUME ProblemOK, problem.type # "prune"
  PROVE  /\ problem.type = "accept" /\ problem.incumbent \in BOOLEAN
         /\ {problem.linear, problem.c3, problem.cost, problem.c12,
             problem.best, problem.best12} \subseteq Int
         /\ Greater(0) <=> problem.linear < 0
         /\ Greater(1) <=> problem.c3 > 0
         /\ ~problem.incumbent => Count = 2
         /\ problem.incumbent =>
              /\ Count = 5
              /\ Greater(2) <=> problem.best > problem.cost
              /\ Greater(3) <=> problem.cost > problem.best
              /\ Greater(4) <=> problem.best12 > problem.c12
<1>1. problem \in AcceptProblems
  BY ProblemAssumption DEF ProblemOK
<1>2. /\ problem.type = "accept" /\ problem.incumbent \in BOOLEAN
      /\ {problem.linear, problem.c3, problem.cost, problem.c12,
          problem.best, problem.best12} \subseteq Int
  BY <1>1, ProblemAssumption
<1>3. CASE problem.incumbent
  <2> DEFINE two   == <<<<0, problem.linear>>, <<problem.c3, 0>>>>
             three == <<<<problem.best, problem.cost>>, <<problem.cost, problem.best>>,
                        <<problem.best12, problem.c12>>>>
  <2>1. Comparisons = two \o three
    BY <1>2, <1>3 DEF Comparisons
  <2>2. two \in Seq(Int \X Int) /\ Len(two) = 2 /\ three \in Seq(Int \X Int) /\ Len(three) = 3
    BY <1>2
  <2>3. /\ two[1] = <<0, problem.linear>> /\ two[2] = <<problem.c3, 0>>
        /\ three[1] = <<problem.best, problem.cost>> /\ three[2] = <<problem.cost, problem.best>>
        /\ three[3] = <<problem.best12, problem.c12>>
    OBVIOUS
  <2> HIDE DEF two, three
  <2>4. /\ Len(two \o three) = 5
        /\ (two \o three)[1] = two[1] /\ (two \o three)[2] = two[2]
        /\ (two \o three)[2 + 1] = three[1] /\ (two \o three)[2 + 2] = three[2]
        /\ (two \o three)[2 + 3] = three[3]
    <3> DEFINE P == Int \X Int
    <3>1. two \in Seq(P) /\ three \in Seq(P)
      BY <2>2
    <3> HIDE DEF P
    <3>2. /\ Len(two \o three) = Len(two) + Len(three)
          /\ \A i \in 1 .. Len(two) : (two \o three)[i] = two[i]
          /\ \A i \in 1 .. Len(three) : (two \o three)[Len(two) + i] = three[i]
      BY <3>1, Concatenated
    <3>3. Len(two) = 2 /\ Len(three) = 3
      BY <2>2
    <3>4. {1, 2} \subseteq 1 .. Len(two) /\ {1, 2, 3} \subseteq 1 .. Len(three)
      BY <3>3
    <3> QED  BY <3>2, <3>3, <3>4
  <2>5. Count = 5
    BY <2>1, <2>4 DEF Count
  <2>6. /\ Comparisons[0 + 1] = <<0, problem.linear>> /\ Comparisons[1 + 1] = <<problem.c3, 0>>
        /\ Comparisons[2 + 1] = <<problem.best, problem.cost>>
        /\ Comparisons[3 + 1] = <<problem.cost, problem.best>>
        /\ Comparisons[4 + 1] = <<problem.best12, problem.c12>>
    BY <2>1, <2>3, <2>4
  <2> QED  BY <1>2, <1>3, <2>5, <2>6 DEF Greater
<1>4. CASE ~problem.incumbent
  <2>1. Comparisons = <<<<0, problem.linear>>, <<problem.c3, 0>>>>
    BY <1>4 DEF Comparisons
  <2>2. Count = 2
    BY <2>1 DEF Count
  <2> QED  BY <1>2, <1>4, <2>1, <2>2 DEF Greater
<1> QED  BY <1>2, <1>3, <1>4
-----------------------------------------------------------------------------
(* The gates.  Comparison i of a pruning is folded into the result by the   *)
(* gates of wires Folded(i) - 1 and Folded(i).                              *)
LeftOf(i)  == IF i < Count THEN Folded(i - 1) ELSE 0
RightOf(i) == IF i < Count THEN i ELSE Folded(i - 1)

LEMMA LengthIs ==
  ASSUME NEW n \in Nat, NEW s, s = [k \in 1 .. n |-> s[k]]
  PROVE  Len(s) = n
OBVIOUS

LEMMA EvenAndOdd ==
  ASSUME NEW j \in Nat
  PROVE  /\ (2 * j) \div 2 = j /\ (2 * j) % 2 = 0
         /\ (2 * j + 1) \div 2 = j /\ (2 * j + 1) % 2 = 1
OBVIOUS

LEMMA HalfOf ==
  ASSUME NEW n \in Nat
  PROVE  n \div 2 \in Nat /\ (n = 2 * (n \div 2) \/ n = 2 * (n \div 2) + 1)
OBVIOUS

LEMMA FoldedWires ==
  ASSUME Count \in Nat, NEW i \in 2 .. Count
  PROVE  /\ Folded(i) = Count + 2 * (i - 2) + 1
         /\ LeftOf(i) \in 0 .. Folded(i) - 2 /\ RightOf(i) \in 0 .. Folded(i) - 2
         /\ LeftOf(i) # RightOf(i)
         /\ Folded(i) - 1 \in Nat /\ Folded(i) - 1 >= Count
BY DEF Folded, LeftOf, RightOf

LEMMA PruneShape ==
  ASSUME ProblemOK, problem.type = "prune", problem.incumbent
  PROVE  /\ Count \in Nat /\ Count >= 2
         /\ Len(Gates) = 2 * (Count - 1) /\ Gates # <<>>
         /\ \A i \in 2 .. Count :
              /\ GateOf(Folded(i) - 1) = And(LeftOf(i), RightOf(i))
              /\ GateOf(Folded(i)) = Xor({LeftOf(i), RightOf(i), Folded(i) - 1}, FALSE)
         /\ \A w \in Count .. Count + 2 * (Count - 1) - 1 :
              \E i \in 2 .. Count : w = Folded(i) - 1 \/ w = Folded(i)
<1>1. Count \in Nat /\ Count >= 2
  BY PruneComparisons
<1> DEFINE pair(i) == OrGates(LeftOf(i), RightOf(i), Folded(i) - 1)
<1>2. Gates = [k \in 1 .. 2 * (Count - 1) |-> pair(2 + (k - 1) \div 2)[1 + ((k - 1) % 2)]]
  BY DEF Gates, PruneGates, LeftOf, RightOf
<1>3. Len(Gates) = 2 * (Count - 1) /\ Gates # <<>>
  <2>1. 2 * (Count - 1) \in Nat \ {0}
    BY <1>1
  <2> DEFINE n == 2 * (Count - 1)
             s == [k \in 1 .. n |-> pair(2 + (k - 1) \div 2)[1 + ((k - 1) % 2)]]
  <2>2. s = [k \in 1 .. n |-> s[k]]
    OBVIOUS
  <2>3. Gates = s
    BY <1>2
  <2> HIDE DEF s, n
  <2>4. Len(s) = n /\ s # <<>>
    BY <2>1, <2>2, LengthIs DEF n
  <2> QED  BY <2>3, <2>4 DEF n
<1>4. ASSUME NEW i \in 2 .. Count
      PROVE  /\ GateOf(Folded(i) - 1) = And(LeftOf(i), RightOf(i))
             /\ GateOf(Folded(i)) = Xor({LeftOf(i), RightOf(i), Folded(i) - 1}, FALSE)
  <2> DEFINE j == i - 2
  <2>1. j \in Nat /\ 2 + j = i /\ Folded(i) = Count + 2 * j + 1
    BY <1>1, FoldedWires
  <2>2. /\ (Folded(i) - 1) - Count + 1 = 2 * j + 1 /\ Folded(i) - Count + 1 = 2 * j + 2
        /\ 2 * j + 1 \in 1 .. 2 * (Count - 1) /\ 2 * j + 2 \in 1 .. 2 * (Count - 1)
        /\ (2 * j + 1) - 1 = 2 * j /\ (2 * j + 2) - 1 = 2 * j + 1
    BY <1>1, <2>1
  <2> HIDE DEF j, pair
  <2>3. Gates[2 * j + 1] = pair(2 + j)[1 + 0] /\ Gates[2 * j + 2] = pair(2 + j)[1 + 1]
    BY <1>2, <2>1, <2>2, EvenAndOdd
  <2>4. /\ pair(i)[1] = And(LeftOf(i), RightOf(i))
        /\ pair(i)[2] = Xor({LeftOf(i), RightOf(i), Folded(i) - 1}, FALSE)
    <3>1. \A x, y : <<x, y>>[1] = x /\ <<x, y>>[2] = y
      OBVIOUS
    <3> QED  BY <3>1 DEF pair, OrGates
  <2>5. pair(2 + j)[1 + 0] = pair(i)[1] /\ pair(2 + j)[1 + 1] = pair(i)[2]
    <3>1. 1 + 0 = 1 /\ 1 + 1 = 2
      OBVIOUS
    <3> QED  BY <2>1, <3>1
  <2>6. /\ Gates[2 * j + 1] = And(LeftOf(i), RightOf(i))
        /\ Gates[2 * j + 2] = Xor({LeftOf(i), RightOf(i), Folded(i) - 1}, FALSE)
    BY <2>3, <2>4, <2>5, Zenon
  <2>7. GateOf(Folded(i) - 1) = Gates[2 * j + 1]
    BY <2>2 DEF GateOf
  <2>8. GateOf(Folded(i)) = Gates[2 * j + 2]
    BY <2>2 DEF GateOf
  <2> QED  BY <2>6, <2>7, <2>8
<1>5. ASSUME NEW w \in Count .. Count + 2 * (Count - 1) - 1
      PROVE  \E i \in 2 .. Count : w = Folded(i) - 1 \/ w = Folded(i)
  <2> DEFINE j == (w - Count) \div 2
  <2>1. w - Count \in Nat
    BY <1>1
  <2>2. j \in Nat /\ (w - Count = 2 * j \/ w - Count = 2 * j + 1)
    BY <2>1, HalfOf
  <2> HIDE DEF j
  <2>3. j + 2 \in 2 .. Count
    BY <1>1, <2>2
  <2>4. Folded(j + 2) = Count + 2 * ((j + 2) - 2) + 1
    BY <1>1, <2>3, FoldedWires
  <2>5. w = Folded(j + 2) - 1 \/ w = Folded(j + 2)
    BY <1>1, <2>2, <2>4
  <2> QED  BY <2>3, <2>5
<1> QED  BY <1>1, <1>3, <1>4, <1>5

LEMMA AcceptShape ==
  ASSUME ProblemOK, problem.type # "prune"
  PROVE  /\ problem.incumbent =>
              /\ Count = 5 /\ Len(Gates) = 6 /\ Gates # <<>>
              /\ GateOf(5) = Xor({0}, TRUE) /\ GateOf(6) = And(5, 1)
              /\ GateOf(7) = Xor({2, 3}, TRUE) /\ GateOf(8) = And(7, 4)
              /\ GateOf(9) = Xor({2, 8}, FALSE) /\ GateOf(10) = And(6, 9)
         /\ ~problem.incumbent =>
              /\ Count = 2 /\ Len(Gates) = 2 /\ Gates # <<>>
              /\ GateOf(2) = Xor({0}, TRUE) /\ GateOf(3) = And(2, 1)
<1>1. Gates = AcceptGates
  BY AcceptComparisons DEF Gates
<1>2. CASE problem.incumbent
  <2>1. Count = 5
    BY <1>2, AcceptComparisons
  <2>2. Gates = <<Xor({0}, TRUE), And(5, 1), Xor({2, 3}, TRUE), And(7, 4),
                  Xor({2, 8}, FALSE), And(6, 9)>>
    BY <1>1, <1>2 DEF AcceptGates
  <2>3. /\ 5 - 5 + 1 = 1 /\ 6 - 5 + 1 = 2 /\ 7 - 5 + 1 = 3
        /\ 8 - 5 + 1 = 4 /\ 9 - 5 + 1 = 5 /\ 10 - 5 + 1 = 6
    OBVIOUS
  <2> QED  BY <1>2, <2>1, <2>2, <2>3 DEF GateOf
<1>3. CASE ~problem.incumbent
  <2>1. Count = 2
    BY <1>3, AcceptComparisons
  <2>2. Gates = <<Xor({0}, TRUE), And(2, 1)>>
    BY <1>1, <1>3 DEF AcceptGates
  <2>3. 2 - 2 + 1 = 1 /\ 3 - 2 + 1 = 2
    OBVIOUS
  <2> QED  BY <1>3, <2>1, <2>2, <2>3 DEF GateOf
<1> QED  BY <1>2, <1>3
(* Every gate reads wires below its own.                                    *)
IsGate(gate, w) ==
  \/ /\ gate.kind = "and"
     /\ gate.left \in 0 .. w - 1 /\ gate.right \in 0 .. w - 1
  \/ /\ gate.kind = "xor"
     /\ gate.terms \subseteq 0 .. w - 1 /\ gate.constant \in BOOLEAN

WellFormed ==
  /\ Count \in Nat \ {0} /\ Len(Gates) \in Nat
  /\ Wires = 0 .. Count + Len(Gates) - 1 /\ Output \in Wires
  /\ \A w \in Wires : w >= Count => IsGate(GateOf(w), w)

LEMMA AndIsGate ==
  ASSUME NEW w \in Nat, NEW a \in 0 .. w - 1, NEW b \in 0 .. w - 1
  PROVE  IsGate(And(a, b), w)
BY DEF IsGate, And

LEMMA XorIsGate ==
  ASSUME NEW w \in Nat, NEW S \in SUBSET (0 .. w - 1), NEW c \in BOOLEAN
  PROVE  IsGate(Xor(S, c), w)
BY DEF IsGate, Xor

LEMMA CircuitWellFormed == ProblemOK => WellFormed
<1> SUFFICES ASSUME ProblemOK  PROVE WellFormed
  OBVIOUS
<1>1. CASE problem.type = "prune" /\ ~problem.incumbent
  <2>1. Count = 1
    BY <1>1, PruneComparisons
  <2>2. Gates = <<>>
    BY <1>1 DEF Gates
  <2>3. Len(Gates) = 0
    BY <2>2
  <2>4. \A w \in Wires : ~(w >= Count)
    BY <2>1, <2>3 DEF Wires
  <2>5. Output \in Wires
    BY <2>1, <2>2, <2>3 DEF Output, Wires
  <2> QED  BY <2>1, <2>3, <2>4, <2>5 DEF WellFormed, Wires
<1>2. CASE problem.type = "prune" /\ problem.incumbent
  <2>1. /\ Count \in Nat /\ Count >= 2 /\ Len(Gates) = 2 * (Count - 1) /\ Gates # <<>>
    BY <1>2, PruneShape
  <2>2. Output \in Wires /\ Wires = 0 .. Count + Len(Gates) - 1
    BY <2>1 DEF Output, Wires
  <2>3. ASSUME NEW w \in Wires, w >= Count  PROVE IsGate(GateOf(w), w)
    <3>1. w \in Count .. Count + 2 * (Count - 1) - 1 /\ w \in Nat
      BY <2>1, <2>2, <2>3
    <3>2. PICK i \in 2 .. Count : w = Folded(i) - 1 \/ w = Folded(i)
      BY <1>2, <3>1, PruneShape
    <3>3. /\ GateOf(Folded(i) - 1) = And(LeftOf(i), RightOf(i))
          /\ GateOf(Folded(i)) = Xor({LeftOf(i), RightOf(i), Folded(i) - 1}, FALSE)
      BY <1>2, PruneShape
    <3>4. /\ Folded(i) = Count + 2 * (i - 2) + 1
          /\ LeftOf(i) \in 0 .. Folded(i) - 2 /\ RightOf(i) \in 0 .. Folded(i) - 2
          /\ Folded(i) - 1 \in Nat
      BY <2>1, FoldedWires
    <3>5. CASE w = Folded(i) - 1
      <4>1. LeftOf(i) \in 0 .. w - 1 /\ RightOf(i) \in 0 .. w - 1
        BY <2>1, <3>4, <3>5
      <4> QED  BY <3>1, <3>3, <3>5, <4>1, AndIsGate
    <3>6. CASE w = Folded(i)
      <4>1. {LeftOf(i), RightOf(i), Folded(i) - 1} \in SUBSET (0 .. w - 1)
        BY <2>1, <3>4, <3>6
      <4> QED  BY <3>1, <3>3, <3>6, <4>1, XorIsGate
    <3> QED  BY <3>2, <3>5, <3>6
  <2> QED  BY <2>1, <2>2, <2>3 DEF WellFormed
<1>3. CASE problem.type # "prune" /\ problem.incumbent
  <2>1. /\ Count = 5 /\ Len(Gates) = 6 /\ Gates # <<>>
        /\ GateOf(5) = Xor({0}, TRUE) /\ GateOf(6) = And(5, 1)
        /\ GateOf(7) = Xor({2, 3}, TRUE) /\ GateOf(8) = And(7, 4)
        /\ GateOf(9) = Xor({2, 8}, FALSE) /\ GateOf(10) = And(6, 9)
    BY <1>3, AcceptShape
  <2>2. Wires = 0 .. Count + Len(Gates) - 1 /\ Output \in Wires
    BY <2>1 DEF Wires, Output
  <2>3. /\ IsGate(GateOf(5), 5) /\ IsGate(GateOf(7), 7) /\ IsGate(GateOf(9), 9)
        /\ IsGate(GateOf(6), 6) /\ IsGate(GateOf(8), 8) /\ IsGate(GateOf(10), 10)
    <3>1. IsGate(And(5, 1), 6) /\ IsGate(And(7, 4), 8) /\ IsGate(And(6, 9), 10)
      BY AndIsGate
    <3>2. /\ {0} \in SUBSET (0 .. 5 - 1) /\ {2, 3} \in SUBSET (0 .. 7 - 1)
          /\ {2, 8} \in SUBSET (0 .. 9 - 1)
      OBVIOUS
    <3>3. IsGate(Xor({0}, TRUE), 5) /\ IsGate(Xor({2, 3}, TRUE), 7)
      BY <3>2, XorIsGate
    <3>4. IsGate(Xor({2, 8}, FALSE), 9)
      BY <3>2, XorIsGate
    <3> QED  BY <2>1, <3>1, <3>3, <3>4
  <2>4. \A w \in Wires : w >= Count => w \in {5, 6, 7, 8, 9, 10}
    BY <2>1, <2>2
  <2> QED  BY <2>1, <2>2, <2>3, <2>4 DEF WellFormed
<1>4. CASE problem.type # "prune" /\ ~problem.incumbent
  <2>1. /\ Count = 2 /\ Len(Gates) = 2 /\ Gates # <<>>
        /\ GateOf(2) = Xor({0}, TRUE) /\ GateOf(3) = And(2, 1)
    BY <1>4, AcceptShape
  <2>2. Wires = 0 .. Count + Len(Gates) - 1 /\ Output \in Wires
    BY <2>1 DEF Wires, Output
  <2>3. IsGate(GateOf(2), 2) /\ IsGate(GateOf(3), 3)
    <3>1. IsGate(And(2, 1), 3)
      BY AndIsGate
    <3>2. {0} \in SUBSET (0 .. 2 - 1)
      OBVIOUS
    <3>3. IsGate(Xor({0}, TRUE), 2)
      BY <3>2, XorIsGate
    <3> QED  BY <2>1, <3>1, <3>3
  <2>4. \A w \in Wires : w >= Count => w \in {2, 3}
    BY <2>1, <2>2
  <2> QED  BY <2>1, <2>2, <2>3, <2>4 DEF WellFormed
<1> QED  BY <1>1, <1>2, <1>3, <1>4

-----------------------------------------------------------------------------
(* The labels for 0 and the values of the wires are well defined.           *)
LabelSet == [strings : SUBSET Int, delta : BOOLEAN]

ZeroStep(zero, w) ==
  IF w < Count \/ GateOf(w).kind = "and" THEN Random(w)
  ELSE LET sum == XorOf(zero, GateOf(w).terms)
       IN  IF GateOf(w).constant THEN Flip(sum) ELSE sum

ValueStep(value, w) ==
  IF w < Count THEN Greater(w)
  ELSE LET gate == GateOf(w)
       IN  IF gate.kind = "and" THEN value[gate.left] /\ value[gate.right]
           ELSE Odd({t \in gate.terms : value[t]}) # gate.constant

LEMMA ZeroUnfold == Zero = CHOOSE zero : zero = [w \in Wires |-> ZeroStep(zero, w)]
BY DEF Zero, ZeroStep

LEMMA ValueUnfold == Value = CHOOSE value : value = [w \in Wires |-> ValueStep(value, w)]
BY DEF Value, ValueStep

LEMMA XorSame ==
  ASSUME NEW f, NEW g, NEW S, \A t \in S : f[t] = g[t]
  PROVE  XorOf(f, S) = XorOf(g, S)
<1>1. \A v : {t \in S : v \in f[t].strings} = {t \in S : v \in g[t].strings}
  OBVIOUS
<1>2. {t \in S : f[t].delta} = {t \in S : g[t].delta}
  OBVIOUS
<1>3. {f[t].strings : t \in S} = {g[t].strings : t \in S}
  OBVIOUS
<1>4. UNION {f[t].strings : t \in S} = UNION {g[t].strings : t \in S}
  BY <1>3
<1>5. {v \in UNION {f[t].strings : t \in S} : Odd({t \in S : v \in f[t].strings})}
        = {v \in UNION {g[t].strings : t \in S} : Odd({t \in S : v \in g[t].strings})}
  BY <1>1, <1>4
<1> QED  BY <1>2, <1>5 DEF XorOf

LEMMA XorType ==
  ASSUME NEW f, NEW S, \A t \in S : f[t] \in LabelSet
  PROVE  XorOf(f, S) \in LabelSet
<1>1. UNION {f[t].strings : t \in S} \subseteq Int
  BY DEF LabelSet
<1>2. Odd({t \in S : f[t].delta}) \in BOOLEAN
  BY DEF Odd
<1> QED  BY <1>1, <1>2 DEF XorOf, LabelSet

LEMMA FlipType ==
  ASSUME NEW a \in LabelSet
  PROVE  /\ Flip(a) \in LabelSet /\ Flip(a).strings = a.strings
         /\ Flip(a).delta = ~a.delta /\ Flip(a) # a /\ Flip(Flip(a)) = a
BY DEF Flip, LabelSet

IsZero(z)  == z = [w \in Wires |-> ZeroStep(z, w)]
IsValue(f) == f = [w \in Wires |-> ValueStep(f, w)]

LEMMA ZeroLocal ==
  ASSUME WellFormed, NEW w \in Wires, NEW f, NEW g, \A t \in 0 .. w - 1 : f[t] = g[t]
  PROVE  ZeroStep(f, w) = ZeroStep(g, w)
<1>1. CASE w < Count \/ GateOf(w).kind = "and"
  BY <1>1 DEF ZeroStep
<1>2. CASE ~(w < Count \/ GateOf(w).kind = "and")
  <2>1. GateOf(w).terms \subseteq 0 .. w - 1
    <3>1. w \in Int /\ Count \in Int
      BY DEF WellFormed
    <3>2. IsGate(GateOf(w), w)
      BY <1>2, <3>1 DEF WellFormed
    <3> QED  BY <1>2, <3>2 DEF IsGate
  <2>2. XorOf(f, GateOf(w).terms) = XorOf(g, GateOf(w).terms)
    BY <2>1, XorSame
  <2> QED  BY <1>2, <2>2 DEF ZeroStep
<1> QED  BY <1>1, <1>2

LEMMA ValueLocal ==
  ASSUME WellFormed, NEW w \in Wires, NEW f, NEW g, \A t \in 0 .. w - 1 : f[t] = g[t]
  PROVE  ValueStep(f, w) = ValueStep(g, w)
<1>1. CASE w < Count
  BY <1>1 DEF ValueStep
<1>2. CASE ~(w < Count)
  <2> DEFINE gate == GateOf(w)
  <2>1. IsGate(gate, w)
    <3>1. w \in Int /\ Count \in Int
      BY DEF WellFormed
    <3> QED  BY <1>2, <3>1 DEF WellFormed
  <2> HIDE DEF gate
  <2>2. CASE gate.kind = "and"
    <3>1. f[gate.left] = g[gate.left] /\ f[gate.right] = g[gate.right]
      BY <2>1, <2>2 DEF IsGate
    <3> QED  BY <1>2, <2>2, <3>1 DEF ValueStep, gate
  <2>3. CASE gate.kind # "and"
    <3>1. gate.terms \subseteq 0 .. w - 1
      BY <2>1, <2>3 DEF IsGate
    <3>2. {t \in gate.terms : f[t]} = {t \in gate.terms : g[t]}
      BY <3>1
    <3> QED  BY <1>2, <2>3, <3>2 DEF ValueStep, gate
  <2> QED  BY <2>2, <2>3
<1> QED  BY <1>1, <1>2

LEMMA ZeroUnique ==
  ASSUME WellFormed, NEW z, NEW y, IsZero(z), IsZero(y)
  PROVE  z = y
<1> DEFINE Bad == {w \in Wires : z[w] # y[w]}
<1>1. Bad \in SUBSET Nat /\ Wires \subseteq Nat
  BY DEF WellFormed
<1>2. \A w \in Wires : z[w] = ZeroStep(z, w) /\ y[w] = ZeroStep(y, w)
  BY DEF IsZero
<1>3. Bad = {}
  <2> SUFFICES ASSUME Bad # {}  PROVE FALSE
    OBVIOUS
  <2>1. PICK w \in Bad : \A v \in Bad : ~(v < w)
    <3> HIDE DEF Bad
    <3> QED  BY <1>1, Smallest
  <2>2. w \in Wires /\ z[w] # y[w]
    OBVIOUS
  <2>3. ASSUME NEW t \in 0 .. w - 1  PROVE z[t] = y[t]
    <3>1. t \in Wires /\ t < w
      BY <1>1, <2>2 DEF WellFormed
    <3> QED  BY <2>1, <3>1
  <2>4. ZeroStep(z, w) = ZeroStep(y, w)
    BY <2>2, <2>3, ZeroLocal
  <2> QED  BY <1>2, <2>2, <2>4
<1>4. \A w \in Wires : z[w] = y[w]
  BY <1>3
<1>5. z = [w \in Wires |-> z[w]] /\ y = [w \in Wires |-> y[w]]
  BY DEF IsZero
<1> QED  BY <1>4, <1>5

LEMMA ValueUnique ==
  ASSUME WellFormed, NEW z, NEW y, IsValue(z), IsValue(y)
  PROVE  z = y
<1> DEFINE Bad == {w \in Wires : z[w] # y[w]}
<1>1. Bad \in SUBSET Nat /\ Wires \subseteq Nat
  BY DEF WellFormed
<1>2. \A w \in Wires : z[w] = ValueStep(z, w) /\ y[w] = ValueStep(y, w)
  BY DEF IsValue
<1>3. Bad = {}
  <2> SUFFICES ASSUME Bad # {}  PROVE FALSE
    OBVIOUS
  <2>1. PICK w \in Bad : \A v \in Bad : ~(v < w)
    <3> HIDE DEF Bad
    <3> QED  BY <1>1, Smallest
  <2>2. w \in Wires /\ z[w] # y[w]
    OBVIOUS
  <2>3. ASSUME NEW t \in 0 .. w - 1  PROVE z[t] = y[t]
    <3>1. t \in Wires /\ t < w
      BY <1>1, <2>2 DEF WellFormed
    <3> QED  BY <2>1, <3>1
  <2>4. ValueStep(z, w) = ValueStep(y, w)
    BY <2>2, <2>3, ValueLocal
  <2> QED  BY <1>2, <2>2, <2>4
<1>4. \A w \in Wires : z[w] = y[w]
  BY <1>3
<1>5. z = [w \in Wires |-> z[w]] /\ y = [w \in Wires |-> y[w]]
  BY DEF IsValue
<1> QED  BY <1>4, <1>5

LEMMA ZeroExists ==
  ASSUME WellFormed
  PROVE  \E z \in [Wires -> LabelSet] : IsZero(z)
<1> DEFINE n    == Count + Len(Gates)
           step == [w \in Wires |-> [h \in [0 .. w - 1 -> LabelSet] |-> ZeroStep(h, w)]]
<1>1. n \in Nat /\ Wires = 0 .. n - 1
  BY DEF WellFormed
<1>2. ASSUME NEW w \in Wires, NEW h \in [0 .. w - 1 -> LabelSet]
      PROVE  ZeroStep(h, w) \in LabelSet
  <2>1. w \in Int /\ Count \in Int
    BY DEF WellFormed
  <2>2. Random(w) \in LabelSet
    BY <2>1 DEF Random, LabelSet
  <2>3. CASE w < Count \/ GateOf(w).kind = "and"
    BY <2>2, <2>3 DEF ZeroStep
  <2>4. CASE ~(w < Count \/ GateOf(w).kind = "and")
    <3>1. IsGate(GateOf(w), w)
      BY <2>1, <2>4 DEF WellFormed
    <3>2. GateOf(w).terms \subseteq 0 .. w - 1
      BY <2>4, <3>1 DEF IsGate
    <3>3. XorOf(h, GateOf(w).terms) \in LabelSet
      BY <3>2, XorType
    <3> QED  BY <2>4, <3>3, FlipType DEF ZeroStep
  <2> QED  BY <2>3, <2>4
<1>3. \A w \in 0 .. n - 1 : step[w] \in [[0 .. w - 1 -> LabelSet] -> LabelSet]
  BY <1>1, <1>2
<1>4. PICK z \in [0 .. n - 1 -> LabelSet] : Follows(z, step, n)
  <2> HIDE DEF n, step
  <2> QED  BY <1>1, <1>3, RecursionExists
<1>5. ASSUME NEW w \in Wires  PROVE z[w] = ZeroStep(z, w)
  <2> DEFINE h == [v \in 0 .. w - 1 |-> z[v]]
  <2>1. h \in [0 .. w - 1 -> LabelSet]
    <3>1. \A v \in 0 .. w - 1 : v \in 0 .. n - 1
      BY <1>1
    <3> HIDE DEF n
    <3> QED  BY <3>1
  <2>2. \A t \in 0 .. w - 1 : h[t] = z[t]
    OBVIOUS
  <2>3. z[w] = step[w][h]
    <3> HIDE DEF n, step
    <3> QED  BY <1>1, <1>4 DEF Follows
  <2> HIDE DEF h
  <2>4. step[w][h] = ZeroStep(h, w)
    BY <2>1
  <2> QED  BY <2>2, <2>3, <2>4, ZeroLocal
<1>6. z = [w \in Wires |-> z[w]]
  BY <1>1
<1> QED  BY <1>1, <1>5, <1>6 DEF IsZero

LEMMA ValueExists ==
  ASSUME WellFormed
  PROVE  \E z \in [Wires -> BOOLEAN] : IsValue(z)
<1> DEFINE n    == Count + Len(Gates)
           step == [w \in Wires |-> [h \in [0 .. w - 1 -> BOOLEAN] |-> ValueStep(h, w)]]
<1>1. n \in Nat /\ Wires = 0 .. n - 1
  BY DEF WellFormed
<1>2. ASSUME NEW w \in Wires, NEW h \in [0 .. w - 1 -> BOOLEAN]
      PROVE  ValueStep(h, w) \in BOOLEAN
  <2>1. Greater(w) \in BOOLEAN
    BY DEF Greater
  <2>2. (h[GateOf(w).left] /\ h[GateOf(w).right]) \in BOOLEAN
    OBVIOUS
  <2>3. (Odd({t \in GateOf(w).terms : h[t]}) # GateOf(w).constant) \in BOOLEAN
    OBVIOUS
  <2> QED  BY <2>1, <2>2, <2>3, Zenon DEF ValueStep
<1>3. \A w \in 0 .. n - 1 : step[w] \in [[0 .. w - 1 -> BOOLEAN] -> BOOLEAN]
  BY <1>1, <1>2
<1>4. PICK z \in [0 .. n - 1 -> BOOLEAN] : Follows(z, step, n)
  <2> HIDE DEF n, step
  <2> QED  BY <1>1, <1>3, RecursionExists
<1>5. ASSUME NEW w \in Wires  PROVE z[w] = ValueStep(z, w)
  <2> DEFINE h == [v \in 0 .. w - 1 |-> z[v]]
  <2>1. h \in [0 .. w - 1 -> BOOLEAN]
    <3>1. \A v \in 0 .. w - 1 : v \in 0 .. n - 1
      BY <1>1
    <3> HIDE DEF n
    <3> QED  BY <3>1
  <2>2. \A t \in 0 .. w - 1 : h[t] = z[t]
    OBVIOUS
  <2>3. z[w] = step[w][h]
    <3> HIDE DEF n, step
    <3> QED  BY <1>1, <1>4 DEF Follows
  <2> HIDE DEF h
  <2>4. step[w][h] = ValueStep(h, w)
    BY <2>1
  <2> QED  BY <2>2, <2>3, <2>4, ValueLocal
<1>6. z = [w \in Wires |-> z[w]]
  BY <1>1
<1> QED  BY <1>1, <1>5, <1>6 DEF IsValue

LEMMA ZeroIs ==
  ASSUME WellFormed
  PROVE  /\ Zero \in [Wires -> LabelSet] /\ IsZero(Zero)
         /\ \A w \in Wires : Zero[w] = ZeroStep(Zero, w)
<1>1. PICK z \in [Wires -> LabelSet] : IsZero(z)
  BY ZeroExists
<1>2. IsZero(Zero)
  BY <1>1, ZeroUnfold DEF IsZero
<1>3. Zero = z
  BY <1>1, <1>2, ZeroUnique
<1>4. \A w \in Wires : Zero[w] = ZeroStep(Zero, w)
  BY <1>2 DEF IsZero
<1> QED  BY <1>1, <1>2, <1>3, <1>4

LEMMA ValueIs ==
  ASSUME WellFormed
  PROVE  /\ Value \in [Wires -> BOOLEAN] /\ IsValue(Value)
         /\ \A w \in Wires : Value[w] = ValueStep(Value, w)
<1>1. PICK z \in [Wires -> BOOLEAN] : IsValue(z)
  BY ValueExists
<1>2. IsValue(Value)
  BY <1>1, ValueUnfold DEF IsValue
<1>3. Value = z
  BY <1>1, <1>2, ValueUnique
<1>4. \A w \in Wires : Value[w] = ValueStep(Value, w)
  BY <1>2 DEF IsValue
<1> QED  BY <1>1, <1>2, <1>3, <1>4

-----------------------------------------------------------------------------
(* The value of the output wire is the meaning of the predicate.            *)
LEMMA WireValues ==
  ASSUME WellFormed, NEW w \in Wires
  PROVE  /\ w < Count => Value[w] = Greater(w)
         /\ \A a, b : w >= Count /\ GateOf(w) = And(a, b) =>
              Value[w] = (Value[a] /\ Value[b])
         /\ \A S, c : w >= Count /\ GateOf(w) = Xor(S, c) =>
              Value[w] = (Odd({t \in S : Value[t]}) # c)
<1>1. Value[w] = ValueStep(Value, w) /\ w \in Int /\ Count \in Int
  BY ValueIs DEF WellFormed
<1>2. w < Count => Value[w] = Greater(w)
  BY <1>1 DEF ValueStep
<1>3. w >= Count => ~(w < Count)
  BY <1>1
<1>4. ASSUME NEW a, NEW b, w >= Count, GateOf(w) = And(a, b)
      PROVE  Value[w] = (Value[a] /\ Value[b])
  <2>1. GateOf(w).kind = "and" /\ GateOf(w).left = a /\ GateOf(w).right = b
    BY <1>4 DEF And
  <2> QED  BY <1>1, <1>3, <1>4, <2>1 DEF ValueStep
<1>5. ASSUME NEW S, NEW c, w >= Count, GateOf(w) = Xor(S, c)
      PROVE  Value[w] = (Odd({t \in S : Value[t]}) # c)
  <2>1. GateOf(w).kind = "xor" /\ GateOf(w).terms = S /\ GateOf(w).constant = c
    BY <1>5 DEF Xor
  <2>2. "xor" # "and"
    OBVIOUS
  <2> QED  BY <1>1, <1>3, <1>5, <2>1, <2>2 DEF ValueStep
<1> QED  BY <1>2, <1>4, <1>5

OrOfWires(v, a, b, c) ==
  /\ a # b /\ b # c /\ a # c
  /\ v[a] \in BOOLEAN /\ v[b] \in BOOLEAN
  /\ v[c] = (v[a] /\ v[b])

LEMMA OddOr ==
  ASSUME NEW v, NEW a, NEW b, NEW c, OrOfWires(v, a, b, c)
  PROVE  Odd({t \in {a, b, c} : v[t]}) <=> (v[a] \/ v[b])
<1> USE DEF OrOfWires
<1> DEFINE T == {t \in {a, b, c} : v[t]}
<1>0. Odd(T) \in BOOLEAN
  BY DEF Odd
<1>1. CASE v[a] /\ v[b]
  <2>1. T = {a, b, c}
    BY <1>1
  <2> QED  BY <1>0, <1>1, <2>1, OddSmall, Zenon
<1>2. CASE v[a] /\ ~v[b]
  <2>1. T = {a}
    BY <1>2
  <2> QED  BY <1>0, <1>2, <2>1, OddSmall, Zenon
<1>3. CASE ~v[a] /\ v[b]
  <2>1. T = {b}
    BY <1>3
  <2> QED  BY <1>0, <1>3, <2>1, OddSmall, Zenon
<1>4. CASE ~v[a] /\ ~v[b]
  <2>1. T = {}
    BY <1>4
  <2> QED  BY <1>0, <1>4, <2>1, OddSmall, Zenon
<1> QED  BY <1>1, <1>2, <1>3, <1>4

LEMMA FoldValues ==
  ASSUME ProblemOK, problem.type = "prune", problem.incumbent, NEW i \in 2 .. Count
  PROVE  Value[Folded(i)] = (Value[LeftOf(i)] \/ Value[RightOf(i)])
<1> DEFINE w == Folded(i)
           a == LeftOf(i)
           b == RightOf(i)
<1>1. WellFormed
  BY CircuitWellFormed
<1>2. /\ Count \in Nat /\ Len(Gates) = 2 * (Count - 1)
      /\ GateOf(w - 1) = And(a, b) /\ GateOf(w) = Xor({a, b, w - 1}, FALSE)
  BY PruneShape
<1>3. /\ w = Count + 2 * (i - 2) + 1 /\ a \in 0 .. w - 2 /\ b \in 0 .. w - 2 /\ a # b
      /\ w - 1 \in Nat /\ w - 1 >= Count
  BY <1>2, FoldedWires
<1>4. w \in Wires /\ w - 1 \in Wires /\ a \in Wires /\ b \in Wires /\ w >= Count
  BY <1>1, <1>2, <1>3 DEF WellFormed
<1>5. a # w - 1 /\ b # w - 1
  BY <1>2, <1>3
<1> HIDE DEF w, a, b
<1>6. Value[w - 1] = (Value[a] /\ Value[b])
  BY <1>1, <1>2, <1>3, <1>4, WireValues
<1>7. Value[w] = (Odd({t \in {a, b, w - 1} : Value[t]}) # FALSE)
  <2> DEFINE S == {a, b, w - 1}
  <2>1. w \in Wires /\ w >= Count /\ GateOf(w) = Xor(S, FALSE)
    BY <1>2, <1>4
  <2> HIDE DEF S
  <2>2. Value[w] = (Odd({t \in S : Value[t]}) # FALSE)
    BY <1>1, <2>1, WireValues
  <2> QED  BY <2>2 DEF S
<1>8. Value[a] \in BOOLEAN /\ Value[b] \in BOOLEAN
  BY <1>1, <1>4, ValueIs
<1>9. Odd({t \in {a, b, w - 1} : Value[t]}) <=> (Value[a] \/ Value[b])
  <2> DEFINE e == w - 1
  <2>1. a # b /\ b # e /\ a # e
    BY <1>3, <1>5
  <2>2. Value[e] = (Value[a] /\ Value[b])
    BY <1>6
  <2> HIDE DEF e
  <2>3. OrOfWires(Value, a, b, e)
    BY <1>8, <2>1, <2>2, Zenon DEF OrOfWires
  <2>4. Odd({t \in {a, b, e} : Value[t]}) <=> (Value[a] \/ Value[b])
    BY <2>3, OddOr, Zenon
  <2> QED  BY <2>4, Zenon DEF e
<1>10. Value[w] = (Value[a] \/ Value[b])
  <2> DEFINE o == Odd({t \in {a, b, w - 1} : Value[t]})
             x == Value[a]
             y == Value[b]
  <2>1. o \in BOOLEAN
    BY DEF Odd
  <2>2. x \in BOOLEAN /\ y \in BOOLEAN /\ (o <=> (x \/ y)) /\ Value[w] = (o # FALSE)
    BY <1>7, <1>8, <1>9, Zenon
  <2> HIDE DEF o, x, y
  <2>3. Value[w] = (x \/ y)
    BY <2>1, <2>2
  <2> QED  BY <2>3 DEF x, y
<1> QED  BY <1>10 DEF w, a, b

LEMMA FoldMeaning ==
  ASSUME ProblemOK, problem.type = "prune", problem.incumbent, NEW i \in 1 .. Count - 1
  PROVE  Value[Folded(i)] <=> \E j \in 1 .. i : Greater(j)
<1>1. WellFormed /\ Count \in Nat /\ Count >= 2
  BY CircuitWellFormed, PruneShape
<1>2. \A j \in 0 .. Count - 1 : j \in Wires /\ Value[j] = Greater(j)
  <2> SUFFICES ASSUME NEW j \in 0 .. Count - 1
               PROVE  j \in Wires /\ Value[j] = Greater(j)
    OBVIOUS
  <2>1. j \in Wires /\ j < Count
    BY <1>1 DEF WellFormed
  <2> QED  BY <1>1, <2>1, WireValues
<1> DEFINE Bad == {k \in 1 .. Count - 1 : ~(Value[Folded(k)] <=> \E j \in 1 .. k : Greater(j))}
<1>3. SUFFICES ASSUME Bad # {}  PROVE FALSE
  OBVIOUS
<1>4. PICK k \in Bad : \A j \in Bad : ~(j < k)
  <2>1. Bad \in SUBSET Nat
    OBVIOUS
  <2> HIDE DEF Bad
  <2> QED  BY <1>3, <2>1, Smallest
<1>5. k \in 1 .. Count - 1 /\ ~(Value[Folded(k)] <=> \E j \in 1 .. k : Greater(j))
  OBVIOUS
<1>6. CASE k = 1
  <2>1. Folded(k) = 1 /\ 1 \in 0 .. Count - 1 /\ 1 .. k = {1}
    BY <1>1, <1>6 DEF Folded
  <2>2. Value[Folded(k)] = Greater(1)
    BY <1>2, <2>1
  <2>3. (\E j \in 1 .. k : Greater(j)) <=> Greater(1)
    BY <2>1
  <2> QED  BY <1>5, <2>2, <2>3
<1>7. CASE k # 1
  <2>1. /\ k \in 2 .. Count /\ k \in 0 .. Count - 1 /\ k < Count
        /\ k - 1 \in 1 .. Count - 1 /\ k - 1 < k /\ 1 .. k = (1 .. k - 1) \cup {k}
    BY <1>1, <1>5, <1>7
  <2>2. LeftOf(k) = Folded(k - 1) /\ RightOf(k) = k
    BY <2>1 DEF LeftOf, RightOf
  <2>3. Value[Folded(k)] = (Value[Folded(k - 1)] \/ Value[k])
    BY <2>1, <2>2, FoldValues
  <2>4. Value[Folded(k - 1)] <=> \E j \in 1 .. k - 1 : Greater(j)
    BY <1>4, <2>1
  <2>5. Value[k] = Greater(k)
    BY <1>2, <2>1
  <2>6. (\E j \in 1 .. k : Greater(j)) <=> (\E j \in 1 .. k - 1 : Greater(j)) \/ Greater(k)
    BY <2>1
  <2> QED  BY <1>5, <2>3, <2>4, <2>5, <2>6
<1> QED  BY <1>6, <1>7

LEMMA OddOne ==
  ASSUME NEW a, NEW v, v[a] \in BOOLEAN
  PROVE  Odd({t \in {a} : v[t]}) = v[a]
<1> DEFINE T == {t \in {a} : v[t]}
<1>0. Odd(T) \in BOOLEAN
  BY DEF Odd
<1>1. CASE v[a]
  <2>1. T = {a}
    BY <1>1
  <2> QED  BY <1>0, <1>1, <2>1, OddSmall, Zenon
<1>2. CASE ~v[a]
  <2>1. T = {}
    BY <1>2
  <2> QED  BY <1>0, <1>2, <2>1, OddSmall, Zenon
<1> QED  BY <1>1, <1>2

LEMMA OddTwo ==
  ASSUME NEW a, NEW b, a # b, NEW v, v[a] \in BOOLEAN, v[b] \in BOOLEAN
  PROVE  Odd({t \in {a, b} : v[t]}) = (v[a] # v[b])
<1> DEFINE T == {t \in {a, b} : v[t]}
<1>0. Odd(T) \in BOOLEAN
  BY DEF Odd
<1>1. CASE v[a] /\ v[b]
  <2>1. T = {a, b}
    BY <1>1
  <2> QED  BY <1>0, <1>1, <2>1, OddSmall, Zenon
<1>2. CASE v[a] /\ ~v[b]
  <2>1. T = {a}
    BY <1>2
  <2> QED  BY <1>0, <1>2, <2>1, OddSmall, Zenon
<1>3. CASE ~v[a] /\ v[b]
  <2>1. T = {b}
    BY <1>3
  <2> QED  BY <1>0, <1>3, <2>1, OddSmall, Zenon
<1>4. CASE ~v[a] /\ ~v[b]
  <2>1. T = {}
    BY <1>4
  <2> QED  BY <1>0, <1>4, <2>1, OddSmall, Zenon
<1> QED  BY <1>1, <1>2, <1>3, <1>4

LEMMA XorOneValue ==
  ASSUME WellFormed, NEW w \in Wires, w >= Count, NEW c \in BOOLEAN,
         NEW a \in Wires, GateOf(w) = Xor({a}, c)
  PROVE  Value[w] <=> ~(Value[a] <=> c)
<1>0. Value[a] \in BOOLEAN
  BY ValueIs
<1>1. Value[w] = (Odd({t \in {a} : Value[t]}) # c)
  <2> DEFINE S == {a}
  <2>1. GateOf(w) = Xor(S, c)
    OBVIOUS
  <2> HIDE DEF S
  <2>2. Value[w] = (Odd({t \in S : Value[t]}) # c)
    BY <2>1, WireValues
  <2> QED  BY <2>2 DEF S
<1>2. Odd({t \in {a} : Value[t]}) = Value[a]
  <2> DEFINE v == Value
  <2>1. v[a] \in BOOLEAN
    BY <1>0
  <2> HIDE DEF v
  <2>2. Odd({t \in {a} : v[t]}) = v[a]
    BY <2>1, OddOne
  <2> QED  BY <2>2 DEF v
<1> QED  BY <1>0, <1>1, <1>2, Zenon

LEMMA XorTwoValue ==
  ASSUME WellFormed, NEW w \in Wires, w >= Count, NEW c \in BOOLEAN,
         NEW a \in Wires, NEW b \in Wires, a # b, GateOf(w) = Xor({a, b}, c)
  PROVE  Value[w] <=> ~((Value[a] <=> ~Value[b]) <=> c)
<1>0. Value[a] \in BOOLEAN /\ Value[b] \in BOOLEAN
  BY ValueIs
<1>1. Value[w] = (Odd({t \in {a, b} : Value[t]}) # c)
  <2> DEFINE S == {a, b}
  <2>1. GateOf(w) = Xor(S, c)
    OBVIOUS
  <2> HIDE DEF S
  <2>2. Value[w] = (Odd({t \in S : Value[t]}) # c)
    BY <2>1, WireValues
  <2> QED  BY <2>2 DEF S
<1>2. Odd({t \in {a, b} : Value[t]}) = (Value[a] # Value[b])
  <2> DEFINE v == Value
  <2>1. v[a] \in BOOLEAN /\ v[b] \in BOOLEAN
    BY <1>0
  <2> HIDE DEF v
  <2>2. Odd({t \in {a, b} : v[t]}) = (v[a] # v[b])
    BY <2>1, OddTwo
  <2> QED  BY <2>2 DEF v
<1> QED  BY <1>0, <1>1, <1>2, Zenon

LEMMA PruneMeaning ==
  ASSUME ProblemOK, problem.type = "prune"
  PROVE  Value[Output] <=> Meaning
<1>1. WellFormed
  BY CircuitWellFormed
<1>2. 0 \in Wires /\ Value[0] = Greater(0)
  <2>1. 0 \in Wires /\ 0 < Count
    BY <1>1 DEF WellFormed
  <2> QED  BY <1>1, <2>1, WireValues
<1>3. CASE ~problem.incumbent
  <2>1. Gates = <<>> /\ Output = 0
    BY <1>3 DEF Gates, Output
  <2> QED  BY <1>2, <1>3, <2>1, PruneComparisons DEF Meaning
<1>4. CASE problem.incumbent
  <2>1. Count \in Nat /\ Count >= 2 /\ Len(Gates) = 2 * (Count - 1) /\ Gates # <<>>
    BY <1>4, PruneShape
  <2>2. /\ Count \in 2 .. Count /\ Count - 1 \in 1 .. Count - 1
        /\ LeftOf(Count) = 0 /\ RightOf(Count) = Folded(Count - 1)
    BY <2>1 DEF LeftOf, RightOf
  <2>3. Output = Folded(Count)
    BY <2>1 DEF Output, Folded
  <2>4. Value[Folded(Count)] = (Value[0] \/ Value[Folded(Count - 1)])
    BY <1>4, <2>2, FoldValues
  <2>5. Value[Folded(Count - 1)] <=> \E j \in 1 .. Count - 1 : Greater(j)
    BY <1>4, <2>2, FoldMeaning
  <2>6. /\ Greater(0) <=> problem.linear < 0
        /\ DOMAIN problem.lowers = 1 .. Count - 1
        /\ \A i \in 1 .. Count - 1 : Greater(i) <=> problem.lowers[i] > problem.best
    BY <1>4, PruneComparisons
  <2>7. (\E j \in 1 .. Count - 1 : Greater(j))
          <=> \E k \in DOMAIN problem.lowers : problem.lowers[k] > problem.best
    BY <2>6
  <2>8. Meaning <=> \/ problem.linear < 0
                    \/ \E k \in DOMAIN problem.lowers : problem.lowers[k] > problem.best
    BY <1>4 DEF Meaning
  <2> QED  BY <1>2, <2>3, <2>4, <2>5, <2>6, <2>7, <2>8
<1> QED  BY <1>3, <1>4

LEMMA AcceptMeaning ==
  ASSUME ProblemOK, problem.type # "prune"
  PROVE  Value[Output] <=> Meaning
<1>1. WellFormed
  BY CircuitWellFormed
<1>2. CASE ~problem.incumbent
  <2>1. /\ Count = 2 /\ Len(Gates) = 2 /\ Gates # <<>>
        /\ GateOf(2) = Xor({0}, TRUE) /\ GateOf(3) = And(2, 1)
    BY <1>2, AcceptShape
  <2>2. Output = 3 /\ Wires = 0 .. 3
    BY <2>1 DEF Output, Wires
  <2>3. Value[0] = Greater(0) /\ Value[1] = Greater(1)
    BY <1>1, <2>1, <2>2, WireValues
  <2>4. Value[2] <=> ~(Value[0] <=> TRUE)
    <3>1. 2 \in Wires /\ 0 \in Wires /\ 2 >= Count
      BY <2>1, <2>2
    <3> QED  BY <1>1, <2>1, <3>1, XorOneValue
  <2>5. Value[3] = (Value[2] /\ Value[1])
    BY <1>1, <2>1, <2>2, WireValues
  <2>6. Value[0] \in BOOLEAN /\ Value[1] \in BOOLEAN
    BY <1>1, <2>2, ValueIs
  <2>7. Value[Output] <=> ~Greater(0) /\ Greater(1)
    BY <2>2, <2>3, <2>4, <2>5, <2>6, Zenon
  <2>8. /\ problem.linear \in Int /\ problem.c3 \in Int
        /\ Greater(0) <=> problem.linear < 0
        /\ Greater(1) <=> problem.c3 > 0
    BY AcceptComparisons
  <2>9. Meaning <=> problem.linear >= 0 /\ problem.c3 > 0
    BY <1>2 DEF Meaning
  <2> QED  BY <2>7, <2>8, <2>9
<1>3. CASE problem.incumbent
  <2>1. /\ Count = 5 /\ Len(Gates) = 6 /\ Gates # <<>>
        /\ GateOf(5) = Xor({0}, TRUE) /\ GateOf(6) = And(5, 1)
        /\ GateOf(7) = Xor({2, 3}, TRUE) /\ GateOf(8) = And(7, 4)
        /\ GateOf(9) = Xor({2, 8}, FALSE) /\ GateOf(10) = And(6, 9)
    BY <1>3, AcceptShape
  <2>2. Output = 10 /\ Wires = 0 .. 10
    BY <2>1 DEF Output, Wires
  <2>3. /\ Value[0] = Greater(0) /\ Value[1] = Greater(1) /\ Value[2] = Greater(2)
        /\ Value[3] = Greater(3) /\ Value[4] = Greater(4)
    BY <1>1, <2>1, <2>2, WireValues
  <2>4. Value[5] <=> ~(Value[0] <=> TRUE)
    <3>1. 5 \in Wires /\ 0 \in Wires /\ 5 >= Count
      BY <2>1, <2>2
    <3> QED  BY <1>1, <2>1, <3>1, XorOneValue
  <2>5. Value[7] <=> ~((Value[2] <=> ~Value[3]) <=> TRUE)
    <3>1. 7 \in Wires /\ 2 \in Wires /\ 3 \in Wires /\ 2 # 3 /\ 7 >= Count
      BY <2>1, <2>2
    <3>2. ASSUME NEW w, w = 7, NEW a, a = 2, NEW b, b = 3, NEW c, c = TRUE
          PROVE  Value[w] <=> ~((Value[a] <=> ~Value[b]) <=> c)
      <4>1. /\ w \in Wires /\ a \in Wires /\ b \in Wires /\ a # b /\ w >= Count /\ c \in BOOLEAN
        BY <3>1, <3>2
      <4>2. GateOf(w) = Xor({a, b}, c)
        BY <2>1, <3>2, Zenon
      <4> QED  BY <1>1, <4>1, <4>2, XorTwoValue
    <3> QED  BY <3>2, Zenon
  <2>6. Value[9] <=> ~((Value[2] <=> ~Value[8]) <=> FALSE)
    <3>1. 9 \in Wires /\ 2 \in Wires /\ 8 \in Wires /\ 2 # 8 /\ 9 >= Count
      BY <2>1, <2>2
    <3>2. ASSUME NEW w, w = 9, NEW a, a = 2, NEW b, b = 8, NEW c, c = FALSE
          PROVE  Value[w] <=> ~((Value[a] <=> ~Value[b]) <=> c)
      <4>1. /\ w \in Wires /\ a \in Wires /\ b \in Wires /\ a # b /\ w >= Count /\ c \in BOOLEAN
        BY <3>1, <3>2
      <4>2. GateOf(w) = Xor({a, b}, c)
        BY <2>1, <3>2, Zenon
      <4> QED  BY <1>1, <4>1, <4>2, XorTwoValue
    <3> QED  BY <3>2, Zenon
  <2>7. /\ Value[6] = (Value[5] /\ Value[1]) /\ Value[8] = (Value[7] /\ Value[4])
        /\ Value[10] = (Value[6] /\ Value[9])
    BY <1>1, <2>1, <2>2, WireValues
  <2>8. \A w \in 0 .. 10 : Value[w] \in BOOLEAN
    BY <1>1, <2>2, ValueIs
  <2>9. /\ {problem.linear, problem.c3, problem.cost, problem.c12,
            problem.best, problem.best12} \subseteq Int
        /\ Greater(0) <=> problem.linear < 0
        /\ Greater(1) <=> problem.c3 > 0
        /\ Greater(2) <=> problem.best > problem.cost
        /\ Greater(3) <=> problem.cost > problem.best
        /\ Greater(4) <=> problem.best12 > problem.c12
    BY <1>3, AcceptComparisons
  <2>10. Value[7] <=> problem.cost = problem.best
    <3>1. /\ Value[2] \in BOOLEAN /\ Value[3] \in BOOLEAN
      BY <2>8
    <3>2. Value[7] <=> (Value[2] <=> Value[3])
      BY <2>5, <3>1, Zenon
    <3> QED  BY <2>3, <2>9, <3>2
  <2>11. Value[8] <=> problem.cost = problem.best /\ problem.best12 > problem.c12
    BY <2>3, <2>7, <2>9, <2>10
  <2>12. Value[9] <=> ~(Value[2] <=> Value[8])
    <3>1. /\ Value[2] \in BOOLEAN /\ Value[8] \in BOOLEAN
      BY <2>8
    <3> QED  BY <2>6, <3>1, Zenon
  <2>13. Value[9] <=> \/ problem.best > problem.cost
                      \/ problem.cost = problem.best /\ problem.best12 > problem.c12
    BY <2>3, <2>9, <2>11, <2>12
  <2>14. Value[6] <=> ~Greater(0) /\ Greater(1)
    <3>1. Value[0] \in BOOLEAN /\ Value[1] \in BOOLEAN
      BY <2>8
    <3> QED  BY <2>3, <2>4, <2>7, <3>1, Zenon
  <2>15. Value[Output] <=> Value[6] /\ Value[9]
    BY <2>2, <2>7
  <2>16. Meaning <=> /\ problem.linear >= 0 /\ problem.c3 > 0
                     /\ \/ problem.cost < problem.best
                        \/ /\ problem.cost = problem.best
                           /\ problem.c12 < problem.best12
    BY <1>3 DEF Meaning
  <2> QED  BY <2>9, <2>13, <2>14, <2>15, <2>16
<1> QED  BY <1>2, <1>3

LEMMA OutputMeaning == ASSUME ProblemOK  PROVE Value[Output] = Meaning
<1>1. Value[Output] <=> Meaning
  BY PruneMeaning, AcceptMeaning
<1>2. Value[Output] \in BOOLEAN
  BY CircuitWellFormed, ValueIs DEF WellFormed
<1>3. Meaning \in BOOLEAN
  BY DEF Meaning
<1> QED  BY <1>1, <1>2, <1>3

-----------------------------------------------------------------------------
(* Labels stand for values: they have the strings of the label for 0, and   *)
(* contain delta when it does not and the value is 1, or the reverse.       *)
LEMMA SameParts ==
  ASSUME NEW a \in LabelSet, NEW b \in LabelSet,
         a.strings = b.strings, a.delta <=> b.delta
  PROVE  a = b
BY DEF LabelSet

LEMMA LabelParts ==
  ASSUME WellFormed, NEW w \in Wires, NEW b \in BOOLEAN
  PROVE  /\ Zero[w] \in LabelSet /\ Label(w, b) \in LabelSet
         /\ Label(w, b).strings = Zero[w].strings
         /\ Label(w, b).delta <=> ~(Zero[w].delta <=> b)
<1>1. Zero[w] \in LabelSet
  BY ZeroIs
<1>2. CASE b
  <2>1. Label(w, b) = Flip(Zero[w])
    BY <1>2 DEF Label
  <2>2. /\ Flip(Zero[w]) \in LabelSet /\ Flip(Zero[w]).strings = Zero[w].strings
        /\ Flip(Zero[w]).delta = ~Zero[w].delta
    BY <1>1, FlipType
  <2>3. Zero[w].delta \in BOOLEAN
    BY <1>1 DEF LabelSet
  <2> QED  BY <1>1, <1>2, <2>1, <2>2, <2>3
<1>3. CASE ~b
  <2>1. Label(w, b) = Zero[w]
    BY <1>3 DEF Label
  <2>2. Zero[w].delta \in BOOLEAN
    BY <1>1 DEF LabelSet
  <2> QED  BY <1>1, <1>3, <2>1, <2>2
<1> QED  BY <1>2, <1>3

LEMMA XorParts ==
  ASSUME NEW f, NEW S
  PROVE  /\ XorOf(f, S).strings = {v \in UNION {f[t].strings : t \in S} :
                                      Odd({t \in S : v \in f[t].strings})}
         /\ XorOf(f, S).delta = Odd({t \in S : f[t].delta})
<1> DEFINE P == {v \in UNION {f[t].strings : t \in S} : Odd({t \in S : v \in f[t].strings})}
           D == Odd({t \in S : f[t].delta})
<1>1. XorOf(f, S) = [strings |-> P, delta |-> D]
  BY DEF XorOf
<1> HIDE DEF P, D
<1>2. XorOf(f, S).strings = P /\ XorOf(f, S).delta = D
  BY <1>1
<1> QED  BY <1>2 DEF P, D

LEMMA SameStrings ==
  ASSUME NEW f, NEW g, NEW S, \A t \in S : f[t].strings = g[t].strings
  PROVE  XorOf(f, S).strings = XorOf(g, S).strings
<1>1. \A v : {t \in S : v \in f[t].strings} = {t \in S : v \in g[t].strings}
  OBVIOUS
<1>2. {f[t].strings : t \in S} = {g[t].strings : t \in S}
  OBVIOUS
<1>3. UNION {f[t].strings : t \in S} = UNION {g[t].strings : t \in S}
  BY <1>2
<1>4. {v \in UNION {f[t].strings : t \in S} : Odd({t \in S : v \in f[t].strings})}
        = {v \in UNION {g[t].strings : t \in S} : Odd({t \in S : v \in g[t].strings})}
  BY <1>1, <1>3
<1>5. XorOf(f, S).strings
        = {v \in UNION {f[t].strings : t \in S} : Odd({t \in S : v \in f[t].strings})}
  BY XorParts
<1>6. XorOf(g, S).strings
        = {v \in UNION {g[t].strings : t \in S} : Odd({t \in S : v \in g[t].strings})}
  BY XorParts
<1> QED  BY <1>4, <1>5, <1>6

LEMMA BelowFinite ==
  ASSUME NEW n \in Int, NEW S \in SUBSET (0 .. n)
  PROVE  IsFiniteSet(S)
<1>1. IsFiniteSet(0 .. n)
  BY FS_Interval
<1> QED  BY <1>1, FS_Subset

Encoded(f, S) == \A t \in S : f[t] = Label(t, Value[t])

LEMMA XorEncodes ==
  ASSUME WellFormed, NEW n \in Int, NEW S \in SUBSET (0 .. n), S \subseteq Wires,
         NEW f, Encoded(f, S)
  PROVE  /\ XorOf(f, S).strings = XorOf(Zero, S).strings
         /\ XorOf(f, S).delta <=> ~(XorOf(Zero, S).delta <=> Odd({t \in S : Value[t]}))
<1> DEFINE A == {t \in S : Zero[t].delta}
           B == {t \in S : Value[t]}
           C == {t \in S : f[t].delta}
<1>1. ASSUME NEW t \in S
      PROVE  /\ f[t].strings = Zero[t].strings
             /\ f[t].delta <=> ~(Zero[t].delta <=> Value[t])
  <2>1. t \in Wires /\ Value[t] \in BOOLEAN
    BY ValueIs
  <2>2. f[t] = Label(t, Value[t])
    BY DEF Encoded
  <2> QED  BY <2>1, <2>2, LabelParts
<1>2. XorOf(f, S).strings = XorOf(Zero, S).strings
  BY <1>1, SameStrings
<1>3. C = (A \ B) \cup (B \ A)
  BY <1>1
<1>4. IsFiniteSet(A) /\ IsFiniteSet(B)
  <2>1. A \in SUBSET (0 .. n) /\ B \in SUBSET (0 .. n)
    OBVIOUS
  <2> HIDE DEF A, B
  <2> QED  BY <2>1, BelowFinite
<1>5. XorOf(f, S).delta = Odd(C) /\ XorOf(Zero, S).delta = Odd(A)
  <2>1. XorOf(f, S).delta = Odd(C)
    BY XorParts
  <2>2. XorOf(Zero, S).delta = Odd(A)
    BY XorParts
  <2> QED  BY <2>1, <2>2
<1>6. Odd(C) <=> (Odd(A) # Odd(B))
  <2> HIDE DEF A, B, C
  <2>1. Odd((A \ B) \cup (B \ A)) <=> (Odd(A) # Odd(B))
    BY <1>4, OddDiffers
  <2> QED  BY <1>3, <2>1
<1>7. Odd(A) \in BOOLEAN /\ Odd(B) \in BOOLEAN
  BY DEF Odd
<1>8. Odd(C) <=> ~(Odd(A) <=> Odd(B))
  <2> HIDE DEF A, B, C
  <2> QED  BY <1>6, <1>7, Zenon
<1> QED
  <2>1. XorOf(f, S).delta <=> ~(XorOf(Zero, S).delta <=> Odd(B))
    <3> HIDE DEF A, B, C
    <3> QED  BY <1>5, <1>8, Zenon
  <2> QED  BY <1>2, <2>1

LEMMA XorGateEncodes ==
  ASSUME WellFormed, NEW w \in Wires, w >= Count, GateOf(w).kind = "xor",
         NEW f, Encoded(f, 0 .. w - 1)
  PROVE  XorOf(f, GateOf(w).terms) = Label(w, Value[w])
<1> DEFINE S == GateOf(w).terms
           c == GateOf(w).constant
           o == Odd({t \in S : Value[t]})
           s == XorOf(Zero, S)
<1>1. w \in Nat /\ Count \in Nat /\ ~(w < Count) /\ GateOf(w).kind # "and"
  BY DEF WellFormed
<1>2. S \in SUBSET (0 .. w - 1) /\ c \in BOOLEAN /\ S \subseteq Wires /\ w - 1 \in Int
  <2>1. IsGate(GateOf(w), w)
    BY DEF WellFormed
  <2>2. S \in SUBSET (0 .. w - 1) /\ c \in BOOLEAN
    BY <1>1, <2>1 DEF IsGate
  <2>3. 0 .. w - 1 \subseteq Wires
    BY <1>1 DEF WellFormed
  <2> QED  BY <1>1, <2>2, <2>3
<1>3. Encoded(f, S)
  BY <1>2 DEF Encoded
<1>4. Zero[w] = IF c THEN Flip(s) ELSE s
  <2>1. Zero[w] = ZeroStep(Zero, w)
    BY ZeroIs
  <2> QED  BY <1>1, <2>1 DEF ZeroStep
<1>5. Value[w] <=> ~(o <=> c)
  <2>1. Value[w] = ValueStep(Value, w)
    BY ValueIs
  <2>2. Value[w] = (o # c)
    BY <1>1, <2>1 DEF ValueStep
  <2>3. o \in BOOLEAN
    BY DEF Odd
  <2> HIDE DEF o
  <2> QED  BY <1>2, <2>2, <2>3, Zenon
<1>6. s \in LabelSet /\ XorOf(f, S) \in LabelSet
  <2>1. \A t \in S : Zero[t] \in LabelSet
    BY <1>2, ZeroIs
  <2>2. \A t \in S : f[t] \in LabelSet
    <3> SUFFICES ASSUME NEW t \in S  PROVE f[t] \in LabelSet
      OBVIOUS
    <3>1. t \in Wires /\ Value[t] \in BOOLEAN
      BY <1>2, ValueIs
    <3> QED  BY <1>3, <3>1, LabelParts DEF Encoded
  <2> HIDE DEF S
  <2> QED  BY <2>1, <2>2, XorType
<1>7. XorOf(f, S).strings = s.strings /\ (XorOf(f, S).delta <=> ~(s.delta <=> o))
  <2> HIDE DEF S
  <2> QED  BY <1>2, <1>3, XorEncodes
<1>8. /\ Flip(s) \in LabelSet /\ Flip(s).strings = s.strings /\ Flip(s).delta = ~s.delta
  BY <1>6, FlipType
<1>9. Zero[w].strings = s.strings /\ (Zero[w].delta <=> ~(s.delta <=> c))
  <2>1. s.delta \in BOOLEAN
    BY <1>6 DEF LabelSet
  <2> HIDE DEF s, c
  <2>2. CASE c
    BY <1>4, <1>8, <2>1, <2>2
  <2>3. CASE ~c
    BY <1>4, <2>1, <2>3
  <2> QED  BY <2>2, <2>3
<1>10. Value[w] \in BOOLEAN
  BY ValueIs
<1>11. /\ Label(w, Value[w]) \in LabelSet /\ Label(w, Value[w]).strings = s.strings
       /\ Label(w, Value[w]).delta <=> ~(Zero[w].delta <=> Value[w])
  BY <1>9, <1>10, LabelParts
<1>12. XorOf(f, S).delta <=> Label(w, Value[w]).delta
  <2> HIDE DEF S, s, o, c
  <2> QED  BY <1>5, <1>7, <1>9, <1>11
<1>13. XorOf(f, S) = Label(w, Value[w])
  <2> HIDE DEF S, s
  <2> QED  BY <1>6, <1>7, <1>11, <1>12, SameParts
<1> QED  BY <1>13

(* The last bits of the labels for 0 and 1 differ, so a pair of last bits   *)
(* names one row.                                                           *)
LEMMA BitsDiffer ==
  ASSUME WellFormed, NEW w \in Wires, NEW a \in BOOLEAN, NEW b \in BOOLEAN,
         LastBit(Label(w, a)) = LastBit(Label(w, b))
  PROVE  a = b
<1> DEFINE o == Odd({v \in Zero[w].strings : colour[v]})
<1>1. o \in BOOLEAN
  BY DEF Odd
<1>2. ASSUME NEW c \in BOOLEAN
      PROVE  LastBit(Label(w, c)) <=> ~(o <=> ~(Zero[w].delta <=> c))
  <2>1. Label(w, c).strings = Zero[w].strings /\ (Label(w, c).delta <=> ~(Zero[w].delta <=> c))
        /\ Label(w, c).delta \in BOOLEAN
    BY LabelParts DEF LabelSet
  <2>2. LastBit(Label(w, c)) = (o # Label(w, c).delta)
    BY <2>1 DEF LastBit
  <2> HIDE DEF o
  <2>3. LastBit(Label(w, c)) <=> ~(o <=> Label(w, c).delta)
    BY <1>1, <2>1, <2>2, Zenon
  <2> QED  BY <2>1, <2>3
<1>3. LastBit(Label(w, a)) <=> LastBit(Label(w, b))
  OBVIOUS
<1> HIDE DEF o
<1> QED  BY <1>2, <1>3

AndValue(f, table, w) ==
  LET gate == GateOf(w)
      row  == CHOOSE r \in table : r.at = <<LastBit(f[gate.left]), LastBit(f[gate.right])>>
  IN  IF row.pad = <<f[gate.left], f[gate.right], AndIndex(w)>> THEN row.hides ELSE Garbage

Row(w, a, b) ==
  [at    |-> <<LastBit(Label(GateOf(w).left, a)), LastBit(Label(GateOf(w).right, b))>>,
   pad   |-> <<Label(GateOf(w).left, a), Label(GateOf(w).right, b), AndIndex(w)>>,
   hides |-> Label(w, a /\ b)]

LEMMA TableRows == \A w : Table(w) = {Row(w, a, b) : a \in BOOLEAN, b \in BOOLEAN}
BY DEF Table, Row

LEMMA RowOpens ==
  ASSUME WellFormed, NEW w \in Wires, w >= Count, GateOf(w).kind = "and",
         NEW f, Encoded(f, 0 .. w - 1)
  PROVE  AndValue(f, Table(w), w) = Label(w, Value[w])
<1> DEFINE l == GateOf(w).left
           r == GateOf(w).right
           x == Value[l]
           y == Value[r]
           at(a, b) == <<LastBit(Label(l, a)), LastBit(Label(r, b))>>
<1>1. w \in Nat /\ Count \in Nat /\ ~(w < Count)
  BY DEF WellFormed
<1>2. l \in 0 .. w - 1 /\ r \in 0 .. w - 1 /\ l \in Wires /\ r \in Wires
  <2>1. IsGate(GateOf(w), w)
    BY DEF WellFormed
  <2>2. l \in 0 .. w - 1 /\ r \in 0 .. w - 1
    BY <1>1, <2>1 DEF IsGate
  <2>3. 0 .. w - 1 \subseteq Wires
    BY <1>1 DEF WellFormed
  <2> QED  BY <2>2, <2>3
<1>3. x \in BOOLEAN /\ y \in BOOLEAN
  BY <1>2, ValueIs
<1>4. f[l] = Label(l, x) /\ f[r] = Label(r, y)
  BY <1>2 DEF Encoded
<1>5. Value[w] = (x /\ y)
  <2>1. Value[w] = ValueStep(Value, w)
    BY ValueIs
  <2> QED  BY <1>1, <2>1 DEF ValueStep
<1>6. \A a, b \in BOOLEAN :
        /\ Row(w, a, b).at = at(a, b)
        /\ Row(w, a, b).pad = <<Label(l, a), Label(r, b), AndIndex(w)>>
        /\ Row(w, a, b).hides = Label(w, a /\ b)
  BY DEF Row
<1> HIDE DEF l, r, x, y, at
<1>7. \A a, b \in BOOLEAN : at(a, b) = at(x, y) => a = x /\ b = y
  <2> SUFFICES ASSUME NEW a \in BOOLEAN, NEW b \in BOOLEAN, at(a, b) = at(x, y)
               PROVE  a = x /\ b = y
    OBVIOUS
  <2>1. /\ LastBit(Label(l, a)) = LastBit(Label(l, x))
        /\ LastBit(Label(r, b)) = LastBit(Label(r, y))
    BY DEF at
  <2> QED  BY <1>2, <1>3, <2>1, BitsDiffer
<1> DEFINE row == CHOOSE q \in Table(w) : q.at = at(x, y)
<1>8. row = Row(w, x, y)
  <2>1. Row(w, x, y) \in Table(w) /\ Row(w, x, y).at = at(x, y)
    BY <1>3, <1>6, TableRows
  <2>2. row \in Table(w) /\ row.at = at(x, y)
    BY <2>1
  <2> HIDE DEF row
  <2>3. PICK a \in BOOLEAN, b \in BOOLEAN : row = Row(w, a, b)
    BY <2>2, TableRows
  <2>4. at(a, b) = at(x, y)
    BY <1>6, <2>2, <2>3
  <2>5. a = x /\ b = y
    BY <1>7, <2>4
  <2> QED  BY <2>3, <2>5
<1>9. AndValue(f, Table(w), w)
        = IF row.pad = <<f[l], f[r], AndIndex(w)>> THEN row.hides ELSE Garbage
  <2> DEFINE pick(e) == CHOOSE q \in Table(w) : q.at = e
  <2>1. AndValue(f, Table(w), w)
          = LET p == pick(<<LastBit(f[l]), LastBit(f[r])>>)
            IN  IF p.pad = <<f[l], f[r], AndIndex(w)>> THEN p.hides ELSE Garbage
    BY Zenon DEF AndValue, l, r
  <2>2. at(x, y) = <<LastBit(f[l]), LastBit(f[r])>>
    BY <1>4 DEF at
  <2>3. row = pick(at(x, y))
    OBVIOUS
  <2> HIDE DEF pick, row
  <2> QED  BY <2>1, <2>2, <2>3, Zenon
<1> HIDE DEF row
<1>10. row.pad = <<f[l], f[r], AndIndex(w)>> /\ row.hides = Label(w, x /\ y)
  BY <1>3, <1>4, <1>6, <1>8
<1>11. Label(w, x /\ y) = Label(w, Value[w])
  BY <1>5
<1> QED  BY <1>9, <1>10, <1>11

-----------------------------------------------------------------------------
(* No step changes the inputs or the random strings, so circuit, labels and *)
(* tables stay what they are.                                               *)
LEMMA CircuitFrozen ==
  ASSUME UNCHANGED problem
  PROVE  /\ Comparisons' = Comparisons /\ Count' = Count /\ Gates' = Gates
         /\ Wires' = Wires /\ Output' = Output
         /\ \A w : GateOf(w)' = GateOf(w) /\ Greater(w)' = Greater(w)
<1>1. Comparisons' = Comparisons
  BY DEF Comparisons
<1>2. Count' = Count /\ \A w : Greater(w)' = Greater(w)
  BY <1>1 DEF Count, Greater
<1>3. \A i : Folded(i)' = Folded(i)
  BY <1>2 DEF Folded
<1>4. PruneGates' = PruneGates
  BY <1>2, <1>3 DEF PruneGates
<1>5. AcceptGates' = AcceptGates
  BY DEF AcceptGates
<1>6. Gates' = Gates
  BY <1>4, <1>5 DEF Gates
<1>7. Wires' = Wires /\ Output' = Output /\ \A w : GateOf(w)' = GateOf(w)
  BY <1>2, <1>6 DEF Wires, Output, GateOf
<1> QED  BY <1>1, <1>2, <1>6, <1>7

LEMMA ZeroKept == WellFormed' => IsZero(Zero)'
<1>1. WellFormed => IsZero(Zero)
  BY ZeroIs
<1> QED  BY <1>1, PTL

LEMMA ValueKept == WellFormed' => IsValue(Value)'
<1>1. WellFormed => IsValue(Value)
  BY ValueIs
<1> QED  BY <1>1, PTL

LEMMA WiresFrozen ==
  ASSUME WellFormed, UNCHANGED problem
  PROVE  /\ Zero' = Zero /\ Value' = Value
         /\ \A w, b : Label(w, b)' = Label(w, b)
<1>1. /\ Count' = Count /\ Gates' = Gates /\ Wires' = Wires /\ Output' = Output
      /\ \A w : GateOf(w)' = GateOf(w) /\ Greater(w)' = Greater(w)
  BY CircuitFrozen
<1>2. WellFormed'
  BY <1>1 DEF WellFormed, IsGate
<1>3. IsZero(Zero') /\ IsValue(Value')
  <2>1. Zero' = [w \in Wires |-> ZeroStep(Zero', w)]
    BY <1>1, <1>2, ZeroKept DEF IsZero, ZeroStep
  <2>2. Value' = [w \in Wires |-> ValueStep(Value', w)]
    BY <1>1, <1>2, ValueKept DEF IsValue, ValueStep
  <2> QED  BY <2>1, <2>2 DEF IsZero, IsValue
<1>4. Zero' = Zero
  BY <1>3, ZeroIs, ZeroUnique
<1>5. Value' = Value
  BY <1>3, ValueIs, ValueUnique
<1>6. \A w, b : Label(w, b)' = Label(w, b)
  BY <1>4 DEF Label
<1> QED  BY <1>4, <1>5, <1>6

LEMMA TablesFrozen ==
  ASSUME WellFormed, UNCHANGED <<problem, colour>>
  PROVE  /\ AndWires' = AndWires
         /\ \A w : Table(w)' = Table(w)
<1>1. /\ Count' = Count /\ Wires' = Wires /\ \A w : GateOf(w)' = GateOf(w)
      /\ \A w, b : Label(w, b)' = Label(w, b)
  BY CircuitFrozen, WiresFrozen
<1>2. AndWires' = AndWires /\ \A w : AndIndex(w)' = AndIndex(w)
  BY <1>1 DEF AndWires, AndIndex
<1>3. \A w, b : LastBit(Label(w, b))' = LastBit(Label(w, b))
  BY <1>1 DEF LastBit
<1>4. \A w, a, b : Row(w, a, b)' = Row(w, a, b)
  BY <1>1, <1>2, <1>3 DEF Row
<1>5. \A w : Table(w)' = Table(w)
  <2>1. \A w : Table(w)' = {Row(w, a, b)' : a \in BOOLEAN, b \in BOOLEAN}
    BY DEF Table, Row
  <2> QED  BY <1>4, <2>1, TableRows
<1> QED  BY <1>2, <1>5

-----------------------------------------------------------------------------
(* The inductive invariant: the tables are those of the circuit, and the    *)
(* labels the CSP has are those of the first wires, each for its value.     *)
Garbled ==
  /\ tables = [w \in AndWires |-> Table(w)]
  /\ \E n \in Count .. Count + Len(Gates) : DOMAIN labels = 0 .. n - 1
  /\ Encoded(labels, DOMAIN labels)

CircuitInv ==
  /\ ProblemOK /\ orientation \in Orientations
  /\ stage \in {"start", "evaluate", "decided"}
  /\ stage # "start" => Garbled
  /\ stage = "decided" => decision = Value[Output]

LEMMA OrientationBits ==
  ASSUME ProblemOK, NEW o \in Orientations, NEW i \in Inputs
  PROVE  o[i] \in BOOLEAN
<1>1. WellFormed
  BY CircuitWellFormed
<1>2. CASE problem.type = "prune"
  <2>1. problem \in PruneProblems
    BY <1>2, ProblemAssumption DEF ProblemOK
  <2>2. i \in 0 .. Len(problem.lowers)
    <3>1. problem.lowers \in Seq(Int)
      BY <2>1, ProblemAssumption
    <3>2. Len(problem.lowers) \in Nat
      BY <3>1
    <3>3. problem.incumbent \/ ~problem.incumbent
      OBVIOUS
    <3>4. i \in 0 .. Count - 1
      BY DEF Inputs
    <3>5. CASE problem.incumbent
      BY <1>2, <3>2, <3>4, <3>5, PruneComparisons
    <3>6. CASE ~problem.incumbent
      BY <1>2, <3>2, <3>4, <3>6, PruneComparisons
    <3> QED  BY <3>3, <3>5, <3>6
  <2> QED  BY <2>1, <2>2, ProblemAssumption
<1>3. CASE problem.type # "prune"
  <2>1. problem \in AcceptProblems
    BY <1>3, ProblemAssumption DEF ProblemOK
  <2>2. Count = 2 \/ Count = 5
    BY <1>3, AcceptComparisons
  <2>3. i \in 0 .. 4
    BY <2>2 DEF Inputs
  <2> QED  BY <2>1, <2>3, ProblemAssumption
<1> QED  BY <1>2, <1>3

LEMMA InitCircuit == CircuitInit => CircuitInv
BY DEF CircuitInit, CircuitInv, ProblemOK

LEMMA TransferCircuit == CircuitInv /\ Transfer => CircuitInv'
<1> SUFFICES ASSUME CircuitInv, Transfer  PROVE CircuitInv'
  OBVIOUS
<1>1. ProblemOK /\ orientation \in Orientations /\ WellFormed
  BY CircuitWellFormed DEF CircuitInv
<1>2. UNCHANGED <<problem, orientation, colour, decision>> /\ stage' = "evaluate"
  BY DEF Transfer
<1>3. /\ Count' = Count /\ Gates' = Gates /\ Value' = Value /\ AndWires' = AndWires
      /\ \A w, b : Label(w, b)' = Label(w, b)
      /\ \A w : Table(w)' = Table(w)
  BY <1>1, <1>2, CircuitFrozen, WiresFrozen, TablesFrozen
<1>4. tables' = [w \in AndWires |-> Table(w)]
  BY DEF Transfer
<1>5. Count \in Nat \ {0} /\ Len(Gates) \in Nat /\ Inputs = 0 .. Count - 1 /\ Inputs \subseteq Wires
  BY <1>1 DEF WellFormed, Inputs
<1>6. DOMAIN labels' = Inputs
  BY DEF Transfer
<1>7. ASSUME NEW i \in Inputs  PROVE labels'[i] = Label(i, Value[i])
  <2>1. orientation[i] \in BOOLEAN
    BY <1>1, OrientationBits
  <2>2. Value[i] = Greater(i)
    <3>1. i \in Wires /\ i < Count
      BY <1>5
    <3> QED  BY <1>1, <3>1, WireValues
  <2>3. Greater(i) \in BOOLEAN
    BY DEF Greater
  <2>4. labels'[i] = IF Greater(i) # orientation[i]
                     THEN Label(i, ~orientation[i]) ELSE Label(i, ~ ~orientation[i])
    BY DEF Transfer
  <2>5. CASE Greater(i) # orientation[i]
    <3>1. (~orientation[i]) = Greater(i)
      BY <2>1, <2>3, <2>5
    <3> QED  BY <2>2, <2>4, <2>5, <3>1
  <2>6. CASE Greater(i) = orientation[i]
    <3>1. (~ ~orientation[i]) = Greater(i)
      BY <2>1, <2>3, <2>6
    <3> QED  BY <2>2, <2>4, <2>6, <3>1
  <2> QED  BY <2>5, <2>6
<1>8. Garbled'
  <2>1. tables' = [w \in AndWires' |-> Table(w)']
    BY <1>3, <1>4
  <2>2. \A v \in DOMAIN labels' : labels'[v] = Label(v, Value[v])'
    BY <1>3, <1>6, <1>7
  <2>3. \E n \in Count' .. Count' + Len(Gates') : DOMAIN labels' = 0 .. n - 1
    BY <1>3, <1>5, <1>6
  <2> QED  BY <2>1, <2>2, <2>3 DEF Garbled, Encoded
<1>9. ProblemOK' /\ orientation' \in Orientations
  BY <1>1, <1>2 DEF ProblemOK
<1> QED  BY <1>2, <1>8, <1>9 DEF CircuitInv

LEMMA GateCircuit == CircuitInv /\ EvaluateGate => CircuitInv'
<1> SUFFICES ASSUME CircuitInv, EvaluateGate  PROVE CircuitInv'
  OBVIOUS
<1>1. ProblemOK /\ orientation \in Orientations /\ WellFormed
  BY CircuitWellFormed DEF CircuitInv
<1>2. /\ UNCHANGED <<problem, orientation, colour, tables, stage, decision>>
      /\ stage = "evaluate" /\ Evaluated \in Wires
  BY DEF EvaluateGate
<1>3. /\ Count' = Count /\ Gates' = Gates /\ Value' = Value /\ AndWires' = AndWires
      /\ \A w, b : Label(w, b)' = Label(w, b)
      /\ \A w : Table(w)' = Table(w)
  BY <1>1, <1>2, CircuitFrozen, WiresFrozen, TablesFrozen
<1>4. Garbled
  BY <1>2 DEF CircuitInv
<1>5. /\ Count \in Nat \ {0} /\ Len(Gates) \in Nat /\ Wires = 0 .. Count + Len(Gates) - 1
  BY <1>1 DEF WellFormed
<1>6. PICK n \in Count .. Count + Len(Gates) : DOMAIN labels = 0 .. n - 1
  BY <1>4 DEF Garbled
<1>7. Evaluated = n
  <2>1. n \in Nat \ {0} /\ 0 \in Int /\ n - 1 \in Int
    BY <1>5, <1>6
  <2>2. Cardinality(0 .. n - 1) = (n - 1) - 0 + 1
    BY <2>1, FS_Interval
  <2> QED  BY <1>6, <2>1, <2>2 DEF Evaluated
<1>8. n \in Wires /\ n >= Count /\ Encoded(labels, 0 .. n - 1)
  BY <1>2, <1>4, <1>5, <1>6, <1>7 DEF Garbled
<1> DEFINE value == IF GateOf(n).kind = "xor" THEN XorOf(labels, GateOf(n).terms)
                    ELSE AndValue(labels, tables[n], n)
<1>9. labels' = [v \in 0 .. n |-> IF v = n THEN value ELSE labels[v]]
  <2>1. labels' = [v \in 0 .. Evaluated |->
                    IF v = Evaluated
                    THEN IF GateOf(Evaluated).kind = "xor"
                         THEN XorOf(labels, GateOf(Evaluated).terms)
                         ELSE AndValue(labels, tables[Evaluated], Evaluated)
                    ELSE labels[v]]
    BY Zenon DEF EvaluateGate, AndValue
  <2> QED  BY <1>7, <2>1
<1>10. value = Label(n, Value[n])
  <2>1. IsGate(GateOf(n), n)
    BY <1>1, <1>8 DEF WellFormed
  <2>2. CASE GateOf(n).kind = "xor"
    BY <1>1, <1>8, <2>2, XorGateEncodes
  <2>3. CASE GateOf(n).kind = "and"
    <3>1. n \in AndWires
      BY <1>8, <2>3 DEF AndWires
    <3>2. tables[n] = Table(n)
      BY <1>4, <3>1 DEF Garbled
    <3>3. AndValue(labels, Table(n), n) = Label(n, Value[n])
      BY <1>1, <1>8, <2>3, RowOpens
    <3> QED  BY <2>3, <3>2, <3>3
  <2> QED  BY <2>1, <2>2, <2>3 DEF IsGate
<1> HIDE DEF value
<1>11. DOMAIN labels' = 0 .. n
  BY <1>9
<1>12. ASSUME NEW v \in 0 .. n  PROVE labels'[v] = Label(v, Value[v])
  <2>1. CASE v = n
    BY <1>9, <1>10, <2>1
  <2>2. CASE v # n
    <3>1. v \in 0 .. n - 1
      BY <1>5, <1>6, <2>2
    <3>2. labels[v] = Label(v, Value[v])
      BY <1>8, <3>1 DEF Encoded
    <3> QED  BY <1>9, <2>2, <3>2
  <2> QED  BY <2>1, <2>2
<1>13. Garbled'
  <2>1. tables' = [w \in AndWires' |-> Table(w)']
    BY <1>2, <1>3, <1>4 DEF Garbled
  <2>2. \A v \in DOMAIN labels' : labels'[v] = Label(v, Value[v])'
    BY <1>3, <1>11, <1>12
  <2>3. \E k \in Count' .. Count' + Len(Gates') : DOMAIN labels' = 0 .. k - 1
    <3>1. n + 1 \in Count .. Count + Len(Gates) /\ (n + 1) - 1 = n
      BY <1>5, <1>8
    <3> QED  BY <1>3, <1>11, <3>1
  <2> QED  BY <2>1, <2>2, <2>3 DEF Garbled, Encoded
<1>14. ProblemOK' /\ orientation' \in Orientations
  BY <1>1, <1>2 DEF ProblemOK
<1> QED  BY <1>2, <1>13, <1>14 DEF CircuitInv

LEMMA DecideCircuit == CircuitInv /\ Decide => CircuitInv'
<1> SUFFICES ASSUME CircuitInv, Decide  PROVE CircuitInv'
  OBVIOUS
<1>1. ProblemOK /\ orientation \in Orientations /\ WellFormed
  BY CircuitWellFormed DEF CircuitInv
<1>2. /\ UNCHANGED <<problem, orientation, colour, tables, labels>>
      /\ stage = "evaluate" /\ Evaluated \notin Wires
  BY DEF Decide
<1>3. /\ Count' = Count /\ Gates' = Gates /\ Value' = Value /\ AndWires' = AndWires
      /\ Output' = Output
      /\ \A w, b : Label(w, b)' = Label(w, b)
      /\ \A w : Table(w)' = Table(w)
  BY <1>1, <1>2, CircuitFrozen, WiresFrozen, TablesFrozen
<1>4. Garbled
  BY <1>2 DEF CircuitInv
<1>5. /\ Count \in Nat \ {0} /\ Len(Gates) \in Nat /\ Wires = 0 .. Count + Len(Gates) - 1
      /\ Output \in Wires
  BY <1>1 DEF WellFormed
<1>6. PICK n \in Count .. Count + Len(Gates) : DOMAIN labels = 0 .. n - 1
  BY <1>4 DEF Garbled
<1>7. Evaluated = n
  <2>1. n \in Nat \ {0} /\ 0 \in Int /\ n - 1 \in Int
    BY <1>5, <1>6
  <2>2. Cardinality(0 .. n - 1) = (n - 1) - 0 + 1
    BY <2>1, FS_Interval
  <2> QED  BY <1>6, <2>1, <2>2 DEF Evaluated
<1>8. Output \in DOMAIN labels
  BY <1>2, <1>5, <1>6, <1>7
<1>9. labels[Output] = Label(Output, Value[Output]) /\ Value[Output] \in BOOLEAN
  BY <1>1, <1>4, <1>5, <1>8, ValueIs DEF Garbled, Encoded
<1>10. Label(Output, TRUE) # Label(Output, FALSE)
  <2> DEFINE o == Output
  <2>1. o \in Wires /\ TRUE \in BOOLEAN /\ FALSE \in BOOLEAN
    BY <1>5
  <2> HIDE DEF o
  <2>2. /\ Label(o, TRUE).delta <=> ~(Zero[o].delta <=> TRUE)
        /\ Label(o, FALSE).delta <=> ~(Zero[o].delta <=> FALSE)
    BY <1>1, <2>1, LabelParts
  <2>3. Label(o, TRUE) # Label(o, FALSE)
    BY <2>2
  <2> QED  BY <2>3 DEF o
<1>11. stage' = "decided" /\ decision' = Value[Output]
  BY <1>9, <1>10 DEF Decide
<1>12. Garbled'
  <2>1. tables' = [w \in AndWires' |-> Table(w)']
    BY <1>2, <1>3, <1>4 DEF Garbled
  <2>2. \A v \in DOMAIN labels' : labels'[v] = Label(v, Value[v])'
    BY <1>2, <1>3, <1>4 DEF Garbled, Encoded
  <2>3. \E k \in Count' .. Count' + Len(Gates') : DOMAIN labels' = 0 .. k - 1
    BY <1>2, <1>3, <1>6
  <2> QED  BY <2>1, <2>2, <2>3 DEF Garbled, Encoded
<1>13. ProblemOK' /\ orientation' \in Orientations
  BY <1>1, <1>2 DEF ProblemOK
<1> QED  BY <1>3, <1>11, <1>12, <1>13 DEF CircuitInv

LEMMA StutterCircuit == CircuitInv /\ UNCHANGED circuitVars => CircuitInv'
<1> SUFFICES ASSUME CircuitInv, UNCHANGED circuitVars  PROVE CircuitInv'
  OBVIOUS
<1>1. ProblemOK /\ orientation \in Orientations /\ WellFormed
  BY CircuitWellFormed DEF CircuitInv
<1>2. UNCHANGED <<problem, orientation, colour, tables, labels, stage, decision>>
  BY DEF circuitVars
<1>3. /\ Count' = Count /\ Gates' = Gates /\ Value' = Value /\ AndWires' = AndWires
      /\ Output' = Output
      /\ \A w, b : Label(w, b)' = Label(w, b)
      /\ \A w : Table(w)' = Table(w)
  BY <1>1, <1>2, CircuitFrozen, WiresFrozen, TablesFrozen
<1>4. Garbled <=> Garbled'
  BY <1>2, <1>3 DEF Garbled, Encoded
<1> QED  BY <1>2, <1>3, <1>4 DEF CircuitInv, ProblemOK

LEMMA CircuitInvariance == CircuitSpec => []CircuitInv
<1>1. CircuitInv /\ [CircuitNext]_circuitVars => CircuitInv'
  BY TransferCircuit, GateCircuit, DecideCircuit, StutterCircuit DEF CircuitNext
<1> QED  BY <1>1, InitCircuit, PTL DEF CircuitSpec

(* Whatever the random strings and the orientations, each label the CSP     *)
(* computes stands for the value of its wire in the circuit of              *)
(* threshold_protocol.cpp's pruneNode and acceptCandidate.                  *)
THEOREM LabelsAlwaysEncode == CircuitSpec => []LabelsEncodeValues
<1>1. CircuitInv => LabelsEncodeValues
  BY DEF CircuitInv, Garbled, Encoded, LabelsEncodeValues
<1> QED  BY <1>1, CircuitInvariance, PTL

(* evaluateFusedPredicate of two honest parties never ends with an unknown  *)
(* output label, and decides what the predicate means, for every number of  *)
(* lower bounds.                                                            *)
THEOREM CircuitDecidesMeaning == CircuitSpec => []DecisionIsMeaning
<1>1. CircuitInv => DecisionIsMeaning
  BY OutputMeaning DEF CircuitInv, DecisionIsMeaning
<1> QED  BY <1>1, CircuitInvariance, PTL

-----------------------------------------------------------------------------
(* The other path.  A layer of pruneNode's balanced disjunction has a 1     *)
(* exactly when the layer below has one, so the tree is the disjunction.    *)
HasOne(s) == \E j \in 1 .. Len(s) : s[j] = 1
AnyOf(s)  == IF HasOne(s) THEN 1 ELSE 0

IsTree(f) ==
  f = [layer \in Seq({0, 1}) |-> IF Len(layer) = 1 THEN layer[1] ELSE f[OrLayer(layer)]]

LEMMA BitTable ==
  ASSUME NEW a \in {0, 1}, NEW b \in {0, 1}
  PROVE  BitOr(a, b) \in {0, 1} /\ (BitOr(a, b) = 1 <=> a = 1 \/ b = 1)
<1>1. CASE a = 0
  BY <1>1 DEF BitOr
<1>2. CASE a = 1
  BY <1>2 DEF BitOr
<1> QED  BY <1>1, <1>2

LEMMA LayerShape ==
  ASSUME NEW s \in Seq({0, 1})
  PROVE  /\ OrLayer(s) \in Seq({0, 1})
         /\ Len(OrLayer(s)) = (Len(s) + 1) \div 2
         /\ HasOne(OrLayer(s)) <=> HasOne(s)
<1> DEFINE n == Len(s)
           m == (n + 1) \div 2
<1>1. n \in Nat /\ \A j \in 1 .. n : s[j] \in {0, 1}
  OBVIOUS
<1>2. m \in Nat /\ (n + 1 = 2 * m \/ n + 1 = 2 * m + 1)
  <2>1. n + 1 \in Nat
    BY <1>1
  <2> HIDE DEF n
  <2> QED  BY <2>1, HalfOf
<1>3. OrLayer(s) = [j \in 1 .. m |-> IF 2 * j <= n THEN BitOr(s[2 * j - 1], s[2 * j])
                                     ELSE s[2 * j - 1]]
  BY DEF OrLayer
<1> HIDE DEF n, m
<1>4. ASSUME NEW j \in 1 .. m
      PROVE  /\ 2 * j - 1 \in 1 .. n
             /\ 2 * j <= n => 2 * j \in 1 .. n
             /\ OrLayer(s)[j] \in {0, 1}
             /\ OrLayer(s)[j] = 1 <=> s[2 * j - 1] = 1 \/ (2 * j <= n /\ s[2 * j] = 1)
  <2>1. 2 * j - 1 \in 1 .. n /\ (2 * j <= n => 2 * j \in 1 .. n)
    BY <1>1, <1>2
  <2>2. CASE 2 * j <= n
    <3>1. OrLayer(s)[j] = BitOr(s[2 * j - 1], s[2 * j])
      BY <1>3, <2>2
    <3>2. s[2 * j - 1] \in {0, 1} /\ s[2 * j] \in {0, 1}
      BY <1>1, <2>1, <2>2
    <3> QED  BY <2>1, <2>2, <3>1, <3>2, BitTable
  <2>3. CASE ~(2 * j <= n)
    <3>1. OrLayer(s)[j] = s[2 * j - 1]
      BY <1>3, <2>3
    <3> QED  BY <1>1, <2>1, <2>3, <3>1
  <2> QED  BY <2>2, <2>3
<1>5. OrLayer(s) \in Seq({0, 1}) /\ Len(OrLayer(s)) = m
  <2> DEFINE l == OrLayer(s)
  <2>1. l = [j \in 1 .. m |-> l[j]]
    BY <1>3
  <2>2. \A j \in 1 .. m : l[j] \in {0, 1}
    BY <1>4
  <2> HIDE DEF l
  <2>3. Len(l) = m
    BY <1>2, <2>1, LengthIs
  <2>4. l \in [1 .. m -> {0, 1}]
    BY <2>1, <2>2
  <2>5. l \in Seq({0, 1})
    BY <1>2, <2>4
  <2> QED  BY <2>3, <2>5 DEF l
<1>6. ASSUME HasOne(OrLayer(s))  PROVE HasOne(s)
  <2>1. PICK j \in 1 .. m : OrLayer(s)[j] = 1
    BY <1>5, <1>6 DEF HasOne
  <2>2. \E k \in 1 .. n : s[k] = 1
    BY <1>4, <2>1
  <2> QED  BY <2>2 DEF HasOne, n
<1>7. ASSUME HasOne(s)  PROVE HasOne(OrLayer(s))
  <2>1. PICK k \in 1 .. n : s[k] = 1
    BY <1>7 DEF HasOne, n
  <2> DEFINE j == (k + 1) \div 2
  <2>2. j \in Nat /\ (k + 1 = 2 * j \/ k + 1 = 2 * j + 1)
    <3>1. k + 1 \in Nat
      BY <1>1
    <3> QED  BY <3>1, HalfOf
  <2> HIDE DEF j
  <2>3. j \in 1 .. m /\ (k = 2 * j - 1 \/ (k = 2 * j /\ 2 * j <= n))
    BY <1>1, <1>2, <2>2
  <2>4. OrLayer(s)[j] = 1
    BY <1>4, <2>1, <2>3
  <2> QED  BY <1>5, <2>3, <2>4 DEF HasOne
<1> QED  BY <1>5, <1>6, <1>7 DEF m, n

LEMMA LoneOne ==
  ASSUME NEW s \in Seq({0, 1}), Len(s) = 1
  PROVE  s[1] \in {0, 1} /\ (HasOne(s) <=> s[1] = 1)
BY DEF HasOne

LEMMA TreeExists == IsTree([s \in Seq({0, 1}) |-> AnyOf(s)])
<1> DEFINE g == [s \in Seq({0, 1}) |-> AnyOf(s)]
<1>1. ASSUME NEW s \in Seq({0, 1})
      PROVE  g[s] = IF Len(s) = 1 THEN s[1] ELSE g[OrLayer(s)]
  <2>1. CASE Len(s) = 1
    <3>1. s[1] \in {0, 1} /\ (HasOne(s) <=> s[1] = 1)
      BY <2>1, LoneOne
    <3> QED  BY <2>1, <3>1 DEF AnyOf
  <2>2. CASE Len(s) # 1
    <3>1. OrLayer(s) \in Seq({0, 1}) /\ (HasOne(OrLayer(s)) <=> HasOne(s))
      BY LayerShape
    <3>2. AnyOf(OrLayer(s)) = AnyOf(s)
      BY <3>1 DEF AnyOf
    <3> QED  BY <2>2, <3>1, <3>2
  <2> QED  BY <2>1, <2>2
<1>2. g = [s \in Seq({0, 1}) |-> g[s]]
  OBVIOUS
<1> HIDE DEF g
<1>3. g = [s \in Seq({0, 1}) |-> IF Len(s) = 1 THEN s[1] ELSE g[OrLayer(s)]]
  BY <1>1, <1>2
<1>4. IsTree(g)
  BY <1>3 DEF IsTree
<1> QED  BY <1>4 DEF g

LEMMA TreeUnfold == OrTree = CHOOSE f : IsTree(f)
BY DEF OrTree, IsTree

LEMMA TreeIs ==
  ASSUME NEW s \in Seq({0, 1}), Len(s) >= 1
  PROVE  OrTree[s] = AnyOf(s)
<1> DEFINE Bad == {n \in Nat : \E t \in Seq({0, 1}) :
                                  n = Len(t) /\ n >= 1 /\ OrTree[t] # AnyOf(t)}
<1>1. IsTree(OrTree)
  BY TreeExists, TreeUnfold
<1>2. \A t \in Seq({0, 1}) :
        OrTree[t] = IF Len(t) = 1 THEN t[1] ELSE OrTree[OrLayer(t)]
  BY <1>1 DEF IsTree
<1>3. Bad = {}
  <2> SUFFICES ASSUME Bad # {}  PROVE FALSE
    OBVIOUS
  <2>1. PICK n \in Bad : \A k \in Bad : ~(k < n)
    <3>1. Bad \in SUBSET Nat
      OBVIOUS
    <3> HIDE DEF Bad
    <3> QED  BY <3>1, Smallest
  <2>2. PICK t \in Seq({0, 1}) : n = Len(t) /\ n >= 1 /\ OrTree[t] # AnyOf(t)
    OBVIOUS
  <2>3. n \in Nat
    OBVIOUS
  <2>4. CASE n = 1
    <3> HIDE DEF Bad
    <3>0. Len(t) = 1
      BY <2>2, <2>4
    <3>1. t[1] \in {0, 1} /\ (HasOne(t) <=> t[1] = 1)
      BY <3>0, LoneOne
    <3> QED  BY <1>2, <2>2, <2>4, <3>1 DEF AnyOf
  <2>5. CASE n # 1
    <3> DEFINE l == OrLayer(t)
               k == Len(l)
    <3>1. /\ l \in Seq({0, 1}) /\ Len(l) = (n + 1) \div 2
          /\ HasOne(l) <=> HasOne(t)
      BY <2>2, LayerShape
    <3>2. k \in Nat /\ (n + 1 = 2 * k \/ n + 1 = 2 * k + 1)
      <4>1. n + 1 \in Nat
        BY <2>3
      <4> QED  BY <3>1, <4>1, HalfOf
    <3> HIDE DEF l, k
    <3>3. k >= 1 /\ k < n
      BY <2>2, <2>3, <2>5, <3>2
    <3>4. OrTree[l] = AnyOf(l)
      <4>1. k \notin Bad
        BY <2>1, <3>3
      <4>2. k = Len(l) /\ k \in Nat
        BY <3>2 DEF k
      <4> QED  BY <3>1, <3>3, <4>1, <4>2
    <3>5. OrTree[t] = OrTree[l]
      BY <1>2, <2>2, <2>5 DEF l
    <3>6. AnyOf(l) = AnyOf(t)
      BY <3>1 DEF AnyOf
    <3> QED  BY <2>2, <3>4, <3>5, <3>6
  <2> QED  BY <2>4, <2>5
<1> QED  BY <1>3

LEMMA UnfusedPruneMeaning ==
  ASSUME ProblemOK, problem.type = "prune"
  PROVE  Unfused = IF Meaning THEN 1 ELSE 0
<1>1. Unfused = UnfusedPrune
  BY DEF Unfused
<1>2. /\ \A i : Bit(i) \in {0, 1} /\ (Bit(i) = 1 <=> Greater(i))
  BY DEF Bit
<1>3. Greater(0) <=> problem.linear < 0
  BY PruneComparisons
<1>4. CASE ~problem.incumbent
  <2>1. Unfused = Bit(0)
    BY <1>1, <1>4 DEF UnfusedPrune
  <2>2. Meaning <=> problem.linear < 0
    BY <1>4 DEF Meaning
  <2> QED  BY <1>2, <1>3, <2>1, <2>2
<1>5. CASE problem.incumbent
  <2> DEFINE n == Count - 1
             s == [k \in 1 .. n |-> Bit(k)]
  <2>1. n \in Nat \ {0} /\ DOMAIN problem.lowers = 1 .. n
        /\ \A i \in 1 .. n : Greater(i) <=> problem.lowers[i] > problem.best
    BY <1>5, PruneComparisons
  <2>2. s \in [1 .. n -> {0, 1}]
    BY <1>2
  <2>3. s = [k \in 1 .. n |-> s[k]] /\ \A k \in 1 .. n : s[k] = Bit(k)
    OBVIOUS
  <2>4. Unfused = BitOr(Bit(0), OrTree[s])
    BY <1>1, <1>5, Zenon DEF UnfusedPrune
  <2> HIDE DEF n, s
  <2>5. s \in Seq({0, 1}) /\ Len(s) = n
    BY <2>1, <2>2, <2>3, LengthIs
  <2>6. OrTree[s] = AnyOf(s)
    <3>1. Len(s) >= 1
      BY <2>1, <2>5
    <3> QED  BY <2>5, <3>1, TreeIs
  <2>7. HasOne(s) <=> \E k \in DOMAIN problem.lowers : problem.lowers[k] > problem.best
    BY <1>2, <2>1, <2>3, <2>5 DEF HasOne
  <2>8. Meaning <=> problem.linear < 0 \/ HasOne(s)
    BY <1>5, <2>7 DEF Meaning
  <2>9. AnyOf(s) \in {0, 1} /\ (AnyOf(s) = 1 <=> HasOne(s))
    BY DEF AnyOf
  <2>10. /\ BitOr(Bit(0), AnyOf(s)) \in {0, 1}
         /\ BitOr(Bit(0), AnyOf(s)) = 1 <=> Bit(0) = 1 \/ AnyOf(s) = 1
    BY <1>2, <2>9, BitTable
  <2> QED  BY <1>2, <1>3, <2>4, <2>6, <2>8, <2>9, <2>10
<1> QED  BY <1>4, <1>5

LEMMA UnfusedAcceptMeaning ==
  ASSUME ProblemOK, problem.type # "prune"
  PROVE  /\ Unfused = IF Meaning THEN 1 ELSE 0
         /\ problem.incumbent => {CostEqual, UnfusedBetter} \subseteq {0, 1}
<1>1. Unfused = UnfusedAccept
  BY DEF Unfused
<1>2. \A i : Bit(i) \in {0, 1} /\ (Bit(i) = 1 <=> Greater(i))
  BY DEF Bit
<1>3. /\ {problem.linear, problem.c3, problem.cost, problem.c12,
          problem.best, problem.best12} \subseteq Int
      /\ Greater(0) <=> problem.linear < 0
      /\ Greater(1) <=> problem.c3 > 0
  BY AcceptComparisons
<1> DEFINE feasible == BitAnd(BitNot(Bit(0)), Bit(1))
<1>4. feasible \in {0, 1} /\ (feasible = 1 <=> problem.linear >= 0 /\ problem.c3 > 0)
  <2>1. CASE Bit(0) = 0
    BY <1>2, <1>3, <2>1 DEF BitAnd, BitNot
  <2>2. CASE Bit(0) = 1
    BY <1>2, <1>3, <2>2 DEF BitAnd, BitNot
  <2> QED  BY <1>2, <2>1, <2>2
<1>5. CASE ~problem.incumbent
  <2>1. Unfused = feasible
    BY <1>1, <1>5 DEF UnfusedAccept
  <2>2. Meaning <=> problem.linear >= 0 /\ problem.c3 > 0
    BY <1>5 DEF Meaning
  <2> HIDE DEF feasible
  <2> QED  BY <1>4, <1>5, <2>1, <2>2
<1>6. CASE problem.incumbent
  <2>1. /\ Greater(2) <=> problem.best > problem.cost
        /\ Greater(3) <=> problem.cost > problem.best
        /\ Greater(4) <=> problem.best12 > problem.c12
    BY <1>6, AcceptComparisons
  <2>2. Unfused = BitAnd(feasible, UnfusedBetter)
    BY <1>1, <1>6 DEF UnfusedAccept
  <2>3. Meaning <=> /\ problem.linear >= 0 /\ problem.c3 > 0
                    /\ \/ problem.cost < problem.best
                       \/ /\ problem.cost = problem.best
                          /\ problem.c12 < problem.best12
    BY <1>6 DEF Meaning
  <2>4. CostEqual \in {0, 1} /\ (CostEqual = 1 <=> problem.cost = problem.best)
    <3>1. CASE problem.cost = problem.best
      <4>1. Bit(2) = 0 /\ Bit(3) = 0
        BY <1>2, <1>3, <2>1, <3>1
      <4> QED  BY <3>1, <4>1 DEF CostEqual, BitNot, BitOrExclusive
    <3>2. CASE problem.cost # problem.best
      <4>1. (Bit(2) = 1 /\ Bit(3) = 0) \/ (Bit(2) = 0 /\ Bit(3) = 1)
        BY <1>2, <1>3, <2>1, <3>2
      <4> QED  BY <3>2, <4>1 DEF CostEqual, BitNot, BitOrExclusive
    <3> QED  BY <3>1, <3>2
  <2>5. EqualAndC12 \in {0, 1}
        /\ (EqualAndC12 = 1 <=> problem.cost = problem.best /\ problem.c12 < problem.best12)
    <3>1. CASE CostEqual = 0
      BY <1>2, <1>3, <2>1, <2>4, <3>1 DEF EqualAndC12, BitAnd
    <3>2. CASE CostEqual = 1
      BY <1>2, <1>3, <2>1, <2>4, <3>2 DEF EqualAndC12, BitAnd
    <3> QED  BY <2>4, <3>1, <3>2
  <2>6. /\ UnfusedBetter \in {0, 1}
        /\ UnfusedBetter = 1 <=> \/ problem.cost < problem.best
                                 \/ /\ problem.cost = problem.best
                                    /\ problem.c12 < problem.best12
    BY <1>2, <1>3, <2>1, <2>5 DEF UnfusedBetter, BitOrExclusive
  <2> HIDE DEF feasible
  <2>7. /\ BitAnd(feasible, UnfusedBetter) \in {0, 1}
        /\ BitAnd(feasible, UnfusedBetter) = 1 <=> feasible = 1 /\ UnfusedBetter = 1
    <3>1. CASE feasible = 0
      BY <2>6, <3>1 DEF BitAnd
    <3>2. CASE feasible = 1
      BY <2>6, <3>2 DEF BitAnd
    <3> QED  BY <1>4, <3>1, <3>2
  <2>8. Unfused = IF Meaning THEN 1 ELSE 0
    BY <1>4, <2>2, <2>3, <2>6, <2>7
  <2> QED  BY <2>4, <2>6, <2>8
<1> QED  BY <1>5, <1>6

(* The arithmetic on encrypted bits that the engine uses without fused      *)
(* predicates gives the decision of the circuit, and every exclusive or     *)
(* that it computes as a sum is a bit.                                      *)
THEOREM BothPathsAgree == CircuitSpec => []PathsAgree
<1>1. CircuitInv => PathsAgree
  <2> SUFFICES ASSUME CircuitInv, stage = "decided"
               PROVE  /\ Unfused = IF decision THEN 1 ELSE 0
                      /\ problem.type = "accept" /\ problem.incumbent =>
                           {CostEqual, UnfusedBetter} \subseteq {0, 1}
    BY DEF PathsAgree
  <2>1. ProblemOK /\ decision = Meaning
    BY OutputMeaning DEF CircuitInv
  <2>2. CASE problem.type = "prune"
    BY <2>1, <2>2, UnfusedPruneMeaning
  <2>3. CASE problem.type # "prune"
    BY <2>1, <2>3, UnfusedAcceptMeaning
  <2> QED  BY <2>2, <2>3
<1> QED  BY <1>1, CircuitInvariance, PTL
=============================================================================
