----------------------- MODULE MaskedArithmeticProofs -----------------------
(***************************************************************************)
(* The masked operations are exact for every modulus, mask range and bound *)
(* that satisfy MaskAssumption.                                            *)
(***************************************************************************)
EXTENDS MaskedArithmetic, TLAPS

(* Division with remainder: the library's operators are what they should be. *)
LEMMA Division ==
  ASSUME NEW z \in Int, NEW d \in Nat, d > 0
  PROVE  /\ z \div d \in Int /\ z % d \in Nat
         /\ z = d * (z \div d) + (z % d) /\ z % d < d
  BY SMT

(* A multiple of d below d is zero. *)
LEMMA SmallMultiple ==
  ASSUME NEW d \in Nat, NEW k \in Int, d > 0, d * k < d, d * k > -d
  PROVE  k = 0
<1>1. CASE k >= 1
  <2>1. d * k >= d BY <1>1, SMT
  <2> QED BY <2>1, SMT
<1>2. CASE k <= -1
  <2>1. d * k <= -d BY <1>2, SMT
  <2> QED BY <2>1, SMT
<1> QED BY <1>1, <1>2, SMT

(* Quotient and remainder are unique. *)
LEMMA Unique ==
  ASSUME NEW z \in Int, NEW d \in Nat, NEW q \in Int, NEW r \in Nat,
         r < d, z = d * q + r
  PROVE  z \div d = q /\ z % d = r
<1>1. /\ z \div d \in Int /\ z % d \in Nat
      /\ z = d * (z \div d) + (z % d) /\ z % d < d
  BY Division, SMT
<1> DEFINE k == q - z \div d
<1>2. k \in Int BY <1>1, SMT
<1>3. d * k = d * q - d * (z \div d) BY <1>1, SMT
<1>4. d * k = (z % d) - r BY <1>1, <1>3, SMT
<1>5. d * k < d /\ d * k > -d BY <1>1, <1>4, SMT
<1> HIDE DEF k
<1>6. k = 0 BY <1>2, <1>5, SmallMultiple, SMT
<1>7. q = z \div d BY <1>1, <1>6, SMT DEF k
<1> QED BY <1>1, <1>7, SMT

LEMMA OddModulus == Half \in Nat /\ N \in Nat /\ N = 2 * Half + 1
<1>1. N \in Nat /\ N % 2 = 1 BY MaskAssumption
<1>2. /\ N \div 2 \in Int
      /\ N = 2 * (N \div 2) + (N % 2)
  BY <1>1, Division, SMT
<1> QED BY <1>1, <1>2, SMT DEF Half

(* Reading a plaintext back as a signed integer undoes any wrapping, as     *)
(* long as the integer is no larger than half of the modulus.               *)
LEMMA PlainUnwraps ==
  ASSUME NEW m \in Int, NEW k \in Int, NEW v \in Int,
         -Half <= m, m <= Half, v = N * k + m
  PROVE  Plain(v) = m
<1>1. Half \in Nat /\ N \in Nat /\ N = 2 * Half + 1 BY OddModulus
<1>2. CASE m >= 0
  <2>1. v % N = m BY <1>1, <1>2, Unique, SMT
  <2> QED BY <1>1, <2>1, SMT DEF Plain
<1>3. CASE m < 0
  <2>1. v = N * (k - 1) + (m + N) BY <1>1, SMT
  <2>2. m + N \in Nat /\ m + N < N /\ k - 1 \in Int BY <1>1, <1>3, SMT
  <2>3. v % N = m + N BY ONLY <1>1, <2>1, <2>2, v \in Int, m \in Int, k \in Int, Unique, SMTT(30)
  <2> QED BY <1>1, <1>3, <2>3, SMT DEF Plain
<1> QED BY <1>2, <1>3, SMT

(* A scaled and shifted difference stays in 0 .. N-1 and lies above half    *)
(* exactly when the difference is not negative.                             *)
LEMMA Shifted ==
  ASSUME NEW e \in Int, NEW r3 \in Masks, NEW r \in Masks, r < r3,
         -(2 * Bound + 1) <= e, e <= 2 * Bound
  PROVE  LET D == r3 * e + r3 + Half - r
         IN  D \in 0 .. N - 1 /\ (D > Half <=> e >= 0)
<1> DEFINE D == r3 * e + r3 + Half - r
<1>1. /\ Half \in Nat /\ N \in Nat /\ N = 2 * Half + 1
      /\ Bound \in Nat /\ MaskMax \in Nat /\ MaskMin \in Nat
      /\ MaskMax * (2 * Bound + 2) < Half
      /\ r3 \in Nat /\ r \in Nat /\ r3 <= MaskMax /\ r <= MaskMax /\ r > 0
  BY OddModulus, MaskAssumption, SMT DEF Masks
<1>2. D = r3 * (e + 1) + Half - r BY <1>1, SMT
<1>3. r3 * (2 * Bound + 2) <= MaskMax * (2 * Bound + 2) BY <1>1, SMT
<1>4. CASE e >= 0
  <2>1. r3 * e >= 0 BY <1>1, <1>4, SMT
  <2>2. D > Half BY <1>1, <2>1, SMT
  <2>3. r3 * (e + 1) <= r3 * (2 * Bound + 2) BY <1>1, <1>4, SMT
  <2>4. D <= 2 * Half BY <1>1, <1>2, <1>3, <2>3, SMT
  <2> QED BY <1>1, <1>4, <2>2, <2>4, SMT
<1>5. CASE e <= -1
  <2>1. r3 * (e + 1) <= 0 BY <1>1, <1>5, SMT
  <2>2. D <= Half BY <1>1, <1>2, <2>1, SMT
  <2>3. r3 * (e + 1) >= r3 * (-(2 * Bound)) BY <1>1, <1>5, SMT
  <2>4. r3 * (-(2 * Bound)) = 2 * r3 - r3 * (2 * Bound + 2) BY <1>1, SMT
  <2>5. D >= 0 BY <1>1, <1>2, <1>3, <2>3, <2>4, SMT
  <2> QED BY <1>1, <1>5, <2>2, <2>5, SMT
<1> QED BY <1>4, <1>5, SMT

(* The masked difference encodes the comparison in both directions.         *)
LEMMA MaskedDecides ==
  ASSUME NEW left \in Int, NEW right \in Int,
         left - right <= 2 * Bound, right - left <= 2 * Bound,
         NEW r3 \in Masks, NEW r \in Masks, r < r3, NEW direction \in BOOLEAN
  PROVE  LET D == Masked(left, right, r3, r, direction)
         IN  D \in 0 .. N - 1 /\ (D > Half <=> ((left < right) <=> direction))
<1>1. /\ Half \in Nat /\ N \in Nat /\ N = 2 * Half + 1 /\ Bound \in Nat
      /\ r3 \in Nat /\ r \in Nat
  BY OddModulus, MaskAssumption, SMT DEF Masks
<1>2. CASE direction
  <2> DEFINE e == right - left - 1
  <2>1. r3 * (right - left) = r3 * e + r3 BY <1>1, SMT
  <2>2. e \in Int /\ -(2 * Bound + 1) <= e /\ e <= 2 * Bound BY <1>1, SMT
  <2>3. /\ r3 * e + r3 + Half - r \in 0 .. N - 1
        /\ r3 * e + r3 + Half - r > Half <=> e >= 0
    BY <2>2, Shifted
  <2>4. Masked(left, right, r3, r, direction) = r3 * e + r3 + Half - r
    BY <1>1, <1>2, <2>1, SMT DEF Masked
  <2>5. e >= 0 <=> left < right BY SMT
  <2> QED BY <1>2, <2>3, <2>4, <2>5
<1>3. CASE ~direction
  <2> DEFINE e == left - right
  <2>2. e \in Int /\ -(2 * Bound + 1) <= e /\ e <= 2 * Bound BY <1>1, SMT
  <2>3. /\ r3 * e + r3 + Half - r \in 0 .. N - 1
        /\ r3 * e + r3 + Half - r > Half <=> e >= 0
    BY <2>2, Shifted
  <2>4. Masked(left, right, r3, r, direction) = r3 * e + r3 + Half - r
    BY <1>1, <1>3, SMT DEF Masked
  <2>5. e >= 0 <=> ~(left < right) BY SMT
  <2> QED BY <1>3, <2>3, <2>4, <2>5
<1> QED BY <1>2, <1>3

(* Masked factors are positive and below the packing base, so that quotient *)
(* and remainder of their packing give them back.                           *)
LEMMA PackingRoundTrip ==
  ASSUME Packed, NEW x \in Int, NEW y \in Int, NEW r1 \in Masks, NEW r2 \in Masks,
         -(2 * Bound) <= x, x <= 2 * Bound, -(2 * Bound) <= y, y <= 2 * Bound
  PROVE  LET p == (x + r1) * PackingBase + y + r2
         IN  /\ p % N = p
             /\ p \div PackingBase = x + r1 /\ p % PackingBase = y + r2
<1> DEFINE u == x + r1
           w == y + r2
           p == (x + r1) * PackingBase + y + r2
<1>1. /\ N \in Nat /\ PackingBase \in Nat /\ PackingBase * PackingBase <= N
      /\ u \in Nat /\ u < PackingBase /\ w \in Nat /\ w < PackingBase
  BY MaskAssumption, SMT DEF Masks
<1>2. p = PackingBase * u + w BY <1>1, SMT DEF Masks
<1> HIDE DEF u, w, p
<1>3. PackingBase * u <= PackingBase * (PackingBase - 1) BY <1>1, SMT
<1>4. PackingBase * (PackingBase - 1) = PackingBase * PackingBase - PackingBase BY <1>1, SMT
<1>5. PackingBase * u \in Nat BY <1>1, SMT
<1>6. p \in Nat /\ p < N BY <1>1, <1>2, <1>3, <1>4, <1>5, SMT
<1>7. p % N = p
  <2>1. p = N * 0 + p BY <1>1, <1>6, SMT
  <2> QED BY ONLY <1>1, <1>6, <2>1, Unique, SMT
<1>8. p \in Int BY <1>6, SMT
<1>9. p \div PackingBase = u /\ p % PackingBase = w
  BY ONLY <1>1, <1>2, <1>8, Unique, SMT
<1> QED BY <1>7, <1>9 DEF u, w, p

(* Removing the masks' contribution from the product of masked factors      *)
(* leaves the product, however the intermediate results wrapped.            *)
LEMMA MasksCancel ==
  ASSUME NEW x \in Int, NEW y \in Int, NEW r1 \in Int, NEW r2 \in Int,
         -Half <= x * y, x * y <= Half
  PROVE  Plain((((x + r1) * (y + r2)) % N) - x * r2 - y * r1 - r1 * r2) = x * y
<1> DEFINE masked  == (x + r1) * (y + r2)
           m       == masked % N
           wraps   == masked \div N
           v       == m - x * r2 - y * r1 - r1 * r2
           product == x * y
<1>1. N \in Nat /\ N > 0 BY OddModulus, SMT
<1>2. masked \in Int /\ product \in Int BY SMT
<1>3. masked = product + x * r2 + y * r1 + r1 * r2 BY SMT
<1> HIDE DEF masked, product
<1>4. wraps \in Int /\ m \in Nat /\ masked = N * wraps + m
  BY <1>1, <1>2, Division, SMT DEF masked
<1>5. v \in Int BY <1>4, SMT
<1>6. -wraps \in Int BY <1>4, SMT
<1>7. N * (-wraps) = -(N * wraps) BY <1>1, <1>4, SMT
<1>8. v = N * (-wraps) + product BY <1>1, <1>2, <1>3, <1>4, <1>7, SMT
<1>9. -Half <= product /\ product <= Half BY DEF product
<1> HIDE DEF v, wraps
<1>10. Plain(v) = product BY <1>2, <1>5, <1>6, <1>8, <1>9, PlainUnwraps
<1> QED BY <1>10 DEF v, product, masked

-----------------------------------------------------------------------------
(* The factors each operation multiplies, in terms of its operands.         *)
FactorsOf ==
  CASE call.op = "max"      -> <<IF call.a > call.b THEN 1 ELSE 0, call.a - call.b>>
    [] call.op = "min"      -> <<IF call.a < call.b THEN 1 ELSE 0, call.a - call.b>>
    [] call.op = "abs"      -> <<IF call.a < 0 THEN -1 ELSE 1, call.a>>
    [] call.op = "multiply" -> <<call.a, call.b>>

Comparing   == pc \in {"compare", "asked", "answered"}
Multiplying == pc \in {"multiply", "sent", "returned"}

OperandsFollow ==
  /\ Comparing => /\ call.op # "multiply"
                  /\ operands = FirstOperands(call.op, call.a, call.b)
  /\ Multiplying => call.op # "greater" /\ operands = FactorsOf

(* What the CSP was sent decides the comparison. *)
QuestionDecides ==
  pc = "asked" =>
    /\ message[1] \in 0 .. N - 1
    /\ message[1] > Half <=> ((operands[1] < operands[2]) <=> orientation)

ReplyIsMasked ==
  /\ pc \in {"sent", "returned"} => masks \in Masks \X Masks
  /\ pc = "returned" =>
       message[1] = ((operands[1] + masks[1]) * (operands[2] + masks[2])) % N

Inv == /\ TypeOK /\ OperandsFollow /\ QuestionDecides /\ ComparisonDecides
       /\ FactorsArrive /\ ReplyIsMasked /\ ResultExact

(* Factors are differences of operands at most, and products fit.           *)
LEMMA FactorsBounded ==
  ASSUME TypeOK, OperandsFollow, Multiplying
  PROVE  /\ operands[1] \in Int /\ operands[2] \in Int
         /\ -(2 * Bound) <= operands[1] /\ operands[1] <= 2 * Bound
         /\ -(2 * Bound) <= operands[2] /\ operands[2] <= 2 * Bound
         /\ -Half <= operands[1] * operands[2] /\ operands[1] * operands[2] <= Half
<1>1. /\ Half \in Nat /\ Bound \in Nat /\ MaskMax \in Nat /\ 1 <= Bound
      /\ MaskMax + 2 * Bound < Half /\ (Bound + 1) * (Bound + 1) < Half
  BY OddModulus, MaskAssumption
<1>2. /\ call.a \in Int /\ -Bound <= call.a /\ call.a <= Bound
      /\ call.b \in Int /\ -Bound <= call.b /\ call.b <= Bound
      /\ call.op \in {"multiply", "max", "min", "abs"}
  BY <1>1, SMT DEF TypeOK, Values, Ops, OperandsFollow
<1>3. operands = FactorsOf BY DEF OperandsFollow
<1>4. CASE call.op = "multiply"
  <2>1. operands = <<call.a, call.b>> BY <1>3, <1>4 DEF FactorsOf
  <2>2. /\ call.a * call.b <= (Bound + 1) * (Bound + 1)
        /\ call.a * call.b >= -((Bound + 1) * (Bound + 1))
    <3> DEFINE a == call.a
               b == call.b
    <3>1. /\ a \in Int /\ b \in Int /\ -Bound <= a /\ a <= Bound
          /\ -Bound <= b /\ b <= Bound
      BY <1>2
    <3> HIDE DEF a, b
    <3>2. (Bound - a) * (Bound + b) >= 0 /\ (Bound + a) * (Bound - b) >= 0
          /\ (Bound - a) * (Bound - b) >= 0 /\ (Bound + a) * (Bound + b) >= 0
      BY <1>1, <3>1, SMT
    <3>3. a * b <= Bound * Bound /\ a * b >= -(Bound * Bound)
      BY <1>1, <3>1, <3>2, SMT
    <3>4. (Bound + 1) * (Bound + 1) >= Bound * Bound BY <1>1, SMT
    <3>5. a * b <= (Bound + 1) * (Bound + 1) /\ a * b >= -((Bound + 1) * (Bound + 1))
      BY <1>1, <3>1, <3>3, <3>4, SMT
    <3> QED BY <3>5 DEF a, b
  <2> QED BY <1>1, <1>2, <2>1, <2>2, SMT
<1>5. CASE call.op \in {"max", "min"}
  <2>1. \/ operands[1] = 0 /\ operands[2] = call.a - call.b
        \/ operands[1] = 1 /\ operands[2] = call.a - call.b
    BY <1>3, <1>5 DEF FactorsOf
  <2>2. operands[1] * operands[2] \in {0, call.a - call.b} BY <1>2, <2>1, SMT
  <2> QED BY <1>1, <1>2, <2>1, <2>2, SMT
<1>6. CASE call.op = "abs"
  <2>1. \/ operands[1] = -1 /\ operands[2] = call.a
        \/ operands[1] = 1 /\ operands[2] = call.a
    BY <1>3, <1>6 DEF FactorsOf
  <2>2. operands[1] * operands[2] \in {call.a, -call.a} BY <1>2, <2>1, SMT
  <2> QED BY <1>1, <1>2, <2>1, <2>2, SMT
<1> QED BY <1>2, <1>4, <1>5, <1>6

LEMMA InitInv == Init => Inv
<1> SUFFICES ASSUME Init PROVE Inv OBVIOUS
<1>1. Bound \in Nat BY MaskAssumption
<1>2. 0 \in Values BY <1>1, SMT DEF Values
<1>3. TypeOK
  <2>1. "multiply" \in Ops BY DEF Ops
  <2>2. call \in [op : Ops, a : Values, b : Values] BY <1>2, <2>1 DEF Init
  <2>3. <<0, 0>> \in Int \X Int /\ 0 \in Int BY SMT
  <2> QED BY <2>2, <2>3 DEF Init, TypeOK
<1>4. pc = "idle" BY DEF Init
<1>5. /\ OperandsFollow /\ QuestionDecides /\ ComparisonDecides
      /\ FactorsArrive /\ ReplyIsMasked /\ ResultExact
  BY <1>4 DEF OperandsFollow, Comparing, Multiplying, QuestionDecides, ComparisonDecides,
              FactorsArrive, ReplyIsMasked, ResultExact
<1> QED BY <1>3, <1>5 DEF Inv

(* Every action preserves the invariant. *)
LEMMA CallInv == Inv /\ Call => Inv'
<1> SUFFICES ASSUME Inv, Call PROVE Inv' OBVIOUS
<1> PICK op \in Ops, a \in Values, b \in Values :
      /\ call' = [op |-> op, a |-> a, b |-> b]
      /\ operands' = FirstOperands(op, a, b)
      /\ pc' = IF op = "multiply" THEN "multiply" ELSE "compare"
  BY DEF Call
<1>1. /\ masks' = <<0, 0>> /\ orientation' = FALSE /\ message' = <<0, 0>> /\ result' = 0
  BY DEF Call
<1>2. a \in Int /\ b \in Int BY MaskAssumption, SMT DEF Values
<1>3. TypeOK'
  <2>1. call' \in [op : Ops, a : Values, b : Values] OBVIOUS
  <2>2. operands' \in Int \X Int BY <1>2, SMT DEF FirstOperands
  <2>3. <<0, 0>> \in Int \X Int /\ 0 \in Int BY SMT
  <2> QED BY <1>1, <2>1, <2>2, <2>3 DEF TypeOK
<1>4. OperandsFollow'
  <2>1. CASE op = "multiply"
    <3>1. operands' = <<a, b>> BY <2>1 DEF FirstOperands
    <3>2. FactorsOf' = <<a, b>> BY <2>1 DEF FactorsOf
    <3> QED BY <2>1, <3>1, <3>2 DEF OperandsFollow, Comparing, Multiplying
  <2>2. CASE op # "multiply"
    BY <2>2 DEF OperandsFollow, Comparing, Multiplying
  <2> QED BY <2>1, <2>2
<1>5. pc' \in {"multiply", "compare"} OBVIOUS
<1> QED BY <1>3, <1>4, <1>5 DEF Inv, QuestionDecides, ComparisonDecides, FactorsArrive,
           ReplyIsMasked, ResultExact

LEMMA MaskComparisonInv == Inv /\ MaskComparison => Inv'
<1> SUFFICES ASSUME Inv, MaskComparison PROVE Inv' OBVIOUS
<1> PICK r3 \in Masks, r \in Masks, direction \in BOOLEAN :
      /\ r < r3
      /\ masks' = <<r3, r>> /\ orientation' = direction
      /\ message' = <<Masked(operands[1], operands[2], r3, r, direction) % N, 0>>
  BY DEF MaskComparison
<1> DEFINE D == Masked(operands[1], operands[2], r3, r, direction)
<1>1. /\ pc = "compare" /\ pc' = "asked" /\ call' = call /\ operands' = operands
      /\ result' = result
  BY DEF MaskComparison
<1>2. /\ Bound \in Nat /\ N \in Nat /\ N > 0 /\ r3 \in Int /\ r \in Int
  BY MaskAssumption, OddModulus, SMT DEF Masks
<1>3. /\ operands[1] \in Int /\ operands[2] \in Int
      /\ operands[1] - operands[2] <= 2 * Bound
      /\ operands[2] - operands[1] <= 2 * Bound
  <2>1. /\ call.a \in Int /\ -Bound <= call.a /\ call.a <= Bound
        /\ call.b \in Int /\ -Bound <= call.b /\ call.b <= Bound
    BY <1>2, SMT DEF Inv, TypeOK, Values
  <2>2. operands = FirstOperands(call.op, call.a, call.b)
    BY <1>1 DEF Inv, OperandsFollow, Comparing
  <2>3. operands \in {<<call.a, call.b>>, <<call.b, call.a>>, <<call.a, 0>>}
    BY <2>2 DEF FirstOperands
  <2> QED BY <1>2, <2>1, <2>3, SMT
<1>4. D \in 0 .. N - 1 /\ (D > Half <=> ((operands[1] < operands[2]) <=> direction))
  BY <1>3, MaskedDecides
<1>5. D % N = D
  <2> HIDE DEF D
  <2>1. D \in Nat /\ D < N /\ D = N * 0 + D BY <1>2, <1>4, SMT
  <2> QED BY ONLY <1>2, <2>1, Unique, SMT
<1>6. message' = <<D, 0>> BY <1>5
<1>7. D \in Int
  <2> HIDE DEF D
  <2> QED BY <1>2, <1>4, SMT
<1>8. TypeOK'
  <2> HIDE DEF D
  <2> QED BY <1>1, <1>2, <1>6, <1>7, SMT DEF Inv, TypeOK
<1>9. QuestionDecides' BY <1>1, <1>4, <1>6 DEF QuestionDecides
<1>10. OperandsFollow'
  BY <1>1 DEF Inv, OperandsFollow, Comparing, Multiplying
<1> QED BY <1>1, <1>8, <1>9, <1>10 DEF Inv, ComparisonDecides, FactorsArrive,
           ReplyIsMasked, ResultExact

LEMMA ServeComparisonInv == Inv /\ ServeComparison => Inv'
<1> SUFFICES ASSUME Inv, ServeComparison PROVE Inv' OBVIOUS
<1>1. /\ pc = "asked" /\ pc' = "answered" /\ call' = call /\ operands' = operands
      /\ masks' = masks /\ orientation' = orientation /\ result' = result
      /\ message' = <<IF message[1] > Half THEN 0 ELSE 1, 0>>
  BY DEF ServeComparison
<1>2. message[1] > Half <=> ((operands[1] < operands[2]) <=> orientation)
  BY <1>1 DEF Inv, QuestionDecides
<1>3. orientation \in BOOLEAN BY DEF Inv, TypeOK
<1>4. ComparisonDecides'
  <2>1. message'[1] = IF (operands[1] < operands[2]) <=> orientation THEN 0 ELSE 1
    BY <1>1, <1>2
  <2>2. Bit' = IF orientation THEN 1 - message'[1] ELSE message'[1] BY <1>1 DEF Bit
  <2>3. CASE orientation
    <3>1. message'[1] = IF operands[1] < operands[2] THEN 0 ELSE 1 BY <2>1, <2>3
    <3>2. Bit' = 1 - message'[1] BY <2>2, <2>3
    <3>3. Bit' = IF operands[1] < operands[2] THEN 1 ELSE 0 BY <3>1, <3>2, SMT
    <3> QED BY <1>1, <3>3 DEF ComparisonDecides
  <2>4. CASE ~orientation
    <3>1. message'[1] = IF operands[1] < operands[2] THEN 1 ELSE 0 BY <2>1, <2>4
    <3>2. Bit' = message'[1] BY <2>2, <2>4
    <3> QED BY <1>1, <3>1, <3>2 DEF ComparisonDecides
  <2> QED BY <1>3, <2>3, <2>4
<1>5. TypeOK' BY <1>1, SMT DEF Inv, TypeOK
<1>6. OperandsFollow' BY <1>1 DEF Inv, OperandsFollow, Comparing, Multiplying
<1> QED BY <1>1, <1>4, <1>5, <1>6 DEF Inv, QuestionDecides, FactorsArrive,
           ReplyIsMasked, ResultExact

LEMMA ReceiveBitInv == Inv /\ ReceiveBit => Inv'
<1> SUFFICES ASSUME Inv, ReceiveBit PROVE Inv' OBVIOUS
<1>1. /\ pc = "answered" /\ call' = call /\ masks' = masks
      /\ orientation' = orientation /\ message' = message
  BY DEF ReceiveBit
<1>2. /\ operands = FirstOperands(call.op, call.a, call.b) /\ call.op # "multiply"
      /\ Bit = IF operands[1] < operands[2] THEN 1 ELSE 0
  BY <1>1 DEF Inv, OperandsFollow, Comparing, ComparisonDecides
<1>3. /\ call.a \in Int /\ call.b \in Int
      /\ call.op \in {"greater", "multiply", "max", "min", "abs"}
  BY MaskAssumption, SMT DEF Inv, TypeOK, Values, Ops
<1>4. CASE call.op = "greater"
  <2>1. result' = Bit /\ pc' = "done" /\ operands' = operands
    BY <1>4 DEF ReceiveBit
  <2>2. Bit = IF call.b < call.a THEN 1 ELSE 0
    BY <1>2, <1>4 DEF FirstOperands
  <2>3. result' = IF call.a > call.b THEN 1 ELSE 0 BY <1>3, <2>1, <2>2, SMT
  <2>4. ResultExact' BY <1>1, <1>4, <2>3 DEF ResultExact, Meaning
  <2>5. TypeOK'
    <3>1. result' \in Int BY <2>3, SMT
    <3> QED BY <1>1, <2>1, <3>1 DEF Inv, TypeOK
  <2> QED BY <1>1, <2>1, <2>4, <2>5 DEF Inv, OperandsFollow, Comparing, Multiplying,
             QuestionDecides, ComparisonDecides, FactorsArrive, ReplyIsMasked
<1>5. CASE call.op \in {"max", "min", "abs"}
  <2>1. result' = result /\ pc' = "multiply" /\ operands' = Factors
    BY <1>5 DEF ReceiveBit
  <2>2. Factors = FactorsOf
    <3>1. CASE call.op = "max"
      <4>1. Bit = IF call.b < call.a THEN 1 ELSE 0 BY <1>2, <3>1 DEF FirstOperands
      <4>2. Bit = IF call.a > call.b THEN 1 ELSE 0 BY <1>3, <4>1, SMT
      <4> QED BY <3>1, <4>2 DEF Factors, FactorsOf
    <3>2. CASE call.op = "min"
      <4>1. Bit = IF call.a < call.b THEN 1 ELSE 0 BY <1>2, <3>2 DEF FirstOperands
      <4> QED BY <3>2, <4>1 DEF Factors, FactorsOf
    <3>3. CASE call.op = "abs"
      <4>1. Bit = IF call.a < 0 THEN 1 ELSE 0 BY <1>2, <3>3 DEF FirstOperands
      <4>2. 1 - 2 * Bit = IF call.a < 0 THEN -1 ELSE 1 BY <4>1, SMT
      <4> QED BY <3>3, <4>2 DEF Factors, FactorsOf
    <3> QED BY <1>5, <3>1, <3>2, <3>3
  <2>3. OperandsFollow'
    <3>1. FactorsOf' = FactorsOf BY <1>1 DEF FactorsOf
    <3> QED BY <1>1, <1>5, <2>1, <2>2, <3>1 DEF OperandsFollow, Comparing, Multiplying
  <2>4. Factors \in Int \X Int
    <3>1. Bit \in Int BY <1>2, SMT
    <3> QED BY <1>3, <3>1, SMT DEF Factors
  <2>5. TypeOK' BY <1>1, <2>1, <2>4 DEF Inv, TypeOK
  <2> QED BY <2>1, <2>3, <2>5 DEF Inv, QuestionDecides, ComparisonDecides,
             FactorsArrive, ReplyIsMasked, ResultExact
<1> QED BY <1>2, <1>3, <1>4, <1>5

LEMMA MaskProductInv == Inv /\ MaskProduct => Inv'
<1> SUFFICES ASSUME Inv, MaskProduct PROVE Inv' OBVIOUS
<1> PICK r1 \in Masks, r2 \in Masks :
      /\ masks' = <<r1, r2>>
      /\ message' =
            IF Packed
            THEN <<((operands[1] + r1) * PackingBase + operands[2] + r2) % N, 0>>
            ELSE <<Plain(operands[1] + r1), Plain(operands[2] + r2)>>
  BY DEF MaskProduct
<1>1. /\ pc = "multiply" /\ pc' = "sent" /\ call' = call /\ operands' = operands
      /\ orientation' = orientation /\ result' = result
  BY DEF MaskProduct
<1>2. /\ operands[1] \in Int /\ -(2 * Bound) <= operands[1] /\ operands[1] <= 2 * Bound
      /\ operands[2] \in Int /\ -(2 * Bound) <= operands[2] /\ operands[2] <= 2 * Bound
  BY <1>1, FactorsBounded DEF Inv, Multiplying
<1>3. /\ r1 \in Int /\ r2 \in Int /\ Bound \in Nat /\ PackingBase \in Nat
      /\ Half \in Nat /\ N \in Nat /\ N > 0
      /\ r1 > 0 /\ r1 <= MaskMax /\ r2 > 0 /\ r2 <= MaskMax /\ MaskMax \in Nat
      /\ MaskMax + 2 * Bound < Half
  BY OddModulus, MaskAssumption, SMT DEF Masks
<1> DEFINE u == operands[1] + r1
           w == operands[2] + r2
<1>6. Unpacked' = <<u, w>> /\ message' \in Int \X Int
  <2>1. CASE Packed
    <3> DEFINE p == (operands[1] + r1) * PackingBase + operands[2] + r2
    <3>1. /\ p % N = p /\ p \div PackingBase = u /\ p % PackingBase = w
      BY <1>2, <2>1, PackingRoundTrip
    <3>2. message' = <<p, 0>> BY <2>1, <3>1
    <3>3. Unpacked' = <<u, w>> BY <2>1, <3>1, <3>2 DEF Unpacked
    <3>4. p \in Int BY <1>2, <1>3, SMT
    <3>5. message' \in Int \X Int
      <4> HIDE DEF p
      <4> QED BY <3>2, <3>4, SMT
    <3> QED BY <3>3, <3>5
  <2>2. CASE ~Packed
    <3>1. /\ u \in Int /\ -Half <= u /\ u <= Half /\ u = N * 0 + u
          /\ w \in Int /\ -Half <= w /\ w <= Half /\ w = N * 0 + w
      BY <1>2, <1>3, SMT
    <3> HIDE DEF u, w
    <3>2. Plain(u) = u /\ Plain(w) = w BY <3>1, 0 \in Int, PlainUnwraps
    <3> USE DEF u, w
    <3>3. message' = <<u, w>> BY <2>2, <3>2
    <3>4. Unpacked' = <<u, w>> BY <2>2, <3>3 DEF Unpacked
    <3> HIDE DEF u, w
    <3> QED BY <3>1, <3>3, <3>4, SMT
  <2> QED BY <2>1, <2>2
<1>7. masks' \in Masks \X Masks /\ masks' \in Int \X Int BY <1>3, SMT
<1>8. TypeOK' BY <1>1, <1>6, <1>7 DEF Inv, TypeOK
<1>9. FactorsArrive' BY <1>1, <1>6 DEF FactorsArrive
<1>10. OperandsFollow'
  <2>1. FactorsOf' = FactorsOf BY <1>1 DEF FactorsOf
  <2> QED BY <1>1, <2>1 DEF Inv, OperandsFollow, Comparing, Multiplying
<1> QED BY <1>1, <1>7, <1>8, <1>9, <1>10 DEF Inv, QuestionDecides, ComparisonDecides,
           ReplyIsMasked, ResultExact

LEMMA ServeProductInv == Inv /\ ServeProduct => Inv'
<1> SUFFICES ASSUME Inv, ServeProduct PROVE Inv' OBVIOUS
<1>1. /\ pc = "sent" /\ pc' = "returned" /\ call' = call /\ operands' = operands
      /\ masks' = masks /\ orientation' = orientation /\ result' = result
      /\ message' = <<(Unpacked[1] * Unpacked[2]) % N, 0>>
  BY DEF ServeProduct
<1>2. /\ Unpacked = <<operands[1] + masks[1], operands[2] + masks[2]>>
      /\ masks \in Masks \X Masks
  BY <1>1 DEF Inv, FactorsArrive, ReplyIsMasked
<1>3. message'[1] = ((operands[1] + masks[1]) * (operands[2] + masks[2])) % N
  BY <1>1, <1>2
<1>4. message' \in Int \X Int
  <2> DEFINE v == (operands[1] + masks[1]) * (operands[2] + masks[2])
  <2>1. operands \in Int \X Int /\ masks \in Int \X Int BY DEF Inv, TypeOK
  <2>2. v \in Int BY <2>1, SMT
  <2>3. N \in Nat /\ N > 0 BY OddModulus, SMT
  <2> HIDE DEF v
  <2>4. v % N \in Int BY <2>2, <2>3, Division, SMT
  <2>5. message' = <<v % N, 0>> BY <1>1, <1>2 DEF v
  <2> QED BY <2>4, <2>5, SMT
<1>5. TypeOK' BY <1>1, <1>4 DEF Inv, TypeOK
<1>6. ReplyIsMasked' BY <1>1, <1>2, <1>3 DEF ReplyIsMasked
<1>7. OperandsFollow'
  <2>1. FactorsOf' = FactorsOf BY <1>1 DEF FactorsOf
  <2> QED BY <1>1, <2>1 DEF Inv, OperandsFollow, Comparing, Multiplying
<1> QED BY <1>1, <1>5, <1>6, <1>7 DEF Inv, QuestionDecides, ComparisonDecides,
           FactorsArrive, ResultExact

LEMMA ReceiveProductInv == Inv /\ ReceiveProduct => Inv'
<1> SUFFICES ASSUME Inv, ReceiveProduct PROVE Inv' OBVIOUS
<1>1. /\ pc = "returned" /\ pc' = "done" /\ call' = call /\ operands' = operands
      /\ masks' = masks /\ orientation' = orientation /\ message' = message
      /\ result' = Product + (IF call.op \in {"max", "min"} THEN call.b ELSE 0)
  BY DEF ReceiveProduct
<1>2. /\ operands[1] \in Int /\ operands[2] \in Int
      /\ -Half <= operands[1] * operands[2] /\ operands[1] * operands[2] <= Half
  BY <1>1, FactorsBounded DEF Inv, Multiplying
<1>3. /\ masks[1] \in Int /\ masks[2] \in Int
      /\ message[1] = ((operands[1] + masks[1]) * (operands[2] + masks[2])) % N
  BY <1>1, SMT DEF Inv, TypeOK, ReplyIsMasked
<1>4. Product = operands[1] * operands[2]
  <2>1. Plain((((operands[1] + masks[1]) * (operands[2] + masks[2])) % N)
              - operands[1] * masks[2] - operands[2] * masks[1] - masks[1] * masks[2])
          = operands[1] * operands[2]
    <3>1. \A x, y, r1, r2 \in Int :
            /\ -Half <= x * y
            /\ x * y <= Half
            => Plain((((x + r1) * (y + r2)) % N) - x * r2 - y * r1 - r1 * r2) = x * y
      BY MasksCancel
    <3> DEFINE x == operands[1]
               y == operands[2]
               r1 == masks[1]
               r2 == masks[2]
    <3>2. x \in Int /\ y \in Int /\ r1 \in Int /\ r2 \in Int BY <1>2, <1>3
    <3>3. -Half <= x * y /\ x * y <= Half BY <1>2
    <3> HIDE DEF x, y, r1, r2
    <3>4. Plain((((x + r1) * (y + r2)) % N) - x * r2 - y * r1 - r1 * r2) = x * y
      BY ONLY <3>1, <3>2, <3>3, Zenon
    <3> QED BY <3>4 DEF x, y, r1, r2
  <2> QED BY <1>3, <2>1 DEF Product
<1>5. operands = FactorsOf /\ call.op # "greater"
  BY <1>1 DEF Inv, OperandsFollow, Multiplying
<1>6. /\ call.a \in Int /\ call.b \in Int
      /\ call.op \in {"greater", "multiply", "max", "min", "abs"}
  BY MaskAssumption, SMT DEF Inv, TypeOK, Values, Ops
<1>7. result' = Meaning /\ result' \in Int
  <2>1. CASE call.op = "multiply"
    <3>1. result' = operands[1] * operands[2] + 0 BY <1>1, <1>4, <2>1
    <3>2. operands = <<call.a, call.b>> BY <1>5, <2>1 DEF FactorsOf
    <3>3. result' = call.a * call.b /\ result' \in Int BY <1>6, <3>1, <3>2, SMT
    <3> QED BY <2>1, <3>3 DEF Meaning
  <2>2. CASE call.op = "max"
    <3>1. result' = operands[1] * operands[2] + call.b BY <1>1, <1>4, <2>2
    <3>2. /\ operands[1] = IF call.a > call.b THEN 1 ELSE 0
          /\ operands[2] = call.a - call.b
      BY <1>5, <2>2 DEF FactorsOf
    <3>3. /\ result' = IF call.a > call.b THEN call.a ELSE call.b
          /\ result' \in Int
      BY <1>6, <3>1, <3>2, SMT
    <3> QED BY <2>2, <3>3 DEF Meaning
  <2>3. CASE call.op = "min"
    <3>1. result' = operands[1] * operands[2] + call.b BY <1>1, <1>4, <2>3
    <3>2. /\ operands[1] = IF call.a < call.b THEN 1 ELSE 0
          /\ operands[2] = call.a - call.b
      BY <1>5, <2>3 DEF FactorsOf
    <3>3. /\ result' = IF call.a < call.b THEN call.a ELSE call.b
          /\ result' \in Int
      BY <1>6, <3>1, <3>2, SMT
    <3> QED BY <2>3, <3>3 DEF Meaning
  <2>4. CASE call.op = "abs"
    <3>1. result' = operands[1] * operands[2] + 0 BY <1>1, <1>4, <2>4
    <3>2. /\ operands[1] = IF call.a < 0 THEN -1 ELSE 1
          /\ operands[2] = call.a
      BY <1>5, <2>4 DEF FactorsOf
    <3>3. /\ result' = IF call.a < 0 THEN -call.a ELSE call.a
          /\ result' \in Int
      BY <1>6, <3>1, <3>2, SMT
    <3> QED BY <2>4, <3>3 DEF Meaning
  <2> QED BY <1>5, <1>6, <2>1, <2>2, <2>3, <2>4
<1>8. ResultExact'
  <2>1. Meaning' = Meaning BY <1>1 DEF Meaning
  <2> QED BY <1>7, <2>1 DEF ResultExact
<1>9. TypeOK' BY <1>1, <1>7 DEF Inv, TypeOK
<1> QED BY <1>1, <1>8, <1>9 DEF Inv, OperandsFollow, Comparing, Multiplying, QuestionDecides,
           ComparisonDecides, FactorsArrive, ReplyIsMasked

LEMMA StutterInv == Inv /\ UNCHANGED vars => Inv'
<1> SUFFICES ASSUME Inv, UNCHANGED vars PROVE Inv' OBVIOUS
<1>1. /\ call' = call /\ pc' = pc /\ operands' = operands /\ masks' = masks
      /\ orientation' = orientation /\ message' = message /\ result' = result
  BY DEF vars
<1>2. /\ FactorsOf' = FactorsOf /\ Bit' = Bit /\ Unpacked' = Unpacked
      /\ Meaning' = Meaning
  BY <1>1 DEF FactorsOf, Bit, Unpacked, Meaning
<1>3. TypeOK' /\ OperandsFollow'
  BY <1>1, <1>2 DEF Inv, TypeOK, OperandsFollow, Comparing, Multiplying
<1>4. QuestionDecides' /\ ComparisonDecides'
  BY <1>1, <1>2 DEF Inv, QuestionDecides, ComparisonDecides
<1>5. FactorsArrive' /\ ReplyIsMasked' /\ ResultExact'
  BY <1>1, <1>2 DEF Inv, FactorsArrive, ReplyIsMasked, ResultExact
<1> QED BY <1>3, <1>4, <1>5 DEF Inv

LEMMA Invariance == Spec => []Inv
<1>1. Inv /\ [Next]_vars => Inv'
  BY CallInv, MaskComparisonInv, ServeComparisonInv, ReceiveBitInv, MaskProductInv,
     ServeProductInv, ReceiveProductInv, StutterInv DEF Next
<1> QED BY InitInv, <1>1, PTL DEF Spec

(* The state of the masked operations is well typed (encrypted values stay  *)
(* integers) for all parameters.                                            *)
THEOREM TypeCorrect == Spec => []TypeOK
<1>1. Inv => TypeOK BY DEF Inv
<1> QED BY Invariance, <1>1, PTL

(* The CSP's test against half of the modulus decides "left < right" for    *)
(* every modulus, mask and direction (greaterThan, soci_plus_less).         *)
THEOREM ComparisonsDecide == Spec => []ComparisonDecides
<1>1. Inv => ComparisonDecides BY DEF Inv
<1> QED BY Invariance, <1>1, PTL

(* The CSP recovers the masked factors, packed in one plaintext or apart    *)
(* (secureMultiply, soci_plus_mul).                                         *)
THEOREM FactorsAlwaysArrive == Spec => []FactorsArrive
<1>1. Inv => FactorsArrive BY DEF Inv
<1> QED BY Invariance, <1>1, PTL

(* Comparison, multiplication, maximum, minimum and absolute value return   *)
(* what they name, for every modulus, mask range and bound.                 *)
THEOREM ResultsExact == Spec => []ResultExact
<1>1. Inv => ResultExact BY DEF Inv
<1> QED BY Invariance, <1>1, PTL
=============================================================================
