-------------------------- MODULE MaskedArithmetic --------------------------
(***************************************************************************)
(* Comparison and multiplication of encrypted integers by two parties, and *)
(* the operations of SecureOps built from them.  The caller masks the      *)
(* operands, the CSP decrypts the masked values and computes on them, the  *)
(* caller removes the masks from the encrypted reply.                      *)
(*                                                                         *)
(* A ciphertext is represented by its plaintext.  What is decrypted is an  *)
(* element of 0 .. N-1; Plain reads it back as a signed integer.  Packed   *)
(* is TRUE for the threshold protocol, which sends both masked factors in  *)
(* one plaintext, FALSE for the OFF backend, which decrypts them apart.    *)
(***************************************************************************)
EXTENDS Integers

CONSTANTS
  N,           (* the Paillier modulus                                     *)
  MaskMin,     (* masks are drawn from MaskMin .. MaskMax: 2^127 .. 2^128-1 *)
  MaskMax,     (* in the threshold protocol, 1 .. 2^128-1 in the backend   *)
  PackingBase, (* 2^130                                                    *)
  Bound,       (* largest magnitude of an operand of a call                *)
  Packed

Half == N \div 2

(* Half of what a domain allows for a factor leaves room for the difference *)
(* of two operands, which select multiplies.                                *)
ASSUME MaskAssumption ==
  /\ N \in Nat /\ MaskMin \in Nat /\ MaskMax \in Nat
  /\ PackingBase \in Nat /\ Bound \in Nat /\ Packed \in BOOLEAN
  /\ N % 2 = 1 /\ 1 <= MaskMin /\ 1 <= Bound
  /\ Packed => /\ 2 * Bound < MaskMin
               /\ MaskMax + 2 * Bound < PackingBase
               /\ PackingBase * PackingBase <= N
  /\ MaskMax * (2 * Bound + 2) < Half
  /\ MaskMax + 2 * Bound < Half
  /\ (Bound + 1) * (Bound + 1) < Half

(* Mutant of Masks: random bits without the leading one. *)
MasksNoOffset == 0 .. MaskMax - MaskMin

Masks  == MaskMin .. MaskMax
Values == -Bound .. Bound

Ops == {"greater", "multiply", "max", "min"} \cup (IF Packed THEN {} ELSE {"abs"})

VARIABLES
  call,        (* the operation in progress and its operands               *)
  pc,
  operands,    (* of the comparison (left, right) or multiplication        *)
  masks,       (* the two random numbers drawn for it                      *)
  orientation, (* the random direction of the comparison                   *)
  message,     (* what the CSP decrypts, then what its reply encrypts      *)
  result

vars == <<call, pc, operands, masks, orientation, message, result>>

(* The signed integer that a plaintext modulo N stands for. *)
Plain(v) == IF v % N > Half THEN (v % N) - N ELSE v % N

Init ==
  /\ call = [op |-> "multiply", a |-> 0, b |-> 0]
  /\ pc = "idle" /\ operands = <<0, 0>> /\ masks = <<0, 0>>
  /\ orientation = FALSE /\ message = <<0, 0>> /\ result = 0

(* The primitive computes "left < right": greaterThan swaps its operands,   *)
(* min asks for a < b, max for a > b, abs for the sign of a.                *)
FirstOperands(op, a, b) ==
  IF op \in {"greater", "max"} THEN <<b, a>>
  ELSE IF op = "abs" THEN <<a, 0>> ELSE <<a, b>>

Call ==
  /\ pc \in {"idle", "done"}
  /\ \E op \in Ops, a \in Values, b \in Values :
       /\ call' = [op |-> op, a |-> a, b |-> b]
       /\ operands' = FirstOperands(op, a, b)
       /\ pc' = IF op = "multiply" THEN "multiply" ELSE "compare"
  /\ masks' = <<0, 0>> /\ orientation' = FALSE
  /\ message' = <<0, 0>> /\ result' = 0

(* r3 scales the difference, r shifts it below half of the plaintext space. *)
Masked(left, right, r3, r, direction) ==
  IF direction THEN r3 * (right - left) + Half - r
  ELSE r3 * (left - right) + r3 + Half - r

(* Mutant of MaskComparison: r is drawn again only while it exceeds r3. *)
MaskComparisonEqual ==
  /\ pc = "compare"
  /\ \E r3 \in Masks, r \in Masks, direction \in BOOLEAN :
       /\ r <= r3
       /\ masks' = <<r3, r>> /\ orientation' = direction
       /\ message' = <<Masked(operands[1], operands[2], r3, r, direction) % N, 0>>
  /\ pc' = "asked"
  /\ UNCHANGED <<call, operands, result>>

MaskComparison ==
  /\ pc = "compare"
  /\ \E r3 \in Masks, r \in Masks, direction \in BOOLEAN :
       /\ r < r3
       /\ masks' = <<r3, r>> /\ orientation' = direction
       /\ message' = <<Masked(operands[1], operands[2], r3, r, direction) % N, 0>>
  /\ pc' = "asked"
  /\ UNCHANGED <<call, operands, result>>

(* CSP, request C. *)
ServeComparison ==
  /\ pc = "asked"
  /\ message' = <<IF message[1] > Half THEN 0 ELSE 1, 0>>
  /\ pc' = "answered"
  /\ UNCHANGED <<call, operands, masks, orientation, result>>

Bit == IF orientation THEN 1 - message[1] ELSE message[1]

(* The factors of the multiplication that follows the comparison. *)
Factors ==
  IF call.op = "abs" THEN <<1 - 2 * Bit, call.a>> ELSE <<Bit, call.a - call.b>>

ReceiveBit ==
  /\ pc = "answered"
  /\ IF call.op = "greater"
     THEN /\ result' = Bit /\ pc' = "done"
          /\ UNCHANGED operands
     ELSE /\ operands' = Factors /\ pc' = "multiply"
          /\ UNCHANGED result
  /\ UNCHANGED <<call, masks, orientation, message>>

MaskProduct ==
  /\ pc = "multiply"
  /\ \E r1 \in Masks, r2 \in Masks :
       /\ masks' = <<r1, r2>>
       /\ message' =
            IF Packed
            THEN <<((operands[1] + r1) * PackingBase + operands[2] + r2) % N, 0>>
            ELSE <<Plain(operands[1] + r1), Plain(operands[2] + r2)>>
  /\ pc' = "sent"
  /\ UNCHANGED <<call, operands, orientation, result>>

(* What the CSP takes for the masked factors. *)
Unpacked ==
  IF Packed THEN <<message[1] \div PackingBase, message[1] % PackingBase>>
  ELSE message

(* CSP, request M. *)
ServeProduct ==
  /\ pc = "sent"
  /\ message' = <<(Unpacked[1] * Unpacked[2]) % N, 0>>
  /\ pc' = "returned"
  /\ UNCHANGED <<call, operands, masks, orientation, result>>

Product ==
  Plain(message[1] - operands[1] * masks[2] - operands[2] * masks[1]
        - masks[1] * masks[2])

(* Mutant of ReceiveProduct: min adds the product to its other operand. *)
ReceiveProductSwapped ==
  /\ pc = "returned"
  /\ result' = Product + (IF call.op = "max" THEN call.b
                          ELSE IF call.op = "min" THEN call.a ELSE 0)
  /\ pc' = "done"
  /\ UNCHANGED <<call, operands, masks, orientation, message>>

ReceiveProduct ==
  /\ pc = "returned"
  /\ result' = Product + (IF call.op \in {"max", "min"} THEN call.b ELSE 0)
  /\ pc' = "done"
  /\ UNCHANGED <<call, operands, masks, orientation, message>>

Next ==
  \/ Call
  \/ MaskComparison \/ ServeComparison \/ ReceiveBit
  \/ MaskProduct \/ ServeProduct \/ ReceiveProduct

Spec == Init /\ [][Next]_vars

-----------------------------------------------------------------------------
(* What each operation promises. *)
Meaning ==
  CASE call.op = "greater"  -> IF call.a > call.b THEN 1 ELSE 0
    [] call.op = "multiply" -> call.a * call.b
    [] call.op = "max"      -> IF call.a > call.b THEN call.a ELSE call.b
    [] call.op = "min"      -> IF call.a < call.b THEN call.a ELSE call.b
    [] call.op = "abs"      -> IF call.a < 0 THEN -call.a ELSE call.a

(* The variables hold what the protocol's messages can carry.               *)
TypeOK ==
  /\ call \in [op : Ops, a : Values, b : Values]
  /\ pc \in {"idle", "compare", "asked", "answered", "multiply", "sent", "returned", "done"}
  /\ operands \in Int \X Int
  /\ masks \in Int \X Int
  /\ orientation \in BOOLEAN
  /\ message \in Int \X Int
  /\ result \in Int

(* The bit behind a comparison's reply is "left < right": the masked        *)
(* difference falls on the right side of half for every pair of masks, ties *)
(* included, in both directions.                                            *)
ComparisonDecides ==
  pc = "answered" => Bit = IF operands[1] < operands[2] THEN 1 ELSE 0

(* The CSP unpacks exactly the factors that were masked: no factor, the     *)
(* difference of two operands included, borrows from the other or wraps.    *)
FactorsArrive ==
  pc = "sent" => Unpacked = <<operands[1] + masks[1], operands[2] + masks[2]>>

(* Every operation ends with the value it names, whatever was drawn.        *)
ResultExact == pc = "done" => result = Meaning
=============================================================================
