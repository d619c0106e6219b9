----------------------------- MODULE EnclaveCore -----------------------------
(***************************************************************************)
(* The key state of the three enclaves - provisioning (role 0), CP (role 1)*)
(* and CSP (role 2) - and the calls that change or use it.  Each enclave   *)
(* is built with its role and is given its mode (SIM or HW) when it is     *)
(* initialised.  A key, a share or a ciphertext stands for the generation  *)
(* of primes it comes from.                                                *)
(***************************************************************************)
EXTENDS Integers, Sequences

CONSTANTS
  MaxGeneration,  (* bound: keys that are ever generated                   *)
  Garbage         (* a decryption that has nothing to do with its plaintext*)

Roles == 0..2
Modes == 1..2

VARIABLES
  enclave,     (* the static variables of each enclave                     *)
  generation,  (* generations of primes so far                             *)
  sealed,      (* every sealed key or share there is                       *)
  code         (* result of the last call that a test program made         *)

enclaveVars == <<enclave, generation, sealed, code>>

NoKey == [generation |-> 0, mode |-> 0, role |-> 0]
Fresh == [initialized |-> FALSE, mode |-> 0, role |-> 0,
          keyed |-> FALSE, ready |-> FALSE, key |-> NoKey]

EnclaveInit ==
  /\ enclave = [r \in Roles |-> Fresh]
  /\ generation = 0 /\ sealed = {} /\ code = "OK"

KeyOf(g, mode, role) == [generation |-> g, mode |-> mode, role |-> role]
Reply(result, e)     == [result |-> result, enclave |-> e]

-----------------------------------------------------------------------------
(* Calls that change the key, as the replies that are possible. *)

(* clear_key, which does nothing unless the numbers are initialised. *)
Cleared(e) ==
  IF e.ready THEN [e EXCEPT !.ready = FALSE, !.keyed = FALSE, !.key = NoKey] ELSE e

(* Mutant of Initialize: an earlier key survives. *)
InitializeKeepingKey(e, binary, role, mode) ==
  IF role # binary \/ mode \notin Modes THEN Reply("INVALID", e)
  ELSE Reply("OK", [e EXCEPT !.mode = mode, !.role = role, !.initialized = TRUE])

Initialize(e, binary, role, mode) ==
  IF role # binary \/ mode \notin Modes THEN Reply("INVALID", e)
  ELSE Reply("OK", [Cleared(e) EXCEPT !.mode = mode, !.role = role, !.initialized = TRUE])

(* Both key generations: refused out of turn or with a header of another    *)
(* mode; no primes, or no inverse; a buffer that is too small, which leaves *)
(* the numbers in place but unusable; and success.  A failure to seal       *)
(* clears the key of a threshold generation only.                           *)
Generate(e, binary, mode, g, threshold) ==
  IF ~e.initialized \/ binary # 0 THEN {Reply("STATE", e)}
  ELSE IF mode # e.mode THEN {Reply("INVALID", e)}
  ELSE LET drawn == [Cleared(e) EXCEPT !.ready = TRUE, !.key = KeyOf(g, e.mode, 0)]
       IN  {Reply("CRYPTO", Cleared(e)), Reply("BUFFER", drawn),
            Reply("CRYPTO", IF threshold THEN Cleared(e) ELSE drawn),
            Reply("OK", [drawn EXCEPT !.keyed = TRUE])}

(* What a generation seals: the whole key, or one share for each party.     *)
Sealed(g, mode, threshold) ==
  {KeyOf(g, mode, role) : role \in IF threshold THEN {1, 2} ELSE {0}}

(* Mutant of LoadSealedKey: the old key is cleared before the new one is    *)
(* looked at.                                                               *)
LoadSealedKeyEarly(e, blob) ==
  IF ~e.initialized THEN Reply("INVALID", e)
  ELSE IF blob.mode # e.mode \/ blob.role # e.role THEN Reply("INVALID", Cleared(e))
  ELSE Reply("OK", [e EXCEPT !.ready = TRUE, !.keyed = TRUE, !.key = blob])

(* The blob is one that an enclave sealed, so that it parses once it is     *)
(* authentic: the refusal behind clear_key is left out.                     *)
LoadSealedKey(e, blob) ==
  IF ~e.initialized \/ blob.mode # e.mode \/ blob.role # e.role
  THEN Reply("INVALID", e)
  ELSE Reply("OK", [Cleared(e) EXCEPT !.ready = TRUE, !.keyed = TRUE, !.key = blob])

Close(e) ==
  Reply("OK", [Cleared(e) EXCEPT !.initialized = FALSE, !.mode = 0, !.role = 0])

-----------------------------------------------------------------------------
(* Calls that use the key.  The number behind a ciphertext of another       *)
(* generation may or may not be below the square of the modulus, and what   *)
(* it decrypts to has nothing to do with its plaintext.                     *)
(* The partial decryptions that are possible, one of which may be none.     *)
PartialDecrypt(e, c) ==
  IF ~e.initialized \/ ~e.keyed \/ e.role \notin {1, 2} THEN {}
  ELSE {[of |-> c, key |-> e.key.generation, share |-> e.role]}

PartialInvalid(e, c) ==
  PartialDecrypt(e, c) = {} \/ c.modulus # e.key.generation

(* Mutant of Combine: no test that the modulus divides the combined power.  *)
CombineUntested(e, u1, u2) ==
  IF ~e.initialized \/ ~e.keyed \/ e.role # 2 THEN {}
  ELSE {IF /\ {u1.share, u2.share} = {1, 2} /\ u1.of = u2.of
           /\ u1.key = e.key.generation /\ u2.key = e.key.generation
           /\ u1.of.modulus = e.key.generation
        THEN u1.of.value ELSE Garbage}

(* Two shares of one generation make a power that is one modulo the         *)
(* modulus, whatever the ciphertext; others do so with negligible           *)
(* probability, and the modulus does not divide u - 1.                      *)
Combine(e, u1, u2) ==
  IF \/ ~e.initialized \/ ~e.keyed \/ e.role # 2
     \/ {u1.share, u2.share} # {1, 2} \/ u1.of # u2.of
     \/ u1.key # e.key.generation \/ u2.key # e.key.generation
  THEN {}
  ELSE {IF u1.of.modulus = e.key.generation THEN u1.of.value ELSE Garbage}

-----------------------------------------------------------------------------
(* The calls in any order, as tests and benchmarks make them.               *)
Called(r, reply) ==
  /\ enclave' = [enclave EXCEPT ![r] = reply.enclave]
  /\ code' = reply.result

CallInitialize ==
  \E r, role \in Roles, mode \in Modes \cup {0} :
    /\ Called(r, Initialize(enclave[r], r, role, mode))
    /\ UNCHANGED <<generation, sealed>>

CallGenerate ==
  \E r \in Roles, mode \in Modes, threshold \in BOOLEAN :
    /\ generation < MaxGeneration
    /\ \E reply \in Generate(enclave[r], r, mode, generation + 1, threshold) :
         /\ Called(r, reply)
         /\ generation' = IF reply.result \in {"STATE", "INVALID"}
                          THEN generation ELSE generation + 1
         /\ sealed' = IF reply.result # "OK" THEN sealed
                      ELSE sealed \cup Sealed(generation + 1, mode, threshold)

CallLoadSealedKey ==
  \E r \in Roles, blob \in sealed :
    /\ Called(r, LoadSealedKey(enclave[r], blob))
    /\ UNCHANGED <<generation, sealed>>

CallClose ==
  \E r \in Roles :
    /\ Called(r, Close(enclave[r]))
    /\ UNCHANGED <<generation, sealed>>

EnclaveNext == CallInitialize \/ CallGenerate \/ CallLoadSealedKey \/ CallClose

-----------------------------------------------------------------------------
(* A key that an enclave would use is complete, sealed or generated for     *)
(* that enclave's role, and of the mode it was initialised with, after any  *)
(* sequence of accepted, refused and failed calls; a generation whose       *)
(* output did not fit, or failed, is never used.                            *)
KeysBelong ==
  \A r \in Roles : LET e == enclave[r] IN
    /\ e.keyed => /\ e.ready /\ e.initialized /\ e.role = r
                  /\ e.key.role = r /\ e.key.mode = e.mode
                  /\ r = 0 \/ e.key \in sealed
    /\ ~e.ready => e.key = NoKey

(* A call that is refused for its input or its order changes nothing.       *)
RefusalsChangeNothing ==
  [][code' \in {"INVALID", "STATE"} => UNCHANGED <<enclave, sealed>>]_enclaveVars
=============================================================================
