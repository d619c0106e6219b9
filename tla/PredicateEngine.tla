--------------------------- MODULE PredicateEngine ---------------------------
(***************************************************************************)
(* PredicateEngine: the single place where an encrypted predicate may turn *)
(* into a plaintext bit.  Threads of the application call pruneNode and    *)
(* acceptCandidate on one engine.  A call computes the encrypted bit (or,  *)
(* with a fused backend, leaves that to the protocol), asks the caller's   *)
(* authorizer, consumes the operation identity under the engine's mutex    *)
(* and only then has the bit revealed.  Only the insertion is locked: the  *)
(* authorizer and the resolver run outside the mutex.                      *)
(***************************************************************************)
EXTENDS Naturals, FiniteSets

CONSTANTS
  Callers,     (* threads that share the engine                            *)
  Identities,  (* (session, operation) pairs                               *)
  MaxCalls,    (* calls a thread makes                                     *)
  None         (* no call                                                  *)

Entries == {"prune", "accept"}

(* A call: the entry point, and the context and inputs it is given.  An     *)
(* unusable context fails validate; incomplete inputs lack the incumbent's  *)
(* ciphertexts.                                                             *)
Calls == [id : Identities, entry : Entries,
          type : Entries \cup {"unusable"}, complete : BOOLEAN]

ASSUME EngineAssumption == MaxCalls \in Nat /\ None \notin Calls

VARIABLES
  fused,     (* the backend is a FusedPredicateBackend that is enabled     *)
  pc,        (* what each thread is doing                                  *)
  op,        (* each thread's call in progress                             *)
  calls,     (* calls each thread has made                                 *)
  consumed,  (* consumed_operations_                                       *)
  approved,  (* history: calls the authorizer has approved                 *)
  revealed   (* history: outcome of each identity that was passed on       *)

vars == <<fused, pc, op, calls, consumed, approved, revealed>>

Init ==
  /\ fused \in BOOLEAN
  /\ pc = [p \in Callers |-> "idle"]
  /\ op = [p \in Callers |-> None]
  /\ calls = [p \in Callers |-> 0]
  /\ consumed = {}
  /\ approved = {}
  /\ revealed = [i \in Identities |-> "no"]

-----------------------------------------------------------------------------
(* Mutant of Call: the fused backend's comparisons are computed as well. *)
CallUnfused(p, x) ==
  /\ pc[p] = "idle" /\ calls[p] < MaxCalls
  /\ calls' = [calls EXCEPT ![p] = @ + 1]
  /\ op' = [op EXCEPT ![p] = x]
  /\ pc' = [pc EXCEPT ![p] = IF ~x.complete THEN "idle" ELSE "compute"]
  /\ UNCHANGED <<fused, consumed, approved, revealed>>

(* Missing inputs are an error before anything else happens. *)
Call(p, x) ==
  /\ pc[p] = "idle" /\ calls[p] < MaxCalls
  /\ calls' = [calls EXCEPT ![p] = @ + 1]
  /\ op' = [op EXCEPT ![p] = x]
  /\ pc' = [pc EXCEPT ![p] = IF ~x.complete THEN "idle"
                             ELSE IF fused THEN "authorize" ELSE "compute"]
  /\ UNCHANGED <<fused, consumed, approved, revealed>>

(* The comparisons and gates of the unfused path, which may throw. *)
Compute(p) ==
  /\ pc[p] = "compute"
  /\ \E next \in {"authorize", "idle"} : pc' = [pc EXCEPT ![p] = next]
  /\ UNCHANGED <<fused, op, calls, consumed, approved, revealed>>

(* validate and the type check come first; the authorizer says yes, says no *)
(* or throws.                                                               *)
Usable(x) == x.type = x.entry

(* Mutant of Authorize: the authorizer's answer is ignored. *)
AuthorizeIgnored(p) ==
  /\ pc[p] = "authorize"
  /\ IF Usable(op[p])
     THEN /\ pc' = [pc EXCEPT ![p] = "consume"]
          /\ approved' \in {approved, approved \cup {op[p]}}
     ELSE pc' = [pc EXCEPT ![p] = "idle"] /\ UNCHANGED approved
  /\ UNCHANGED <<fused, op, calls, consumed, revealed>>

Authorize(p) ==
  /\ pc[p] = "authorize"
  /\ \/ /\ Usable(op[p])
        /\ pc' = [pc EXCEPT ![p] = "consume"]
        /\ approved' = approved \cup {op[p]}
     \/ /\ pc' = [pc EXCEPT ![p] = "idle"]
        /\ UNCHANGED approved
  /\ UNCHANGED <<fused, op, calls, consumed, revealed>>

(* Mutants of Consume: the insertion's result is not looked at; the set is  *)
(* looked at after the insertion.                                           *)
ConsumeAnyway(p) ==
  /\ pc[p] = "consume"
  /\ consumed' = consumed \cup {op[p].id}
  /\ pc' = [pc EXCEPT ![p] = "resolve"]
  /\ UNCHANGED <<fused, op, calls, approved, revealed>>

ConsumeThenCheck(p) ==
  /\ pc[p] = "consume"
  /\ consumed' = consumed \cup {op[p].id}
  /\ pc' = [pc EXCEPT ![p] = IF op[p].id \in consumed' THEN "idle" ELSE "resolve"]
  /\ UNCHANGED <<fused, op, calls, approved, revealed>>

(* Under the mutex. *)
Consume(p) ==
  /\ pc[p] = "consume"
  /\ consumed' = consumed \cup {op[p].id}
  /\ pc' = [pc EXCEPT ![p] = IF op[p].id \in consumed THEN "idle" ELSE "resolve"]
  /\ UNCHANGED <<fused, op, calls, approved, revealed>>

(* The resolver or the fused protocol returns the bit or throws. *)
Resolve(p) ==
  /\ pc[p] = "resolve"
  /\ pc' = [pc EXCEPT ![p] = "idle"]
  /\ \E outcome \in {"bit", "failed"} :
       revealed' = [revealed EXCEPT ![op[p].id] = outcome]
  /\ UNCHANGED <<fused, op, calls, consumed, approved>>

Step(p) == Compute(p) \/ Authorize(p) \/ Consume(p) \/ Resolve(p)

Next == \E p \in Callers : Step(p) \/ \E x \in Calls : Call(p, x)

(* A thread inside a call keeps running; the authorizer and the resolver    *)
(* return.                                                                  *)
Spec     == Init /\ [][Next]_vars
FairSpec == Spec /\ \A p \in Callers : WF_vars(Step(p))

-----------------------------------------------------------------------------
(* Every variable has its type, and a thread computes comparisons only when *)
(* the backend is not fused.                                                *)
TypeOK ==
  /\ fused \in BOOLEAN
  /\ pc \in [Callers -> {"idle", "compute", "authorize", "consume", "resolve"}]
  /\ op \in [Callers -> Calls \cup {None}]
  /\ \A p \in Callers : /\ pc[p] # "idle" => op[p] # None
                        /\ pc[p] = "compute" => ~fused
  /\ calls \in [Callers -> 0 .. MaxCalls]
  /\ consumed \subseteq Identities
  /\ approved \subseteq Calls
  /\ revealed \in [Identities -> {"no", "bit", "failed"}]

(* A call that is denied, malformed or of the wrong type burns nothing: an  *)
(* identity is consumed only by a call the authorizer approved, so a        *)
(* rejected call never spends the identity of a rightful one.               *)
ConsumedWereApproved ==
  \A i \in consumed : \E x \in approved : x.id = i /\ Usable(x)

(* Seen from outside, the engine is a single-use store of identities: the   *)
(* threads racing for one identity get at most one decision out of it.      *)
Resolving == {i \in Identities :
                \E p \in Callers : pc[p] = "resolve" /\ op[p].id = i}

Status == [i \in Identities |->
             IF i \in Resolving THEN "open"
             ELSE IF i \notin consumed THEN "fresh"
             ELSE IF revealed[i] = "bit" THEN "decided" ELSE "burnt"]

Abstract == INSTANCE SingleUse WITH status <- Status

EngineIsSingleUse == Abstract!Spec

(* An approved call's identity is not lost in the race: it, or another call *)
(* with the same identity, gets to the resolver.                            *)
ApprovedIsResolved ==
  \A i \in Identities :
    (\E p \in Callers : pc[p] = "consume" /\ op[p].id = i)
      ~> revealed[i] # "no"
=============================================================================
