----------------------------- MODULE SingleUse ------------------------------
(***************************************************************************)
(* What the predicate path promises about an identity (session, operation):*)
(* it is good for one decision.  It is opened once, and an open identity   *)
(* is decided or burnt; neither a decided nor a burnt one comes back while *)
(* the memory of the component that keeps it lasts.                        *)
(***************************************************************************)
CONSTANT Identities

VARIABLE status  (* of each identity *)

Init == status = [i \in Identities |-> "fresh"]

Open(i) ==
  /\ status[i] = "fresh"
  /\ status' = [status EXCEPT ![i] = "open"]

Decide(i) ==
  /\ status[i] = "open"
  /\ status' = [status EXCEPT ![i] = "decided"]

(* The decision fails, before or after the identity is opened. *)
Burn(i) ==
  /\ status[i] \in {"fresh", "open"}
  /\ status' = [status EXCEPT ![i] = "burnt"]

(* The component's memory is lost; no identity is open then. *)
Forget ==
  /\ \A i \in Identities : status[i] # "open"
  /\ status' = [i \in Identities |-> "fresh"]

Next == \/ \E i \in Identities : Open(i) \/ Decide(i) \/ Burn(i)
        \/ Forget

Spec == Init /\ [][Next]_status
=============================================================================
