------------------------------ MODULE KeyStore ------------------------------
(***************************************************************************)
(* The sealed keys of the OFF backend: create, open, rotate and delete,    *)
(* each a sequence of steps on the directory of which any may fail, in a   *)
(* process that may die between two of them.  The process is the only one  *)
(* on its directory, and the runtime's mutex makes its calls one sequence. *)
(*                                                                         *)
(* A key is its id, its version and the number of the keygen that made it. *)
(* A file is None, Torn (opened for writing but not written) or a key.     *)
(* save_off_key does not look at its stream, so that an open or a write    *)
(* may fail unnoticed.                                                     *)
(***************************************************************************)
EXTENDS Integers

CONSTANTS Ids, None, Torn, MaxKeys

VARIABLES
  file,     (* per id: <id>.skey                                          *)
  tmp,      (* per id: <id>.skey.tmp                                      *)
  key,      (* the open key                                               *)
  pc,       (* "idle", or the next step of save_off_key                   *)
  new,      (* the key being saved                                        *)
  made,     (* keygens so far, at most MaxKeys                            *)
  lastCall, (* how the last call ended: "none", "saved", "ok", "failed",  *)
            (* or "undeleted" for a delete that failed                    *)
  before,   (* history: the id given to the call, file and key as found   *)
  silent    (* history: an open or write has failed unnoticed             *)

vars == <<file, tmp, key, pc, new, made, lastCall, before, silent>>

Versions == 1 .. MaxKeys
Keys == [id : Ids, version : Versions, number : 1 .. MaxKeys]

ASSUME KeyAssumption ==
  /\ MaxKeys \in Nat
  /\ None \notin Keys /\ Torn \notin Keys /\ None # Torn

Init ==
  /\ file = [i \in Ids |-> None] /\ tmp = [i \in Ids |-> None]
  /\ key = None /\ pc = "idle" /\ new = None /\ made = 0
  /\ lastCall = "none"
  /\ before = [id |-> None, file |-> file, key |-> key] /\ silent = FALSE

(* What a call on an id finds. *)
Found(id) == before' = [id |-> id, file |-> file, key |-> key]

Generate(id, version) ==
  /\ made < MaxKeys
  /\ made' = made + 1
  /\ new' = [id |-> id, version |-> version, number |-> made + 1]
  /\ pc' = "open"
  /\ Found(id)
  /\ UNCHANGED <<file, tmp, key, lastCall, silent>>

(* soci_create_key: an existing file of that name is no obstacle. *)
Create(id) == pc = "idle" /\ Generate(id, 1)

(* soci_rotate_key: the open key must be the one named. *)
Rotate(id) ==
  /\ pc = "idle" /\ key # None /\ key.id = id
  /\ Generate(id, key.version + 1)

(* Mutant of SaveOpen: the key file itself is opened for writing. *)
SaveOpenInPlace ==
  /\ pc = "open"
  /\ file' = [file EXCEPT ![new.id] = Torn]
  /\ tmp' = [tmp EXCEPT ![new.id] = Torn]
  /\ pc' = "write"
  /\ UNCHANGED <<key, new, made, lastCall, before, silent>>

(* Mutant of SaveOpen: the key is installed before it is saved. *)
SaveOpenInstalls ==
  /\ pc = "open"
  /\ tmp' = [tmp EXCEPT ![new.id] = Torn]
  /\ key' = new
  /\ pc' = "write"
  /\ UNCHANGED <<file, new, made, lastCall, before, silent>>

(* save_off_key: truncate the temporary file, write and close it, set its   *)
(* permissions and rename it.                                               *)
SaveOpen ==
  /\ pc = "open"
  /\ tmp' = [tmp EXCEPT ![new.id] = Torn]
  /\ pc' = "write"
  /\ UNCHANGED <<file, key, new, made, lastCall, before, silent>>

SaveWrite ==
  /\ pc = "write"
  /\ tmp' = [tmp EXCEPT ![new.id] = new]
  /\ pc' = "rename"
  /\ UNCHANGED <<file, key, new, made, lastCall, before, silent>>

(* An open that fails leaves a temporary file of an earlier save as it was, *)
(* a write that fails leaves this one torn; the save goes on.               *)
SaveOpenFails ==
  /\ pc = "open"
  /\ pc' = "rename" /\ silent' = TRUE
  /\ UNCHANGED <<file, tmp, key, new, made, lastCall, before>>

SaveWriteFails ==
  /\ pc = "write"
  /\ pc' = "rename" /\ silent' = TRUE
  /\ UNCHANGED <<file, tmp, key, new, made, lastCall, before>>

(* The rename replaces the file and the caller installs the key. *)
SaveRename ==
  /\ pc = "rename" /\ tmp[new.id] # None
  /\ file' = [file EXCEPT ![new.id] = tmp[new.id]]
  /\ tmp' = [tmp EXCEPT ![new.id] = None]
  /\ key' = new /\ new' = None
  /\ pc' = "idle" /\ lastCall' = "saved"
  /\ UNCHANGED <<made, before, silent>>

(* create_directories, permissions or rename throws. *)
SaveThrows ==
  /\ pc \in {"open", "rename"}
  /\ pc' = "idle" /\ new' = None /\ lastCall' = "failed"
  /\ UNCHANGED <<file, tmp, key, made, before, silent>>

(* load_off_key: a missing or torn file fails its length or its hash. *)
Open(id) ==
  /\ pc = "idle"
  /\ Found(id)
  /\ \/ file[id] \in Keys /\ key' = file[id] /\ lastCall' = "ok"
     \/ file[id] \notin Keys /\ lastCall' = "failed" /\ UNCHANGED key
  /\ UNCHANGED <<file, tmp, pc, new, made, silent>>

(* soci_delete_key drops the open key before it removes the file, and does  *)
(* not take it back when there is no file or remove throws.                 *)
Delete(id) ==
  /\ pc = "idle"
  /\ key' = IF key # None /\ key.id = id THEN None ELSE key
  /\ Found(id)
  /\ \/ /\ file[id] # None
        /\ file' = [file EXCEPT ![id] = None] /\ lastCall' = "ok"
     \/ lastCall' = "undeleted" /\ UNCHANGED file
  /\ UNCHANGED <<tmp, pc, new, made, silent>>

(* The process dies and a new runtime starts on the directory. *)
Crash ==
  /\ key' = None /\ pc' = "idle" /\ new' = None /\ lastCall' = "none"
  /\ before' = [id |-> None, file |-> file, key |-> None]
  /\ UNCHANGED <<file, tmp, made, silent>>

Next ==
  \/ \E id \in Ids : Create(id) \/ Rotate(id) \/ Open(id) \/ Delete(id)
  \/ SaveOpen \/ SaveOpenFails \/ SaveWrite \/ SaveWriteFails
  \/ SaveRename \/ SaveThrows
  \/ Crash

Spec == Init /\ [][Next]_vars

-----------------------------------------------------------------------------
(* A version counts keygens of its id, so there are at least as many. *)
KeysMade == {k \in Keys : k.version <= made}
Files == KeysMade \cup {None, Torn}

TypeOK ==
  /\ made \in 0 .. MaxKeys
  /\ file \in [Ids -> Files] /\ tmp \in [Ids -> Files]
  /\ key \in KeysMade \cup {None} /\ new \in KeysMade \cup {None}
  /\ pc \in {"idle", "open", "write", "rename"}
  /\ (pc = "idle") <=> (new = None)
  /\ silent \in BOOLEAN

(* Unless a write failed unnoticed, no crash and no failing call leaves a   *)
(* key file that cannot be opened, and the open key is the one a new        *)
(* runtime would load from its file.                                        *)
SavedKeysOpen ==
  ~silent => /\ \A id \in Ids : file[id] # Torn
             /\ key # None => file[key.id] = key

(* A create, rotate or open that reports a failure leaves the key files     *)
(* and the open key as the call found them, whatever step of it failed.  A  *)
(* delete that fails leaves the files, too, and a key that it was not asked *)
(* to delete; the open key of that name is gone, as it is dropped first.    *)
FailedCallsChangeNothing ==
  pc = "idle" =>
    /\ lastCall \in {"failed", "undeleted"} => file = before.file
    /\ lastCall = "failed" => key = before.key
    /\ lastCall = "undeleted" /\ before.key # None =>
         (key = before.key <=> before.key.id # before.id)
=============================================================================
