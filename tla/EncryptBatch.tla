---------------------------- MODULE EncryptBatch ----------------------------
(***************************************************************************)
(* paillierEncryptBatch: one call that encrypts a sequence of plaintexts   *)
(* under one modulus.  Worker threads claim indices from a shared counter  *)
(* and write their results into the output of the call; one that throws    *)
(* keeps the first exception and moves the counter to the end.  The caller *)
(* spawns the workers one by one, joins them all and returns the output or *)
(* rethrows.  Everything the workers use lives on the caller's stack.      *)
(***************************************************************************)
EXTENDS Integers, Sequences

CONSTANTS
  Threads,  (* configured number of threads, encryptionThreadCount()       *)
  Batches,  (* the sequences of plaintexts that callers encrypt            *)
  Moduli,   (* the moduli they encrypt under                               *)
  Empty,    (* the modulus read from an empty file: no nonce is below it   *)
  None      (* no ciphertext, no index                                     *)

ASSUME BatchAssumption ==
  /\ Threads \in Nat \ {0}
  /\ \A ps \in Batches : Len(ps) \in Nat /\ DOMAIN ps = 1..Len(ps)

VARIABLES
  plaintexts, modulus,  (* the arguments of the call                       *)
  output,               (* its results so far, by index                    *)
  claimed,              (* next: how many indices have been claimed        *)
  failure,              (* an exception was kept                           *)
  worker,               (* each worker's pc and claimed index              *)
  main                  (* what the caller is doing                        *)

batchVars == <<plaintexts, modulus, output, claimed, failure, worker, main>>

NoWorker == [w \in 1..Threads |-> [pc |-> "none", index |-> None]]

BatchInit ==
  /\ plaintexts = <<>> /\ modulus = Empty /\ output = <<>>
  /\ claimed = 0 /\ failure = FALSE
  /\ worker = NoWorker /\ main = "idle"

Size   == Len(plaintexts)
Cipher(x) == [modulus |-> modulus, value |-> x]

(* No more workers than plaintexts. *)
Workers == {w \in 1..Threads : w <= Size}

-----------------------------------------------------------------------------
(* Nothing to do, one thread that works in place, or a pool. *)
Start(ps, m) ==
  /\ main = "idle"
  /\ plaintexts' = ps /\ modulus' = m
  /\ output' = [i \in DOMAIN ps |-> None]
  /\ claimed' = 0 /\ failure' = FALSE /\ worker' = NoWorker
  /\ main' = IF Len(ps) = 0 THEN "returned"
             ELSE IF Len(ps) = 1 \/ Threads = 1 THEN "alone" ELSE "spawning"

(* The sequential loop; an exception leaves the call with no output.        *)
EncryptAlone ==
  /\ main = "alone" /\ modulus # Empty
  /\ output' = [i \in 1..Size |-> Cipher(plaintexts[i])]
  /\ main' = "returned"
  /\ UNCHANGED <<plaintexts, modulus, claimed, failure, worker>>

ThrowAlone ==
  /\ main = "alone"
  /\ main' = "thrown"
  /\ UNCHANGED <<plaintexts, modulus, output, claimed, failure, worker>>

Spawn ==
  /\ main = "spawning"
  /\ \E w \in Workers :
       /\ worker[w].pc = "none"
       /\ \A v \in Workers : v < w => worker[v].pc # "none"
       /\ worker' = [worker EXCEPT ![w].pc = "claim"]
  /\ main' = IF \A w \in Workers : worker'[w].pc # "none" THEN "joining" ELSE main
  /\ UNCHANGED <<plaintexts, modulus, output, claimed, failure>>

(* A thread that cannot be created is an exception of the call; with other  *)
(* workers joinable it destroys their handles, which terminates the process.*)
SpawnFails ==
  /\ main = "spawning"
  /\ main' = IF worker = NoWorker THEN "thrown" ELSE "terminated"
  /\ worker' = NoWorker
  /\ UNCHANGED <<plaintexts, modulus, output, claimed, failure>>

(* Mutant of Claim: the counter is read, and written back later. *)
ClaimTorn(w) ==
  /\ worker[w].pc = "claim"
  /\ claimed' \in {claimed, claimed + 1}
  /\ worker' = [worker EXCEPT ![w] =
                  IF claimed < Size THEN [pc |-> "encrypt", index |-> claimed + 1]
                                    ELSE [pc |-> "exited", index |-> None]]
  /\ UNCHANGED <<plaintexts, modulus, output, failure, main>>

(* fetch_add: past the end, the worker returns. *)
Claim(w) ==
  /\ worker[w].pc = "claim"
  /\ claimed' = claimed + 1
  /\ worker' = [worker EXCEPT ![w] =
                  IF claimed < Size THEN [pc |-> "encrypt", index |-> claimed + 1]
                                    ELSE [pc |-> "exited", index |-> None]]
  /\ UNCHANGED <<plaintexts, modulus, output, failure, main>>

Encrypt(w) ==
  /\ worker[w].pc = "encrypt" /\ modulus # Empty
  /\ output' = [output EXCEPT ![worker[w].index] = Cipher(plaintexts[worker[w].index])]
  /\ worker' = [worker EXCEPT ![w] = [pc |-> "claim", index |-> None]]
  /\ UNCHANGED <<plaintexts, modulus, claimed, failure, main>>

(* paillierEncrypt throws: no random numbers, no memory, or no modulus.     *)
Throw(w) ==
  /\ worker[w].pc = "encrypt"
  /\ worker' = [worker EXCEPT ![w].pc = "caught"]
  /\ UNCHANGED <<plaintexts, modulus, output, claimed, failure, main>>

(* The handler, under failure_mutex. *)
Catch(w) ==
  /\ worker[w].pc = "caught"
  /\ failure' = TRUE
  /\ claimed' = Size
  /\ worker' = [worker EXCEPT ![w] = [pc |-> "exited", index |-> None]]
  /\ UNCHANGED <<plaintexts, modulus, output, main>>

Join ==
  /\ main = "joining"
  /\ \A w \in Workers : worker[w].pc = "exited"
  /\ main' = IF failure THEN "thrown" ELSE "returned"
  /\ UNCHANGED <<plaintexts, modulus, output, claimed, failure, worker>>

(* The stack of the call is gone. *)
Forget ==
  /\ plaintexts' = <<>> /\ modulus' = Empty /\ output' = <<>>
  /\ claimed' = 0 /\ failure' = FALSE
  /\ worker' = NoWorker /\ main' = "idle"

(* The caller has taken the output or the exception. *)
Release == main \in {"returned", "thrown"} /\ Forget

(* What the threads of a call do between Start and Release. *)
WorkerStep(w) == Claim(w) \/ Encrypt(w) \/ Throw(w) \/ Catch(w)
CallerStep    == EncryptAlone \/ ThrowAlone \/ Spawn \/ SpawnFails \/ Join
PoolStep      == CallerStep \/ \E w \in 1..Threads : WorkerStep(w)

BatchNext ==
  \/ \E ps \in Batches, m \in Moduli : Start(ps, m)
  \/ PoolStep
  \/ Release

BatchSpec == BatchInit /\ [][BatchNext]_batchVars

-----------------------------------------------------------------------------
Busy(w) == worker[w].pc \in {"encrypt", "caught"}

(* No index is in two hands or encrypted twice, so no two workers write the *)
(* same element of the output.                                              *)
ClaimedOnce ==
  \A w \in 1..Threads : Busy(w) =>
    /\ worker[w].index \in 1..Size /\ output[worker[w].index] = None
    /\ \A v \in 1..Threads \ {w} : Busy(v) => worker[v].index # worker[w].index

(* A call that returns has encrypted every plaintext, in order.             *)
ReturnsAll ==
  main = "returned" => output = [i \in 1..Size |-> Cipher(plaintexts[i])]

(* No worker outlives the call whose stack it uses.                         *)
NoneOutlives ==
  main \in {"idle", "returned", "thrown", "terminated"} =>
    \A w \in 1..Threads : worker[w].pc \in {"none", "exited"}

(* What the pool of workers owes its caller: all or an exception, with no   *)
(* two workers on one element and none left behind.                         *)
BatchSafe == ClaimedOnce /\ ReturnsAll /\ NoneOutlives
=============================================================================
