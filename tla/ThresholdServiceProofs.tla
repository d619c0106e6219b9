----------------------- MODULE ThresholdServiceProofs -----------------------
(***************************************************************************)
(* The service, for every number of threads, of generations and of calls:  *)
(* enclaves use the keys they should, the pools of both sides are safe     *)
(* where the service runs them, refused calls change nothing, and          *)
(* undisturbed processes answer rightly.  The last rests on which          *)
(* generation of keys stands behind each file, process, share and message. *)
(***************************************************************************)
EXTENDS ThresholdService, TLAPS

-----------------------------------------------------------------------------
(* The pool.  EncryptBatch is safe for every number of threads, every batch *)
(* and every pattern of failures: no element is written twice, a call that  *)
(* returns has encrypted everything, and no worker outlives its call.  The  *)
(* invariant accounts for every index that was claimed: until something     *)
(* fails, it is done or in the hands of one worker, and a worker only       *)
(* leaves when nothing is left to claim.                                    *)
PoolRunning == main \in {"spawning", "joining"}

BatchType ==
  /\ Size \in Nat /\ claimed \in Nat /\ failure \in BOOLEAN
  /\ output = [i \in 1..Size |-> output[i]]
  /\ worker \in [1..Threads -> [pc : {"none", "claim", "encrypt", "caught", "exited"},
                                index : Nat \cup {None}]]
  /\ main \in {"idle", "alone", "spawning", "joining", "returned", "thrown", "terminated"}

(* What a worker holds is claimed, not done, and its own.                   *)
Held ==
  \A w \in 1..Threads : Busy(w) =>
    /\ worker[w].index \in 1..Size /\ worker[w].index <= claimed
    /\ output[worker[w].index] = None
    /\ \A v \in 1..Threads \ {w} : Busy(v) => worker[v].index # worker[w].index

(* Every index is unclaimed and not done; or done; or held.                 *)
Unclaimed == PoolRunning => \A i \in 1..Size : i > claimed => output[i] = None

Accounted ==
  PoolRunning /\ ~failure =>
    \A i \in 1..Size : i <= claimed =>
      \/ output[i] = Cipher(plaintexts[i]) /\ modulus # Empty
      \/ \E w \in 1..Threads : Busy(w) /\ worker[w].index = i

(* The workers of a pool, and no others, start; they leave when nothing is  *)
(* left to claim.                                                           *)
Staffed ==
  /\ PoolRunning => Size > 0
  /\ ~PoolRunning => \A w \in 1..Threads : worker[w].pc \in {"none", "exited"}
  /\ \A w \in 1..Threads :
       /\ w > Size => worker[w].pc = "none"
       /\ worker[w].pc = "exited" => claimed >= Size

(* A call that returns had a modulus, unless it had nothing to encrypt.     *)
Returned ==
  ReturnsAll /\ (main = "returned" /\ Size > 0 => modulus # Empty)

BatchInvariant == BatchType /\ Held /\ Unclaimed /\ Accounted /\ Staffed /\ Returned

-----------------------------------------------------------------------------
(* A call has no workers before its pool runs, nor after it is over.        *)
LEMMA InitEstablishes == BatchInit => BatchInvariant
<1> SUFFICES ASSUME BatchInit PROVE BatchInvariant
  OBVIOUS
<1>1. /\ plaintexts = <<>> /\ output = <<>> /\ claimed = 0 /\ failure = FALSE
      /\ worker = NoWorker /\ main = "idle"
  BY DEF BatchInit
<1>2. Size = 0 /\ 1..Size = {} /\ output = [i \in 1..Size |-> output[i]]
  BY <1>1 DEF Size
<1>3. \A w \in 1..Threads : worker[w].pc = "none"
  BY <1>1 DEF NoWorker
<1>4. BatchType
  BY <1>1, <1>2 DEF BatchType, NoWorker
<1>5. Held /\ Unclaimed /\ Accounted /\ Staffed /\ Returned
  BY <1>1, <1>2, <1>3, BatchAssumption
  DEF Held, Unclaimed, Accounted, Staffed, Returned, ReturnsAll, PoolRunning, Busy
<1> QED BY <1>4, <1>5 DEF BatchInvariant

LEMMA ForgetPreserves == Forget => BatchInvariant'
<1> SUFFICES ASSUME Forget PROVE BatchInvariant'
  OBVIOUS
<1>1. /\ plaintexts' = <<>> /\ output' = <<>> /\ claimed' = 0 /\ failure' = FALSE
      /\ worker' = NoWorker /\ main' = "idle"
  BY DEF Forget
<1>2. Size' = 0 /\ 1..Size' = {} /\ output' = [i \in 1..Size' |-> output'[i]]
  BY <1>1 DEF Size
<1>3. \A w \in 1..Threads : worker'[w].pc = "none"
  BY <1>1 DEF NoWorker
<1>4. BatchType'
  BY <1>1, <1>2 DEF BatchType, NoWorker
<1>5. Held' /\ Unclaimed' /\ Accounted' /\ Staffed' /\ Returned'
  BY <1>1, <1>2, <1>3, BatchAssumption
  DEF Held, Unclaimed, Accounted, Staffed, Returned, ReturnsAll, PoolRunning, Busy
<1> QED BY <1>4, <1>5 DEF BatchInvariant

LEMMA StartPreserves ==
  ASSUME BatchInvariant, NEW ps, NEW m, Start(ps, m),
         Len(ps) \in Nat, DOMAIN ps = 1..Len(ps)
  PROVE  BatchInvariant'
<1>1. Len(ps) \in Nat /\ DOMAIN ps = 1..Len(ps)
  OBVIOUS
<1>2. /\ plaintexts' = ps /\ modulus' = m /\ claimed' = 0 /\ failure' = FALSE
      /\ output' = [i \in 1..Len(ps) |-> None] /\ worker' = NoWorker
  BY <1>1 DEF Start
<1>3. /\ Len(ps) = 0 => main' = "returned"
      /\ Len(ps) # 0 => main' \in {"alone", "spawning"}
  BY DEF Start
<1>4. BatchType'
  BY <1>1, <1>2, <1>3, BatchAssumption DEF BatchType, Size, NoWorker
<1>5. \A w \in 1..Threads : worker'[w].pc = "none"
  BY <1>2 DEF NoWorker
<1>6. Held' /\ Unclaimed' /\ Accounted' /\ Staffed'
  BY <1>1, <1>2, <1>3, <1>5 DEF Held, Unclaimed, Accounted, Staffed, Size, Busy, PoolRunning
<1>7. Returned'
  BY <1>1, <1>2, <1>3 DEF Returned, ReturnsAll, Size
<1> QED BY <1>4, <1>6, <1>7 DEF BatchInvariant

(* The sequential loop has no workers.                                      *)
LEMMA AlonePreserves ==
  ASSUME BatchInvariant, EncryptAlone \/ ThrowAlone
  PROVE  BatchInvariant'
<1>1. CASE EncryptAlone
  BY <1>1 DEF EncryptAlone, BatchInvariant, BatchType, Held, Unclaimed, Accounted,
              Staffed, Returned, ReturnsAll, PoolRunning, Size, Busy, Cipher
<1>2. CASE ThrowAlone
  BY <1>2 DEF ThrowAlone, BatchInvariant, BatchType, Held, Unclaimed, Accounted,
              Staffed, Returned, ReturnsAll, PoolRunning, Size, Busy, Cipher
<1> QED BY <1>1, <1>2

(* A new worker holds nothing.                                              *)
LEMMA SpawnPreserves ==
  ASSUME BatchInvariant, Spawn \/ SpawnFails
  PROVE  BatchInvariant'
<1>1. CASE Spawn
  <2>1. PICK w \in Workers : /\ worker[w].pc = "none"
                             /\ worker' = [worker EXCEPT ![w].pc = "claim"]
    BY <1>1 DEF Spawn
  <2>2. /\ main = "spawning" /\ main' \in {"spawning", "joining"}
        /\ UNCHANGED <<plaintexts, modulus, output, claimed, failure>>
    BY <1>1 DEF Spawn
  <2>3. w \in 1..Threads /\ w <= Size
    BY DEF Workers
  <2>4. BatchType'
    BY <2>1, <2>2, <2>3 DEF BatchInvariant, BatchType, Size
  <2>5. \A v \in 1..Threads : /\ Busy(v)' <=> Busy(v)
                              /\ worker'[v].index = worker[v].index
                              /\ v # w => worker'[v].pc = worker[v].pc
    BY <2>1, <2>3 DEF BatchInvariant, BatchType, Busy
  <2>6. worker'[w].pc = "claim"
    BY <2>1, <2>3 DEF BatchInvariant, BatchType
  <2>7. Held' /\ Unclaimed' /\ Accounted' /\ Returned'
    BY <2>2, <2>5 DEF BatchInvariant, BatchType, Held, Unclaimed, Accounted, Returned, ReturnsAll,
                      PoolRunning, Size, Cipher
  <2>8. Staffed'
    BY <2>2, <2>3, <2>5, <2>6 DEF BatchInvariant, BatchType, Staffed, PoolRunning, Size
  <2> QED BY <2>4, <2>7, <2>8 DEF BatchInvariant
<1>2. CASE SpawnFails
  BY <1>2, BatchAssumption
  DEF SpawnFails, NoWorker, BatchInvariant, BatchType, Held, Unclaimed, Accounted,
      Staffed, Returned, ReturnsAll, PoolRunning, Size, Busy, Cipher
<1> QED BY <1>1, <1>2

(* A worker at work belongs to a pool that is running.                      *)
LEMMA WorkerRuns ==
  ASSUME BatchInvariant, NEW w \in 1..Threads,
         worker[w].pc \in {"claim", "encrypt", "caught"}
  PROVE  PoolRunning /\ w <= Size
BY BatchAssumption DEF BatchInvariant, BatchType, Staffed

(* The index claimed is above all that are held.                            *)
LEMMA ClaimPreserves ==
  ASSUME BatchInvariant, NEW w \in 1..Threads, Claim(w)
  PROVE  BatchInvariant'
<1> DEFINE next == IF claimed < Size THEN [pc |-> "encrypt", index |-> claimed + 1]
                                     ELSE [pc |-> "exited", index |-> None]
<1>1. /\ worker[w].pc = "claim" /\ claimed' = claimed + 1
      /\ worker' = [worker EXCEPT ![w] = next]
      /\ UNCHANGED <<plaintexts, modulus, output, failure, main>>
  BY DEF Claim
<1>2. PoolRunning /\ w <= Size
  BY <1>1, WorkerRuns
<1>3. claimed \in Nat /\ Size \in Nat /\ Size' = Size
  BY <1>1 DEF BatchInvariant, BatchType, Size
<1>4. /\ worker'[w] = next
      /\ \A v \in 1..Threads \ {w} : worker'[v] = worker[v]
      /\ worker' \in [1..Threads -> [pc : {"none", "claim", "encrypt", "caught", "exited"},
                                     index : Nat \cup {None}]]
  BY <1>1, <1>3 DEF BatchInvariant, BatchType
<1>5. BatchType'
  BY <1>1, <1>3, <1>4 DEF BatchInvariant, BatchType, Size
<1>6. Unclaimed' /\ Returned'
  BY <1>1, <1>2, <1>3 DEF BatchInvariant, Unclaimed, Returned, ReturnsAll, PoolRunning, Size, Cipher
<1>7. Staffed'
  BY <1>1, <1>2, <1>3, <1>4 DEF BatchInvariant, BatchType, Staffed, PoolRunning, Size
<1>8. \A v \in 1..Threads \ {w} : Busy(v)' <=> Busy(v)
  BY <1>4 DEF Busy
<1>9. CASE claimed < Size
  <2>1. /\ Busy(w)' /\ worker'[w].index = claimed + 1 /\ claimed + 1 \in 1..Size
        /\ output[claimed + 1] = None
    BY <1>2, <1>3, <1>4, <1>9 DEF Busy, BatchInvariant, Unclaimed
  <2>2. Held'
    <3>1. \A v \in 1..Threads \ {w} : Busy(v) => worker[v].index <= claimed
                                                 /\ worker[v].index \in 1..Size
      BY DEF BatchInvariant, Held
    <3> QED BY <2>1, <3>1, <1>1, <1>3, <1>4, <1>8 DEF BatchInvariant, Held
  <2>3. Accounted'
    <3> SUFFICES ASSUME PoolRunning', ~failure', NEW i \in 1..Size, i <= claimed + 1
                 PROVE  \/ output[i] = Cipher(plaintexts[i]) /\ modulus # Empty
                        \/ \E v \in 1..Threads : Busy(v)' /\ worker'[v].index = i
      BY <1>1, <1>3 DEF Accounted, Cipher
    <3>1. CASE i = claimed + 1
      BY <3>1, <2>1
    <3>2. CASE i <= claimed
      <4>1. \/ output[i] = Cipher(plaintexts[i]) /\ modulus # Empty
            \/ \E v \in 1..Threads : Busy(v) /\ worker[v].index = i
        BY <3>2, <1>1, <1>2 DEF BatchInvariant, Accounted
      <4>2. ~Busy(w)
        BY <1>1 DEF Busy
      <4> QED BY <4>1, <4>2, <1>4, <1>8
    <3> QED BY <3>1, <3>2, <1>3
  <2> QED BY <1>5, <1>6, <1>7, <2>2, <2>3 DEF BatchInvariant
<1>10. CASE ~(claimed < Size)
  <2>1. ~Busy(w) /\ ~Busy(w)'
    BY <1>1, <1>4, <1>10 DEF Busy
  <2>2. Held'
    BY <2>1, <1>1, <1>3, <1>4, <1>8 DEF BatchInvariant, Held
  <2>3. Accounted'
    BY <2>1, <1>1, <1>3, <1>4, <1>8, <1>10 DEF BatchInvariant, Accounted, PoolRunning, Cipher
  <2> QED BY <1>5, <1>6, <1>7, <2>2, <2>3 DEF BatchInvariant
<1> QED BY <1>9, <1>10

LEMMA EncryptPreserves ==
  ASSUME BatchInvariant, NEW w \in 1..Threads, Encrypt(w)
  PROVE  BatchInvariant'
<1> DEFINE k == worker[w].index
<1>1. /\ worker[w].pc = "encrypt" /\ modulus # Empty
      /\ output' = [output EXCEPT ![k] = Cipher(plaintexts[k])]
      /\ worker' = [worker EXCEPT ![w] = [pc |-> "claim", index |-> None]]
      /\ UNCHANGED <<plaintexts, modulus, claimed, failure, main>>
  BY DEF Encrypt
<1>2. PoolRunning /\ w <= Size
  BY <1>1, WorkerRuns
<1>3. /\ claimed \in Nat /\ Size \in Nat /\ Size' = Size
      /\ Busy(w) /\ k \in 1..Size /\ k <= claimed
      /\ \A v \in 1..Threads \ {w} : Busy(v) => worker[v].index # k
  BY <1>1 DEF BatchInvariant, BatchType, Held, Size, Busy
<1>4. /\ worker'[w] = [pc |-> "claim", index |-> None]
      /\ \A v \in 1..Threads \ {w} : worker'[v] = worker[v]
  BY <1>1 DEF BatchInvariant, BatchType
<1>5. /\ \A v \in 1..Threads \ {w} : Busy(v)' <=> Busy(v)
      /\ ~Busy(w)'
  BY <1>4 DEF Busy
<1>6. /\ output'[k] = Cipher(plaintexts[k])
      /\ \A i \in 1..Size : i # k => output'[i] = output[i]
  BY <1>1, <1>3 DEF BatchInvariant, BatchType
<1>7. BatchType'
  BY <1>1, <1>3, <1>4 DEF BatchInvariant, BatchType, Size
<1>8. Held'
  BY <1>1, <1>3, <1>4, <1>5, <1>6 DEF BatchInvariant, Held
<1>9. Unclaimed' /\ Returned'
  BY <1>1, <1>2, <1>3, <1>6 DEF BatchInvariant, Unclaimed, Returned, ReturnsAll, PoolRunning, Cipher
<1>10. Accounted'
  BY <1>1, <1>2, <1>3, <1>4, <1>5, <1>6 DEF BatchInvariant, Accounted, PoolRunning, Cipher
<1>11. Staffed'
  BY <1>1, <1>2, <1>3, <1>4 DEF BatchInvariant, Staffed, PoolRunning
<1> QED BY <1>7, <1>8, <1>9, <1>10, <1>11 DEF BatchInvariant

(* An exception keeps the index in its worker's hands until it is handled;  *)
(* then nothing is accounted for any more, and nothing is left to claim.    *)
LEMMA ThrowPreserves ==
  ASSUME BatchInvariant, NEW w \in 1..Threads, Throw(w)
  PROVE  BatchInvariant'
<1>1. /\ worker[w].pc = "encrypt"
      /\ worker' = [worker EXCEPT ![w].pc = "caught"]
      /\ UNCHANGED <<plaintexts, modulus, output, claimed, failure, main>>
  BY DEF Throw
<1>2. PoolRunning /\ w <= Size
  BY <1>1, WorkerRuns
<1>3. /\ \A v \in 1..Threads : /\ Busy(v)' <=> Busy(v)
                               /\ worker'[v].index = worker[v].index
                               /\ v # w => worker'[v] = worker[v]
      /\ worker'[w].pc = "caught"
  BY <1>1 DEF BatchInvariant, BatchType, Busy
<1>4. BatchType'
  BY <1>1 DEF BatchInvariant, BatchType, Size
<1>5. Held' /\ Unclaimed' /\ Accounted' /\ Returned'
  BY <1>1, <1>3 DEF BatchInvariant, Held, Unclaimed, Accounted, Returned, ReturnsAll,
                    PoolRunning, Size, Cipher
<1>6. Staffed'
  BY <1>1, <1>2, <1>3 DEF BatchInvariant, BatchType, Staffed, PoolRunning, Size
<1> QED BY <1>4, <1>5, <1>6 DEF BatchInvariant

LEMMA CatchPreserves ==
  ASSUME BatchInvariant, NEW w \in 1..Threads, Catch(w)
  PROVE  BatchInvariant'
<1>1. /\ worker[w].pc = "caught" /\ failure' = TRUE /\ claimed' = Size
      /\ worker' = [worker EXCEPT ![w] = [pc |-> "exited", index |-> None]]
      /\ UNCHANGED <<plaintexts, modulus, output, main>>
  BY DEF Catch
<1>2. PoolRunning /\ w <= Size
  BY <1>1, WorkerRuns
<1>3. Size \in Nat /\ Size' = Size
  BY <1>1 DEF BatchInvariant, BatchType, Size
<1>4. /\ worker'[w] = [pc |-> "exited", index |-> None]
      /\ \A v \in 1..Threads \ {w} : worker'[v] = worker[v]
  BY <1>1 DEF BatchInvariant, BatchType
<1>5. /\ \A v \in 1..Threads \ {w} : Busy(v)' <=> Busy(v)
      /\ ~Busy(w)'
  BY <1>4 DEF Busy
<1>6. BatchType'
  BY <1>1, <1>3 DEF BatchInvariant, BatchType, Size
<1>7. Held'
  BY <1>1, <1>3, <1>4, <1>5 DEF BatchInvariant, Held
<1>8. Unclaimed' /\ Accounted' /\ Returned'
  BY <1>1, <1>2, <1>3
     DEF BatchInvariant, Unclaimed, Accounted, Returned, ReturnsAll, PoolRunning, Cipher
<1>9. Staffed'
  BY <1>1, <1>2, <1>3, <1>4 DEF BatchInvariant, Staffed, PoolRunning
<1> QED BY <1>6, <1>7, <1>8, <1>9 DEF BatchInvariant

(* A pool has at least one worker; when it has left, nothing is left to     *)
(* claim, and when all have, nothing is held.                               *)
LEMMA JoinPreserves ==
  ASSUME BatchInvariant, Join
  PROVE  BatchInvariant'
<1>1. /\ main = "joining" /\ \A w \in Workers : worker[w].pc = "exited"
      /\ main' = IF failure THEN "thrown" ELSE "returned"
      /\ UNCHANGED <<plaintexts, modulus, output, claimed, failure, worker>>
  BY DEF Join
<1>2. claimed \in Nat /\ Size \in Nat /\ Size > 0 /\ claimed >= Size
  <2>1. Size \in Nat /\ Size > 0 /\ 1 \in 1..Threads
    BY <1>1, BatchAssumption DEF BatchInvariant, BatchType, Staffed, PoolRunning
  <2>2. 1 \in Workers
    BY <2>1 DEF Workers
  <2> QED BY <1>1, <2>1, <2>2 DEF BatchInvariant, BatchType, Staffed
<1>3. \A w \in 1..Threads : worker[w].pc \in {"none", "exited"}
  BY <1>1, <1>2 DEF BatchInvariant, Staffed, Workers
<1>4. ~failure => output = [i \in 1..Size |-> Cipher(plaintexts[i])] /\ modulus # Empty
  <2> SUFFICES ASSUME ~failure
               PROVE  output = [i \in 1..Size |-> Cipher(plaintexts[i])] /\ modulus # Empty
    OBVIOUS
  <2>1. \A i \in 1..Size : output[i] = Cipher(plaintexts[i]) /\ modulus # Empty
    BY <1>1, <1>2, <1>3 DEF BatchInvariant, Accounted, PoolRunning, Busy
  <2>2. output = [i \in 1..Size |-> output[i]]
    BY DEF BatchInvariant, BatchType
  <2>3. 1 \in 1..Size
    BY <1>2
  <2> QED BY <2>1, <2>2, <2>3
<1>5. BatchType' /\ Returned'
  BY <1>1, <1>4 DEF BatchInvariant, BatchType, Returned, ReturnsAll, Size, Cipher
<1>6. Held' /\ Unclaimed' /\ Accounted' /\ Staffed'
  BY <1>1, <1>3 DEF BatchInvariant, BatchType, Held, Unclaimed, Accounted, Staffed,
                    PoolRunning, Size, Busy, Cipher
<1> QED BY <1>5, <1>6 DEF BatchInvariant

LEMMA StutterPreserves ==
  ASSUME BatchInvariant, UNCHANGED batchVars
  PROVE  BatchInvariant'
BY DEF batchVars, BatchInvariant, BatchType, Held, Unclaimed, Accounted, Staffed,
       Returned, ReturnsAll, PoolRunning, Size, Busy, Cipher

LEMMA InvariantIsSafe == BatchInvariant => BatchSafe
BY DEF BatchInvariant, BatchType, Held, Staffed, Returned, ReturnsAll, BatchSafe, ClaimedOnce,
       NoneOutlives, PoolRunning

(* The threads of a call, in any order.                                     *)
LEMMA PoolStepPreserves ==
  ASSUME BatchInvariant, PoolStep
  PROVE  BatchInvariant'
<1>1. ASSUME NEW w \in 1..Threads, WorkerStep(w) PROVE BatchInvariant'
  BY <1>1, ClaimPreserves, EncryptPreserves, ThrowPreserves, CatchPreserves DEF WorkerStep
<1>2. CASE CallerStep
  BY <1>2, AlonePreserves, SpawnPreserves, JoinPreserves DEF CallerStep
<1> QED BY <1>1, <1>2 DEF PoolStep

(* They leave the arguments alone, and the call to its caller.              *)
LEMMA PoolStepKeeps ==
  ASSUME BatchInvariant, PoolStep
  PROVE  main # "idle" /\ main' # "idle" /\ UNCHANGED <<plaintexts, modulus>>
<1>1. ASSUME NEW w \in 1..Threads, WorkerStep(w)
      PROVE  main # "idle" /\ main' # "idle" /\ UNCHANGED <<plaintexts, modulus>>
  <2>1. worker[w].pc \in {"claim", "encrypt", "caught"} /\ main' = main
        /\ UNCHANGED <<plaintexts, modulus>>
    BY <1>1 DEF WorkerStep, Claim, Encrypt, Throw, Catch
  <2>2. PoolRunning
    BY <2>1, WorkerRuns
  <2> QED BY <2>1, <2>2 DEF PoolRunning
<1>2. CASE CallerStep
  BY <1>2 DEF CallerStep, EncryptAlone, ThrowAlone, Spawn, SpawnFails, Join
<1> QED BY <1>1, <1>2 DEF PoolStep

(* Whatever fails and whenever, a call of paillierEncryptBatch returns all  *)
(* its encryptions in order or throws, no two workers write one element,    *)
(* and no worker touches the stack of a call that is over.                  *)
THEOREM BatchIsSafe == BatchSpec => []BatchSafe
<1>1. BatchInvariant /\ [BatchNext]_batchVars => BatchInvariant'
  <2> SUFFICES ASSUME BatchInvariant, [BatchNext]_batchVars PROVE BatchInvariant'
    OBVIOUS
  <2>1. CASE \E ps \in Batches, m \in Moduli : Start(ps, m)
    BY <2>1, StartPreserves, BatchAssumption
  <2>2. CASE PoolStep
    BY <2>2, PoolStepPreserves
  <2>3. CASE Release
    BY <2>3, ForgetPreserves DEF Release
  <2>4. CASE UNCHANGED batchVars
    BY <2>4, StutterPreserves
  <2> QED BY <2>1, <2>2, <2>3, <2>4 DEF BatchNext
<1> QED BY <1>1, InitEstablishes, InvariantIsSafe, PTL DEF BatchSpec

-----------------------------------------------------------------------------
(* The enclaves.                                                            *)
Keys == [generation : Nat, mode : 0..2, role : Roles]

EnclaveState == [initialized : BOOLEAN, mode : 0..2, role : Roles,
                 keyed : BOOLEAN, ready : BOOLEAN, key : Keys]

(* What KeysBelong says of one enclave, given what was sealed; and one that *)
(* is initialised has the role it was built with.                           *)
RightKey(e, r, s) ==
  /\ e.keyed => /\ e.ready /\ e.initialized /\ e.role = r
                /\ e.key.role = r /\ e.key.mode = e.mode
                /\ r = 0 \/ e.key \in s
  /\ ~e.ready => e.key = NoKey
  /\ e.initialized => e.role = r

EnclavesInv ==
  /\ enclave \in [Roles -> EnclaveState] /\ generation \in Nat /\ sealed \subseteq Keys
  /\ \A r \in Roles : RightKey(enclave[r], r, sealed)

(* A test program that calls enclaves runs no service, and the service       *)
(* makes no call on its own account.                                        *)
TaskInv ==
  /\ task \in {"service", "calls"}
  /\ task = "service" => code = "OK"
  /\ task = "calls" => /\ provisioner = "idle" /\ ~complete
                       /\ cp = Down /\ csp = Down /\ call = NoCall

OneGeneration ==
  /\ file["public"] \in {Empty, file["cp"].generation}
  /\ file["csp"].generation = file["cp"].generation

(* A share on the disk was sealed, the files behind the one being written   *)
(* are those of its generation, and so are all after the last; the modulus  *)
(* may be missing, for a full disk is not noticed.                          *)
DirectoryInv ==
  /\ provisioner \in {"idle", "public", "cp", "csp"} /\ complete \in BOOLEAN
  /\ file = [f \in {"public", "cp", "csp"} |-> file[f]]
  /\ \A f \in {"cp", "csp"} : file[f] \in {None, Empty} \cup sealed
  /\ provisioner # "idle" =>
       \A role \in {1, 2} : KeyOf(generation, enclave[0].mode, role) \in sealed
  /\ provisioner \in {"cp", "csp"} => file["public"] \in {Empty, generation}
  /\ provisioner = "csp" => file["cp"] = KeyOf(generation, enclave[0].mode, 1)
  /\ complete => OneGeneration

(* What a process loaded undisturbed is of one generation.                  *)
ProcessInv ==
  /\ cp = [pc |-> cp.pc, modulus |-> cp.modulus, clean |-> cp.clean]
  /\ csp = [pc |-> csp.pc, modulus |-> csp.modulus, clean |-> csp.clean]
  /\ cp.pc \in {"down", "share", "connect", "open", "broken"} /\ cp.clean \in BOOLEAN
  /\ csp.pc \in {"down", "share", "modulus", "ready"} /\ csp.clean \in BOOLEAN
  /\ cp.pc = "share" /\ cp.clean => complete /\ cp.modulus = file["public"]
  /\ cp.pc \in {"connect", "open", "broken"} =>
       /\ enclave[1].keyed
       /\ cp.clean => cp.modulus \in {Empty, enclave[1].key.generation}
  /\ csp.pc = "share" /\ csp.clean => complete
  /\ csp.pc = "modulus" /\ csp.clean =>
       complete /\ enclave[2].key.generation = file["csp"].generation
  /\ csp.pc = "ready" /\ csp.clean => csp.modulus \in {Empty, enclave[2].key.generation}
  /\ cp.pc = "open" => csp.pc = "ready"

-----------------------------------------------------------------------------
Stages == {"preparing", "sent", "encrypting", "replied", "failed"}

CallType ==
  \/ call = NoCall
  \/ /\ call = [stage |-> call.stage, op |-> call.op, items |-> Items,
                ciphers |-> call.ciphers, parts |-> call.parts,
                reply |-> call.reply, clean |-> call.clean]
     /\ call.stage \in Stages /\ call.clean \in BOOLEAN
     /\ \E q \in Requests : call.op = q.op /\ Items = q.items

UnderModulus(m, x) == [modulus |-> m, value |-> x]

(* What the answer to the i-th operand is, without its encryption.          *)
Meant(i) == IF call.op = "C" THEN (IF Items[i] < 0 THEN 0 ELSE 1) ELSE Items[i] * Items[i]

(* The pool runs for the client before it sends, and for the server while   *)
(* it encrypts; what travels is the client's, under its keys.               *)
CallInv ==
  /\ CallType
  /\ call # NoCall => cp.pc \in {"open", "broken"}
  /\ call.stage \in {"none", "sent", "replied", "failed"} => main = "idle"
  /\ call.stage = "preparing" =>
       main # "idle" /\ plaintexts = Items /\ modulus = cp.modulus
  /\ call.stage = "sent" =>
       /\ cp.pc = "open" /\ (Len(Items) > 0 => cp.modulus # Empty)
       /\ call.ciphers = [i \in DOMAIN Items |-> UnderModulus(cp.modulus, Items[i])]
       /\ \A i \in DOMAIN Items :
            call.parts[i] = [of |-> call.ciphers[i], share |-> 1,
                             key |-> enclave[1].key.generation]
  /\ call.stage = "encrypting" =>
       /\ cp.pc = "open" /\ main # "idle" /\ call.op \in {"C", "M"}
       /\ Len(plaintexts) = Len(Items)
       /\ call.clean /\ modulus # Empty =>
            \A i \in DOMAIN Items : modulus = cp.modulus /\ plaintexts[i] = Meant(i)
  /\ AnswersRight

ServiceInv ==
  BatchInvariant /\ EnclavesInv /\ TaskInv /\ DirectoryInv /\ ProcessInv /\ CallInv

-----------------------------------------------------------------------------
(* Enclaves: every call returns an enclave that is as it should be, and a   *)
(* call that is refused returns the enclave it was given.                   *)
LEMMA NoKeyIsKey == NoKey \in Keys /\ Fresh \in EnclaveState
BY DEF NoKey, Keys, Fresh, EnclaveState, Roles

LEMMA FreshRight == \A r, s : RightKey(Fresh, r, s)
BY DEF RightKey, Fresh

LEMMA ClearedRight ==
  ASSUME NEW e \in EnclaveState, NEW r, NEW s, RightKey(e, r, s)
  PROVE  /\ Cleared(e) \in EnclaveState /\ RightKey(Cleared(e), r, s)
         /\ ~Cleared(e).keyed /\ Cleared(e).initialized = e.initialized
         /\ Cleared(e).role = e.role /\ Cleared(e).mode = e.mode
BY NoKeyIsKey DEF Cleared, EnclaveState, RightKey

LEMMA InitializeRight ==
  ASSUME NEW e \in EnclaveState, NEW r \in Roles, NEW s, RightKey(e, r, s),
         NEW role \in Roles, NEW mode \in 0..2
  PROVE  LET reply == Initialize(e, r, role, mode)
         IN  /\ reply.enclave \in EnclaveState /\ RightKey(reply.enclave, r, s)
             /\ reply.result \in {"INVALID", "STATE"} => reply.enclave = e
<1>1. CASE role # r \/ mode \notin Modes
  BY <1>1 DEF Initialize, Reply
<1>2. CASE ~(role # r \/ mode \notin Modes)
  <2> DEFINE c == Cleared(e)
             d == [c EXCEPT !.mode = mode, !.role = role, !.initialized = TRUE]
  <2>1. c \in EnclaveState /\ ~c.keyed /\ RightKey(c, r, s)
    BY ClearedRight
  <2>2. Initialize(e, r, role, mode) = [result |-> "OK", enclave |-> d]
    BY <1>2 DEF Initialize, Reply
  <2> HIDE DEF c
  <2>3. d \in EnclaveState /\ RightKey(d, r, s)
    BY <1>2, <2>1 DEF EnclaveState, RightKey
  <2> QED  BY <2>2, <2>3
<1> QED  BY <1>1, <1>2

LEMMA GenerateRight ==
  ASSUME NEW e \in EnclaveState, NEW r \in Roles, NEW s, RightKey(e, r, s),
         NEW mode, NEW g \in Nat, NEW threshold,
         NEW reply \in Generate(e, r, mode, g, threshold)
  PROVE  /\ reply.enclave \in EnclaveState /\ RightKey(reply.enclave, r, s)
         /\ reply.result \in {"INVALID", "STATE"} => reply.enclave = e
         /\ reply.result \notin {"INVALID", "STATE"} =>
              mode \in 0..2 /\ mode = reply.enclave.mode
<1>1. CASE ~e.initialized \/ r # 0
  BY <1>1 DEF Generate, Reply
<1>2. CASE e.initialized /\ r = 0 /\ mode # e.mode
  BY <1>2 DEF Generate, Reply
<1>3. CASE e.initialized /\ r = 0 /\ mode = e.mode
  <2> DEFINE c == Cleared(e)
             k == KeyOf(g, e.mode, 0)
             d == [c EXCEPT !.ready = TRUE, !.key = k]
             f == [d EXCEPT !.keyed = TRUE]
  <2>1. /\ c \in EnclaveState /\ RightKey(c, r, s) /\ ~c.keyed
        /\ c.initialized = e.initialized /\ c.role = e.role /\ c.mode = e.mode
    BY ClearedRight
  <2>2. k \in Keys /\ k.mode = e.mode /\ k.role = 0 /\ e.mode \in 0..2 /\ e.role = 0
    BY <1>3 DEF KeyOf, Keys, EnclaveState, Roles, RightKey
  <2>3. \/ reply = [result |-> "CRYPTO", enclave |-> c]
        \/ reply.enclave = d /\ reply.result \in {"BUFFER", "CRYPTO"}
        \/ reply.enclave = f /\ reply.result = "OK"
    BY <1>3 DEF Generate, Reply
  <2> HIDE DEF c, k
  <2>4. d \in EnclaveState /\ RightKey(d, r, s) /\ d.mode = e.mode
    BY <1>3, <2>1, <2>2 DEF EnclaveState, RightKey
  <2>5. f \in EnclaveState /\ RightKey(f, r, s) /\ f.mode = e.mode
    BY <1>3, <2>1, <2>2 DEF EnclaveState, RightKey
  <2> HIDE DEF d, f
  <2>6. e.mode \in 0..2
    BY <2>2
  <2> QED  BY <1>3, <2>1, <2>3, <2>4, <2>5, <2>6
<1> QED  BY <1>1, <1>2, <1>3

LEMMA LoadRight ==
  ASSUME NEW e \in EnclaveState, NEW r \in Roles, NEW s, RightKey(e, r, s),
         NEW blob \in s, blob \in Keys
  PROVE  LET reply == LoadSealedKey(e, blob)
         IN  /\ reply.enclave \in EnclaveState /\ RightKey(reply.enclave, r, s)
             /\ reply.result \in {"INVALID", "STATE"} => reply.enclave = e
             /\ reply.result = "OK" => reply.enclave.keyed /\ reply.enclave.key = blob
<1>1. CASE ~e.initialized \/ blob.mode # e.mode \/ blob.role # e.role
  BY <1>1 DEF LoadSealedKey, Reply
<1>2. CASE ~(~e.initialized \/ blob.mode # e.mode \/ blob.role # e.role)
  <2> DEFINE c == Cleared(e)
             d == [c EXCEPT !.ready = TRUE, !.keyed = TRUE, !.key = blob]
  <2>1. /\ c \in EnclaveState /\ RightKey(c, r, s)
        /\ c.initialized = e.initialized /\ c.role = e.role /\ c.mode = e.mode
    BY ClearedRight
  <2>2. LoadSealedKey(e, blob) = [result |-> "OK", enclave |-> d]
    BY <1>2 DEF LoadSealedKey, Reply
  <2> HIDE DEF c
  <2>3. d \in EnclaveState /\ RightKey(d, r, s) /\ d.keyed /\ d.key = blob
    BY <1>2, <2>1 DEF EnclaveState, RightKey
  <2> HIDE DEF d
  <2> QED  BY <2>2, <2>3
<1> QED  BY <1>1, <1>2

LEMMA CloseRight ==
  ASSUME NEW e \in EnclaveState, NEW r \in Roles, NEW s, RightKey(e, r, s)
  PROVE  LET reply == Close(e)
         IN  /\ reply.enclave \in EnclaveState /\ RightKey(reply.enclave, r, s)
             /\ reply.result = "OK"
<1> DEFINE c == Cleared(e)
           d == [c EXCEPT !.initialized = FALSE, !.mode = 0, !.role = 0]
<1>1. c \in EnclaveState /\ RightKey(c, r, s) /\ ~c.keyed
  BY ClearedRight
<1>2. Close(e) = [result |-> "OK", enclave |-> d]
  BY DEF Close, Reply
<1> HIDE DEF c
<1>3. 0 \in Roles /\ 0 \in 0..2
  BY DEF Roles
<1>4. d \in EnclaveState /\ RightKey(d, r, s)
  BY <1>1, <1>3 DEF EnclaveState, RightKey
<1> HIDE DEF d
<1> QED  BY <1>2, <1>4

(* Sealing more makes no key wrong.                                         *)
LEMMA SealMore ==
  ASSUME NEW e, NEW r, NEW s, NEW u, s \subseteq u, RightKey(e, r, s)
  PROVE  RightKey(e, r, u)
BY DEF RightKey

LEMMA SealedKeys ==
  ASSUME NEW g \in Nat, NEW mode \in 0..2, NEW threshold
  PROVE  /\ Sealed(g, mode, threshold) \subseteq Keys
         /\ threshold => \A role \in {1, 2} : KeyOf(g, mode, role) \in Sealed(g, mode, threshold)
BY DEF Sealed, KeyOf, Keys, Roles

(* One enclave is replaced.                                                 *)
LEMMA ReplaceEnclave ==
  ASSUME EnclavesInv, NEW r \in Roles, NEW e \in EnclaveState,
         enclave' = [enclave EXCEPT ![r] = e], RightKey(e, r, sealed'),
         sealed \subseteq sealed', sealed' \subseteq Keys, generation' \in Nat
  PROVE  EnclavesInv'
<1>1. enclave' \in [Roles -> EnclaveState] /\ enclave'[r] = e
  BY DEF EnclavesInv
<1>2. ASSUME NEW q \in Roles  PROVE RightKey(enclave'[q], q, sealed')
  <2>1. CASE q = r
    BY <1>1, <2>1
  <2>2. CASE q # r
    BY <2>2, SealMore DEF EnclavesInv
  <2> QED  BY <2>1, <2>2
<1> QED  BY <1>1, <1>2 DEF EnclavesInv

LEMMA Same ==
  ASSUME EnclavesInv, NEW r \in Roles, enclave' = [enclave EXCEPT ![r] = enclave[r]]
  PROVE  enclave' = enclave
BY DEF EnclavesInv

LEMMA CallsKeepKeys ==
  ASSUME EnclavesInv, EnclaveNext
  PROVE  /\ EnclavesInv'
         /\ code' \in {"INVALID", "STATE"} => UNCHANGED <<enclave, sealed>>
<1> USE DEF Called
<1>0. \A r \in Roles : enclave[r] \in EnclaveState /\ RightKey(enclave[r], r, sealed)
  BY DEF EnclavesInv
<1>1. CASE CallInitialize
  <2>1. PICK r \in Roles, role \in Roles, mode \in Modes \cup {0} :
          /\ Called(r, Initialize(enclave[r], r, role, mode))
          /\ UNCHANGED <<generation, sealed>>
    BY <1>1 DEF CallInitialize
  <2> DEFINE reply == Initialize(enclave[r], r, role, mode)
  <2>2. mode \in 0..2
    BY DEF Modes
  <2>3. /\ reply.enclave \in EnclaveState /\ RightKey(reply.enclave, r, sealed)
        /\ reply.result \in {"INVALID", "STATE"} => reply.enclave = enclave[r]
    BY <1>0, <2>2, InitializeRight
  <2> HIDE DEF reply
  <2>4. EnclavesInv'
    BY <2>1, <2>3, ReplaceEnclave DEF EnclavesInv, reply
  <2> QED  BY <2>1, <2>3, <2>4, Same DEF reply
<1>2. CASE CallGenerate
  <2>0. PICK r \in Roles, mode \in Modes, threshold \in BOOLEAN :
          \E reply \in Generate(enclave[r], r, mode, generation + 1, threshold) :
            /\ Called(r, reply)
            /\ generation' = IF reply.result \in {"STATE", "INVALID"}
                             THEN generation ELSE generation + 1
            /\ sealed' = IF reply.result # "OK" THEN sealed
                         ELSE sealed \cup Sealed(generation + 1, mode, threshold)
    BY <1>2 DEF CallGenerate
  <2>1. PICK reply \in Generate(enclave[r], r, mode, generation + 1, threshold) :
          /\ Called(r, reply)
          /\ generation' = IF reply.result \in {"STATE", "INVALID"}
                           THEN generation ELSE generation + 1
          /\ sealed' = IF reply.result # "OK" THEN sealed
                       ELSE sealed \cup Sealed(generation + 1, mode, threshold)
    BY <2>0
  <2>2. generation + 1 \in Nat /\ generation' \in Nat
    BY <2>1 DEF EnclavesInv
  <2>3. /\ reply.enclave \in EnclaveState /\ RightKey(reply.enclave, r, sealed)
        /\ reply.result \in {"INVALID", "STATE"} => reply.enclave = enclave[r]
    BY <1>0, <2>2, GenerateRight
  <2>4. mode \in 0..2
    BY DEF Modes
  <2>5. sealed \subseteq sealed' /\ sealed' \subseteq Keys
    BY <2>1, <2>2, <2>4, SealedKeys DEF EnclavesInv
  <2>6. EnclavesInv'
    <3>1. RightKey(reply.enclave, r, sealed')
      BY <2>3, <2>5, SealMore
    <3> QED  BY <2>1, <2>2, <2>3, <2>5, <3>1, ReplaceEnclave
  <2>7. code' \in {"INVALID", "STATE"} => sealed' = sealed
    BY <2>1
  <2> QED  BY <2>1, <2>3, <2>6, <2>7, Same
<1>3. CASE CallLoadSealedKey
  <2>1. PICK r \in Roles, blob \in sealed :
          /\ Called(r, LoadSealedKey(enclave[r], blob))
          /\ UNCHANGED <<generation, sealed>>
    BY <1>3 DEF CallLoadSealedKey
  <2> DEFINE reply == LoadSealedKey(enclave[r], blob)
  <2>2. blob \in Keys
    BY DEF EnclavesInv
  <2>3. /\ reply.enclave \in EnclaveState /\ RightKey(reply.enclave, r, sealed)
        /\ reply.result \in {"INVALID", "STATE"} => reply.enclave = enclave[r]
    BY <1>0, <2>2, LoadRight
  <2> HIDE DEF reply
  <2>4. EnclavesInv'
    BY <2>1, <2>3, ReplaceEnclave DEF EnclavesInv, reply
  <2> QED  BY <2>1, <2>3, <2>4, Same DEF reply
<1>4. CASE CallClose
  <2>1. PICK r \in Roles : Called(r, Close(enclave[r])) /\ UNCHANGED <<generation, sealed>>
    BY <1>4 DEF CallClose
  <2> DEFINE reply == Close(enclave[r])
  <2>2. /\ reply.enclave \in EnclaveState /\ RightKey(reply.enclave, r, sealed)
        /\ reply.result = "OK"
    BY <1>0, CloseRight
  <2> HIDE DEF reply
  <2> QED  BY <2>1, <2>2, ReplaceEnclave DEF EnclavesInv, reply
<1> QED  BY <1>1, <1>2, <1>3, <1>4 DEF EnclaveNext

(* A process has the share of its file in its enclave, or no share.         *)
LEMMA ShareLoads ==
  ASSUME sealed \subseteq Keys, NEW role \in {1, 2}, NEW mode \in Modes, NEW f,
         file[f] \in {None, Empty} \cup sealed
  PROVE  LET e == LoadShare(role, mode, f)
         IN  /\ e \in EnclaveState /\ RightKey(e, role, sealed)
             /\ e # Fresh => e.keyed /\ e.key = file[f]
<1> DEFINE ready == Initialize(Fresh, role, role, mode).enclave
           reply == LoadSealedKey(ready, file[f])
<1>1. role \in Roles /\ mode \in 0..2
  BY DEF Roles, Modes
<1>2. CASE Unreadable(f)
  BY <1>2, NoKeyIsKey, FreshRight DEF LoadShare
<1>3. CASE ~Unreadable(f)
  <2>1. file[f] \in sealed /\ file[f] \in Keys
    BY <1>3 DEF Unreadable
  <2>2. ready \in EnclaveState /\ RightKey(ready, role, sealed)
    BY <1>1, NoKeyIsKey, FreshRight, InitializeRight
  <2>3. LoadShare(role, mode, f) = IF reply.result = "OK" THEN reply.enclave ELSE Fresh
    BY <1>3 DEF LoadShare
  <2> HIDE DEF ready
  <2>4. /\ reply.enclave \in EnclaveState /\ RightKey(reply.enclave, role, sealed)
        /\ reply.result = "OK" => reply.enclave.keyed /\ reply.enclave.key = file[f]
    BY <1>1, <2>1, <2>2, LoadRight
  <2> HIDE DEF reply
  <2> QED  BY <2>3, <2>4, NoKeyIsKey, FreshRight
<1> QED  BY <1>2, <1>3

-----------------------------------------------------------------------------
(* Provisioning, and the start and end of the processes, leave a call in    *)
(* progress with its client, its keys and its pool.                         *)
LEMMA CallUntouched ==
  ASSUME CallInv, UNCHANGED <<batchVars, call>>,
         call # NoCall => /\ cp'.pc = cp.pc /\ cp'.modulus = cp.modulus
                          /\ enclave'[1] = enclave[1]
  PROVE  CallInv'
<1> USE DEF batchVars
<1>1. CASE call = NoCall
  <2>1. call.stage = "none" /\ call' = NoCall /\ main = "idle"
    BY <1>1 DEF CallInv, NoCall
  <2> QED  BY <2>1 DEF CallInv, CallType, NoCall, AnswersRight
<1>2. CASE call # NoCall
  <2>1. /\ call' = call /\ Items' = Items /\ cp'.pc = cp.pc /\ cp'.modulus = cp.modulus
        /\ enclave'[1] = enclave[1]
    BY <1>2 DEF Items
  <2>2. \A i : Answer(i)' = Answer(i) /\ Meant(i)' = Meant(i)
    BY <2>1 DEF Answer, Meant
  <2>3. AnswersRight'
    BY <2>1, <2>2 DEF CallInv, AnswersRight
  <2>4. CallType'
    BY <2>1 DEF CallInv, CallType
  <2> QED  BY <2>1, <2>2, <2>3, <2>4 DEF CallInv, UnderModulus
<1> QED  BY <1>1, <1>2

LEMMA ProvisionKeysPreserves ==
  ASSUME ServiceInv, NEW mode, ProvisionKeys(mode)
  PROVE  EnclavesInv' /\ DirectoryInv' /\ ProcessInv' /\ CallInv'
<1> DEFINE threshold == TRUE
           ready == Initialize(Fresh, 0, 0, mode).enclave
<1>0. EnclavesInv /\ DirectoryInv /\ ProcessInv /\ CallInv
  BY DEF ServiceInv
<1>1. PICK reply \in Generate(ready, 0, mode, generation + 1, threshold) :
        /\ reply.result \in {"OK", "CRYPTO"}
        /\ provisioner' = IF reply.result = "OK" THEN "public" ELSE "idle"
        /\ enclave' = [enclave EXCEPT ![0] =
                         IF reply.result = "OK" THEN reply.enclave ELSE Fresh]
        /\ sealed' = IF reply.result = "OK"
                     THEN sealed \cup Sealed(generation + 1, mode, threshold) ELSE sealed
  BY DEF ProvisionKeys
<1>2. /\ provisioner = "idle" /\ generation' = generation + 1
      /\ UNCHANGED <<batchVars, code, task, file, complete, cp, csp, call>>
  BY DEF ProvisionKeys
<1>30. threshold \in BOOLEAN /\ threshold
  OBVIOUS
<1> HIDE DEF threshold
<1>3. generation + 1 \in Nat /\ 0 \in Roles
  BY <1>0 DEF EnclavesInv, Roles
<1>4. ready \in EnclaveState /\ RightKey(ready, 0, sealed)
  <2>1. CASE mode \in 0..2
    BY <1>3, <2>1, NoKeyIsKey, FreshRight, InitializeRight
  <2>2. CASE mode \notin 0..2
    <3>1. mode \notin Modes
      BY <2>2 DEF Modes
    <3> QED  BY <3>1, NoKeyIsKey, FreshRight DEF Initialize, Reply
  <2> QED  BY <2>1, <2>2
<1> HIDE DEF ready
<1>5. /\ reply.enclave \in EnclaveState /\ RightKey(reply.enclave, 0, sealed)
      /\ mode \in 0..2 /\ mode = reply.enclave.mode
  <2>1. reply.result \notin {"INVALID", "STATE"}
    BY <1>1
  <2> QED  BY <1>3, <1>4, <2>1, GenerateRight
<1> DEFINE e == IF reply.result = "OK" THEN reply.enclave ELSE Fresh
<1>6. sealed \subseteq sealed' /\ sealed' \subseteq Keys
  BY <1>0, <1>1, <1>3, <1>5, SealedKeys DEF EnclavesInv
<1>7. e \in EnclaveState /\ RightKey(e, 0, sealed')
  BY <1>5, <1>6, NoKeyIsKey, FreshRight, SealMore
<1>8. enclave' = [enclave EXCEPT ![0] = e]
  BY <1>1
<1> HIDE DEF e
<1>9. EnclavesInv'
  BY <1>0, <1>2, <1>3, <1>6, <1>7, <1>8, ReplaceEnclave
<1>10. enclave'[0] = e /\ enclave'[1] = enclave[1] /\ enclave'[2] = enclave[2]
  BY <1>0, <1>8 DEF EnclavesInv, Roles
<1>11. reply.result = "OK" =>
         \A role \in {1, 2} : KeyOf(generation', enclave'[0].mode, role) \in sealed'
  <2>1. \A role \in {1, 2} :
          KeyOf(generation + 1, mode, role) \in Sealed(generation + 1, mode, threshold)
    BY <1>3, <1>30, <1>5, SealedKeys
  <2> SUFFICES ASSUME reply.result = "OK"
               PROVE  \A role \in {1, 2} : KeyOf(generation', enclave'[0].mode, role) \in sealed'
    OBVIOUS
  <2>2. enclave'[0].mode = mode /\ generation' = generation + 1
    BY <1>2, <1>5, <1>10 DEF e
  <2>3. sealed' = sealed \cup Sealed(generation + 1, mode, threshold)
    BY <1>1
  <2> QED  BY <2>1, <2>2, <2>3
<1>12. DirectoryInv'
  BY <1>0, <1>1, <1>2, <1>6, <1>11 DEF DirectoryInv, OneGeneration
<1>13. ProcessInv'
  BY <1>0, <1>2, <1>10 DEF ProcessInv
<1>14. CallInv'
  BY <1>0, <1>2, <1>10, CallUntouched
<1> QED  BY <1>9, <1>12, <1>13, <1>14

(* Whoever is loading files while one is written is no longer clean.        *)
LEMMA DisturbedPreserves ==
  ASSUME ProcessInv, cp' = Disturbed(cp), csp' = Disturbed(csp),
         enclave'[1] = enclave[1], enclave'[2] = enclave[2]
  PROVE  /\ ProcessInv'
         /\ cp'.pc = cp.pc /\ cp'.modulus = cp.modulus
<1> DEFINE x == cp.clean /\ cp.pc \notin {"share", "modulus"}
           y == csp.clean /\ csp.pc \notin {"share", "modulus"}
<1>0. /\ x \in BOOLEAN /\ (x => cp.clean /\ cp.pc # "share")
      /\ y \in BOOLEAN /\ (y => csp.clean /\ csp.pc \notin {"share", "modulus"})
  OBVIOUS
<1>1. /\ cp' = [pc |-> cp.pc, modulus |-> cp.modulus, clean |-> x]
      /\ csp' = [pc |-> csp.pc, modulus |-> csp.modulus, clean |-> y]
  <2>1. /\ cp = [pc |-> cp.pc, modulus |-> cp.modulus, clean |-> cp.clean]
        /\ csp = [pc |-> csp.pc, modulus |-> csp.modulus, clean |-> csp.clean]
    BY DEF ProcessInv
  <2> QED  BY <2>1 DEF Disturbed
<1> HIDE DEF x, y
<1>2. /\ cp'.pc = cp.pc /\ cp'.modulus = cp.modulus /\ cp'.clean = x
      /\ csp'.pc = csp.pc /\ csp'.modulus = csp.modulus /\ csp'.clean = y
  BY <1>1
<1>3. /\ cp'.clean \in BOOLEAN /\ csp'.clean \in BOOLEAN
      /\ cp'.clean => cp.clean /\ cp.pc # "share"
      /\ csp'.clean => csp.clean /\ csp.pc \notin {"share", "modulus"}
  BY <1>0, <1>2
<1>4. /\ cp' = [pc |-> cp'.pc, modulus |-> cp'.modulus, clean |-> cp'.clean]
      /\ csp' = [pc |-> csp'.pc, modulus |-> csp'.modulus, clean |-> csp'.clean]
  BY <1>1
<1> QED  BY <1>2, <1>3, <1>4 DEF ProcessInv

LEMMA WritersPreserve ==
  ASSUME ServiceInv, TruncateFile \/ WriteFile \/ ProvisionCrash
  PROVE  EnclavesInv' /\ DirectoryInv' /\ ProcessInv' /\ CallInv'
<1>0. EnclavesInv /\ DirectoryInv /\ ProcessInv /\ CallInv
  BY DEF ServiceInv
<1>1. /\ enclave' = enclave \/ enclave' = [enclave EXCEPT ![0] = Fresh]
      /\ UNCHANGED <<batchVars, generation, sealed, code, task, call>>
  BY DEF TruncateFile, WriteFile, ProvisionCrash, enclaveVars
<1>2. /\ EnclavesInv'
      /\ enclave'[1] = enclave[1] /\ enclave'[2] = enclave[2]
  <2>1. 0 \in Roles /\ 1 \in Roles /\ 2 \in Roles
    BY DEF Roles
  <2>2. CASE enclave' = enclave
    BY <1>0, <1>1, <2>2 DEF EnclavesInv
  <2>3. CASE enclave' = [enclave EXCEPT ![0] = Fresh]
    <3>1. EnclavesInv'
      BY <1>0, <1>1, <2>1, <2>3, NoKeyIsKey, FreshRight, ReplaceEnclave DEF EnclavesInv
    <3> QED  BY <1>0, <2>1, <2>3, <3>1 DEF EnclavesInv
  <2> QED  BY <1>1, <2>2, <2>3
<1>3. /\ ProcessInv'
      /\ cp'.pc = cp.pc /\ cp'.modulus = cp.modulus
  <2>1. CASE TruncateFile \/ WriteFile
    BY <1>0, <1>2, <2>1, DisturbedPreserves DEF TruncateFile, WriteFile
  <2>2. CASE ProvisionCrash
    BY <1>0, <1>2, <2>2 DEF ProvisionCrash, ProcessInv
  <2> QED  BY <2>1, <2>2
<1>4. CallInv'
  BY <1>0, <1>1, <1>2, <1>3, CallUntouched
<1>5. DirectoryInv'
  <2>1. CASE TruncateFile
    BY <1>0, <2>1 DEF TruncateFile, DirectoryInv, enclaveVars
  <2>2. CASE WriteFile
    <3>1. PICK stored \in BOOLEAN :
            /\ file' = IF stored THEN [file EXCEPT ![provisioner] = Content(provisioner)]
                       ELSE file
            /\ provisioner' = IF provisioner = "csp" \/ (~stored /\ provisioner = "cp")
                              THEN "idle"
                              ELSE IF provisioner = "public" THEN "cp" ELSE "csp"
            /\ complete' = (stored /\ provisioner = "csp")
            /\ provisioner' # "idle" => enclave' = enclave
      BY <2>2 DEF WriteFile
    <3>2. provisioner \in {"public", "cp", "csp"} /\ file[provisioner] = Empty
      BY <2>2 DEF WriteFile
    <3>3. file' = [f \in {"public", "cp", "csp"} |-> file'[f]]
      BY <1>0, <3>1, <3>2 DEF DirectoryInv
    <3>4. /\ KeyOf(generation, enclave[0].mode, 1) \in sealed
          /\ KeyOf(generation, enclave[0].mode, 2) \in sealed
      BY <1>0, <3>2 DEF DirectoryInv
    <3>5. CASE provisioner = "public"
      <4>1. /\ provisioner' = "cp" /\ ~complete' /\ file'["public"] \in {Empty, generation}
            /\ \A f \in {"cp", "csp"} : file'[f] = file[f]
        BY <1>0, <3>1, <3>2, <3>5 DEF DirectoryInv, Content
      <4> QED  BY <1>0, <1>1, <3>1, <3>3, <4>1 DEF DirectoryInv
    <3>6. CASE provisioner = "cp"
      <4>1. /\ ~complete' /\ file'["public"] = file["public"] /\ file'["csp"] = file["csp"]
            /\ \/ provisioner' = "idle" /\ file' = file
               \/ /\ provisioner' = "csp"
                  /\ file'["cp"] = KeyOf(generation, enclave[0].mode, 1)
        BY <1>0, <3>1, <3>2, <3>6 DEF DirectoryInv, Content
      <4> QED  BY <1>0, <1>1, <3>1, <3>3, <3>4, <3>6, <4>1 DEF DirectoryInv
    <3>7. CASE provisioner = "csp"
      <4>1. /\ provisioner' = "idle"
            /\ file'["public"] = file["public"] /\ file'["cp"] = file["cp"]
            /\ \/ ~complete' /\ file' = file
               \/ file'["csp"] = KeyOf(generation, enclave[0].mode, 2)
        BY <1>0, <3>1, <3>2, <3>7 DEF DirectoryInv, Content
      <4>2. complete' \in BOOLEAN
        BY <3>1
      <4>3. complete' => OneGeneration'
        BY <1>0, <3>1, <3>2, <3>7, <4>1 DEF DirectoryInv, OneGeneration, KeyOf, Content
      <4> QED  BY <1>0, <1>1, <3>3, <3>4, <4>1, <4>2, <4>3 DEF DirectoryInv
    <3> QED  BY <3>2, <3>5, <3>6, <3>7
  <2>3. CASE ProvisionCrash
    BY <1>0, <2>3 DEF ProvisionCrash, DirectoryInv, OneGeneration
  <2> QED  BY <2>1, <2>2, <2>3
<1> QED  BY <1>2, <1>3, <1>4, <1>5

(* A process starts, loads its share into its enclave, or ends.             *)
Replaced(r, e) ==
  /\ enclave' = [enclave EXCEPT ![r] = e]
  /\ generation' = generation /\ sealed' = sealed

LEMMA OneReplaced ==
  ASSUME EnclavesInv, NEW r \in Roles, NEW e \in EnclaveState, RightKey(e, r, sealed),
         Replaced(r, e)
  PROVE  /\ EnclavesInv' /\ enclave'[r] = e
         /\ r # 0 => enclave'[0] = enclave[0]
         /\ r # 1 => enclave'[1] = enclave[1]
         /\ r # 2 => enclave'[2] = enclave[2]
<1> USE DEF Replaced
<1>1. EnclavesInv'
  BY ReplaceEnclave DEF EnclavesInv
<1>2. 0 \in Roles /\ 1 \in Roles /\ 2 \in Roles
  BY DEF Roles
<1> QED  BY <1>1, <1>2 DEF EnclavesInv

LEMMA DirectoryUntouched ==
  ASSUME DirectoryInv, UNCHANGED <<generation, sealed, provisioner, file, complete>>,
         enclave'[0] = enclave[0]
  PROVE  DirectoryInv'
BY DEF DirectoryInv, OneGeneration

LEMMA ServerStarts ==
  ASSUME ServiceInv, CspStart \/ (\E mode \in Modes : CspLoadShare(mode)) \/ CspLoadModulus
  PROVE  EnclavesInv' /\ DirectoryInv' /\ ProcessInv' /\ CallInv'
<1>0. /\ EnclavesInv /\ DirectoryInv /\ ProcessInv /\ CallInv
      /\ 0 \in Roles /\ 1 \in Roles /\ 2 \in Roles
  BY DEF ServiceInv, Roles
<1>1. /\ generation' = generation /\ sealed' = sealed
      /\ UNCHANGED <<batchVars, provisioner, file, complete, cp, call>>
  BY DEF CspStart, CspLoadShare, CspLoadModulus, enclaveVars
<1>2. ASSUME EnclavesInv', enclave'[0] = enclave[0], enclave'[1] = enclave[1], ProcessInv'
      PROVE  EnclavesInv' /\ DirectoryInv' /\ ProcessInv' /\ CallInv'
  BY <1>0, <1>1, <1>2, DirectoryUntouched, CallUntouched
<1>3. CASE CspStart
  <2>1. /\ csp.pc = "down" /\ csp' = [pc |-> "share", modulus |-> Empty, clean |-> complete]
        /\ enclave' = enclave
    BY <1>3 DEF CspStart, enclaveVars
  <2>2. EnclavesInv'
    BY <1>0, <1>1, <2>1 DEF EnclavesInv
  <2>3. complete \in BOOLEAN
    BY <1>0 DEF DirectoryInv
  <2>4. ProcessInv'
    BY <1>0, <1>1, <2>1, <2>3 DEF ProcessInv
  <2> QED  BY <1>2, <2>1, <2>2, <2>4
<1>4. ASSUME NEW mode \in Modes, CspLoadShare(mode)
      PROVE  EnclavesInv' /\ DirectoryInv' /\ ProcessInv' /\ CallInv'
  <2> DEFINE e == LoadShare(2, mode, "csp")
  <2>1. /\ csp.pc = "share" /\ enclave' = [enclave EXCEPT ![2] = e]
        /\ csp' = IF e = Fresh THEN Down ELSE [csp EXCEPT !.pc = "modulus"]
    BY <1>4 DEF CspLoadShare
  <2>2. /\ e \in EnclaveState /\ RightKey(e, 2, sealed)
        /\ e # Fresh => e.keyed /\ e.key = file["csp"]
    BY <1>0, ShareLoads DEF EnclavesInv, DirectoryInv
  <2> HIDE DEF e
  <2>3. /\ EnclavesInv' /\ enclave'[2] = e
        /\ enclave'[0] = enclave[0] /\ enclave'[1] = enclave[1]
    <3>1. /\ EnclavesInv /\ 2 \in Roles /\ e \in EnclaveState
          /\ RightKey(e, 2, sealed) /\ Replaced(2, e)
      BY <1>0, <1>1, <2>1, <2>2 DEF Replaced
    <3> QED  BY <3>1, OneReplaced
  <2>4. ProcessInv'
    <3>1. CASE e = Fresh
      BY <1>0, <1>1, <2>1, <2>3, <3>1 DEF ProcessInv, Down
    <3>2. CASE e # Fresh
      <4>1. csp' = [pc |-> "modulus", modulus |-> csp.modulus, clean |-> csp.clean]
        BY <1>0, <2>1, <3>2 DEF ProcessInv
      <4> QED  BY <1>0, <1>1, <2>1, <2>2, <2>3, <3>2, <4>1 DEF ProcessInv
    <3> QED  BY <3>1, <3>2
  <2> QED  BY <1>2, <2>3, <2>4
<1>5. CASE CspLoadModulus
  <2>1. csp.pc = "modulus" /\ Fresh \in EnclaveState /\ RightKey(Fresh, 2, sealed)
    BY <1>5, NoKeyIsKey, FreshRight DEF CspLoadModulus
  <2>2. CASE csp' = Down /\ enclave' = [enclave EXCEPT ![2] = Fresh]
    <3>1. /\ EnclavesInv' /\ enclave'[0] = enclave[0] /\ enclave'[1] = enclave[1]
      <4>1. /\ EnclavesInv /\ 2 \in Roles /\ Fresh \in EnclaveState
            /\ RightKey(Fresh, 2, sealed) /\ Replaced(2, Fresh)
        BY <1>0, <1>1, <2>1, <2>2 DEF Replaced
      <4> QED  BY <4>1, OneReplaced
    <3>2. ProcessInv'
      BY <1>0, <1>1, <2>1, <2>2, <3>1 DEF ProcessInv, Down
    <3> QED  BY <1>2, <3>1, <3>2
  <2>3. CASE /\ csp' = [csp EXCEPT !.pc = "ready", !.modulus = file["public"]]
             /\ enclave' = enclave
    <3>1. csp' = [pc |-> "ready", modulus |-> file["public"], clean |-> csp.clean]
      BY <1>0, <2>3 DEF ProcessInv
    <3>2. csp.clean => file["public"] \in {Empty, enclave[2].key.generation}
      BY <1>0, <2>1 DEF ProcessInv, DirectoryInv, OneGeneration
    <3>3. ProcessInv'
      BY <1>0, <1>1, <2>1, <2>3, <3>1, <3>2 DEF ProcessInv
    <3>4. EnclavesInv'
      BY <1>0, <1>1, <2>3 DEF EnclavesInv
    <3> QED  BY <1>2, <2>3, <3>3, <3>4
  <2> QED  BY <1>5, <2>2, <2>3 DEF CspLoadModulus
<1> QED  BY <1>3, <1>4, <1>5

LEMMA ClientStarts ==
  ASSUME ServiceInv, CpStart \/ (\E mode \in Modes : CpLoadShare(mode)) \/ CpConnect \/ CpStop
  PROVE  EnclavesInv' /\ DirectoryInv' /\ ProcessInv' /\ CallInv'
<1>0. /\ EnclavesInv /\ DirectoryInv /\ ProcessInv /\ CallInv
      /\ 0 \in Roles /\ 1 \in Roles /\ 2 \in Roles
  BY DEF ServiceInv, Roles
<1>1. /\ generation' = generation /\ sealed' = sealed
      /\ UNCHANGED <<batchVars, provisioner, file, complete, csp, call>>
      /\ call = NoCall
  BY <1>0 DEF CpStart, CpLoadShare, CpConnect, CpStop, enclaveVars, CallInv
<1>2. ASSUME EnclavesInv', enclave'[0] = enclave[0], ProcessInv'
      PROVE  EnclavesInv' /\ DirectoryInv' /\ ProcessInv' /\ CallInv'
  BY <1>0, <1>1, <1>2, DirectoryUntouched, CallUntouched
<1>3. CASE CpStart
  <2>1. /\ cp' = [pc |-> "share", modulus |-> file["public"], clean |-> complete]
        /\ enclave' = enclave
    BY <1>3 DEF CpStart, enclaveVars
  <2>2. EnclavesInv'
    BY <1>0, <1>1, <2>1 DEF EnclavesInv
  <2>3. complete \in BOOLEAN
    BY <1>0 DEF DirectoryInv
  <2>4. ProcessInv'
    BY <1>0, <1>1, <2>1, <2>3 DEF ProcessInv
  <2> QED  BY <1>2, <2>1, <2>2, <2>4
<1>4. ASSUME NEW mode \in Modes, CpLoadShare(mode)
      PROVE  EnclavesInv' /\ DirectoryInv' /\ ProcessInv' /\ CallInv'
  <2> DEFINE e == LoadShare(1, mode, "cp")
  <2>1. /\ cp.pc = "share" /\ enclave' = [enclave EXCEPT ![1] = e]
        /\ cp' = IF e = Fresh THEN Down ELSE [cp EXCEPT !.pc = "connect"]
    BY <1>4 DEF CpLoadShare
  <2>2. /\ e \in EnclaveState /\ RightKey(e, 1, sealed)
        /\ e # Fresh => e.keyed /\ e.key = file["cp"]
    BY <1>0, ShareLoads DEF EnclavesInv, DirectoryInv
  <2> HIDE DEF e
  <2>3. /\ EnclavesInv' /\ enclave'[1] = e
        /\ enclave'[0] = enclave[0] /\ enclave'[2] = enclave[2]
    <3>1. /\ EnclavesInv /\ 1 \in Roles /\ e \in EnclaveState
          /\ RightKey(e, 1, sealed) /\ Replaced(1, e)
      BY <1>0, <1>1, <2>1, <2>2 DEF Replaced
    <3> QED  BY <3>1, OneReplaced
  <2>4. ProcessInv'
    <3>1. CASE e = Fresh
      BY <1>0, <1>1, <2>1, <2>3, <3>1 DEF ProcessInv, Down
    <3>2. CASE e # Fresh
      <4>1. cp' = [pc |-> "connect", modulus |-> cp.modulus, clean |-> cp.clean]
        BY <1>0, <2>1, <3>2 DEF ProcessInv
      <4>2. cp.clean => cp.modulus \in {Empty, e.key.generation}
        BY <1>0, <2>1, <2>2, <3>2 DEF ProcessInv, DirectoryInv, OneGeneration
      <4> QED  BY <1>0, <1>1, <2>1, <2>2, <2>3, <3>2, <4>1, <4>2 DEF ProcessInv
    <3> QED  BY <3>1, <3>2
  <2> QED  BY <1>2, <2>3, <2>4
<1>5. CASE CpConnect \/ CpStop
  <2>1. /\ Fresh \in EnclaveState /\ RightKey(Fresh, 1, sealed)
        /\ \/ cp' = Down /\ enclave' = [enclave EXCEPT ![1] = Fresh]
           \/ /\ cp.pc = "connect" /\ csp.pc = "ready"
              /\ cp' = [cp EXCEPT !.pc = "open"] /\ enclave' = enclave
    BY <1>5, NoKeyIsKey, FreshRight DEF CpConnect, CpStop
  <2>2. CASE cp' = Down /\ enclave' = [enclave EXCEPT ![1] = Fresh]
    <3>1. /\ EnclavesInv' /\ enclave'[0] = enclave[0] /\ enclave'[2] = enclave[2]
      <4>1. /\ EnclavesInv /\ 1 \in Roles /\ Fresh \in EnclaveState
            /\ RightKey(Fresh, 1, sealed) /\ Replaced(1, Fresh)
        BY <1>0, <1>1, <2>1, <2>2 DEF Replaced
      <4> QED  BY <4>1, OneReplaced
    <3>2. ProcessInv'
      BY <1>0, <1>1, <2>1, <2>2, <3>1 DEF ProcessInv, Down
    <3> QED  BY <1>2, <3>1, <3>2
  <2>3. CASE /\ cp.pc = "connect" /\ csp.pc = "ready"
             /\ cp' = [cp EXCEPT !.pc = "open"] /\ enclave' = enclave
    <3>1. cp' = [pc |-> "open", modulus |-> cp.modulus, clean |-> cp.clean]
      BY <1>0, <2>3 DEF ProcessInv
    <3>2. ProcessInv'
      BY <1>0, <1>1, <2>3, <3>1 DEF ProcessInv
    <3>3. EnclavesInv'
      BY <1>0, <1>1, <2>3 DEF EnclavesInv
    <3> QED  BY <1>2, <2>3, <3>2, <3>3
  <2> QED  BY <2>1, <2>2, <2>3
<1> QED  BY <1>3, <1>4, <1>5

(* The server ends: its client's connection breaks and the request in       *)
(* progress fails with whatever its pool was doing.                         *)
LEMMA ServerEnds ==
  ASSUME ServiceInv, CspCrash \/ Shutdown
  PROVE  EnclavesInv' /\ DirectoryInv' /\ ProcessInv' /\ CallInv'
<1>0. /\ EnclavesInv /\ DirectoryInv /\ ProcessInv /\ CallInv
      /\ 0 \in Roles /\ 1 \in Roles /\ 2 \in Roles
  BY DEF ServiceInv, Roles
<1>1. /\ generation' = generation /\ sealed' = sealed
      /\ UNCHANGED <<provisioner, file, complete>>
      /\ csp' = Down /\ enclave' = [enclave EXCEPT ![2] = Fresh] /\ cp' = Broken(cp)
      /\ Fresh \in EnclaveState /\ RightKey(Fresh, 2, sealed)
  BY NoKeyIsKey, FreshRight DEF CspCrash, Shutdown
<1>2. /\ EnclavesInv' /\ enclave'[0] = enclave[0] /\ enclave'[1] = enclave[1]
  <2>1. /\ EnclavesInv /\ 2 \in Roles /\ Fresh \in EnclaveState
        /\ RightKey(Fresh, 2, sealed) /\ Replaced(2, Fresh)
    BY <1>0, <1>1 DEF Replaced
  <2> QED  BY <2>1, OneReplaced
<1>3. DirectoryInv'
  BY <1>0, <1>1, <1>2, DirectoryUntouched
<1>4. cp' = [pc |-> IF cp.pc = "open" THEN "broken" ELSE cp.pc,
             modulus |-> cp.modulus, clean |-> cp.clean]
  BY <1>0, <1>1 DEF ProcessInv, Broken
<1>5. ProcessInv'
  BY <1>0, <1>1, <1>2, <1>4 DEF ProcessInv, Down
<1>6. CASE Shutdown
  <2>1. UNCHANGED <<batchVars, call>> /\ call = NoCall
    BY <1>6 DEF Shutdown
  <2> QED  BY <1>0, <1>2, <1>3, <1>5, <2>1, CallUntouched
<1>7. CASE CspCrash
  <2>1. CASE call.stage \in {"sent", "encrypting", "replied"}
    <3>1. /\ call # NoCall /\ CallType /\ cp.pc \in {"open", "broken"}
          /\ call' = [call EXCEPT !.stage = "failed"]
      BY <1>0, <1>7, <2>1 DEF CspCrash, CallInv, NoCall
    <3>2. /\ call' = [stage |-> "failed", op |-> call.op, items |-> Items,
                      ciphers |-> call.ciphers, parts |-> call.parts,
                      reply |-> call.reply, clean |-> call.clean]
          /\ call'.stage = "failed" /\ Items' = Items
      BY <3>1 DEF CallType, Items
    <3>3. CallType'
      BY <3>1, <3>2 DEF CallType, Stages
    <3>4. main' = "idle"
      BY <1>0, <1>7, <2>1 DEF CspCrash, CallInv, Forget, batchVars
    <3>5. cp'.pc = "broken" \/ cp'.pc = cp.pc
      BY <1>4
    <3>6. AnswersRight'
      BY <3>2 DEF AnswersRight
    <3>7. CallInv'
      BY <3>1, <3>2, <3>3, <3>4, <3>5, <3>6 DEF CallInv
    <3> QED  BY <1>2, <1>3, <1>5, <3>7
  <2>2. CASE call.stage \notin {"sent", "encrypting", "replied"}
    <3>1. UNCHANGED <<batchVars, call>>
      BY <1>7, <2>2 DEF CspCrash
    <3>2. cp'.pc = (IF cp.pc = "open" THEN "broken" ELSE cp.pc) /\ cp'.modulus = cp.modulus
      BY <1>4
    <3>3. /\ Items' = Items /\ CallType' /\ AnswersRight'
      BY <1>0, <2>2, <3>1 DEF CallInv, CallType, Items, AnswersRight
    <3>4. CallInv'
      BY <1>0, <2>2, <3>1, <3>2, <3>3 DEF CallInv, batchVars
    <3> QED  BY <1>2, <1>3, <1>5, <3>4
  <2> QED  BY <2>1, <2>2
<1> QED  BY <1>6, <1>7

-----------------------------------------------------------------------------
(* The steps of a call change neither keys nor files; a process changes     *)
(* only where it ends, or the connection with it.                           *)
LEMMA KeysStay ==
  ASSUME EnclavesInv, DirectoryInv, ProcessInv,
         UNCHANGED <<enclave, generation, sealed, file, provisioner, complete, cp, csp>>
  PROVE  EnclavesInv' /\ DirectoryInv' /\ ProcessInv'
<1>1. EnclavesInv'
  BY DEF EnclavesInv
<1>2. DirectoryInv'
  BY DirectoryUntouched
<1>3. ProcessInv'
  BY DEF ProcessInv
<1> QED  BY <1>1, <1>2, <1>3

LEMMA ConnectionBreaks ==
  ASSUME ProcessInv, cp' = Broken(cp), csp' = csp, enclave' = enclave,
         UNCHANGED <<file, complete>>
  PROVE  ProcessInv'
<1>1. cp' = [pc |-> IF cp.pc = "open" THEN "broken" ELSE cp.pc,
             modulus |-> cp.modulus, clean |-> cp.clean]
  BY DEF ProcessInv, Broken
<1> QED  BY <1>1 DEF ProcessInv

(* The operands of a call are a batch of the program.                       *)
LEMMA ItemsAreABatch ==
  ASSUME CallType, call # NoCall
  PROVE  /\ Len(Items) \in Nat /\ DOMAIN Items = 1..Len(Items)
         /\ \A i \in DOMAIN Items : Items[i] # Garbage
         /\ call.op \in {"D", "P", "C", "M"}
BY BatchAssumption, ServiceAssumption DEF CallType

(* A call that fails waits for its client to be told.                       *)
LEMMA CallFails ==
  ASSUME CallInv, call # NoCall, Fails("failed"), main' = "idle",
         cp'.pc \in {"open", "broken"}
  PROVE  CallInv'
<1>1. call' = [call EXCEPT !.stage = "failed"] /\ CallType
  BY DEF Fails, CallInv
<1>2. /\ call' = [stage |-> "failed", op |-> call.op, items |-> Items,
                  ciphers |-> call.ciphers, parts |-> call.parts,
                  reply |-> call.reply, clean |-> call.clean]
      /\ call'.stage = "failed" /\ Items' = Items
  BY <1>1 DEF CallType, Items
<1>3. CallType'
  BY <1>1, <1>2 DEF CallType, Stages
<1>4. AnswersRight'
  BY <1>2 DEF AnswersRight
<1> QED  BY <1>2, <1>3, <1>4 DEF CallInv

LEMMA CallEnds ==
  ASSUME call' = NoCall, main' = "idle"
  PROVE  CallInv'
BY DEF CallInv, CallType, NoCall, AnswersRight

(* A request starts; the pool has its operands, or there are none.          *)
LEMMA CallStarts ==
  ASSUME CallInv, NEW q \in Requests, Call(q)
  PROVE  CallInv'
<1>1. /\ cp.pc \in {"open", "broken"} /\ cp' = cp
      /\ call' = [stage |-> "preparing", op |-> q.op, items |-> q.items,
                  ciphers |-> <<>>, parts |-> <<>>, reply |-> <<>>, clean |-> FALSE]
      /\ plaintexts' = q.items /\ modulus' = cp.modulus /\ main' # "idle"
  BY DEF Call, Start
<1>2. Items' = q.items /\ call'.stage = "preparing"
  BY <1>1 DEF Items
<1>3. CallType'
  BY <1>1, <1>2 DEF CallType, Stages
<1>4. AnswersRight'
  BY <1>2 DEF AnswersRight
<1> QED  BY <1>1, <1>2, <1>3, <1>4 DEF CallInv

(* What is sent is encrypted under the client's modulus and decrypted       *)
(* partially with the share of the enclave it holds.                        *)
LEMMA CallIsSent ==
  ASSUME ServiceInv, Send
  PROVE  CallInv'
<1>0. EnclavesInv /\ ProcessInv /\ CallInv /\ CallType /\ Returned
  BY DEF ServiceInv, CallInv, BatchInvariant
<1>1. PICK parts \in [DOMAIN Items -> UNION {PartialDecrypt(enclave[1], output[i]) :
                                               i \in DOMAIN Items}] :
        /\ \A i \in DOMAIN Items : parts[i].of = output[i]
        /\ call' = [call EXCEPT !.stage = "sent", !.ciphers = output, !.parts = parts]
  BY DEF Send
<1>2. /\ call.stage = "preparing" /\ main = "returned" /\ cp.pc = "open"
      /\ main' = "idle" /\ cp' = cp /\ enclave' = enclave
  BY DEF Send, Release, Forget, enclaveVars
<1>3. call # NoCall /\ plaintexts = Items /\ modulus = cp.modulus
  BY <1>0, <1>2 DEF CallInv, NoCall
<1>4. Len(Items) \in Nat /\ DOMAIN Items = 1..Len(Items)
  BY <1>0, <1>3, ItemsAreABatch
<1>5. output = [i \in DOMAIN Items |-> UnderModulus(cp.modulus, Items[i])]
  BY <1>0, <1>2, <1>3, <1>4 DEF Returned, ReturnsAll, Size, Cipher, UnderModulus
<1>6. Len(Items) > 0 => cp.modulus # Empty
  BY <1>0, <1>2, <1>3 DEF Returned, Size
<1>7. ASSUME NEW i \in DOMAIN Items
      PROVE  parts[i] = [of |-> output[i], share |-> 1, key |-> enclave[1].key.generation]
  <2>1. 1 \in Roles /\ enclave[1].role = 1
    BY <1>0, <1>2 DEF EnclavesInv, RightKey, ProcessInv, Roles
  <2>2. PICK j \in DOMAIN Items : parts[i] \in PartialDecrypt(enclave[1], output[j])
    BY <1>1
  <2>3. parts[i] = [of |-> output[j], key |-> enclave[1].key.generation, share |-> 1]
    BY <2>1, <2>2 DEF PartialDecrypt
  <2>4. parts[i].of = output[i]
    BY <1>1
  <2> QED  BY <2>3, <2>4
<1>8. /\ call' = [stage |-> "sent", op |-> call.op, items |-> Items,
                  ciphers |-> output, parts |-> parts,
                  reply |-> call.reply, clean |-> call.clean]
      /\ call'.stage = "sent" /\ Items' = Items
      /\ call'.ciphers = output /\ call'.parts = parts
  BY <1>0, <1>1, <1>3 DEF CallType, Items
<1>9. CallType'
  BY <1>0, <1>3, <1>8 DEF CallType, Stages
<1>10. AnswersRight'
  BY <1>8 DEF AnswersRight
<1> HIDE DEF Items
<1> QED  BY <1>2, <1>5, <1>6, <1>7, <1>8, <1>9, <1>10 DEF CallInv, UnderModulus

(* A request that can be decrypted was decrypted partially under the same   *)
(* generation; to a clean client, it decrypts to its operands.              *)
LEMMA DecryptsToItems ==
  ASSUME ServiceInv, call.stage = "sent", NEW p \in Decryptions
  PROVE  /\ p = [i \in DOMAIN Items |-> p[i]]
         /\ \A i \in DOMAIN Items : cp.clean =>
              /\ p[i] = Items[i]
              /\ cp.modulus = enclave[2].key.generation
<1> DEFINE combined(i) == UNION {Combine(enclave[2], call.parts[i], u) :
                                   u \in PartialDecrypt(enclave[2], call.ciphers[i])}
<1>0. ProcessInv /\ CallInv /\ CallType /\ call # NoCall
  BY DEF ServiceInv, CallInv, NoCall
<1>1. /\ p \in [DOMAIN Items -> UNION {combined(i) : i \in DOMAIN Items}]
      /\ \A i \in DOMAIN Items : p[i] \in combined(i)
  BY DEF Decryptions
<1>2. ASSUME NEW i \in DOMAIN Items, cp.clean
      PROVE  p[i] = Items[i] /\ cp.modulus = enclave[2].key.generation
  <2> DEFINE g == enclave[2].key.generation
             part == call.parts[i]
             item == Items[i]
  <2>1. Len(Items) \in Nat /\ DOMAIN Items = 1..Len(Items)
    BY <1>0, ItemsAreABatch
  <2>2. cp.modulus # Empty
    BY <1>0, <2>1 DEF CallInv
  <2>3. cp.modulus = enclave[1].key.generation
    BY <1>0, <1>2, <2>2 DEF ProcessInv, CallInv
  <2>4. /\ part.key = enclave[1].key.generation
        /\ part.of.modulus = cp.modulus /\ part.of.value = item
    <3> HIDE DEF part, item
    <3>1. part = [of |-> call.ciphers[i], share |-> 1, key |-> enclave[1].key.generation]
      BY <1>0 DEF CallInv, part
    <3>2. call.ciphers[i] = UnderModulus(cp.modulus, item)
      BY <1>0 DEF CallInv, item
    <3> QED  BY <3>1, <3>2 DEF UnderModulus
  <2> HIDE DEF g, part, item
  <2>5. PICK u \in PartialDecrypt(enclave[2], call.ciphers[i]) :
          p[i] \in Combine(enclave[2], part, u)
    BY <1>1 DEF part
  <2>6. part.key = g /\ p[i] = IF part.of.modulus = g THEN part.of.value ELSE Garbage
    BY <2>5 DEF Combine, g
  <2> QED  BY <2>3, <2>4, <2>6 DEF g, item
<1> QED  BY <1>1, <1>2

(* What is disclosed to a clean client is right.                            *)
LEMMA DisclosedRight ==
  ASSUME ServiceInv, Disclose
  PROVE  CallInv'
<1>0. CallInv /\ CallType /\ call.stage = "sent" /\ call # NoCall
  BY DEF ServiceInv, CallInv, NoCall, Disclose
<1>1. PICK p \in Decryptions :
        call' = [call EXCEPT !.stage = IF call.op = "P" /\ p[1] \notin {0, 1}
                                       THEN "failed" ELSE "replied",
                             !.reply = p, !.clean = cp.clean /\ csp.clean]
  BY DEF Disclose
<1>2. /\ call.op \in {"D", "P"} /\ cp' = cp /\ UNCHANGED batchVars
      /\ cp.pc = "open" /\ main = "idle"
  BY <1>0 DEF Disclose, CallInv
<1>3. /\ p = [i \in DOMAIN Items |-> p[i]]
      /\ cp.clean => \A i \in DOMAIN Items : p[i] = Items[i]
  BY <1>0, DecryptsToItems
<1>4. cp.clean \in BOOLEAN /\ csp.clean \in BOOLEAN
  BY DEF ServiceInv, ProcessInv
<1> DEFINE stage == IF call.op = "P" /\ p[1] \notin {0, 1} THEN "failed" ELSE "replied"
           clean == cp.clean /\ csp.clean
<1>5. stage \in {"failed", "replied"} /\ clean \in BOOLEAN /\ (clean => cp.clean)
  BY <1>4
<1>6. call' = [call EXCEPT !.stage = stage, !.reply = p, !.clean = clean]
  BY <1>1
<1> HIDE DEF stage, clean
<1>7. /\ call' = [stage |-> stage, op |-> call.op, items |-> Items,
                  ciphers |-> call.ciphers, parts |-> call.parts,
                  reply |-> p, clean |-> clean]
      /\ call'.stage = stage /\ Items' = Items /\ call'.op = call.op
      /\ call'.reply = p /\ call'.clean = clean
  BY <1>0, <1>6 DEF CallType, Items
<1>8. CallType'
  BY <1>0, <1>5, <1>7 DEF CallType, Stages
<1>9. AnswersRight'
  BY <1>2, <1>3, <1>5, <1>7 DEF AnswersRight, Answer
<1> QED  BY <1>2, <1>5, <1>7, <1>8, <1>9 DEF CallInv, batchVars

(* The server encrypts, under its own modulus, what the operands of a clean *)
(* client mean.                                                             *)
LEMMA ComputedRight ==
  ASSUME ServiceInv, Compute
  PROVE  CallInv' /\ BatchInvariant'
<1>0. /\ ProcessInv /\ CallInv /\ CallType /\ call.stage = "sent" /\ call # NoCall
      /\ BatchInvariant
  BY DEF ServiceInv, CallInv, NoCall, Compute
<1>1. PICK p \in Decryptions :
        \E results \in [DOMAIN Items -> UNION {Results(p[i]) : i \in DOMAIN Items}] :
          /\ \A i \in DOMAIN Items : results[i] \in Results(p[i])
          /\ Start(results, csp.modulus)
  BY DEF Compute
<1>2. PICK results \in [DOMAIN Items -> UNION {Results(p[i]) : i \in DOMAIN Items}] :
          /\ \A i \in DOMAIN Items : results[i] \in Results(p[i])
          /\ Start(results, csp.modulus)
  BY <1>1
<1>3. /\ call.op \in {"C", "M"} /\ cp' = cp /\ cp.pc = "open" /\ csp.pc = "ready"
      /\ call' = [call EXCEPT !.stage = "encrypting", !.clean = cp.clean /\ csp.clean]
  BY <1>0 DEF Compute, CallInv, ProcessInv
<1>4. plaintexts' = results /\ modulus' = csp.modulus /\ main' # "idle"
  BY <1>2 DEF Start
<1>5. /\ Len(Items) \in Nat /\ DOMAIN Items = 1..Len(Items)
      /\ \A i \in DOMAIN Items : Items[i] # Garbage
  BY <1>0, ItemsAreABatch
<1>6. Len(results) = Len(Items) /\ DOMAIN results = 1..Len(results)
  <2> DEFINE n == Len(Items)
             S == UNION {Results(p[i]) : i \in DOMAIN Items}
  <2>1. n \in Nat /\ results \in [1..n -> S]
    BY <1>5
  <2> HIDE DEF n, S
  <2>2. Len(results) = n /\ DOMAIN results = 1..n
    BY <2>1
  <2> QED  BY <2>2 DEF n
<1>7. BatchInvariant'
  BY <1>0, <1>2, <1>5, <1>6, StartPreserves
<1>8. ASSUME cp.clean, csp.clean, csp.modulus # Empty, NEW i \in DOMAIN Items
      PROVE  csp.modulus = cp.modulus /\ results[i] = Meant(i)
  <2>1. p[i] = Items[i] /\ cp.modulus = enclave[2].key.generation
    BY <1>0, <1>8, DecryptsToItems
  <2>2. csp.modulus = enclave[2].key.generation
    BY <1>0, <1>3, <1>8 DEF ProcessInv
  <2>3. results[i] \in Results(Items[i]) /\ Items[i] # Garbage
    BY <1>2, <1>5, <2>1
  <2>4. CASE call.op = "C"
    BY <2>1, <2>2, <2>3, <2>4 DEF Results, Signs, Meant
  <2>5. CASE call.op # "C"
    BY <2>1, <2>2, <2>3, <2>5 DEF Results, Meant
  <2> QED  BY <2>4, <2>5
<1> DEFINE clean == cp.clean /\ csp.clean
<1>9. clean \in BOOLEAN /\ (clean => cp.clean /\ csp.clean)
  BY <1>0 DEF ProcessInv
<1>10. call' = [call EXCEPT !.stage = "encrypting", !.clean = clean]
  BY <1>3
<1> HIDE DEF clean
<1>11. /\ call' = [stage |-> "encrypting", op |-> call.op, items |-> Items,
                   ciphers |-> call.ciphers, parts |-> call.parts,
                   reply |-> call.reply, clean |-> clean]
       /\ call'.stage = "encrypting" /\ Items' = Items /\ call'.op = call.op
       /\ call'.clean = clean
  BY <1>0, <1>10 DEF CallType, Items
<1>12. CallType'
  BY <1>0, <1>9, <1>11 DEF CallType, Stages
<1>13. AnswersRight'
  BY <1>11 DEF AnswersRight
<1>14. \A i : Meant(i)' = Meant(i)
  BY <1>11 DEF Meant
<1>15. CallInv'
  BY <1>3, <1>4, <1>6, <1>8, <1>9, <1>11, <1>12, <1>13, <1>14 DEF CallInv
<1> QED  BY <1>7, <1>15

(* A clean client is sent what its operands mean, under its modulus.        *)
LEMMA RepliedRight ==
  ASSUME ServiceInv, ReplyBatch
  PROVE  CallInv'
<1>0. CallInv /\ CallType /\ call.stage = "encrypting" /\ call # NoCall /\ Returned
  BY DEF ServiceInv, CallInv, NoCall, ReplyBatch, BatchInvariant
<1>1. /\ main = "returned" /\ main' = "idle" /\ cp' = cp
      /\ call' = [call EXCEPT !.stage = "replied", !.reply = output]
  BY DEF ReplyBatch, Release, Forget
<1>2. /\ call.op \in {"C", "M"} /\ cp.pc = "open" /\ Size = Len(Items)
      /\ call.clean /\ modulus # Empty =>
           \A i \in DOMAIN Items : modulus = cp.modulus /\ plaintexts[i] = Meant(i)
  BY <1>0 DEF CallInv, Size
<1>3. Len(Items) \in Nat /\ DOMAIN Items = 1..Len(Items)
  BY <1>0, ItemsAreABatch
<1>4. /\ output = [i \in DOMAIN Items |-> UnderModulus(modulus, plaintexts[i])]
      /\ \A i \in DOMAIN Items : modulus # Empty
  BY <1>0, <1>1, <1>2, <1>3 DEF Returned, ReturnsAll, Cipher, UnderModulus
<1>5. call.clean => output = [i \in DOMAIN Items |-> UnderModulus(cp.modulus, Meant(i))]
  BY <1>2, <1>4
<1>6. \A i \in DOMAIN Items : UnderModulus(cp.modulus, Meant(i)) = Answer(i)
  BY <1>2 DEF UnderModulus, Meant, Answer
<1>7. /\ call' = [stage |-> "replied", op |-> call.op, items |-> Items,
                  ciphers |-> call.ciphers, parts |-> call.parts,
                  reply |-> output, clean |-> call.clean]
      /\ call'.stage = "replied" /\ Items' = Items /\ call'.op = call.op
      /\ call'.reply = output /\ call'.clean = call.clean
  BY <1>0, <1>1 DEF CallType, Items
<1>8. CallType'
  BY <1>0, <1>7 DEF CallType, Stages
<1>9. \A i : Answer(i)' = Answer(i)
  BY <1>1, <1>7 DEF Answer
<1>10. AnswersRight'
  BY <1>5, <1>6, <1>7, <1>9 DEF AnswersRight
<1> QED  BY <1>1, <1>2, <1>7, <1>8, <1>10 DEF CallInv

-----------------------------------------------------------------------------
(* The steps of the service, by the part that takes them.                   *)
LEMMA DirectoryPreserves ==
  ASSUME ServiceInv, task = "service", Directory
  PROVE  ServiceInv'
<1>1. EnclavesInv' /\ DirectoryInv' /\ ProcessInv' /\ CallInv'
  BY ProvisionKeysPreserves, WritersPreserve DEF Directory
<1>2. UNCHANGED <<batchVars, task, code>>
  BY DEF Directory, ProvisionKeys, TruncateFile, WriteFile, ProvisionCrash, enclaveVars
<1>3. BatchInvariant' /\ TaskInv'
  BY <1>2, StutterPreserves DEF ServiceInv, TaskInv
<1> QED  BY <1>1, <1>3 DEF ServiceInv

LEMMA ProcessesPreserve ==
  ASSUME ServiceInv, task = "service", Processes
  PROVE  ServiceInv'
<1>1. EnclavesInv' /\ DirectoryInv' /\ ProcessInv' /\ CallInv'
  BY ServerStarts, ClientStarts, ServerEnds DEF Processes
<1>2. task' = task /\ code' = code
  BY DEF Processes, CspStart, CspLoadShare, CspLoadModulus, CspCrash, CpStart, CpLoadShare,
         CpConnect, CpStop, Shutdown, enclaveVars
<1>3. Forget \/ UNCHANGED batchVars
  BY DEF Processes, CspStart, CspLoadShare, CspLoadModulus, CspCrash, CpStart, CpLoadShare,
         CpConnect, CpStop, Shutdown
<1>4. BatchInvariant'
  BY <1>3, ForgetPreserves, StutterPreserves DEF ServiceInv
<1>5. TaskInv'
  BY <1>2 DEF ServiceInv, TaskInv
<1> QED  BY <1>1, <1>4, <1>5 DEF ServiceInv

LEMMA PoolPreserves ==
  ASSUME ServiceInv, task = "service", PoolRuns
  PROVE  ServiceInv'
<1>0. BatchInvariant /\ EnclavesInv /\ DirectoryInv /\ ProcessInv /\ CallInv
  BY DEF ServiceInv
<1>1. /\ PoolStep
      /\ UNCHANGED <<enclave, generation, sealed, file, provisioner, complete, cp, csp>>
      /\ task' = task /\ code' = code /\ call' = call
  BY DEF PoolRuns, enclaveVars, serviceVars
<1>2. main # "idle" /\ main' # "idle" /\ UNCHANGED <<plaintexts, modulus>>
  BY <1>0, <1>1, PoolStepKeeps
<1>3. EnclavesInv' /\ DirectoryInv' /\ ProcessInv'
  BY <1>0, <1>1, KeysStay
<1>4. Items' = Items /\ (\A i : Meant(i)' = Meant(i)) /\ (\A i : Answer(i)' = Answer(i))
  BY <1>1 DEF Items, Meant, Answer
<1>5. AnswersRight' /\ CallType'
  BY <1>0, <1>1, <1>4 DEF AnswersRight, CallInv, CallType
<1>6. CallInv'
  BY <1>0, <1>1, <1>2, <1>4, <1>5 DEF CallInv
<1>7. BatchInvariant'
  BY <1>0, <1>1, PoolStepPreserves
<1>8. TaskInv'
  BY <1>1 DEF ServiceInv, TaskInv
<1> QED  BY <1>3, <1>6, <1>7, <1>8 DEF ServiceInv

LEMMA ClientPreserves ==
  ASSUME ServiceInv, task = "service", ClientStep \/ \E q \in Requests : Call(q)
  PROVE  ServiceInv'
<1>0. BatchInvariant /\ EnclavesInv /\ DirectoryInv /\ ProcessInv /\ CallInv
  BY DEF ServiceInv
<1>1. task' = task /\ code' = code
  BY DEF ClientStep, CallEncryptFails, Send, SendFails, ClientTerminates, Answered, Call,
         enclaveVars
<1>2. TaskInv'
  BY <1>1 DEF ServiceInv, TaskInv
<1>3. CASE ClientTerminates
  <2>1. /\ Forget /\ call' = NoCall /\ cp' = Down /\ csp' = csp
        /\ enclave' = [enclave EXCEPT ![1] = Fresh]
        /\ UNCHANGED <<generation, sealed, file, provisioner, complete>>
    BY <1>3 DEF ClientTerminates
  <2>2. EnclavesInv' /\ enclave'[0] = enclave[0] /\ enclave'[2] = enclave[2]
    <3>1. /\ EnclavesInv /\ 1 \in Roles /\ Fresh \in EnclaveState
          /\ RightKey(Fresh, 1, sealed) /\ Replaced(1, Fresh)
      BY <1>0, <2>1, NoKeyIsKey, FreshRight DEF Replaced, Roles
    <3> QED  BY <3>1, OneReplaced
  <2>3. DirectoryInv'
    BY <1>0, <2>1, <2>2, DirectoryUntouched
  <2>4. ProcessInv'
    BY <1>0, <2>1, <2>2 DEF ProcessInv, Down
  <2>5. CallInv'
    BY <2>1, CallEnds DEF Forget
  <2>6. BatchInvariant'
    BY <2>1, ForgetPreserves
  <2> QED  BY <1>2, <2>2, <2>3, <2>4, <2>5, <2>6 DEF ServiceInv
<1>4. CASE ~ClientTerminates
  <2>1. UNCHANGED <<enclave, generation, sealed, file, provisioner, complete, cp, csp>>
    BY <1>4 DEF ClientStep, CallEncryptFails, Send, SendFails, Answered, Call, enclaveVars
  <2>2. EnclavesInv' /\ DirectoryInv' /\ ProcessInv'
    BY <1>0, <2>1, KeysStay
  <2>3. BatchInvariant' /\ CallInv'
    <3>1. CASE CallEncryptFails \/ SendFails
      <4>1. Forget /\ Fails("failed") /\ call.stage = "preparing"
        BY <3>1 DEF CallEncryptFails, SendFails, Release
      <4>2. main' = "idle" /\ call # NoCall /\ cp'.pc \in {"open", "broken"}
        BY <1>0, <2>1, <4>1 DEF Forget, CallInv, NoCall
      <4> QED  BY <1>0, <4>1, <4>2, ForgetPreserves, CallFails
    <3>2. CASE Send
      BY <3>2, CallIsSent, ForgetPreserves DEF Send, Release
    <3>3. CASE Answered
      <4>1. call' = NoCall /\ main' = "idle" /\ UNCHANGED batchVars
        BY <1>0, <3>3 DEF Answered, CallInv, batchVars
      <4> QED  BY <1>0, <4>1, CallEnds, StutterPreserves
    <3>4. ASSUME NEW q \in Requests, Call(q)
          PROVE  BatchInvariant' /\ CallInv'
      <4>1. Start(q.items, cp.modulus)
        BY <3>4 DEF Call
      <4>2. Len(q.items) \in Nat /\ DOMAIN q.items = 1..Len(q.items)
        BY BatchAssumption, ServiceAssumption
      <4> DEFINE ps == q.items
                 m == cp.modulus
      <4>3. Start(ps, m) /\ Len(ps) \in Nat /\ DOMAIN ps = 1..Len(ps)
        BY <4>1, <4>2
      <4> HIDE DEF ps, m
      <4>4. BatchInvariant'
        BY <1>0, <4>3, StartPreserves
      <4> QED  BY <1>0, <3>4, <4>4, CallStarts
    <3> QED  BY <1>4, <3>1, <3>2, <3>3, <3>4 DEF ClientStep
  <2> QED  BY <1>2, <2>2, <2>3 DEF ServiceInv
<1> QED  BY <1>3, <1>4

LEMMA ServerPreserves ==
  ASSUME ServiceInv, task = "service", ServerStep
  PROVE  ServiceInv'
<1>0. BatchInvariant /\ EnclavesInv /\ DirectoryInv /\ ProcessInv /\ CallInv
  BY DEF ServiceInv
<1>1. CASE CspCrash
  BY <1>1, ProcessesPreserve DEF Processes
<1>2. CASE ~CspCrash
  <2>1. /\ UNCHANGED <<enclave, generation, sealed, file, provisioner, complete, csp>>
        /\ task' = task /\ code' = code
    BY <1>2 DEF ServerStep, Disclose, Compute, ReplyBatch, Reject, enclaveVars
  <2>2. TaskInv'
    BY <2>1 DEF ServiceInv, TaskInv
  <2>3. CASE Reject
    <3>1. /\ Fails("failed") /\ cp' = Broken(cp) /\ call.stage \in {"sent", "encrypting"}
          /\ \/ call.stage = "sent" /\ UNCHANGED batchVars
             \/ Forget
      BY <2>3 DEF Reject, Release
    <3>2. /\ call # NoCall /\ cp.pc \in {"open", "broken"} /\ main' = "idle"
      BY <1>0, <3>1 DEF CallInv, NoCall, Forget, batchVars
    <3>3. cp'.pc \in {"open", "broken"}
      <4>1. cp' = [pc |-> IF cp.pc = "open" THEN "broken" ELSE cp.pc,
                   modulus |-> cp.modulus, clean |-> cp.clean]
        BY <1>0, <3>1 DEF ProcessInv, Broken
      <4> QED  BY <3>2, <4>1
    <3>4. CallInv'
      BY <1>0, <3>1, <3>2, <3>3, CallFails
    <3>5. BatchInvariant'
      BY <1>0, <3>1, ForgetPreserves, StutterPreserves
    <3>6. EnclavesInv' /\ DirectoryInv'
      BY <1>0, <2>1, DirectoryUntouched DEF EnclavesInv
    <3>7. ProcessInv'
      BY <1>0, <2>1, <3>1, ConnectionBreaks
    <3> QED  BY <2>2, <3>4, <3>5, <3>6, <3>7 DEF ServiceInv
  <2>4. CASE Disclose \/ Compute \/ ReplyBatch
    <3>1. cp' = cp
      BY <2>4 DEF Disclose, Compute, ReplyBatch
    <3>2. EnclavesInv' /\ DirectoryInv' /\ ProcessInv'
      BY <1>0, <2>1, <3>1, KeysStay
    <3>3. CallInv' /\ BatchInvariant'
      <4>1. CASE Disclose
        BY <1>0, <4>1, DisclosedRight, StutterPreserves DEF Disclose
      <4>2. CASE Compute
        BY <4>2, ComputedRight
      <4>3. CASE ReplyBatch
        BY <4>3, RepliedRight, ForgetPreserves DEF ReplyBatch, Release
      <4> QED  BY <2>4, <4>1, <4>2, <4>3
    <3> QED  BY <2>2, <3>2, <3>3 DEF ServiceInv
  <2> QED  BY <1>2, <2>3, <2>4 DEF ServerStep
<1> QED  BY <1>1, <1>2

(* Calls on enclaves only seal more; no service is there to be disturbed.   *)
LEMMA CallsPreserve ==
  ASSUME ServiceInv, task = "calls", EnclaveNext, UNCHANGED <<batchVars, serviceVars>>
  PROVE  ServiceInv'
<1>1. /\ provisioner = "idle" /\ ~complete /\ cp = Down /\ csp = Down /\ call = NoCall
      /\ UNCHANGED <<task, file, provisioner, complete, cp, csp, call>>
  BY DEF ServiceInv, TaskInv, serviceVars
<1>2. sealed \subseteq sealed'
  BY DEF EnclaveNext, CallInitialize, CallGenerate, CallLoadSealedKey, CallClose
<1>3. EnclavesInv'
  BY CallsKeepKeys DEF ServiceInv
<1>4. TaskInv'
  BY <1>1 DEF ServiceInv, TaskInv
<1>5. DirectoryInv'
  BY <1>1, <1>2 DEF ServiceInv, DirectoryInv
<1>6. ProcessInv'
  BY <1>1 DEF ProcessInv, Down
<1>7. CallInv'
  BY <1>1, CallUntouched DEF ServiceInv
<1>8. BatchInvariant'
  BY StutterPreserves DEF ServiceInv
<1> QED  BY <1>3, <1>4, <1>5, <1>6, <1>7, <1>8 DEF ServiceInv

LEMMA ServiceStarts == ServiceInit => ServiceInv
<1> SUFFICES ASSUME ServiceInit PROVE ServiceInv
  OBVIOUS
<1>1. BatchInvariant
  BY InitEstablishes DEF ServiceInit
<1>2. EnclavesInv
  BY NoKeyIsKey, FreshRight DEF ServiceInit, EnclaveInit, EnclavesInv
<1>3. TaskInv /\ DirectoryInv
  BY DEF ServiceInit, EnclaveInit, TaskInv, DirectoryInv
<1>4. ProcessInv
  BY DEF ServiceInit, ProcessInv, Down
<1>5. CallInv
  BY DEF ServiceInit, BatchInit, CallInv, CallType, NoCall, AnswersRight
<1> QED  BY <1>1, <1>2, <1>3, <1>4, <1>5 DEF ServiceInv

LEMMA ServiceStutters ==
  ASSUME ServiceInv, UNCHANGED allVars
  PROVE  ServiceInv'
<1>0. BatchInvariant /\ EnclavesInv /\ DirectoryInv /\ ProcessInv /\ CallInv
  BY DEF ServiceInv
<1>1. /\ UNCHANGED <<enclave, generation, sealed, file, provisioner, complete, cp, csp>>
      /\ task' = task /\ code' = code /\ call' = call /\ UNCHANGED batchVars
  BY DEF allVars, enclaveVars, serviceVars
<1>2. EnclavesInv' /\ DirectoryInv' /\ ProcessInv'
  BY <1>0, <1>1, KeysStay
<1>3. BatchInvariant' /\ CallInv'
  BY <1>0, <1>1, StutterPreserves, CallUntouched
<1>4. TaskInv'
  BY <1>1 DEF ServiceInv, TaskInv
<1> QED  BY <1>2, <1>3, <1>4 DEF ServiceInv

LEMMA ServiceStep ==
  ASSUME ServiceInv, [ServiceNext]_allVars
  PROVE  ServiceInv'
BY DirectoryPreserves, ProcessesPreserve, PoolPreserves, ClientPreserves, ServerPreserves,
   CallsPreserve, ServiceStutters DEF ServiceNext

LEMMA TaskStays == ServiceNext => task' = task
<1>1. Directory \/ Processes => task' = task
  BY DEF Directory, ProvisionKeys, TruncateFile, WriteFile, ProvisionCrash,
         Processes, CspStart, CspLoadShare, CspLoadModulus, CspCrash, CpStart, CpLoadShare,
         CpConnect, CpStop, Shutdown
<1>2. ClientStep \/ ServerStep \/ (\E q \in Requests : Call(q)) => task' = task
  BY DEF ClientStep, CallEncryptFails, Send, SendFails, ClientTerminates, Answered, Call,
         ServerStep, Disclose, Compute, ReplyBatch, Reject, CspCrash
<1>3. PoolRuns \/ UNCHANGED <<batchVars, serviceVars>> => task' = task
  BY DEF PoolRuns, serviceVars
<1> QED  BY <1>1, <1>2, <1>3 DEF ServiceNext

LEMMA ServiceInvariant == ServiceSpec => []ServiceInv
<1>1. ServiceInv /\ [ServiceNext]_allVars => ServiceInv'
  BY ServiceStep
<1> QED  BY <1>1, ServiceStarts, PTL DEF ServiceSpec

(* Whatever sequence of calls is accepted, refused or fails, in the service *)
(* or by a test program: a key that an enclave would use is complete, was   *)
(* sealed or generated for that enclave's role, and is of its mode.         *)
THEOREM KeysAlwaysBelong == ServiceSpec => []KeysBelong
<1>1. ServiceInv => KeysBelong
  BY DEF ServiceInv, EnclavesInv, RightKey, KeysBelong
<1> QED  BY <1>1, ServiceInvariant, PTL

(* The pools of the client and of the server encrypt all they were given or *)
(* throw, no two workers on one element and none left behind, wherever the  *)
(* service runs them and whenever one of its processes dies.                *)
THEOREM ServiceBatchesSafe == ServiceSpec => []BatchSafe
<1>1. ServiceInv => BatchSafe
  BY InvariantIsSafe DEF ServiceInv
<1> QED  BY <1>1, ServiceInvariant, PTL

(* A client and a server that each loaded a complete directory undisturbed, *)
(* not necessarily the same one, answer a call rightly, in order and under  *)
(* the client's modulus, or fail it.                                        *)
THEOREM CleanAnswersRight == ServiceSpec => []AnswersRight
<1>1. ServiceInv => AnswersRight
  BY DEF ServiceInv, CallInv
<1> QED  BY <1>1, ServiceInvariant, PTL

(* A call of an enclave that is refused for its input or its order leaves   *)
(* its key, and what was sealed, as they were.                              *)
THEOREM RefusedCallsChangeNothing == ServiceSpec => RefusalsChangeNothing
<1>1. ServiceInv /\ [ServiceNext]_allVars =>
        [code' \in {"INVALID", "STATE"} => UNCHANGED <<enclave, sealed>>]_enclaveVars
  <2> SUFFICES ASSUME ServiceInv, [ServiceNext]_allVars, code' \in {"INVALID", "STATE"}
               PROVE  UNCHANGED <<enclave, sealed>>
    BY DEF enclaveVars
  <2>1. CASE task = "calls" /\ EnclaveNext
    BY <2>1, CallsKeepKeys DEF ServiceInv
  <2>2. CASE task = "service"
    <3>1. task' = task
      BY TaskStays DEF allVars, serviceVars
    <3>2. ServiceInv'
      BY ServiceStep
    <3> QED  BY <2>2, <3>1, <3>2 DEF ServiceInv, TaskInv
  <2>3. CASE UNCHANGED allVars
    BY <2>3 DEF allVars, enclaveVars
  <2> QED  BY <2>1, <2>2, <2>3 DEF ServiceNext
<1> QED  BY <1>1, ServiceInvariant, PTL DEF ServiceSpec, RefusalsChangeNothing
=============================================================================
