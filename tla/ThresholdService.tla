-------------------------- MODULE ThresholdService --------------------------
(***************************************************************************)
(* The three programs of soci_threshold_runtime around one key directory:  *)
(* provision writes public.bin, cp.sealed and csp.sealed one after the     *)
(* other and may die in between; the CSP server and the CP client each     *)
(* load the public modulus and their own share, in different orders, into  *)
(* a process and its enclave.  Nothing compares the two files, or the two  *)
(* processes, with each other.  A call of the client encrypts its masked   *)
(* plaintexts, has its enclave decrypt them partially, and sends both; the *)
(* CSP's enclave completes the decryption, and the CSP replies with the    *)
(* plaintext or encrypts a result.  The encryptions of both sides are      *)
(* calls of EncryptBatch, the enclaves those of EnclaveCore.               *)
(***************************************************************************)
EXTENDS EncryptBatch, EnclaveCore

CONSTANTS
  ProvisionModes,  (* the modes that provision is run in                   *)
  Requests         (* the calls, [op, items]                               *)

ASSUME ServiceAssumption ==
  \A q \in Requests : /\ q.op \in {"D", "P", "C", "M"} /\ q.items \in Batches
                      /\ \A i \in DOMAIN q.items : q.items[i] # Garbage

VARIABLES
  task,         (* "service", or "calls" on enclaves alone                 *)
  file,         (* the files of the key directory                          *)
  provisioner,  (* the file that provision writes next                     *)
  complete,     (* history: the last provision ran to its end              *)
  cp, csp,      (* the client and the server: pc, modulus, and history:    *)
                (* clean, they loaded a complete directory undisturbed     *)
  call          (* the call of the client in progress                      *)

serviceVars == <<task, file, provisioner, complete, cp, csp, call>>
allVars     == <<batchVars, enclaveVars, serviceVars>>

Files   == <<"public", "cp", "csp">>
Down    == [pc |-> "down", modulus |-> Empty, clean |-> FALSE]
NoCall  == [stage |-> "none"]

ServiceInit ==
  /\ BatchInit /\ EnclaveInit
  /\ task \in {"service", "calls"}
  /\ file = [f \in {"public", "cp", "csp"} |-> None]
  /\ provisioner = "idle" /\ complete = FALSE
  /\ cp = Down /\ csp = Down /\ call = NoCall

-----------------------------------------------------------------------------
(* provisionThresholdKeys. *)

(* A process that is loading its files is disturbed by what is written. *)
Disturbed(p) == [p EXCEPT !.clean = @ /\ p.pc \notin {"share", "modulus"}]

(* The enclave generates, seals and is asked for nothing else; the output   *)
(* buffer is large enough.  A failure leaves the directory alone.           *)
ProvisionKeys(mode) ==
  /\ provisioner = "idle" /\ generation < MaxGeneration
  /\ LET ready == Initialize(Fresh, 0, 0, mode).enclave
     IN  \E reply \in Generate(ready, 0, mode, generation + 1, TRUE) :
           /\ reply.result \in {"OK", "CRYPTO"}
           /\ provisioner' = IF reply.result = "OK" THEN "public" ELSE "idle"
           /\ enclave' = [enclave EXCEPT ![0] =
                            IF reply.result = "OK" THEN reply.enclave ELSE Fresh]
           /\ sealed' = IF reply.result = "OK"
                        THEN sealed \cup Sealed(generation + 1, mode, TRUE) ELSE sealed
  /\ generation' = generation + 1
  /\ UNCHANGED <<batchVars, code, task, file, complete, cp, csp, call>>

(* writeFile truncates first. *)
TruncateFile ==
  /\ provisioner \in {"public", "cp", "csp"} /\ file[provisioner] # Empty
  /\ file' = [file EXCEPT ![provisioner] = Empty]
  /\ complete' = FALSE
  /\ cp' = Disturbed(cp) /\ csp' = Disturbed(csp)
  /\ UNCHANGED <<batchVars, enclaveVars, task, provisioner, call>>

Content(f) ==
  IF f = "public" THEN generation
  ELSE KeyOf(generation, enclave[0].mode, IF f = "cp" THEN 1 ELSE 2)

(* The public key is short enough to stay in the stream's buffer, so that a *)
(* full disk is noticed by nobody; a sealed share that cannot be written    *)
(* ends the program.                                                        *)
WriteFile ==
  /\ provisioner \in {"public", "cp", "csp"} /\ file[provisioner] = Empty
  /\ \E stored \in BOOLEAN :
       LET ends == provisioner = "csp" \/ (~stored /\ provisioner = "cp")
       IN  /\ file' = IF stored THEN [file EXCEPT ![provisioner] = Content(provisioner)]
                      ELSE file
           /\ provisioner' = CASE ends -> "idle"
                               [] provisioner = "public" -> "cp"
                               [] OTHER -> "csp"
           /\ complete' = (stored /\ provisioner = "csp")
           /\ enclave' = IF ends THEN [enclave EXCEPT ![0] = Fresh] ELSE enclave
  /\ cp' = Disturbed(cp) /\ csp' = Disturbed(csp)
  /\ UNCHANGED <<batchVars, generation, sealed, code, task, call>>

ProvisionCrash ==
  /\ provisioner # "idle"
  /\ provisioner' = "idle"
  /\ enclave' = [enclave EXCEPT ![0] = Fresh]
  /\ UNCHANGED <<batchVars, generation, sealed, code, task, file, complete, cp, csp, call>>

-----------------------------------------------------------------------------
(* Start and end of the two processes. *)

Unreadable(f) == file[f] \in {None, Empty}

(* initializeEnclave and loadShare: the enclave with its share, or none.    *)
LoadShare(role, mode, f) ==
  IF Unreadable(f) THEN Fresh
  ELSE LET ready == Initialize(Fresh, role, role, mode).enclave
           reply == LoadSealedKey(ready, file[f])
       IN  IF reply.result = "OK" THEN reply.enclave ELSE Fresh

(* The server reads its share first, then the modulus, which may be empty.  *)
CspStart ==
  /\ csp.pc = "down"
  /\ csp' = [pc |-> "share", modulus |-> Empty, clean |-> complete]
  /\ UNCHANGED <<batchVars, enclaveVars, task, file, provisioner, complete, cp, call>>

CspLoadShare(mode) ==
  /\ csp.pc = "share"
  /\ LET e == LoadShare(2, mode, "csp")
     IN  /\ enclave' = [enclave EXCEPT ![2] = e]
         /\ csp' = IF e = Fresh THEN Down ELSE [csp EXCEPT !.pc = "modulus"]
  /\ UNCHANGED <<batchVars, generation, sealed, code, task, file, provisioner, complete, cp, call>>

CspLoadModulus ==
  /\ csp.pc = "modulus"
  /\ IF file["public"] = None
     THEN csp' = Down /\ enclave' = [enclave EXCEPT ![2] = Fresh]
     ELSE /\ csp' = [csp EXCEPT !.pc = "ready", !.modulus = file["public"]]
          /\ UNCHANGED enclave
  /\ UNCHANGED <<batchVars, generation, sealed, code, task, file, provisioner, complete, cp, call>>

(* The client reads the modulus first, then its share, and connects.        *)
CpStart ==
  /\ cp.pc = "down" /\ file["public"] # None
  /\ cp' = [pc |-> "share", modulus |-> file["public"], clean |-> complete]
  /\ UNCHANGED <<batchVars, enclaveVars, task, file, provisioner, complete, csp, call>>

CpLoadShare(mode) ==
  /\ cp.pc = "share"
  /\ LET e == LoadShare(1, mode, "cp")
     IN  /\ enclave' = [enclave EXCEPT ![1] = e]
         /\ cp' = IF e = Fresh THEN Down ELSE [cp EXCEPT !.pc = "connect"]
  /\ UNCHANGED <<batchVars, generation, sealed, code, task, file, provisioner, complete, csp, call>>

CpConnect ==
  /\ cp.pc = "connect"
  /\ IF csp.pc = "ready"
     THEN cp' = [cp EXCEPT !.pc = "open"] /\ UNCHANGED enclave
     ELSE cp' = Down /\ enclave' = [enclave EXCEPT ![1] = Fresh]
  /\ UNCHANGED <<batchVars, generation, sealed, code, task, file, provisioner, complete, csp, call>>

(* The client is destroyed between two calls. *)
CpStop ==
  /\ cp.pc \in {"open", "broken"} /\ call = NoCall
  /\ cp' = Down /\ enclave' = [enclave EXCEPT ![1] = Fresh]
  /\ UNCHANGED <<batchVars, generation, sealed, code, task, file, provisioner, complete, csp, call>>

Broken(p) == [p EXCEPT !.pc = IF @ = "open" THEN "broken" ELSE @]

(* The server dies, in the middle of a request if there is one. *)
CspCrash ==
  /\ csp.pc # "down"
  /\ csp' = Down /\ enclave' = [enclave EXCEPT ![2] = Fresh]
  /\ cp' = Broken(cp)
  /\ IF call.stage = "encrypting" THEN Forget ELSE UNCHANGED batchVars
  /\ call' = IF call.stage \in {"sent", "encrypting", "replied"}
             THEN [call EXCEPT !.stage = "failed"] ELSE call
  /\ UNCHANGED <<generation, sealed, code, task, file, provisioner, complete>>

(* requestServerShutdown: the server replies and returns. *)
Shutdown ==
  /\ cp.pc = "open" /\ call = NoCall /\ csp.pc = "ready"
  /\ csp' = Down /\ enclave' = [enclave EXCEPT ![2] = Fresh]
  /\ cp' = Broken(cp)
  /\ UNCHANGED <<batchVars, generation, sealed, code, task, file, provisioner, complete, call>>

-----------------------------------------------------------------------------
(* One call of the client. *)

Items == call.items
Fails(why) == call' = [call EXCEPT !.stage = why]

(* The operands are encrypted under the modulus of the file; one operand is *)
(* encrypted in place, several by the pool.                                 *)
Call(q) ==
  /\ cp.pc \in {"open", "broken"} /\ call = NoCall
  /\ Start(q.items, cp.modulus)
  /\ call' = [stage |-> "preparing", op |-> q.op, items |-> q.items,
              ciphers |-> <<>>, parts |-> <<>>, reply |-> <<>>, clean |-> FALSE]
  /\ UNCHANGED <<enclaveVars, task, file, provisioner, complete, cp, csp>>

CallEncryptFails ==
  /\ call.stage = "preparing" /\ main = "thrown"
  /\ Release /\ Fails("failed")
  /\ UNCHANGED <<enclaveVars, task, file, provisioner, complete, cp, csp>>

(* Partial decryption in the client's enclave, and the request. *)
Send ==
  /\ call.stage = "preparing" /\ main = "returned" /\ cp.pc = "open"
  /\ \E parts \in [DOMAIN Items -> UNION {PartialDecrypt(enclave[1], output[i]) :
                                            i \in DOMAIN Items}] :
       /\ \A i \in DOMAIN Items : parts[i].of = output[i]
       /\ call' = [call EXCEPT !.stage = "sent", !.ciphers = output, !.parts = parts]
  /\ Release
  /\ UNCHANGED <<enclaveVars, task, file, provisioner, complete, cp, csp>>

SendFails ==
  /\ call.stage = "preparing" /\ main = "returned"
  /\ \/ cp.pc = "broken"
     \/ \E i \in DOMAIN Items : PartialInvalid(enclave[1], output[i])
  /\ Release /\ Fails("failed")
  /\ UNCHANGED <<enclaveVars, task, file, provisioner, complete, cp, csp>>

(* The server's checks of a batch: the ciphertexts are below the square of  *)
(* the modulus it read, which another modulus may or may not satisfy.       *)
IsBatch == Len(Items) > 1
Admits     == csp.modulus # Empty
Refuses(c) == csp.modulus = Empty \/ c.modulus # csp.modulus

(* The complete decryptions of the request that are possible: each partial  *)
(* decryption of the server's enclave combined with the client's.           *)
Decryptions ==
  LET combined(i) == UNION {Combine(enclave[2], call.parts[i], u) :
                              u \in PartialDecrypt(enclave[2], call.ciphers[i])}
  IN  {p \in [DOMAIN Items -> UNION {combined(i) : i \in DOMAIN Items}] :
         \A i \in DOMAIN Items : p[i] \in combined(i)}

(* The sign is read against half of the modulus that was read from the file,*)
(* which says nothing of a number modulo another one.                       *)
Signs(p) ==
  IF p = Garbage \/ csp.modulus # enclave[2].key.generation
  THEN {0, 1} ELSE {IF p < 0 THEN 0 ELSE 1}

(* What the server makes of a decrypted operand: the bit of a comparison, or*)
(* the product of the two factors that one packed operand holds.            *)
Results(p) ==
  IF call.op = "C" THEN Signs(p)
  ELSE {IF p = Garbage THEN Garbage ELSE p * p}

(* A plaintext goes back as it is, a predicate only if it is a bit.         *)
Disclose ==
  /\ call.stage = "sent" /\ call.op \in {"D", "P"}
  /\ \E p \in Decryptions :
       call' = [call EXCEPT !.stage = IF call.op = "P" /\ p[1] \notin {0, 1}
                                      THEN "failed" ELSE "replied",
                            !.reply = p, !.clean = cp.clean /\ csp.clean]
  /\ UNCHANGED <<batchVars, enclaveVars, task, file, provisioner, complete, cp, csp>>

(* The results are encrypted under the modulus of the server. *)
Compute ==
  /\ call.stage = "sent" /\ call.op \in {"C", "M"}
  /\ IsBatch => Admits
  /\ \E p \in Decryptions :
     \E results \in [DOMAIN Items -> UNION {Results(p[i]) : i \in DOMAIN Items}] :
       /\ \A i \in DOMAIN Items : results[i] \in Results(p[i])
       /\ Start(results, csp.modulus)
  /\ call' = [call EXCEPT !.stage = "encrypting", !.clean = cp.clean /\ csp.clean]
  /\ UNCHANGED <<enclaveVars, task, file, provisioner, complete, cp, csp>>

ReplyBatch ==
  /\ call.stage = "encrypting" /\ main = "returned"
  /\ call' = [call EXCEPT !.stage = "replied", !.reply = output]
  /\ Release
  /\ UNCHANGED <<enclaveVars, task, file, provisioner, complete, cp, csp>>

(* Mutant of Reject: the connection is kept, and the next frame awaited. *)
RejectSilently ==
  /\ \/ /\ call.stage = "sent"
        /\ \/ Decryptions = {}
           \/ \E i \in DOMAIN Items : IsBatch /\ Refuses(call.ciphers[i])
        /\ UNCHANGED batchVars
     \/ call.stage = "encrypting" /\ main = "thrown" /\ Release
  /\ Fails("waiting") /\ UNCHANGED cp
  /\ UNCHANGED <<enclaveVars, task, file, provisioner, complete, csp>>

(* Whatever is thrown, the server closes the connection and goes on.        *)
Reject ==
  /\ \/ /\ call.stage = "sent"
        /\ \/ Decryptions = {}
           \/ \E i \in DOMAIN Items :
                \/ PartialInvalid(enclave[2], call.ciphers[i])
                \/ IsBatch /\ Refuses(call.ciphers[i])
        /\ UNCHANGED batchVars
     \/ call.stage = "encrypting" /\ main = "thrown" /\ Release
  /\ Fails("failed") /\ cp' = Broken(cp)
  /\ UNCHANGED <<enclaveVars, task, file, provisioner, complete, csp>>

(* A process whose pool cannot be started is terminated: the client with    *)
(* its call, or the server, as in a crash.                                  *)
ClientTerminates ==
  /\ call.stage = "preparing" /\ main = "terminated"
  /\ Forget /\ call' = NoCall
  /\ cp' = Down /\ enclave' = [enclave EXCEPT ![1] = Fresh]
  /\ UNCHANGED <<generation, sealed, code, task, file, provisioner, complete, csp>>

(* The client has its answer, or an exception. *)
Answered ==
  /\ call.stage \in {"replied", "failed"}
  /\ call' = NoCall
  /\ UNCHANGED <<batchVars, enclaveVars, task, file, provisioner, complete, cp, csp>>

-----------------------------------------------------------------------------
Directory ==
  \/ \E mode \in ProvisionModes : ProvisionKeys(mode)
  \/ TruncateFile \/ WriteFile \/ ProvisionCrash

Processes ==
  \/ CspStart \/ (\E mode \in Modes : CspLoadShare(mode)) \/ CspLoadModulus \/ CspCrash
  \/ CpStart \/ (\E mode \in Modes : CpLoadShare(mode)) \/ CpConnect \/ CpStop \/ Shutdown

ClientStep == CallEncryptFails \/ Send \/ SendFails \/ ClientTerminates \/ Answered
ServerStep ==
  \/ Disclose \/ Compute \/ ReplyBatch \/ Reject
  \/ call.stage = "encrypting" /\ main = "terminated" /\ CspCrash
PoolRuns   == PoolStep /\ UNCHANGED <<enclaveVars, serviceVars>>

ServiceNext ==
  \/ /\ task = "service"
     /\ \/ Directory \/ Processes \/ PoolRuns \/ ClientStep \/ ServerStep
        \/ \E q \in Requests : Call(q)
  \/ task = "calls" /\ EnclaveNext /\ UNCHANGED <<batchVars, serviceVars>>

(* The threads of a pool, the thread of the client and that of the server   *)
(* run; nobody has to start, stop or provision anything.                    *)
Fairness ==
  /\ WF_allVars(ClientStep) /\ WF_allVars(ServerStep)
  /\ WF_allVars(CallerStep /\ UNCHANGED <<enclaveVars, serviceVars>>)
  /\ \A w \in 1..Threads :
       WF_allVars(WorkerStep(w) /\ UNCHANGED <<enclaveVars, serviceVars>>)

ServiceSpec == ServiceInit /\ [][ServiceNext]_allVars /\ Fairness

-----------------------------------------------------------------------------
(* The answer a call should have, to the client that made it. *)
Answer(i) ==
  CASE call.op \in {"D", "P"} -> Items[i]
    [] call.op = "C" -> [modulus |-> cp.modulus, value |-> IF Items[i] < 0 THEN 0 ELSE 1]
    [] OTHER         -> [modulus |-> cp.modulus, value |-> Items[i] * Items[i]]

(* However often keys are provisioned again, and whatever a provisioning    *)
(* that dies leaves behind: when client and server each loaded a complete   *)
(* directory undisturbed, not necessarily the same one, a call fails or its *)
(* answers are right, in order, and under the client's modulus.             *)
AnswersRight ==
  call.stage = "replied" /\ call.clean =>
    call.reply = [i \in DOMAIN Items |-> Answer(i)]

(* Every call comes back with its answer or an exception, or its process    *)
(* terminates.                                                              *)
CallsReturn == call # NoCall ~> call = NoCall
=============================================================================
