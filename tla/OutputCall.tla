----------------------------- MODULE OutputCall -----------------------------
(***************************************************************************)
(* Variable-length outputs of the C API, as the C++ wrapper asks for them: *)
(* a call without a buffer to learn the size, then calls with a buffer.    *)
(* Several threads share one runtime.  Its mutex covers the work of a call *)
(* (one step here) but neither the catch handlers, which store the error   *)
(* text, nor the code that turns that text into the status "buffer too     *)
(* small".                                                                 *)
(*                                                                         *)
(* The text is one of "" (cleared), "small" and "other"; a race on it is a *)
(* read of what was stored last.                                           *)
(***************************************************************************)
EXTENDS Integers, Sequences

CONSTANTS
  Threads,  (* threads that share the runtime                            *)
  Sizes,    (* sizes an encoded ciphertext can have                      *)
  Attempts  (* calls with a buffer: 3 in the code                        *)

ASSUME OutputAssumption ==
  Sizes \subseteq Nat \ {0} /\ Attempts \in Nat \ {0}

VARIABLES
  error,   (* the runtime's error text                                   *)
  keyOpen, (* is a key open                                              *)
  at,      (* per thread                                                 *)
  caught,  (* text the thread's handler is about to store                *)
  status,  (* what run returned                                          *)
  buffer,  (* size of the thread's buffer, 0 for the sizing call         *)
  n,       (* the length argument                                        *)
  tries,   (* calls with a buffer so far                                 *)
  actual,  (* what the call did: "none", "wrote", "small", "failed", or  *)
           (* "other" for a call without output                          *)
  alone,   (* history: no other thread has taken a step since the call   *)
           (* began                                                      *)
  told     (* history: the sizes that a call left alone was told         *)

callVars ==
  <<error, keyOpen, at, caught, status, buffer, n, tries, actual, alone, told>>

CallInit ==
  /\ error = "" /\ keyOpen = FALSE
  /\ at     = [t \in Threads |-> "idle"]
  /\ caught = [t \in Threads |-> ""]
  /\ status = [t \in Threads |-> "ok"]
  /\ buffer = [t \in Threads |-> 0]
  /\ n      = [t \in Threads |-> 0]
  /\ tries  = [t \in Threads |-> 0]
  /\ actual = [t \in Threads |-> "none"]
  /\ alone  = [t \in Threads |-> FALSE]
  /\ told   = [t \in Threads |-> <<>>]

Goto(t, label) == at' = [at EXCEPT ![t] = label]

Resting(t) == at[t] \in {"idle", "done", "thrown"}

(* Runtime::bytes: the sizing call. *)
Begin(t) ==
  /\ Resting(t)
  /\ Goto(t, "output")
  /\ buffer' = [buffer EXCEPT ![t] = 0]
  /\ n'      = [n EXCEPT ![t] = 0]
  /\ tries'  = [tries EXCEPT ![t] = 0]
  /\ actual' = [actual EXCEPT ![t] = "none"]
  /\ UNCHANGED <<error, keyOpen, caught, status>>

(* The work throws: the mutex is released before the handler runs. *)
Throw(t, text) ==
  /\ caught' = [caught EXCEPT ![t] = text]
  /\ status' = [status EXCEPT ![t] = "failed"]
  /\ Goto(t, "caught")
  /\ UNCHANGED error

Succeed(t) ==
  /\ error'  = ""
  /\ status' = [status EXCEPT ![t] = "ok"]
  /\ Goto(t, "convert")
  /\ UNCHANGED caught

(* need: no key is open. *)
NoKey(t) ==
  /\ at[t] = "output" /\ ~keyOpen
  /\ Throw(t, "other")
  /\ actual' = [actual EXCEPT ![t] = "failed"]
  /\ UNCHANGED <<keyOpen, buffer, n, tries>>

(* Mutant of Output: the length is not compared with the buffer's. *)
OutputUnchecked(t) ==
  /\ at[t] = "output" /\ keyOpen
  /\ \E size \in Sizes :
       /\ n' = [n EXCEPT ![t] = size]
       /\ IF buffer[t] = 0
          THEN /\ Throw(t, "small")
               /\ actual' = [actual EXCEPT ![t] = "small"]
          ELSE /\ Succeed(t)
               /\ actual' = [actual EXCEPT ![t] = "wrote"]
  /\ UNCHANGED <<keyOpen, buffer, tries>>

(* output: the size is stored in either case. *)
Output(t) ==
  /\ at[t] = "output" /\ keyOpen
  /\ \E size \in Sizes :
       /\ n' = [n EXCEPT ![t] = size]
       /\ IF buffer[t] = 0 \/ n[t] < size
          THEN /\ Throw(t, "small")
               /\ actual' = [actual EXCEPT ![t] = "small"]
          ELSE /\ Succeed(t)
               /\ actual' = [actual EXCEPT ![t] = "wrote"]
  /\ UNCHANGED <<keyOpen, buffer, tries>>

(* open_key, delete_key, get_key_info and the like: they set or drop the    *)
(* key, or fail.                                                            *)
CallOther(t) ==
  /\ Resting(t)
  /\ \/ keyOpen' \in BOOLEAN /\ Succeed(t)
     \/ Throw(t, "other") /\ UNCHANGED keyOpen
  /\ actual' = [actual EXCEPT ![t] = "other"]
  /\ UNCHANGED <<buffer, n, tries>>

(* The catch clause of run. *)
Catch(t) ==
  /\ at[t] = "caught"
  /\ error' = caught[t]
  /\ Goto(t, "convert")
  /\ UNCHANGED <<keyOpen, caught, status, buffer, n, tries, actual>>

(* bout reads the error text again, without the mutex. *)
TooSmall == error = "small"

(* The wrapper allocates what it was told and calls (again). *)
Retry(t) ==
  /\ Goto(t, "output")
  /\ buffer' = [buffer EXCEPT ![t] = n[t]]
  /\ tries'  = [tries EXCEPT ![t] = @ + 1]

(* Mutant of Return: the wrapper gives up one call too early. *)
ReturnEarly(t) ==
  /\ at[t] = "convert" /\ actual[t] # "other"
  /\ IF TooSmall
     THEN IF tries[t] < Attempts - 1 THEN Retry(t)
          ELSE Goto(t, "thrown") /\ UNCHANGED <<buffer, tries>>
     ELSE /\ Goto(t, IF status[t] = "ok" THEN "done" ELSE "thrown")
          /\ UNCHANGED <<buffer, tries>>
  /\ UNCHANGED <<error, keyOpen, caught, status, n, actual>>

(* bout returns and Runtime::bytes looks at the status. *)
Return(t) ==
  /\ at[t] = "convert" /\ actual[t] # "other"
  /\ IF TooSmall
     THEN IF tries[t] < Attempts THEN Retry(t)
          ELSE Goto(t, "thrown") /\ UNCHANGED <<buffer, tries>>
     ELSE /\ Goto(t, IF status[t] = "ok" THEN "done" ELSE "thrown")
          /\ UNCHANGED <<buffer, tries>>
  /\ UNCHANGED <<error, keyOpen, caught, status, n, actual>>

ReturnOther(t) ==
  /\ at[t] = "convert" /\ actual[t] = "other"
  /\ Goto(t, "idle")
  /\ UNCHANGED <<error, keyOpen, caught, status, buffer, n, tries, actual>>

Step(t) ==
  \/ Begin(t) \/ NoKey(t) \/ Output(t) \/ CallOther(t)
  \/ Catch(t) \/ Return(t) \/ ReturnOther(t)

(* What a step of t leaves of the histories: those of the other threads     *)
(* end, and its own grows by the size it is told.                           *)
LeftAlone(t) == Resting(t) \/ alone[t]

Told(t) ==
  CASE Resting(t) -> <<>>
    [] at[t] = "output" /\ actual'[t] = "small" -> Append(told[t], n'[t])
    [] OTHER -> told[t]

Remember(t) ==
  /\ alone' = [u \in Threads |-> u = t /\ LeftAlone(t)]
  /\ told'  = [u \in Threads |-> IF u = t /\ LeftAlone(t) THEN Told(t) ELSE <<>>]

CallNext == \E t \in Threads : Step(t) /\ Remember(t)

CallSpec == CallInit /\ [][CallNext]_callVars

-----------------------------------------------------------------------------
(* A result that Runtime::bytes returns was written by its last call and    *)
(* fits the buffer, however the threads race for the error text.            *)
OutputIsOwn ==
  \A t \in Threads :
    at[t] = "done" => actual[t] = "wrote" /\ 0 < n[t] /\ n[t] <= buffer[t]

(* Where no other thread interfered, an exception means that the call       *)
(* failed, or that none of its buffers was large enough although each had   *)
(* the size asked for: every result was larger than the one before it.      *)
Rising(sizes) == \A k \in 1 .. Len(sizes) - 1 : sizes[k] < sizes[k + 1]

GaveUp(t) == Len(told[t]) = Attempts + 1 /\ Rising(told[t])

NeverGivesUpEarly ==
  \A t \in Threads :
    at[t] = "thrown" /\ alone[t] => actual[t] = "failed" \/ GaveUp(t)

(* "Pass a null output to obtain the required size, allocate, and call      *)
(* again" (docs/API.md:4-6): a sizing call made while a key is open is      *)
(* answered with the size, and the next call is made with a buffer.         *)
SizingAnswered ==
  \A t \in Threads :
    at[t] = "thrown" => ~(tries[t] = 0 /\ actual[t] = "small")
=============================================================================
