---------------------------- MODULE RuntimeProofs ---------------------------
(***************************************************************************)
(* The runtime behind the C API: its key store, for any number of keys and *)
(* names, and what threads that share it get from Runtime::bytes, for any  *)
(* number of threads.                                                      *)
(*                                                                         *)
(* Of the key store: a failed call changes nothing, and unless a write     *)
(* failed unnoticed, every saved key opens.  Of the outputs: the error     *)
(* text is shared and races, so nothing can be said of it but to a thread  *)
(* that was left alone; the length and the buffer are the thread's own,    *)
(* and they decide what it returns.                                        *)
(***************************************************************************)
EXTENDS KeyStore, OutputCall, TLAPS

-----------------------------------------------------------------------------
(* The key store.                                                          *)

(* Until the rename, a save has touched neither the files nor the open key. *)
Untouched ==
  pc # "idle" => file = before.file /\ key = before.key

(* The temporary file about to be renamed holds the key being saved. *)
Written == ~silent /\ pc = "rename" => tmp[new.id] = new

(* A file's key bears the file's name, which load_off_key does not check. *)
Named ==
  \A id \in Ids : /\ file[id] \in Keys => file[id].id = id
                  /\ tmp[id] \in Keys => tmp[id].id = id

LEMMA KeyFields ==
  \A k \in Keys : k.id \in Ids /\ k.version \in 1 .. MaxKeys
BY DEF Keys, Versions

LEMMA TypeInit == Init => TypeOK
<1> SUFFICES ASSUME Init PROVE TypeOK
  OBVIOUS
<1>1. silent \in BOOLEAN
  BY Zenon DEF Init
<1> QED
  BY <1>1, KeyAssumption DEF Init, TypeOK, Files

LEMMA TypeGenerate ==
  ASSUME TypeOK, NEW id \in Ids, NEW version \in 1 .. made + 1,
         Generate(id, version)
  PROVE  TypeOK'
<1>1. made' \in 0 .. MaxKeys /\ made' = made + 1
  BY KeyAssumption DEF TypeOK, Generate
<1>2. KeysMade \subseteq KeysMade'
  BY <1>1 DEF KeysMade, Keys, Versions, TypeOK
<1>3. new' \in KeysMade'
  BY <1>1, KeyAssumption DEF Generate, KeysMade, Keys, Versions, TypeOK
<1>4. new' # None
  BY <1>3, KeyAssumption DEF KeysMade
<1>5. pc' = "open" /\ file' = file /\ tmp' = tmp /\ key' = key
          /\ silent' = silent
  BY DEF Generate
<1> QED
  BY <1>1, <1>2, <1>3, <1>4, <1>5 DEF TypeOK, Files

LEMMA TypeStep == TypeOK /\ [Next]_vars => TypeOK'
<1> SUFFICES ASSUME TypeOK, [Next]_vars PROVE TypeOK'
  OBVIOUS
<1> USE KeyAssumption
<1>1. ASSUME NEW id \in Ids, Create(id) PROVE TypeOK'
  <2>1. 1 \in 1 .. made + 1
    BY DEF TypeOK
  <2> QED
    BY <1>1, <2>1, TypeGenerate DEF Create
<1>2. ASSUME NEW id \in Ids, Rotate(id) PROVE TypeOK'
  <2>1. key \in Keys /\ key.version <= made
    BY <1>2 DEF Rotate, TypeOK, KeysMade
  <2>2. key.version + 1 \in 1 .. made + 1
    BY <2>1, KeyFields DEF TypeOK
  <2> QED
    BY <1>2, <2>2, TypeGenerate DEF Rotate
<1> SUFFICES ASSUME \A id \in Ids : ~Create(id) /\ ~Rotate(id) PROVE TypeOK'
  BY <1>1, <1>2
<1>3. ASSUME ~UNCHANGED vars PROVE made' = made /\ KeysMade' = KeysMade
  BY <1>3 DEF Next, vars, Open, Delete, SaveOpen, SaveOpenFails, SaveWrite,
    SaveWriteFails, SaveRename, SaveThrows, Crash, KeysMade
<1>4. ASSUME NEW id \in Ids, Open(id) PROVE TypeOK'
  <2>1. key' \in KeysMade \cup {None}
    BY <1>4 DEF Open, TypeOK, Files, KeysMade
  <2> QED
    BY <1>4, <2>1 DEF Open, TypeOK, Files, KeysMade
<1>5. ASSUME NEW id \in Ids, Delete(id) PROVE TypeOK'
  BY <1>5 DEF Delete, TypeOK, Files, KeysMade
<1>6. ASSUME SaveOpen PROVE TypeOK'
  BY <1>6 DEF SaveOpen, TypeOK, Files, KeysMade
<1>7. ASSUME SaveWrite PROVE TypeOK'
  BY <1>7 DEF SaveWrite, TypeOK, Files, KeysMade
<1>8. ASSUME SaveRename PROVE TypeOK'
  <2>1. new \in KeysMade /\ new.id \in Ids
    BY <1>8, KeyFields DEF SaveRename, TypeOK, KeysMade
  <2>2. tmp[new.id] \in Files
    BY <2>1 DEF TypeOK
  <2> QED
    BY <1>8, <2>1, <2>2 DEF SaveRename, TypeOK, Files, KeysMade
<1>9. ASSUME SaveOpenFails \/ SaveWriteFails \/ SaveThrows \/ Crash PROVE TypeOK'
  BY <1>9 DEF SaveOpenFails, SaveWriteFails, SaveThrows, Crash, TypeOK, Files,
    KeysMade
<1>10. CASE UNCHANGED vars
  BY <1>10 DEF vars, TypeOK, Files, KeysMade
<1> QED
  BY <1>4, <1>5, <1>6, <1>7, <1>8, <1>9, <1>10 DEF Next

(* Type correctness of the key store (serialization.cpp, c_api.cpp:65-68). *)
THEOREM TypeCorrect == Spec => []TypeOK
BY TypeInit, TypeStep, PTL DEF Spec

(* Inside a save the files and the open key are as the call found them. *)
LEMMA UntouchedStep == TypeOK /\ Untouched /\ [Next]_vars => Untouched'
BY DEF Untouched, Next, vars, Create, Rotate, Generate, Found, Open, Delete, SaveOpen,
  SaveOpenFails, SaveWrite, SaveWriteFails, SaveRename, SaveThrows, Crash

LEMMA UnchangedStep ==
  Untouched /\ FailedCallsChangeNothing /\ [Next]_vars
    => FailedCallsChangeNothing'
<1> SUFFICES ASSUME Untouched, FailedCallsChangeNothing, [Next]_vars
             PROVE  FailedCallsChangeNothing'
  OBVIOUS
<1>1. CASE SaveThrows
  BY <1>1 DEF SaveThrows, Untouched, FailedCallsChangeNothing
<1>2. ASSUME NEW id \in Ids, Open(id) \/ Delete(id)
      PROVE  FailedCallsChangeNothing'
  BY <1>2 DEF Open, Delete, Found, FailedCallsChangeNothing
<1>3. ASSUME NEW id \in Ids, Create(id) \/ Rotate(id)
      PROVE  FailedCallsChangeNothing'
  BY <1>3 DEF Create, Rotate, Generate, Found, FailedCallsChangeNothing
<1>4. CASE SaveOpen \/ SaveOpenFails \/ SaveWrite \/ SaveWriteFails \/ SaveRename
           \/ Crash \/ UNCHANGED vars
  BY <1>4 DEF SaveOpen, SaveOpenFails, SaveWrite, SaveWriteFails, SaveRename,
    Crash, vars, FailedCallsChangeNothing
<1> QED
  BY <1>1, <1>2, <1>3, <1>4 DEF Next

(* A create, rotate or open that fails leaves the key files and the open    *)
(* key as it found them, even where writes fail unnoticed; a delete that    *)
(* fails leaves the files and the key of any other name                     *)
(* (serialization.cpp:22, c_api.cpp:65-68).                                 *)
THEOREM FailuresChangeNothing == Spec => []FailedCallsChangeNothing
<1>1. Init => Untouched /\ FailedCallsChangeNothing
  BY DEF Init, Untouched, FailedCallsChangeNothing
<1> QED
  BY <1>1, TypeCorrect, UntouchedStep, UnchangedStep, PTL DEF Spec

LEMMA NamedStep == TypeOK /\ Named /\ [Next]_vars => Named'
<1> SUFFICES ASSUME TypeOK, Named, [Next]_vars PROVE Named'
  OBVIOUS
<1> USE KeyAssumption
<1>1. CASE SaveRename
  BY <1>1 DEF SaveRename, Named, TypeOK
<1>2. CASE SaveOpen
  BY <1>2 DEF SaveOpen, Named, TypeOK
<1>3. CASE SaveWrite
  BY <1>3 DEF SaveWrite, Named, TypeOK
<1>4. ASSUME NEW id \in Ids, Delete(id) PROVE Named'
  BY <1>4 DEF Delete, Named, TypeOK
<1> QED
  BY <1>1, <1>2, <1>3, <1>4 DEF Next, vars, Create, Rotate, Generate, Open,
    SaveOpenFails, SaveWriteFails, SaveThrows, Crash, Named

LEMMA WrittenStep == TypeOK /\ Written /\ [Next]_vars => Written'
<1> SUFFICES ASSUME TypeOK, Written, [Next]_vars, ~silent', pc' = "rename"
             PROVE  tmp'[new'.id] = new'
  BY DEF Written
<1>1. CASE SaveWrite
  <2>1. new.id \in Ids
    BY <1>1, KeyFields DEF SaveWrite, TypeOK, KeysMade
  <2> QED
    BY <1>1, <2>1 DEF SaveWrite, TypeOK
<1>2. CASE UNCHANGED vars
  BY <1>2 DEF vars, Written
<1> QED
  BY <1>1, <1>2 DEF Next, Create, Rotate, Generate, Open, Delete, SaveOpen,
    SaveOpenFails, SaveWriteFails, SaveRename, SaveThrows, Crash, TypeOK

LEMMA SavedStep ==
  TypeOK /\ Named /\ Written /\ SavedKeysOpen /\ [Next]_vars => SavedKeysOpen'
<1> SUFFICES ASSUME TypeOK, Named, Written, SavedKeysOpen, [Next]_vars, ~silent'
             PROVE  SavedKeysOpen'
  BY DEF SavedKeysOpen
<1>0. ~silent
  BY DEF Next, vars, Create, Rotate, Generate, Open, Delete, SaveOpen,
    SaveOpenFails, SaveWrite, SaveWriteFails, SaveRename, SaveThrows, Crash
<1> USE KeyAssumption
<1>1. CASE SaveRename
  <2>1. new \in Keys /\ new.id \in Ids
    BY <1>1, KeyFields DEF SaveRename, TypeOK, KeysMade
  <2>2. tmp[new.id] = new
    BY <1>1 DEF SaveRename, Written
  <2> QED
    BY <1>0, <1>1, <2>1, <2>2 DEF SaveRename, SavedKeysOpen, TypeOK
<1>2. ASSUME NEW id \in Ids, Open(id) PROVE SavedKeysOpen'
  <2>1. ASSUME file[id] \in Keys PROVE file[id].id = id
    BY <2>1 DEF Named
  <2> QED
    BY <1>0, <1>2, <2>1 DEF Open, SavedKeysOpen, TypeOK
<1>3. ASSUME NEW id \in Ids, Delete(id) PROVE SavedKeysOpen'
  <2>1. \A i \in Ids : file'[i] # Torn
    BY <1>0, <1>3 DEF Delete, SavedKeysOpen, TypeOK
  <2>2. ASSUME key' # None PROVE key' = key /\ key.id # id
    BY <1>3, <2>2 DEF Delete
  <2>3. ASSUME key' # None PROVE key.id \in Ids /\ file'[key.id] = file[key.id]
    <3>1. key.id \in Ids
      BY <2>2, <2>3, KeyFields DEF TypeOK, KeysMade
    <3> QED
      BY <1>3, <2>2, <2>3, <3>1 DEF Delete, TypeOK
  <2> QED
    BY <1>0, <2>1, <2>2, <2>3 DEF SavedKeysOpen
<1>4. CASE UNCHANGED vars
  BY <1>0, <1>4 DEF vars, SavedKeysOpen
<1> QED
  BY <1>0, <1>1, <1>2, <1>3, <1>4 DEF Next, Create, Rotate, Generate, SaveOpen,
    SaveOpenFails, SaveWrite, SaveWriteFails, SaveThrows, Crash, SavedKeysOpen

(* Unless writes fail unnoticed, no crash and no failing call leaves a key  *)
(* file that cannot be opened, and the open key is the one in its file      *)
(* (serialization.cpp:22, c_api.cpp:65-68).                                 *)
THEOREM SavedKeysAlwaysOpen == Spec => []SavedKeysOpen
<1>1. Init => Named /\ Written /\ SavedKeysOpen
  BY KeyAssumption DEF Init, Named, Written, SavedKeysOpen
<1> QED
  BY <1>1, TypeCorrect, NamedStep, WrittenStep, SavedStep, PTL DEF Spec

-----------------------------------------------------------------------------
(* The outputs.                                                            *)

OutputType ==
  /\ error \in {"", "small", "other"} /\ keyOpen \in BOOLEAN
  /\ at \in [Threads -> {"idle", "output", "caught", "convert", "done", "thrown"}]
  /\ caught \in [Threads -> {"", "small", "other"}]
  /\ status \in [Threads -> {"ok", "failed"}]
  /\ buffer \in [Threads -> Nat] /\ n \in [Threads -> Nat] /\ tries \in [Threads -> Nat]
  /\ actual \in [Threads -> {"none", "wrote", "small", "failed", "other"}]
  /\ alone \in [Threads -> BOOLEAN] /\ told \in [Threads -> Seq(Nat)]

Wrote(t) == actual[t] = "wrote" /\ 0 < n[t] /\ n[t] <= buffer[t]

(* A call is told the length of its own buffer, and a call that did not     *)
(* throw has written, whichever text it finds afterwards.                   *)
Own(t) ==
  /\ at[t] = "output" => n[t] = buffer[t]
  /\ at[t] = "caught" => status[t] = "failed"
  /\ at[t] = "convert" /\ status[t] = "ok" /\ actual[t] # "other" => Wrote(t)
  /\ at[t] = "done" => Wrote(t)

OwnInv == OutputType /\ \A t \in Threads : Own(t)

-----------------------------------------------------------------------------
LEMMA InitOwn == CallInit => OwnInv
<1> SUFFICES ASSUME CallInit  PROVE OutputType /\ \A t \in Threads : Own(t)
  BY DEF OwnInv
<1>1. OutputType
  <2>1. << >> \in Seq(Nat)
    OBVIOUS
  <2>2. told \in [Threads -> Seq(Nat)]
    BY <2>1, Zenon DEF CallInit
  <2> QED  BY <2>2 DEF CallInit, OutputType
<1>2. \A t \in Threads : at[t] = "idle"
  BY DEF CallInit
<1> QED  BY <1>1, <1>2 DEF Own

LEMMA Numbers ==
  ASSUME OutputType, NEW t \in Threads
  PROVE  n[t] \in Nat /\ tries[t] \in Nat /\ buffer[t] \in Nat
BY DEF OutputType

(* The steps of a thread, without the history variable.                     *)
LEMMA StepType ==
  ASSUME OwnInv, NEW t \in Threads, Step(t)
  PROVE  /\ error' \in {"", "small", "other"} /\ keyOpen' \in BOOLEAN
         /\ at' \in [Threads -> {"idle", "output", "caught", "convert", "done", "thrown"}]
         /\ caught' \in [Threads -> {"", "small", "other"}]
         /\ status' \in [Threads -> {"ok", "failed"}]
         /\ buffer' \in [Threads -> Nat] /\ n' \in [Threads -> Nat] /\ tries' \in [Threads -> Nat]
         /\ actual' \in [Threads -> {"none", "wrote", "small", "failed", "other"}]
<1>0. n[t] \in Nat /\ tries[t] + 1 \in Nat
  BY Numbers DEF OwnInv
<1> USE OutputAssumption DEF OwnInv, OutputType, Goto, Throw, Succeed
<1>1. CASE Begin(t)
  BY <1>1 DEF Begin
<1>2. CASE NoKey(t)
  BY <1>2 DEF NoKey
<1>3. CASE Output(t)
  <2>1. PICK size \in Sizes :
          /\ n' = [n EXCEPT ![t] = size]
          /\ \/ Throw(t, "small") /\ actual' = [actual EXCEPT ![t] = "small"]
             \/ Succeed(t) /\ actual' = [actual EXCEPT ![t] = "wrote"]
    BY <1>3 DEF Output
  <2>2. size \in Nat /\ UNCHANGED <<keyOpen, buffer, tries>>
    BY <1>3 DEF Output
  <2> QED  BY <2>1, <2>2
<1>4. CASE CallOther(t)
  BY <1>4 DEF CallOther
<1>5. CASE Catch(t)
  BY <1>5 DEF Catch
<1>6. CASE Return(t)
  BY <1>0, <1>6 DEF Return, Retry
<1>7. CASE ReturnOther(t)
  BY <1>7 DEF ReturnOther
<1> QED  BY <1>1, <1>2, <1>3, <1>4, <1>5, <1>6, <1>7 DEF Step

(* A step changes nothing of another thread.                                *)
LEMMA OthersUntouched ==
  ASSUME OwnInv, NEW t \in Threads, Step(t), NEW u \in Threads \ {t}
  PROVE  /\ at'[u] = at[u] /\ status'[u] = status[u] /\ buffer'[u] = buffer[u]
         /\ n'[u] = n[u] /\ actual'[u] = actual[u]
<1> USE DEF OwnInv, OutputType, Goto, Throw, Succeed
<1>1. CASE Begin(t)
  BY <1>1 DEF Begin
<1>2. CASE NoKey(t)
  BY <1>2 DEF NoKey
<1>3. CASE Output(t)
  <2>1. PICK size \in Sizes :
          /\ n' = [n EXCEPT ![t] = size]
          /\ \/ Throw(t, "small") /\ actual' = [actual EXCEPT ![t] = "small"]
             \/ Succeed(t) /\ actual' = [actual EXCEPT ![t] = "wrote"]
    BY <1>3 DEF Output
  <2>2. UNCHANGED buffer
    BY <1>3 DEF Output
  <2>3. n'[u] = n[u] /\ actual'[u] = actual[u] /\ buffer'[u] = buffer[u]
    BY <2>1, <2>2
  <2>4. at'[u] = at[u] /\ status'[u] = status[u]
    BY <2>1
  <2> QED  BY <2>3, <2>4
<1>4. CASE CallOther(t)
  BY <1>4 DEF CallOther
<1>5. CASE Catch(t)
  BY <1>5 DEF Catch
<1>6. CASE Return(t)
  BY <1>6 DEF Return, Retry
<1>7. CASE ReturnOther(t)
  BY <1>7 DEF ReturnOther
<1> QED  BY <1>1, <1>2, <1>3, <1>4, <1>5, <1>6, <1>7 DEF Step

LEMMA StepOwn ==
  ASSUME OwnInv, NEW t \in Threads, Step(t)
  PROVE  Own(t)'
<1>0. /\ n[t] \in Nat /\ buffer[t] \in Nat
      /\ \A size \in Sizes : size \in Nat /\ 0 < size
  BY Numbers, OutputAssumption DEF OwnInv
<1>8. \A size \in Sizes : n[t] = buffer[t] /\ ~(n[t] < size) => size <= buffer[t]
  BY <1>0
<1> USE DEF OwnInv, OutputType, Own, Wrote, Goto, Throw, Succeed
<1>1. CASE Begin(t)
  BY <1>1 DEF Begin
<1>2. CASE NoKey(t)
  BY <1>2 DEF NoKey
<1>3. CASE Output(t)
  <2>1. PICK size \in Sizes :
          /\ n' = [n EXCEPT ![t] = size]
          /\ IF buffer[t] = 0 \/ n[t] < size
             THEN at' = [at EXCEPT ![t] = "caught"] /\ status' = [status EXCEPT ![t] = "failed"]
             ELSE /\ at' = [at EXCEPT ![t] = "convert"]
                  /\ actual' = [actual EXCEPT ![t] = "wrote"]
    BY <1>3 DEF Output
  <2>2. /\ 0 < size /\ n'[t] = size /\ at[t] = "output" /\ buffer' = buffer
        /\ n[t] = buffer[t]
    BY <1>0, <1>3, <2>1 DEF Output
  <2>3. CASE buffer[t] = 0 \/ n[t] < size
    <3>1. at'[t] = "caught" /\ status'[t] = "failed"
      BY <2>1, <2>3
    <3> QED  BY <3>1
  <2>4. CASE ~(buffer[t] = 0 \/ n[t] < size)
    <3>1. at'[t] = "convert" /\ actual'[t] = "wrote"
      BY <2>1, <2>4
    <3>2. size <= buffer[t]
      BY <1>8, <2>2, <2>4
    <3> QED  BY <2>2, <3>1, <3>2
  <2> QED  BY <2>3, <2>4
<1>4. CASE CallOther(t)
  BY <1>4 DEF CallOther
<1>5. CASE Catch(t)
  BY <1>5 DEF Catch
<1>6. CASE Return(t)
  BY <1>6 DEF Return, Retry
<1>7. CASE ReturnOther(t)
  BY <1>7 DEF ReturnOther
<1> QED  BY <1>1, <1>2, <1>3, <1>4, <1>5, <1>6, <1>7 DEF Step

(* The sizes told stay numbers. *)
LEMMA ToldType ==
  ASSUME OwnInv, NEW t \in Threads, Step(t), Remember(t)
  PROVE  told' \in [Threads -> Seq(Nat)]
<1>1. told[t] \in Seq(Nat) /\ n'[t] \in Nat
  BY StepType DEF OwnInv, OutputType
<1>2. Append(told[t], n'[t]) \in Seq(Nat) /\ << >> \in Seq(Nat)
  BY <1>1
<1>3. Told(t) \in Seq(Nat)
  BY <1>1, <1>2, Zenon DEF Told
<1>4. \A u \in Threads : (IF u = t /\ LeftAlone(t) THEN Told(t) ELSE << >>) \in Seq(Nat)
  BY <1>2, <1>3
<1> QED  BY <1>4, Zenon DEF Remember

LEMMA NextOwn == OwnInv /\ [CallNext]_callVars => OwnInv'
<1> SUFFICES ASSUME OwnInv, [CallNext]_callVars  PROVE OwnInv'
  OBVIOUS
<1>1. CASE UNCHANGED callVars
  BY <1>1 DEF callVars, OwnInv, OutputType, Own, Wrote
<1>2. ASSUME NEW t \in Threads, Step(t), Remember(t)
      PROVE  OwnInv'
  <2>1. alone' \in [Threads -> BOOLEAN]
    <3>1. \A u \in Threads : (u = t /\ LeftAlone(t)) \in BOOLEAN
      OBVIOUS
    <3> QED  BY <1>2, <3>1, Zenon DEF Remember
  <2>2. OutputType'
    BY <1>2, <2>1, StepType, ToldType DEF OutputType
  <2>3. ASSUME NEW u \in Threads  PROVE Own(u)'
    <3>1. CASE u = t
      BY <1>2, <3>1, StepOwn
    <3>2. CASE u # t
      BY <1>2, <3>2, OthersUntouched DEF OwnInv, Own, Wrote
    <3> QED  BY <3>1, <3>2
  <2> QED  BY <2>2, <2>3 DEF OwnInv
<1> QED  BY <1>1, <1>2 DEF CallNext

LEMMA OwnInvariant == CallSpec => []OwnInv
BY InitOwn, NextOwn, PTL DEF CallSpec

(* Runtime::bytes returns what its last call wrote, within its buffer,      *)
(* however many threads race for the error text of their runtime.           *)
THEOREM ResultIsOwn == CallSpec => []OutputIsOwn
<1>1. OwnInv => OutputIsOwn
  BY DEF OwnInv, Own, Wrote, OutputIsOwn
<1> QED  BY <1>1, OwnInvariant, PTL
-----------------------------------------------------------------------------
(* The text that a thread finds when it was left alone, by what it did.     *)
TextOf(what) ==
  CASE what = "small"              -> "small"
    [] what \in {"failed", "other"} -> "other"
    [] OTHER                       -> ""

Last(sizes) == sizes[Len(sizes)]

(* As many rising sizes, the last of them the one given. *)
ToldUpTo(sizes, last, count) ==
  Len(sizes) = count /\ Rising(sizes) /\ (count > 0 => Last(sizes) = last)

(* A call that is left alone finds its own text; and each answer "small" is *)
(* larger than the one before.                                              *)
Undisturbed(t) ==
  /\ at[t] = "output" => /\ tries[t] <= Attempts /\ ToldUpTo(told[t], n[t], tries[t])
                         /\ tries[t] = 0 => n[t] = 0
  /\ at[t] = "caught" => /\ actual[t] \in {"small", "failed", "other"}
                         /\ caught[t] = TextOf(actual[t])
  /\ at[t] = "convert" /\ actual[t] # "other" =>
       /\ actual[t] \in {"wrote", "small", "failed"}
       /\ error = TextOf(actual[t])
       /\ actual[t] = "wrote" => status[t] = "ok"
  /\ at[t] \in {"caught", "convert"} /\ actual[t] = "small" =>
       tries[t] <= Attempts /\ ToldUpTo(told[t], n[t], tries[t] + 1)
  /\ at[t] = "thrown" => actual[t] = "failed" \/ GaveUp(t)

AloneInv == OwnInv /\ \A t \in Threads : alone[t] => Undisturbed(t)

(* A larger size keeps a sequence rising.                                   *)
LEMMA RisingGrows ==
  ASSUME NEW sizes \in Seq(Nat), Rising(sizes), NEW size \in Nat,
         Len(sizes) > 0 => Last(sizes) < size
  PROVE  LET longer == Append(sizes, size)
         IN  /\ Rising(longer) /\ Len(longer) = Len(sizes) + 1
             /\ Last(longer) = size
<1> DEFINE longer == Append(sizes, size)
<1>1. /\ Len(longer) = Len(sizes) + 1 /\ Len(sizes) \in Nat
      /\ longer[Len(sizes) + 1] = size
      /\ \A k \in 1 .. Len(sizes) : longer[k] = sizes[k]
  OBVIOUS
<1> HIDE DEF longer
<1>2. ASSUME NEW k \in 1 .. Len(longer) - 1  PROVE longer[k] < longer[k + 1]
  <2>1. k \in 1 .. Len(sizes) /\ longer[k] = sizes[k]
    BY <1>1
  <2>2. CASE k = Len(sizes)
    BY <1>1, <2>1, <2>2 DEF Last
  <2>3. CASE k # Len(sizes)
    <3>1. k \in 1 .. Len(sizes) - 1 /\ k + 1 \in 1 .. Len(sizes)
      BY <1>1, <2>1, <2>3
    <3>2. longer[k + 1] = sizes[k + 1] /\ sizes[k] < sizes[k + 1]
      BY <1>1, <3>1 DEF Rising
    <3> QED  BY <2>1, <3>2
  <2> QED  BY <2>2, <2>3
<1>3. Rising(longer) /\ Last(longer) = size
  BY <1>1, <1>2 DEF Rising, Last
<1> QED  BY <1>1, <1>3 DEF longer

LEMMA ToldGrows ==
  ASSUME NEW sizes \in Seq(Nat), NEW last \in Nat, NEW count \in Nat,
         ToldUpTo(sizes, last, count), NEW size \in Nat, count > 0 => last < size
  PROVE  ToldUpTo(Append(sizes, size), size, count + 1)
BY RisingGrows DEF ToldUpTo

LEMMA NothingTold == ToldUpTo(<<>>, 0, 0)
BY DEF ToldUpTo, Rising

(* A thread's own step in a call that was left alone; a new call starts     *)
(* from any state.                                                          *)
LEMMA StepUndisturbed ==
  ASSUME OwnInv, NEW t \in Threads, Step(t), told'[t] = Told(t),
         Resting(t) \/ Undisturbed(t)
  PROVE  Undisturbed(t)'
<1>0. /\ n[t] \in Nat /\ tries[t] \in Nat /\ Attempts \in Nat
      /\ \A size \in Sizes : size \in Nat /\ 0 < size
  BY Numbers, OutputAssumption DEF OwnInv
<1>8. told[t] \in Seq(Nat)
  BY Zenon DEF OwnInv, OutputType
<1>9. /\ 0 <= Attempts
      /\ tries[t] < Attempts => tries[t] + 1 <= Attempts /\ tries[t] + 1 # 0
      /\ tries[t] <= Attempts /\ ~(tries[t] < Attempts) => tries[t] = Attempts
  BY <1>0
<1> USE DEF OwnInv, OutputType, Undisturbed, TextOf, Goto, Throw, Succeed, Resting
<1>1. CASE Begin(t)
  <2>1. at'[t] = "output" /\ tries'[t] = 0 /\ n'[t] = 0 /\ told'[t] = <<>>
    BY <1>1 DEF Begin, Told
  <2>2. ToldUpTo(told'[t], n'[t], tries'[t])
    BY <2>1, NothingTold
  <2> QED  BY <1>9, <2>1, <2>2
<1>2. CASE NoKey(t)
  BY <1>2 DEF NoKey
<1>3. CASE Output(t)
  <2>1. PICK size \in Sizes :
          /\ n' = [n EXCEPT ![t] = size]
          /\ IF buffer[t] = 0 \/ n[t] < size
             THEN Throw(t, "small") /\ actual' = [actual EXCEPT ![t] = "small"]
             ELSE Succeed(t) /\ actual' = [actual EXCEPT ![t] = "wrote"]
    BY <1>3 DEF Output
  <2>2. /\ n'[t] = size /\ at[t] = "output" /\ tries' = tries /\ n[t] = buffer[t]
        /\ tries[t] <= Attempts /\ ToldUpTo(told[t], n[t], tries[t])
    BY <1>3, <2>1 DEF Output, Own
  <2>3. CASE buffer[t] = 0 \/ n[t] < size
    <3>1. /\ at'[t] = "caught" /\ actual'[t] = "small" /\ caught'[t] = "small"
      BY <2>1, <2>3, ZenonT(60)
    <3>2. told'[t] = Append(told[t], size)
      BY <2>2, <3>1 DEF Told
    <3>3. n[t] < size
      BY <1>0, <2>2, <2>3
    <3>4. ToldUpTo(told'[t], n'[t], tries'[t] + 1)
      BY <1>0, <1>8, <2>2, <3>2, <3>3, ToldGrows
    <3> QED  BY <2>2, <3>1, <3>4
  <2>4. CASE ~(buffer[t] = 0 \/ n[t] < size)
    <3>1. /\ at'[t] = "convert" /\ actual'[t] = "wrote"
          /\ error' = "" /\ status'[t] = "ok"
      BY <2>1, <2>4
    <3> QED  BY <3>1
  <2> QED  BY <2>3, <2>4
<1>4. CASE CallOther(t)
  BY <1>4 DEF CallOther
<1>5. CASE Catch(t)
  <2>1. told'[t] = told[t] /\ n' = n /\ tries' = tries /\ actual' = actual
    BY <1>5 DEF Catch, Told
  <2>2. at[t] = "caught" /\ at'[t] = "convert" /\ error' = caught[t] /\ status' = status
    BY <1>5 DEF Catch
  <2> QED  BY <2>1, <2>2
<1>6. CASE Return(t)
  <2>1. /\ at[t] = "convert" /\ actual[t] \in {"wrote", "small", "failed"}
        /\ error = TextOf(actual[t]) /\ (actual[t] = "wrote" => status[t] = "ok")
        /\ actual[t] = "small" =>
             tries[t] <= Attempts /\ ToldUpTo(told[t], n[t], tries[t] + 1)
        /\ n' = n /\ actual' = actual /\ told'[t] = told[t]
    BY <1>6 DEF Return, Told
  <2>2. CASE actual[t] = "small" /\ tries[t] < Attempts
    <3>1. at'[t] = "output" /\ tries'[t] = tries[t] + 1
      BY <1>6, <2>1, <2>2 DEF Return, Retry, TooSmall
    <3>2. tries[t] + 1 <= Attempts /\ tries[t] + 1 # 0
      BY <1>9, <2>2
    <3>3. ToldUpTo(told'[t], n'[t], tries'[t])
      BY <2>1, <2>2, <3>1
    <3> QED  BY <3>1, <3>2, <3>3
  <2>3. CASE actual[t] = "small" /\ ~(tries[t] < Attempts)
    <3>1. at'[t] = "thrown" /\ tries[t] = Attempts
      BY <1>6, <1>9, <2>1, <2>3 DEF Return, TooSmall
    <3>2. GaveUp(t)'
      BY <2>1, <2>3, <3>1 DEF ToldUpTo, GaveUp, Rising
    <3> QED  BY <3>1, <3>2
  <2>4. CASE actual[t] # "small"
    <3>1. ~TooSmall /\ at'[t] \in {"done", "thrown"} /\ (at'[t] = "thrown" => status[t] # "ok")
      BY <1>6, <2>1, <2>4 DEF Return, TooSmall
    <3> QED  BY <2>1, <2>4, <3>1
  <2> QED  BY <2>2, <2>3, <2>4
<1>7. CASE ReturnOther(t)
  BY <1>7 DEF ReturnOther
<1> QED  BY <1>1, <1>2, <1>3, <1>4, <1>5, <1>6, <1>7 DEF Step

LEMMA NextAlone == AloneInv /\ [CallNext]_callVars => AloneInv'
<1> SUFFICES ASSUME AloneInv, [CallNext]_callVars  PROVE AloneInv'
  OBVIOUS
<1>0. OwnInv /\ OwnInv'
  BY NextOwn DEF AloneInv
<1>1. CASE UNCHANGED callVars
  BY <1>0, <1>1 DEF callVars, AloneInv, Undisturbed, GaveUp
<1>2. ASSUME NEW t \in Threads, Step(t), Remember(t)
      PROVE  AloneInv'
  <2>1. \A u \in Threads : alone'[u] => u = t /\ LeftAlone(t)
    BY <1>2 DEF Remember
  <2>2. LeftAlone(t) => told'[t] = Told(t)
    BY <1>2 DEF Remember
  <2>3. ASSUME alone'[t]  PROVE Undisturbed(t)'
    BY <1>0, <1>2, <2>1, <2>2, <2>3, StepUndisturbed DEF AloneInv, LeftAlone
  <2> QED  BY <1>0, <2>1, <2>3 DEF AloneInv
<1> QED  BY <1>1, <1>2 DEF CallNext

(* A call that no other thread disturbs and that gets an exception has      *)
(* failed, or was refused with every one of its buffers, each of the size   *)
(* it was told last, because each result was larger than the one before it: *)
(* Runtime::bytes never gives up for another reason (soci.hpp:38).          *)
THEOREM NoEarlyGivingUp == CallSpec => []NeverGivesUpEarly
<1>1. CallInit => AloneInv
  BY InitOwn DEF CallInit, AloneInv
<1>2. AloneInv => NeverGivesUpEarly
  BY DEF AloneInv, Undisturbed, NeverGivesUpEarly
<1> QED  BY <1>1, <1>2, NextAlone, PTL DEF CallSpec
=============================================================================
