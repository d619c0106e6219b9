------------------------- MODULE FusedSessionProofs -------------------------
(***************************************************************************)
(* Proofs about FusedSession, for any sets of clients, other peers,        *)
(* identities and bindings, and any bounds.                                *)
(***************************************************************************)
EXTENDS FusedSession, SequenceTheorems, TLAPS

(* The frames and replies of the protocol are records of the sets Frame and *)
(* Reply.                                                                   *)
LEMMA FrameTypes ==
  /\ \A x \in Contexts : [kind |-> "F", ctx |-> x] \in Frame
  /\ \A x \in Contexts : [kind |-> "G", ctx |-> x] \in Frame
  /\ \A k \in {"Other", "Q"} : [kind |-> k] \in Frame
  /\ \A x \in Contexts : [kind |-> "OT", ctx |-> x] \in Reply
  /\ \A x \in Contexts : [kind |-> "Decision", ctx |-> x] \in Reply
  /\ \A k \in {"Done", "Refused"} : [kind |-> k] \in Reply
  /\ RawFrames \subseteq Frame
  /\ \A f \in Frame : f.kind \in {"F", "G"} => f.ctx \in Contexts
  /\ \A x \in Contexts : x.id \in Identities
BY DEF Frame, Reply, RawFrames, Contexts

(* The queue operations keep the backlog a sequence of peers within bounds. *)
LEMMA BacklogTypes ==
  ASSUME backlog \in Seq(Peers), Len(backlog) <= Backlog
  PROVE  /\ \A c \in Peers : Len(backlog) < Backlog =>
              /\ Append(backlog, c) \in Seq(Peers)
              /\ Len(Append(backlog, c)) <= Backlog
         /\ backlog # <<>> =>
              /\ Head(backlog) \in Peers
              /\ Tail(backlog) \in Seq(Peers)
              /\ Len(Tail(backlog)) <= Backlog
<1> USE SessionAssumption
<1>1. Len(backlog) \in Nat  OBVIOUS
<1>2. ASSUME NEW c \in Peers, Len(backlog) < Backlog
      PROVE  Append(backlog, c) \in Seq(Peers) /\ Len(Append(backlog, c)) <= Backlog
  BY <1>1, <1>2, AppendProperties
<1>3. ASSUME backlog # <<>>
      PROVE  /\ Head(backlog) \in Peers
             /\ Tail(backlog) \in Seq(Peers)
             /\ Len(Tail(backlog)) <= Backlog
  BY <1>1, <1>3, HeadTailProperties
<1> QED  BY <1>2, <1>3

-----------------------------------------------------------------------------
(* Type correctness: every reachable state has well-typed variables and a   *)
(* listen queue within its limit.                                           *)
LEMMA InitTypeOK == Init => TypeOK
BY SessionAssumption DEF Init, TypeOK, Awaiting

LEMMA ClientTypeOK ==
  ASSUME TypeOK, NEW c \in Peers, ClientStep(c)
  PROVE  TypeOK'
<1> USE SessionAssumption, FrameTypes DEF TypeOK, Awaiting, clientVars, cspVars
<1>1. CASE Connect(c)
  BY <1>1, BacklogTypes DEF Connect
<1>2. CASE GiveUp(c)
  BY <1>2 DEF GiveUp
<1>3. CASE BeginSolve(c)
  BY <1>3 DEF BeginSolve
<1>4. ASSUME NEW x \in Contexts, CallFused(c, x)  PROVE TypeOK'
  BY <1>4 DEF CallFused, Post
<1>5. CASE ReceiveOT(c)
  BY <1>5 DEF ReceiveOT
<1>6. CASE SendFinish(c)
  <2>1. call[c] \in Contexts
    BY <1>6 DEF SendFinish
  <2> QED  BY <1>6, <2>1 DEF SendFinish, Post
<1>7. CASE GarbleFails(c)
  BY <1>7 DEF GarbleFails
<1>8. ASSUME NEW kind \in {"Other", "Q"}, CallOther(c, kind)  PROVE TypeOK'
  BY <1>8 DEF CallOther, Post
<1>9. CASE ReceiveLast(c)
  BY <1>9 DEF ReceiveLast
<1>10. CASE CallFails(c)
  BY <1>10 DEF CallFails
<1>11. CASE Close(c) \/ Crash(c)
  BY <1>11 DEF Close, Crash, Leave
<1>12. ASSUME NEW f \in RawFrames, RawSend(c, f)  PROVE TypeOK'
  BY <1>12 DEF RawSend, Post
<1>13. ASSUME NEW x \in Contexts, FusedFails(c, x)  PROVE TypeOK'
  BY <1>13 DEF FusedFails
<1> QED  BY <1>1, <1>2, <1>3, <1>4, <1>5, <1>6, <1>7, <1>8, <1>9, <1>10,
            <1>11, <1>12, <1>13 DEF ClientStep

LEMMA ServeTypeOK ==
  ASSUME TypeOK, NEW c \in Peers, ServeFrame(c)
  PROVE  TypeOK'
<1> USE SessionAssumption, FrameAssumption, FrameTypes
    DEF TypeOK, Awaiting, Arrived, Take, Reject, Answer, clientVars
<1>1. CASE StartWhilePending(c)
  BY <1>1 DEF StartWhilePending
<1>2. CASE StartReplayed(c)
  BY <1>2 DEF StartReplayed
<1>3. CASE StartFails(c)
  BY <1>3 DEF StartFails
<1>4. CASE StartFused(c)
  <2>1. toCsp[c].ctx \in Contexts
    BY <1>4 DEF StartFused
  <2>2. pending' \in Transcripts
    BY <1>4, <2>1 DEF StartFused, Transcripts
  <2> QED  BY <1>4, <2>1, <2>2 DEF StartFused
<1>5. CASE FinishRejected(c)
  BY <1>5 DEF FinishRejected
<1>6. CASE FinishFused(c)
  <2>1. pending.ctx \in Contexts
    BY <1>6 DEF FinishFused, Expected, Transcripts
  <2>2. verdicts' \in [Identities -> Nat]
    BY <1>6, <2>1 DEF FinishFused
  <2> QED  BY <1>6, <2>1, <2>2 DEF FinishFused
<1>7. CASE ServeOther(c)
  <2>1. ASSUME NEW kind \in {"Done", "Refused"},
               Answer(c, [kind |-> kind]), UNCHANGED pending
        PROVE  TypeOK'
    BY <1>7, <2>1 DEF ServeOther
  <2>2. CASE Reject(c)
    BY <1>7, <2>2 DEF ServeOther
  <2> QED  BY <1>7, <2>1, <2>2 DEF ServeOther
<1>8. CASE Shutdown(c)
  <2>1. toCp' \in [Peers -> Reply \cup {None}]
    BY <1>8 DEF Shutdown
  <2>2. /\ link' \in [Peers -> {"none", "queued", "served", "reset"}]
        /\ toCsp' \in [Peers -> Frame \cup {None}]
        /\ backlog' \in Seq(Peers) /\ Len(backlog') <= Backlog
    BY <1>8 DEF Shutdown, Hangup
  <2> QED  BY <1>8, <2>1, <2>2 DEF Shutdown, Hangup
<1>9. CASE ShutdownFails(c)
  BY <1>9 DEF ShutdownFails
<1> QED  BY <1>1, <1>2, <1>3, <1>4, <1>5, <1>6, <1>7, <1>8, <1>9 DEF ServeFrame

LEMMA NextTypeOK == TypeOK /\ [Next]_vars => TypeOK'
<1> SUFFICES ASSUME TypeOK, [Next]_vars  PROVE TypeOK'
  OBVIOUS
<1> USE SessionAssumption DEF TypeOK, Awaiting, clientVars, cspVars
<1>1. ASSUME NEW c \in Peers, ClientStep(c)  PROVE TypeOK'
  BY <1>1, ClientTypeOK
<1>2. ASSUME NEW c \in Peers, ServeFrame(c)  PROVE TypeOK'
  BY <1>2, ServeTypeOK
<1>3. ASSUME NEW c \in Peers, EndOfStream(c) \/ NetworkBreaks(c)  PROVE TypeOK'
  BY <1>3 DEF EndOfStream, NetworkBreaks, LinkLost, Reject
<1>4. ASSUME NEW c \in Peers, LoseReply(c)  PROVE TypeOK'
  BY <1>4 DEF LoseReply
<1>5. CASE Accept
  <2>1. /\ Head(backlog) \in Peers /\ Tail(backlog) \in Seq(Peers)
        /\ Len(Tail(backlog)) <= Backlog
    BY <1>5, BacklogTypes DEF Accept
  <2> QED  BY <1>5, <2>1 DEF Accept
<1>6. CASE CspCrash
  BY <1>6 DEF CspCrash, Hangup
<1>7. CASE CspRestart
  BY <1>7 DEF CspRestart
<1>8. CASE UNCHANGED vars
  BY <1>8 DEF vars
<1> QED  BY <1>1, <1>2, <1>3, <1>4, <1>5, <1>6, <1>7, <1>8 DEF Next

(* Every reachable state is well typed, and the listen queue is within its  *)
(* limit.                                                                   *)
THEOREM TypeCorrect == Spec => []TypeOK
<1> QED  BY InitTypeOK, NextTypeOK, PTL DEF Spec

-----------------------------------------------------------------------------
(* The transcript discipline.  TranscriptOwned and DecidedOnce are each     *)
(* other's strengthening: a transcript that is pending has no verdict yet   *)
(* because its identity was new when F consumed it, and it gets its only    *)
(* verdict because FinishFused clears it while the identity stays consumed. *)
TranscriptInv == TypeOK /\ TranscriptOwned /\ DecidedOnce

(* Steps that leave the CSP's transcript state alone. *)
LEMMA TranscriptStutter ==
  ASSUME TranscriptInv, UNCHANGED cspVars
  PROVE  TranscriptOwned' /\ DecidedOnce'
BY DEF TranscriptInv, TranscriptOwned, DecidedOnce, cspVars

(* Steps that discard the pending transcript and decide nothing; the set of *)
(* consumed identities may grow.                                            *)
LEMMA TranscriptDiscarded ==
  ASSUME TranscriptInv, pending' = None,
         replays \subseteq replays', UNCHANGED verdicts
  PROVE  TranscriptOwned' /\ DecidedOnce'
BY DEF TranscriptInv, TranscriptOwned, DecidedOnce

LEMMA ServeTranscript ==
  ASSUME TranscriptInv, NEW c \in Peers, ServeFrame(c)
  PROVE  TranscriptOwned' /\ DecidedOnce'
<1> USE DEF Take, Arrived, Reject, Answer
<1>1. CASE StartWhilePending(c) \/ StartReplayed(c) \/ StartFails(c)
           \/ FinishRejected(c) \/ ShutdownFails(c)
  <2>1. pending' = None /\ replays \subseteq replays' /\ UNCHANGED verdicts
    BY <1>1 DEF StartWhilePending, StartReplayed, StartFails, FinishRejected,
                ShutdownFails
  <2> QED  BY <2>1, TranscriptDiscarded
<1>2. CASE StartFused(c)
  <2> DEFINE id == toCsp[c].ctx.id
  <2>1. id \in Identities
    BY <1>2, FrameTypes DEF StartFused, TranscriptInv, TypeOK
  <2>2. verdicts[id] = 0
    <3>1. id \notin replays
      BY <1>2 DEF StartFused
    <3>2. verdicts[id] \in Nat /\ verdicts[id] <= 1 /\ verdicts[id] # 1
      BY <2>1, <3>1 DEF TranscriptInv, TypeOK, DecidedOnce
    <3> QED  BY <3>2
  <2>3. /\ pending' = [ctx |-> toCsp[c].ctx, owner |-> c]
        /\ replays' = replays \cup {id}
        /\ csp' = "running" /\ serving' = c /\ UNCHANGED verdicts
    BY <1>2 DEF StartFused
  <2>4. TranscriptOwned'
    BY <2>2, <2>3 DEF TranscriptOwned
  <2>5. DecidedOnce'
    BY <2>3 DEF TranscriptInv, DecidedOnce
  <2> QED  BY <2>4, <2>5
<1>3. CASE FinishFused(c)
  <2> DEFINE id == pending.ctx.id
  <2>1. /\ pending # None /\ pending' = None /\ UNCHANGED replays
        /\ verdicts' = [verdicts EXCEPT ![id] = @ + 1]
    BY <1>3 DEF FinishFused, Expected
  <2>2. id \in replays /\ verdicts[id] = 0 /\ id \in Identities
    BY <2>1 DEF TranscriptInv, TypeOK, TranscriptOwned
  <2>3. TranscriptOwned'
    BY <2>1 DEF TranscriptOwned
  <2>4. DecidedOnce'
    BY <2>1, <2>2 DEF TranscriptInv, TypeOK, DecidedOnce
  <2> QED  BY <2>3, <2>4
<1>4. CASE ServeOther(c)
  <2>1. CASE UNCHANGED pending /\ \E kind \in {"Done", "Refused"} :
                                    Answer(c, [kind |-> kind])
    BY <1>4, <2>1
       DEF ServeOther, TranscriptInv, TranscriptOwned, DecidedOnce
  <2>2. CASE Reject(c)
    BY <1>4, <2>2, TranscriptDiscarded DEF ServeOther
  <2> QED  BY <1>4, <2>1, <2>2 DEF ServeOther
<1>5. CASE Shutdown(c)
  BY <1>5, TranscriptDiscarded DEF Shutdown, Hangup
<1> QED  BY <1>1, <1>2, <1>3, <1>4, <1>5 DEF ServeFrame

LEMMA NextTranscript == TranscriptInv /\ [Next]_vars => TranscriptInv'
<1> SUFFICES ASSUME TranscriptInv, [Next]_vars
             PROVE  TranscriptOwned' /\ DecidedOnce'
  BY NextTypeOK DEF TranscriptInv
<1>1. ASSUME NEW c \in Peers, ServeFrame(c)
      PROVE  TranscriptOwned' /\ DecidedOnce'
  BY <1>1, ServeTranscript
<1>2. ASSUME NEW c \in Peers, Connect(c)
      PROVE  TranscriptOwned' /\ DecidedOnce'
  BY <1>2 DEF Connect, TranscriptInv, TranscriptOwned, DecidedOnce
<1>3. ASSUME NEW c \in Peers, ClientStep(c), ~Connect(c)
      PROVE  TranscriptOwned' /\ DecidedOnce'
  <2>1. UNCHANGED cspVars
    BY <1>3 DEF ClientStep, GiveUp, BeginSolve, CallFused, FusedFails, ReceiveOT,
                SendFinish, GarbleFails, CallOther, ReceiveLast, CallFails,
                Close, Crash, Leave, RawSend
  <2> QED  BY <2>1, TranscriptStutter
<1>4. ASSUME NEW c \in Peers, EndOfStream(c) \/ NetworkBreaks(c)
      PROVE  TranscriptOwned' /\ DecidedOnce'
  BY <1>4, TranscriptDiscarded DEF EndOfStream, NetworkBreaks, LinkLost, Reject
<1>5. ASSUME NEW c \in Peers, LoseReply(c)
      PROVE  TranscriptOwned' /\ DecidedOnce'
  BY <1>5, TranscriptStutter DEF LoseReply
<1>6. CASE Accept
  <2>1. pending = None
    BY <1>6, SessionAssumption
       DEF Accept, TranscriptInv, TypeOK, TranscriptOwned, Transcripts
  <2> QED  BY <1>6, <2>1, TranscriptDiscarded DEF Accept
<1>7. CASE CspCrash
  BY <1>7, TranscriptDiscarded DEF CspCrash, Hangup
<1>8. CASE CspRestart
  <2>1. pending' = None
    BY <1>8 DEF CspRestart, TranscriptInv, TranscriptOwned
  <2> QED  BY <1>8, <2>1 DEF CspRestart, TranscriptOwned, DecidedOnce
<1>9. CASE UNCHANGED vars
  BY <1>9, TranscriptStutter DEF vars
<1> QED  BY <1>1, <1>2, <1>3, <1>4, <1>5, <1>6, <1>7, <1>8, <1>9 DEF Next

LEMMA TranscriptInvariant == Spec => []TranscriptInv
<1>1. Init => TranscriptInv
  BY InitTypeOK DEF Init, TranscriptInv, TranscriptOwned, DecidedOnce
<1> QED  BY <1>1, NextTranscript, PTL DEF Spec

(* A pending transcript belongs to the connection being served: fused state *)
(* never outlives the connection that opened it.                            *)
THEOREM PendingBelongsToServed == Spec => []TranscriptOwned
<1>1. TranscriptInv => TranscriptOwned
  BY DEF TranscriptInv
<1> QED  BY <1>1, TranscriptInvariant, PTL

(* One CSP process decides each identity at most once. *)
THEOREM DecidedAtMostOnce == Spec => []DecidedOnce
<1>1. TranscriptInv => DecidedOnce
  BY DEF TranscriptInv
<1> QED  BY <1>1, TranscriptInvariant, PTL

-----------------------------------------------------------------------------
(* A transcript that was discarded is never resumed: StartFused opens only  *)
(* new identities and FinishFused decides only the one that is open.        *)
NeverResumedStep ==
  \A i \in replays :
    ~Open(i) => \/ ~Open(i)' /\ verdicts'[i] = verdicts[i]
                \/ restarts' # restarts

(* Steps that open nothing and decide nothing. *)
LEMMA NothingOpened ==
  ASSUME UNCHANGED verdicts, pending' = pending \/ pending' = None
  PROVE  NeverResumedStep
BY DEF NeverResumedStep, Open

LEMMA ServeNeverResumes ==
  ASSUME TypeOK, NEW c \in Peers, ServeFrame(c)
  PROVE  NeverResumedStep
<1>1. CASE StartFused(c)
  <2>1. /\ toCsp[c].ctx.id \notin replays /\ UNCHANGED verdicts
        /\ pending' = [ctx |-> toCsp[c].ctx, owner |-> c]
    BY <1>1 DEF StartFused
  <2> QED  BY <2>1 DEF NeverResumedStep, Open
<1>2. CASE FinishFused(c)
  <2>1. /\ pending # None /\ pending' = None
        /\ verdicts' = [verdicts EXCEPT ![pending.ctx.id] = @ + 1]
    BY <1>2 DEF FinishFused, Expected
  <2> QED  BY <2>1 DEF NeverResumedStep, Open, TypeOK
<1>3. CASE ServeFrame(c) /\ ~StartFused(c) /\ ~FinishFused(c)
  <2>1. UNCHANGED verdicts /\ (pending' = pending \/ pending' = None)
    BY <1>3 DEF ServeFrame, StartWhilePending, StartReplayed, StartFails,
                FinishRejected, ServeOther, Shutdown, ShutdownFails, Reject, Hangup
  <2> QED  BY <2>1, NothingOpened
<1> QED  BY <1>1, <1>2, <1>3

LEMMA StepNeverResumes == TypeOK /\ [Next]_vars => NeverResumedStep
<1> SUFFICES ASSUME TypeOK, [Next]_vars  PROVE NeverResumedStep
  OBVIOUS
<1>1. ASSUME NEW c \in Peers, ServeFrame(c)  PROVE NeverResumedStep
  BY <1>1, ServeNeverResumes
<1>2. CASE CspRestart
  BY <1>2 DEF CspRestart, NeverResumedStep, TypeOK
<1>3. ASSUME NEW c \in Peers, ClientStep(c)  PROVE NeverResumedStep
  <2>1. UNCHANGED <<pending, verdicts>>
    BY <1>3 DEF ClientStep, Connect, GiveUp, BeginSolve, CallFused, FusedFails, ReceiveOT,
                SendFinish, GarbleFails, CallOther, ReceiveLast, CallFails,
                Close, Crash, Leave, RawSend, cspVars
  <2> QED  BY <2>1, NothingOpened
<1>4. ASSUME NEW c \in Peers, EndOfStream(c) \/ NetworkBreaks(c) \/ LoseReply(c)
      PROVE  NeverResumedStep
  BY <1>4, NothingOpened
     DEF EndOfStream, NetworkBreaks, LinkLost, LoseReply, Reject, cspVars
<1>5. CASE Accept \/ CspCrash \/ UNCHANGED vars
  BY <1>5, NothingOpened DEF Accept, CspCrash, Hangup, vars, cspVars
<1> QED  BY <1>1, <1>2, <1>3, <1>4, <1>5 DEF Next

(* A consumed identity that is not pending is never pending again and gets  *)
(* no further verdict from the same CSP process.                            *)
THEOREM DiscardedNeverResumed == Spec => NeverResumed
<1>1. TypeOK /\ [Next]_vars => [NeverResumedStep]_vars
  BY StepNeverResumes
<1> QED  BY <1>1, TypeCorrect, PTL DEF Spec, NeverResumed, NeverResumedStep

-----------------------------------------------------------------------------
(* The CSP implements SingleUse: each step changes the status of at most    *)
(* one identity, and in a way SingleUse allows.                             *)

(* Steps that leave every status as it is. *)
LEMMA SameStatus ==
  ASSUME UNCHANGED <<pending, replays, verdicts>>
  PROVE  UNCHANGED IdentityStatus
BY DEF IdentityStatus, Open

(* Discarding the pending transcript, without or with an identity consumed  *)
(* in the same step, burns at most one identity.                            *)
LEMMA DiscardBurns ==
  ASSUME TranscriptInv, pending' = None, UNCHANGED <<replays, verdicts>>
  PROVE  Abstract!Next \/ UNCHANGED IdentityStatus
<1>1. CASE pending = None
  BY <1>1, SameStatus
<1>2. CASE pending # None
  <2> DEFINE id == pending.ctx.id
  <2>1. id \in Identities /\ id \in replays /\ verdicts[id] = 0
    BY <1>2, FrameTypes DEF TranscriptInv, TypeOK, TranscriptOwned, Transcripts
  <2>2. IdentityStatus[id] = "open"
    BY <1>2, <2>1 DEF IdentityStatus, Open
  <2>3. replays' = replays /\ verdicts' = verdicts
    OBVIOUS
  <2>4. \A i \in Identities :
          IdentityStatus'[i] = IF i = id THEN "burnt" ELSE IdentityStatus[i]
    BY <1>2, <2>1, <2>3 DEF IdentityStatus, Open
  <2>5. IdentityStatus' = [IdentityStatus EXCEPT ![id] = "burnt"]
    BY <2>4 DEF IdentityStatus
  <2> QED  BY <2>1, <2>2, <2>5 DEF Abstract!Next, Abstract!Burn
<1> QED  BY <1>1, <1>2

LEMMA ServeImplements ==
  ASSUME TranscriptInv, NEW c \in Peers, ServeFrame(c)
  PROVE  Abstract!Next \/ UNCHANGED IdentityStatus
<1> DEFINE id == toCsp[c].ctx.id
<1>1. CASE StartWhilePending(c) \/ StartReplayed(c) \/ FinishRejected(c)
           \/ ShutdownFails(c)
  BY <1>1, DiscardBurns
     DEF StartWhilePending, StartReplayed, FinishRejected, ShutdownFails, Reject
<1>2. CASE StartFails(c) \/ StartFused(c)
  <2>1. id \in Identities
    BY <1>2, FrameTypes
       DEF StartFails, StartFused, Take, Arrived, TranscriptInv, TypeOK
  <2>2. /\ pending = None /\ id \notin replays
        /\ replays' = replays \cup {id} /\ UNCHANGED verdicts
    BY <1>2 DEF StartFails, StartFused
  <2>3. verdicts[id] # 1
    BY <2>1, <2>2 DEF TranscriptInv, DecidedOnce
  <2>4. IdentityStatus[id] = "fresh"
    BY <2>1, <2>2 DEF IdentityStatus
  <2>5. CASE StartFails(c)
    <3>1. pending' = None
      BY <2>5 DEF StartFails, Reject
    <3>2. IdentityStatus' = [IdentityStatus EXCEPT ![id] = "burnt"]
      BY <2>1, <2>2, <2>3, <3>1 DEF IdentityStatus, Open
    <3> QED  BY <2>1, <2>4, <3>2 DEF Abstract!Next, Abstract!Burn
  <2>6. CASE StartFused(c)
    <3>1. pending' # None /\ pending'.ctx.id = id
      BY <2>6, SessionAssumption, FrameTypes
         DEF StartFused, Take, Arrived, TranscriptInv, TypeOK, Transcripts
    <3>2. IdentityStatus' = [IdentityStatus EXCEPT ![id] = "open"]
      BY <2>1, <2>2, <3>1 DEF IdentityStatus, Open
    <3> QED  BY <2>1, <2>4, <3>2 DEF Abstract!Next, Abstract!Open
  <2> QED  BY <1>2, <2>5, <2>6
<1>3. CASE FinishFused(c)
  <2> DEFINE pid == pending.ctx.id
  <2>1. /\ pending # None /\ pending' = None /\ UNCHANGED replays
        /\ verdicts' = [verdicts EXCEPT ![pid] = @ + 1]
    BY <1>3 DEF FinishFused, Expected
  <2>2. pid \in Identities /\ pid \in replays /\ verdicts[pid] = 0
    BY <2>1, FrameTypes DEF TranscriptInv, TypeOK, TranscriptOwned, Transcripts
  <2>3. verdicts'[pid] = 1
    BY <2>1, <2>2 DEF TranscriptInv, TypeOK
  <2>4. \A i \in Identities : i # pid => verdicts'[i] = verdicts[i]
    BY <2>1 DEF TranscriptInv, TypeOK
  <2>5. IdentityStatus[pid] = "open"
    BY <2>1, <2>2 DEF IdentityStatus, Open
  <2>6. IdentityStatus' = [IdentityStatus EXCEPT ![pid] = "decided"]
    BY <2>1, <2>2, <2>3, <2>4 DEF IdentityStatus, Open
  <2> QED  BY <2>2, <2>5, <2>6 DEF Abstract!Next, Abstract!Decide
<1>4. CASE ServeOther(c)
  <2>1. CASE UNCHANGED pending
    BY <1>4, <2>1, SameStatus DEF ServeOther
  <2>2. CASE Reject(c)
    BY <1>4, <2>2, DiscardBurns DEF ServeOther, Reject
  <2> QED  BY <1>4, <2>1, <2>2 DEF ServeOther
<1>5. CASE Shutdown(c)
  BY <1>5, DiscardBurns DEF Shutdown, Hangup
<1> QED  BY <1>1, <1>2, <1>3, <1>4, <1>5 DEF ServeFrame

LEMMA NextImplements ==
  TranscriptInv /\ [Next]_vars => [Abstract!Next]_IdentityStatus
<1> SUFFICES ASSUME TranscriptInv, [Next]_vars
             PROVE  Abstract!Next \/ UNCHANGED IdentityStatus
  OBVIOUS
<1>1. ASSUME NEW c \in Peers, ServeFrame(c)
      PROVE  Abstract!Next \/ UNCHANGED IdentityStatus
  BY <1>1, ServeImplements
<1>2. ASSUME NEW c \in Peers, ClientStep(c)
      PROVE  Abstract!Next \/ UNCHANGED IdentityStatus
  <2>1. UNCHANGED <<pending, replays, verdicts>>
    BY <1>2 DEF ClientStep, Connect, GiveUp, BeginSolve, CallFused, FusedFails, ReceiveOT,
                SendFinish, GarbleFails, CallOther, ReceiveLast, CallFails,
                Close, Crash, Leave, RawSend, cspVars
  <2> QED  BY <2>1, SameStatus
<1>3. ASSUME NEW c \in Peers, EndOfStream(c) \/ NetworkBreaks(c)
      PROVE  Abstract!Next \/ UNCHANGED IdentityStatus
  BY <1>3, DiscardBurns DEF EndOfStream, NetworkBreaks, LinkLost, Reject
<1>4. CASE CspCrash
  BY <1>4, DiscardBurns DEF CspCrash, Hangup
<1>5. CASE CspRestart
  <2>1. pending = None /\ pending' = None
    BY <1>5 DEF CspRestart, TranscriptInv, TranscriptOwned
  <2>2. \A i \in Identities : IdentityStatus[i] # "open"
    BY <2>1 DEF IdentityStatus, Open
  <2>3. IdentityStatus' = [i \in Identities |-> "fresh"]
    BY <1>5 DEF CspRestart, IdentityStatus
  <2> QED  BY <2>2, <2>3 DEF Abstract!Next, Abstract!Forget
<1>6. ASSUME NEW c \in Peers, LoseReply(c)
      PROVE  Abstract!Next \/ UNCHANGED IdentityStatus
  BY <1>6, SameStatus DEF LoseReply, cspVars
<1>7. CASE Accept \/ UNCHANGED vars
  BY <1>7, SameStatus DEF Accept, vars, cspVars
<1> QED  BY <1>1, <1>2, <1>3, <1>4, <1>5, <1>6, <1>7 DEF Next

(* The protocol between the parties implements the single-use store.        *)
THEOREM CspImplementsSingleUse == Spec => CspIsSingleUse
<1>1. Init => Abstract!Init
  BY DEF Init, Abstract!Init, IdentityStatus
<1> QED  BY <1>1, NextImplements, TranscriptInvariant, PTL
         DEF Spec, CspIsSingleUse, Abstract!Spec

-----------------------------------------------------------------------------
(* Frames and replies carry no sequence number.  What keeps them paired is  *)
(* that a client has at most one of them on the wire, of the kind that its  *)
(* thread waits for, and that the CSP's one transcript is that of the       *)
(* connection it serves.                                                    *)

(* The server's side of a connection agrees with its queue and with what it *)
(* serves; nobody is queued twice.                                          *)
LinksAgree ==
  /\ \A c \in Peers : /\ pc[c] = "new" => link[c] = "none"
                      /\ serving = c <=> link[c] = "served"
  /\ \A i \in 1..Len(backlog) :
       /\ link[backlog[i]] = "queued"
       /\ \A j \in 1..Len(backlog) : backlog[i] = backlog[j] => i = j

(* A request on the wire is the one of the client's current call, or was    *)
(* left behind by a client that has gone.                                   *)
RequestPaired(c) ==
  toCsp[c] # None =>
    /\ link[c] \in {"queued", "served"} /\ toCp[c] = None
    /\ \/ toCsp[c].kind = "F" /\ pc[c] = "awaitF" /\ toCsp[c].ctx = call[c]
       \/ toCsp[c].kind = "G" /\ pc[c] = "awaitG" /\ toCsp[c].ctx = call[c]
       \/ toCsp[c].kind \in {"Other", "Q"} /\ pc[c] = "awaitOther"
       \/ pc[c] = "gone"

(* ReplyPairing of one client. *)
ReplyPaired(c) ==
  toCp[c] # None =>
    \/ toCp[c].kind = "OT" /\ pc[c] = "awaitF" /\ toCp[c].ctx = call[c]
    \/ toCp[c].kind = "Decision" /\ pc[c] = "awaitG" /\ toCp[c].ctx = call[c]
    \/ toCp[c].kind \in {"Done", "Refused"} /\ pc[c] = "awaitOther"

(* A client past its F: its connection was accepted, and while it is served *)
(* the transcript of that F is pending.                                     *)
Opened(c, x) ==
  /\ link[c] \in {"served", "reset"}
  /\ serving = c => pending = [ctx |-> x, owner |-> c]

TranscriptAwaits(c) ==
  /\ pc[c] = "garbling" => Opened(c, call[c])
  /\ toCp[c] # None /\ toCp[c].kind = "OT" => Opened(c, toCp[c].ctx)
  /\ toCsp[c] # None /\ toCsp[c].kind = "G" => Opened(c, toCsp[c].ctx)

Wired(c) == RequestPaired(c) /\ ReplyPaired(c) /\ TranscriptAwaits(c)

WireInv == TypeOK /\ LinksAgree /\ \A c \in Clients : Wired(c)

(* The ways a step touches the server's side of the connections. *)
LEMMA LinksUntouched ==
  ASSUME LinksAgree, UNCHANGED <<link, serving, backlog>>,
         \A c \in Peers : pc'[c] = "new" => pc[c] = "new"
  PROVE  LinksAgree'
BY DEF LinksAgree

LEMMA LinksRejected ==
  ASSUME TypeOK, LinksAgree, NEW c \in Peers, serving = c, serving' = None,
         link' = [link EXCEPT ![c] = "reset"], UNCHANGED <<pc, backlog>>
  PROVE  LinksAgree'
<1>1. \A d \in Peers : link'[d] = IF d = c THEN "reset" ELSE link[d]
  BY DEF TypeOK
<1>2. link[c] = "served"
  BY DEF LinksAgree
<1>3. \A d \in Peers : d # None
  BY SessionAssumption
<1>4. \A i \in 1..Len(backlog) : backlog[i] \in Peers /\ backlog[i] # c
  <2>1. \A i \in 1..Len(backlog) : backlog[i] \in Peers
    BY DEF TypeOK
  <2> QED  BY <2>1, <1>2 DEF LinksAgree
<1>5. \A d \in Peers : /\ pc'[d] = "new" => link'[d] = "none"
                       /\ serving' = d <=> link'[d] = "served"
  BY <1>1, <1>2, <1>3 DEF LinksAgree
<1> QED  BY <1>1, <1>4, <1>5 DEF LinksAgree

LEMMA LinksHungUp ==
  ASSUME TypeOK, LinksAgree, Hangup, UNCHANGED pc
  PROVE  LinksAgree'
<1>1. \A d \in Peers : /\ d # None
                       /\ link[d] = "none" => link'[d] = "none"
                       /\ link'[d] # "served"
  BY SessionAssumption DEF TypeOK, Hangup
<1>2. serving' = None /\ backlog' = <<>> /\ Len(backlog') = 0
  BY DEF Hangup
<1> QED  BY <1>1, <1>2 DEF LinksAgree

LEMMA LinksConnect ==
  ASSUME TypeOK, LinksAgree, NEW c \in Peers, Connect(c)
  PROVE  LinksAgree'
<1>1. /\ link[c] = "none" /\ pc'[c] = "idle" /\ link'[c] = "queued"
      /\ \A d \in Peers \ {c} : pc'[d] = pc[d] /\ link'[d] = link[d]
      /\ UNCHANGED serving /\ backlog' = Append(backlog, c)
  BY DEF Connect, TypeOK, LinksAgree
<1>2. /\ Len(backlog) \in Nat /\ Len(backlog') = Len(backlog) + 1
      /\ backlog'[Len(backlog) + 1] = c
      /\ \A i \in 1..Len(backlog) : backlog'[i] = backlog[i] /\ backlog[i] \in Peers
  BY <1>1, AppendProperties DEF TypeOK
<1>3. \A d \in Peers : /\ pc'[d] = "new" => link'[d] = "none"
                       /\ serving' = d <=> link'[d] = "served"
  BY <1>1 DEF LinksAgree
<1>4. \A i \in 1..Len(backlog) : backlog[i] # c
  BY <1>1 DEF LinksAgree
<1>5. ASSUME NEW i \in 1..Len(backlog')  PROVE link'[backlog'[i]] = "queued"
  BY <1>1, <1>2, <1>4 DEF LinksAgree
<1>6. ASSUME NEW i \in 1..Len(backlog'), NEW j \in 1..Len(backlog'),
             backlog'[i] = backlog'[j]
      PROVE  i = j
  BY <1>2, <1>4, <1>6 DEF LinksAgree
<1> QED  BY <1>3, <1>5, <1>6 DEF LinksAgree

LEMMA LinksAccept ==
  ASSUME TypeOK, LinksAgree, Accept
  PROVE  LinksAgree'
<1> DEFINE c == Head(backlog)
<1>1. /\ serving = None /\ serving' = c /\ backlog' = Tail(backlog)
      /\ link' = [link EXCEPT ![c] = "served"] /\ UNCHANGED pc
  BY DEF Accept, clientVars
<1>2. /\ c = backlog[1] /\ c \in Peers /\ Len(backlog) \in Nat /\ Len(backlog) >= 1
      /\ Len(backlog') = Len(backlog) - 1
      /\ \A i \in 1..Len(backlog') :
           backlog'[i] = backlog[i + 1] /\ backlog[i + 1] \in Peers
  BY <1>1, HeadTailProperties DEF Accept, TypeOK
<1>3. link[c] = "queued"
  BY <1>2 DEF LinksAgree
<1>4. \A d \in Peers : d # None /\ link'[d] = IF d = c THEN "served" ELSE link[d]
  BY <1>1, SessionAssumption DEF TypeOK
<1>5. pc[c] # "new"
  BY <1>2, <1>3 DEF LinksAgree
<1>6. \A d \in Peers : /\ pc'[d] = "new" => link'[d] = "none"
                       /\ serving' = d <=> link'[d] = "served"
  BY <1>1, <1>2, <1>4, <1>5 DEF LinksAgree
<1>7. ASSUME NEW i \in 1..Len(backlog')
      PROVE  backlog'[i] # c /\ link'[backlog'[i]] = "queued"
  <2>1. i + 1 \in 1..Len(backlog) /\ 1 \in 1..Len(backlog) /\ i + 1 # 1
    BY <1>2
  <2>2. backlog[i + 1] # c /\ link[backlog[i + 1]] = "queued"
    BY <2>1, <1>2 DEF LinksAgree
  <2> QED  BY <2>2, <1>2, <1>4
<1>8. ASSUME NEW i \in 1..Len(backlog'), NEW j \in 1..Len(backlog'),
             backlog'[i] = backlog'[j]
      PROVE  i = j
  <2>1. i + 1 \in 1..Len(backlog) /\ j + 1 \in 1..Len(backlog)
    BY <1>2
  <2>2. i + 1 = j + 1
    BY <2>1, <1>2, <1>8 DEF LinksAgree
  <2> QED  BY <2>2, <1>2
<1> QED  BY <1>6, <1>7, <1>8 DEF LinksAgree

(* What becomes of the connections in any step. *)
LEMMA LinksStep ==
  ASSUME TypeOK, LinksAgree, [Next]_vars
  PROVE  LinksAgree'
<1> USE DEF clientVars, cspVars
<1>1. ASSUME NEW c \in Peers, ClientStep(c)  PROVE LinksAgree'
  <2>1. CASE Connect(c)
    BY <2>1, LinksConnect
  <2>2. CASE ~Connect(c)
    <3>1. UNCHANGED <<link, serving, backlog>>
      BY <1>1, <2>2
         DEF ClientStep, GiveUp, BeginSolve, CallFused, FusedFails, ReceiveOT, SendFinish,
             GarbleFails, CallOther, ReceiveLast, CallFails, Close, Crash,
             Leave, RawSend
    <3>2. \A d \in Peers : pc'[d] = "new" => pc[d] = "new"
      BY <1>1, <2>2
         DEF TypeOK, ClientStep, GiveUp, BeginSolve, CallFused, FusedFails, ReceiveOT,
             SendFinish, GarbleFails, CallOther, ReceiveLast, CallFails, Close,
             Crash, Leave, RawSend
    <3> QED  BY <3>1, <3>2, LinksUntouched
  <2> QED  BY <2>1, <2>2
<1>2. ASSUME NEW c \in Peers, ServeFrame(c)  PROVE LinksAgree'
  <2>1. CASE Shutdown(c)
    BY <2>1, LinksHungUp DEF Shutdown
  <2>2. CASE ~Shutdown(c)
    <3>1. /\ serving = c /\ UNCHANGED <<pc, backlog>>
          /\ \/ serving' = None /\ link' = [link EXCEPT ![c] = "reset"]
             \/ UNCHANGED <<serving, link>>
      BY <1>2, <2>2
         DEF ServeFrame, StartWhilePending, StartReplayed, StartFails,
             StartFused, FinishRejected, FinishFused, ServeOther, ShutdownFails,
             Take, Arrived, Reject, Answer
    <3> QED  BY <3>1, LinksRejected, LinksUntouched
  <2> QED  BY <2>1, <2>2
<1>3. ASSUME NEW c \in Peers, EndOfStream(c) \/ NetworkBreaks(c)  PROVE LinksAgree'
  BY <1>3, LinksRejected DEF EndOfStream, NetworkBreaks, LinkLost, Reject
<1>4. CASE CspCrash
  BY <1>4, LinksHungUp DEF CspCrash
<1>5. ASSUME NEW c \in Peers, LoseReply(c)  PROVE LinksAgree'
  BY <1>5, LinksUntouched DEF LoseReply
<1>6. CASE CspRestart \/ UNCHANGED vars
  BY <1>6, LinksUntouched DEF CspRestart, vars
<1> QED  BY <1>1, <1>2, <1>3, <1>4, <1>5, <1>6, LinksAccept DEF Next

(* A client notices nothing of a step that leaves its thread and its frames *)
(* alone, and of the server only that it stops serving it.                  *)
LEMMA Unnoticed ==
  ASSUME NEW c, Wired(c), pc'[c] = pc[c], call'[c] = call[c],
         toCsp'[c] = toCsp[c], toCp'[c] = toCp[c], link'[c] = link[c],
         serving' = c => serving = c /\ pending' = pending
  PROVE  Wired(c)'
BY DEF Wired, RequestPaired, ReplyPaired, TranscriptAwaits, Opened

(* The thread of a client moves: its own frames follow its call. *)
LEMMA ClientWired ==
  ASSUME WireInv, NEW c \in Peers, ClientStep(c), NEW d \in Clients
  PROVE  Wired(d)'
<1> USE SessionAssumption, FrameAssumption
<1> USE DEF WireInv, TypeOK, clientVars, cspVars
<1>0. Wired(d) /\ d \in Peers
  BY DEF Peers
<1>1. CASE c # d
  <2>1. /\ pc'[d] = pc[d] /\ call'[d] = call[d] /\ toCp'[d] = toCp[d]
        /\ toCsp'[d] = toCsp[d] /\ link'[d] = link[d]
        /\ UNCHANGED <<serving, pending>>
    BY <1>0, <1>1
       DEF ClientStep, Connect, GiveUp, BeginSolve, CallFused, FusedFails, ReceiveOT,
           SendFinish, GarbleFails, CallOther, ReceiveLast, CallFails, Close,
           Crash, Leave, RawSend, Post
  <2> QED  BY <1>0, <2>1, Unnoticed
<1>2. CASE c = d
  <2> USE <1>0, <1>2 DEF Wired, RequestPaired, ReplyPaired, TranscriptAwaits, Opened, Awaiting
  <2>1. CASE Connect(c)
    BY <2>1 DEF Connect, LinksAgree
  <2>2. CASE GiveUp(c)
    BY <2>2 DEF GiveUp
  <2>3. CASE BeginSolve(c)
    BY <2>3 DEF BeginSolve
  <2>4. ASSUME NEW x \in Contexts, CallFused(c, x)  PROVE Wired(d)'
    BY <2>4 DEF CallFused, Post
  <2>13. ASSUME NEW x \in Contexts, FusedFails(c, x)  PROVE Wired(d)'
    BY <2>13 DEF FusedFails
  <2>5. CASE ReceiveOT(c)
    BY <2>5 DEF ReceiveOT
  <2>6. CASE SendFinish(c)
    BY <2>6 DEF SendFinish, Post
  <2>7. CASE GarbleFails(c)
    BY <2>7 DEF GarbleFails
  <2>8. ASSUME NEW kind \in {"Other", "Q"}, CallOther(c, kind)  PROVE Wired(d)'
    BY <2>8 DEF CallOther, Post
  <2>9. CASE ReceiveLast(c)
    BY <2>9 DEF ReceiveLast
  <2>10. CASE CallFails(c)
    BY <2>10 DEF CallFails
  <2>11. CASE Close(c) \/ Crash(c)
    BY <2>11 DEF Close, Crash, Leave
  <2>12. ASSUME NEW f \in RawFrames, RawSend(c, f)  PROVE Wired(d)'
    BY <2>12 DEF RawSend
  <2> QED  BY <2>1, <2>2, <2>3, <2>4, <2>5, <2>6, <2>7, <2>8, <2>9, <2>10,
              <2>11, <2>12, <2>13, ClientStep(c) DEF ClientStep
<1> QED  BY <1>1, <1>2

(* The connection being served is closed: nothing of it is on its way. *)
LEMMA RejectedWired ==
  ASSUME WireInv, NEW c \in Peers, serving = c, serving' = None,
         link' = [link EXCEPT ![c] = "reset"], toCsp'[c] = None,
         \A d \in Peers \ {c} : toCsp'[d] = toCsp[d],
         UNCHANGED <<pc, call, toCp>>, NEW d \in Clients
  PROVE  Wired(d)'
<1>0. Wired(d) /\ d \in Peers /\ d # None
  BY SessionAssumption DEF WireInv, Peers
<1>1. CASE c # d
  BY <1>0, <1>1, Unnoticed DEF WireInv, TypeOK
<1>2. CASE c = d
  BY <1>0, <1>2 DEF WireInv, TypeOK, Wired, RequestPaired, ReplyPaired, TranscriptAwaits, Opened
<1> QED  BY <1>1, <1>2

(* The process ends, or stops after its reply to Q. *)
LEMMA HungUpWired ==
  ASSUME WireInv, Hangup, UNCHANGED clientVars, NEW d \in Clients,
         \/ toCp'[d] = toCp[d]
         \/ toCp'[d] = None
         \/ toCp'[d] = [kind |-> "Done"] /\ pc[d] = "awaitOther"
  PROVE  Wired(d)'
<1>1. Wired(d) /\ d \in Peers /\ d # None /\ toCsp'[d] = None
  BY SessionAssumption DEF WireInv, Peers, Hangup
<1>2. link[d] \in {"served", "reset"} => link'[d] = "reset"
  BY <1>1 DEF Hangup
<1>3. serving' = None /\ UNCHANGED <<pc, call>>
  BY DEF Hangup, clientVars
<1> QED  BY <1>1, <1>2, <1>3
         DEF Wired, RequestPaired, ReplyPaired, TranscriptAwaits, Opened

(* The CSP serves a frame. *)
LEMMA ServeWired ==
  ASSUME WireInv, NEW c \in Peers, ServeFrame(c), NEW d \in Clients
  PROVE  Wired(d)'
<1> USE SessionAssumption, FrameAssumption
<1>0. Wired(d) /\ d \in Peers /\ d # None /\ TypeOK
  BY DEF WireInv, Peers
<1>1. ASSUME NEW kind, Take(c, kind), Reject(c)  PROVE Wired(d)'
  <2>1. /\ serving = c /\ toCsp' = [toCsp EXCEPT ![c] = None]
        /\ UNCHANGED <<pc, call, toCp>>
    BY <1>1 DEF Take, Arrived, Reject, clientVars
  <2>2. toCsp'[c] = None /\ \A e \in Peers \ {c} : toCsp'[e] = toCsp[e]
    BY <2>1, <1>0 DEF TypeOK
  <2>3. serving' = None /\ link' = [link EXCEPT ![c] = "reset"]
    BY <1>1 DEF Reject
  <2> QED  BY <2>1, <2>2, <2>3, RejectedWired
<1>2. ASSUME NEW kind, Take(c, kind), NEW r, Answer(c, r),
             \/ StartFused(c) \/ FinishFused(c)
             \/ kind = "Other" /\ \E k \in {"Done", "Refused"} : r = [kind |-> k]
      PROVE  Wired(d)'
  <2>1. /\ serving = c /\ serving' = c /\ toCsp' = [toCsp EXCEPT ![c] = None]
        /\ UNCHANGED <<pc, call, link>>
        /\ toCp' = [toCp EXCEPT ![c] = IF c \in Clients /\ pc[c] # "gone" THEN r ELSE None]
    BY <1>2 DEF Take, Arrived, Answer, clientVars
  <2>2. CASE c # d
    <3>1. toCsp'[d] = toCsp[d] /\ toCp'[d] = toCp[d]
      BY <2>1, <2>2, <1>0 DEF TypeOK
    <3> QED  BY <1>0, <2>1, <2>2, <3>1, Unnoticed
  <2>3. CASE c = d
    <3>1. toCsp'[d] = None /\ toCsp[d] # None
      BY <1>2, <2>1, <2>3, <1>0 DEF TypeOK, Take, Arrived
    <3> USE <1>0, <2>1, <2>3, <3>1
            DEF Wired, RequestPaired, ReplyPaired, TranscriptAwaits, Opened
    <3>2. CASE StartFused(c)
      <4>1. /\ toCsp[d].kind = "F" /\ pending' = [ctx |-> toCsp[d].ctx, owner |-> d]
            /\ toCp'[d] = IF pc[d] = "gone" THEN None
                          ELSE [kind |-> "OT", ctx |-> toCsp[d].ctx]
        BY <3>2 DEF StartFused, Take, Arrived, Answer, TypeOK
      <4>2. link[d] = "served"
        BY DEF WireInv, LinksAgree
      <4> QED  BY <4>1, <4>2
    <3>3. CASE FinishFused(c)
      <4>1. /\ toCsp[d].kind = "G"
            /\ toCp'[d] = IF pc[d] = "gone" THEN None
                          ELSE [kind |-> "Decision", ctx |-> toCsp[d].ctx]
        BY <3>3 DEF FinishFused, Expected, Take, Arrived, Answer, TypeOK
      <4> QED  BY <4>1
    <3>4. CASE kind = "Other" /\ \E k \in {"Done", "Refused"} : r = [kind |-> k]
      <4>1. /\ toCsp[d].kind = "Other"
            /\ \/ toCp'[d] = None
               \/ \E k \in {"Done", "Refused"} : toCp'[d] = [kind |-> k] /\ pc[d] # "gone"
        BY <1>2, <3>4 DEF Take, Arrived, TypeOK
      <4> QED  BY <4>1
    <3> QED  BY <1>2, <3>2, <3>3, <3>4
  <2> QED  BY <2>2, <2>3
<1>3. CASE Shutdown(c)
  <2>1. /\ Hangup /\ UNCHANGED clientVars /\ toCsp[c] # None /\ toCsp[c].kind = "Q"
        /\ toCp'[d] = IF c # d THEN toCp[d]
                      ELSE IF pc[d] # "gone" THEN [kind |-> "Done"] ELSE None
    BY <1>3, <1>0 DEF Shutdown, Arrived, TypeOK
  <2>2. c = d /\ pc[d] # "gone" => pc[d] = "awaitOther"
    BY <2>1, <1>0 DEF Wired, RequestPaired
  <2> QED  BY <2>1, <2>2, HungUpWired
<1>4. CASE StartWhilePending(c) \/ StartReplayed(c) \/ StartFails(c) \/ FinishRejected(c)
           \/ ShutdownFails(c)
  BY <1>1, <1>4 DEF StartWhilePending, StartReplayed, StartFails, FinishRejected,
                    ShutdownFails
<1>5. CASE StartFused(c)
  <2>1. Take(c, "F") /\ Answer(c, [kind |-> "OT", ctx |-> toCsp[c].ctx])
    BY <1>5 DEF StartFused
  <2> QED  BY <1>2, <1>5, <2>1
<1>6. CASE FinishFused(c)
  <2>1. Take(c, "G") /\ Answer(c, [kind |-> "Decision", ctx |-> pending.ctx])
    BY <1>6 DEF FinishFused
  <2> QED  BY <1>2, <1>6, <2>1
<1>7. CASE ServeOther(c)
  <2>1. Take(c, "Other")
    BY <1>7 DEF ServeOther
  <2>2. \/ \E k \in {"Done", "Refused"} : Answer(c, [kind |-> k])
        \/ Reject(c)
    BY <1>7 DEF ServeOther
  <2> QED  BY <1>1, <1>2, <2>1, <2>2
<1> QED  BY <1>3, <1>4, <1>5, <1>6, <1>7 DEF ServeFrame

LEMMA NextWired == WireInv /\ [Next]_vars => WireInv'
<1> SUFFICES ASSUME WireInv, [Next]_vars, NEW d \in Clients  PROVE Wired(d)'
  BY NextTypeOK, LinksStep DEF WireInv
<1>0. Wired(d) /\ d \in Peers /\ d # None /\ TypeOK
  BY SessionAssumption DEF WireInv, Peers
<1>1. ASSUME NEW c \in Peers, ClientStep(c)  PROVE Wired(d)'
  BY <1>1, ClientWired
<1>2. ASSUME NEW c \in Peers, ServeFrame(c)  PROVE Wired(d)'
  BY <1>2, ServeWired
<1>3. ASSUME NEW c \in Peers, EndOfStream(c) \/ NetworkBreaks(c)  PROVE Wired(d)'
  BY <1>3, RejectedWired
     DEF EndOfStream, NetworkBreaks, LinkLost, Reject, clientVars
<1>4. CASE CspCrash
  BY <1>4, HungUpWired DEF CspCrash
<1>5. ASSUME NEW c \in Peers, LoseReply(c)  PROVE Wired(d)'
  BY <1>0, <1>5 DEF LoseReply, TypeOK, clientVars, cspVars, Wired, RequestPaired,
                    ReplyPaired, TranscriptAwaits, Opened
<1>6. CASE Accept
  <2>1. /\ serving' = Head(backlog) /\ Head(backlog) \in Peers
        /\ link' = [link EXCEPT ![Head(backlog)] = "served"]
        /\ link[Head(backlog)] = "queued"
        /\ UNCHANGED <<pc, call, toCsp, toCp, pending>>
    <3>1. Head(backlog) = backlog[1] /\ 1 \in 1..Len(backlog)
      BY <1>0, <1>6, HeadTailProperties DEF Accept, TypeOK
    <3> QED  BY <3>1, <1>0, <1>6, BacklogTypes DEF Accept, WireInv, LinksAgree, TypeOK, clientVars
  <2>2. CASE d = Head(backlog)
    BY <1>0, <2>1, <2>2 DEF TypeOK, Wired, RequestPaired, ReplyPaired, TranscriptAwaits, Opened
  <2>3. CASE d # Head(backlog)
    BY <1>0, <2>1, <2>3, Unnoticed DEF TypeOK
  <2> QED  BY <2>2, <2>3
<1>7. CASE CspRestart
  BY <1>0, <1>7, Unnoticed DEF CspRestart, clientVars
<1>8. CASE UNCHANGED vars
  BY <1>0, <1>8, Unnoticed DEF vars, clientVars, cspVars
<1> QED  BY <1>1, <1>2, <1>3, <1>4, <1>5, <1>6, <1>7, <1>8 DEF Next

LEMMA WireInvariant == Spec => []WireInv
<1>1. Init => WireInv
  <2> SUFFICES ASSUME Init  PROVE LinksAgree /\ \A c \in Clients : Wired(c)
    BY InitTypeOK DEF WireInv
  <2>1. Len(backlog) = 0 /\ \A c \in Peers : c # None
    BY SessionAssumption DEF Init
  <2> QED  BY <2>1 DEF Init, LinksAgree, Wired, RequestPaired, ReplyPaired,
                       TranscriptAwaits, Peers
<1> QED  BY <1>1, NextWired, PTL DEF Spec

(* Replies, which carry no context, are never handed to a later call: the   *)
(* one in flight belongs to the call that the client is waiting for.        *)
THEOREM RepliesPair == Spec => []ReplyPairing
<1>1. WireInv => ReplyPairing
  BY DEF WireInv, Wired, ReplyPaired, ReplyPairing
<1> QED  BY <1>1, WireInvariant, PTL

(* A library client's G that the CSP reads finds the transcript of its F,   *)
(* whatever other clients and other programs sent.                          *)
THEOREM FinishAlwaysFindsTranscript == Spec => []FinishFindsTranscript
<1>1. WireInv => FinishFindsTranscript
  BY DEF WireInv, Wired, TranscriptAwaits, Opened, Arrived, FinishFindsTranscript
<1> QED  BY <1>1, WireInvariant, PTL
=============================================================================
