---------------------------- MODULE FusedSession ----------------------------
(***************************************************************************)
(* The fused predicate protocol between computing parties (CP) and the     *)
(* crypto service provider (CSP).                                          *)
(*                                                                         *)
(* A client is one ThresholdProtocolClient object: it owns one socket,     *)
(* opened by its constructor and closed by its destructor, and never       *)
(* reconnects.  On top of it ConfidentialOptimizer::optimize builds a      *)
(* fresh PredicateEngine for each solve, whose replay set lives as long    *)
(* as the solve.  The CSP (runThresholdCsp) is one thread: it accepts one  *)
(* connection, serves it until an exception, and only then accepts the     *)
(* next one from the listen backlog.                                       *)
(*                                                                         *)
(* A fused predicate is two requests.  F opens the transcript and consumes *)
(* its identity (session, operation); G, bound to the same context, closes *)
(* it and is answered with the decision bit.  The cryptography (masks,     *)
(* oblivious transfer, garbling) is abstracted: a frame is its kind and    *)
(* its context, and one that does not parse is an "Other" frame, which the *)
(* CSP may refuse.  RawPeers are connections whose peer is not the         *)
(* library: they send any frame at any time.                               *)
(***************************************************************************)
EXTENDS Naturals, Sequences, FiniteSets

CONSTANTS
  Clients,      (* connections made by ThresholdProtocolClient objects *)
  RawPeers,     (* connections made by any other program               *)
  Sessions,     (* session ids                                         *)
  Operations,   (* operation ids                                       *)
  Bindings,     (* the rest of a context: type, depth, node, shape     *)
  Backlog,      (* connections the kernel queues for accept            *)
  MaxSolves,    (* solves a client starts                              *)
  MaxCalls,     (* requests a client makes                             *)
  MaxFrames,    (* frames a raw peer sends                             *)
  MaxRestarts,  (* restarts of the CSP process                         *)
  None          (* an absent value                                     *)

Peers      == Clients \cup RawPeers
Identities == Sessions \X Operations
Contexts   == [id : Identities, bind : Bindings]
Transcripts == [ctx : Contexts, owner : Peers]

ASSUME SessionAssumption ==
  /\ Clients \cap RawPeers = {}
  /\ Backlog \in Nat \ {0}
  /\ MaxSolves \in Nat /\ MaxCalls \in Nat
  /\ MaxFrames \in Nat /\ MaxRestarts \in Nat
  /\ None \notin Peers /\ None \notin Transcripts

Frame == [kind : {"F", "G"}, ctx : Contexts]
         \cup [kind : {"Other", "Q"}]
Reply == [kind : {"OT", "Decision"}, ctx : Contexts]
         \cup [kind : {"Done", "Refused"}]

ASSUME FrameAssumption == None \notin Frame /\ None \notin Reply

VARIABLES
  pc,        (* what each client's thread is doing                          *)
  call,      (* the context of each client's fused predicate in progress    *)
  engine,    (* identities the current solve's PredicateEngine has consumed *)
  solves,    (* solves each client has started                              *)
  sent,      (* requests each peer has made                                 *)
  link,      (* the server's side of each connection                        *)
  toCsp,     (* the request on its way to the CSP, per connection           *)
  toCp,      (* the reply on its way to the client, per connection          *)
  csp,       (* the CSP process: "running", "stopped" after Q, "down"       *)
  backlog,   (* connections waiting for accept                              *)
  serving,   (* the connection being served                                 *)
  pending,   (* pending_fused; owner is a history field                     *)
  replays,   (* fused_replays                                               *)
  restarts,  (* restarts so far                                             *)
  verdicts   (* history: decisions made by this CSP process per identity    *)

clientVars == <<pc, call, engine, solves>>
cspVars    == <<csp, backlog, serving, pending, replays, restarts, verdicts>>
vars == <<clientVars, sent, link, toCsp, toCp, cspVars>>

Awaiting == {"awaitF", "awaitG", "awaitOther"}

Init ==
  /\ pc = [c \in Peers |-> "new"]
  /\ call = [c \in Peers |-> None]
  /\ engine = [c \in Peers |-> {}]
  /\ solves = [c \in Peers |-> 0]
  /\ sent = [c \in Peers |-> 0]
  /\ link = [c \in Peers |-> "none"]
  /\ toCsp = [c \in Peers |-> None]
  /\ toCp = [c \in Peers |-> None]
  /\ csp = "running"
  /\ backlog = <<>>
  /\ serving = None
  /\ pending = None
  /\ replays = {}
  /\ restarts = 0
  /\ verdicts = [i \in Identities |-> 0]

-----------------------------------------------------------------------------
(* The client. *)

(* Mutant of Connect: the listen queue has no limit. *)
ConnectUnbounded(c) ==
  /\ pc[c] = "new" /\ csp = "running"
  /\ pc' = [pc EXCEPT ![c] = "idle"]
  /\ link' = [link EXCEPT ![c] = "queued"]
  /\ backlog' = Append(backlog, c)
  /\ UNCHANGED <<call, engine, solves, sent, toCsp, toCp,
                 csp, serving, pending, replays, restarts, verdicts>>

(* connectTcp succeeds once the kernel has room in the listen queue.  The   *)
(* raw peers connect the same way.                                          *)
Connect(c) ==
  /\ pc[c] = "new" /\ csp = "running" /\ Len(backlog) < Backlog
  /\ pc' = [pc EXCEPT ![c] = "idle"]
  /\ link' = [link EXCEPT ![c] = "queued"]
  /\ backlog' = Append(backlog, c)
  /\ UNCHANGED <<call, engine, solves, sent, toCsp, toCp,
                 csp, serving, pending, replays, restarts, verdicts>>

(* connectTcp throws after its 60 attempts. *)
GiveUp(c) ==
  /\ pc[c] = "new" /\ csp # "running"
  /\ pc' = [pc EXCEPT ![c] = "gone"]
  /\ UNCHANGED <<call, engine, solves, sent, link, toCsp, toCp, cspVars>>

(* ConfidentialOptimizer::optimize: a fresh engine for each solve. *)
BeginSolve(c) ==
  /\ c \in Clients /\ pc[c] = "idle" /\ solves[c] < MaxSolves
  /\ solves' = [solves EXCEPT ![c] = @ + 1]
  /\ engine' = [engine EXCEPT ![c] = {}]
  /\ UNCHANGED <<pc, call, sent, link, toCsp, toCp, cspVars>>

(* A frame sent on a connection the CSP has dropped never arrives. *)
Post(c, f) ==
  toCsp' = [toCsp EXCEPT ![c] = IF link[c] \in {"queued", "served"}
                                THEN f ELSE None]

(* pruneNode / acceptCandidate on the fused path: authorizeAndConsume in    *)
(* the engine, then fusedPredicate sends F and blocks in receiveFrame.      *)
CallFused(c, x) ==
  /\ c \in Clients /\ pc[c] = "idle" /\ solves[c] > 0 /\ sent[c] < MaxCalls
  /\ x.id \notin engine[c]
  /\ engine' = [engine EXCEPT ![c] = @ \cup {x.id}]
  /\ pc' = [pc EXCEPT ![c] = "awaitF"]
  /\ call' = [call EXCEPT ![c] = x]
  /\ sent' = [sent EXCEPT ![c] = @ + 1]
  /\ Post(c, [kind |-> "F", ctx |-> x])
  /\ UNCHANGED <<solves, link, toCp, cspVars>>

(* fusedPredicate throws before it sends F: the identity is consumed in the *)
(* engine and the CSP hears nothing of it.                                  *)
FusedFails(c, x) ==
  /\ c \in Clients /\ pc[c] = "idle" /\ solves[c] > 0
  /\ x.id \notin engine[c]
  /\ engine' = [engine EXCEPT ![c] = @ \cup {x.id}]
  /\ UNCHANGED <<pc, call, solves, sent, link, toCsp, toCp, cspVars>>

(* The oblivious-transfer reply arrives; the client garbles the circuit. *)
ReceiveOT(c) ==
  /\ pc[c] = "awaitF" /\ toCp[c] # None
  /\ pc' = [pc EXCEPT ![c] = "garbling"]
  /\ toCp' = [toCp EXCEPT ![c] = None]
  /\ UNCHANGED <<call, engine, solves, sent, link, toCsp, cspVars>>

SendFinish(c) ==
  /\ pc[c] = "garbling"
  /\ pc' = [pc EXCEPT ![c] = "awaitG"]
  /\ Post(c, [kind |-> "G", ctx |-> call[c]])
  /\ UNCHANGED <<call, engine, solves, sent, link, toCp, cspVars>>

(* A local exception between F and G: the call fails with PredicateError,   *)
(* the socket stays open and the CSP keeps its pending transcript.          *)
GarbleFails(c) ==
  /\ pc[c] = "garbling"
  /\ pc' = [pc EXCEPT ![c] = "idle"]
  /\ call' = [call EXCEPT ![c] = None]
  /\ UNCHANGED <<engine, solves, sent, link, toCsp, toCp, cspVars>>

(* Another request of the client: the bit and arithmetic operations, the    *)
(* metrics, decryptForTesting or, with kind "Q", requestServerShutdown.     *)
CallOther(c, kind) ==
  /\ c \in Clients /\ pc[c] = "idle" /\ sent[c] < MaxCalls
  /\ pc' = [pc EXCEPT ![c] = "awaitOther"]
  /\ sent' = [sent EXCEPT ![c] = @ + 1]
  /\ Post(c, [kind |-> kind])
  /\ UNCHANGED <<call, engine, solves, link, toCp, cspVars>>

(* The last reply of a call: the decision, or an answer with its status. *)
ReceiveLast(c) ==
  /\ pc[c] \in {"awaitG", "awaitOther"} /\ toCp[c] # None
  /\ pc' = [pc EXCEPT ![c] = "idle"]
  /\ call' = [call EXCEPT ![c] = None]
  /\ toCp' = [toCp EXCEPT ![c] = None]
  /\ UNCHANGED <<engine, solves, sent, link, toCsp, cspVars>>

(* Mutant of CallFails: a receive timeout that leaves the socket open. *)
CallTimesOut(c) ==
  /\ pc[c] \in Awaiting /\ toCp[c] = None
  /\ pc' = [pc EXCEPT ![c] = "idle"]
  /\ call' = [call EXCEPT ![c] = None]
  /\ UNCHANGED <<engine, solves, sent, link, toCsp, toCp, cspVars>>

(* receiveFrame sees the connection closed: the call throws.  The object    *)
(* keeps its dead socket and every later call fails the same way.           *)
CallFails(c) ==
  /\ pc[c] \in Awaiting /\ toCp[c] = None /\ link[c] = "reset"
  /\ pc' = [pc EXCEPT ![c] = "idle"]
  /\ call' = [call EXCEPT ![c] = None]
  /\ UNCHANGED <<engine, solves, sent, link, toCsp, toCp, cspVars>>

(* The object is destroyed: ~Impl closes the socket.  Replies in flight     *)
(* are lost; a request already sent can still be read by the CSP.           *)
Leave(c) ==
  /\ pc' = [pc EXCEPT ![c] = "gone"]
  /\ call' = [call EXCEPT ![c] = None]
  /\ toCp' = [toCp EXCEPT ![c] = None]
  /\ UNCHANGED <<engine, solves, sent, link, toCsp, cspVars>>

Close(c) == pc[c] = "idle" /\ Leave(c)

(* The client's process dies inside a call. *)
Crash(c) == pc[c] \in Awaiting \cup {"garbling"} /\ Leave(c)

(* A raw peer sends any frame, without waiting for replies. *)
RawSend(c, f) ==
  /\ c \in RawPeers /\ pc[c] = "idle" /\ sent[c] < MaxFrames
  /\ toCsp[c] = None
  /\ sent' = [sent EXCEPT ![c] = @ + 1]
  /\ Post(c, f)
  /\ UNCHANGED <<clientVars, link, toCp, cspVars>>

-----------------------------------------------------------------------------
(* The CSP: one thread, one connection at a time. *)

Accept ==
  /\ csp = "running" /\ serving = None /\ backlog # <<>>
  /\ serving' = Head(backlog)
  /\ backlog' = Tail(backlog)
  /\ link' = [link EXCEPT ![Head(backlog)] = "served"]
  /\ UNCHANGED <<clientVars, sent, toCsp, toCp,
                 csp, pending, replays, restarts, verdicts>>

(* Mutants of Reject: the pending transcript survives; the socket stays     *)
(* open and nobody serves it.                                               *)
RejectKeepsPending(c) ==
  /\ serving' = None
  /\ link' = [link EXCEPT ![c] = "reset"]
  /\ UNCHANGED <<pending, toCp, csp, backlog, restarts>>

RejectLeavesOpen(c) ==
  /\ pending' = None
  /\ serving' = None
  /\ UNCHANGED <<link, toCp, csp, backlog, restarts>>

(* The catch clause: the transcript is discarded and the socket closed. *)
Reject(c) ==
  /\ pending' = None
  /\ serving' = None
  /\ link' = [link EXCEPT ![c] = "reset"]
  /\ UNCHANGED <<toCp, csp, backlog, restarts>>

(* The CSP answers and stays in its receive loop.  Only the library reads   *)
(* replies; one to a peer that has gone is lost.                            *)
Answer(c, r) ==
  /\ toCp' = [toCp EXCEPT ![c] = IF c \in Clients /\ pc[c] # "gone"
                                 THEN r ELSE None]
  /\ UNCHANGED <<link, serving, csp, backlog, restarts>>

Arrived(c, kind) ==
  /\ csp = "running" /\ serving = c
  /\ toCsp[c] # None /\ toCsp[c].kind = kind

Take(c, kind) ==
  /\ Arrived(c, kind)
  /\ toCsp' = [toCsp EXCEPT ![c] = None]
  /\ UNCHANGED <<clientVars, sent>>

(* F refused before its identity is consumed: a transcript is pending. *)
StartWhilePending(c) ==
  /\ Take(c, "F")
  /\ pending # None
  /\ Reject(c)
  /\ UNCHANGED <<replays, verdicts>>

StartReplayed(c) ==
  /\ Take(c, "F")
  /\ pending = None /\ toCsp[c].ctx.id \in replays
  /\ Reject(c)
  /\ UNCHANGED <<replays, verdicts>>

(* Mutant of StartFails: the failure is answered like a success. *)
StartFailsSilently(c) ==
  /\ Take(c, "F")
  /\ pending = None /\ toCsp[c].ctx.id \notin replays
  /\ replays' = replays \cup {toCsp[c].ctx.id}
  /\ Answer(c, [kind |-> "OT", ctx |-> toCsp[c].ctx])
  /\ UNCHANGED <<pending, verdicts>>

(* The identity is consumed, then the circuit, the threshold decryption or  *)
(* the send throws.                                                         *)
StartFails(c) ==
  /\ Take(c, "F")
  /\ pending = None /\ toCsp[c].ctx.id \notin replays
  /\ replays' = replays \cup {toCsp[c].ctx.id}
  /\ Reject(c)
  /\ UNCHANGED verdicts

(* Mutant of StartFused: the replay set is written but not consulted. *)
StartAnyway(c) ==
  /\ Take(c, "F")
  /\ pending = None
  /\ replays' = replays \cup {toCsp[c].ctx.id}
  /\ pending' = [ctx |-> toCsp[c].ctx, owner |-> c]
  /\ Answer(c, [kind |-> "OT", ctx |-> toCsp[c].ctx])
  /\ UNCHANGED verdicts

StartFused(c) ==
  /\ Take(c, "F")
  /\ pending = None /\ toCsp[c].ctx.id \notin replays
  /\ replays' = replays \cup {toCsp[c].ctx.id}
  /\ pending' = [ctx |-> toCsp[c].ctx, owner |-> c]
  /\ Answer(c, [kind |-> "OT", ctx |-> toCsp[c].ctx])
  /\ UNCHANGED verdicts

(* The context check of G against the pending transcript. *)
Expected(x) == pending # None /\ pending.ctx = x

(* G refused: nothing pending, another context or shape, labels that do not *)
(* evaluate, or a reply that cannot be sent.  Whatever was pending is gone. *)
FinishRejected(c) ==
  /\ Take(c, "G")
  /\ Reject(c)
  /\ UNCHANGED <<replays, verdicts>>

(* Mutant of FinishFused: the answered transcript stays pending. *)
FinishKeepsPending(c) ==
  /\ Take(c, "G")
  /\ Expected(toCsp[c].ctx)
  /\ verdicts' = [verdicts EXCEPT ![pending.ctx.id] = @ + 1]
  /\ Answer(c, [kind |-> "Decision", ctx |-> pending.ctx])
  /\ UNCHANGED <<pending, replays>>

FinishFused(c) ==
  /\ Take(c, "G")
  /\ Expected(toCsp[c].ctx)
  /\ pending' = None
  /\ verdicts' = [verdicts EXCEPT ![pending.ctx.id] = @ + 1]
  /\ Answer(c, [kind |-> "Decision", ctx |-> pending.ctx])
  /\ UNCHANGED replays

(* The operations without a transcript (B, P, T, D, M, C) and frames that   *)
(* do not parse: served, refused with a status byte, or an exception.       *)
ServeOther(c) ==
  /\ Take(c, "Other")
  /\ UNCHANGED <<replays, verdicts>>
  /\ \/ \E kind \in {"Done", "Refused"} :
          Answer(c, [kind |-> kind]) /\ UNCHANGED pending
     \/ Reject(c)

(* The process ends: every connection is reset, its memory is gone. *)
Hangup ==
  /\ link' = [p \in Peers |-> IF link[p] \in {"queued", "served"}
                             THEN "reset" ELSE link[p]]
  /\ toCsp' = [p \in Peers |-> None]
  /\ serving' = None /\ pending' = None /\ backlog' = <<>>

(* Q: reply, close the socket and the listener, return from the process. *)
Shutdown(c) ==
  /\ Arrived(c, "Q")
  /\ csp' = "stopped"
  /\ Hangup
  /\ toCp' = [toCp EXCEPT ![c] = IF c \in Clients /\ pc[c] # "gone"
                                 THEN [kind |-> "Done"] ELSE None]
  /\ UNCHANGED <<clientVars, sent, replays, restarts, verdicts>>

(* The reply to Q cannot be sent: the exception is caught as any other, and *)
(* the CSP goes on serving.                                                 *)
ShutdownFails(c) ==
  /\ Take(c, "Q")
  /\ Reject(c)
  /\ UNCHANGED <<replays, verdicts>>

(* A connection reset discards a reply the client has not read. *)
LoseReply(c) ==
  /\ toCp[c] # None /\ link[c] = "reset"
  /\ toCp' = [toCp EXCEPT ![c] = None]
  /\ UNCHANGED <<clientVars, sent, link, toCsp, cspVars>>

(* receiveFrame finds the connection at its end or broken. *)
LinkLost(c) ==
  /\ csp = "running" /\ serving = c
  /\ toCsp[c] = None
  /\ Reject(c)
  /\ UNCHANGED <<clientVars, sent, toCsp, replays, verdicts>>

EndOfStream(c) == pc[c] = "gone" /\ LinkLost(c)

(* The network breaks the connection under a live client. *)
NetworkBreaks(c) == pc[c] # "gone" /\ LinkLost(c)

(* The CSP process dies, and is started again with empty memory. *)
CspCrash ==
  /\ csp = "running"
  /\ csp' = "down"
  /\ Hangup
  /\ UNCHANGED <<clientVars, sent, toCp, replays, restarts, verdicts>>

CspRestart ==
  /\ csp # "running" /\ restarts < MaxRestarts
  /\ csp' = "running" /\ restarts' = restarts + 1
  /\ replays' = {}
  /\ verdicts' = [i \in Identities |-> 0]
  /\ UNCHANGED <<clientVars, sent, link, toCsp, toCp,
                 backlog, serving, pending>>

-----------------------------------------------------------------------------
RawFrames == [kind : {"F", "G"}, ctx : Contexts] \cup [kind : {"Other"}]

ClientStep(c) ==
  \/ Connect(c) \/ GiveUp(c) \/ BeginSolve(c)
  \/ \E x \in Contexts : CallFused(c, x) \/ FusedFails(c, x)
  \/ ReceiveOT(c) \/ SendFinish(c) \/ GarbleFails(c)
  \/ \E kind \in {"Other", "Q"} : CallOther(c, kind)
  \/ ReceiveLast(c) \/ CallFails(c)
  \/ Close(c) \/ Crash(c)
  \/ \E f \in RawFrames : RawSend(c, f)

ServeFrame(c) ==
  \/ StartWhilePending(c) \/ StartReplayed(c) \/ StartFails(c) \/ StartFused(c)
  \/ FinishRejected(c) \/ FinishFused(c)
  \/ ServeOther(c) \/ Shutdown(c) \/ ShutdownFails(c)

Next ==
  \/ \E c \in Peers : ClientStep(c) \/ ServeFrame(c)
                      \/ EndOfStream(c) \/ NetworkBreaks(c) \/ LoseReply(c)
  \/ Accept \/ CspCrash \/ CspRestart

Spec == Init /\ [][Next]_vars

(* The CSP thread runs as long as its process is up, and a client's thread  *)
(* runs its own steps.  Close is fair for the library's clients only: the   *)
(* application eventually destroys a client it has no more calls for        *)
(* (RAII); nothing obliges another program to hang up.                      *)
Fairness ==
  /\ WF_vars(Accept)
  /\ \A c \in Peers : WF_vars(ServeFrame(c)) /\ WF_vars(EndOfStream(c))
  /\ \A c \in Clients :
       /\ WF_vars(ReceiveOT(c)) /\ WF_vars(SendFinish(c) \/ GarbleFails(c))
       /\ WF_vars(ReceiveLast(c)) /\ WF_vars(CallFails(c))
       /\ WF_vars(Close(c))

FairSpec == Spec /\ Fairness

-----------------------------------------------------------------------------
(* Every variable holds a value of its kind, and the listen queue respects  *)
(* its limit.                                                               *)
TypeOK ==
  /\ pc \in [Peers -> {"new", "idle", "garbling", "gone"} \cup Awaiting]
  /\ call \in [Peers -> Contexts \cup {None}]
  /\ \A c \in Peers :
       pc[c] \in {"awaitF", "garbling", "awaitG"} => call[c] \in Contexts
  /\ engine \in [Peers -> SUBSET Identities]
  /\ solves \in [Peers -> Nat] /\ sent \in [Peers -> Nat]
  /\ link \in [Peers -> {"none", "queued", "served", "reset"}]
  /\ toCsp \in [Peers -> Frame \cup {None}]
  /\ toCp \in [Peers -> Reply \cup {None}]
  /\ csp \in {"running", "stopped", "down"}
  /\ backlog \in Seq(Peers) /\ Len(backlog) <= Backlog
  /\ serving \in Peers \cup {None}
  /\ pending \in Transcripts \cup {None}
  /\ replays \subseteq Identities
  /\ restarts \in Nat
  /\ verdicts \in [Identities -> Nat]

(* A pending transcript belongs to the connection being served, its         *)
(* identity is already consumed and has no verdict: fused state never       *)
(* outlives the connection that opened it, whichever way that one ended.    *)
TranscriptOwned ==
  pending # None =>
    /\ csp = "running" /\ serving = pending.owner
    /\ pending.ctx.id \in replays
    /\ verdicts[pending.ctx.id] = 0

(* One CSP process decides each identity at most once, over all the         *)
(* connections and solves it serves, and only after consuming it.           *)
DecidedOnce ==
  \A i \in Identities : /\ verdicts[i] <= 1
                        /\ verdicts[i] = 1 => i \in replays

(* Replies carry no context: a client matches them to its calls by order    *)
(* alone.  The reply in flight is always the one the client's current call  *)
(* waits for.                                                               *)
ReplyPairing ==
  \A c \in Clients : toCp[c] # None =>
    \/ toCp[c].kind = "OT" /\ pc[c] = "awaitF" /\ toCp[c].ctx = call[c]
    \/ toCp[c].kind = "Decision" /\ pc[c] = "awaitG" /\ toCp[c].ctx = call[c]
    \/ toCp[c].kind \in {"Done", "Refused"} /\ pc[c] = "awaitOther"

(* A library client's G, read on its live connection, finds its own         *)
(* transcript pending: the context and shape checks never refuse a client   *)
(* that follows the protocol, whatever it or others did before.             *)
FinishFindsTranscript ==
  \A c \in Clients :
    Arrived(c, "G") => pending = [ctx |-> toCsp[c].ctx, owner |-> c]

(* An identity is pending for G. *)
Open(i) == pending # None /\ pending.ctx.id = i

(* A consumed identity whose transcript is no longer pending (decided,      *)
(* failed, interrupted or abandoned) is never pending again and gets no     *)
(* further verdict, until the CSP restarts: no transcript is resumed under  *)
(* the same identity, on whichever connection or by whichever solve.        *)
NeverResumed ==
  [][\A i \in replays :
       ~Open(i) => \/ ~Open(i)' /\ verdicts'[i] = verdicts[i]
                   \/ restarts' # restarts]_vars

(* Seen from outside, the CSP is a single-use store of identities, the same *)
(* promise as the client's PredicateEngine makes to its threads: over all   *)
(* connections, failures and crashes each identity is decided or burnt, and *)
(* only a restart of the process forgets.                                   *)
IdentityStatus ==
  [i \in Identities |->
     IF i \notin replays THEN "fresh"
     ELSE IF Open(i) THEN "open"
     ELSE IF verdicts[i] = 1 THEN "decided" ELSE "burnt"]

Abstract == INSTANCE SingleUse WITH status <- IdentityStatus

CspIsSingleUse == Abstract!Spec

(* Every request of a client ends, with a reply or with an exception, even  *)
(* when it waits in the listen queue behind others, provided that no peer   *)
(* holds the CSP forever: the server reads without a timeout.               *)
CallsEnd ==
  (\A r \in RawPeers : []<>(serving # r)) =>
    \A c \in Clients :
      pc[c] \in Awaiting \cup {"garbling"} ~> pc[c] \in {"idle", "gone"}

(* What ConfidentialOptimizer's header says of session ids: whether one may *)
(* be reused by a later solve is the authorizer's decision, so the CSP does *)
(* not refuse a predicate that the client's engine let through.             *)
ReuseLeftToAuthorizer == [][\A c \in Clients : ~StartReplayed(c)]_vars
=============================================================================
