# A TLA+ verification of the SOCI SGX SDK

The SDK computes on Paillier ciphertexts with two parties.  The *computing
party* (CP) holds encrypted data and one key share; the *crypto service
provider* (CSP) holds the other share and answers requests over TCP.  On top of
this sit secure operations, an engine that turns encrypted predicates into
single plaintext bits, and optimizers that choose one of three methods per row
of an encrypted cost matrix.  A second backend (OFF) emulates both parties in
one process behind a C API.

The modules here model the code in `src/src`, `src/include` and `src/trusted`
(paths below omit the leading `src/`), not its documents.  TLC checks them on
small instances; TLAPS proves the most important properties for every instance.

## 1. Inventory

| Part | Source | State | Operations | What makes it correct |
|---|---|---|---|---|
| CSP server and its clients | `src/protocol/threshold_protocol.cpp`, `threshold_wire.cpp` | listener, served socket, pending transcript, replay set; per client one socket | connect, F and G of the fused predicate, the other requests, shutdown, the catch clause | transcript tied to one connection, identity decided at most once, replies pair with requests, calls end |
| Predicate engine | `src/predicate_engine.cpp` | consumed identities under a mutex | `pruneNode`, `acceptCandidate` | only approved identities are consumed, each is passed on once |
| Encrypted search | `src/encrypted_branch_bound.cpp` | prefix accumulators, suffix bounds, incumbent | depth-first visit, prune, accept | the result is optimal, with the promised tie-break |
| Plaintext search | `src/optimization.cpp` | the same in `int64` | `visit` | the same, with its own tie-break |
| Lagrangian grid | `src/lagrangian_relaxation.cpp` | binary-search bounds, set of multipliers | build a grid | multipliers fit the domain, anchors kept, size bounded |
| OFF runtime and C API | `src/c_api.cpp`, `src/runtime.cpp`, `include/soci/soci.hpp` | open key, sealed key files, last error, mutex | key lifecycle, two-call output protocol | statuses belong to their call, files and memory agree |
| Masked arithmetic | `threshold_protocol.cpp`, `c_api.cpp` | the masks of one request | multiply, compare, sign, divide | unmasked result equals the plaintext one |
| Secure operations | `src/secure_ops.cpp` | none | max, min, abs, bit operations | composites compute what they name |
| Enclave core | `trusted/common/enclave_core.c` | role, mode, key | the ecalls | a key is of its role and mode, a refused call changes nothing |
| Key provisioning | `threshold_protocol.cpp`, `services/` | three key files | provision, load | shares of one generation |
| Batch encryption | `threshold_protocol.cpp` | shared index, first exception | worker threads | every item encrypted or the exception rethrown |
| Scalable optimizers | `src/*scalable_optimizer.cpp` | population, elite | selection, repair | feasible and never worse |
| Bindings, benchmarks, examples, scripts, containers, the Python TEE baseline | | | | not modelled |

**Interactions.**  A search owns one `PredicateEngine` per solve and calls it
synchronously at every node.  The engine asks the caller's authorizer, consumes
the identity and calls either the resolver or the fused backend.  The fused
backend sends F and G over the client's socket.  The CSP is one thread which
serves one connection until an exception and then accepts the next.  Nothing is
persisted by the protocol: the replay set and the pending transcript are memory
of the CSP process.  Threads of an application share a C API runtime, its mutex
and its error text; its sealed keys are files.

**Hard behaviours.**  Connections that break or are abandoned between F and G;
a restart of the CSP; peers that send frames in an order the library never
would; two clients queued behind one thread; threads racing in one engine;
ties, strictness and admissibility of bounds; machine limits in the grid; wrap
and borrow in masked arithmetic; status and error text read after the lock is
gone; crashes and failures inside a key save.
`PROJECT.json` lists each hazard at its line with the properties that cover it.

## 2. Plan

Written, in this order: the fused predicate protocol and its abstract
specification; the predicate engine, shown to implement the same abstract
specification; the exact searches; the Lagrangian grid; the circuits that the
fused predicate evaluates; the masked arithmetic below the secure operations;
the C API's output protocol; the key store; the composition of grid, numeric
domain and search; the two genetic searches, one shown to implement the other;
the enclaves, the pool of encryption workers, and the service that provisions
keys and composes both.

Open, in this order:

1. Proofs: the rank of the encrypted genetic search agrees with the order of the
   plaintext one, the first part of `FollowsPlaintext`.
2. `KeyStore` with two runtimes on one directory, whose temporary files have
   the same name.
3. A search on top of a connection, for the solve that loses its result when
   the counters are fetched.

## 3. Modules and code

`map` in `PROJECT.json` names the lines behind every definition.

**`FusedSession`** composes the
client, the CSP and the connections between them.

- A client is one `ThresholdProtocolClient`: `Connect`/`GiveUp` are its
  constructor, `CallFused` a call of the fused backend up to the F request
  (`FusedFails` an exception before it is sent, when the engine has consumed the
  identity already), `ReceiveOT` and `SendFinish` the rest up to the G request (`GarbleFails` an
  exception in between), `ReceiveLast` the end of any call, `CallFails` the
  exception of an I/O call, `CallOther` every other request and the shutdown Q,
  `Close` the destructor, `Crash` the end of the process.  `BeginSolve` is a new
  `PredicateEngine` with an empty replay set.  As in the code, an exception
  leaves the socket open and the object usable.
- The CSP is `runThresholdCsp`: `Accept`; one action per outcome of F
  (`StartWhilePending`, `StartReplayed`, `StartFails`, `StartFused`) and of G
  (`FinishRejected`, `FinishFused`); `ServeOther`; `Shutdown`
  (`ShutdownFails` when its reply cannot be sent, after which the CSP lives on);
  `Reject`, the catch clause, is part of every action that ends in an exception.  `pending` and `replays` are
  `pending_fused` and `fused_replays`; `verdicts` and `pending.owner` are
  history.
- The network: one request and one reply in flight per connection
  (`wire::request` waits for its reply), `LoseReply`, `NetworkBreaks`,
  `EndOfStream`; the listen backlog is bounded by `Backlog`.
- A raw peer sends any frame at any time, which is how the handlers are reached
  in orders that the library never produces.

**`SingleUse`** is the abstract specification of both replay sets: an identity
is fresh, open, decided or burnt, is opened at most once and decided at most
once; only a restart forgets.  `FusedSession` and `PredicateEngine` instantiate
it with `status` replaced by what their state says of an identity.

**`PredicateEngine`** is `pruneNode` and `acceptCandidate`: `Call` is the
validation, `Compute` the comparisons of the unfused path, `Authorize` the
caller's callback, `Consume` the insertion under the mutex, `Resolve` the
resolver or the fused backend, each a step in which other threads run.

**`PredicateCircuit`** is one run of F and G on symbolic labels: the circuits of
`predicateCircuit`, their garbling, the transfer of labels, the evaluation by
the CSP, and beside them the unfused computation on encrypted bits.  A label is
a random string, with or without the global offset, so that exclusive-or of
labels keeps what is in an odd number of them; a row opened with a wrong pad is garbage,
which is no label.

**`BranchBound`** is the plaintext `Solver`, `EncryptedBranchAndBoundSolver`
with both bounds, and `optimize_encrypted`, which enumerates all assignments
and selects under encryption; sums over rows are `SumOver` of **`FiniteSums`**.
The recursion is a stack of nodes, each carrying
the accumulators the code passes down; `VisitLeaf`, `VisitInner`, `VisitPlain`
and `VisitEnumerated` are the bodies of `dfs`, `visit` and the enumeration,
`PredicateFails` the exception of a predicate.  `Verify` is what `optimize` does
with the plaintext result: totals and the ratio test under encryption, and a
division digit by digit (`Digit`, `SecureQuotient`).

**`LagrangianGrid`** is `buildLagrangianGrid`: `Start` and `Bisect` are
`maximumMu`, `OnlyZero` and `Fill` choose the multipliers, `Trim` is the
trimming loop.

**`EncryptedSolve`** composes the two as `EncryptedBranchAndBoundSolver::solve`
does, with the numeric domain that `ThresholdSecureOps` accepted
(`DomainAccepted`).  The grid is built first, from public numbers only
(`BuildGrid`), the costs enter when it is finished (`BeginSearch`), and the
search multiplies and compares numbers made of both.

**`GeneticTask`** holds what the two genetic searches have in common: the task
and the numbers that either of them draws.  **`ScalableOptimizer`** is the
plaintext search: `Seed`, `Breed`, `Replace`, `KeepElite` and `Finish` are the
stages of its loop, `Prepare` the repair, `Order` the comparison.  The penalty
fitness of infeasible individuals and the ratio by which a repair chooses its
move are long doubles in the code: every operation on them rounds to `Precision`
significant bits (`Nearest`, ties to even).  What the generator draws for an
individual is chosen and recorded in `draws`: methods of a random seed, positions
of the two tournaments, the rows that cross over, the methods of a mutation.
`Child` is the function of the code from these to the genes, the method after
the drawn one included where the row has the drawn one already.  **`Pega`** is the
encrypted genetic search (`confidential_scalable_optimizer.cpp`): genes are
one-hot, choices are sums under masks, repair makes a fixed number of rounds
(`RepairRound`: one masked scan proposes a move, a second one installs it), the
elite is an insertion network, and an individual memoises its feasibility and
fitness.  It records the same `draws`.  **`PegaRefinement`** instantiates
`ScalableOptimizer` twice: as `Reference`, for its operators, and as `Plain`,
under the refinement mapping that decodes the genes and sorts where the plaintext
search sorts in place.  The recorded draws are mapped as they are, but for
tournament positions: the plaintext search draws in the sorted population, so that a
position becomes the one to which sorting moves its individual.

**`MaskedArithmetic`** is one call of a secure operation at a time, as messages:
`MaskComparison`, `ServeComparison`, `ReceiveBit` are `greaterThan`, request C
and the end of `greaterThan`; `MaskProduct`, `ServeProduct`, `ReceiveProduct`
the same for `secureMultiply` and M; a selection is a comparison followed by a
multiplication.  A ciphertext is its plaintext modulo `N`.  With `Packed` it is
the threshold protocol, without it the OFF backend of `c_api.cpp`, which has
the absolute value too.

**`OutputCall`** is `run`, `output`, `bout` and the wrapper `Runtime::bytes`
for several threads.  The work under the mutex is one step; the catch handlers
and the conversion of the error text into a status are steps of their own,
because the lock is gone by then.  `alone` and `told` are history: that no other
thread took a step since a call began, and the sizes such a call was told.

**`KeyStore`** is the four key calls with `save_off_key` and `load_off_key`:
open, write, rename (each may fail, the first two unnoticed), and a crash
between any two.  `before` is history: the id a call was given, and the files
and the open key as it found them.  A delete drops the open key of its name
before it removes the file, and one that fails ends as `undeleted`.

**`EncryptBatch`** is `paillierEncryptBatch`: `Spawn` and `Join` are the caller,
`Claim` the `fetch_add`, `Encrypt` and `Throw` the work on one element, `Catch`
the handler under `failure_mutex`, `EncryptAlone` and `ThrowAlone` the
sequential path, `SpawnFails` a thread that cannot be created.  `Release` ends
the call, and with it the stack that the workers use.

**`EnclaveCore`** is the static state of the three enclaves.  `Initialize`,
`Generate` (both key generations with their failures), `LoadSealedKey` and
`Close` give the replies and states that are possible, `PartialDecrypt` and
`Combine` the decryptions; `EnclaveNext` makes the calls in any order, as a
test program may.  `ecall_load_sealed_key` can also refuse a blob behind
`clear_key`, when it is authentic but does not parse; blobs are the ones an
enclave sealed here, which parse, so that this refusal is left out.  A key stands for the generation of primes it comes from, so
that shares of different generations are told apart.

**`ThresholdService`** extends both with the programs of
`soci_threshold_runtime`.  `ProvisionKeys`, `TruncateFile`, `WriteFile` and
`ProvisionCrash` are `provisionThresholdKeys` with the way a stream truncates
and may silently write nothing; `CspStart`, `CspLoadShare`, `CspLoadModulus` and
`CpStart`, `CpLoadShare`, `CpConnect` are the two loaders, in the orders the
constructors have; `Shutdown`, `CspCrash`, `CpStop` end a process.  A call of
the client (`Call`, `Send`) encrypts its operands through `EncryptBatch`, the
server answers (`Disclose`, `Compute`, `ReplyBatch`) or throws (`Reject`).
`complete` and `clean` are history: the last provisioning ran to its end, and a
process loaded a complete directory while nothing was written to it.

**Composition.**  `BranchBound` uses the predicates' meaning; `PredicateCircuit`
shows that both ways of evaluating a predicate have that meaning;
`MaskedArithmetic` justifies reading ciphertexts as their plaintexts in both, and
`EncryptedSolve` and `Pega` show that the numbers compared keep to the sizes this
assumes; `PredicateEngine` stands above `FusedSession`, which contains the
engine's replay set (`engine`) as one variable per client, and both refine
`SingleUse`; `ThresholdService` puts the enclaves and the worker pool under the
requests that `FusedSession` calls `Other`.

## 4. Runs, bounds and what they show

| Run | Bounds | Shows |
|---|---|---|
| `fused` | one library client and one raw peer; 2 operations, 2 bindings, 2 solves; 3 calls, 3 raw frames, 1 restart, backlog 1; fairness | transcript ownership, single decision, no resumption, refinement of `SingleUse`, replies pair, G finds its transcript, calls end, whatever frames arrive |
| `fused_reuse` | one client, two solves with one session id | finding, see 8 |
| `engine` | 2 threads, 2 identities, 2 calls each, fairness | denials burn nothing, refinement of `SingleUse`, approved identities get to the resolver |
| `solve` | four searches; all matrices of 2 rows with costs 0, 1, 3 (1, 2 and gaps in the first), of 3 rows with costs 1 and 2; two thresholds; grids for all combinations of small domains, thresholds and configurations, three of them followed by a search; `MaxInt` 31, 8 operand bits, 4 quotient bits; fairness | bracketing, support, anchors and size of the grid; operands fit; accumulators exact, bounds admissible, incumbent best of everything settled, enumeration finds the same cost, a right result is not refuted, termination |
| `grid_size` | `MaxInt` 31, one domain | finding, see 8 |
| `circuit` | at most 3 lower bounds, comparisons of 0 and 1, repeating patterns of orientations and last bits | labels encode values, decision equals meaning, fused and unfused agree |
| `masked` | `N` = 1025, masks 8 to 15, packing base 32, operands -3 to 3 | comparisons decide, factors arrive, results exact, for every mask |
| `output` | 2 threads, sizes 1 to 4, 3 attempts | results are the call's own; an undisturbed call throws only when it failed or the result outgrew each of its buffers |
| `output_race` | as `output` | finding, see 8 |
| `keys` | 2 names, 3 keygens, any number of crashes and failures | what is saved opens; failures change nothing, except that a failed delete has dropped the open key of its name |
| `scalable` | 28 matrices of 2 and 3 rows with missing, equal and free methods; thresholds 1, 2 and 4 of 5; long doubles of 4 bits; tournament, crossover and mutation one at a time; `compareBits` below, at and above what the validation accepts | genes one-hot, sums exact, operands fit, every step is the step of the plaintext search on the same draws |
| `service` | 2 keys, both modes, a pool of 2 threads, three single requests and a batch of 3; any number of crashes, restarts and failures; fairness | keys belong to their enclave, a pool encrypts all or throws, undisturbed processes never answer wrongly, refusals change nothing, calls return |

Why the bounds suffice.  In `FusedSession` what can go wrong needs one
transcript left pending, one more connection to meet it and one identity used
twice; two connections, two operations and three frames give that with one to
spare, and the theorems of section 6 remove the bounds from most of the
properties.  A binding distinguishes "same identity, other context", for which
two values are enough.  `Backlog` 1 lets a connection wait behind the one being
served.  In `BranchBound` a tie broken wrongly needs two equal leaves in
different subtrees, one of them pruned at an inner node: three rows give inner
nodes above the last row.  The grid's rounding and its machine limit interact
only near `MaxInt`, which the small values reach; one searched grid has its
multipliers limited by the domain, the others do not.  Masks in `masked` keep
the order relations of the code's (2^127 to 2^128, base 2^130), which is all the
theorem assumes.  In `scalable` the repair, the masks and the elite act on pairs
of individuals and rows; a population of three sorts one past the elite, and a
second generation breeds from a population that was bred.  The scale is odd, and
long doubles have 4 significant bits where the code's have 64, so that
quotients and penalties of small numbers do round, to even, and ranks and
ratios meet ties that the exact numbers do not have.  They are multiples of
2^-8, which is finer than the last bit of any number of that run.  The penalty
multiplier, a `double`, is a whole number.  Matrices of three rows run with 1 or 3
repair rounds only.  Of the 105 tasks that `Comparable` does not exclude for
their rounds or a free method 3, 103 round faithfully.  The validation of
`compareBits` is exercised on both sides of its limit.  In `service` a mixture of
keys needs two generations and a crash between two files; a pool goes wrong with
two workers and one element more than they hold.  Other bounds (`MaxCalls`,
`MaxFrames`, `MaxSolves`, `MaxRestarts`, `MaxKeys`, `MaxGeneration`) only make
the state space finite; they stand in guards of the actions they count.

`CHECK_DEADLOCK FALSE` is set where the system may really stop: a search, a grid
or a circuit that is done, clients that used up their calls, a pool that
terminated its process.  `MaskedArithmetic`, `OutputCall` and `KeyStore` are
checked for deadlock.

Each property of a passing run has a mutant of the code (`mutants` in
`PROJECT.json`) that violates it, defined before the definition it alters.

## 5. Fairness

- `FusedSession`: weak fairness of the CSP's `Accept` and of serving a frame
  that has arrived (its loop does nothing else), of noticing the end of a
  stream, and of the client thread's own steps.  `Close` is fair for library
  clients, whose destructor closes the socket when the application is done
  with them; raw peers are not obliged to hang up.  The CSP has no receive
  timeout, so a peer that stays connected and silent keeps everybody waiting:
  `CallsEnd` promises the end of a call unless a raw peer holds the CSP forever.
- `PredicateEngine`: weak fairness of each thread's steps inside a call; that
  the authorizer and the resolver return is assumed.  New calls are not forced.
- `EncryptedSolve`: weak fairness of the one thread that builds and searches; no
  predicate has to fail.
- `ThresholdService`: weak fairness of the client's thread inside a call, of the
  server's, and of each thread of a pool.  Nobody has to provision, start, stop
  or call anything.
- The other modules state no liveness; the genetic searches are loops with a
  fixed number of rounds.

## 6. Proofs

All proofs are checked by TLAPS, for all values of the constants that satisfy
the named assumptions: `SessionAssumption` and `FrameAssumption` (peers are of
one kind, counters are naturals, `None` is distinct), `EngineAssumption`
(likewise), `MaskAssumption` (see below), `KeyAssumption` (`None` and `Torn`
are no keys), `BatchAssumption` (at least one thread; a batch is a finite
sequence), `OutputAssumption` (sizes and attempts are positive),
`ProblemAssumption`, `SearchAssumption`, `MatrixAssumption`, `SolveAssumption` and
`PegaAssumption` (the inputs and domains that the validations accept, see below), and
`ServiceAssumption` (a request carries a batch the program can send, and
`Garbage`, the outcome of a decryption under the wrong key, is no plaintext).
Nothing else is assumed.

- **`FusedSessionProofs`.**  `TypeCorrect`.  `PendingBelongsToServed` and
  `DecidedAtMostOnce` need each other and the types: `TranscriptOwned` alone is
  not inductive, because a decision is only known to be the first when the
  pending identity is known to have no verdict, which in turn holds only while
  consumed identities are never opened again.  The inductive invariant is
  `TranscriptInv == TypeOK /\ TranscriptOwned /\ DecidedOnce`; the lemmas split
  `Next` into steps that leave the CSP's memory alone, steps that discard the
  transcript (every way a connection ends) and the handlers.
  `DiscardedNeverResumed` proves the action property step by step from the
  types.  `CspImplementsSingleUse` maps every step to a step of `SingleUse` or
  a stutter, under `TranscriptInv`.  `RepliesPair` and
  `FinishAlwaysFindsTranscript` need an account of the frames in flight, `WireInv`:
  a library client has at most one frame on the wire, a request or its reply,
  and it is of the kind its thread waits for; while its G request is in flight on
  the connection that served its F request, the transcript pending at the CSP is
  its own.  That the two ends of a link agree on who is connected is part of it.
- **`PredicateProofs`**, on the engine.  `TypeCorrect`; `DenialsBurnNothing` from
  `ApprovedInv` (a thread about to consume holds an approved call);
  `EngineImplementsSingleUse` from `EngineInv` = types and `Owned`: an identity
  being resolved is consumed, unrevealed, and resolved by one thread only.
- **`MaskedArithmeticProofs`.**  `ComparisonsDecide`, `FactorsAlwaysArrive`,
  `ResultsExact` and `TypeCorrect`, from one invariant: the operands are those
  of the call (`OperandsFollow`), the number in flight lies on the side of half
  that the operands determine (`QuestionDecides`), and the product returned is
  that of the masked factors modulo `N` (`ReplyIsMasked`).  The lemmas below it
  are arithmetic: uniqueness of remainders (`Division`, `Unique`), reading back
  a signed number (`PlainUnwraps`), the shift around half (`Shifted`,
  `MaskedDecides`), packing (`PackingRoundTrip`) and the removal of the masks
  (`MasksCancel`).  `MaskAssumption` says that operands are small against the
  masks, masks against the packing base, and products against the modulus; the
  sizes in the code (2^127, 2^128, 2^130 and a modulus of 2048 bits or more)
  satisfy it for operands below 2^126; `NumbersFit` and `PegaFits` show that what
  the searches compare keeps to its declared bits.  It covers
  the OFF backend (`Packed` false) as well, which has no run of its own.
- **`RuntimeProofs`**, on the key store.  `TypeCorrect`; `FailuresChangeNothing` from
  `Untouched` (inside a save, files and open key are as the call found them); of
  a delete that fails it says that the files are, and the open key exactly if it
  has another name;
  `SavedKeysAlwaysOpen` from `Named` (a file's key bears the file's name) and
  `Written` (the temporary file about to be renamed holds the new key).
- **`RuntimeProofs`**, on the output protocol.  `ResultIsOwn` from `OwnInv`: what a thread has copied,
  or is about to copy, was produced by its own call.  `NoEarlyGivingUp`, from
  `AloneInv`: while no other thread disturbs a call, the error text is its own,
  it has been told one size per call that was refused, the last of which is that
  of its buffer, and each is larger than the one before (`RisingGrows`), because a result that
  fits the buffer is not refused.  A call that gives up has therefore used every
  attempt on results that kept growing.  How many sizes a result may have is not
  limited: a ciphertext is encrypted anew in every call, and its encoding may have any
  length up to that of the squared modulus.
- **`ThresholdServiceProofs`.**  `KeysAlwaysBelong`, `ServiceBatchesSafe`,
  `CleanAnswersRight` and `RefusedCallsChangeNothing`.  `AnswersRight` speaks of
  the moment of an answer and is far from inductive.  `ServiceInv` says which
  generation stands behind each file, enclave, process, share and message:
  the enclaves hold keys of their role and mode (`EnclavesInv`); a provisioning
  writes files of one generation, in order (`TaskInv`); a directory that is
  complete holds one generation, and a clean process loaded its share and its
  modulus from such a directory (`DirectoryInv`, `ProcessInv`); each stage of a
  call carries what the stage before left, under the client's modulus
  (`CallInv`); and the pool is in `BatchInvariant`.
  The pool comes first: `BatchIsSafe`, for every number of threads, batch
  and pattern of exceptions.  `BatchSafe` alone is not inductive: that a pool
  which returns has encrypted everything follows from an account of every
  index.  `BatchInvariant` says that what a worker holds is claimed, not done and
  its own (`Held`), that nothing above the counter is done (`Unclaimed`), that
  until something fails every claimed index is done or held (`Accounted`), and
  that workers only leave when nothing is left to claim (`Staffed`); `Join` puts
  the last two together.  The lemmas are stated for any batch and modulus, so
  that the service can cite them for the pools of both its processes.
- **`PredicateProofs`**, on the circuits.  `LabelsAlwaysEncode`, `CircuitDecidesMeaning`
  and `BothPathsAgree`, from `ProblemAssumption`: what the engine validates of
  its inputs (a pruning has a bound or more), and one orientation per
  comparison.  Nothing is assumed of the random strings.  The circuit is
  `WellFormed`: every gate reads lower wires.  `Zero` and `Value` recur on wires,
  so that there is exactly one function that satisfies each (`RecursionExists`,
  by the smallest wire for which it fails, and `ZeroUnique`, `ValueUnique`).
  `FoldMeaning` and `AcceptMeaning` compute the value of the output wire.  The
  invariant `CircuitInv` says that the tables are those of the circuit and that
  the labels known so far encode values; the step of a linear gate is parity
  (`OddDiffers`: what is in one of two sets only is odd in number exactly when
  one of the two is), that of an AND gate `RowOpens`: the last bits of the
  labels for 0 and 1 differ, so the pair of them names one row, and its pad is
  the right one.  On the other path the disjunction of a layer is that of the
  layer below (`LayerShape`), and `TreeIs` shows the closed form of `OrTree` by
  the shortest layer for which it would fail.
- **`SumsAndPowers`** is what the searches need to know of `SumOver`, of powers of
  two and of folds: the empty and the extended set, additivity over disjoint
  parts, linearity, comparison term by term; that a fold of a sequence is the
  value of the function whose steps it takes.  `SumOver` is a fold, and what a
  fold computes is settled by induction over finite sets.  The library's
  induction theorems take an operator and cannot be cited; instead each lemma
  considers the subsets of a finite set for which it would fail and takes a
  smallest of them.  That 2^n doubles with n is not built into the provers:
  `PowerNext` derives it from the number of subsets of n elements.
- **`EncryptedSolveProofs`.**  The module assumes `SearchAssumption`, `MatrixAssumption`
  (what `solve` validates: costs are not negative and no row is without a
  method; the digits of the encrypted division, 21 in the code, cover the scale
  of 10^6) and `SolveAssumption` (domains and configurations are those the
  constructors accept; a search is made on its domain's scale).  `AccumulatorsAreSums`: a node is `Exact` when what it
  carries are sums over the rows of its path; `ChildExact` extends them by one
  row.  `BoundsAreAdmissible`: a completion splits the rows into those of the
  node and those below it, the node's sums are exact and each row below costs at
  least its minimum; for a Lagrangian bound, a feasible assignment has a
  non-negative linear term, and the grid promises that no multiplier is
  negative.  `SearchFindsOptimum` and `EnumerationIsOptimal` rest on `Sound`:
  the nodes to visit are exact and in lexicographic order (`Before`), so that
  their completions are disjoint; the incumbent is an exact solution that lies
  before all of them; and it is the best of what is settled.  The order is what
  makes ties come out right, since a bound equal to the incumbent does not
  prune.  A pruned node takes with it only completions that are infeasible or
  strictly dearer.  `GridSearchBrackets` and `GridIsSound` are about the first
  half of a request: `Supported` is monotone, because the coefficient bound and
  `CeilLog2` are, and `GridInv` keeps the bracket, the values at or below `low`,
  the anchors that were added, and the size.
  `NumbersFit` joins the two halves.  `FitInv` keeps what was validated when the
  search began: costs within the declared bits, and a grid whose coefficients
  have the bits it was checked for (`Fitting`, which outlives the builder's
  arguments).  Every contribution is at most `CostCap * Scale` and every score at
  most `CostCap` times its `Weight`; a node and the rows below it have no more
  terms than the matrix has rows (`NodeSumWithin`); and bits add up where values
  are multiplied (`BitsSuffice`); `CeilCovers` shows that a count of doublings
  reaches the value.
  `VerificationAgrees` needs that the digits of `SecureQuotient` make the integer
  quotient (`DigitKeeps`, `QuotientIsDivision`), which holds because a feasible
  result has a ratio below one and the digits cover the scale.
- **`PegaProofs`.**  `PegaTypes`, `PegaSums` and `PegaFits`, from `PegaAssumption`:
  a scale of at most 64 bits, costs within the bits their caller declares, and a
  domain that the constructor of `ThresholdSecureOps` accepts.  `SumsExact` alone
  is not inductive: a selection between two individuals is right only if every
  gene is one-hot and every mask a bit, and a repair only if the row terms it
  replaces are those of the genes.  `Sound` says all of it at once: an individual
  is the one (`Exact`) of some assignment, with its row terms or without them, and
  with its own memo or none; the invariant `IInv` is that population, next
  population and best are made of such individuals.  Each operator of the search
  is shown to keep them: a comparison of sound individuals is a bit
  (`BetterIsBit`), a selection under a bit is one of the two (`ChooseIsOne`), a step
  of a repair gives the individual of the assignment with one method changed
  (`InstallIsExact`), a mutated row has one of its methods (`MutatedRow`), and the
  insertion network only passes individuals along (`InsertIsElite`).  The scans and
  tournaments are folds; `FoldValue` says that a fold whose steps stay in a set
  ends in it.  `PegaFits` bounds the sums by the number of rows (`TotalBounds`),
  splits a fitness into four numbers of at most a quarter of the range each
  (`FitnessBound`), and bounds the products of a repair (`ProductsFit`).

## 7. Model-checked only

`CallsEnd`, `ApprovedIsResolved`, `SolveEnds` and `CallsReturn` are liveness,
which the prover does not reach.  `FollowsPlaintext`, the refinement of
`ScalableOptimizer` by `Pega` on the same recorded draws where the two are
`Comparable`, rests on what sorting and the recursive repair `Lift` compute,
which takes an induction over data; it stays with TLC.  Every
other property of the passing runs is a theorem.

## 8. Findings

- `fused_reuse`: a second solve with a session id used before is refused by the
  CSP, whose replay set outlives the solve, although the authorizer, to which
  the header leaves the decision, allowed it.
- `grid_size`: with two anchors and a request of two points the trim loop stops
  with three (`lagrangian_relaxation.cpp:194`).
- `output_race`: a sizing call may be answered with `SOCI_INVALID_STATE`,
  because its status is read out of the shared error text after the lock is
  released (`c_api.cpp:10`).  Outputs themselves are never mixed up
  (`OutputIsOwn`).

Not findings, because no document says otherwise, but visible in the models:

- `save_off_key` does not look at its stream, so that after a failed write
  (`silent` in `KeyStore`) a torn file replaces the key and the call returns
  `SOCI_OK`; `SavedKeysOpen` holds only without such failures, while
  `FailedCallsChangeNothing` holds with them.
- Nothing compares the modulus in `public.bin` with the shares.  A provisioning
  that dies behind `public.bin`, or files read while they are written, can leave
  a client with the modulus of one key and shares of another, and a server that
  answers it with a wrong number; `AnswersRight` is about processes that loaded
  a complete directory undisturbed, of whatever generation.  `public.bin` may
  also be left empty by a full disk without any error; that only fails calls.
- `ecall_decrypt` looks at the presence of a key and not at the role, so that an
  enclave with one share answers it with `OK` and a meaningless number.
- A worker thread that cannot be created while others run ends the process
  (`SpawnFails`): the handles of the others are destroyed while joinable.
- `optimize_encrypted` keeps an assignment of ratio one when method 3 is free of
  cost, which the other searches refuse, and resolves ties by order of visit;
  `EnumerationFindsOptimum` is about positive costs.
- The encrypted genetic search returns an infeasible best individual where the
  plaintext one throws; `FollowsPlaintext` maps the one to the other.  With a
  free method 3 the two repairs differ, and with fewer rounds than the default
  the encrypted one stops early: `Comparable` excludes both.
- The plaintext genetic search ranks infeasible individuals and the moves of a
  repair by rounded long doubles (`scalable_optimizer.cpp:57-59`, `100`), the
  encrypted one by exact integers.  Where rounding makes two different numbers
  equal or exchanges them, which takes numbers of more than 64 bits or very close
  quotients, the two searches may part: `Comparable` asks for tasks
  where it does not (`RoundsFaithfully`), and without that condition
  `FollowsPlaintext` fails in the `scalable` run.
- A `soci_delete_key` that fails, for want of the file or in `remove`, has already
  dropped the open key of that name; `FailedCallsChangeNothing` says so.

## 9. Not modelled

Number theory (Paillier, oblivious transfer on its group, key generation) and
byte layout: ciphertexts are plaintexts, labels are symbols, frames are their
kind and context.  What the masks conceal: no property here is about it.
`threshold_optimizer.cpp` joins parts that are modelled and subtracts counters.
Operation counts and their extrapolation, statistics, the parsing of decimals,
of CSV input and of the number of threads, and the ecalls that only read are
left out.  Ciphertexts that an application keeps from an earlier key are outside
`ThresholdService`, and a client that dies inside a call is in `FusedSession`
only.  Bindings, benchmarks, examples, scripts, containers and the Python TEE
baseline hold no logic of the system.  Several threads on one
`ThresholdProtocolClient`, several runtimes on one key directory, and the result
of a solve that is lost when the counters are fetched are outside the models;
all three are listed among the hazards.
