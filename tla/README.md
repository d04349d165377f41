# A verification of pool-oprf-rs in TLA+

pool-oprf-rs is an oblivious PRF from the Pool construction, a verifiable
variant of it (VOPRF) and a private set intersection (PSI) on top. This
directory models its protocol, its arithmetic and its circuits, checks them
with TLC on small instances and proves the most important results with TLAPS
for every value of the parameters.

## The system

| Part | State | Operations | Talks to |
|---|---|---|---|
| **pool-prf** (`params`, `modular`, `round`, `prf`, `hash`) | none | modular arithmetic, rounding, the PRF in the clear | everything uses it |
| **pool-eval** | none | the server's equations: `r_sigma_sum`, `a_sigma_sum`, `respond` | pool-oprf's server and the provers use the same ones |
| **preprocessing** (`pool-oprf/src/preprocessing.rs`, `voprf.rs`, `delta_ot.rs`; `packing.rs` for what is sent) | per side: the OT results, `uid`, the run budget `Runs` (`tau`, `ctr`), commitments | `preproc_client`, `preproc_server` | each other over a control stream, two sub-connections for OTs, up to three streams of a VOPRF |
| **online steps** (`online.rs`) | `FinalizeState` between request and response | `request_batch`, `blind_eval`, `finalize_batch` | pure functions on the states, run in `spawn_blocking` |
| **session** (`client.rs`, `server.rs`, `channel.rs`) | `Arc<Mutex<state>>`, two streams | `evaluate`, `evaluate_batch`, `serve_next`, `serve`, `renew` | requests one way, responses the other |
| **pool-psi** | announced size, masked set, batches | `PsiClient::new`, `intersect`; `PsiServer::session`, `serve_masked` | its own two messages and an OPRF session |
| **pool-psi-cli** | a semaphore of `max_sessions` permits; a key file and a pk file that its commands share | `serve`, `lookup`, `keygen`, `public_key` | one task per connection under a timeout |
| **pool-voprf** | public values and a table of field elements | three statements: setup, preprocessing, online; prove and verify | pool-oprf's VOPRF mode |

What is hard here. Every call is async, so its future can be dropped at each
await, while a blocking task it spawned goes on and takes runs of the shared
budget. Requests, responses and streams carry no sequence numbers of their own:
a response is matched by `uid`, row count and `ctr`, a stream by the order it was
opened in, and the number of PSI requests is derived and never sent. Preprocessing
and renewal end at different moments on the two sides. The arithmetic splits one
rounding between two parties with masks that must cancel, and the circuits state
it again as equations in a field. The secrets of a run come out of OTs that both
sides round up, cut into chunks, hash and expand on their own: an index that is off
on one side spoils the outputs, and one that is off on both sides spoils only their
secrecy. A VOPRF client trusts nothing but statements that it puts together itself
from messages of two phases. The commands of the CLI share files, and each can be
killed half way. `PROJECT.json` lists the hazards line by line.

What makes each part correct. *Session*: a call that returns outputs returns the
PRF of its own inputs; the server spends no run twice; a request that was paid for
is not refused for lack of runs; without failures both sides stay in step; a call
returns. *Arithmetic*: blinded evaluation equals evaluation in the clear, without
overflow. *Preprocessing*: a ready client has a peer that finished with the same
parameters; mismatches are reported as such; both ends end, but for a renewal that one side gave up
before it opened its streams. *PSI*: exactly the
intersection, in both modes, for all batch shapes. *Serve*: permits are conserved.
*Circuits*: accepted tables satisfy the statement, honest tables are accepted.
*OTs and masks*: both sides hold the same block at the choice and at no other, and no
byte of a mask serves two runs. *Packing*: what is read is what was sent. *VOPRF*:
what a client accepts is the PRF under the key it knows, whoever answers; the server
of this code is always accepted. *Key files*: a key in use is one that `keygen`
sampled.

## The modules

| Module | Models | Notes |
|---|---|---|
| `OprfService` | what `OprfClient` promises its caller | abstract: call, pay, return the PRF of this call's inputs or fail |
| `OprfSession` | one connection: client, server, both streams, renewals | implements `OprfService` |
| `OprfSessionProofs` | theorems about `OprfSession` | |
| `Sums` | sums over coordinates, numbers as bits | operators |
| `PoolArith` | `params.rs`, `modular.rs`, `round.rs` | operators, extends `Sums` |
| `PoolEval` | `pool-eval/src/lib.rs` and the PRF in the clear | operators, extends `PoolArith` |
| `PoolRow`, `MCRow` | one base run, one step per coordinate of each loop | |
| `PoolRowProofs` | theorems about `PoolRow` | |
| `Renewal` | what a preprocessing promises the sessions that call it | abstract: both sides' results and the server's last message |
| `Preproc` | one preprocessing, with the VOPRF's messages | implements `Renewal` |
| `PreprocProofs` | theorems about `Preproc` | |
| `Psi` | one set intersection | takes the OPRF as `OprfSession` shows it to be |
| `PsiProofs` | theorems about `Psi` and `PsiServe` | |
| `PsiServe` | the accept loop of `serve` | |
| `DeltaOt` | `delta_ot.rs` | operators, extends `PoolArith` |
| `Packing` | `packing.rs` | operators |
| `Material` | what both sides make of the OTs, `hash.rs`, one evaluation of `online.rs` | operators, extends `PoolEval` and `DeltaOt` |
| `MaterialProofs` | lemmas on these operators, up to one evaluation | the theorems on evaluations, VOPRF and circuits rest on them |
| `Evaluation`, `MCEvaluation` | preprocessing and evaluations with their data | composes `Material` and `Packing` |
| `EvaluationProofs` | theorems about `Evaluation` | |
| `Statements` | `pool-voprf/src/statements/` and `constraints/`, the commitments | operators, extends `Material` |
| `KeyFiles` | `keygen`, `public-key` and the loading of their files | extends `Statements` |
| `Voprf`, `MCVoprf` | a VOPRF from the files to its outputs, with any server | composes `KeyFiles`, `Statements`, `Material` |
| `VoprfProofs` | theorems about `Voprf` and `KeyFiles` | |
| `CircuitArith` | what the circuits share: field, bits, packed key, commitments | extends `PoolEval` |
| `OnlineCircuit`, `MCOnline` | the online statement's circuit | |
| `PreprocCircuit`, `MCPreprocCircuit` | the preprocessing statement's circuit | |
| `CircuitProofs` | theorems about both circuits | |

### OprfSession

`cpc` is where the client's current call is: `requesting` (the blocking task of
`request_batch` is spawned), `sending`, `awaiting` (in `exchange`), `finalizing`,
`renewing`. `spc` is the same for `serve_next` and `renew`. `cctr`/`ctau` and
`sctr`/`stau` are the `Runs` of each side, by session. `CancelEvaluate` and
`CancelServe` drop the future at any await; a spawned task then moves to `cdet` or
`sdet` and runs later, at any time (`RunDetachedRequest`, `RunDetachedBlindEval`).
`ProveFails` is the `?` of `prove_online` in the middle of a batch.
`ResumeOnError` tells a driver that calls `serve_next` again after an error, which
the API allows, from one that drops the session, as `serve` does.

Masks are abstract: a response row unblinds to the PRF exactly when the server took
the run that the client masked the row with. `PoolRow` is the arithmetic behind
that. `Output` is the call whose inputs an accepted response holds the PRF of, or
`Garbage`; the counters decide, and not the model. `issued`, `log` and `clean` are
history variables.

A renewal is the preprocessing of module `Preproc` cut down to what the session
sees of it: the sizes agree or both sides get `TauMismatch`; the server is done when
its last message has left, the client when that has arrived; either may fail or be
cancelled in between, and then only one of them has the new session. `Renewal` states
this as a specification of its own, which `Preproc` is shown to implement; the steps of
`OprfSession` for its k-th renewal (`RenewExchange` to `ClientRenewFails`) are those of
`Renewal`, with the two mismatches in one step.

### PoolRow

The preprocessed values (`sk`, `b`, `r`, `b_prime`, `pads`) and the hashed row `a`
are arbitrary. The loops of `request_evaluation`, `r_sigma_sum`, `a_sigma_sum` and
`inner_product` advance one coordinate a step. Accumulators are kept as functions of
the number of terms so that an invariant can relate loops of different sides.

### Preproc

Streams are counted as they are opened; `StreamsInStep` says that the counts agree
at the end. OTs are joint steps of both sides. A commitment is the number of the
evaluation it is to, so a swapped or missing one is seen where the code compares
digests. `ClientClosed` and `ServerClosed` are what a side sees of a peer that
stopped, once it has read what arrived before. Which closes it sees depends on who owns
the `Connection`. `OprfClient::new` and `OprfServer::session` drop it when preprocessing
fails (`kept` is FALSE): everything closes. `renew` on both sides keeps it (`kept` is
TRUE): only the streams that the failed side had opened close. So the model counts, besides the
control stream and those of a VOPRF, the batches of OTs whose streams each side has
opened (`OpenClientOt`, `OpenServerOt`), and a side can be dropped while it opens its
first stream. A client or server that asked for no runs returns before it opens any.
`BothEnd` says what follows: both sides end, except that in a renewal a side may be left
waiting for a stream that a peer that gave up never opened (`ClientStranded`,
`ServerStranded`). No code ends that wait; it is the caller who has to drop `renew`, as
with a renewal that the other side never starts. `send(..).await` ends when the message
has left, so a server can be dropped there with its last message on its way
(`ServerCancelledLate`): the client then has a state that the server never returned.

`ImplementsRenewal` maps this to `Renewal`: the exchange is the second batch of OTs, the
last message is b_hat, or the proof in a VOPRF (`LastSent`), and what a side returns is
read off its error (`Result`). Everything else is a stutter.

### Psi and PsiServe

`Psi` has separate size limits for the two builds, since a size is checked on both
sides. `Lose` cuts short what a closed side had sent. `PsiServe` tells the session
that owns a preprocessed state (`state`) from the blocking task that holds a
reference to it (`task`).

### Evaluation, with DeltaOt, Material and Packing

`OprfSession` decides when a request, a response and a counter meet; `Evaluation` says
what is in them. Its messages are in step, and everything is computed: the binary OTs
(`BinaryOts`) and 1-out-of-DELTA OTs (`DeltaOts`) rounded up to `BASE_OT_COUNT`, the
chunks, the choices from their bits, the masked key (`SendBhat`), then for each call
the hashed matrix, the masks cut from the XOF at the position of the run, the packed
rows, the response and the unblinded output. `client`, `server`, `fin` and `rows` are
the code's `ClientState`, `ServerState`, `FinalizeState` and rows. `Foreign` is a peer
of another build: it sends vectors of another length, or a byte more or less, and
`RefuseRequest` is the error of `deserialize`. Bytes after the last element are not
read, as in the code.

A block of an OT is a name, since random blocks differ; a block that is a hash is the
record of what was hashed. BLAKE3's output (`Xof`) and a block's leading bytes
(`Lead`) are constants, arbitrary functions; `MCEvaluation` gives a mixing function, so
that masks and pads of different runs differ. `MasksFresh` and `TagsSeparate` are about
positions and hashed bytes and hold whatever these functions are. A byte has
`ByteBits` bits, fewer than 8 in the run, such that three elements of `LOG_Q` bits cross
two boundaries and leave padding.

### Statements, KeyFiles and Voprf

`Statements` has one operator for each constraint's `holds`, each statement's `honest`
and `holds_for`, and for `prove` and `verify`. A commitment is the record of what it
hides (it binds), a proof is the statement it was made for; `prove` gives none when
`holds_for` is false. What Plonky3's tables admit is the circuits' question.

`KeyFiles` is the disk: `path` leads to a file, a file is named by the `keygen` that
created it, and `write_all` may take several writes (`WriteKey`). `KillKeygen` and
`KillPublicKey` end a command between any two steps; `RemoveKey` is the operator who
makes room after a failed `keygen`; `public-key` reads the key, and later empties the pk
file and writes it. `removed` remembers that a *whole* key was removed: after that a
pk file of the old key and a server of the new one are legal, and the client refuses
that server.

`Voprf` goes on from the files with a client of this code. `honest` is the server of
this code, with the key that `serve` loaded. Otherwise the server is anyone: it sends
other commitments to pads, another masked key, sums that are swapped, changed or
missing, proofs of what it has a witness for under either key, responses and openings
of the other evaluation, other counters, or no proof. It knows all blocks of the
1-out-of-DELTA OTs and one block of each binary OT, so it is limited to witnesses that
the code's own witness operators give from those, with the listed changes. After
`Connect` no command reads a file again and the files leave the state.

### The circuits

A circuit is a scan of its table: `CheckOnlineRow` and `CheckPreprocRow` accept a row if
*some* assignment of the prover's columns satisfies all rules of the row. `OnlineSound`
and `PreprocSound` quantify over all such provers; `OnlineHonestAccepted` and
`PreprocHonestAccepted` check the columns that `SumAir::row`, `ResponseAir::entries` and
`SumOfMasksAir::rows` fill in. As in the code, that table and the periodic columns find the
evaluation of a row with the same function (`evaluation`), so an error in it shows only in the
statement that is proved (`PreprocSound`), and the block of a row each on their own
(`repeated_block`, `block`). What both circuits share (the committed key, the openings
of the m, the row reached) is declared in `CircuitArith`. A column that
rules force to be a bit, and that is only read packed, is part of a number. Digests
stand for what they open to (`Opening`): the commitments are assumed to bind.

## The runs

| Run | Instance | Shows |
|---|---|---|
| `session` | 3 calls of 0 to 3 evaluations, batches of at most 2, budgets of 1 or 2 evaluations of 2 runs, 1 renewal a side, drivers go on after errors | `OutputsRight`, `RunsSpentOnce`, `ServerNeverExhausted`, `InStep`, and that the client implements `OprfService` |
| `session_voprf` | VOPRF, 2 calls, up to 3 evaluations, 1 renewal a side | `RunsSpentOnce` and `ServerNeverExhausted` with proofs that fail in the middle of a batch; `InStep` with the client's check of the proofs |
| `session_live` | VOPRF, 3 calls, a server that stops at its first error | `EvaluateReturns` |
| `row` | N = 2, p = 4, DELTA = 4, `ZqAccumMax` = (N+1)(q-1) | the protocol computes the PRF; sums fit |
| `preproc` | up to 5 runs a side, 2 runs an evaluation | agreement, reported mismatches, streams in step, both sides end unless a renewal is given up before its streams open, and that preprocessing implements `Renewal` |
| `psi` | sets of up to 6 from 2 elements, batches of 3 (OPRF) and 2 (VOPRF), limits 5/4 and 1/2 | the intersection is right; the derived request counts agree; both sides end |
| `evaluation` | N = 3, p = 2, DELTA = 4, 2 evaluations of 2 runs, `BASE_OT_COUNT` = 5, bytes of 4 bits; every key, 4 outcomes of the binary and 8 of the 1-out-of-DELTA OTs, tags and inputs that are prefixes of one another | OTs match at the choice only, masks are fresh, requests arrive, outputs are the PRF, tags are separate |
| `voprf` | N = 2, p = 2, DELTA = 4, 2 evaluations of 2 runs, 2 `keygen`s with different keys, 2 outcomes of each kind of OT | accepted outputs are right whoever answers, the server of the code is accepted, keys in use are whole |
| `serve` | 4 connections, 2 permits | permits are conserved, sessions end |
| `serve_memory` | the same | **violated**, see below |
| `online` | N = 2, p = 2, DELTA = 4, prime 37, 2 runs | soundness and completeness of the online rules |
| `preproc_circuit` | N = 3, q = 4, prime 17, 3 evaluations in 16 rows of which 3 of 4 hold blocks | soundness and completeness of the preprocessing rules |

Why the bounds are enough for the cases to happen. Three calls are a cancelled one,
one that meets its leftovers and one after it; one renewal gives two sessions and
every one-sided outcome; a budget of 2 evaluations is exhausted by one full batch;
batches of 0 and of `MaxBatch` + 1 are asked for too. In `row` the masks, inputs and
the offset cover 0, q - 1, ties (remainder 2 of 4) and both wraps. `preproc` has
numbers of runs below, at and above one and two evaluations. The `psi` bounds give a
partial last batch in both modes (3 + 1 and 2 + 1), a last batch that is full (2 + 2)
and a refusal by each limit. The circuit primes
are the smallest above `SUM_BOUND`, so a rule that needed one more bit would fail.
In `evaluation` both batches of OTs are padded (3 to 5, and 8 to 10), the outcomes of
the 1-out-of-DELTA OTs include every choice at every run and choices that are and are
not palindromes of bits, and two evaluations are the least in which a second one can
reuse the masks, pads or sums of a first. The same holds for `voprf`, where the client
meets swapped sums, pads and proofs of the other evaluation; two `keygen`s are the least
that can overlap, and a key of two bytes the least that can be half written. In the
circuits N is below `N_TABLE_ROWS` and three evaluations do not fill a power of two, so padding
rows of both kinds exist. Each named bound is a CONSTANT marked `bound:`.

Deadlock checking is off in every run: each of these systems ends (calls and renewals
are bounded, an intersection ends, a table has a last row, a session runs out of runs).

### Fairness

`OprfSession`: blocking tasks of the calls in progress run, futures that are ready are
polled, the driver loops on `serve_next` and drops the session after an error. No
fairness on calls, cancellation, closing, renewal or detached tasks. `Preproc` and
`Psi`: the steps that the runtime takes by itself; nobody has to give up, be
cancelled or lose a message. A close is seen only where the code makes one: in `Preproc` of
the streams that were open, or of all when the connection is dropped; in `Psi`, whose
roles own their connection, of all. `PsiServe`: only that the timer around each session
fires (`tokio::time::timeout`); no client has to make progress and no blocking task
has to end.

### Finding

`serve_memory` checks what the CLI's README says of `--max-sessions` (memory is
bounded by the sessions, each of which holds its preprocessing until it ends) and the
comment on `OprfSession` (the runs live exactly as long as the session). TLC finds the
order in which it fails: a session is timed out while `blind_eval` runs in
`spawn_blocking`; the permit is back, a new session is accepted and preprocesses, and
the task still holds the old `ServerState`. The excess lasts as long as one
`blind_eval`, which in a VOPRF includes its proofs.

## The proofs

TLC has checked each inductive invariant below on the instance of its run before it was
proved. Every theorem holds for all values of the constants that satisfy the
assumptions declared with them.

**`OprfSessionProofs`** (any `H_ROWS`, batch limit, number of calls and renewals, both
modes, both kinds of driver):

- `SessionType`: the type invariant.
- `SessionInvariant`: `IInv`. `OutputsRight` is not inductive: it needs that a
  response whose first run is the request's own was computed *from* that request.
  The server takes requests in order, but a detached `blind_eval` may run late, so its
  counter is not simply the first run of the request it serves. `IInv` says that
  requests own disjoint intervals of runs in the order of the calls (`IssuedInv`),
  that streams keep that order (`StreamInv`), that a request is evaluated at most once
  (`ServeInv`, `LogInv`), and that the server's counter is the *cardinality* of the
  client's runs it has served (`CountInv`). All of these lie below the first run of
  the request being served, so the counter never passes it (`NotAhead`), and a
  response for an earlier call has `ctr` below the current call's first run, which
  `finalize_batch` rejects.
- `SessionOutputsRight`, `SessionRunsSpentOnce`: the two properties, from `IInv`.
- `SessionBudgets`: both sides that know a session have the same runs in it, budgets and
  counters are whole evaluations, and a renewal in progress is for what both asked.
- `SessionNeverExhausted`: from `NotAhead` and equal budgets. The client paid for the
  request out of its budget, and the server's counter is at most the request's first run.
- `SessionInStep`: `CleanInv` follows one request through its whole way (`TravelInv`)
  and says what the server's counter and budget then are (`PaceInv`), with refused
  requests and renewals, as long as `clean` holds.
- `SessionImplementsService`: the refinement of `OprfService`, one lemma per step
  that is a step of the service (`ServiceRunRequest`, `ServiceDetached`,
  `ServiceFinalize`, ...); all others stutter. `OutputsRight` and the budgets are what
  the mapping needs of the invariants.

**`PoolRowProofs`** (any N, p, DELTA; any values; assuming that N + 1 elements of Zq fit
`ZqAccum`. The code's parameters satisfy that (483 * 4095 is far below 2^32), but
`params.rs` asserts it of N elements only, so for other parameters `RowAccumulatorsFit` would
first need the stronger assertion):

- `RowType`: every operand is in the range that the assertions of `modular.rs` and
  `round.rs` demand.
- `RowInvariant`: the recurrences that each finished loop satisfies, the bound
  k(q - 1) on k terms, and `MasksCancel`: after k coordinates, the server's two sums
  equal the inner product plus the client's masks mod q. That is the induction over
  coordinates, done as an invariant of the last loop.
- `RowIsPrf`: the output is the PRF, from `MasksCancel` at N and lemmas on rounding:
  subtracting r mod DELTA before and r div DELTA after the rounding is subtracting r.
- `RowMasksCancel`, `RowAccumulatorsFit`.

**`PreprocProofs`** (any numbers of runs on either side, any runs per evaluation). The
invariant says how far each side can be, given the other: OTs take both on together
(`OtInv`), a hello or an echo is in flight exactly until it is taken and what was said is
what the other side goes by (`HelloInv`), commitments are in flight in order
(`CommitInv`), and who may have failed when (`EndInv`, `CleanInv`). `MismatchReported`
needs all of it: that a server whose echo is still unread cannot have failed for another
reason. `PreprocAgreement`, `PreprocMismatch`, `PreprocStreams`, and `PreprocSucceeds`:
nobody fails who agrees with its peer and is not cancelled. They hold for connections
that are kept and dropped, and need nothing of the streams that close: those only matter to
`BothEnd`. `PreprocImplementsRenewal` is
the refinement: each side's steps are results, failures, mismatches or stutters
(`RenewalClientSteps`, `RenewalServerSteps`, `RenewalOts`). A client that returns must find
`LastSent` true, also when the server was dropped; for this `CommitInv` says that sums
on the stream are always one for each evaluation, of a server that ended or was dropped
at the end.

**`PsiProofs`** (any sets, tags, batch limits and size limits). The server derives the
number of requests and never hears it, so the invariant relates the two sides by one
number, the requests served so far: what the server has left (`SessionInv`), what the
client has left, and how many outputs it has (`BatchInv`) are all functions of it, and
the outputs are those of a prefix of the set (`OutputsInv`). Hence `PsiIntersection`,
`PsiSpent`, `PsiSucceeds`, `PsiType`.

Of `PsiServe` (any number of connections and of permits), in the same module:
`ServePermits` and `ServeType` (`ServeTypeOK`, which no run needs to check), by the
cardinality of the running sessions, and
`ServeOwnedStates`, the part of the README's promise about memory that does hold: the
states that *sessions* own are at most `max_sessions`; the run `serve_memory` shows that
the blocking tasks' are not among them.

**`MaterialProofs`** has no theorem of its own to list; the next three modules rest on it.
Induction theorems with an operator as a parameter cannot be instantiated here, so
induction is done over *sets*: `SetInduction` says that a set of numbers with 0 and with
the successors of its elements is `Nat`. From it come the equations of the recursive
functions `Partial` and `Pow2` (`PartialEquations`, `PowStep`), that a number below a
power of two has the value of its bits and the other way round (`BitsOfNumber`,
`NumberOfBits`), and that two different indices of the 1-out-of-DELTA OT differ in a bit
(`BitsTell`). Then the chunks of the OTs (`WholeChunks`, `DeltaReceived`,
`DeltaSecret`, `DeltaDistinct`), the masks that cancel in a sum (`SumsCong`), `RunRight`
(one run computes one row of the PRF) and `EvaluationOfCall`.

**`EvaluationProofs`** (any N, p, DELTA = 2^LOG_DELTA, widths of elements and bytes, number
of evaluations, tags and inputs of any length, any outcome of the OTs):

- `EvaluationInv`: both states come from one outcome of each batch of OTs, the counters
  follow from the calls, and what travels is what the last call made, or a packing of it
  that another build made.
- `EvaluationCorrect`: `EvaluationRight`, by `EvaluationOfCall`.
- `RequestsRead`: `UnpackPack`, bit by bit, for every length; a vector of another length is
  refused since the numbers of bytes differ (`ForeignRead`).
- `DeltaOtsRight`: `OtsMatch`. `MasksNeverReused`: `MasksFresh`, for every number of calls.
  `TagsNeverMix`: `TagsSeparate`, by the length that the code hashes before the tag.

Assumed of the hashes, in `HashesTyped`: where the code reads them, the XOF yields bytes
and the leading bytes of a block are an unsigned number, as their Rust types say. That
N + 1 elements fit an accumulator is `PoolRow`'s question and not assumed here.

**`VoprfProofs`** (any N, p, DELTA, number of evaluations and of `keygen`s, keys and
outcomes of the OTs; any server that `Voprf` allows):

- `KeysWhole`: `WholeKeys`. A `keygen` writes only its own file and it was empty when
  created, so what is in a file is a prefix of one key (`KeysInv`); a readable file is that
  whole key, and a pk is made only of a readable file (`PkInv`).
- `VoprfVerified`: `VerifiedOutput`. It holds between messages of two phases, so
  the invariant carries what each accepted message fixed. `PadsInv`: the commitments that
  the client accepted (`pads_match`) open to its own pad at the index it chose. `SumsInv`: a
  proof of the preprocessing that verifies is of a statement the client put together
  from its own blocks, so the sums in it are those of the key in pk (`PreprocessingSound`),
  whichever key or witness the server used. `ResponseInv`: a proof of a response is of
  the server's equations for that statement. `VerifiedRow` puts the three together: the
  row that `finalize_row` unblinds is the one `RunRight` computes with that key.
- `VoprfHonest`: `HonestAccepted`. Each check of the client is shown to hold of the
  messages of the code's own server (`MasksAgree`, `PadsAgree`, `PreprocessingComplete`,
  `OnlineComplete`); `SameKeyInv` says that pk and the server's key come from the same
  file unless a whole key was removed.
- `VoprfInv`: the invariant itself.

That a commitment determines what it hides and that a proof is of the statement it was
made for is how `Statements` models them; both are assumptions about Poseidon2 and Plonky3
and are not proved.

**`CircuitProofs`** (any N with N < 2^`N_BITS`, any p, DELTA a power of two, any number of
runs, blocks, rows and evaluations, any prime with q * 2^`N_BITS` below it; every key,
opening, request and table of pads; every prover):

- `OnlineCircuitSound`: `OnlineSound`. The rules are equations mod the prime. In each, the
  ranges that other rules force on the columns bound both sides, and the bounds are closer
  together than the prime, so the equation holds of the numbers (`EvenDelta`,
  `FieldEqual`, `PartialBound`). A number is r + k * q for one r below q only
  (`QuotientRule`), so the a_sigma and t of the table are those of `pool_eval`; the top bit
  and the lower bits of the remainder decide the rounding as `round` does (`UpRounds`);
  the carry can only be the one that brings the entry below p (`Carry`). The key columns
  are the committed key since a packed element stays below the prime and a number has its
  bits (`KeyUnique`).
- `OnlineCircuitHonest`: `OnlineHonestAccepted`, from the same lemmas read the other way
  (`OnlineRowComplete`).
- `PreprocCircuitSound`: `PreprocSound`. A rule that reads the next row ties each sum to
  the one before, and the sum is checked only on the last block, many rows later.
  The strengthening `SumSoFar` says what the prover can have put in the sum column by then:
  after the row of block i, the honest sum of the blocks up to i, which stays below the
  prime (`SumStep`). On the last block the sum is reduced as in `QuotientRule`
  (`LastBlock`).
- `PreprocCircuitHonest`: `PreprocHonestAccepted` (`PreprocRowComplete`), which includes the
  rows after the last block, where `has_next_block` must be off, and after the last
  evaluation. That the table, padded to a power of two, ends at all is `PowerBetween`.
- `OnlineCircuitType`, `PreprocCircuitType`.

The code justifies the assumptions: `N_BITS` is `N.ilog2() + 1`, the prime is above
`SUM_BOUND` by an assertion of `a_sum.rs` and `t_sum_of_masks.rs`, and `BITS_PER_ELEMENT`
is the largest number of bits that fits an element.

Only model-checked: liveness (`EvaluateReturns`, `BothEnd`, `SessionsEnd`), which is out of
the prover's reach, and the violation in `serve_memory`. Every other property that a run
checks is a theorem.

## Not modelled

BLAKE3 and Poseidon2 (what they compute: what is hashed and how the output is cut is in
`Material` and `Statements`), Plonky3, the binary OTs and QUIC (external: modelled by how
the code uses them), secrecy (what a party learns; `OtsMatch` and `MasksFresh` are the
parts of it that are about indices), zeroization, the CLI's set files and certificates
(a file is read once, in one piece, and refused or used), its limits for QUIC, error
wording. A peer that departs from the protocol is modelled in the circuits, in `Voprf`
(the server) and in `Evaluation` (packed vectors); elsewhere both sides run this code.
A dishonest server of `Voprf` is limited to the changes listed above. A panic in a
blocking task, which poisons the mutex, is not modelled. A renewal that one side calls
alone waits for its peer: a caller's obligation, which no code detects. Two `public-key`
commands at the same time: `KeyFiles` has one at a time, next to `keygen`s and readers.

## Plan

Done, in this order: `OprfSession` with `OprfService` and its proofs, `PoolRow` and its
proofs, `Preproc`, `Psi`, `PsiServe`, `CircuitArith` with `OnlineCircuit` and
`PreprocCircuit`; then `PoolEval`, `DeltaOt`, `Packing`, `Material` and `Evaluation`, which
tie the runs of `PoolRow` to the counters of `OprfSession`, and `Statements`, `KeyFiles`
and `Voprf`, which tie the circuits' statements to the two phases of the protocol.

Proved since, in this order: the rest of `OprfSession` with its refinement of
`OprfService`, `PsiServe`, `Preproc`, `Psi`, `Evaluation` on the lemmas of
`MaterialProofs`, `Voprf` with `KeyFiles`, both circuits, and `Preproc`'s refinement of
`Renewal`.
