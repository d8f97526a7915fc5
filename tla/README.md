# A verification of cpa-plugin-zen

This directory holds TLA+ modules for the Zen plugin of CLIProxyAPI: models of
how a request finds its way (router, interceptor, session mapping), of the
free-tier session pool, the failover loop and the paid fallback, of the streams
that carry the answers, and of the plugin's life under its host; TLC
configurations that check them on small instances, and proofs that TLAPS checks
for every value of the constants. `PROJECT.json` ties every definition to the
lines it models, every property to a run and a mutant, and every theorem to a
property.

## The system

| Component | State | Operations | What makes it correct |
|---|---|---|---|
| Session pool (`free.go`) | `sessions` (id, fails, cooldown), cursor `rr`, under one mutex | `pick`, `assign`, `sessionUsable`, `report` | an unusable session is never handed out; a fruitless scan looks at all; penalties stand |
| Pool file (`free.go`, `scripts/mint_sessions.py`) | `path`, `path.tmp` | `loadSessionPool`, `saveLocked`, the script's `load`/`save` | always parses; keeps every saved verdict over restarts |
| Egress members (`free.go`) | cooldown per member, under a mutex of their own | `order`, `cool`, `clientFor` | cooled members rest; every healthy one is in the order once |
| Failover loop (`free.go`) | local: lists, positions, attempts, breaker | `freeSessions`, `freeCall`, `freeAttempt` | bounded, no pair tried twice, gives up only for a reason, always ends |
| Executor, paid fallback (`executor.go`, `free.go`, `pool.go`) | local | `Execute`, `ExecuteStream`, `call`, `executeFree(Stream)`, `paidFallback` | pays only with leave, once, and for something the client gets |
| SSE conversion (`free.go`) | `responsesConverter` | `convertLine`, the assemblers, `chunkCompletion` | nothing lost, doubled or reordered |
| Stream delivery (`free.go`, `cmd/zen/abi.go`) | channels of 8, goroutines | `forwardChatSSE`, `convertResponsesSSE`, `streamWithPaidFallback`, `pumpABIStream` | everything arrives in order, then one close; nobody blocks for ever |
| Interceptor, session mapping (`plugin.go`, `session.go`) | the request's headers | `interceptSession` (twice per request), `mapSessionHeaders`, `stickyDownstreamID` | one identity per request, none when the headers conflict; a conversation stays on its session |
| Lifecycle over the C ABI (`cmd/zen/abi.go`) | `abiState` (host, plugin) | init, register, reconfigure, call, shutdown | no call into a host that has gone; the newest configuration serves |
| Router, configuration, model catalogue, SystemOne mapping, translator | tables built once | look-ups and formatting | stateless |

The host sends each call to the instance that is current at that moment: the
router claims the model, the interceptor runs before and after credential
selection, the executor serves; a reconfigure or a shutdown may come between any
two of them. The interceptor stamps a pool session on a request; the executor, on another
goroutine and later, checks the stamp again or picks sessions round-robin, draws
an order of the members and tries the pairs. Every outcome is reported to the
pool, which rewrites its file under its mutex. When the loop ends without an
answer, or with an empty one, the paid keys may be asked. A streamed answer runs
through up to three goroutines (producer, relay, pump) on two bounded channels,
and leaves through callbacks into a host that may be shut down. The requests share the
pool and the member cooldowns, the instances (one for each register or
reconfigure) share the pool file, and the minting script shares it too.

What is hard here: requests interleave between any two picks and reports; what a
request decided at its start (stamp, list, order) is stale later; saves can fail
or be cut by a crash, and several writers use one temporary name; the fallback
is reached from five places; the choice to pay depends on what a conversion
made of a body; headers are read in the random order of a Go map, by two scans
that differ; chunks pass from goroutine to goroutine, and nobody tells a
goroutine that its reader has gone. `PROJECT.json` lists each of these at its line ("hazards").

## Modules

* **SessionPool**: health records and the pure part of `pick`, `report` and the
  test of usability, as operators over a pool that is passed in. A scan is
  stated relationally: `FirstUsable(pool, from, t, s)` holds of the first usable
  session from a position, or of "none".
* **FreeCall**: the failover loop, for any set of concurrent requests. One step
  is one critical section (a pick, a report, the order, the cooling of a member)
  or one exchange with the upstream; `pc` says between which of these a request
  is, `sess`, `ord`, `mi`, `si`, `attempts` and `consec` are the locals of
  `freeSessions` and `freeCall`, and `tried` is a history of the pairs attempted.
  The stamp and the answers are arbitrary. A malformed request is one whose body
  `freeAttempt` cannot build: all its attempts fail without a call.
* **FreeContract**: what the loop promises its caller, without pool, cursor,
  clock or lists: bounded calls, fresh pairs, one final verdict, giving up only
  when the budget is used or the breaker's number of calls is reached or a full
  grid was tried. FreeCall refines it (`KeepsContract`).
* **Sharing**: FreeCall with a history variable, `waiting`: for each request that
  collects sessions, those that have been usable all the while and that no pick
  has given to anyone. It restricts nothing, and the run `free_call` checks all
  that is said of FreeCall on it.
* **PoolFile**: the file, by inodes: two names, what each inode holds, and which
  writer has which one open. A session is fresh or burned. `Register` and
  `Report` are the plugin's, `MintStart` and `MintOne` the script's; `Open`,
  `Write`, `Rename` are `os.WriteFile` and `os.Rename` taken apart, `SaveFails`
  an error at any of them, `Crash` the death of a process (of the power, nothing
  is said: there is no fsync). `Overlap` says whether a writer may start while
  another is at work.
* **Executor**: one request, its cost and its result: the loop over the paid
  keys with its five reasons to be entered, the verdict of the free tier taken
  from FreeContract's three, and the conversions reduced to what the choice to
  pay depends on. A body is one of a few kinds: what the free tier sends has
  text, tool calls, only an end, or nothing; a paid 2xx is a chat completion in
  JSON or SSE with something to say, one that is hollow (choices, but no content,
  as `config.go:191` has it of thinking models), or nothing a converter can read.
* **SessionHeaders**: the two scans of `session.go` and `plugin.go` as operators.
  A header is a sequence of spellings, each with its values; `Scan` is
  `sessionHeaderValue` for one order of them and `HeaderValue` the set of its
  answers over all orders. `Agreed` is the reference: what a header says whatever
  the order. `Mapped` is `mapSessionHeaders`, `Downstream` is `stickyDownstreamID`.
* **Gateway**: one request after another from `Arrive` over `Route`, `Before` and
  `After` (the interceptor's passes) to `Execute`, over SessionPool and
  SessionHeaders. `plugin` is `abiState.plugin`; `RegisterBuild` and
  `RegisterStore` are the two halves of `handleRegister`, so registrations may
  overlap; `OtherReports` is every other request's effect on the pool. A request
  comes through the Go API or the C ABI, where `VisiblyFree` is false because the
  decoded projection carries no model, and a large envelope is `Refused`.
  `routed` and `bound` are histories.
* **Converter**: what bodies become: `convertLine` folded over the lines of a
  responses body, `forwardChatSSE`, both assemblers, and `chunkCompletion` with
  its cut every `Cut` bytes. Text is the position of its line, so that what is
  lost, doubled or moved can be told; a paid text is the widths of its
  characters in bytes.
* **Stream**: producer, relay (`streamWithPaidFallback`) and pump (or the loop
  that collects the chunks when the host asks for no stream), on channels of
  `Cap` chunks. `PumpReads` and `PumpEmits`/`PumpCloses` are the two halves of
  `callHost`: the pointer is read under the lock, the call is made without it.
  `Shutdown` and `PluginInit` may come between them.
* **Delivery**: what a stream promises: one answer, each chunk once and in order,
  a clean end only behind the last. Stream refines it (`Delivers`).
* **FreeCallProofs** (for FreeCall and Sharing), **PoolFileProofs**, **ExecutorProofs**, **GatewayProofs**,
  **StreamProofs**: the theorems. **SessionPoolProofs**: the lemmas about a scan
  of the ring that two of them use. **FoldProofs**: what the folds of the
  community modules are, step by step. **ConverterProofs**: what a client reads
  from the chunks of a body or of a paid answer.
* **MCFreeCall** (all of Sharing), **MCPoolFile**, **MCGateway**, **MCStream**:
  constants for TLC.

Each module also has a few operators marked "a deliberate fault": the mutants
that show every property can fail.

## Runs

| Run | Question | Bounds |
|---|---|---|
| `free_call` | do two concurrent requests keep budget, place and contract, leave unusable sessions alone and no usable one behind, and does each get an outcome? | 2 sessions, fresh at first, 2 members, 2 requests, one malformed, lists of 2, 3 attempts, breaker at 2, 2 failures kill, one tick of the clock |
| `pool_file` | is the file whole and up to date through failures and crashes? | one instance and one script in turn, 3 sessions, any initial file or none |
| `executor` | who pays, how often, for what? | all kinds of request and configuration, up to 3 keys |
| `gateway` | do headers give one identity in every order, do conversations stay on their sessions, and has what is hijacked somewhere to go, whatever the pool and the plugin do meanwhile? | 2 turns, 2 sources, headers of up to two spellings or values, 3 identities, 3 sessions, 2 failures kill, one reconfigure, shutdowns, one tick |
| `stream` | does every chunk arrive once, in order and of one tier, does it say what was meant, and does every stream end? | channels of one chunk, all bodies of up to two lines and those of up to five that matter, pieces of two bytes, 2 shutdowns |
| `penalty`, `three_sessions`, `malformed`, `pool_overlap`, `fallback_marked`, `fallback_delivered`, `stamped` | statements of the repository that the code breaks (below) | the smallest instance that shows it |

Why these bounds are enough to be interesting: two sessions and two members give
a grid of four pairs against three attempts, so each limit (attempts, breaker,
grid) is the one that ends some behaviour; the second request can take, fail
or kill any session between any two steps of the first, and the first also burn
or revive one; a session cools at its first failure and is dead at its second;
a list of one with the other session still to come, or taken by the other
request, is what `NobodyIsPassedOver` tells apart. Cooldowns of one and two ticks against one tick of the
clock leave one kind expired and the other not. The theorems below remove these
bounds. In `pool_file` one session is reported on while another keeps its health
and a third is minted. With three keys each loop over the keys has a first, a
middle and a last one.

In `gateway` one identity's place is the last of three sessions, so its
probe wraps round; two sources are the fewest for a closed one before a good one
(a request of that kind has no header of its own, and the host offers it an
identity, so that only the closed source keeps it without one);
two turns are needed for a conversation to be bound twice; the second
registration and the shutdowns fall between any two calls. In `stream` a channel
of one chunk makes every goroutine wait for the next (the theorems hold for any
capacity); bodies of five lines hold two tool calls whose arguments interleave;
with pieces of two bytes characters of one, two and three bytes lie at, before
and across a cut.

Deadlock is not checked: a request that has returned, or a writer that has
nothing to report, has nothing more to do, and so has a stream that is closed or
whose reader is gone.

Fairness. `FreeCall!Spec`, and with it `Sharing!WSpec`, is weakly fair to each request's `Step`: Go schedules
every runnable goroutine, no step waits for another request (critical sections
are atomic steps), and each exchange ends because the clients of `freePool` time
out after 20 s (`free.go:327`) and the host's client is assumed to end. Requests
never have to arrive. `ctx` is `context.Background()` on the ABI path, so
`ctx.Err()` is nil throughout. `Stream!Spec` is weakly fair to each
of its three goroutines (Go schedules what can run; a send waits for room, a
receive for a chunk or a close) and assumes that calls to the paid keys and into
the host return (for a key with a proxy of its own this is an assumption about
the upstream, as that client has no timeout, `pool.go:118`); no shutdown and no
new host ever has to come. `Gateway`, `Executor` and `PoolFile` state no
fairness: their properties are safety. That a call to the executor returns is
not among them: it is a loop over a finite list.

## What the runs show of the code

* `penalty` (`PenaltyNeverShortened`): `report` overwrites the end of a
  cooldown, and the loop goes on with a burned session through the next member:
  a session parked for 6 hours by a 403 is back after 300 s.
* `three_sessions` (`AtMostThreeSessions`): the comment of `freeSessions` says
  "At most 3 sessions per request"; `sessionCoverage` is 6.
* `malformed` (`MalformedBlamesNobody`): a body that cannot be built counts as a
  transport failure of the session and the member.
* `pool_overlap` (`RestartsKeepBurned`): two instances share `path.tmp`; a
  session that was saved as burned is fresh after the next restart.
* `fallback_marked` (`PaidAnswerIsMarked`): an answer of the paid fallback
  without `X-Zen-Fallback`, after an empty answer and out of `freeCall`.
* `fallback_delivered` (`PaidAnswerIsDelivered`): a paid answer in SSE that the
  client never sees. The model also shows that a chat completion in JSON that
  the fallback inside `freeCall` got reads as an empty SSE answer, so that a
  second paid call is made: `PaidBudget` allows two for that reason.
* `stamped` (`FreeRequestIsStamped`): behind the C ABI no request is stamped,
  because `interceptProjection` has neither `Model` nor `RequestedModel`;
  through the Go API, which the unit test uses, all are
  (`DirectRequestIsStamped`).

Some passing properties say exactly where the code stops being right:

* `ResponsesArrive`: the client gets the message that was meant *unless* the
  upstream sends its text both as deltas and as a whole; then it gets it twice.
* `ChatArrives`: stream and completion of one chat body have the same text
  *unless* a line carries `data:` twice, which only the completion strips.
* `PaidArrives`: the text of a paid answer arrives *exactly if* no character lies
  across a cut of 500 bytes; one that does becomes replacement characters.
* `GoroutinesEnd`: when the reader has gone, the goroutines behind it end *if*
  what is left fits in the last channel; otherwise they block for ever.
* `FailoverHidesEmptiness`: with failover on an empty answer is never the free
  tier's, but it can be the paid tier's: what a paid key answers is passed on
  unread, and a stream gets no chunk at all from a body without choices or in SSE.
* `ReplacedOnlyIfUnread`: an answer that says something is replaced, and paid for,
  only if it is one of three kinds its conversion does not read: tool calls in a
  chat completion, and the fallback's own answer out of `freeCall`, in JSON
  anywhere or in SSE where the events of responses are expected.
* `UnusableIsLeftAlone`: an unusable session is taken up by nobody, but those who
  carry it already still try it, and their reports count.
* `HijackedHasPath` is about a request that one instance claims and serves: with
  a reconfigure in between, a free model of a tier that is now off is sent down
  the paid path.

## What is proved

`FreeCallProofs`, for every number of sessions, members and requests and all
limits, from the assumptions `SessionPoolAssumption` and `FreeCallAssumption`
(positive limits, finitely many members):

* `TypeCorrect`, `BudgetKept`, `GiveUpJustified`: `[]TypeOK`, `[]Budget`,
  `[]GivesUpOnlyWhenSpent`;
* `UnusableLeftAlone`: the action property `UnusableIsLeftAlone`;
* `AnonymousJustified`: the action property `AnonymousOnlyWithoutSessions`. A
  request that still collects lists sessions only (`CollectsSessions`), so a list
  that becomes the anonymous one was empty, and the pick that ended it met
  nothing; that a pick of `NumSessions` steps comes by every session, wherever
  the cursor is, is `ScanCoversRing` in SessionPoolProofs;
* `NobodyPassedOver`: the action property `NobodyIsPassedOver` of Sharing. The
  invariant (`SharingInv`, `CursorIsFair`) is about the cursor that all requests
  share: going up the ring from any session on a request's list, it has not yet
  come to any session that waits for that request (`Before`). A pick passes over
  no usable session (`PickPasses`), whoever makes it, so it keeps that order or
  returns the session that waits (`PickStaysBefore`); a pick that ends a list
  early met one of the list's own sessions, and would have had to pass what waits.
* `Refinement`: `Spec => KeepsContract`.

None of the safety properties is inductive: that a request never tries a pair
twice depends on where its loops are. `LoopInv`, proved in `Invariance`, says
that a pair has been tried exactly if the loops have passed it (or are at it,
and waiting), that neither list repeats anything (which is what the `seen` map
is for, since other requests move the cursor), and that the counters agree with
the history. It is checked by TLC in `free_call` too. The proof of each action
goes through the part of the invariant it can disturb; the other requests are
one lemma (`OthersUnaffected`), because no action touches two requests' locals.

`PoolFileProofs`, for any sets of instances, scripts and sessions, from
`PoolFileAssumption` and `~Overlap`, the hypothesis of each theorem (without
it `pool_overlap` shows a saved verdict lost):

* `AlwaysWhole`, `VerdictsKept`, `IdleIsSaved`: `[]PathAlwaysWhole`,
  `[]FileKeepsVerdicts`, `[]SavedWhenIdle`.

What holds of the path after a rename depends on what was written to the
temporary file, and that on the writer's memory, which may be ahead of the path
after a save that failed. `SoloInv` relates the three: at most one writer is at
work (`OneWriter`), an open temporary file is never the file at the path
(`FilesApart`), a writer between two steps of a save has in its hands what it
should (`SaveInv`), and outside its unsaved reports a memory is the path
(`CleanIsKept`).

`ExecutorProofs`, for any number of paid keys, from `ExecutorAssumption`:

* `NothingPaidUnasked`, `FreeIsFree`, `PaidBudgetKept`: `[]PaysOnlyWithLeave`,
  `[]FreeContentIsFree`, `[]PaidBudget`.

The budget is not inductive because a loop over the keys may be followed by
another one: `SpendInv` says what may have been asked and billed at each place,
given why the running or last loop was entered (`WhyInv`, `CostInv`), and that a
body at hand was paid for only if it is the fallback's (`BodyInv`).

`EmptinessHidden` and `UnreadReplaced` are `[]FailoverHidesEmptiness` and
`[]ReplacedOnlyIfUnread`, whatever a paid key answers, hollow and unreadable bodies
included. `SpendInv` itself and `TypeOK` are proved there too, as are `TypeOK` and
`SoloInv` in PoolFileProofs and `LoopInv` in FreeCallProofs. TLC checks all of
these invariants in the runs as well.

`GatewayProofs`, for any identities, headers, requests and configurations, any
size of the pool and any number of turns and registrations:

* `PathGiven`: `[]HijackedHasPath`, from `GatewayAssumption` alone. `PathInv` says
  that instances have numbers of their own and that the one that claimed the
  model is never built again, so that an equal number means an equal
  configuration.
* `ConversationStays`: `StaysPut`. `StayInv` keeps of the last binding that its
  session was the first usable one from the conversation's place; two scans from
  one place, the second over fewer sessions, agree (`FirstStaysFirst`).
* `StampGiven`: `DirectRequestIsStamped`.
* `FailedClosed`, `IdentityKept`, `OneConversation`: `FailClosed`, `OneIdentity`,
  `IdentitiesAgree`. `IdentityInv` says what `X-Opencode-Session` can be at each
  point: nothing before the first pass, and after it only what the first source
  says, since the host's identity comes with the second.
* `TypeCorrect`: `[]TypeOK`.

* `OrderIrrelevant`: `[]ScanOrderIrrelevant`, which is also what the theorems on
  identities rest on. A scan is a fold over the spellings and over the values of
  each; what it has after the first `k` is a verdict on the *set* of values among
  them (`ReadAs`), and a set has no order. `HeadersAssumption` (headers are
  sequences of spellings, each a sequence of values) is all it needs.

`FoldProofs`, for sequences of any length. A fold of the community modules is
the value a recursive function has, chosen from those that satisfy its equation.
The lemmas show that there is one (`Ladder`: a function from `0 .. n` that starts
at the base and takes one step at a time; `UpTo` is induction as a least
counterexample) and that a fold over the numbers `1 .. n` (`FoldClimbs`) and
`FlattenSeq` (`FlattenLadder`) are the top of such a ladder. What a fold computes is then an invariant of the ladder.

`ConverterProofs`, for bodies of any length over all kinds of lines, paid texts
of any length and pieces of any size:

* `ChatReads`, `ResponsesReads`: a client that puts the chunks together has the
  text of the completion, or the message that was meant, exactly with the
  exception the property names. The invariant of the fold: the items added so far
  are the first mentions of calls up to the line (`ResponsesLadder`, `ItemsNext`),
  so a call has the number of its first mention and arguments go to that number
  (`CallOf`, `ResponsesArgs`).
* `PaidReads`: `IsBytes` locates the bytes of each character; a slice between two
  cuts reads as a run of characters when all of them are whole (`SliceReads`),
  the runs of all slices join when no character lies across a cut (`CleanReads`),
  and one that does leaves a replacement character behind (`UncleanReads`).

`StreamProofs`, for all jobs, capacities and numbers of shutdowns, from
`StreamAssumption` (what a job consists of; a character has one to four bytes)
and `CutAssumption`:

* `PipelineKeepsOrder`: `[]PipeInv`. `OrderInv` says that what the host has,
  followed by what the pump holds, the second channel, the relay's hand, the first
  channel and what the producer has left, is always the answer; it needs
  `PlacesInv`, which says what is empty when (a channel closes behind its last
  chunk, the relay asks the paid keys only when nothing has gone past it).
* `StreamImplementsDelivery`: `Spec => Delivers`, each step of the pump a step of
  Delivery or a stutter, and all others stutters.
* `LateCallsBounded`: `[]AtMostOneLateCall`; a late call needs a pointer that was
  read before the shutdown, and the pump reads it anew for each call.
* `ChatReadsTheSame`, `ResponsesReadAsMeant`, `PaidReadsIfCutClean`:
  `[]ChatArrives`, `[]ResponsesArrive`, `[]PaidArrives`. A stream that ended clean
  has delivered the answer (`PipeInv`), the answer is what the converter made of
  the job (`SourceInv`), and the lemmas above say how that reads.
* `TypeCorrect`: `[]TypeOK`.

Only model-checked: liveness (`EveryRequestEnds`, `EveryStreamEnds`,
`GoroutinesEnd`), which the prover cannot treat under
fairness. Every invariant and every action property of the passing runs is a
theorem.

## Not modelled

Formatting of bodies and ids, the usage figures and the text of errors; the
`X-Opencode-Client` header; a request without any header map; YAML, the defaults
and the tables of upstream names and default questions in the configuration; the
difference between the model a client asks for, the one the host has rewritten
and the one in the body; the model catalogue and the translator, which are
static; `CountTokens` and `HttpRequest`, which keep no state; the marshalling at
the C boundary, except what its projection drops and the size it refuses;
weights (any order of the members may be drawn); two sessions with one id in the
file; the time between a member's struct being copied and its client being built;
concurrent reads of a file that is being replaced (a read is one step); loss of
power.

Gateway: the pool keeps its size over registrations (a place is a position modulo
the size); failure counts of other requests are followed to the limit only.
Stream: chunks with an error (`chunk.Err`) are never produced by this code, and
the context is never done, so neither branch is modelled; a call into a host that
is gone is counted and may do anything but deliver.

## Order of the work, and what is left

The modules were written in the order FreeCall, PoolFile, Executor (who may use
which session, and who pays), then Gateway (how a request gets there), then
Stream (how its answer gets back). What is left:

1. FreeCall: a history of answers, to say what "three straight failures" means
   when a 403 comes between.
2. Composition: FreeCall under a host that shuts down, whose failing callbacks
   are reported as failures of sessions; Gateway's stamp as FreeCall's `stamp`.
3. The index tables of the configuration against a last-entry-wins reference.
