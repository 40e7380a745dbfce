# Verification of the pi agent

TLA+ models of the stateful core of pi (`src/pi/packages`): the agent loop, the
coding agent's session, the two session storages (SQLite writer leases, JSONL
files), the live sessions of the server, and the way from a stored transcript to a
model request. TLC checks them on small instances; TLAPS proves every safety
property of the loop, the session, the leases and the live sessions, and the JSONL
storage with its refinement, for every value of their parameters. `PROJECT.json`
lists the components, the runs, which definition models
which lines, the hazards and the findings.

Check a model with `tlc -config <run>.cfg <MC module>`, the proofs of a module with
`tlapm <module>Proofs.tla` (two minutes or so each).

## Inventory

The repository is a coding agent compiled into one binary. `src/pi` is the agent,
`src/scriptc` the vendored compiler it is built with (third party, not modelled).
All of the agent is single-threaded JavaScript: code between two awaits is atomic,
and everything else that runs in the process may run at an await. Concurrency is
therefore between asynchronous calls of one process, and between processes that
share files and databases.

| component | state | operations | works with | what is hard | correct if |
|---|---|---|---|---|---|
| Agent and agent loop (`agent/src/agent.ts`, `agent-loop.ts`) | transcript, two message queues, active run and its abort signal, pending tool calls | prompt, continue, steer, followUp, clear, abort, reset; turns, tool batches, events | providers, tools, listeners that are awaited | callers act at every await; parallel tools end in any order; listeners and hooks throw | no message lost or doubled, results follow their calls, an abort ends the run |
| AgentSession (`coding-agent/src/core/agent-session.ts`) | run flag, retry counter, four abort controllers, deferred messages, idle promise | prompt, sendCustomMessage, recordBashResult, compact, navigateTree, abort; post-run retry, compaction, continuation | one Agent, one session file, the front ends | flags read before an await and used after it; retry, overflow recovery and compaction in one sequence; waits that must end | runs are exclusive and settle, nothing deferred is lost, an abort is not lost |
| Compaction and session manager (`compaction.ts`, `session-manager.ts`) | entries of a branch, where each compaction cuts | prepare, summarize, append, rebuild the context | AgentSession | the cut must not separate a call from its result | the rebuilt context can be continued |
| SQLite backend (`session-backends/sqlite-node`) | lease row, log and its sequence; per storage a queue and a heartbeat timer; per repository its open storages | create, open, write, heartbeat, release, delete, repair, close | other processes on the same database | leases expire under a live process; crashes; late heartbeats and writes | writers never interleave, the log is dense |
| JSONL storage (`agent/src/harness/session/state.ts`, `jsonl`) | a file and the state replayed from it, a queue of operations | appending operations, open with repair, fork | file system | crash in mid-append and in mid-repair; failed appends; two users of a file | replay gives what was acknowledged, a fork what it was taken from |
| Harness (`agent/src/harness/agent-harness.ts`) | lanes, operations, snapshots | stubs at this commit | storages, Agent | | |
| Session server (`server`) | live sessions, openings, connections, operations in progress | attach, detach, operations, disconnect, runtime events, close | the service that provides runtimes, clients | detach, disposal, opening, failure and shutdown overlap | one runtime per session, returned once and only when unused, but then eventually |
| Client (`client`) | pending requests, its attachments | requests, reconnects | server | | not modelled |
| Transcript transformation and request (`ai/src/api/transform-messages.ts`, `openai-completions.ts`) | none outside a call | pure functions with mutable locals | providers | orphaned and aborted calls, ids and thinking of other models | every call has exactly one result, nothing else changes |
| Credentials (`auth-storage.ts`) | a locked file | refresh, login, logout | other processes | token refresh by two processes | a refresh is not lost |
| Providers, tools, protocol codec, TUI, modes, telemetry, evals | | I/O, encoding, rendering | | | not modelled (below) |

## Modules

| module | models |
|---|---|
| `AgentLoop` | `Agent` and the loop it runs |
| `AgentLoopProofs` | its types, queues, tool batches and pending calls: theorems |
| `AgentTranscriptProofs` | its transcript and its events: theorems (extends `AgentLoopProofs`) |
| `AgentSession` | `AgentSession` around an abstract agent, compaction, the current branch |
| `AgentSessionProofs` | its runs, compactions and deferred messages: theorems |
| `SessionTranscriptProofs` | its transcript, branch and retries: theorems (extends `AgentSessionProofs`) |
| `SqliteLease` | the lease protocol of the SQLite backend between processes |
| `SqliteLeaseProofs` | its theorems |
| `SessionState` | the state of a harness session as a function of its mutations, the storage operations, forks |
| `JsonlStorage` | one JSONL session file: appends byte by byte, load, repair, fork, crash (extends `SessionState`) |
| `DurableLog` | abstract: what a storage promises; `JsonlStorage` is shown to implement it |
| `JsonlStorageProofs` | the theorems about `JsonlStorage` |
| `LiveSessions` | `LiveSessionManager` and the connections of `PiServer` |
| `LiveSessionsProofs` | its theorems |
| `ModelRequest` | `transformMessages` and `convertMessages` of the OpenAI completions API |
| `ModelRequestProofs` | its theorems |
| `MC...` | model values, symmetry sets and inputs of the runs |

In `AgentLoop` and `AgentSession` an action is the code between two awaits, and
`pc` names the await at which the loop, or a `prompt()` call, is suspended. In
`LiveSessions` it is the same, and each request's `pc` is its await. In `SqliteLease` a transaction (`BEGIN IMMEDIATE` ... `COMMIT`) is one action, since
SQLite serialises them across processes, and so is each event of a storage's queue.

Operators whose comment begins with "Mutant" are plausible mistakes in the
definition that follows them. They are not used by any specification; each shows
that some property would notice the mistake.

### AgentLoop

`Prompt`, `Continue`, `Steer`, `FollowUp`, `ClearAllQueues`, `SetQueueModes`,
`Abort` and `Reset` are the methods of `Agent`. The loop's locals
(`currentContext`, `newMessages`, `pendingMessages`, `firstTurn`,
`hasMoreToolCalls`) are variables. A turn is `EnterTurn`, message injection
(`EmitMessageStart`, `EmitMessageEnd`), `Request`, `StreamStart`, `StreamResult`,
`StreamEnd`, a tool batch, `TurnEnd`, `AfterTurn`, `PrepareNextTurn` and
`StartPreparedTurn`. Each tool call goes through `queued`, `started`, `prepared`,
`running`, `executed`, `ended`; a sequential batch does one call at a time, a
parallel one prepares in order, runs together and records in call order, and the
calls of a reply that was cut off fail without running. `RunFails` is a throw that
reaches `runWithLifecycle`, the `Failure...` actions are `handleRunFailure`, and a
tool that survives the failure of its run is in `detached`.

Abstractions: a user message is a member of `Msg` submitted once, an assistant
message its turn, stop reason and number of calls. Streaming deltas, tool updates
and message contents are left out. A provider replies `aborted` once the signal is
set, as the providers in `ai/src/api` do.

### AgentSession

Each element of `Caller` is one call of `prompt()` (or of `sendCustomMessage` with
`triggerTurn`). Its `pc` goes through the credentials and preflight compaction
(`auth`, `send`), the run (`run`), `_handlePostAgentRun` (`post`, `retry`, `check`,
`decide`), `agent.continue()` (`continue`) and the finally of `_runAgentPrompt`
(`settle`). `compactAuth` and `compacting` are the awaits of `_runAutoCompaction`,
and `job` says who called it. `compactPc` and `branchCtl`/`navTo` are the same for
`compact()` and `navigateTree()`. An abort controller is absent, set or aborted.

Abstractions: the agent is reduced to what the session sees of it; its queues are
their total length; a message is its kind. A branch is a sequence of entries, a
compaction entry names the first entry it keeps, and navigation goes to entries of
the current branch. Whether the context is over the threshold is nondeterministic,
and so is where a compaction cuts, among the places `findCutPoint` may return.
`Fresh` stands for the comparison of the assistant message's timestamp with that of
the last compaction. Extension hooks that replace a compaction, model selection,
statistics, export and `dispose` are left out.

`Patient = TRUE` is a front end that talks to the process from outside and awaits
its calls: it acts only while every call is suspended on I/O (`Parked`), starts no
second prompt during a preflight, and waits for `compact()` and `navigateTree()`
(also before it aborts: an abort during a branch summary does not return, see
Findings). `Patient =
FALSE` lets every call come at every await, as an extension in the process can.

### SqliteLease

A storage is identified by the owner id (a fresh uuid in the code) it claimed with;
ids are numbered in claim order. `Claimable`, `Acquired`, `Renewable`, `Renewed`
and `AfterRelease` are the statements of `writer-leases.ts`; `CommitWrite`,
`RollbackWrite` and `LoseOnWrite` are the outcomes of `enqueueWrite`. The heartbeat
timer and its queued operation are separate, so that a heartbeat may run after
writes, late, or while closing. `StartTask`, `StartRelease`, `AwaitRelease` and
`Finish...` are the repository's own queue working through delete, repair and
close. `Crash` loses all memory of a process. There is one session; clocks of the
processes agree.

### SessionState and JsonlStorage

`SessionState` is a fold of its mutations and keeps them all in `log`, so the model
keeps the log and reads the maps of the class off it: `Entries`, `Lanes`, `Leaf`,
`OpenOperations`, `Name`, `Label`. `Applies` is `applyMutation` up to its
assignments, `Validates` and `MutationOf` are the two halves of an operation
(`createLane`, `moveLane`, `appendEntry`, `appendRecord`, `setName`, `setLabel`);
records are the two kinds that matter to a lane, operation started and finished.

`JsonlStorage` has the file as a header and lines, of which the last may be the
beginning of a mutation's JSON text (`Partial`) and may lack its newline. An append
reaches the file in three steps, `Following`: some of the JSON text, all of it, the
newline. `Crash` may come anywhere and keeps `state` as what callers were told.
`Load` reads the file and then repairs it (`StageRepair`, `PublishRepair` by rename,
`RepairNewline`), to open it or to fork it (`PublishFork`). A fork's destination is
a file nobody else has, so its bytes are not modelled. Two constants switch on
faults the code does not survive: `SharedFile` (fork while open) and `TornFailures`
(an append rejected in the middle). With `SharedFile`, a rename under an append in
progress leaves its descriptor on the replaced file (`orphan`). A read of the file
is atomic, which a concurrent append makes a simplification only there.

`DurableLog` is the promise: `Commit` before `Return`, `Reject` commits nothing,
`Crash` takes nothing back. The refinement mapping is `log <- Intact(file)` (what
load() would take), `seen <- state`, `pending <- writing`, `alive <- (up = "open")`.

### LiveSessions

One session id. A `LiveSession` is a number in opening order with the stage of its
runtime, the connections that it holds, its operation count, its phase (`busy`) and
`terminal`. `current` and `opening` are what `liveSessions` and `openingSessions`
have under the id; a promise that several requests await is the `LiveSession` they
name. Requests go through `acquire` (`disposal`, `opening`, `acquired`), `detaching`
or `running`. The service and its runtimes are external: opening, snapshots and
disposals may fail. A protocol error is a disconnect; the short stage in which its
transport is being closed is only modelled for `terminate` and `close`. `create` is
`attach` with an id of its own. Sending, server snapshots and listing change none of
this state.

A disposal that settles makes the continuations of all that wait for it ready, and
promise jobs run before the event loop takes the next event. `QueueDrained` says so:
no client, runtime or server event comes while a waiter of a settled disposal has
not gone on. It matters. Without it a waiter could sleep through the next opening
and disposal, and then open a third runtime while `close()` is still disposing of
the second; the two runtimes of the run do not show that, three do, and the proof
of `RuntimeIsExclusive` does not go through. Several `terminate()`s may be dropping
connections at a time, so `ending` is a set of them.

### ModelRequest

A transcript arrives message by message (`Take`), so that TLC enumerates all of
them, then is converted (`Convert`) and sent. Which transcripts can occur follows
from `AgentLoop`: results behind their call, each at most once, none for a failed
reply. An assistant message is from the target model or not (`same`), ended well or
not, has one kind of content and some calls. `Normalize` is the id normalization,
assumed idempotent, to keep the calls of one message apart, and to leave the
target's own ids alone; the truncation to 40 characters at `openai-completions.ts:1411`
meets that only for ids that differ early. The system prompt and Kimi's extra system
message with deferred tools are left out.

## Runs

Every run finishes within five minutes on two cores. Deadlock is not checked: an
idle agent, session or repository whose bounds are used up may stop.

| run | bounds | shows |
|---|---|---|
| `agent_loop` | 3 messages, 3 runs, 2 turns with tools, 2 calls; one-at-a-time; hooks throw | `MessageConservation`, `SteeringOncePerTurn`, `ResultsFollowTheirCalls`, `RequestHasAllResults`, `ContextIsTranscript` |
| `agent_listeners` | 2 messages, 2 runs, 2 turns, 2 calls; listeners and hooks throw | `MessageConservation` and `PendingCallsAreCurrent` survive failures in mid-batch and tools that outlive their run |
| `agent_abort` | 2 messages, 2 runs, 2 turns, 2 calls; both queue modes, changed in mid-run | `AbortEndsRun` (liveness), `AgentEndIsFinal` |
| `session` | 2 callers, 2 replies, 1 note, 1 retry, 1 compaction; patient | `SettledMeansIdle`, `CompactionIsExclusive`, `CompactionCanBeAborted`, `RetriesAreClosed`, `ResultsStayWithCalls`, `NotesAreConserved` |
| `session_liveness` | 1 caller, 2 replies, 1 queued message, 1 retry, 1 compaction, 1 navigation; patient | `RunsSettle`, `AbortReturns` (liveness) |
| `session_races` | 2 callers, 1 reply, 1 queued message, 1 retry, no automatic compaction; not patient | `RunsAreExclusive` |
| `session_continue_rejected` (violation) | smallest that shows it | finding 1 |
| `sqlite_lease` | 2 processes, 3 claims, ttl 1, 3 clock values, 2 mutations, 1 waiting write | `WritesNeverInterleave`, `OnlyLastClaimantWrites`, `LogIsDense`, `LiveLeaseIsStable`, `ReleaseIsLast`, `LeaseNeedsSession` |
| `jsonl` | log of 4 mutations, 2 entries, 2 records, 2 lanes, 1 text; one user of the file | `AckedAreDurable`, `ForkIsFaithful`, `ImplementsDurableLog` (refinement) |
| `jsonl_fork_race` (violation) | log of 3, fork while open | finding 2 |
| `live_sessions` | 2 connections, 2 requests in flight, 2 runtimes, the first may fail | `RuntimeIsExclusive`, `RuntimeIsReturnedOnce`, `AttachmentsAgree`; liveness `AbandonedIsDisposed`, `CloseReturnsEverything` |
| `model_request` | all transcripts of 5 messages out of 10 kinds, 2 targets | `RequestIsPaired`, `TranscriptIsKept`, `ResultsAreBridged` |

Why the bounds are enough to be interesting. Three messages fill a queue past the
one that is drained and leave one for a second run; two calls are the least that
can end out of order, and two turns let a batch be followed by a request that sees
it. In the session two replies give error and retry, overflow and recovery, or a tool
call and an answer; a second caller prompts a session that was retried, compacted or
aborted before, and is the least that can race; one compaction with a second one
refused reaches every branch of overflow recovery. The bounds `MaxReplies` and `MaxTurns` make the
model stop calling tools, they do not cut behaviours short. Three claims of the lease are a
first owner, one that takes over and one that takes over from it. The safety
results of the loop, the session, the leases, the live sessions, the JSONL storage
and of requests do not depend on these bounds, because they are proved
(below); the runs show that the cases occur, and carry the liveness properties. Four
mutations of a log are two entries that share a branch or do not, on lanes or moved,
with a name or label.
Two runtimes are one disposed and one opened behind it, and two requests are the
least that can share an opening, wait for a disposal or operate while the other
detaches. Five messages hold a call, one of its two results, a failed reply, a
skipped one and what comes next.

`session_races` leaves automatic compaction out to stay small; `OneRunAtATime` proves
its property with compactions and any number of callers.

Symmetry is used for messages, callers, processes and ids, in safety runs only (model
values that no definition distinguishes).

### Fairness

`WF_vars(Step)` in `AgentLoop` and `AgentSession`: as long as the run or the
session can take a step by itself, it eventually takes one. The event loop runs
ready continuations, the retry timer fires, providers and tools end (both get the
abort signal, and requests have timeouts). Nothing is assumed about the caller.
`LiveSessions` has weak fairness of every request's continuation, of the runtime
(the service settles what it was asked to open, snapshot or dispose, and a busy
runtime becomes idle), of `terminate` and of `close`; none of clients, failures or
disconnects. The other modules need no fairness: their properties are safety
properties.

## Proofs

Each theorem is `Spec => []P` (or an action property) from an inductive invariant: a
lemma that it holds initially, lemmas that every step keeps it, one case per action,
and a temporal step. The parts of an invariant are proved in the order they are
listed, each from those before it. TLC checked all of them on
small instances first.

### Leases

`SqliteLeaseProofs` proves, for any set of processes and any bounds, from
`BoundsAssumption` (the bounds are naturals), `RepoAssumption` (there is a process)
and `TTLAssumption` (`resolveWriterLeaseOptions` accepts only a positive ttl):

| theorem | property |
|---|---|
| `TypeCorrect` | `TypeOK` |
| `Invariant` | `IInv`, the inductive invariant |
| `WritersAreSerial` | `WritesNeverInterleave` |
| `SequenceIsDense` | `LogIsDense` |
| `ReleaseSeals` | `ReleaseIsLast` |
| `LeaseHasSession` | `LeaseNeedsSession` |
| `LatestClaimantWrites` | `OnlyLastClaimantWrites` |
| `LiveLeaseStays` | `LiveLeaseIsStable` |

`IInv == TypeOK /\ LeaseInv /\ LogInv /\ QueueInv /\ LeaseNeedsSession`. The
properties are not inductive alone. That writers do not interleave needs that
whoever passes the renewal check is the latest claimant, hence `LeaseInv`: a lease
row always belongs to the latest claimant, because a claim replaces the row and no
other statement changes its owner. `LogInv` adds that nobody who has not claimed
yet has written, so an append by the latest claimant keeps the log sorted.
`ReleaseIsLast` needs `QueueInv`: a release is queued only by a storage that is
closing, nothing is queued behind it, and the timer is off from then on. The proof
that steps preserve `LeaseInv` and `LogInv` first reduces `Next` to the few steps
that touch the database (`DbSteps`); the one for `QueueInv` goes storage by storage.

### JSONL storage

`JsonlStorageProofs` proves, for any sets of ids, lanes and texts and any length of
log, from `LaneAssumption`, `IdAssumption` and the two bounds assumptions. What is
said of the file is for one user of it whose appends fail cleanly (`~SharedFile`,
`~TornFailures`; both are needed, as finding 2 and the note below it show), the rest
for any:

| theorem | property | file |
|---|---|---|
| `Invariant` | `IInv`, the inductive invariant of the file | one user |
| `AcknowledgedSurvives` | `AckedAreDurable` | one user |
| `Implements` | `ImplementsDurableLog`, the refinement | one user |
| `LogInvariant` | `LogInv`, the inductive invariant of what is replayed | any |
| `TypeCorrect` | `TypeOK` | any |
| `ForksAreFaithful` | `ForkIsFaithful` | any |

`IInv == TypeOK /\ ControlInv /\ LoaderInv /\ FileInv /\ Replays(state)`. That a
file loads says nothing about what the next bytes make of it, so `FileInv` says
which three files there are: the known log (clean), with the beginning of a line
(torn), or with one more mutation that applies (doubtful), and ties each to how far
the append in progress has come. `ControlInv` has one append at a time and nobody
else on the file, `LoaderInv` that a repair in progress still fits the file. That
the doubtful line replays comes down to `OperationApplies`: what an operation builds
from a log that replays applies to it, which needs that the leaf of a lane is one
of the entries (`LeafIsEntry`). For the refinement `Committed` says what load()
would find in each of these states, and every step then is one of `DurableLog` or
leaves its variables alone.

`LogInv == TypeOK /\ WriterLog /\ LoaderLog` needs nothing of the file: a storage
replays what it loads, and load() rejects what does not replay, so state and loader
have logs that replay even when the file has lost mutations to another user. The rest
of `ForksAreFaithful` is about `createForkMutations` on such a log (`ForkFaithful`).
In it no two entries have the same id and a parent stands before its child
(`EntriesApart`). The branch of an entry is the smallest set with it and the parents
of its members; it consists of entries, with each its parent (`BranchFacts`). So the
entries that are copied, listed by position (`InOrderLists`), are again a log in
which parents come first, and `ForkReplays` adds to them lanes whose leaves were
copied and labels of copied entries only. That a fork is nothing but the branch of
its leaf (`ForkIsBranch`) goes both ways through the minimality of the two branches:
a set closed under parents in the fork gives one in the source.

### Agent loop

`AgentLoopProofs` and `AgentTranscriptProofs` prove, for any set of messages and any
number of runs, turns and calls, for either queue mode and tool execution, with hooks
and listeners that throw, from `BoundsAssumption` and `ModesAssumption`:

| theorem | property |
|---|---|
| `Invariance` | `LoopInv`, the inductive invariant |
| `TypeCorrect` | `TypeOK` |
| `MessagesAreConserved` | `MessageConservation` |
| `SteeringIsPolledOnce` | `SteeringOncePerTurn` |
| `PendingCallsAreExact` | `PendingCallsAreCurrent` |
| `TranscriptInvariance` | `TranscriptIInv`, its strengthening for the transcript |
| `ResultsAreOrdered` | `ResultsFollowTheirCalls` |
| `RequestsAreComplete` | `RequestHasAllResults` |
| `ContextFollowsTranscript` | `ContextIsTranscript` |
| `AgentEndComesLast` | `AgentEndIsFinal`, if no listener throws (`~ListenersThrow`) |

`LoopInv == TypeOK /\ ControlInv /\ SteeringInv /\ ConservationInv /\ BatchInv /\
DetachedInv /\ PendingCallsAreCurrent`. `ControlInv` says at which awaits the locals
of the loop are in use; without it a message in a local that is about to be
overwritten would be lost. `SteeringInv` adds whether the turn may still poll.
`BatchInv` says how far each call of a batch is: outside a parallel batch those
before the cursor have ended and those behind it are untouched, and a parallel batch
leaves calls untouched only when aborted. `DetachedInv` says that a tool left behind
by a failed run belongs to an earlier turn, so that its late end cannot remove a
current call. For the transcript `TranscriptInv` says what context, transcript and
the batch have of each other's messages at each await, and `AnsweredInv` where in a
turn every call has its result.

### Session

`AgentSessionProofs` and `SessionTranscriptProofs` prove, for any set of callers and
any bounds, from `ConstantsAssumption`:

| theorem | property | client |
|---|---|---|
| `Invariance` | `AnyInv`, the inductive invariant of the control state | any |
| `OneRunAtATime` | `RunsAreExclusive` | any |
| `PatientInvariance` | `PatientInv`, its strengthening | patient |
| `SettledIsIdle` | `SettledMeansIdle` | patient |
| `CompactionExcludesRuns` | `CompactionIsExclusive` | patient |
| `CompactionIsCancellable` | `CompactionCanBeAborted` | patient |
| `NoNoteIsLost` | `NotesAreConserved` | patient |
| `LogInvariance` | `AnyLogInv`, the inductive invariant of transcript and branch | any |
| `TypeCorrect` | `TypeOK` | any |
| `TranscriptInvariance` | `TranscriptInv`, its strengthening | patient |
| `ResultsAreKept` | `ResultsStayWithCalls` | patient |
| `RetriesAreOver` | `RetriesAreClosed` | patient |

The patient ones assume `Patient`, and need it: the findings below are how they fail
for a client in the process. `AnyInv == ControlOK /\ RunInv /\ ManualInv`: which call
has the agent's run (also while it compacts before its next turn), and who holds the
controller of a manual compaction. `PatientInv` adds `LoneInv`: one call at a time is
under way, `isAgentRunActive` says exactly whether it is past its preflight, and
manual compaction and navigation find none. That is what a front end gets for
awaiting its calls, and the rest follows from it.

`LogInv` makes a branch well-formed: a compaction keeps entries before itself, from
one that is no tool result, and so does the cut of a compaction under way, also after
a navigation has left entries behind. Every prefix of a branch having a last
compaction is part of it, since that a finite set of numbers has a highest one is an
induction; as an invariant it is one step per appended entry. `LogStep` reduces
`Next` to the four things a step can do to the log (record, trim, compact, move).
`ReadyInv` is the strengthening for retries. `RetriesAreClosed` fails if the retry
that a session waits for is rejected by `agent.continue()`, which throws on a
transcript that ends in a reply; so the transcript without the failed reply must not
end in one, so the request it failed was made on a transcript that did not, also when
that was rebuilt by a compaction between two turns, and so that compaction cut a
branch that did not end in a reply either. A run that was aborted is exempt, because
its reply is `aborted` and not retried. (Finding 1 is the recovery that this argument
does not cover: there the attempts are forgotten before `agent.continue()` throws.)

### Live sessions

`LiveSessionsProofs` proves, for any connections, requests in flight, reopenings and
failures, from `BoundsAssumption`:

| theorem | property |
|---|---|
| `Invariance` | `IInv`, the inductive invariant |
| `TypeCorrect` | `TypeOK` |
| `OneRuntimeAtATime` | `RuntimeIsExclusive` |
| `RuntimesAreReturned` | `RuntimeIsReturnedOnce` |
| `BothSidesAgree` | `AttachmentsAgree` |

`IInv` has, besides types and `AttachmentsAgree`: `LifeInv`, what the stage of a
runtime says of the rest of its session; `OpsInv`, that `operationCount` is the number
of requests that are operating; `RequestInv` and `CloseInv`, what requests and
`close()` rely on at their awaits; `EndingInv`, that connections being dropped can
attach to nothing else. `HolderInv` carries `RuntimeIsExclusive`: a runtime that is
held is the one in the map of live sessions, the one being opened, or the one whose
disposal `close()` awaits, and no two of these are there at a time. For the waiters of
a disposal it needs `DrainInv`: while one is still to go on, the only runtime there is
is one that another waiter has just asked for.

### Requests

`ModelRequestProofs` proves, for any messages and ids, any target and transcripts of
any length, from `TargetAssumption` and `MessageAssumption` (what `Normalize` does to
the calls of one message, see above):

| theorem | property |
|---|---|
| `RequestInvariance` | `RequestInv` and `BridgeInv`, the inductive invariants |
| `RequestPaired` | `RequestIsPaired` |
| `ResultsBridged` | `ResultsAreBridged` |
| `KeptInvariance` | `KeptInv`, the inductive invariant of what the request tells |
| `TranscriptKept` | `TranscriptIsKept` |

`RequestIsPaired` says something only of a request that is sent. Before that
`TransformInv` says it of the messages transformed so far: the calls of every message
are answered behind it, but for the message whose calls are pending; behind that one
are results of some of its calls, no call twice, and their ids are
`existingToolResultIds`. A result that arrives answers a call without one because it
is renamed as its call was: `toolCallIdMap` has the form each pending call is sent
with, and those forms differ (`CallsDiffer`, by counting). What
`insertSyntheticToolResults` appends are exactly the missing answers
(`SyntheticResults`); the loop is a recursive function, and since the provers cannot
instantiate the library's induction, `RoundsExist` and `SyntheticResults` take a
least round at which the claim fails (`LeastNumber`, from the well-foundedness of
the naturals). That all answers together are as many as the calls (`Completed`)
compares the sizes of two injective sequences with the same elements.
`ConvertInv` carries the pairing over to the request: the converter never stops
within a batch, so the batch behind a message with calls is all of its answers
(`BatchEnds`). `BridgeInv` adds that `lastRole` is `toolResult` whenever a
result is last, also when a message was left out since.

`TranscriptIsKept` says that there is an order-preserving bijection from the messages
that are to be sent onto the parameters that are not synthetic. `KeptInv` has two of
them (`Tells`), from the transcript to the real ones of the transformed messages
(`InputKept`) and from those that are converted to the request (`OutputKept`), and a
third from the messages with pictures in their results to the picture messages
(`ImagesKept`). Each step extends them by what it appends (`MoreTold`,
`OneMoreTold`), or not at all when it appends only what is synthetic (`SameTold`), and
at the end they are composed (`RequestTells`). That a result is told in the form of
its call (`ResultForm`) uses `TransformInv` once more: the owner of a result that
arrives is the message with the pending calls, so `toolCallIdMap` has their ids, even
when an earlier message of another model used the same ones. The count of pictures
(`ImagesCounted`) needs that a bijection in order also keeps which message a result
belongs to: between the images of a message and of its result there is nothing but
images of results.

### Only model-checked

The liveness properties (`AbortEndsRun`, `RunsSettle`, `AbortReturns`,
`AbandonedIsDisposed`, `CloseReturnsEverything`), which this prover does not do. Every
other invariant and action property of a passing run is stated by a theorem.

## Findings

1. `session_continue_rejected` (`ContinueIsAccepted`): error, retry, overflow, compaction leaves two failed
   replies at the end of the rebuilt transcript, only one is removed, and
   `agent.continue()` throws.
2. `jsonl_fork_race`: `fork()` of a session that is open loads its file, takes the
   line being appended for a torn tail and renames a repaired copy over it. The
   append completes in the replaced file: acknowledged, and lost.

Each is the smallest counterexample of its run; `PROJECT.json` has the lines.

Known without a run of their own, in the session (all but the last with `Patient =
FALSE`):

- of two prompts that pass the streaming check before either starts its run, the
  loser's finally clears `_isAgentRunActive` and sends `agent_settled` during the
  winner's run (`SettledMeansIdle` fails), and what it took from
  `_pendingNextTurnMessages` is lost (`NotesAreConserved` fails);
- a run can start between the call of `compact()` and the moment it has its
  controller, and then runs during the compaction (`CompactionIsExclusive` fails);
- an abort while an automatic compaction looks up its credentials finds no
  controller and aborts nothing, and an overflow recovery continues the run;
- `navigateTree()` clears its controller without resolving the idle promise, so an
  `abort()` made during the summary stays pending (`AbortReturns` fails).

In the storage and the server:

- an append that is rejected after part of it was written leaves a fragment that the
  next append is glued to; a torn line inside the file then makes it unloadable
  (`AckedAreDurable` fails with `TornFailures = TRUE`);
- a crash while the header is written leaves a file that cannot be opened, and that
  keeps the id taken; deleting a session whose storage is open lets the next append
  create a file without a header (delete is not modelled);
- `attach()` does not look at the session again after `acquire()`: if it was
  disposed or failed meanwhile, the connection is attached to a session that no
  longer serves (`stranded` in `LiveSessions`), and each of its operations is
  refused until it detaches and attaches again;
- an `acquire` that waited for a disposal may open a runtime after `close()` has
  returned; it is disposed at once (`CloseReturnsEverything`).

Two more disagreements with the docs have no run. `AgentEndIsFinal` holds
only if no listener throws on `agent_end` (with `ListenersThrow = TRUE` it fails):
`handleRunFailure` then appends a failure message and reports a second `agent_end`,
while `agent.ts:276` calls it the final event of a run. And `open()` returns a
storage the repository still has although its lease has gone to another process,
while `harness.md:570` says that it acquires the claim; writing through it is
refused, which is what the lease theorems show.

## Plan

Done: agent loop, session, lease; JSONL storage with its abstract log; live
sessions; transcript to request; proofs about each of them. Left, in order:

1. Proofs: step lemmas for the liveness properties (what a step under way can lead
   to).
2. An abstract agent that `AgentLoop` implements and that `AgentSession` uses in
   place of its own.
3. Credential refresh under the file lock; fork and lanes in the SQLite backend,
   which could then be shown to implement `DurableLog` too.
4. The client's request table, with the server's snapshots and their revisions.

## Not modelled

Provider wire formats, streaming parsers and the CBOR codec are conversions of
unbounded data. Tools and the process they start, the terminal UI, the front-end
modes, telemetry and evals are I/O and rendering without protocol state of their
own; a tool is something that returns or throws, a front end is the caller.
`scriptc` is third party; it is also by far the largest part of the repository, so
that the models cover a small share of its lines. The operations of the harness are
stubs that reject with `HarnessNotImplemented`. Of the server, the handshake and the
server-wide snapshots are left out, of the JSONL repository delete and list. The
remaining stateful parts are in the plan.
