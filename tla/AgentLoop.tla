------------------------------- MODULE AgentLoop -------------------------------
(***************************************************************************)
(* One Agent (packages/agent/src/agent.ts) and the loop it runs            *)
(* (packages/agent/src/agent-loop.ts).                                     *)
(*                                                                         *)
(* The program is single threaded: the code between two awaits is atomic,  *)
(* and at every await the caller may steer, abort or clear, tools and the  *)
(* provider make progress, and listeners run.  An action below is the code *)
(* between two awaits; `pc' names the await the loop is suspended at.      *)
(*                                                                         *)
(* Messages are abstract: a user message is a member of Msg, an assistant  *)
(* message is its turn number, stop reason and number of tool calls, and a *)
(* tool result names the call it answers.                                  *)
(***************************************************************************)
EXTENDS Integers, Sequences, FiniteSets

CONSTANTS
  Msg,             \* user messages; each is submitted at most once (bound)
  MaxRuns,         \* most runs of the agent (bound)
  MaxTurns,        \* from this turn on the model stops calling tools (bound)
  MaxCalls,        \* most tool calls in one assistant message (bound)
  QueueModes,      \* the queue modes in use
  ToolExecution,   \* "sequential" | "parallel"
  ListenersThrow,  \* whether an event listener may throw
  HooksThrow       \* whether a hook or the stream function may throw

ASSUME BoundsAssumption == MaxRuns \in Nat /\ MaxTurns \in Nat /\ MaxCalls \in Nat
ASSUME ModesAssumption ==
  /\ QueueModes # {} /\ QueueModes \subseteq {"all", "one-at-a-time"}
  /\ ToolExecution \in {"sequential", "parallel"}
  /\ ListenersThrow \in BOOLEAN /\ HooksThrow \in BOOLEAN

VARIABLES
  (* Agent *)
  activeRun,        \* this.activeRun is set
  aborted,          \* activeRun.abortController.signal.aborted
  messages,         \* _state.messages
  streamingMessage, \* role of _state.streamingMessage, or "none"
  pendingToolCalls, \* _state.pendingToolCalls
  errorMessage,     \* _state.errorMessage is set
  steeringQueue, followUpQueue, steeringMode, followUpMode,
  (* the loop's locals *)
  pc,               \* the await the loop is suspended at
  context,          \* currentContext.messages
  newMessages,      \* what agent_end will report
  pending,          \* pendingMessages
  todo,             \* messages of a `for' loop still to be emitted
  firstTurn, hasMoreToolCalls, skipInitialSteeringPoll,
  turn,             \* number of assistant messages produced so far
  reply,            \* the assistant message of this turn
  batch,            \* how the calls are run: "truncated" | "sequential" | "parallel"
  calls,            \* status of each tool call of reply
  terminating,      \* calls whose result asks to terminate
  cursor,           \* call the preparation loop is at
  detached,         \* tools still running although their run has ended
  (* history *)
  runs,             \* runs started
  runStart,         \* Len(messages) when the run started
  steeringDrains,   \* non-empty drains of steeringQueue for this turn
  agentEnds,        \* agent_end events of this run
  sent, dropped     \* messages submitted; messages cleared or lost to a failure

agentVars == <<activeRun, aborted, streamingMessage, errorMessage>>
queueVars == <<steeringQueue, followUpQueue, steeringMode, followUpMode>>
modeVars  == <<steeringMode, followUpMode>>
loopVars  == <<context, newMessages, firstTurn, hasMoreToolCalls,
               skipInitialSteeringPoll>>
toolVars  == <<turn, reply, batch, calls, terminating, cursor, pendingToolCalls, detached>>
histVars  == <<runs, runStart, steeringDrains, agentEnds, sent, dropped>>
vars == <<agentVars, messages, queueVars, loopVars, pc, pending, todo, toolVars, histVars>>

--------------------------------------------------------------------------------
(* Data *)

Stops == {"stop", "toolUse", "length", "error", "aborted"}
User(m) == [role |-> "user", msg |-> m]
Assistant(t, stop, n) == [role |-> "assistant", turn |-> t, stop |-> stop, calls |-> n]
ToolResult(c) == [role |-> "toolResult", call |-> c]

Call(i) == [turn |-> reply.turn, index |-> i]

(* Mutant: prompts are passed on without being made into messages.         *)
RawUsers(ms) == ms

Users(ms) == [i \in 1..Len(ms) |-> User(ms[i])]
MsgsIn(es) == {es[i].msg : i \in {j \in 1..Len(es) : es[j].role = "user"}}
Elems(s) == {s[i] : i \in 1..Len(s)}

(* PendingMessageQueue.drain: everything, or only the first message. *)
Drained(q, mode) == IF mode = "all" \/ q = <<>> THEN q ELSE <<q[1]>>

(* Mutants: one-at-a-time leaves the message it takes queued; both do.      *)
RestKeepsFirst(q, mode) == IF mode = "all" THEN <<>> ELSE q
RestKeepsAll(q, mode) == q

(* ... and what it leaves queued. *)
Rest(q, mode) == IF mode = "all" \/ q = <<>> THEN <<>> ELSE Tail(q)

DrainSteering ==
  /\ pending' = Drained(steeringQueue, steeringMode)
  /\ steeringQueue' = Rest(steeringQueue, steeringMode)
  /\ steeringDrains' = steeringDrains + (IF steeringQueue = <<>> THEN 0 ELSE 1)

NoReply == Assistant(0, "stop", 0)
--------------------------------------------------------------------------------
(* Starting a run *)

Init ==
  /\ activeRun = FALSE /\ aborted = FALSE /\ messages = <<>>
  /\ streamingMessage = "none" /\ pendingToolCalls = {} /\ errorMessage = FALSE
  /\ steeringQueue = <<>> /\ followUpQueue = <<>>
  /\ steeringMode \in QueueModes /\ followUpMode \in QueueModes
  /\ pc = "idle" /\ context = <<>> /\ newMessages = <<>> /\ pending = <<>>
  /\ todo = <<>> /\ firstTurn = TRUE /\ hasMoreToolCalls = TRUE
  /\ skipInitialSteeringPoll = FALSE
  /\ turn = 0 /\ reply = NoReply /\ batch = "parallel" /\ calls = <<>> /\ terminating = {} /\ cursor = 1
  /\ detached = {}
  /\ runs = 0 /\ runStart = 0 /\ steeringDrains = 0 /\ agentEnds = 0 /\ sent = {} /\ dropped = {}

(* runWithLifecycle up to the first await: the run is registered, then      *)
(* runAgentLoop snapshots the transcript and appends the prompts to it.     *)
StartRun(prompts, skip) ==
  /\ ~activeRun /\ runs < MaxRuns
  /\ runs' = runs + 1
  /\ activeRun' = TRUE /\ aborted' = FALSE
  /\ streamingMessage' = "none" /\ errorMessage' = FALSE
  /\ context' = messages \o Users(prompts)
  /\ newMessages' = Users(prompts)
  /\ todo' = Users(prompts)
  /\ firstTurn' = TRUE /\ hasMoreToolCalls' = TRUE
  /\ skipInitialSteeringPoll' = skip
  /\ pc' = "emitPrompts"
  /\ runStart' = Len(messages) /\ agentEnds' = 0
  /\ UNCHANGED <<messages, pending, toolVars, modeVars>>

Prompt(m) ==
  /\ m \notin sent
  /\ StartRun(<<m>>, FALSE)
  /\ sent' = sent \cup {m} /\ steeringDrains' = 0
  /\ UNCHANGED <<steeringQueue, followUpQueue, dropped>>

(* Agent.continue: after an assistant message, queued messages become the   *)
(* prompt (steering first); otherwise the transcript is continued as is.    *)
Continue ==
  LET last == messages[Len(messages)]
      steer == Drained(steeringQueue, steeringMode)
      follow == Drained(followUpQueue, followUpMode)
  IN
  /\ messages # <<>>
  /\ \/ /\ last.role = "assistant" /\ steer # <<>>
        /\ StartRun(steer, TRUE)
        /\ steeringQueue' = Rest(steeringQueue, steeringMode)
        /\ steeringDrains' = 1
        /\ UNCHANGED followUpQueue
     \/ /\ last.role = "assistant" /\ steer = <<>> /\ follow # <<>>
        /\ StartRun(follow, FALSE)
        /\ followUpQueue' = Rest(followUpQueue, followUpMode)
        /\ steeringDrains' = 0
        /\ UNCHANGED steeringQueue
     \/ /\ last.role # "assistant"
        /\ StartRun(<<>>, FALSE)
        /\ steeringDrains' = 0
        /\ UNCHANGED <<steeringQueue, followUpQueue>>
  /\ UNCHANGED <<sent, dropped>>

--------------------------------------------------------------------------------
(* What the caller may do at any await *)

Steer(m) ==
  /\ m \notin sent
  /\ steeringQueue' = Append(steeringQueue, m) /\ sent' = sent \cup {m}
  /\ UNCHANGED <<agentVars, messages, followUpQueue, modeVars, loopVars, pc, pending,
                 todo, toolVars, runs, runStart, steeringDrains, agentEnds, dropped>>

FollowUp(m) ==
  /\ m \notin sent
  /\ followUpQueue' = Append(followUpQueue, m) /\ sent' = sent \cup {m}
  /\ UNCHANGED <<agentVars, messages, steeringQueue, modeVars, loopVars, pc, pending,
                 todo, toolVars, runs, runStart, steeringDrains, agentEnds, dropped>>

ClearAllQueues ==
  /\ steeringQueue # <<>> \/ followUpQueue # <<>>
  /\ steeringQueue' = <<>> /\ followUpQueue' = <<>>
  /\ dropped' = dropped \cup Elems(steeringQueue) \cup Elems(followUpQueue)
  /\ UNCHANGED <<agentVars, messages, modeVars, loopVars, pc, pending, todo, toolVars,
                 runs, runStart, steeringDrains, agentEnds, sent>>

SetQueueModes(s, f) ==
  /\ <<s, f>> # <<steeringMode, followUpMode>>
  /\ steeringMode' = s /\ followUpMode' = f
  /\ UNCHANGED <<agentVars, messages, steeringQueue, followUpQueue, loopVars, pc,
                 pending, todo, toolVars, histVars>>

Abort ==
  /\ activeRun /\ ~aborted
  /\ aborted' = TRUE
  /\ UNCHANGED <<activeRun, streamingMessage, errorMessage, messages, queueVars, loopVars,
                 pc, pending, todo, toolVars, histVars>>

Reset ==
  /\ ~activeRun /\ messages # <<>>
  /\ messages' = <<>> /\ streamingMessage' = "none" /\ pendingToolCalls' = {}
  /\ errorMessage' = FALSE /\ steeringQueue' = <<>> /\ followUpQueue' = <<>>
  /\ dropped' = sent
  /\ UNCHANGED <<activeRun, aborted, modeVars, loopVars, pc, pending, todo, turn, reply,
                 batch, calls, terminating, cursor, detached, runs, runStart, steeringDrains,
                 agentEnds, sent>>

--------------------------------------------------------------------------------
(* Emitting the messages of a `for' loop: prompts, injected messages and    *)
(* tool results.  processEvents records the message at message_end.         *)

Emitting == pc \in {"emitPrompts", "emitPending", "emitResults"}

EmitMessageStart ==
  /\ Emitting /\ todo # <<>> /\ streamingMessage = "none"
  /\ streamingMessage' = todo[1].role
  /\ UNCHANGED <<activeRun, aborted, errorMessage, messages, queueVars, loopVars, pc,
                 pending, todo, toolVars, histVars>>

(* Injected messages join context and newMessages here; prompts already     *)
(* did, and tool results do at the end of the batch.                        *)
EmitMessageEnd ==
  /\ Emitting /\ todo # <<>> /\ streamingMessage # "none"
  /\ streamingMessage' = "none"
  /\ messages' = Append(messages, todo[1])
  /\ todo' = Tail(todo)
  /\ IF pc = "emitPending"
     THEN /\ context' = Append(context, todo[1])
          /\ newMessages' = Append(newMessages, todo[1])
     ELSE UNCHANGED <<context, newMessages>>
  /\ UNCHANGED <<activeRun, aborted, errorMessage, queueVars, pc, pending, firstTurn,
                 hasMoreToolCalls, skipInitialSteeringPoll, toolVars, histVars>>

--------------------------------------------------------------------------------
(* runLoop *)

(* Mutant: skipInitialSteeringPoll is ignored.                             *)
InitialPollAlways ==
  /\ pc = "emitPrompts" /\ todo = <<>>
  /\ DrainSteering
  /\ skipInitialSteeringPoll' = FALSE /\ pc' = "turnTop"
  /\ UNCHANGED <<agentVars, messages, followUpQueue, modeVars, context, newMessages,
                 firstTurn, hasMoreToolCalls, todo, toolVars, runs, runStart, agentEnds,
                 sent, dropped>>

InitialPoll ==
  /\ pc = "emitPrompts" /\ todo = <<>>
  /\ IF skipInitialSteeringPoll
     THEN pending' = <<>> /\ UNCHANGED <<steeringQueue, steeringDrains>>
     ELSE DrainSteering
  /\ skipInitialSteeringPoll' = FALSE
  /\ pc' = "turnTop"
  /\ UNCHANGED <<agentVars, messages, followUpQueue, modeVars, context, newMessages,
                 firstTurn, hasMoreToolCalls, todo, toolVars, runs, runStart, agentEnds,
                 sent, dropped>>

Inject(ms) == todo' = Users(ms) /\ pending' = <<>> /\ pc' = "emitPending"

EnterTurn ==
  /\ pc = "turnTop" /\ (hasMoreToolCalls \/ pending # <<>>)
  /\ firstTurn' = FALSE
  /\ IF firstTurn THEN Inject(pending)
                  ELSE pc' = "prepareNextTurn" /\ UNCHANGED <<todo, pending>>
  /\ UNCHANGED <<agentVars, messages, queueVars, context, newMessages, hasMoreToolCalls,
                 skipInitialSteeringPoll, toolVars, histVars>>

(* prepareNextTurn may replace the context by a snapshot of the transcript  *)
(* (AgentSession does after compacting); then steering is polled again, but *)
(* only if the poll at the end of the last turn returned nothing.           *)
PrepareNextTurn ==
  /\ pc = "prepareNextTurn"
  /\ context' \in {context, messages}
  /\ IF pending = <<>>
     THEN /\ pc' = "prepared"
          /\ DrainSteering
          /\ UNCHANGED todo
     ELSE /\ Inject(pending)
          /\ UNCHANGED <<steeringQueue, steeringDrains>>
  /\ UNCHANGED <<agentVars, messages, followUpQueue, modeVars, newMessages, firstTurn,
                 hasMoreToolCalls, skipInitialSteeringPoll, toolVars, runs, runStart,
                 agentEnds, sent, dropped>>

StartPreparedTurn ==
  /\ pc = "prepared"
  /\ Inject(pending)
  /\ UNCHANGED <<agentVars, messages, queueVars, loopVars, toolVars, histVars>>

(* No tool calls and no steering: the agent would stop; ask for follow-ups. *)
PollFollowUps ==
  /\ pc = "turnTop" /\ ~hasMoreToolCalls /\ pending = <<>>
  /\ pending' = Drained(followUpQueue, followUpMode)
  /\ followUpQueue' = Rest(followUpQueue, followUpMode)
  /\ IF followUpQueue = <<>>
     THEN pc' = "agentEnd" /\ UNCHANGED hasMoreToolCalls
     ELSE pc' = "turnTop" /\ hasMoreToolCalls' = TRUE
  /\ UNCHANGED <<agentVars, messages, steeringQueue, modeVars, context, newMessages,
                 firstTurn, skipInitialSteeringPoll, todo, toolVars, histVars>>

--------------------------------------------------------------------------------
(* streamAssistantResponse *)

Request ==
  /\ pc = "emitPending" /\ todo = <<>>
  /\ pc' = "stream" /\ turn' = turn + 1
  /\ UNCHANGED <<agentVars, messages, queueVars, loopVars, pending, todo, reply, batch, calls,
                 terminating, cursor, pendingToolCalls, detached, histVars>>

Partial == Assistant(turn, "pending", 0)

StreamStart ==
  /\ pc = "stream"
  /\ context' = Append(context, Partial) /\ streamingMessage' = "assistant"
  /\ pc' = "streaming"
  /\ UNCHANGED <<activeRun, aborted, errorMessage, messages, queueVars, newMessages,
                 firstTurn, hasMoreToolCalls, skipInitialSteeringPoll, pending, todo,
                 toolVars, histVars>>

(* The provider (external): openai-completions reports "aborted" whenever   *)
(* the signal is set when the stream ends, and "error" otherwise when it    *)
(* fails.  A failed reply can still carry the tool calls received so far.   *)
Replies ==
  IF aborted THEN {Assistant(turn, "aborted", n) : n \in 0..MaxCalls}
  ELSE {Assistant(turn, "stop", 0)}
       \cup {Assistant(turn, "error", n) : n \in 0..MaxCalls}
       \cup {Assistant(turn, s, n) : s \in {"toolUse", "length"},
                                     n \in IF turn < MaxTurns THEN 1..MaxCalls ELSE {}}

(* done / error: the final message replaces the partial one, if there was   *)
(* one; otherwise it is pushed and announced with message_start.            *)
StreamResult(final) ==
  /\ pc \in {"stream", "streaming"}
  /\ reply' = final
  /\ context' = IF pc = "streaming" THEN [context EXCEPT ![Len(context)] = final]
                                    ELSE Append(context, final)
  /\ streamingMessage' = "assistant"
  /\ pc' = "replied"
  /\ UNCHANGED <<activeRun, aborted, errorMessage, messages, queueVars, newMessages,
                 firstTurn, hasMoreToolCalls, skipInitialSteeringPoll, pending, todo,
                 turn, batch, calls, terminating, cursor, pendingToolCalls, detached, histVars>>

Failed(message) == message.stop \in {"error", "aborted"}

(* executeToolCalls: a reply cut off by the token limit has its calls       *)
(* failed; one tool marked sequential makes the whole batch sequential.     *)
BatchModes(message) ==
  IF message.stop = "length" THEN {"truncated"} ELSE {"sequential", ToolExecution}

(* message_end of the reply; then the loop looks at its tool calls.         *)
StreamEnd ==
  /\ pc = "replied"
  /\ messages' = Append(messages, reply) /\ newMessages' = Append(newMessages, reply)
  /\ streamingMessage' = "none"
  /\ steeringDrains' = 0
  /\ IF Failed(reply)
     THEN pc' = "turnEnd" /\ UNCHANGED <<hasMoreToolCalls, batch, calls, terminating, cursor>>
     ELSE /\ hasMoreToolCalls' = FALSE
          /\ batch' \in BatchModes(reply)
          /\ calls' = [i \in 1..reply.calls |-> "queued"]
          /\ terminating' = {} /\ cursor' = 1
          /\ pc' = IF reply.calls > 0 THEN "tools" ELSE "turnEnd"
  /\ UNCHANGED <<activeRun, aborted, errorMessage, queueVars, context, firstTurn,
                 skipInitialSteeringPoll, pending, todo, turn, reply, pendingToolCalls,
                 detached, runs, runStart, agentEnds, sent, dropped>>

--------------------------------------------------------------------------------
(* Tool calls.  A call is queued, started (tool_execution_start emitted),   *)
(* prepared (parallel: its closure waits for the batch to be launched),     *)
(* running, executed (its outcome is known) and ended (tool_execution_end). *)

toolRest == <<messages, queueVars, loopVars, pending, todo, turn, reply, batch, histVars>>

ToolStart ==
  /\ pc = "tools" /\ cursor <= Len(calls) /\ calls[cursor] = "queued"
  /\ pendingToolCalls' = pendingToolCalls \cup {Call(cursor)}
  /\ calls' = [calls EXCEPT ![cursor] = "started"]
  /\ UNCHANGED <<agentVars, toolRest, pc, terminating, cursor, detached>>

SetOutcome(i, terminate) ==
  /\ calls' = [calls EXCEPT ![i] = "executed"]
  /\ terminating' = IF terminate THEN terminating \cup {i} ELSE terminating

(* prepareToolCall ending in an immediate outcome: unknown tool, invalid     *)
(* arguments, blocked by the hook (which may ask to terminate), aborted, or  *)
(* the whole message was truncated.                                          *)
PrepareImmediate(terminate) ==
  /\ pc = "tools" /\ cursor <= Len(calls) /\ calls[cursor] = "started"
  /\ terminate => ~aborted /\ batch # "truncated"
  /\ SetOutcome(cursor, terminate)
  /\ UNCHANGED <<agentVars, toolRest, pc, cursor, pendingToolCalls, detached>>

(* prepareToolCall ending in a prepared call: not possible once aborted.     *)
PrepareCall ==
  /\ pc = "tools" /\ cursor <= Len(calls) /\ calls[cursor] = "started"
  /\ ~aborted /\ batch # "truncated"
  /\ calls' = [calls EXCEPT ![cursor] = IF batch = "parallel" THEN "prepared" ELSE "running"]
  /\ UNCHANGED <<agentVars, toolRest, pc, terminating, cursor, pendingToolCalls, detached>>

(* executePreparedToolCall and finalizeExecutedToolCall: the tool returns or *)
(* throws, the hook after it may change the outcome.                         *)
ToolReturn(i, terminate) ==
  /\ pc \in {"tools", "join"} /\ i \in 1..Len(calls) /\ calls[i] = "running"
  /\ SetOutcome(i, terminate)
  /\ UNCHANGED <<agentVars, toolRest, pc, cursor, pendingToolCalls, detached>>

(* processEvents at tool_execution_end.                                      *)
ForgetPending(c) == pendingToolCalls' = pendingToolCalls \ {c}

(* tool_execution_end; outside a parallel batch the result message follows.  *)
ToolEnd(i) ==
  /\ pc \in {"tools", "join"} /\ i \in 1..Len(calls) /\ calls[i] = "executed"
  /\ calls' = [calls EXCEPT ![i] = "ended"]
  /\ ForgetPending(Call(i))
  /\ IF batch = "parallel"
     THEN UNCHANGED <<pc, todo>>
     ELSE pc' = "emitResults" /\ todo' = <<ToolResult(Call(i))>>
  /\ UNCHANGED <<agentVars, messages, queueVars, loopVars, pending, turn, reply, batch,
                 histVars, terminating, cursor, detached>>

(* The preparation loop of a parallel batch moves on, or breaks off if the   *)
(* run was aborted meanwhile.                                                *)
NextParallelCall ==
  /\ pc = "tools" /\ batch = "parallel"
  /\ cursor <= Len(calls) /\ calls[cursor] \in {"prepared", "ended"}
  /\ cursor' = IF aborted THEN Len(calls) + 1 ELSE cursor + 1
  /\ UNCHANGED <<agentVars, toolRest, pc, calls, terminating, pendingToolCalls, detached>>

(* Promise.all starts every prepared call.                                   *)
LaunchParallel ==
  /\ pc = "tools" /\ batch = "parallel" /\ cursor > Len(calls)
  /\ calls' = [i \in 1..Len(calls) |-> IF calls[i] = "prepared" THEN "running" ELSE calls[i]]
  /\ pc' = "join"
  /\ UNCHANGED <<agentVars, toolRest, terminating, cursor, pendingToolCalls, detached>>

Ended == {i \in 1..Len(calls) : calls[i] = "ended"}

(* Mutant: results in another order than the calls.                         *)
ResultsReversed ==
  [i \in 1..Cardinality(Ended) |-> ToolResult(Call(Cardinality(Ended) + 1 - i))]

(* A batch that breaks off does so after a prefix of its calls.              *)
Results == [i \in 1..Cardinality(Ended) |-> ToolResult(Call(i))]

(* Mutants: Promise.race instead of Promise.all; waiting also for the calls *)
(* an aborted preparation loop never reached.                               *)
JoinFirst ==
  /\ pc = "join"
  /\ \E i \in 1..Len(calls) : calls[i] = "ended"
  /\ todo' = Results /\ pc' = "emitResults"
  /\ UNCHANGED <<agentVars, messages, queueVars, loopVars, pending, toolVars, histVars>>

JoinEveryCall ==
  /\ pc = "join"
  /\ \A i \in 1..Len(calls) : calls[i] = "ended"
  /\ todo' = Results /\ pc' = "emitResults"
  /\ UNCHANGED <<agentVars, messages, queueVars, loopVars, pending, toolVars, histVars>>

JoinParallel ==
  /\ pc = "join"
  /\ \A i \in 1..Len(calls) : calls[i] \in {"queued", "ended"}
  /\ todo' = Results /\ pc' = "emitResults"
  /\ UNCHANGED <<agentVars, messages, queueVars, loopVars, pending, toolVars, histVars>>

(* The sequential loops go on with the next call; only the one that executes *)
(* tools looks at the abort signal.                                          *)
MoreSequentialCalls ==
  /\ batch # "parallel" /\ cursor < Len(calls)
  /\ batch = "sequential" => ~aborted

NextSequentialCall ==
  /\ pc = "emitResults" /\ todo = <<>> /\ MoreSequentialCalls
  /\ cursor' = cursor + 1 /\ pc' = "tools"
  /\ UNCHANGED <<agentVars, toolRest, calls, terminating, pendingToolCalls, detached>>

(* shouldTerminateToolBatch *)
TerminateBatch == batch # "truncated" /\ Ended # {} /\ Ended \subseteq terminating

(* Mutant: the results reach only one of the two lists.                     *)
RecordInNewMessages == newMessages' = newMessages \o Results /\ UNCHANGED context

RecordResults == context' = context \o Results /\ newMessages' = newMessages \o Results

BatchDone ==
  /\ pc = "emitResults" /\ todo = <<>> /\ ~MoreSequentialCalls
  /\ hasMoreToolCalls' = ~TerminateBatch
  /\ RecordResults
  /\ pc' = "turnEnd"
  /\ UNCHANGED <<agentVars, messages, queueVars, firstTurn, skipInitialSteeringPoll,
                 pending, todo, toolVars, histVars>>

--------------------------------------------------------------------------------
(* Ending a turn and a run *)

(* turn_end; a failed reply carries an error message.                        *)
TurnEnd ==
  /\ pc = "turnEnd"
  /\ errorMessage' = (errorMessage \/ Failed(reply))
  /\ pc' = IF Failed(reply) THEN "agentEnd" ELSE "turnEnded"
  /\ UNCHANGED <<activeRun, aborted, streamingMessage, messages, queueVars, loopVars,
                 pending, todo, toolVars, histVars>>

(* shouldStopAfterTurn, else the steering poll that ends the turn.           *)
AfterTurn(stop) ==
  /\ pc = "turnEnded"
  /\ IF stop
     THEN pc' = "agentEnd" /\ UNCHANGED <<pending, steeringQueue, steeringDrains>>
     ELSE pc' = "turnTop" /\ DrainSteering
  /\ UNCHANGED <<agentVars, messages, followUpQueue, modeVars, loopVars, todo, toolVars,
                 runs, runStart, agentEnds, sent, dropped>>

(* Mutant: runLoop goes on after the agent_end of a failed turn.            *)
AgentEndWithoutReturn ==
  /\ pc \in {"agentEnd", "failAgentEnd"}
  /\ agentEnds' = agentEnds + 1 /\ streamingMessage' = "none"
  /\ pc' = IF pc = "failAgentEnd" THEN "failFinish"
           ELSE IF Failed(reply) THEN "turnEnded" ELSE "finish"
  /\ UNCHANGED <<activeRun, aborted, errorMessage, messages, queueVars, loopVars, pending,
                 todo, toolVars, runs, runStart, steeringDrains, sent, dropped>>

EmitAgentEnd ==
  /\ pc \in {"agentEnd", "failAgentEnd"}
  /\ agentEnds' = agentEnds + 1 /\ streamingMessage' = "none"
  /\ pc' = IF pc = "agentEnd" THEN "finish" ELSE "failFinish"
  /\ UNCHANGED <<activeRun, aborted, errorMessage, messages, queueVars, loopVars, pending,
                 todo, toolVars, runs, runStart, steeringDrains, sent, dropped>>

(* Mutant: the calls of a failed run stay pending.                           *)
KeepAllPending == UNCHANGED pendingToolCalls

ClearPending == pendingToolCalls' = {}

(* finishRun, in the finally of runWithLifecycle.  The loop's locals die.    *)
EndRun ==
  /\ activeRun' = FALSE /\ streamingMessage' = "none" /\ ClearPending
  /\ context' = <<>> /\ newMessages' = <<>> /\ pending' = <<>> /\ todo' = <<>>
  /\ calls' = <<>> /\ terminating' = {} /\ cursor' = 1 /\ reply' = NoReply
  /\ pc' = "idle"
  /\ UNCHANGED <<aborted, errorMessage, messages, queueVars, firstTurn, hasMoreToolCalls,
                 skipInitialSteeringPoll, turn, batch, runs, runStart, steeringDrains,
                 agentEnds, sent>>

FinishRun ==
  /\ pc \in {"finish", "failFinish"}
  /\ EndRun /\ UNCHANGED <<detached, dropped>>

--------------------------------------------------------------------------------
(* Failures: an exception that escapes the loop reaches handleRunFailure.    *)

(* Awaits at which a hook, the conversion or the stream function can throw.  *)
HookAwaits == {"prepareNextTurn", "stream", "turnEnded"}
(* Awaits at which a listener is running.                                    *)
ListenerAwaits == {"emitPrompts", "emitPending", "emitResults", "replied", "streaming",
                   "tools", "turnEnd", "turnEnded", "finish"}
ListenerRunning ==
  \/ pc \in ListenerAwaits /\ \A i \in 1..Len(calls) : calls[i] # "running"
  \/ pc = "agentEnd" /\ Failed(reply)

(* handleRunFailure up to message_start of the failure message.  Messages    *)
(* already taken from a queue but not yet recorded go with the run.          *)
ReportFailure ==
  /\ dropped' = dropped \cup Elems(pending) \cup MsgsIn(todo)
  /\ pending' = <<>> /\ todo' = <<>>
  /\ reply' = Assistant(turn, IF aborted THEN "aborted" ELSE "error", 0)
  /\ streamingMessage' = "assistant"
  /\ pc' = "failed"
  /\ UNCHANGED <<activeRun, aborted, errorMessage, messages, queueVars, loopVars, turn,
                 batch, calls, terminating, cursor, runs, runStart, steeringDrains, agentEnds,
                 sent>>

RunFails ==
  /\ \/ HooksThrow /\ pc \in HookAwaits
     \/ ListenersThrow /\ ListenerRunning
  /\ ReportFailure /\ UNCHANGED <<detached, pendingToolCalls>>

(* In a parallel batch a listener of one call's events throws: Promise.all   *)
(* rejects and nobody waits for the other tools any more.                    *)
ParallelCallFails(i) ==
  /\ ListenersThrow /\ pc = "join" /\ i \in 1..Len(calls) /\ calls[i] = "executed"
  /\ detached' = detached \cup
       {Call(j) : j \in {k \in 1..Len(calls) \ {i} : calls[k] \in {"running", "executed"}}}
  /\ pendingToolCalls' \in {pendingToolCalls, pendingToolCalls \ {Call(i)}}
  /\ ReportFailure

(* handleRunFailure: message_end of the failure message, turn_end.           *)
FailureMessageEnd ==
  /\ pc = "failed"
  /\ messages' = Append(messages, reply) /\ streamingMessage' = "none"
  /\ pc' = "failTurnEnd"
  /\ UNCHANGED <<activeRun, aborted, errorMessage, queueVars, loopVars, pending, todo,
                 toolVars, histVars>>

FailureTurnEnd ==
  /\ pc = "failTurnEnd"
  /\ errorMessage' = TRUE
  /\ pc' = "failAgentEnd"
  /\ UNCHANGED <<activeRun, aborted, streamingMessage, messages, queueVars, loopVars,
                 pending, todo, toolVars, histVars>>

(* A listener throws while the failure is reported: straight to finishRun.   *)
FailureReportFails ==
  /\ ListenersThrow
  /\ pc \in {"failed", "failTurnEnd", "failAgentEnd", "failFinish"}
  /\ EndRun /\ UNCHANGED <<detached, dropped>>

(* A tool whose run failed ends later: processEvents removes it from the     *)
(* set of whatever run is active then (and throws if there is none).         *)
DetachedToolEnd(c) ==
  /\ c \in detached
  /\ detached' = detached \ {c}
  /\ ForgetPending(c)
  /\ UNCHANGED <<agentVars, messages, queueVars, loopVars, pc, pending, todo, turn, reply,
                 batch, calls, terminating, cursor, histVars>>

--------------------------------------------------------------------------------
Caller ==
  \/ \E m \in Msg : Prompt(m) \/ Steer(m) \/ FollowUp(m)
  \/ Continue \/ ClearAllQueues \/ Abort \/ Reset
  \/ \E s, f \in QueueModes : SetQueueModes(s, f)

(* Steps the run takes by itself.                                            *)
Step ==
  \/ EmitMessageStart \/ EmitMessageEnd
  \/ InitialPoll \/ EnterTurn \/ PrepareNextTurn \/ StartPreparedTurn \/ PollFollowUps
  \/ Request \/ (\E r \in Replies : StreamResult(r)) \/ StreamEnd
  \/ ToolStart \/ PrepareCall \/ (\E b \in BOOLEAN : PrepareImmediate(b))
  \/ (\E i \in 1..MaxCalls : ToolEnd(i) \/ \E b \in BOOLEAN : ToolReturn(i, b))
  \/ NextParallelCall \/ LaunchParallel \/ JoinParallel
  \/ NextSequentialCall \/ BatchDone
  \/ TurnEnd \/ (\E b \in BOOLEAN : AfterTurn(b)) \/ EmitAgentEnd \/ FinishRun
  \/ FailureMessageEnd \/ FailureTurnEnd

Next ==
  \/ Caller \/ Step \/ StreamStart
  \/ RunFails \/ FailureReportFails \/ \E i \in 1..MaxCalls : ParallelCallFails(i)
  \/ \E c \in detached : DetachedToolEnd(c)

(* The run's own steps keep happening: the event loop runs every ready       *)
(* continuation, and tools and the provider answer (they get the signal).    *)
Spec == Init /\ [][Next]_vars /\ WF_vars(Step)
--------------------------------------------------------------------------------
(* Properties *)

Pcs == {"idle", "emitPrompts", "turnTop", "prepareNextTurn", "prepared", "emitPending",
        "stream", "streaming", "replied", "tools", "join", "emitResults", "turnEnd",
        "turnEnded", "agentEnd", "finish", "failed", "failTurnEnd", "failAgentEnd",
        "failFinish"}
CallId == [turn : Nat, index : Nat]
Entry == [role : {"user"}, msg : Msg]
         \cup [role : {"assistant"}, turn : Nat, stop : Stops \cup {"pending"}, calls : Nat]
         \cup [role : {"toolResult"}, call : CallId]
Statuses == {"queued", "started", "prepared", "running", "executed", "ended"}

(* Every variable holds a value of the type the source gives it.             *)
TypeOK ==
  /\ activeRun \in BOOLEAN /\ aborted \in BOOLEAN /\ errorMessage \in BOOLEAN
  /\ messages \in Seq(Entry) /\ context \in Seq(Entry) /\ newMessages \in Seq(Entry)
  /\ todo \in Seq(Entry) /\ pending \in Seq(Msg)
  /\ streamingMessage \in {"none", "user", "assistant", "toolResult"}
  /\ pendingToolCalls \subseteq CallId /\ detached \subseteq CallId
  /\ steeringQueue \in Seq(Msg) /\ followUpQueue \in Seq(Msg)
  /\ steeringMode \in QueueModes /\ followUpMode \in QueueModes
  /\ pc \in Pcs
  /\ firstTurn \in BOOLEAN /\ hasMoreToolCalls \in BOOLEAN
  /\ skipInitialSteeringPoll \in BOOLEAN
  /\ turn \in Nat /\ reply \in Entry /\ reply.role = "assistant"
  /\ batch \in {"truncated", "sequential", "parallel"}
  /\ calls \in Seq(Statuses) /\ terminating \subseteq Nat /\ cursor \in Nat
  /\ runs \in Nat /\ runStart \in Nat /\ steeringDrains \in Nat /\ agentEnds \in Nat
  /\ sent \subseteq Msg /\ dropped \subseteq Msg

Count(s, m) == Cardinality({i \in 1..Len(s) : s[i] = m})

(* A message handed to prompt, steer or followUp is at every moment in       *)
(* exactly one place: a queue, the loop's hands, or the transcript.  It is   *)
(* never delivered twice, and disappears only when the caller clears it or   *)
(* the run holding it fails.                                                 *)
MessageConservation ==
  \A m \in sent :
    Count(steeringQueue, m) + Count(followUpQueue, m) + Count(pending, m)
      + Count(todo, User(m)) + Count(messages, User(m))
      + (IF m \in dropped THEN 1 ELSE 0) = 1

(* Steering is taken from its queue at most once per turn, however many      *)
(* polls the turn makes (the comment at agent-loop.ts:225).                  *)
SteeringOncePerTurn == steeringDrains <= 1

(* In the transcript the results of an assistant message stand right after   *)
(* it, in the order of its calls, however the tools were interleaved.        *)
ResultsFollowTheirCalls ==
  \A i \in 1..Len(messages) : messages[i].role = "toolResult" =>
    LET c == messages[i].call
        p == messages[i - 1]
    IN /\ i > 1
       /\ IF c.index = 1
          THEN p.role = "assistant" /\ p.turn = c.turn
          ELSE p = ToolResult([c EXCEPT !.index = @ - 1])

(* Unless the run was aborted, the model is never asked to go on before      *)
(* every tool call it made in this run has its result.                       *)
RequestHasAllResults ==
  pc = "stream" /\ ~aborted =>
    \A i \in (runStart + 1)..Len(context) : context[i].role = "assistant" =>
      \A n \in 1..context[i].calls :
        \E j \in (i + 1)..Len(context) :
          context[j] = ToolResult([turn |-> context[i].turn, index |-> n])

(* What the model is sent is the transcript the agent shows: the loop's      *)
(* context and the messages recorded from its events never drift apart.      *)
ContextIsTranscript ==
  /\ pc = "stream" => context = messages
  /\ pc = "finish" => newMessages = SubSeq(messages, runStart + 1, Len(messages))

(* pendingToolCalls names exactly the calls started and not yet ended, and   *)
(* nothing between runs, even if tools of a failed run are still running.    *)
PendingCallsAreCurrent ==
  pc \notin {"failed", "failTurnEnd", "failAgentEnd", "failFinish"} =>
    pendingToolCalls =
      {Call(i) : i \in {j \in 1..Len(calls) : calls[j] \notin {"queued", "ended"}}}

(* An abort ends the run, whatever is queued and whatever tools do.          *)
AbortEndsRun == (activeRun /\ aborted) ~> ~activeRun

(* agent.ts:276: "`agent_end` is the final emitted event for a run".         *)
AgentEndIsFinal == [][agentEnds = 1 /\ activeRun => pc' \in {"finish", "idle"}]_pc
================================================================================
