------------------------------ MODULE AgentSession ------------------------------
(***************************************************************************)
(* AgentSession (packages/coding-agent/src/core/agent-session.ts): prompts *)
(* and their preflight, automatic retry, automatic and manual compaction,  *)
(* tree navigation, deferred bash results and custom messages, abort and   *)
(* waitForIdle, around one Agent and one branch of the session file.       *)
(*                                                                         *)
(* The Agent is abstract here (AgentLoop has its detail): a run asks for   *)
(* replies, runs tools, takes queued messages between turns and ends.  A   *)
(* message is its kind; a queue is its length.  Code between two awaits is *)
(* one action, and pc names the await a prompt() call is suspended at.     *)
(***************************************************************************)
EXTENDS Integers, Sequences, FiniteSets

CONSTANTS
  Caller,      \* calls of prompt() (or of a custom message that triggers a turn)
  MaxReplies,  \* replies after which the model just stops (bound)
  MaxQueued,   \* most messages queued with steer() or followUp() (bound)
  MaxNotes,    \* most bash results and context-only custom messages (bound)
  MaxMoves,    \* most navigations of the session tree (bound)
  MaxCompactions, \* most compactions on the branch (bound)
  MaxRetries,  \* settings.retry.maxRetries
  Patient      \* see Quiet: one client, outside the process, that awaits its calls

ASSUME ConstantsAssumption ==
  /\ MaxReplies \in Nat /\ MaxQueued \in Nat /\ MaxNotes \in Nat
  /\ MaxMoves \in Nat /\ MaxCompactions \in Nat /\ MaxRetries \in Nat
  /\ Patient \in BOOLEAN

VARIABLES
  pc,                \* where each prompt() call is
  job,               \* why a call compacts: "pre" | "preRetry" | "turn" | "retry" | "threshold"
  cut,               \* the first kept entry of each compaction being summarized
  msg,               \* the reply a call's _handlePostAgentRun looks at
  isAgentRunActive, retryAttempt, overflowRecoveryAttempted, lastAssistantMessage,
  (* abort controllers: "none" | "set" | "aborted" *)
  retryCtl, autoCtl, compactionCtl, branchCtl,
  compactPc,         \* compact(): "idle" | "waiting" | "auth" | "running" | "done"
  navTo,             \* length of the branch navigateTree() moves to
  waiters,           \* who awaits the idle promise
  pendingBash, pendingCustom, pendingNextTurn,
  (* the agent *)
  activeRun, runAborted, phase,
  queued,            \* messages in its two queues
  taken,             \* messages polled from them and not yet injected
  messages,          \* agent.state.messages
  branch,            \* the entries on the session's current branch
  (* history *)
  replies, steered, notes, moves,
  recorded           \* notes that reached the session

callVars  == <<pc, job, cut, msg>>
retryVars == <<retryAttempt, overflowRecoveryAttempted, lastAssistantMessage>>
ctlVars   == <<retryCtl, autoCtl, compactionCtl, branchCtl>>
pendVars  == <<pendingBash, pendingCustom, pendingNextTurn>>
runVars   == <<activeRun, runAborted, phase>>
queueVars == <<queued, taken>>
logVars   == <<messages, branch, recorded>>
histVars  == <<replies, steered, notes, moves>>
vars == <<callVars, isAgentRunActive, retryVars, ctlVars, compactPc, navTo, waiters, pendVars,
          runVars, queueVars, logVars, histVars>>

(* The manual compaction has a cut of its own. *)
Manual == "manual"

Init ==
  /\ pc = [c \in Caller |-> "idle"] /\ job = [c \in Caller |-> "pre"]
  /\ cut = [c \in Caller \cup {Manual} |-> 0] /\ msg = [c \in Caller |-> "none"]
  /\ isAgentRunActive = FALSE /\ retryAttempt = 0 /\ overflowRecoveryAttempted = FALSE
  /\ lastAssistantMessage = "none"
  /\ retryCtl = "none" /\ autoCtl = "none" /\ compactionCtl = "none" /\ branchCtl = "none"
  /\ compactPc = "idle" /\ navTo = 0 /\ waiters = {}
  /\ pendingBash = 0 /\ pendingCustom = 0 /\ pendingNextTurn = 0
  /\ activeRun = FALSE /\ runAborted = FALSE /\ phase = "none" /\ queued = 0 /\ taken = 0
  /\ messages = <<>> /\ branch = <<>> /\ recorded = 0
  /\ replies = 0 /\ steered = 0 /\ notes = 0 /\ moves = 0

--------------------------------------------------------------------------------
(* The transcript and the session branch *)

(* Kinds of assistant message; an "overflow" is an error, a "length" is a   *)
(* reply cut off by the token limit.                                        *)
Replied == {"call", "stop", "length", "error", "overflow", "aborted"}
Failed == {"error", "overflow"}
Notes(n) == [i \in 1..n |-> "note"]

Last(s) == s[Len(s)]
EndsInAssistant(s) == s # <<>> /\ Last(s) \in Replied
DropAssistant(s) == IF EndsInAssistant(s) THEN SubSeq(s, 1, Len(s) - 1) ELSE s
Highest(S) == CHOOSE n \in S : \A k \in S : k <= n

(* An entry; a compaction is a "summary" that names the first entry kept    *)
(* before it (0: that entry is not on the branch any more).                 *)
Entry(k) == [kind |-> k, kept |-> 0]
Compaction(i) == [kind |-> "summary", kept |-> i]
Kinds(b) == [i \in 1..Len(b) |-> b[i].kind]

LastCompaction(b) == Highest({0} \cup {i \in 1..Len(b) : b[i].kind = "summary"})
FirstKept(b, p) == IF b[p].kept = 0 THEN p + 1 ELSE b[p].kept

(* buildContextEntries: the last summary, what it kept, what followed it.   *)
BuildContext(b) ==
  LET p == LastCompaction(b)
      ks == Kinds(b)
  IN  IF p = 0 THEN ks
      ELSE <<"summary">> \o SubSeq(ks, FirstKept(b, p), p - 1) \o SubSeq(ks, p + 1, Len(b))

(* prepareCompaction and findCutPoint: any message but a tool result may be *)
(* the first one kept, if that leaves something to summarize.               *)
CutPoints(b) ==
  LET p == LastCompaction(b)
      start == IF p = 0 THEN 1 ELSE FirstKept(b, p)
  IN  {k \in start..Len(b) : p # Len(b) /\ b[k].kind \notin {"result", "summary"}
                             /\ \E j \in start..(k - 1) : b[j].kind # "summary"}

(* A message goes to the transcript and to the session.                     *)
Record(ks) ==
  /\ messages' = messages \o ks
  /\ branch' = branch \o [i \in 1..Len(ks) |-> Entry(ks[i])]
  /\ recorded' = recorded + Cardinality({i \in 1..Len(ks) : ks[i] = "note"})

At(c, p) == pc[c] = p
Go(c, p) == pc' = [pc EXCEPT ![c] = p]

--------------------------------------------------------------------------------
(* Idleness *)

Idle == ~isAgentRunActive /\ autoCtl = "none" /\ compactionCtl = "none" /\ branchCtl = "none"

(* Mutant: nobody who waits for the session is told.                        *)
ResolveNobody(active, auto, compaction, nav) == UNCHANGED waiters

(* _resolveIdleWaitIfIdle, once these four are what they will be.           *)
ResolveIdleWaitIfIdle(active, auto, compaction, nav) ==
  waiters' = IF ~active /\ auto = "none" /\ compaction = "none" /\ nav = "none" THEN {} ELSE waiters

--------------------------------------------------------------------------------
(* Client calls *)

InPreflight(c) == pc[c] \in {"auth", "send"}
                  \/ (pc[c] \in {"compactAuth", "compacting"} /\ job[c] \in {"pre", "preRetry"})
(* Suspended on a request, a process, a timer or a file, not just on a promise job. *)
Parked(c) == \/ pc[c] \in {"idle", "done", "auth", "retry", "compactAuth", "compacting"}
             \/ pc[c] = "run" /\ phase \in {"request", "tools"}

(* A patient client is outside the process, so it acts when every call is   *)
(* parked, and it awaits preflights, navigateTree() and compact().          *)
Quiet == Patient => branchCtl = "none" /\ \A c \in Caller : Parked(c) /\ ~InPreflight(c)
Alone == Quiet /\ (Patient => compactPc \in {"idle", "done"})

(* Mutant: a manual compaction does not keep prompts out.                   *)
NeverCompacting == TRUE

NotCompacting == compactionCtl = "none"

(* prompt: rejected during a manual compaction, ...                         *)
PromptRejected(c) ==
  /\ Quiet /\ At(c, "idle") /\ ~NotCompacting
  /\ Go(c, "done")
  /\ UNCHANGED <<job, cut, msg, isAgentRunActive, retryVars, ctlVars, compactPc, navTo, waiters,
                 pendVars, runVars, queueVars, logVars, histVars>>

(* ... queued while a run is active, ...                                    *)
Enqueue ==
  /\ steered < MaxQueued /\ steered' = steered + 1
  /\ queued' = queued + 1 /\ UNCHANGED taken

PromptQueued(c) ==
  /\ Quiet /\ At(c, "idle") /\ NotCompacting /\ isAgentRunActive
  /\ Enqueue
  /\ Go(c, "done")
  /\ UNCHANGED <<job, cut, msg, isAgentRunActive, retryVars, ctlVars, compactPc, navTo, waiters,
                 pendVars, runVars, logVars, replies, notes, moves>>

(* steer, followUp: queued whatever the session does.                       *)
Steer ==
  /\ Quiet /\ Enqueue
  /\ UNCHANGED <<callVars, isAgentRunActive, retryVars, ctlVars, compactPc, navTo, waiters,
                 pendVars, runVars, logVars, replies, notes, moves>>

ClearQueue ==
  /\ Quiet /\ queued > 0 /\ queued' = 0
  /\ UNCHANGED <<callVars, isAgentRunActive, retryVars, ctlVars, compactPc, navTo, waiters,
                 pendVars, runVars, taken, logVars, histVars>>

(* Mutant: what is flushed is not saved.                                    *)
FlushUnsaved == pendingBash' = 0 /\ pendingCustom' = 0 /\ UNCHANGED logVars

(* _flushPendingBashMessages and _flushPendingCustomMessages                *)
FlushPending == /\ Record(Notes(pendingBash + pendingCustom))
                /\ pendingBash' = 0 /\ pendingCustom' = 0

(* ... and otherwise preflighted: first the credentials are checked.        *)
PromptPreflight(c) ==
  /\ Quiet /\ (Patient => compactPc # "waiting")
  /\ At(c, "idle") /\ NotCompacting /\ ~isAgentRunActive
  /\ FlushPending
  /\ Go(c, "auth")
  /\ UNCHANGED <<job, cut, msg, isAgentRunActive, retryVars, ctlVars, compactPc, navTo, waiters,
                 pendingNextTurn, runVars, queueVars, histVars>>

noteRest == <<callVars, isAgentRunActive, retryVars, ctlVars, compactPc, navTo, waiters, runVars,
              queueVars, replies, steered, moves>>
Note == notes < MaxNotes /\ notes' = notes + 1

(* Mutant: a bash result is recorded at once, run or no run.                *)
RecordBashAtOnce == Note /\ Record(Notes(1)) /\ UNCHANGED <<noteRest, pendVars>>

(* recordBashResult: deferred to the end of the run while one is active.    *)
RecordBashResult ==
  /\ Note
  /\ IF isAgentRunActive THEN pendingBash' = pendingBash + 1 /\ UNCHANGED logVars
                         ELSE Record(Notes(1)) /\ UNCHANGED pendingBash
  /\ UNCHANGED <<noteRest, pendingCustom, pendingNextTurn>>

(* sendCustomMessage without a turn: kept for the next prompt, deferred to  *)
(* the end of the turn, or recorded.  (Steer and TriggerTurn are the rest.) *)
SendCustomMessage ==
  /\ Note
  /\ \/ /\ pendingNextTurn' = pendingNextTurn + 1
        /\ UNCHANGED <<pendingCustom, logVars>>
     \/ /\ isAgentRunActive /\ pendingCustom' = pendingCustom + 1
        /\ UNCHANGED <<pendingNextTurn, logVars>>
     \/ /\ ~isAgentRunActive /\ Record(Notes(1))
        /\ UNCHANGED <<pendingNextTurn, pendingCustom>>
  /\ UNCHANGED <<noteRest, pendingBash>>

(* Mutant: an aborted controller is given up at once.                       *)
Dropped(ctl) == "none"

Aborted(ctl) == IF ctl = "set" THEN "aborted" ELSE ctl

(* abort: every controller that exists is aborted; then waitForIdle.        *)
AbortAll(who) ==
  /\ retryCtl' = Aborted(retryCtl) /\ autoCtl' = Aborted(autoCtl)
  /\ compactionCtl' = Aborted(compactionCtl) /\ branchCtl' = Aborted(branchCtl)
  /\ runAborted' = (runAborted \/ activeRun)
  /\ waiters' = IF Idle THEN waiters ELSE waiters \cup {who}

Abort ==
  /\ Quiet /\ "abort" \notin waiters
  /\ AbortAll("abort")
  /\ UNCHANGED <<callVars, isAgentRunActive, retryVars, compactPc, navTo, pendVars, activeRun,
                 phase, queueVars, logVars, replies, steered, notes, moves>>

(* abortRetry, abortCompaction and abortBranchSummary by themselves.        *)
AbortOne ==
  /\ \/ retryCtl = "set" /\ retryCtl' = "aborted"
        /\ UNCHANGED <<autoCtl, compactionCtl, branchCtl>>
     \/ "set" \in {autoCtl, compactionCtl}
        /\ autoCtl' = Aborted(autoCtl) /\ compactionCtl' = Aborted(compactionCtl)
        /\ UNCHANGED <<retryCtl, branchCtl>>
     \/ branchCtl = "set" /\ branchCtl' = "aborted"
        /\ UNCHANGED <<retryCtl, autoCtl, compactionCtl>>
  /\ UNCHANGED <<callVars, isAgentRunActive, retryVars, compactPc, navTo, waiters, pendVars,
                 runVars, queueVars, logVars, histVars>>

--------------------------------------------------------------------------------
(* Runs of the agent *)

(* _runAgentPrompt's finally: flush what was deferred, then agent_settled.  *)
Settle(c) ==
  /\ FlushPending
  /\ isAgentRunActive' = FALSE
  /\ ResolveIdleWaitIfIdle(FALSE, autoCtl, compactionCtl, branchCtl)
  /\ Go(c, "done") /\ job' = [job EXCEPT ![c] = "pre"] /\ msg' = [msg EXCEPT ![c] = "none"]
  /\ UNCHANGED <<cut, retryVars, ctlVars, compactPc, navTo, runVars, queueVars,
                 replies, steered, notes, moves>>

(* agent.prompt throws if the agent is busy, and the caller settles the     *)
(* session; otherwise a run starts with its messages in the transcript.     *)
RunAgentPrompt(c, ks) ==
  \/ activeRun /\ Settle(c)
  \/ /\ ~activeRun
     /\ isAgentRunActive' = TRUE /\ activeRun' = TRUE /\ runAborted' = FALSE
     /\ phase' = "poll"
     /\ Record(ks)
     /\ overflowRecoveryAttempted' = (overflowRecoveryAttempted /\ ks[1] # "user")
     /\ Go(c, "run")
     /\ UNCHANGED <<job, cut, msg, retryAttempt, lastAssistantMessage, ctlVars, compactPc, navTo,
                    waiters, pendingBash, pendingCustom, queueVars, histVars>>

(* prompt after its preflight, with the messages kept for it                *)
Send(c) ==
  /\ At(c, "send")
  /\ RunAgentPrompt(c, <<"user">> \o Notes(pendingNextTurn))
  /\ pendingNextTurn' = 0

(* sendCustomMessage with triggerTurn: a run at once, without preflight.    *)
TriggerTurn(c) ==
  /\ Alone /\ At(c, "idle") /\ ~isAgentRunActive
  /\ RunAgentPrompt(c, <<"custom">>)
  /\ UNCHANGED pendingNextTurn

Running(c, p) == At(c, "run") /\ phase = p
turnRest == <<cut, msg, isAgentRunActive, ctlVars, compactPc, navTo, waiters, pendingBash,
              pendingNextTurn, activeRun, runAborted, steered, notes, moves>>

(* The model replies, _handleAgentEvent at message_end and, for a reply     *)
(* without tool calls, at turn_end.  (A reply cut off in its tool calls is  *)
(* a "call": its calls fail and get results like any other.)                *)
Reply(c, k) ==
  /\ Running(c, "request")
  /\ k \in IF runAborted THEN {"aborted"}
           ELSE IF replies < MaxReplies THEN Replied \ {"aborted"} ELSE {"stop"}
  /\ replies' = IF replies < MaxReplies THEN replies + 1 ELSE replies
  /\ lastAssistantMessage' = k
  /\ overflowRecoveryAttempted' = (overflowRecoveryAttempted /\ k \in Failed \cup {"length"})
  /\ retryAttempt' = IF k \in Failed THEN retryAttempt ELSE 0
  /\ IF k = "call" THEN phase' = "tools" /\ Record(<<k>>) /\ UNCHANGED pendingCustom
     ELSE /\ phase' = IF k \in Failed \cup {"aborted"} THEN "ended" ELSE "stopped"
          /\ Record(<<k>> \o Notes(pendingCustom)) /\ pendingCustom' = 0
  /\ UNCHANGED <<turnRest, pc, job, queueVars>>

(* The tools finish (an aborted batch may break off before); turn_end.      *)
ToolsFinish(c) ==
  /\ Running(c, "tools")
  /\ phase' = "turn"
  /\ \/ Record(<<"result">> \o Notes(pendingCustom))
     \/ runAborted /\ Record(Notes(pendingCustom))
  /\ pendingCustom' = 0
  /\ UNCHANGED <<turnRest, pc, job, retryVars, queueVars, replies>>

(* Before another turn the session may compact (prepareNextTurn).           *)
PrepareNextTurn(c) ==
  /\ phase' = "poll"
  /\ \/ UNCHANGED <<pc, job>>
     \/ Go(c, "compactAuth") /\ job' = [job EXCEPT ![c] = "turn"]

Take == queued > 0 /\ queued' = queued - 1 /\ taken' = 1

(* After a batch: another turn, with a steering message or without, or, if  *)
(* the batch terminates the run, none.                                      *)
NextTurn(c) ==
  /\ Running(c, "turn")
  /\ \/ (Take \/ UNCHANGED queueVars) /\ PrepareNextTurn(c)
     \/ phase' = "stopped" /\ UNCHANGED <<pc, job, queueVars>>
  /\ UNCHANGED <<turnRest, retryVars, pendingCustom, logVars, replies>>

(* Before it stops the loop polls both queues.                              *)
PollQueues(c) ==
  /\ Running(c, "stopped")
  /\ \/ Take /\ PrepareNextTurn(c)
     \/ queued = 0 /\ phase' = "ended" /\ UNCHANGED <<pc, job, queueVars>>
  /\ UNCHANGED <<turnRest, retryVars, pendingCustom, logVars, replies>>

(* What was polled goes in before the request; if nothing was, steering is  *)
(* polled once more.                                                        *)
Inject(c) ==
  /\ Running(c, "poll")
  /\ phase' = "request"
  /\ taken' = 0
  /\ \/ taken = 0 /\ UNCHANGED <<queued, logVars, overflowRecoveryAttempted>>
     \/ /\ queued' = queued - (1 - taken) /\ queued' >= 0
        /\ \E k \in {"user", "custom"} :
             /\ Record(<<k>>)
             /\ overflowRecoveryAttempted' = (overflowRecoveryAttempted /\ k # "user")
  /\ UNCHANGED <<turnRest, pc, job, retryAttempt, lastAssistantMessage, pendingCustom, replies>>

RunEnds(c) ==
  /\ Running(c, "ended")
  /\ activeRun' = FALSE /\ runAborted' = FALSE /\ phase' = "none"
  /\ Go(c, "post")
  /\ UNCHANGED <<job, cut, msg, isAgentRunActive, retryVars, ctlVars, compactPc, navTo, waiters,
                 pendVars, queueVars, logVars, histVars>>

--------------------------------------------------------------------------------
(* _handlePostAgentRun and _prepareRetry *)

postRest == <<job, cut, isAgentRunActive, overflowRecoveryAttempted, autoCtl, compactionCtl,
              branchCtl, compactPc, navTo, waiters, pendVars, runVars, queueVars, branch,
              recorded, histVars>>

(* Mutants: one retry too many; the attempts of a lost retry sequence stay. *)
OneRetryMore == retryAttempt <= MaxRetries
KeepAttempts == UNCHANGED retryAttempt

RetriesLeft == retryAttempt < MaxRetries
(* auto_retry_end with the final error *)
GiveUpRetrying == retryAttempt' = 0

(* A retryable error is taken out of the transcript and backed off from.    *)
PostRun(c) ==
  /\ At(c, "post")
  /\ msg' = [msg EXCEPT ![c] = lastAssistantMessage] /\ lastAssistantMessage' = "none"
  /\ \/ /\ lastAssistantMessage = "none" /\ Go(c, "settle")
        /\ UNCHANGED <<retryAttempt, retryCtl, messages>>
     \/ /\ lastAssistantMessage = "error" /\ RetriesLeft
        /\ retryAttempt' = retryAttempt + 1 /\ retryCtl' = "set"
        /\ messages' = DropAssistant(messages)
        /\ Go(c, "retry")
     \/ /\ lastAssistantMessage # "none" /\ ~(lastAssistantMessage = "error" /\ RetriesLeft)
        /\ IF lastAssistantMessage \in Failed THEN GiveUpRetrying ELSE UNCHANGED retryAttempt
        /\ Go(c, "check")
        /\ UNCHANGED <<retryCtl, messages>>
  /\ UNCHANGED postRest

(* Mutant: a cancelled backoff is slept through to its end and never ends.  *)
SleepOn(c) ==
  /\ At(c, "retry") /\ retryCtl = "set"
  /\ retryCtl' = "none" /\ Go(c, "continue")
  /\ UNCHANGED <<postRest, retryAttempt, msg, lastAssistantMessage, messages>>

(* The backoff ends, or is cancelled.                                       *)
RetryWakes(c) ==
  /\ At(c, "retry")
  /\ retryCtl' = "none"
  /\ \/ retryCtl # "aborted" /\ Go(c, "continue") /\ UNCHANGED retryAttempt
     \/ retryCtl = "aborted" /\ Go(c, "check") /\ retryAttempt' = 0
  /\ UNCHANGED <<postRest, msg, lastAssistantMessage, messages>>

Decide(c) ==
  /\ At(c, "decide")
  /\ Go(c, IF queued > 0 THEN "continue" ELSE "settle")
  /\ UNCHANGED <<job, cut, msg, isAgentRunActive, retryVars, ctlVars, compactPc, navTo, waiters,
                 pendVars, runVars, queueVars, logVars, histVars>>

(* Mutant: agent.continue does not look for an active run.                  *)
RejectedIfNothingToContinue == messages = <<>> \/ (EndsInAssistant(messages) /\ queued = 0)

(* agent.continue: behind an assistant message only a queued message can    *)
(* start a run; behind anything else the transcript is continued as it is.  *)
Rejected == activeRun \/ messages = <<>> \/ (EndsInAssistant(messages) /\ queued = 0)

ContinueRun(c) ==
  /\ At(c, "continue") /\ ~Rejected
  /\ activeRun' = TRUE /\ runAborted' = FALSE /\ phase' = "poll"
  /\ IF EndsInAssistant(messages) THEN Take ELSE UNCHANGED queueVars
  /\ Go(c, "run")
  /\ UNCHANGED <<job, cut, msg, isAgentRunActive, retryVars, ctlVars, compactPc, navTo, waiters,
                 pendVars, logVars, histVars>>

(* Mutant: the session settles before it looks for another run to start.    *)
SettleEarly(c) ==
  /\ pc[c] \in {"settle", "check"} \/ (At(c, "continue") /\ Rejected)
  /\ FlushPending
  /\ isAgentRunActive' = FALSE
  /\ ResolveIdleWaitIfIdle(FALSE, autoCtl, compactionCtl, branchCtl)
  /\ Go(c, IF At(c, "check") THEN "decide" ELSE "done")
  /\ UNCHANGED <<job, cut, msg, retryVars, ctlVars, compactPc, navTo, runVars, queueVars,
                 pendingNextTurn, replies, steered, notes, moves>>

SettleRun(c) ==
  /\ At(c, "settle") \/ (At(c, "continue") /\ Rejected)
  /\ Settle(c)
  /\ UNCHANGED pendingNextTurn

--------------------------------------------------------------------------------
(* Compaction *)

compactRest == <<msg, isAgentRunActive, retryAttempt, lastAssistantMessage, retryCtl,
                 compactionCtl, branchCtl, compactPc, navTo, pendVars, runVars, queueVars,
                 recorded, histVars>>

(* _checkCompaction on a reply: nothing to do, ...                          *)
NoCompaction(c, next) ==
  /\ Go(c, next)
  /\ UNCHANGED <<job, messages, overflowRecoveryAttempted>>

(* (a reply from before the last compaction is never acted on)              *)
Fresh == \E i \in (LastCompaction(branch) + 1)..Len(branch) : branch[i].kind \in Replied

(* ... an overflow or a truncated reply, recovered from once by dropping it *)
(* and compacting, or ...                                                   *)
RecoverOverflow(c, why) ==
  /\ Fresh /\ ~overflowRecoveryAttempted /\ overflowRecoveryAttempted' = TRUE
  /\ messages' = DropAssistant(messages)
  /\ Go(c, "compactAuth") /\ job' = [job EXCEPT ![c] = why]

(* ... a context over its threshold, or a complete reply over the window.   *)
OverThreshold(c, why) ==
  /\ Fresh /\ Go(c, "compactAuth") /\ job' = [job EXCEPT ![c] = why]
  /\ UNCHANGED <<messages, overflowRecoveryAttempted>>

(* After a run; an aborted reply is left alone.                             *)
CheckAfterRun(c) ==
  /\ At(c, "check")
  /\ \/ NoCompaction(c, "decide")
     \/ msg[c] \in {"overflow", "length"} /\ RecoverOverflow(c, "retry")
     \/ msg[c] \notin {"overflow", "aborted"} /\ OverThreshold(c, "threshold")
  /\ UNCHANGED <<compactRest, cut, autoCtl, waiters, branch>>

(* In the preflight, on the last reply there is, once the credentials are   *)
(* known; without them the prompt is given up.                              *)
CheckBeforePrompt(c) ==
  /\ At(c, "auth")
  /\ \/ NoCompaction(c, "done")
     \/ NoCompaction(c, "send")
     \/ LET said == {i \in 1..Len(messages) : messages[i] \in Replied}
        IN  /\ said # {}
            /\ \/ /\ messages[Highest(said)] \in {"overflow", "length"}
                  /\ RecoverOverflow(c, "preRetry")
               \/ /\ messages[Highest(said)] # "overflow"
                  /\ OverThreshold(c, "pre")
  /\ UNCHANGED <<compactRest, cut, autoCtl, waiters, branch>>

(* Where _runAutoCompaction returns to.                                     *)
Return(c, retry) ==
  Go(c, CASE job[c] \in {"pre", "preRetry"} -> "send"
          [] job[c] = "turn"                -> "run"
          [] OTHER                          -> IF retry THEN "continue" ELSE "decide")

(* Its finally: the controller that all calls share is cleared.             *)
ClearAutoCompaction ==
  /\ autoCtl' = "none"
  /\ ResolveIdleWaitIfIdle(isAgentRunActive, "none", compactionCtl, branchCtl)

(* A cut to compact at; the bound counts the compactions on the branch.     *)
Prepare(who) ==
  /\ Cardinality({i \in 1..Len(branch) : branch[i].kind = "summary"}) < MaxCompactions
  /\ \E k \in CutPoints(branch) : cut' = [cut EXCEPT ![who] = k]

(* _runAutoCompaction, once its credentials are known: it returns if there  *)
(* is nothing to compact, or asks for a summary of what precedes a cut.     *)
AutoCompactionStart(c) ==
  /\ At(c, "compactAuth")
  /\ \/ ClearAutoCompaction /\ Return(c, FALSE) /\ UNCHANGED cut
     \/ /\ Prepare(c)
        /\ autoCtl' = "set" /\ Go(c, "compacting")
        /\ UNCHANGED waiters
  /\ UNCHANGED <<compactRest, job, messages, branch, overflowRecoveryAttempted>>

Forget(who) == cut' = [cut EXCEPT ![who] = 0]

(* The summary failed, was aborted, or another call cleared the controller. *)
AutoCompactionFails(c) ==
  /\ At(c, "compacting")
  /\ ClearAutoCompaction /\ Forget(c)
  /\ Return(c, FALSE)
  /\ UNCHANGED <<compactRest, job, messages, branch, overflowRecoveryAttempted>>

(* Mutant: the failed reply that the session still has is retried behind.   *)
RebuiltAsIs(c, b) == BuildContext(b)

(* The transcript is rebuilt from the session; before a retry, the failed   *)
(* reply this may have brought back is dropped again.                       *)
Rebuilt(c, b) ==
  LET s == BuildContext(b)
  IN  IF job[c] \in {"retry", "preRetry"} /\ Last(s) \in Failed \cup {"length"}
      THEN DropAssistant(s) ELSE s

AutoCompactionSucceeds(c) ==
  /\ At(c, "compacting") /\ autoCtl = "set"
  /\ branch' = Append(branch, Compaction(cut[c]))
  /\ messages' = Rebuilt(c, branch')
  /\ ClearAutoCompaction /\ Forget(c)
  /\ Return(c, job[c] = "retry")
  /\ UNCHANGED <<compactRest, job, overflowRecoveryAttempted>>

manualRest == <<pc, job, msg, isAgentRunActive, retryVars, navTo, pendVars, activeRun, phase,
                queueVars, recorded, replies, steered, notes, moves>>

(* compact: abort and wait, ...                                             *)
Compact ==
  /\ Alone /\ compactPc = "idle"
  /\ compactPc' = "waiting"
  /\ AbortAll("compact")
  /\ UNCHANGED <<manualRest, cut, messages, branch>>

(* ... then take the controller, which keeps prompts out, ...               *)
CompactStart ==
  /\ compactPc = "waiting" /\ "compact" \notin waiters
  /\ compactPc' = "auth" /\ compactionCtl' = "set"
  /\ UNCHANGED <<manualRest, cut, messages, branch, retryCtl, autoCtl, branchCtl, waiters,
                 runAborted>>

(* _clearManualCompactionState *)
ClearManualCompactionState ==
  /\ compactPc' = "done" /\ compactionCtl' = "none" /\ Forget(Manual)
  /\ ResolveIdleWaitIfIdle(isAgentRunActive, autoCtl, "none", branchCtl)

CompactPrepare ==
  /\ compactPc = "auth"
  /\ \/ ClearManualCompactionState
     \/ /\ compactPc' = "running"
        /\ Prepare(Manual)
        /\ UNCHANGED <<compactionCtl, waiters>>
  /\ UNCHANGED <<manualRest, messages, branch, retryCtl, autoCtl, branchCtl, runAborted>>

(* ... and append the summary, unless it failed or was aborted.             *)
CompactFinish ==
  /\ compactPc = "running"
  /\ \/ /\ compactionCtl = "set"
        /\ branch' = Append(branch, Compaction(cut[Manual]))
        /\ messages' = BuildContext(branch')
     \/ UNCHANGED <<messages, branch>>
  /\ ClearManualCompactionState
  /\ UNCHANGED <<manualRest, retryCtl, autoCtl, branchCtl, runAborted>>

--------------------------------------------------------------------------------
(* navigateTree, to an entry of the current branch *)

navRest == <<pc, job, msg, isAgentRunActive, retryVars, retryCtl, autoCtl, compactionCtl,
             compactPc, waiters, pendVars, runVars, queueVars, recorded, replies, steered, notes>>

(* The leaf becomes the target or, for a user or custom message, its parent. *)
Targets == {i \in 1..(Len(branch) - 1) : branch[i].kind # "user"}
           \cup {i - 1 : i \in {j \in 1..(Len(branch) - 1) : branch[j].kind \in {"user", "custom", "note"}}}

(* Compactions being summarized lose a first kept entry that is left behind. *)
MoveTo(n, ks) ==
  /\ branch' = SubSeq(branch, 1, n) \o [i \in 1..Len(ks) |-> Entry(ks[i])]
  /\ messages' = BuildContext(branch')
  /\ cut' = [w \in DOMAIN cut |-> IF cut[w] > n THEN 0 ELSE cut[w]]

(* Without a summary it is done at once; otherwise one is asked for.        *)
NavigateTree ==
  /\ Alone /\ Idle /\ moves < MaxMoves /\ moves' = moves + 1
  /\ \E n \in Targets :
       \/ MoveTo(n, <<>>) /\ UNCHANGED <<branchCtl, navTo>>
       \/ branchCtl' = "set" /\ navTo' = n /\ UNCHANGED <<messages, branch, cut>>
  /\ UNCHANGED navRest

(* The summary failed, was aborted, or is attached to the new leaf.  The    *)
(* finally clears the controller, but tells nobody who waits.               *)
NavigateFinish ==
  /\ branchCtl # "none"
  /\ \/ UNCHANGED <<messages, branch, cut>>
     \/ branchCtl = "set" /\ MoveTo(navTo, <<"custom">>)
  /\ branchCtl' = "none" /\ navTo' = 0
  /\ UNCHANGED <<navRest, moves>>

--------------------------------------------------------------------------------
Client ==
  \/ \E c \in Caller : \/ PromptRejected(c) \/ PromptQueued(c) \/ PromptPreflight(c)
                       \/ TriggerTurn(c)
  \/ Steer \/ ClearQueue \/ RecordBashResult \/ SendCustomMessage
  \/ Abort \/ AbortOne \/ Compact \/ NavigateTree

(* What the session, the agent and the provider do by themselves.           *)
Step ==
  \/ \E c \in Caller :
       \/ CheckBeforePrompt(c) \/ Send(c)
       \/ (\E k \in Replied : Reply(c, k)) \/ ToolsFinish(c) \/ NextTurn(c) \/ PollQueues(c)
       \/ Inject(c) \/ RunEnds(c)
       \/ PostRun(c) \/ RetryWakes(c) \/ CheckAfterRun(c) \/ Decide(c) \/ ContinueRun(c)
       \/ SettleRun(c)
       \/ AutoCompactionStart(c) \/ AutoCompactionFails(c) \/ AutoCompactionSucceeds(c)
  \/ CompactStart \/ CompactPrepare \/ CompactFinish \/ NavigateFinish

Next == Client \/ Step

(* The event loop runs every ready continuation, timers fire, and requests  *)
(* to the provider end: the session's own steps keep happening.             *)
Spec == Init /\ [][Next]_vars /\ WF_vars(Step)

--------------------------------------------------------------------------------
(* Properties *)

Pcs == {"idle", "auth", "send", "run", "post", "retry", "check", "decide", "continue",
        "settle", "compactAuth", "compacting", "done"}
Kind == Replied \cup {"user", "custom", "result", "note", "summary"}
Ctl == {"none", "set", "aborted"}

(* Every variable holds a value of the type the source gives it; a retry    *)
(* sequence never exceeds settings.retry.maxRetries, and a compaction keeps *)
(* entries before itself.                                                   *)
TypeOK ==
  /\ pc \in [Caller -> Pcs]
  /\ job \in [Caller -> {"pre", "preRetry", "turn", "retry", "threshold"}]
  /\ cut \in [Caller \cup {Manual} -> 0..Len(branch)]
  /\ msg \in [Caller -> Replied \cup {"none"}]
  /\ isAgentRunActive \in BOOLEAN /\ retryAttempt \in 0..MaxRetries
  /\ overflowRecoveryAttempted \in BOOLEAN /\ lastAssistantMessage \in Replied \cup {"none"}
  /\ {retryCtl, autoCtl, compactionCtl, branchCtl} \subseteq Ctl
  /\ compactPc \in {"idle", "waiting", "auth", "running", "done"}
  /\ navTo \in Nat /\ waiters \subseteq {"abort", "compact"}
  /\ pendingBash \in Nat /\ pendingCustom \in Nat /\ pendingNextTurn \in Nat
  /\ activeRun \in BOOLEAN /\ runAborted \in BOOLEAN /\ queued \in Nat /\ taken \in {0, 1}
  /\ phase \in {"none", "poll", "request", "tools", "turn", "stopped", "ended"}
  /\ messages \in Seq(Kind)
  /\ \A i \in 1..Len(branch) : branch[i].kind \in Kind /\ branch[i].kept \in 0..(i - 1)
  /\ replies \in 0..MaxReplies /\ steered \in 0..MaxQueued /\ notes \in 0..MaxNotes
  /\ moves \in 0..MaxMoves
  /\ recorded \in Nat

(* docs/rpc.md:865: once agent_settled is out, "no automatic retry,         *)
(* compaction retry, or queued continuation remains".                       *)
SettledMeansIdle ==
  ~isAgentRunActive =>
    /\ ~activeRun
    /\ \A c \in Caller : pc[c] \notin {"run", "post", "retry", "check", "decide", "continue"}

(* However prompts race, the agent runs for one caller at a time, and the   *)
(* caller is there to see the run through.                                  *)
RunsAreExclusive ==
  Cardinality({c \in Caller : pc[c] = "run" \/ (pc[c] \in {"compactAuth", "compacting"} /\ job[c] = "turn")})
    = IF activeRun THEN 1 ELSE 0

(* A tool result stands right behind its call, in the transcript and on the *)
(* branch, whatever is recorded, compacted, retried or navigated meanwhile. *)
ResultsStayWithCalls ==
  \A s \in {messages, Kinds(branch)} :
    \A i \in 1..Len(s) : s[i] = "result" => i > 1 /\ s[i - 1] = "call"

(* agent-session.ts:987: no prompt runs "while compaction is in progress".  *)
CompactionIsExclusive == compactionCtl # "none" => ~activeRun

(* An automatic compaction that is asking for its summary can be cancelled: *)
(* the one controller that all calls share is its own until it ends.        *)
CompactionCanBeAborted ==
  /\ Cardinality({c \in Caller : pc[c] = "compacting"}) <= 1
  /\ \A c \in Caller : pc[c] = "compacting" => autoCtl # "none"

(* A retry sequence announced with auto_retry_start is over, and its        *)
(* attempts are forgotten, by the time the session settles.                 *)
RetriesAreClosed == ~isAgentRunActive => retryAttempt = 0 /\ retryCtl = "none"

(* Every bash result and custom message reaches the session exactly once,   *)
(* and those deferred to the end of a run do not outlive it.                *)
NotesAreConserved ==
  /\ notes = recorded + pendingBash + pendingCustom + pendingNextTurn
  /\ ~isAgentRunActive => pendingBash = 0 /\ pendingCustom = 0

(* agent-session.ts:1957: "agent.continue() rejects that state", so a run   *)
(* that is to be continued is left in a state agent.continue() accepts.     *)
ContinueIsAccepted == \A c \in Caller : pc[c] = "continue" => ~Rejected

(* Every run settles: retries, recoveries and queued messages come to an    *)
(* end.                                                                     *)
RunsSettle == isAgentRunActive ~> ~isAgentRunActive

(* abort() returns once the session is idle (agent-session.ts:1314, "and    *)
(* wait for agent to become idle").                                         *)
AbortReturns == "abort" \in waiters ~> "abort" \notin waiters
================================================================================
