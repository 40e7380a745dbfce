--------------------------- MODULE AgentSessionProofs --------------------------
(***************************************************************************)
(* Proofs about AgentSession: runs are exclusive whoever calls; and for a  *)
(* client that awaits its calls, settled means idle, compactions exclude   *)
(* runs and can be aborted, and no note is lost or recorded twice.         *)
(***************************************************************************)
EXTENDS AgentSession, FiniteSetTheorems, SequenceTheorems, TLAPS

(* The types of what controls the session: everything but its log.           *)
CallsOK ==
  /\ pc \in [Caller -> Pcs]
  /\ job \in [Caller -> {"pre", "preRetry", "turn", "retry", "threshold"}]
  /\ msg \in [Caller -> Replied \cup {"none"}]
FlagsOK ==
  /\ isAgentRunActive \in BOOLEAN /\ overflowRecoveryAttempted \in BOOLEAN
  /\ activeRun \in BOOLEAN /\ runAborted \in BOOLEAN
SwitchesOK ==
  /\ lastAssistantMessage \in Replied \cup {"none"}
  /\ retryCtl \in Ctl /\ autoCtl \in Ctl /\ compactionCtl \in Ctl /\ branchCtl \in Ctl
  /\ compactPc \in {"idle", "waiting", "auth", "running", "done"}
  /\ waiters \subseteq {"abort", "compact"}
  /\ phase \in {"none", "poll", "request", "tools", "turn", "stopped", "ended"}
CountsOK ==
  /\ retryAttempt \in 0..MaxRetries
  /\ pendingBash \in Nat /\ pendingCustom \in Nat /\ pendingNextTurn \in Nat
  /\ queued \in Nat /\ taken \in {0, 1}
  /\ replies \in 0..MaxReplies /\ steered \in 0..MaxQueued /\ notes \in 0..MaxNotes
  /\ moves \in 0..MaxMoves
ControlOK == CallsOK /\ FlagsOK /\ SwitchesOK /\ CountsOK

(* Which calls have a run of the agent.                                      *)
Runner(c) == pc[c] = "run" \/ (pc[c] \in {"compactAuth", "compacting"} /\ job[c] = "turn")
RunInv ==
  /\ activeRun => \E c \in Caller : Runner(c)
  /\ \A c \in Caller : Runner(c) => activeRun
  /\ \A c, d \in Caller : Runner(c) /\ Runner(d) => c = d

(* The controller of a manual compaction, and who waits for it to begin.     *)
ManualInv ==
  /\ compactPc \in {"auth", "running"} <=> compactionCtl # "none"
  /\ "compact" \in waiters => compactPc = "waiting"

(* With a patient client one call at a time is under way, and it has the     *)
(* session to itself: isAgentRunActive says whether it is past its preflight,*)
(* and manual compaction and navigation find no call under way.              *)
Busy(c) == pc[c] \notin {"idle", "done"}
Unattended == \A c \in Caller : ~Busy(c)
LoneInv ==
  /\ \A c, d \in Caller : Busy(c) /\ Busy(d) => c = d
  /\ \A c \in Caller : Busy(c) => (isAgentRunActive <=> ~InPreflight(c))
  /\ isAgentRunActive => ~Unattended
  /\ compactPc \in {"auth", "running"} => Unattended
  /\ compactPc = "waiting" /\ "compact" \notin waiters => Unattended
  /\ compactPc = "waiting" => \A c \in Caller : ~InPreflight(c)
  /\ branchCtl # "none" => compactPc \in {"idle", "done"} /\ Unattended

(* The controllers of an automatic compaction and of a retry.                *)
ControllerInv ==
  /\ \A c \in Caller : pc[c] = "compacting" => autoCtl # "none"
  /\ retryCtl # "none" => \E c \in Caller : pc[c] = "retry"

NotesInv == NotesAreConserved /\ recorded \in Nat

(* What holds whoever calls, and what a patient client can rely on.          *)
AnyInv == ControlOK /\ RunInv /\ ManualInv
PatientInv == AnyInv /\ LoneInv /\ ControllerInv /\ NotesInv

--------------------------------------------------------------------------------
(* Types *)

(* Those who wait for the session to be idle are all told, or none of them.  *)
LEMMA Told ==
  ASSUME NEW a, NEW b, NEW m, NEW n, ResolveIdleWaitIfIdle(a, b, m, n)
  PROVE  waiters' = {} \/ waiters' = waiters
  BY DEF ResolveIdleWaitIfIdle

(* The calls keep their types.                                               *)
LEMMA CallsNext ==
  ASSUME CallsOK, SwitchesOK, [Next]_vars
  PROVE  CallsOK'
<1> USE DEF callVars, retryVars, ctlVars, pendVars, runVars, queueVars, logVars, histVars
<1>1. ASSUME NEW c \in Caller, PromptRejected(c) PROVE CallsOK'
  BY <1>1 DEF PromptRejected, At, Go, CallsOK, Pcs
<1>2. ASSUME NEW c \in Caller, PromptQueued(c) PROVE CallsOK'
  BY <1>2 DEF PromptQueued, At, Go, Enqueue, CallsOK, Pcs
<1>3. ASSUME NEW c \in Caller, PromptPreflight(c) PROVE CallsOK'
  BY <1>3 DEF PromptPreflight, At, Go, FlushPending, CallsOK, Pcs
<1>4. ASSUME NEW c \in Caller, TriggerTurn(c) PROVE CallsOK'
  BY <1>4 DEF TriggerTurn, At, Go, RunAgentPrompt, Settle, FlushPending, ResolveIdleWaitIfIdle, CallsOK, Pcs
<1>5. CASE Steer
  BY <1>5 DEF Steer, Enqueue, CallsOK, Pcs
<1>6. CASE ClearQueue
  BY <1>6 DEF ClearQueue, CallsOK, Pcs
<1>7. CASE RecordBashResult
  BY <1>7 DEF RecordBashResult, noteRest, Note, CallsOK, Pcs
<1>8. CASE SendCustomMessage
  BY <1>8 DEF SendCustomMessage, noteRest, Note, CallsOK, Pcs
<1>9. CASE Abort
  BY <1>9 DEF Abort, AbortAll, Aborted, CallsOK, Pcs
<1>10. CASE AbortOne
  BY <1>10 DEF AbortOne, Aborted, CallsOK, Pcs
<1>11. CASE Compact
  BY <1>11 DEF Compact, AbortAll, Aborted, manualRest, CallsOK, Pcs
<1>12. CASE NavigateTree
  BY <1>12 DEF NavigateTree, navRest, MoveTo, CallsOK, Pcs
<1>13. ASSUME NEW c \in Caller, CheckBeforePrompt(c) PROVE CallsOK'
  BY <1>13 DEF CheckBeforePrompt, At, Go, NoCompaction, RecoverOverflow, OverThreshold, compactRest, ResolveIdleWaitIfIdle, CallsOK, Pcs
<1>14. ASSUME NEW c \in Caller, Send(c) PROVE CallsOK'
  BY <1>14 DEF Send, At, Go, RunAgentPrompt, Settle, FlushPending, ResolveIdleWaitIfIdle, CallsOK, Pcs
<1>15. ASSUME NEW c \in Caller, NEW k \in Replied, Reply(c, k) PROVE CallsOK'
  BY <1>15 DEF Reply, turnRest, Running, At, CallsOK, Pcs
<1>16. ASSUME NEW c \in Caller, ToolsFinish(c) PROVE CallsOK'
  BY <1>16 DEF ToolsFinish, turnRest, Running, At, CallsOK, Pcs
<1>17. ASSUME NEW c \in Caller, NextTurn(c) PROVE CallsOK'
  BY <1>17 DEF NextTurn, turnRest, Running, At, Go, PrepareNextTurn, Take, CallsOK, Pcs
<1>18. ASSUME NEW c \in Caller, PollQueues(c) PROVE CallsOK'
  BY <1>18 DEF PollQueues, turnRest, Running, At, Go, PrepareNextTurn, Take, CallsOK, Pcs
<1>19. ASSUME NEW c \in Caller, Inject(c) PROVE CallsOK'
  BY <1>19 DEF Inject, turnRest, Running, At, CallsOK, Pcs
<1>20. ASSUME NEW c \in Caller, RunEnds(c) PROVE CallsOK'
  BY <1>20 DEF RunEnds, Running, At, Go, CallsOK, Pcs
<1>21. ASSUME NEW c \in Caller, PostRun(c) PROVE CallsOK'
  BY <1>21 DEF PostRun, At, Go, postRest, RetriesLeft, GiveUpRetrying, CallsOK, Pcs, SwitchesOK
<1>22. ASSUME NEW c \in Caller, RetryWakes(c) PROVE CallsOK'
  BY <1>22 DEF RetryWakes, At, Go, postRest, CallsOK, Pcs
<1>23. ASSUME NEW c \in Caller, CheckAfterRun(c) PROVE CallsOK'
  BY <1>23 DEF CheckAfterRun, At, Go, NoCompaction, RecoverOverflow, OverThreshold, compactRest, CallsOK, Pcs
<1>24. ASSUME NEW c \in Caller, Decide(c) PROVE CallsOK'
  BY <1>24 DEF Decide, At, Go, CallsOK, Pcs
<1>25. ASSUME NEW c \in Caller, ContinueRun(c) PROVE CallsOK'
  BY <1>25 DEF ContinueRun, At, Go, Rejected, Take, CallsOK, Pcs
<1>26. ASSUME NEW c \in Caller, SettleRun(c) PROVE CallsOK'
  BY <1>26 DEF SettleRun, At, Go, Settle, FlushPending, ResolveIdleWaitIfIdle, CallsOK, Pcs
<1>27. ASSUME NEW c \in Caller, AutoCompactionStart(c) PROVE CallsOK'
  BY <1>27 DEF AutoCompactionStart, At, Go, Return, ClearAutoCompaction, compactRest, ResolveIdleWaitIfIdle, CallsOK, Pcs
<1>28. ASSUME NEW c \in Caller, AutoCompactionFails(c) PROVE CallsOK'
  BY <1>28 DEF AutoCompactionFails, At, Go, Return, ClearAutoCompaction, compactRest, ResolveIdleWaitIfIdle, CallsOK, Pcs
<1>29. ASSUME NEW c \in Caller, AutoCompactionSucceeds(c) PROVE CallsOK'
  BY <1>29 DEF AutoCompactionSucceeds, At, Go, Return, ClearAutoCompaction, compactRest, ResolveIdleWaitIfIdle, CallsOK, Pcs
<1>30. CASE CompactStart
  BY <1>30 DEF CompactStart, manualRest, CallsOK, Pcs
<1>31. CASE CompactPrepare
  BY <1>31 DEF CompactPrepare, ClearManualCompactionState, manualRest, ResolveIdleWaitIfIdle, CallsOK, Pcs
<1>32. CASE CompactFinish
  BY <1>32 DEF CompactFinish, ClearManualCompactionState, manualRest, ResolveIdleWaitIfIdle, CallsOK, Pcs
<1>33. CASE NavigateFinish
  BY <1>33 DEF NavigateFinish, navRest, MoveTo, CallsOK, Pcs
<1>34. CASE UNCHANGED vars
  BY <1>34 DEF vars, CallsOK, Pcs
<1> QED
  BY <1>1, <1>2, <1>3, <1>4, <1>5, <1>6, <1>7, <1>8, <1>9, <1>10, <1>11, <1>12,
     <1>13, <1>14, <1>15, <1>16, <1>17, <1>18, <1>19, <1>20, <1>21, <1>22, <1>23,
     <1>24, <1>25, <1>26, <1>27, <1>28, <1>29, <1>30, <1>31, <1>32, <1>33, <1>34
     DEF Next, Client, Step

(* So do controllers and phases.                                             *)
LEMMA SwitchesNext ==
  ASSUME SwitchesOK, [Next]_vars
  PROVE  SwitchesOK'
<1> USE DEF callVars, retryVars, ctlVars, pendVars, runVars, queueVars, logVars, histVars
<1>1. ASSUME NEW c \in Caller, PromptRejected(c) PROVE SwitchesOK'
  BY <1>1 DEF PromptRejected, At, Go, SwitchesOK, Ctl
<1>2. ASSUME NEW c \in Caller, PromptQueued(c) PROVE SwitchesOK'
  BY <1>2 DEF PromptQueued, At, Go, Enqueue, SwitchesOK, Ctl
<1>3. ASSUME NEW c \in Caller, PromptPreflight(c) PROVE SwitchesOK'
  BY <1>3 DEF PromptPreflight, At, Go, FlushPending, SwitchesOK, Ctl
<1>4. ASSUME NEW c \in Caller, TriggerTurn(c) PROVE SwitchesOK'
  <2>1. CASE Settle(c)
    BY <2>1, Told DEF Settle, SwitchesOK
  <2>2. CASE ~Settle(c)
    BY <1>4, <2>2 DEF TriggerTurn, RunAgentPrompt, SwitchesOK
  <2> QED BY <2>1, <2>2
<1>5. CASE Steer
  BY <1>5 DEF Steer, Enqueue, SwitchesOK, Ctl
<1>6. CASE ClearQueue
  BY <1>6 DEF ClearQueue, SwitchesOK, Ctl
<1>7. CASE RecordBashResult
  BY <1>7 DEF RecordBashResult, noteRest, Note, SwitchesOK, Ctl
<1>8. CASE SendCustomMessage
  BY <1>8 DEF SendCustomMessage, noteRest, Note, SwitchesOK, Ctl
<1>9. CASE Abort
  BY <1>9 DEF Abort, AbortAll, Aborted, SwitchesOK, Ctl
<1>10. CASE AbortOne
  BY <1>10 DEF AbortOne, Aborted, SwitchesOK, Ctl
<1>11. CASE Compact
  BY <1>11 DEF Compact, AbortAll, Aborted, manualRest, SwitchesOK, Ctl
<1>12. CASE NavigateTree
  BY <1>12 DEF NavigateTree, navRest, MoveTo, SwitchesOK, Ctl
<1>13. ASSUME NEW c \in Caller, CheckBeforePrompt(c) PROVE SwitchesOK'
  BY <1>13, Told DEF CheckBeforePrompt, At, Go, NoCompaction, RecoverOverflow, OverThreshold, compactRest, SwitchesOK, Ctl
<1>14. ASSUME NEW c \in Caller, Send(c) PROVE SwitchesOK'
  <2>1. CASE Settle(c)
    BY <2>1, Told DEF Settle, SwitchesOK
  <2>2. CASE ~Settle(c)
    BY <1>14, <2>2 DEF Send, RunAgentPrompt, SwitchesOK
  <2> QED BY <2>1, <2>2
<1>15. ASSUME NEW c \in Caller, NEW k \in Replied, Reply(c, k) PROVE SwitchesOK'
  BY <1>15 DEF Reply, turnRest, Running, At, SwitchesOK, Ctl
<1>16. ASSUME NEW c \in Caller, ToolsFinish(c) PROVE SwitchesOK'
  BY <1>16 DEF ToolsFinish, turnRest, Running, At, SwitchesOK, Ctl
<1>17. ASSUME NEW c \in Caller, NextTurn(c) PROVE SwitchesOK'
  BY <1>17 DEF NextTurn, turnRest, Running, At, Go, PrepareNextTurn, Take, SwitchesOK, Ctl
<1>18. ASSUME NEW c \in Caller, PollQueues(c) PROVE SwitchesOK'
  BY <1>18 DEF PollQueues, turnRest, Running, At, Go, PrepareNextTurn, Take, SwitchesOK, Ctl
<1>19. ASSUME NEW c \in Caller, Inject(c) PROVE SwitchesOK'
  BY <1>19 DEF Inject, turnRest, Running, At, SwitchesOK, Ctl
<1>20. ASSUME NEW c \in Caller, RunEnds(c) PROVE SwitchesOK'
  BY <1>20 DEF RunEnds, Running, At, Go, SwitchesOK, Ctl
<1>21. ASSUME NEW c \in Caller, PostRun(c) PROVE SwitchesOK'
  BY <1>21 DEF PostRun, At, Go, postRest, RetriesLeft, GiveUpRetrying, SwitchesOK, Ctl
<1>22. ASSUME NEW c \in Caller, RetryWakes(c) PROVE SwitchesOK'
  BY <1>22 DEF RetryWakes, At, Go, postRest, SwitchesOK, Ctl
<1>23. ASSUME NEW c \in Caller, CheckAfterRun(c) PROVE SwitchesOK'
  BY <1>23 DEF CheckAfterRun, At, Go, NoCompaction, RecoverOverflow, OverThreshold, compactRest, SwitchesOK, Ctl
<1>24. ASSUME NEW c \in Caller, Decide(c) PROVE SwitchesOK'
  BY <1>24 DEF Decide, At, Go, SwitchesOK, Ctl
<1>25. ASSUME NEW c \in Caller, ContinueRun(c) PROVE SwitchesOK'
  BY <1>25 DEF ContinueRun, At, Go, Rejected, Take, SwitchesOK, Ctl
<1>26. ASSUME NEW c \in Caller, SettleRun(c) PROVE SwitchesOK'
  BY <1>26, Told, ZenonT(40) DEF SettleRun, At, Go, Settle, FlushPending, SwitchesOK, Ctl
<1>27. ASSUME NEW c \in Caller, AutoCompactionStart(c) PROVE SwitchesOK'
  BY <1>27, Told DEF AutoCompactionStart, At, Go, Return, ClearAutoCompaction, compactRest, SwitchesOK, Ctl
<1>28. ASSUME NEW c \in Caller, AutoCompactionFails(c) PROVE SwitchesOK'
  BY <1>28, Told DEF AutoCompactionFails, At, Go, Return, ClearAutoCompaction, compactRest, SwitchesOK, Ctl
<1>29. ASSUME NEW c \in Caller, AutoCompactionSucceeds(c) PROVE SwitchesOK'
  BY <1>29, Told DEF AutoCompactionSucceeds, At, Go, Return, ClearAutoCompaction, compactRest, SwitchesOK, Ctl
<1>30. CASE CompactStart
  BY <1>30 DEF CompactStart, manualRest, SwitchesOK, Ctl
<1>31. CASE CompactPrepare
  BY <1>31, Told DEF CompactPrepare, ClearManualCompactionState, manualRest, SwitchesOK, Ctl
<1>32. CASE CompactFinish
  BY <1>32, Told DEF CompactFinish, ClearManualCompactionState, manualRest, SwitchesOK, Ctl
<1>33. CASE NavigateFinish
  BY <1>33 DEF NavigateFinish, navRest, MoveTo, SwitchesOK, Ctl
<1>34. CASE UNCHANGED vars
  BY <1>34 DEF vars, SwitchesOK, Ctl
<1> QED
  BY <1>1, <1>2, <1>3, <1>4, <1>5, <1>6, <1>7, <1>8, <1>9, <1>10, <1>11, <1>12,
     <1>13, <1>14, <1>15, <1>16, <1>17, <1>18, <1>19, <1>20, <1>21, <1>22, <1>23,
     <1>24, <1>25, <1>26, <1>27, <1>28, <1>29, <1>30, <1>31, <1>32, <1>33, <1>34
     DEF Next, Client, Step

(* So do the flags.                                                          *)
LEMMA FlagsNext ==
  ASSUME FlagsOK, [Next]_vars
  PROVE  FlagsOK'
<1> USE DEF callVars, retryVars, ctlVars, pendVars, runVars, queueVars, logVars, histVars
<1>1. ASSUME NEW c \in Caller, PromptRejected(c) PROVE FlagsOK'
  BY <1>1 DEF PromptRejected, At, Go, FlagsOK
<1>2. ASSUME NEW c \in Caller, PromptQueued(c) PROVE FlagsOK'
  BY <1>2 DEF PromptQueued, At, Go, Enqueue, FlagsOK
<1>3. ASSUME NEW c \in Caller, PromptPreflight(c) PROVE FlagsOK'
  BY <1>3 DEF PromptPreflight, At, Go, FlushPending, FlagsOK
<1>4. ASSUME NEW c \in Caller, TriggerTurn(c) PROVE FlagsOK'
  BY <1>4 DEF TriggerTurn, At, Go, RunAgentPrompt, Settle, FlushPending, ResolveIdleWaitIfIdle, FlagsOK
<1>5. CASE Steer
  BY <1>5 DEF Steer, Enqueue, FlagsOK
<1>6. CASE ClearQueue
  BY <1>6 DEF ClearQueue, FlagsOK
<1>7. CASE RecordBashResult
  BY <1>7 DEF RecordBashResult, noteRest, Note, FlagsOK
<1>8. CASE SendCustomMessage
  BY <1>8 DEF SendCustomMessage, noteRest, Note, FlagsOK
<1>9. CASE Abort
  BY <1>9 DEF Abort, AbortAll, Aborted, FlagsOK
<1>10. CASE AbortOne
  BY <1>10 DEF AbortOne, Aborted, FlagsOK
<1>11. CASE Compact
  BY <1>11 DEF Compact, AbortAll, Aborted, manualRest, FlagsOK
<1>12. CASE NavigateTree
  BY <1>12 DEF NavigateTree, navRest, MoveTo, FlagsOK
<1>13. ASSUME NEW c \in Caller, CheckBeforePrompt(c) PROVE FlagsOK'
  BY <1>13 DEF CheckBeforePrompt, At, Go, NoCompaction, RecoverOverflow, OverThreshold, compactRest, ResolveIdleWaitIfIdle, FlagsOK
<1>14. ASSUME NEW c \in Caller, Send(c) PROVE FlagsOK'
  BY <1>14 DEF Send, At, Go, RunAgentPrompt, Settle, FlushPending, ResolveIdleWaitIfIdle, FlagsOK
<1>15. ASSUME NEW c \in Caller, NEW k \in Replied, Reply(c, k) PROVE FlagsOK'
  BY <1>15 DEF Reply, turnRest, Running, At, FlagsOK
<1>16. ASSUME NEW c \in Caller, ToolsFinish(c) PROVE FlagsOK'
  BY <1>16 DEF ToolsFinish, turnRest, Running, At, FlagsOK
<1>17. ASSUME NEW c \in Caller, NextTurn(c) PROVE FlagsOK'
  BY <1>17 DEF NextTurn, turnRest, Running, At, Go, PrepareNextTurn, Take, FlagsOK
<1>18. ASSUME NEW c \in Caller, PollQueues(c) PROVE FlagsOK'
  BY <1>18 DEF PollQueues, turnRest, Running, At, Go, PrepareNextTurn, Take, FlagsOK
<1>19. ASSUME NEW c \in Caller, Inject(c) PROVE FlagsOK'
  BY <1>19 DEF Inject, turnRest, Running, At, FlagsOK
<1>20. ASSUME NEW c \in Caller, RunEnds(c) PROVE FlagsOK'
  BY <1>20 DEF RunEnds, Running, At, Go, FlagsOK
<1>21. ASSUME NEW c \in Caller, PostRun(c) PROVE FlagsOK'
  BY <1>21 DEF PostRun, At, Go, postRest, RetriesLeft, GiveUpRetrying, FlagsOK
<1>22. ASSUME NEW c \in Caller, RetryWakes(c) PROVE FlagsOK'
  BY <1>22 DEF RetryWakes, At, Go, postRest, FlagsOK
<1>23. ASSUME NEW c \in Caller, CheckAfterRun(c) PROVE FlagsOK'
  BY <1>23 DEF CheckAfterRun, At, Go, NoCompaction, RecoverOverflow, OverThreshold, compactRest, FlagsOK
<1>24. ASSUME NEW c \in Caller, Decide(c) PROVE FlagsOK'
  BY <1>24 DEF Decide, At, Go, FlagsOK
<1>25. ASSUME NEW c \in Caller, ContinueRun(c) PROVE FlagsOK'
  BY <1>25 DEF ContinueRun, At, Go, Rejected, Take, FlagsOK
<1>26. ASSUME NEW c \in Caller, SettleRun(c) PROVE FlagsOK'
  BY <1>26 DEF SettleRun, At, Go, Settle, FlushPending, ResolveIdleWaitIfIdle, FlagsOK
<1>27. ASSUME NEW c \in Caller, AutoCompactionStart(c) PROVE FlagsOK'
  BY <1>27 DEF AutoCompactionStart, At, Go, Return, ClearAutoCompaction, compactRest, ResolveIdleWaitIfIdle, FlagsOK
<1>28. ASSUME NEW c \in Caller, AutoCompactionFails(c) PROVE FlagsOK'
  BY <1>28 DEF AutoCompactionFails, At, Go, Return, ClearAutoCompaction, compactRest, ResolveIdleWaitIfIdle, FlagsOK
<1>29. ASSUME NEW c \in Caller, AutoCompactionSucceeds(c) PROVE FlagsOK'
  BY <1>29 DEF AutoCompactionSucceeds, At, Go, Return, ClearAutoCompaction, compactRest, ResolveIdleWaitIfIdle, FlagsOK
<1>30. CASE CompactStart
  BY <1>30 DEF CompactStart, manualRest, FlagsOK
<1>31. CASE CompactPrepare
  BY <1>31 DEF CompactPrepare, ClearManualCompactionState, manualRest, ResolveIdleWaitIfIdle, FlagsOK
<1>32. CASE CompactFinish
  BY <1>32 DEF CompactFinish, ClearManualCompactionState, manualRest, ResolveIdleWaitIfIdle, FlagsOK
<1>33. CASE NavigateFinish
  BY <1>33 DEF NavigateFinish, navRest, MoveTo, FlagsOK
<1>34. CASE UNCHANGED vars
  BY <1>34 DEF vars, FlagsOK
<1> QED
  BY <1>1, <1>2, <1>3, <1>4, <1>5, <1>6, <1>7, <1>8, <1>9, <1>10, <1>11, <1>12,
     <1>13, <1>14, <1>15, <1>16, <1>17, <1>18, <1>19, <1>20, <1>21, <1>22, <1>23,
     <1>24, <1>25, <1>26, <1>27, <1>28, <1>29, <1>30, <1>31, <1>32, <1>33, <1>34
     DEF Next, Client, Step

(* So do the counters.                                                       *)
LEMMA CountsNext ==
  ASSUME CountsOK, [Next]_vars
  PROVE  CountsOK'
<1> USE DEF callVars, retryVars, ctlVars, pendVars, runVars, queueVars, logVars, histVars
<1>1. ASSUME NEW c \in Caller, PromptRejected(c) PROVE CountsOK'
  BY <1>1, ConstantsAssumption DEF PromptRejected, At, Go, CountsOK
<1>2. ASSUME NEW c \in Caller, PromptQueued(c) PROVE CountsOK'
  BY <1>2, ConstantsAssumption DEF PromptQueued, At, Go, Enqueue, CountsOK
<1>3. ASSUME NEW c \in Caller, PromptPreflight(c) PROVE CountsOK'
  BY <1>3, ConstantsAssumption DEF PromptPreflight, At, Go, FlushPending, CountsOK
<1>4. ASSUME NEW c \in Caller, TriggerTurn(c) PROVE CountsOK'
  BY <1>4, ConstantsAssumption DEF TriggerTurn, At, Go, RunAgentPrompt, Settle, FlushPending, ResolveIdleWaitIfIdle, CountsOK
<1>5. CASE Steer
  BY <1>5, ConstantsAssumption DEF Steer, Enqueue, CountsOK
<1>6. CASE ClearQueue
  BY <1>6, ConstantsAssumption DEF ClearQueue, CountsOK
<1>7. CASE RecordBashResult
  BY <1>7, ConstantsAssumption DEF RecordBashResult, noteRest, Note, CountsOK
<1>8. CASE SendCustomMessage
  BY <1>8, ConstantsAssumption DEF SendCustomMessage, noteRest, Note, CountsOK
<1>9. CASE Abort
  BY <1>9, ConstantsAssumption DEF Abort, AbortAll, Aborted, CountsOK
<1>10. CASE AbortOne
  BY <1>10, ConstantsAssumption DEF AbortOne, Aborted, CountsOK
<1>11. CASE Compact
  BY <1>11, ConstantsAssumption DEF Compact, AbortAll, Aborted, manualRest, CountsOK
<1>12. CASE NavigateTree
  BY <1>12, ConstantsAssumption, SMTT(20) DEF NavigateTree, navRest, MoveTo, CountsOK
<1>13. ASSUME NEW c \in Caller, CheckBeforePrompt(c) PROVE CountsOK'
  BY <1>13, ConstantsAssumption DEF CheckBeforePrompt, At, Go, NoCompaction, RecoverOverflow, OverThreshold, compactRest, ResolveIdleWaitIfIdle, CountsOK
<1>14. ASSUME NEW c \in Caller, Send(c) PROVE CountsOK'
  BY <1>14, ConstantsAssumption DEF Send, At, Go, RunAgentPrompt, Settle, FlushPending, ResolveIdleWaitIfIdle, CountsOK
<1>15. ASSUME NEW c \in Caller, NEW k \in Replied, Reply(c, k) PROVE CountsOK'
  BY <1>15, ConstantsAssumption DEF Reply, turnRest, Running, At, CountsOK
<1>16. ASSUME NEW c \in Caller, ToolsFinish(c) PROVE CountsOK'
  BY <1>16, ConstantsAssumption DEF ToolsFinish, turnRest, Running, At, CountsOK
<1>17. ASSUME NEW c \in Caller, NextTurn(c) PROVE CountsOK'
  BY <1>17, ConstantsAssumption DEF NextTurn, turnRest, Running, At, Go, PrepareNextTurn, Take, CountsOK
<1>18. ASSUME NEW c \in Caller, PollQueues(c) PROVE CountsOK'
  BY <1>18, ConstantsAssumption DEF PollQueues, turnRest, Running, At, Go, PrepareNextTurn, Take, CountsOK
<1>19. ASSUME NEW c \in Caller, Inject(c) PROVE CountsOK'
  BY <1>19, ConstantsAssumption DEF Inject, turnRest, Running, At, CountsOK
<1>20. ASSUME NEW c \in Caller, RunEnds(c) PROVE CountsOK'
  BY <1>20, ConstantsAssumption DEF RunEnds, Running, At, Go, CountsOK
<1>21. ASSUME NEW c \in Caller, PostRun(c) PROVE CountsOK'
  BY <1>21, ConstantsAssumption DEF PostRun, At, Go, postRest, RetriesLeft, GiveUpRetrying, CountsOK
<1>22. ASSUME NEW c \in Caller, RetryWakes(c) PROVE CountsOK'
  BY <1>22, ConstantsAssumption DEF RetryWakes, At, Go, postRest, CountsOK
<1>23. ASSUME NEW c \in Caller, CheckAfterRun(c) PROVE CountsOK'
  BY <1>23, ConstantsAssumption DEF CheckAfterRun, At, Go, NoCompaction, RecoverOverflow, OverThreshold, compactRest, CountsOK
<1>24. ASSUME NEW c \in Caller, Decide(c) PROVE CountsOK'
  BY <1>24, ConstantsAssumption DEF Decide, At, Go, CountsOK
<1>25. ASSUME NEW c \in Caller, ContinueRun(c) PROVE CountsOK'
  BY <1>25, ConstantsAssumption DEF ContinueRun, At, Go, Rejected, Take, CountsOK
<1>26. ASSUME NEW c \in Caller, SettleRun(c) PROVE CountsOK'
  BY <1>26, ConstantsAssumption DEF SettleRun, At, Go, Settle, FlushPending, ResolveIdleWaitIfIdle, CountsOK
<1>27. ASSUME NEW c \in Caller, AutoCompactionStart(c) PROVE CountsOK'
  BY <1>27, ConstantsAssumption DEF AutoCompactionStart, At, Go, Return, ClearAutoCompaction, compactRest, ResolveIdleWaitIfIdle, CountsOK
<1>28. ASSUME NEW c \in Caller, AutoCompactionFails(c) PROVE CountsOK'
  BY <1>28, ConstantsAssumption DEF AutoCompactionFails, At, Go, Return, ClearAutoCompaction, compactRest, ResolveIdleWaitIfIdle, CountsOK
<1>29. ASSUME NEW c \in Caller, AutoCompactionSucceeds(c) PROVE CountsOK'
  BY <1>29, ConstantsAssumption DEF AutoCompactionSucceeds, At, Go, Return, ClearAutoCompaction, compactRest, ResolveIdleWaitIfIdle, CountsOK
<1>30. CASE CompactStart
  BY <1>30, ConstantsAssumption DEF CompactStart, manualRest, CountsOK
<1>31. CASE CompactPrepare
  BY <1>31, ConstantsAssumption DEF CompactPrepare, ClearManualCompactionState, manualRest, ResolveIdleWaitIfIdle, CountsOK
<1>32. CASE CompactFinish
  BY <1>32, ConstantsAssumption DEF CompactFinish, ClearManualCompactionState, manualRest, ResolveIdleWaitIfIdle, CountsOK
<1>33. CASE NavigateFinish
  BY <1>33, ConstantsAssumption DEF NavigateFinish, navRest, MoveTo, CountsOK
<1>34. CASE UNCHANGED vars
  BY <1>34 DEF vars, CountsOK
<1> QED
  BY <1>1, <1>2, <1>3, <1>4, <1>5, <1>6, <1>7, <1>8, <1>9, <1>10, <1>11, <1>12,
     <1>13, <1>14, <1>15, <1>16, <1>17, <1>18, <1>19, <1>20, <1>21, <1>22, <1>23,
     <1>24, <1>25, <1>26, <1>27, <1>28, <1>29, <1>30, <1>31, <1>32, <1>33, <1>34
     DEF Next, Client, Step

--------------------------------------------------------------------------------
(* Runs *)

(* Call c moves on and the others do not.                                    *)
Moves(c) ==
  /\ pc' \in [Caller -> Pcs] /\ \A d \in Caller : d # c => pc'[d] = pc[d] /\ job'[d] = job[d]
  
(* Runs depend on pc, job and activeRun only.                                *)
LEMMA RunSame == RunInv /\ UNCHANGED <<pc, job, activeRun>> => RunInv'
  BY DEF RunInv, Runner

(* It keeps its run, or goes on without one.                                 *)
LEMMA RunKept ==
  ASSUME RunInv, NEW c \in Caller, Moves(c), Runner(c)' <=> Runner(c), activeRun' = activeRun
  PROVE  RunInv'
<1>1. \A d \in Caller : Runner(d)' <=> Runner(d)
  BY DEF Moves, Runner
<1> QED BY <1>1 DEF RunInv

(* It starts a run when there is none.                                       *)
LEMMA RunStarts ==
  ASSUME RunInv, NEW c \in Caller, Moves(c), ~activeRun, Runner(c)', activeRun'
  PROVE  RunInv'
<1>1. \A d \in Caller : d # c => ~Runner(d)'
  BY DEF RunInv, Moves, Runner
<1> QED BY <1>1 DEF RunInv

(* Its run ends.                                                             *)
LEMMA RunStops ==
  ASSUME RunInv, NEW c \in Caller, Moves(c), Runner(c), ~Runner(c)', activeRun' = FALSE
  PROVE  RunInv'
<1>1. \A d \in Caller : ~Runner(d)'
  BY DEF RunInv, Moves, Runner
<1> QED BY <1>1 DEF RunInv

(* Runs stay exclusive.                                                      *)
LEMMA RunNext ==
  ASSUME ControlOK, RunInv, [Next]_vars
  PROVE  RunInv'
<1> USE DEF callVars, retryVars, ctlVars, pendVars, runVars, queueVars, logVars, histVars
<1>0. /\ pc \in [Caller -> Pcs] /\ pc' \in [Caller -> Pcs]
      /\ job \in [Caller -> {"pre", "preRetry", "turn", "retry", "threshold"}]
  BY CallsNext DEF ControlOK, CallsOK
<1>1. ASSUME NEW c \in Caller, PromptRejected(c) PROVE RunInv'
  <2>1. Moves(c)
    BY <1>1, <1>0 DEF PromptRejected, At, Go, Moves
  <2>2. (Runner(c)' <=> Runner(c)) /\ activeRun' = activeRun
    BY <1>1, <1>0 DEF PromptRejected, At, Go, Runner
  <2> QED BY <2>1, <2>2, RunKept
<1>2. ASSUME NEW c \in Caller, PromptQueued(c) PROVE RunInv'
  <2>1. Moves(c)
    BY <1>2, <1>0 DEF PromptQueued, At, Go, Enqueue, Moves
  <2>2. (Runner(c)' <=> Runner(c)) /\ activeRun' = activeRun
    BY <1>2, <1>0 DEF PromptQueued, At, Go, Enqueue, Runner
  <2> QED BY <2>1, <2>2, RunKept
<1>3. ASSUME NEW c \in Caller, PromptPreflight(c) PROVE RunInv'
  <2>1. Moves(c)
    BY <1>3, <1>0 DEF PromptPreflight, At, Go, FlushPending, Moves
  <2>2. (Runner(c)' <=> Runner(c)) /\ activeRun' = activeRun
    BY <1>3, <1>0 DEF PromptPreflight, At, Go, FlushPending, Runner
  <2> QED BY <2>1, <2>2, RunKept
<1>4. ASSUME NEW c \in Caller, TriggerTurn(c) PROVE RunInv'
  <2>1. CASE Settle(c)
    BY <1>4, <1>0, <2>1, RunKept DEF TriggerTurn, Settle, At, Go, Moves, Runner
  <2>2. CASE ~Settle(c)
    BY <1>4, <1>0, <2>2, RunStarts DEF TriggerTurn, RunAgentPrompt, Go, Moves, Runner
  <2> QED BY <2>1, <2>2
<1>5. CASE Steer
  BY <1>5, RunSame DEF Steer, Enqueue
<1>6. CASE ClearQueue
  BY <1>6, RunSame DEF ClearQueue
<1>7. CASE RecordBashResult
  BY <1>7, RunSame DEF RecordBashResult, noteRest, Note
<1>8. CASE SendCustomMessage
  BY <1>8, RunSame DEF SendCustomMessage, noteRest, Note
<1>9. CASE Abort
  BY <1>9, RunSame DEF Abort, AbortAll, Aborted
<1>10. CASE AbortOne
  BY <1>10, RunSame DEF AbortOne, Aborted
<1>11. CASE Compact
  BY <1>11, RunSame DEF Compact, AbortAll, Aborted, manualRest
<1>12. CASE NavigateTree
  BY <1>12, RunSame DEF NavigateTree, navRest, MoveTo
<1>13. ASSUME NEW c \in Caller, CheckBeforePrompt(c) PROVE RunInv'
  <2>1. Moves(c)
    BY <1>13, <1>0 DEF CheckBeforePrompt, At, Go, NoCompaction, RecoverOverflow, OverThreshold, compactRest, Moves
  <2>2. (Runner(c)' <=> Runner(c)) /\ activeRun' = activeRun
    BY <1>13, <1>0 DEF CheckBeforePrompt, At, Go, NoCompaction, RecoverOverflow, OverThreshold, compactRest, Runner
  <2> QED BY <2>1, <2>2, RunKept
<1>14. ASSUME NEW c \in Caller, Send(c) PROVE RunInv'
  <2>1. CASE Settle(c)
    BY <1>14, <1>0, <2>1, RunKept DEF Send, Settle, At, Go, Moves, Runner
  <2>2. CASE ~Settle(c)
    BY <1>14, <1>0, <2>2, RunStarts DEF Send, RunAgentPrompt, Go, Moves, Runner
  <2> QED BY <2>1, <2>2
<1>15. ASSUME NEW c \in Caller, NEW k \in Replied, Reply(c, k) PROVE RunInv'
  BY <1>15, RunSame DEF Reply, turnRest, Running, At
<1>16. ASSUME NEW c \in Caller, ToolsFinish(c) PROVE RunInv'
  BY <1>16, RunSame DEF ToolsFinish, turnRest, Running, At
<1>17. ASSUME NEW c \in Caller, NextTurn(c) PROVE RunInv'
  <2>1. Moves(c)
    BY <1>17, <1>0 DEF NextTurn, turnRest, Running, At, Go, PrepareNextTurn, Take, Moves
  <2>2. (Runner(c)' <=> Runner(c)) /\ activeRun' = activeRun
    BY <1>17, <1>0 DEF NextTurn, turnRest, Running, At, Go, PrepareNextTurn, Take, Runner
  <2> QED BY <2>1, <2>2, RunKept
<1>18. ASSUME NEW c \in Caller, PollQueues(c) PROVE RunInv'
  <2>1. Moves(c)
    BY <1>18, <1>0 DEF PollQueues, turnRest, Running, At, Go, PrepareNextTurn, Take, Moves
  <2>2. (Runner(c)' <=> Runner(c)) /\ activeRun' = activeRun
    BY <1>18, <1>0 DEF PollQueues, turnRest, Running, At, Go, PrepareNextTurn, Take, Runner
  <2> QED BY <2>1, <2>2, RunKept
<1>19. ASSUME NEW c \in Caller, Inject(c) PROVE RunInv'
  BY <1>19, RunSame DEF Inject, turnRest, Running, At
<1>20. ASSUME NEW c \in Caller, RunEnds(c) PROVE RunInv'
  <2>1. Moves(c)
    BY <1>20, <1>0 DEF RunEnds, Running, At, Go, Moves
  <2>2. Runner(c) /\ ~Runner(c)' /\ activeRun' = FALSE
    BY <1>20, <1>0 DEF RunEnds, Running, At, Go, Runner
  <2> QED BY <2>1, <2>2, RunStops
<1>21. ASSUME NEW c \in Caller, PostRun(c) PROVE RunInv'
  <2>1. Moves(c)
    BY <1>21, <1>0 DEF PostRun, At, Go, postRest, RetriesLeft, GiveUpRetrying, Moves
  <2>2. (Runner(c)' <=> Runner(c)) /\ activeRun' = activeRun
    BY <1>21, <1>0 DEF PostRun, At, Go, postRest, RetriesLeft, GiveUpRetrying, Runner
  <2> QED BY <2>1, <2>2, RunKept
<1>22. ASSUME NEW c \in Caller, RetryWakes(c) PROVE RunInv'
  <2>1. Moves(c)
    BY <1>22, <1>0 DEF RetryWakes, At, Go, postRest, Moves
  <2>2. (Runner(c)' <=> Runner(c)) /\ activeRun' = activeRun
    BY <1>22, <1>0 DEF RetryWakes, At, Go, postRest, Runner
  <2> QED BY <2>1, <2>2, RunKept
<1>23. ASSUME NEW c \in Caller, CheckAfterRun(c) PROVE RunInv'
  <2>1. Moves(c)
    BY <1>23, <1>0 DEF CheckAfterRun, At, Go, NoCompaction, RecoverOverflow, OverThreshold, compactRest, Moves
  <2>2. (Runner(c)' <=> Runner(c)) /\ activeRun' = activeRun
    BY <1>23, <1>0 DEF CheckAfterRun, At, Go, NoCompaction, RecoverOverflow, OverThreshold, compactRest, Runner
  <2> QED BY <2>1, <2>2, RunKept
<1>24. ASSUME NEW c \in Caller, Decide(c) PROVE RunInv'
  <2>1. Moves(c)
    BY <1>24, <1>0 DEF Decide, At, Go, Moves
  <2>2. (Runner(c)' <=> Runner(c)) /\ activeRun' = activeRun
    BY <1>24, <1>0 DEF Decide, At, Go, Runner
  <2> QED BY <2>1, <2>2, RunKept
<1>25. ASSUME NEW c \in Caller, ContinueRun(c) PROVE RunInv'
  <2>1. Moves(c)
    BY <1>25, <1>0 DEF ContinueRun, At, Go, Rejected, Take, Moves
  <2>2. ~activeRun /\ Runner(c)' /\ activeRun'
    BY <1>25, <1>0 DEF ContinueRun, At, Go, Rejected, Take, Runner
  <2> QED BY <2>1, <2>2, RunStarts
<1>26. ASSUME NEW c \in Caller, SettleRun(c) PROVE RunInv'
  <2>1. Moves(c)
    BY <1>26, <1>0 DEF SettleRun, At, Go, Settle, FlushPending, Moves
  <2>2. (Runner(c)' <=> Runner(c)) /\ activeRun' = activeRun
    BY <1>26, <1>0 DEF SettleRun, At, Go, Settle, FlushPending, Runner
  <2> QED BY <2>1, <2>2, RunKept
<1>27. ASSUME NEW c \in Caller, AutoCompactionStart(c) PROVE RunInv'
  <2>1. Moves(c)
    BY <1>27, <1>0 DEF AutoCompactionStart, At, Go, Return, ClearAutoCompaction, compactRest, Moves
  <2>2. (Runner(c)' <=> Runner(c)) /\ activeRun' = activeRun
    BY <1>27, <1>0 DEF AutoCompactionStart, At, Go, Return, ClearAutoCompaction, compactRest, Runner
  <2> QED BY <2>1, <2>2, RunKept
<1>28. ASSUME NEW c \in Caller, AutoCompactionFails(c) PROVE RunInv'
  <2>1. Moves(c)
    BY <1>28, <1>0 DEF AutoCompactionFails, At, Go, Return, ClearAutoCompaction, compactRest, Moves
  <2>2. (Runner(c)' <=> Runner(c)) /\ activeRun' = activeRun
    BY <1>28, <1>0 DEF AutoCompactionFails, At, Go, Return, ClearAutoCompaction, compactRest, Runner
  <2> QED BY <2>1, <2>2, RunKept
<1>29. ASSUME NEW c \in Caller, AutoCompactionSucceeds(c) PROVE RunInv'
  <2>1. Moves(c)
    BY <1>29, <1>0 DEF AutoCompactionSucceeds, At, Go, Return, ClearAutoCompaction, compactRest, Moves
  <2>2. (Runner(c)' <=> Runner(c)) /\ activeRun' = activeRun
    BY <1>29, <1>0 DEF AutoCompactionSucceeds, At, Go, Return, ClearAutoCompaction, compactRest, Runner
  <2> QED BY <2>1, <2>2, RunKept
<1>30. CASE CompactStart
  BY <1>30, RunSame DEF CompactStart, manualRest
<1>31. CASE CompactPrepare
  BY <1>31, RunSame DEF CompactPrepare, ClearManualCompactionState, manualRest
<1>32. CASE CompactFinish
  BY <1>32, RunSame DEF CompactFinish, ClearManualCompactionState, manualRest
<1>33. CASE NavigateFinish
  BY <1>33, RunSame DEF NavigateFinish, navRest, MoveTo
<1>34. CASE UNCHANGED vars
  BY <1>34, RunSame DEF vars
<1> QED
  BY <1>1, <1>2, <1>3, <1>4, <1>5, <1>6, <1>7, <1>8, <1>9, <1>10, <1>11, <1>12,
     <1>13, <1>14, <1>15, <1>16, <1>17, <1>18, <1>19, <1>20, <1>21, <1>22, <1>23,
     <1>24, <1>25, <1>26, <1>27, <1>28, <1>29, <1>30, <1>31, <1>32, <1>33, <1>34
     DEF Next, Client, Step

--------------------------------------------------------------------------------
(* Manual compaction, and a patient client *)

(* The controller of a manual compaction exists while it runs.               *)
LEMMA ManualNext ==
  ASSUME ManualInv, [Next]_vars
  PROVE  ManualInv'
<1> USE DEF callVars, retryVars, ctlVars, pendVars, runVars, queueVars, logVars, histVars
<1>1. ASSUME NEW c \in Caller, PromptRejected(c) PROVE ManualInv'
  BY <1>1 DEF PromptRejected, At, Go, ManualInv, Aborted
<1>2. ASSUME NEW c \in Caller, PromptQueued(c) PROVE ManualInv'
  BY <1>2 DEF PromptQueued, At, Go, Enqueue, ManualInv, Aborted
<1>3. ASSUME NEW c \in Caller, PromptPreflight(c) PROVE ManualInv'
  BY <1>3 DEF PromptPreflight, At, Go, FlushPending, ManualInv, Aborted
<1>4. ASSUME NEW c \in Caller, TriggerTurn(c) PROVE ManualInv'
  BY <1>4, Told DEF TriggerTurn, RunAgentPrompt, Settle, ManualInv
<1>5. CASE Steer
  BY <1>5 DEF Steer, Enqueue, ManualInv, Aborted
<1>6. CASE ClearQueue
  BY <1>6 DEF ClearQueue, ManualInv, Aborted
<1>7. CASE RecordBashResult
  BY <1>7 DEF RecordBashResult, noteRest, Note, ManualInv, Aborted
<1>8. CASE SendCustomMessage
  BY <1>8 DEF SendCustomMessage, noteRest, Note, ManualInv, Aborted
<1>9. CASE Abort
  BY <1>9 DEF Abort, AbortAll, Aborted, ManualInv, Aborted
<1>10. CASE AbortOne
  BY <1>10 DEF AbortOne, Aborted, ManualInv, Aborted
<1>11. CASE Compact
  BY <1>11 DEF Compact, AbortAll, Aborted, manualRest, ManualInv, ControlOK, SwitchesOK
<1>12. CASE NavigateTree
  BY <1>12 DEF NavigateTree, navRest, MoveTo, ManualInv, Aborted
<1>13. ASSUME NEW c \in Caller, CheckBeforePrompt(c) PROVE ManualInv'
  BY <1>13 DEF CheckBeforePrompt, At, Go, NoCompaction, RecoverOverflow, OverThreshold, compactRest, ManualInv, Aborted
<1>14. ASSUME NEW c \in Caller, Send(c) PROVE ManualInv'
  BY <1>14, Told DEF Send, RunAgentPrompt, Settle, ManualInv
<1>15. ASSUME NEW c \in Caller, NEW k \in Replied, Reply(c, k) PROVE ManualInv'
  BY <1>15 DEF Reply, turnRest, Running, At, ManualInv, Aborted
<1>16. ASSUME NEW c \in Caller, ToolsFinish(c) PROVE ManualInv'
  BY <1>16 DEF ToolsFinish, turnRest, Running, At, ManualInv, Aborted
<1>17. ASSUME NEW c \in Caller, NextTurn(c) PROVE ManualInv'
  BY <1>17 DEF NextTurn, turnRest, Running, At, Go, PrepareNextTurn, Take, ManualInv, Aborted
<1>18. ASSUME NEW c \in Caller, PollQueues(c) PROVE ManualInv'
  BY <1>18 DEF PollQueues, turnRest, Running, At, Go, PrepareNextTurn, Take, ManualInv, Aborted
<1>19. ASSUME NEW c \in Caller, Inject(c) PROVE ManualInv'
  BY <1>19 DEF Inject, turnRest, Running, At, ManualInv, Aborted
<1>20. ASSUME NEW c \in Caller, RunEnds(c) PROVE ManualInv'
  BY <1>20 DEF RunEnds, Running, At, Go, ManualInv, Aborted
<1>21. ASSUME NEW c \in Caller, PostRun(c) PROVE ManualInv'
  BY <1>21 DEF PostRun, At, Go, postRest, RetriesLeft, GiveUpRetrying, ManualInv, Aborted
<1>22. ASSUME NEW c \in Caller, RetryWakes(c) PROVE ManualInv'
  BY <1>22 DEF RetryWakes, At, Go, postRest, ManualInv, Aborted
<1>23. ASSUME NEW c \in Caller, CheckAfterRun(c) PROVE ManualInv'
  BY <1>23 DEF CheckAfterRun, At, Go, NoCompaction, RecoverOverflow, OverThreshold, compactRest, ManualInv, Aborted
<1>24. ASSUME NEW c \in Caller, Decide(c) PROVE ManualInv'
  BY <1>24 DEF Decide, At, Go, ManualInv, Aborted
<1>25. ASSUME NEW c \in Caller, ContinueRun(c) PROVE ManualInv'
  BY <1>25 DEF ContinueRun, At, Go, Rejected, Take, ManualInv, Aborted
<1>26. ASSUME NEW c \in Caller, SettleRun(c) PROVE ManualInv'
  BY <1>26, Told DEF SettleRun, At, Go, Settle, FlushPending, ManualInv
<1>27. ASSUME NEW c \in Caller, AutoCompactionStart(c) PROVE ManualInv'
  BY <1>27, Told DEF AutoCompactionStart, At, Go, Return, ClearAutoCompaction, compactRest, ManualInv
<1>28. ASSUME NEW c \in Caller, AutoCompactionFails(c) PROVE ManualInv'
  BY <1>28, Told DEF AutoCompactionFails, At, Go, Return, ClearAutoCompaction, compactRest, ManualInv
<1>29. ASSUME NEW c \in Caller, AutoCompactionSucceeds(c) PROVE ManualInv'
  BY <1>29, Told DEF AutoCompactionSucceeds, At, Go, Return, ClearAutoCompaction, compactRest, ManualInv
<1>30. CASE CompactStart
  BY <1>30 DEF CompactStart, manualRest, ManualInv, Aborted
<1>31. CASE CompactPrepare
  BY <1>31, Told DEF CompactPrepare, ClearManualCompactionState, manualRest, ManualInv
<1>32. CASE CompactFinish
  BY <1>32, Told DEF CompactFinish, ClearManualCompactionState, manualRest, ManualInv
<1>33. CASE NavigateFinish
  BY <1>33 DEF NavigateFinish, navRest, MoveTo, ManualInv, Aborted
<1>34. CASE UNCHANGED vars
  BY <1>34 DEF vars, ManualInv
<1> QED
  BY <1>1, <1>2, <1>3, <1>4, <1>5, <1>6, <1>7, <1>8, <1>9, <1>10, <1>11, <1>12,
     <1>13, <1>14, <1>15, <1>16, <1>17, <1>18, <1>19, <1>20, <1>21, <1>22, <1>23,
     <1>24, <1>25, <1>26, <1>27, <1>28, <1>29, <1>30, <1>31, <1>32, <1>33, <1>34
     DEF Next, Client, Step

(* Nothing that LoneInv looks at changes, but that an abort may wait.        *)
LEMMA LoneSame ==
  ASSUME LoneInv, UNCHANGED <<isAgentRunActive, compactPc>>, waiters \subseteq waiters',
         branchCtl' # "none" => branchCtl # "none",
         \A c \in Caller : (Busy(c)' <=> Busy(c)) /\ (InPreflight(c)' <=> InPreflight(c))
  PROVE  LoneInv'
  BY DEF LoneInv, Unattended

(* A call begins when there is none.                                         *)
LEMMA LoneBegins ==
  ASSUME LoneInv, Unattended, NEW c \in Caller, Moves(c), Busy(c)', isAgentRunActive' <=> ~InPreflight(c)',
         compactPc' \in {"idle", "done"}, branchCtl' = "none"
  PROVE  LoneInv'
<1>1. \A d \in Caller : d # c => ~Busy(d)'
  BY DEF Unattended, Busy, Moves
<1> QED BY <1>1 DEF LoneInv, Unattended

(* The call goes on.                                                         *)
LEMMA LoneGoesOn ==
  ASSUME LoneInv, NEW c \in Caller, Moves(c), Busy(c), Busy(c)', isAgentRunActive' <=> ~InPreflight(c)',
         InPreflight(c)' => InPreflight(c), UNCHANGED <<compactPc, branchCtl>>,
         InPreflight(c) \/ waiters' = waiters
  PROVE  LoneInv'
<1>1. \A d \in Caller : d # c => ~Busy(d)'
  BY DEF LoneInv, Busy, Moves
<1>2. compactPc \notin {"auth", "running"} /\ branchCtl = "none"
  BY DEF LoneInv, Unattended
<1>3. compactPc = "waiting" => "compact" \in waiters' /\ ~InPreflight(c)'
  BY DEF LoneInv, Unattended
<1>4. \A d \in Caller : InPreflight(d)' => d = c
  BY <1>1 DEF InPreflight, Busy
<1> QED BY <1>1, <1>2, <1>3, <1>4 DEF LoneInv, Unattended

(* The call ends.                                                            *)
LEMMA LoneEnds ==
  ASSUME LoneInv, NEW c \in Caller, Moves(c), Busy(c), ~Busy(c)', isAgentRunActive' = FALSE,
         UNCHANGED <<compactPc, branchCtl>>
  PROVE  LoneInv'
<1>1. Unattended'
  BY DEF LoneInv, Unattended, Busy, Moves
<1>2. branchCtl = "none"
  BY DEF LoneInv, Unattended
<1> QED BY <1>1, <1>2 DEF LoneInv, Unattended, InPreflight, Busy

(* When the session is quiet and no run is active, no call is under way.     *)
LEMMA QuietIsUnattended ==
  ASSUME Patient, LoneInv, Quiet, ~isAgentRunActive
  PROVE  Unattended /\ branchCtl = "none"
  BY DEF LoneInv, Unattended, Quiet

(* A call in its preflight, or unattended, finds the agent free.             *)
LEMMA AgentIsFree ==
  ASSUME RunInv, LoneInv, Unattended \/ \E c \in Caller : pc[c] = "send"
  PROVE  ~activeRun
<1>1. SUFFICES ASSUME activeRun PROVE FALSE
  OBVIOUS
<1>2. PICK d \in Caller : Runner(d)
  BY <1>1 DEF RunInv
<1>3. Busy(d) /\ pc[d] # "send"
  BY <1>2 DEF Runner, Busy
<1> QED BY <1>3 DEF LoneInv, Unattended, Busy

(* One call at a time is under way.                                          *)
LEMMA LoneNext ==
  ASSUME Patient, ControlOK, RunInv, ManualInv, LoneInv, [Next]_vars
  PROVE  LoneInv'
<1> USE DEF callVars, retryVars, ctlVars, pendVars, runVars, queueVars, logVars, histVars
<1>0. /\ pc \in [Caller -> Pcs] /\ pc' \in [Caller -> Pcs]
      /\ job \in [Caller -> {"pre", "preRetry", "turn", "retry", "threshold"}]
  BY CallsNext DEF ControlOK, CallsOK
<1>1. ASSUME NEW c \in Caller, PromptRejected(c) PROVE LoneInv'
  <2>1. \A x \in Caller : (Busy(x)' <=> Busy(x)) /\ (InPreflight(x)' <=> InPreflight(x))
    BY <1>1, <1>0 DEF PromptRejected, At, Go, Busy, InPreflight
  <2> QED BY <1>1, <2>1, LoneSame DEF PromptRejected
<1>2. ASSUME NEW c \in Caller, PromptQueued(c) PROVE LoneInv'
  <2>1. \A x \in Caller : (Busy(x)' <=> Busy(x)) /\ (InPreflight(x)' <=> InPreflight(x))
    BY <1>2, <1>0 DEF PromptQueued, At, Go, Enqueue, Busy, InPreflight
  <2> QED BY <1>2, <2>1, LoneSame DEF PromptQueued
<1>3. ASSUME NEW c \in Caller, PromptPreflight(c) PROVE LoneInv'
  <2>1. Unattended /\ branchCtl' = "none"
    BY <1>3, QuietIsUnattended DEF PromptPreflight
  <2>2. compactPc' \in {"idle", "done"}
    BY <1>3 DEF PromptPreflight, NotCompacting, ManualInv, ControlOK, SwitchesOK
  <2>3. Moves(c) /\ Busy(c)' /\ InPreflight(c)' /\ ~isAgentRunActive'
    BY <1>3, <1>0 DEF PromptPreflight, At, Go, Moves, Busy, InPreflight
  <2> QED BY <2>1, <2>2, <2>3, LoneBegins
<1>4. ASSUME NEW c \in Caller, TriggerTurn(c) PROVE LoneInv'
  <2>1. Unattended /\ branchCtl = "none" /\ compactPc \in {"idle", "done"}
    BY <1>4, QuietIsUnattended DEF TriggerTurn, Alone
  <2>2. ~activeRun
    BY <2>1, AgentIsFree
  <2>3. /\ Moves(c) /\ Busy(c)' /\ ~InPreflight(c)' /\ isAgentRunActive'
        /\ UNCHANGED <<branchCtl, compactPc>>
    BY <1>4, <1>0, <2>2 DEF TriggerTurn, RunAgentPrompt, Go, Moves, Busy, InPreflight
  <2> QED BY <2>1, <2>3, LoneBegins
<1>5. CASE Steer
  BY <1>5, LoneSame DEF Steer, Enqueue, Busy, InPreflight
<1>6. CASE ClearQueue
  BY <1>6, LoneSame DEF ClearQueue, Busy, InPreflight
<1>7. CASE RecordBashResult
  BY <1>7, LoneSame DEF RecordBashResult, noteRest, Note, Busy, InPreflight
<1>8. CASE SendCustomMessage
  BY <1>8, LoneSame DEF SendCustomMessage, noteRest, Note, Busy, InPreflight
<1>9. CASE Abort
  BY <1>9, LoneSame DEF Abort, AbortAll, Aborted, Busy, InPreflight
<1>10. CASE AbortOne
  BY <1>10, LoneSame DEF AbortOne, Aborted, Busy, InPreflight
<1>11. CASE Compact
  <2>1. /\ Quiet /\ compactPc = "idle" /\ compactPc' = "waiting" /\ UNCHANGED <<pc, job, isAgentRunActive>>
        /\ "compact" \in waiters' \/ Idle
        /\ branchCtl' = Aborted(branchCtl)
    BY <1>11 DEF Compact, Alone, AbortAll, manualRest
  <2>2. branchCtl' = "none" /\ \A x \in Caller : ~InPreflight(x)
    BY <2>1 DEF Quiet, Aborted
  <2>3. Idle => Unattended
    BY <2>1, QuietIsUnattended DEF Idle
  <2> QED BY <2>1, <2>2, <2>3 DEF LoneInv, Unattended, Busy, InPreflight
<1>12. CASE NavigateTree
  <2>1. Unattended /\ branchCtl = "none" /\ compactPc \in {"idle", "done"}
    BY <1>12, QuietIsUnattended DEF NavigateTree, Alone, Idle
  <2>2. UNCHANGED <<pc, job, isAgentRunActive, compactPc, waiters>>
    BY <1>12 DEF NavigateTree, navRest
  <2> QED BY <2>1, <2>2 DEF LoneInv, Unattended, Busy, InPreflight
<1>13. ASSUME NEW c \in Caller, CheckBeforePrompt(c) PROVE LoneInv'
  <2>1. /\ Moves(c) /\ Busy(c) /\ InPreflight(c) /\ UNCHANGED <<isAgentRunActive, branchCtl, compactPc>>
        /\ ~Busy(c)' \/ InPreflight(c)'
    BY <1>13, <1>0 DEF CheckBeforePrompt, At, Go, NoCompaction, RecoverOverflow, OverThreshold, compactRest, Moves, Busy, InPreflight
  <2>2. isAgentRunActive = FALSE
    BY <2>1 DEF LoneInv, ControlOK, FlagsOK
  <2>3. InPreflight(c)' => Busy(c)'
    BY DEF InPreflight, Busy
  <2> QED BY <2>1, <2>2, <2>3, LoneGoesOn, LoneEnds
<1>14. ASSUME NEW c \in Caller, Send(c) PROVE LoneInv'
  <2>1. ~activeRun
    BY <1>14, AgentIsFree DEF Send, At
  <2>2. /\ Moves(c) /\ Busy(c) /\ Busy(c)' /\ ~InPreflight(c)' /\ isAgentRunActive'
        /\ UNCHANGED <<branchCtl, compactPc>> /\ waiters' = waiters
    BY <1>14, <1>0, <2>1 DEF Send, RunAgentPrompt, At, Go, Moves, Busy, InPreflight
  <2> QED BY <2>2, LoneGoesOn
<1>15. ASSUME NEW c \in Caller, NEW k \in Replied, Reply(c, k) PROVE LoneInv'
  BY <1>15, LoneSame DEF Reply, turnRest, Running, At, Busy, InPreflight
<1>16. ASSUME NEW c \in Caller, ToolsFinish(c) PROVE LoneInv'
  BY <1>16, LoneSame DEF ToolsFinish, turnRest, Running, At, Busy, InPreflight
<1>17. ASSUME NEW c \in Caller, NextTurn(c) PROVE LoneInv'
  <2>1. /\ Moves(c) /\ Busy(c) /\ Busy(c)' /\ UNCHANGED <<isAgentRunActive, branchCtl, compactPc>>
        /\ InPreflight(c)' <=> InPreflight(c)
        /\ InPreflight(c) \/ waiters' = waiters
    BY <1>17, <1>0 DEF NextTurn, turnRest, Running, At, Go, PrepareNextTurn, Take, Moves, Busy, InPreflight
  <2> QED BY <2>1, LoneGoesOn DEF LoneInv
<1>18. ASSUME NEW c \in Caller, PollQueues(c) PROVE LoneInv'
  <2>1. /\ Moves(c) /\ Busy(c) /\ Busy(c)' /\ UNCHANGED <<isAgentRunActive, branchCtl, compactPc>>
        /\ InPreflight(c)' <=> InPreflight(c)
        /\ InPreflight(c) \/ waiters' = waiters
    BY <1>18, <1>0 DEF PollQueues, turnRest, Running, At, Go, PrepareNextTurn, Take, Moves, Busy, InPreflight
  <2> QED BY <2>1, LoneGoesOn DEF LoneInv
<1>19. ASSUME NEW c \in Caller, Inject(c) PROVE LoneInv'
  BY <1>19, LoneSame DEF Inject, turnRest, Running, At, Busy, InPreflight
<1>20. ASSUME NEW c \in Caller, RunEnds(c) PROVE LoneInv'
  <2>1. /\ Moves(c) /\ Busy(c) /\ Busy(c)' /\ UNCHANGED <<isAgentRunActive, branchCtl, compactPc>>
        /\ InPreflight(c)' <=> InPreflight(c)
        /\ InPreflight(c) \/ waiters' = waiters
    BY <1>20, <1>0 DEF RunEnds, Running, At, Go, Moves, Busy, InPreflight
  <2> QED BY <2>1, LoneGoesOn DEF LoneInv
<1>21. ASSUME NEW c \in Caller, PostRun(c) PROVE LoneInv'
  <2>1. /\ Moves(c) /\ Busy(c) /\ Busy(c)' /\ UNCHANGED <<isAgentRunActive, branchCtl, compactPc>>
        /\ InPreflight(c)' <=> InPreflight(c)
        /\ InPreflight(c) \/ waiters' = waiters
    BY <1>21, <1>0 DEF PostRun, At, Go, postRest, RetriesLeft, GiveUpRetrying, Moves, Busy, InPreflight
  <2> QED BY <2>1, LoneGoesOn DEF LoneInv
<1>22. ASSUME NEW c \in Caller, RetryWakes(c) PROVE LoneInv'
  <2>1. /\ Moves(c) /\ Busy(c) /\ Busy(c)' /\ UNCHANGED <<isAgentRunActive, branchCtl, compactPc>>
        /\ InPreflight(c)' <=> InPreflight(c)
        /\ InPreflight(c) \/ waiters' = waiters
    BY <1>22, <1>0 DEF RetryWakes, At, Go, postRest, Moves, Busy, InPreflight
  <2> QED BY <2>1, LoneGoesOn DEF LoneInv
<1>23. ASSUME NEW c \in Caller, CheckAfterRun(c) PROVE LoneInv'
  <2>1. /\ Moves(c) /\ Busy(c) /\ Busy(c)' /\ UNCHANGED <<isAgentRunActive, branchCtl, compactPc>>
        /\ InPreflight(c)' <=> InPreflight(c)
        /\ InPreflight(c) \/ waiters' = waiters
    BY <1>23, <1>0 DEF CheckAfterRun, At, Go, NoCompaction, RecoverOverflow, OverThreshold, compactRest, Moves, Busy, InPreflight
  <2> QED BY <2>1, LoneGoesOn DEF LoneInv
<1>24. ASSUME NEW c \in Caller, Decide(c) PROVE LoneInv'
  <2>1. /\ Moves(c) /\ Busy(c) /\ Busy(c)' /\ UNCHANGED <<isAgentRunActive, branchCtl, compactPc>>
        /\ InPreflight(c)' <=> InPreflight(c)
        /\ InPreflight(c) \/ waiters' = waiters
    BY <1>24, <1>0 DEF Decide, At, Go, Moves, Busy, InPreflight
  <2> QED BY <2>1, LoneGoesOn DEF LoneInv
<1>25. ASSUME NEW c \in Caller, ContinueRun(c) PROVE LoneInv'
  <2>1. /\ Moves(c) /\ Busy(c) /\ Busy(c)' /\ UNCHANGED <<isAgentRunActive, branchCtl, compactPc>>
        /\ InPreflight(c)' <=> InPreflight(c)
        /\ InPreflight(c) \/ waiters' = waiters
    BY <1>25, <1>0 DEF ContinueRun, At, Go, Rejected, Take, Moves, Busy, InPreflight
  <2> QED BY <2>1, LoneGoesOn DEF LoneInv
<1>26. ASSUME NEW c \in Caller, SettleRun(c) PROVE LoneInv'
  <2>1. /\ Moves(c) /\ Busy(c) /\ ~Busy(c)' /\ isAgentRunActive' = FALSE
        /\ UNCHANGED <<branchCtl, compactPc>>
    BY <1>26, <1>0 DEF SettleRun, Settle, At, Go, Moves, Busy
  <2> QED BY <2>1, LoneEnds
<1>27. ASSUME NEW c \in Caller, AutoCompactionStart(c) PROVE LoneInv'
  <2>1. /\ Moves(c) /\ Busy(c) /\ Busy(c)' /\ UNCHANGED <<isAgentRunActive, branchCtl, compactPc>>
        /\ InPreflight(c)' <=> InPreflight(c)
    BY <1>27, <1>0 DEF AutoCompactionStart, At, Go, Return, ClearAutoCompaction, compactRest, Moves, Busy, InPreflight
  <2>2. isAgentRunActive <=> ~InPreflight(c)
    BY <2>1 DEF LoneInv
  <2>3. InPreflight(c) \/ waiters' = waiters
    BY <1>27, <2>2 DEF AutoCompactionStart, ClearAutoCompaction, ResolveIdleWaitIfIdle
  <2> QED BY <2>1, <2>2, <2>3, LoneGoesOn
<1>28. ASSUME NEW c \in Caller, AutoCompactionFails(c) PROVE LoneInv'
  <2>1. /\ Moves(c) /\ Busy(c) /\ Busy(c)' /\ UNCHANGED <<isAgentRunActive, branchCtl, compactPc>>
        /\ InPreflight(c)' <=> InPreflight(c)
    BY <1>28, <1>0 DEF AutoCompactionFails, At, Go, Return, ClearAutoCompaction, compactRest, Moves, Busy, InPreflight
  <2>2. isAgentRunActive <=> ~InPreflight(c)
    BY <2>1 DEF LoneInv
  <2>3. InPreflight(c) \/ waiters' = waiters
    BY <1>28, <2>2 DEF AutoCompactionFails, ClearAutoCompaction, ResolveIdleWaitIfIdle
  <2> QED BY <2>1, <2>2, <2>3, LoneGoesOn
<1>29. ASSUME NEW c \in Caller, AutoCompactionSucceeds(c) PROVE LoneInv'
  <2>1. /\ Moves(c) /\ Busy(c) /\ Busy(c)' /\ UNCHANGED <<isAgentRunActive, branchCtl, compactPc>>
        /\ InPreflight(c)' <=> InPreflight(c)
    BY <1>29, <1>0 DEF AutoCompactionSucceeds, At, Go, Return, ClearAutoCompaction, compactRest, Moves, Busy, InPreflight
  <2>2. isAgentRunActive <=> ~InPreflight(c)
    BY <2>1 DEF LoneInv
  <2>3. InPreflight(c) \/ waiters' = waiters
    BY <1>29, <2>2 DEF AutoCompactionSucceeds, ClearAutoCompaction, ResolveIdleWaitIfIdle
  <2> QED BY <2>1, <2>2, <2>3, LoneGoesOn
<1>30. CASE CompactStart
  <2>1. Unattended /\ branchCtl = "none" /\ UNCHANGED <<pc, job, isAgentRunActive, branchCtl>>
        /\ compactPc' = "auth"
    BY <1>30 DEF CompactStart, manualRest, LoneInv
  <2> QED BY <2>1 DEF LoneInv, Unattended, Busy, InPreflight
<1>31. CASE CompactPrepare
  <2>1. Unattended /\ branchCtl = "none" /\ UNCHANGED <<pc, job, isAgentRunActive, branchCtl>>
        /\ compactPc' \in {"done", "running"}
    BY <1>31 DEF CompactPrepare, ClearManualCompactionState, manualRest, LoneInv
  <2> QED BY <2>1 DEF LoneInv, Unattended, Busy, InPreflight
<1>32. CASE CompactFinish
  <2>1. Unattended /\ branchCtl = "none" /\ UNCHANGED <<pc, job, isAgentRunActive, branchCtl>>
        /\ compactPc' \in {"done", "running"}
    BY <1>32 DEF CompactFinish, ClearManualCompactionState, manualRest, LoneInv
  <2> QED BY <2>1 DEF LoneInv, Unattended, Busy, InPreflight
<1>33. CASE NavigateFinish
  <2>1. branchCtl' = "none" /\ UNCHANGED <<pc, job, isAgentRunActive, compactPc, waiters>>
    BY <1>33 DEF NavigateFinish, navRest
  <2> QED BY <2>1 DEF LoneInv, Unattended, Busy, InPreflight
<1>34. CASE UNCHANGED vars
  BY <1>34, LoneSame DEF vars, Busy, InPreflight
<1> QED
  BY <1>1, <1>2, <1>3, <1>4, <1>5, <1>6, <1>7, <1>8, <1>9, <1>10, <1>11, <1>12,
     <1>13, <1>14, <1>15, <1>16, <1>17, <1>18, <1>19, <1>20, <1>21, <1>22, <1>23,
     <1>24, <1>25, <1>26, <1>27, <1>28, <1>29, <1>30, <1>31, <1>32, <1>33, <1>34
     DEF Next, Client, Step

(* A compaction that is summarized has a controller, and a backoff.          *)
LEMMA ControllerNext ==
  ASSUME ControlOK, LoneInv, ControllerInv, [Next]_vars
  PROVE  ControllerInv'
<1> USE DEF callVars, retryVars, ctlVars, pendVars, runVars, queueVars, logVars, histVars
<1>0. /\ pc \in [Caller -> Pcs] /\ pc' \in [Caller -> Pcs]
      /\ job \in [Caller -> {"pre", "preRetry", "turn", "retry", "threshold"}]
  BY CallsNext DEF ControlOK, CallsOK
<1>1. ASSUME NEW c \in Caller, PromptRejected(c) PROVE ControllerInv'
  BY <1>1, <1>0 DEF PromptRejected, At, Go, ControllerInv
<1>2. ASSUME NEW c \in Caller, PromptQueued(c) PROVE ControllerInv'
  BY <1>2, <1>0 DEF PromptQueued, At, Go, Enqueue, ControllerInv
<1>3. ASSUME NEW c \in Caller, PromptPreflight(c) PROVE ControllerInv'
  BY <1>3, <1>0 DEF PromptPreflight, At, Go, FlushPending, ControllerInv
<1>4. ASSUME NEW c \in Caller, TriggerTurn(c) PROVE ControllerInv'
  <2>1. UNCHANGED <<autoCtl, retryCtl>> /\ pc[c] \notin {"retry", "compacting"} /\ pc'[c] # "compacting"
        /\ \A x \in Caller : x # c => pc'[x] = pc[x]
    BY <1>4, <1>0 DEF TriggerTurn, At, RunAgentPrompt, Settle, Go
  <2> QED BY <2>1 DEF ControllerInv
<1>5. CASE Steer
  BY <1>5 DEF Steer, Enqueue, ControllerInv
<1>6. CASE ClearQueue
  BY <1>6 DEF ClearQueue, ControllerInv
<1>7. CASE RecordBashResult
  BY <1>7 DEF RecordBashResult, noteRest, Note, ControllerInv
<1>8. CASE SendCustomMessage
  BY <1>8 DEF SendCustomMessage, noteRest, Note, ControllerInv
<1>9. CASE Abort
  BY <1>9 DEF Abort, AbortAll, Aborted, ControllerInv
<1>10. CASE AbortOne
  BY <1>10 DEF AbortOne, Aborted, ControllerInv
<1>11. CASE Compact
  BY <1>11 DEF Compact, AbortAll, Aborted, manualRest, ControllerInv
<1>12. CASE NavigateTree
  BY <1>12 DEF NavigateTree, navRest, MoveTo, ControllerInv
<1>13. ASSUME NEW c \in Caller, CheckBeforePrompt(c) PROVE ControllerInv'
  BY <1>13, <1>0 DEF CheckBeforePrompt, At, Go, NoCompaction, RecoverOverflow, OverThreshold, compactRest, ControllerInv
<1>14. ASSUME NEW c \in Caller, Send(c) PROVE ControllerInv'
  <2>1. UNCHANGED <<autoCtl, retryCtl>> /\ pc[c] \notin {"retry", "compacting"} /\ pc'[c] # "compacting"
        /\ \A x \in Caller : x # c => pc'[x] = pc[x]
    BY <1>14, <1>0 DEF Send, At, RunAgentPrompt, Settle, Go
  <2> QED BY <2>1 DEF ControllerInv
<1>15. ASSUME NEW c \in Caller, NEW k \in Replied, Reply(c, k) PROVE ControllerInv'
  BY <1>15 DEF Reply, turnRest, Running, At, ControllerInv
<1>16. ASSUME NEW c \in Caller, ToolsFinish(c) PROVE ControllerInv'
  BY <1>16 DEF ToolsFinish, turnRest, Running, At, ControllerInv
<1>17. ASSUME NEW c \in Caller, NextTurn(c) PROVE ControllerInv'
  BY <1>17, <1>0 DEF NextTurn, turnRest, Running, At, Go, PrepareNextTurn, Take, ControllerInv
<1>18. ASSUME NEW c \in Caller, PollQueues(c) PROVE ControllerInv'
  BY <1>18, <1>0 DEF PollQueues, turnRest, Running, At, Go, PrepareNextTurn, Take, ControllerInv
<1>19. ASSUME NEW c \in Caller, Inject(c) PROVE ControllerInv'
  BY <1>19 DEF Inject, turnRest, Running, At, ControllerInv
<1>20. ASSUME NEW c \in Caller, RunEnds(c) PROVE ControllerInv'
  BY <1>20, <1>0 DEF RunEnds, Running, At, Go, ControllerInv
<1>21. ASSUME NEW c \in Caller, PostRun(c) PROVE ControllerInv'
  BY <1>21, <1>0 DEF PostRun, At, Go, postRest, RetriesLeft, GiveUpRetrying, ControllerInv
<1>22. ASSUME NEW c \in Caller, RetryWakes(c) PROVE ControllerInv'
  BY <1>22, <1>0 DEF RetryWakes, At, Go, postRest, ControllerInv
<1>23. ASSUME NEW c \in Caller, CheckAfterRun(c) PROVE ControllerInv'
  BY <1>23, <1>0 DEF CheckAfterRun, At, Go, NoCompaction, RecoverOverflow, OverThreshold, compactRest, ControllerInv
<1>24. ASSUME NEW c \in Caller, Decide(c) PROVE ControllerInv'
  BY <1>24, <1>0 DEF Decide, At, Go, ControllerInv
<1>25. ASSUME NEW c \in Caller, ContinueRun(c) PROVE ControllerInv'
  BY <1>25, <1>0 DEF ContinueRun, At, Go, Rejected, Take, ControllerInv
<1>26. ASSUME NEW c \in Caller, SettleRun(c) PROVE ControllerInv'
  <2>1. UNCHANGED <<autoCtl, retryCtl>> /\ pc[c] \notin {"retry", "compacting"} /\ pc'[c] # "compacting"
        /\ \A x \in Caller : x # c => pc'[x] = pc[x]
    BY <1>26, <1>0 DEF SettleRun, At, Settle, Go
  <2> QED BY <2>1 DEF ControllerInv
<1>27. ASSUME NEW c \in Caller, AutoCompactionStart(c) PROVE ControllerInv'
  <2>1. /\ retryCtl' = retryCtl /\ pc[c] \in {"compactAuth", "compacting"}
        /\ pc'[c] = "compacting" => autoCtl' # "none"
        /\ \A x \in Caller : x # c => pc'[x] = pc[x]
    BY <1>27, <1>0 DEF AutoCompactionStart, At, Go, Return, ClearAutoCompaction, compactRest
  <2>2. \A x \in Caller : x # c => pc[x] # "compacting"
    BY <2>1 DEF LoneInv, Busy
  <2> QED BY <2>1, <2>2 DEF ControllerInv
<1>28. ASSUME NEW c \in Caller, AutoCompactionFails(c) PROVE ControllerInv'
  <2>1. /\ retryCtl' = retryCtl /\ pc[c] \in {"compactAuth", "compacting"}
        /\ pc'[c] = "compacting" => autoCtl' # "none"
        /\ \A x \in Caller : x # c => pc'[x] = pc[x]
    BY <1>28, <1>0 DEF AutoCompactionFails, At, Go, Return, ClearAutoCompaction, compactRest
  <2>2. \A x \in Caller : x # c => pc[x] # "compacting"
    BY <2>1 DEF LoneInv, Busy
  <2> QED BY <2>1, <2>2 DEF ControllerInv
<1>29. ASSUME NEW c \in Caller, AutoCompactionSucceeds(c) PROVE ControllerInv'
  <2>1. /\ retryCtl' = retryCtl /\ pc[c] \in {"compactAuth", "compacting"}
        /\ pc'[c] = "compacting" => autoCtl' # "none"
        /\ \A x \in Caller : x # c => pc'[x] = pc[x]
    BY <1>29, <1>0 DEF AutoCompactionSucceeds, At, Go, Return, ClearAutoCompaction, compactRest
  <2>2. \A x \in Caller : x # c => pc[x] # "compacting"
    BY <2>1 DEF LoneInv, Busy
  <2> QED BY <2>1, <2>2 DEF ControllerInv
<1>30. CASE CompactStart
  BY <1>30 DEF CompactStart, manualRest, ControllerInv
<1>31. CASE CompactPrepare
  BY <1>31 DEF CompactPrepare, ClearManualCompactionState, manualRest, ControllerInv
<1>32. CASE CompactFinish
  BY <1>32 DEF CompactFinish, ClearManualCompactionState, manualRest, ControllerInv
<1>33. CASE NavigateFinish
  BY <1>33 DEF NavigateFinish, navRest, MoveTo, ControllerInv
<1>34. CASE UNCHANGED vars
  BY <1>34 DEF vars, ControllerInv
<1> QED
  BY <1>1, <1>2, <1>3, <1>4, <1>5, <1>6, <1>7, <1>8, <1>9, <1>10, <1>11, <1>12,
     <1>13, <1>14, <1>15, <1>16, <1>17, <1>18, <1>19, <1>20, <1>21, <1>22, <1>23,
     <1>24, <1>25, <1>26, <1>27, <1>28, <1>29, <1>30, <1>31, <1>32, <1>33, <1>34
     DEF Next, Client, Step

--------------------------------------------------------------------------------
(* Notes *)

(* What Record counts.                                                       *)
LEMMA CountNotes ==
  ASSUME NEW n \in Nat, Record(Notes(n)), recorded \in Nat
  PROVE  recorded' = recorded + n
<1>1. Notes(n) = [i \in 1..n |-> "note"] /\ Len(Notes(n)) = n
  BY DEF Notes
<1>2. {i \in 1..Len(Notes(n)) : Notes(n)[i] = "note"} = 1..n
  BY <1>1
<1>3. Cardinality(1..n) = n
  BY FS_Interval
<1> QED BY <1>2, <1>3 DEF Record

(* Notes behind another message, ...                                         *)
LEMMA CountBehind ==
  ASSUME NEW n \in Nat, NEW k, k # "note", Record(<<k>> \o Notes(n)), recorded \in Nat
  PROVE  recorded' = recorded + n
<1> DEFINE s == <<k>> \o Notes(n)
<1>1. Notes(n) = [i \in 1..n |-> "note"] /\ Notes(n) \in Seq({"note"}) /\ Len(Notes(n)) = n
  BY DEF Notes
<1>2. Len(s) = n + 1 /\ s[1] = k /\ \A i \in 2..(n + 1) : s[i] = "note"
  BY <1>1
<1>3. {i \in 1..Len(s) : s[i] = "note"} = 2..(n + 1)
  BY <1>2
<1>4. Cardinality(2..(n + 1)) = n
  BY FS_Interval
<1>5. recorded' = recorded + Cardinality({i \in 1..Len(s) : s[i] = "note"})
  BY DEF Record
<1> QED BY <1>3, <1>4, <1>5

(* ... and that message alone.                                               *)
LEMMA CountOne ==
  ASSUME NEW k, k # "note", Record(<<k>>), recorded \in Nat
  PROVE  recorded' = recorded
<1>1. {i \in 1..Len(<<k>>) : <<k>>[i] = "note"} = {}
  OBVIOUS
<1>2. recorded' = recorded + Cardinality({i \in 1..Len(<<k>>) : <<k>>[i] = "note"})
  BY DEF Record
<1>3. recorded' = recorded + 0
  BY <1>1, <1>2, FS_EmptySet
<1> QED BY <1>3

(* Every note is recorded or pending.                                        *)
LEMMA NotesNext ==
  ASSUME Patient, ControlOK, RunInv, LoneInv, NotesInv, [Next]_vars
  PROVE  NotesInv'
<1> USE DEF callVars, retryVars, ctlVars, pendVars, runVars, queueVars, logVars, histVars, NotesInv, NotesAreConserved
<1>0. /\ pendingBash \in Nat /\ pendingCustom \in Nat /\ pendingNextTurn \in Nat
      /\ notes \in Nat
  BY ConstantsAssumption DEF ControlOK, CountsOK
<1>1. ASSUME NEW c \in Caller, PromptRejected(c) PROVE NotesInv'
  BY <1>1 DEF PromptRejected, At, Go
<1>2. ASSUME NEW c \in Caller, PromptQueued(c) PROVE NotesInv'
  BY <1>2 DEF PromptQueued, At, Go, Enqueue
<1>3. ASSUME NEW c \in Caller, PromptPreflight(c) PROVE NotesInv'
  <2>1. recorded' = recorded + (pendingBash + pendingCustom)
    BY <1>3, <1>0, CountNotes DEF PromptPreflight, FlushPending
  <2> QED BY <1>3, <1>0, <2>1 DEF PromptPreflight, FlushPending
<1>4. ASSUME NEW c \in Caller, TriggerTurn(c) PROVE NotesInv'
  <2>1. ~activeRun
    BY <1>4, QuietIsUnattended, AgentIsFree DEF TriggerTurn, Alone
  <2>2. recorded' = recorded
    BY <1>4, <2>1, CountOne DEF TriggerTurn, RunAgentPrompt
  <2> QED BY <1>4, <2>1, <2>2 DEF TriggerTurn, RunAgentPrompt
<1>5. CASE Steer
  BY <1>5 DEF Steer, Enqueue
<1>6. CASE ClearQueue
  BY <1>6 DEF ClearQueue
<1>7. CASE RecordBashResult
  <2>1. Record(Notes(1)) => recorded' = recorded + 1
    BY CountNotes
  <2> QED BY <1>7, <1>0, <2>1 DEF RecordBashResult, noteRest, Note
<1>8. CASE SendCustomMessage
  <2>1. Record(Notes(1)) => recorded' = recorded + 1
    BY CountNotes
  <2> QED BY <1>8, <1>0, <2>1 DEF SendCustomMessage, noteRest, Note
<1>9. CASE Abort
  BY <1>9 DEF Abort, AbortAll, Aborted
<1>10. CASE AbortOne
  BY <1>10 DEF AbortOne, Aborted
<1>11. CASE Compact
  BY <1>11 DEF Compact, AbortAll, Aborted, manualRest
<1>12. CASE NavigateTree
  BY <1>12 DEF NavigateTree, navRest, MoveTo
<1>13. ASSUME NEW c \in Caller, CheckBeforePrompt(c) PROVE NotesInv'
  BY <1>13 DEF CheckBeforePrompt, At, Go, NoCompaction, RecoverOverflow, OverThreshold, compactRest
<1>14. ASSUME NEW c \in Caller, Send(c) PROVE NotesInv'
  <2>1. ~activeRun
    BY <1>14, AgentIsFree DEF Send, At
  <2>2. recorded' = recorded + pendingNextTurn
    BY <1>14, <1>0, <2>1, CountBehind DEF Send, RunAgentPrompt
  <2> QED BY <1>14, <1>0, <2>1, <2>2 DEF Send, RunAgentPrompt
<1>15. ASSUME NEW c \in Caller, NEW k \in Replied, Reply(c, k) PROVE NotesInv'
  <2>1. k # "note"
    BY DEF Replied
  <2>2. CASE k = "call"
    <3>1. recorded' = recorded
      BY <1>15, <2>1, <2>2, CountOne DEF Reply
    <3> QED BY <1>15, <2>2, <3>1 DEF Reply, turnRest
  <2>3. CASE k # "call"
    <3>1. recorded' = recorded + pendingCustom
      BY <1>15, <1>0, <2>1, <2>3, CountBehind DEF Reply
    <3> QED BY <1>15, <1>0, <2>3, <3>1 DEF Reply, turnRest
  <2> QED BY <2>2, <2>3
<1>16. ASSUME NEW c \in Caller, ToolsFinish(c) PROVE NotesInv'
  <2>1. recorded' = recorded + pendingCustom
    BY <1>16, <1>0, CountBehind, CountNotes DEF ToolsFinish
  <2> QED BY <1>16, <1>0, <2>1 DEF ToolsFinish, turnRest
<1>17. ASSUME NEW c \in Caller, NextTurn(c) PROVE NotesInv'
  BY <1>17 DEF NextTurn, turnRest, Running, At, Go, PrepareNextTurn, Take
<1>18. ASSUME NEW c \in Caller, PollQueues(c) PROVE NotesInv'
  BY <1>18 DEF PollQueues, turnRest, Running, At, Go, PrepareNextTurn, Take
<1>19. ASSUME NEW c \in Caller, Inject(c) PROVE NotesInv'
  <2>1. recorded' = recorded
    BY <1>19, CountOne DEF Inject
  <2> QED BY <1>19, <2>1 DEF Inject, turnRest
<1>20. ASSUME NEW c \in Caller, RunEnds(c) PROVE NotesInv'
  BY <1>20 DEF RunEnds, Running, At, Go
<1>21. ASSUME NEW c \in Caller, PostRun(c) PROVE NotesInv'
  BY <1>21 DEF PostRun, At, Go, postRest, RetriesLeft, GiveUpRetrying
<1>22. ASSUME NEW c \in Caller, RetryWakes(c) PROVE NotesInv'
  BY <1>22 DEF RetryWakes, At, Go, postRest
<1>23. ASSUME NEW c \in Caller, CheckAfterRun(c) PROVE NotesInv'
  BY <1>23 DEF CheckAfterRun, At, Go, NoCompaction, RecoverOverflow, OverThreshold, compactRest
<1>24. ASSUME NEW c \in Caller, Decide(c) PROVE NotesInv'
  BY <1>24 DEF Decide, At, Go
<1>25. ASSUME NEW c \in Caller, ContinueRun(c) PROVE NotesInv'
  BY <1>25 DEF ContinueRun, At, Go, Rejected, Take
<1>26. ASSUME NEW c \in Caller, SettleRun(c) PROVE NotesInv'
  <2>1. recorded' = recorded + (pendingBash + pendingCustom)
    BY <1>26, <1>0, CountNotes DEF SettleRun, Settle, FlushPending
  <2> QED BY <1>26, <1>0, <2>1 DEF SettleRun, Settle, FlushPending
<1>27. ASSUME NEW c \in Caller, AutoCompactionStart(c) PROVE NotesInv'
  BY <1>27 DEF AutoCompactionStart, At, Go, Return, ClearAutoCompaction, compactRest
<1>28. ASSUME NEW c \in Caller, AutoCompactionFails(c) PROVE NotesInv'
  BY <1>28 DEF AutoCompactionFails, At, Go, Return, ClearAutoCompaction, compactRest
<1>29. ASSUME NEW c \in Caller, AutoCompactionSucceeds(c) PROVE NotesInv'
  BY <1>29 DEF AutoCompactionSucceeds, At, Go, Return, ClearAutoCompaction, compactRest
<1>30. CASE CompactStart
  BY <1>30 DEF CompactStart, manualRest
<1>31. CASE CompactPrepare
  BY <1>31 DEF CompactPrepare, ClearManualCompactionState, manualRest
<1>32. CASE CompactFinish
  BY <1>32 DEF CompactFinish, ClearManualCompactionState, manualRest
<1>33. CASE NavigateFinish
  BY <1>33 DEF NavigateFinish, navRest, MoveTo
<1>34. CASE UNCHANGED vars
  BY <1>34 DEF vars
<1> QED
  BY <1>1, <1>2, <1>3, <1>4, <1>5, <1>6, <1>7, <1>8, <1>9, <1>10, <1>11, <1>12,
     <1>13, <1>14, <1>15, <1>16, <1>17, <1>18, <1>19, <1>20, <1>21, <1>22, <1>23,
     <1>24, <1>25, <1>26, <1>27, <1>28, <1>29, <1>30, <1>31, <1>32, <1>33, <1>34
     DEF Next, Client, Step

--------------------------------------------------------------------------------
(* Theorems *)

(* The initial state.                                                        *)
LEMMA ControlInit == Init => ControlOK
<1> SUFFICES ASSUME Init PROVE ControlOK
  OBVIOUS
<1>1. CallsOK
  BY DEF Init, CallsOK, Pcs
<1>2. FlagsOK /\ SwitchesOK
  BY DEF Init, FlagsOK, SwitchesOK, Ctl
<1>3. CountsOK
  BY ConstantsAssumption DEF Init, CountsOK
<1> QED BY <1>1, <1>2, <1>3 DEF ControlOK

(* The session starts with no run and no compaction, ...                     *)
LEMMA AnyInit == Init => AnyInv
<1>1. Init => RunInv /\ ManualInv
  BY DEF Init, RunInv, Runner, ManualInv
<1> QED BY <1>1, ControlInit DEF AnyInv

(* ... and unattended.                                                       *)
LEMMA PatientInit == Init => PatientInv
<1>1. Init => LoneInv /\ ControllerInv
  BY DEF Init, LoneInv, Busy, Unattended, InPreflight, ControllerInv
<1>2. Init => NotesInv
  BY DEF Init, NotesInv, NotesAreConserved
<1> QED BY <1>1, <1>2, AnyInit DEF PatientInv

(* Every step keeps the invariants.                                          *)
LEMMA AnyNext == AnyInv /\ [Next]_vars => AnyInv'
<1> SUFFICES ASSUME AnyInv, [Next]_vars PROVE AnyInv'
  OBVIOUS
<1>1. ControlOK /\ CallsOK /\ FlagsOK /\ SwitchesOK /\ CountsOK /\ RunInv /\ ManualInv
  BY DEF AnyInv, ControlOK
<1>2. ControlOK'
  BY <1>1, CallsNext, FlagsNext, SwitchesNext, CountsNext DEF ControlOK
<1>3. RunInv' /\ ManualInv'
  BY <1>1, RunNext, ManualNext
<1> QED BY <1>2, <1>3 DEF AnyInv

(* The same for a patient client.                                            *)
LEMMA PatientNext ==
  ASSUME Patient
  PROVE  PatientInv /\ [Next]_vars => PatientInv'
<1> SUFFICES ASSUME PatientInv, [Next]_vars PROVE PatientInv'
  OBVIOUS
<1>1. AnyInv /\ ControlOK /\ RunInv /\ ManualInv /\ LoneInv /\ ControllerInv /\ NotesInv
  BY DEF PatientInv, AnyInv
<1>2. AnyInv' /\ LoneInv' /\ ControllerInv' /\ NotesInv'
  BY <1>1, AnyNext, LoneNext, ControllerNext, NotesNext
<1> QED BY <1>2 DEF PatientInv

(* What holds whoever calls.                                                 *)
THEOREM Invariance == Spec => []AnyInv
  BY AnyInit, AnyNext, PTL DEF Spec

(* What a patient client can rely on.                                        *)
THEOREM PatientInvariance ==
  ASSUME Patient
  PROVE  Spec => []PatientInv
  BY PatientInit, PatientNext, PTL DEF Spec

(* However prompts, triggered turns, retries and compactions race, the agent *)
(* runs for exactly one call while it runs (_runAgentPrompt, agent.continue).*)
THEOREM OneRunAtATime == Spec => []RunsAreExclusive
<1>1. ASSUME AnyInv PROVE RunsAreExclusive
  <2> DEFINE R == {c \in Caller : Runner(c)}
  <2>1. RunInv /\ activeRun \in BOOLEAN
    BY <1>1 DEF AnyInv, ControlOK, FlagsOK
  <2>2. CASE activeRun
    <3>1. PICK c : R = {c}
      BY <2>1, <2>2 DEF RunInv
    <3> QED BY <2>2, <3>1, FS_Singleton DEF RunsAreExclusive, Runner
  <2>3. CASE ~activeRun
    <3>1. R = {}
      BY <2>1, <2>3 DEF RunInv
    <3> QED BY <2>3, <3>1, FS_EmptySet DEF RunsAreExclusive, Runner
  <2> QED BY <2>2, <2>3
<1> QED BY <1>1, Invariance, PTL

(* After agent_settled nothing of a run is left: neither the run, nor a      *)
(* retry, a continuation or a check that may lead to one.                    *)
THEOREM SettledIsIdle ==
  ASSUME Patient
  PROVE  Spec => []SettledMeansIdle
<1>1. ASSUME PatientInv PROVE SettledMeansIdle
  <2>1. LoneInv /\ RunInv
    BY <1>1 DEF PatientInv, AnyInv
  <2>2. ASSUME ~isAgentRunActive, NEW c \in Caller
        PROVE  ~Busy(c) \/ InPreflight(c)
    BY <2>1, <2>2 DEF LoneInv
  <2>3. ASSUME ~isAgentRunActive, NEW c \in Caller
        PROVE  /\ ~Runner(c)
               /\ pc[c] \notin {"run", "post", "retry", "check", "decide", "continue"}
    BY <2>2, <2>3 DEF Busy, InPreflight, Runner
  <2>4. ~isAgentRunActive => ~activeRun
    BY <2>1, <2>3 DEF RunInv
  <2> QED BY <2>3, <2>4 DEF SettledMeansIdle
<1> QED BY <1>1, PatientInvariance, PTL

(* No run during a manual compaction (compact, prompt).                      *)
THEOREM CompactionExcludesRuns ==
  ASSUME Patient
  PROVE  Spec => []CompactionIsExclusive
<1>1. ASSUME PatientInv PROVE CompactionIsExclusive
  <2>1. LoneInv /\ RunInv /\ ManualInv
    BY <1>1 DEF PatientInv, AnyInv
  <2>2. compactionCtl # "none" => Unattended
    BY <2>1 DEF ManualInv, LoneInv
  <2> QED BY <2>1, <2>2, AgentIsFree DEF CompactionIsExclusive
<1> QED BY <1>1, PatientInvariance, PTL

(* An automatic compaction under way is the only one and has a controller    *)
(* (_runAutoCompaction).                                                     *)
THEOREM CompactionIsCancellable ==
  ASSUME Patient
  PROVE  Spec => []CompactionCanBeAborted
<1>1. ASSUME PatientInv PROVE CompactionCanBeAborted
  <2> DEFINE S == {c \in Caller : pc[c] = "compacting"}
  <2>1. LoneInv /\ ControllerInv
    BY <1>1 DEF PatientInv
  <2>2. \A c, d \in S : c = d
    BY <2>1 DEF LoneInv, Busy
  <2>3. Cardinality(S) <= 1
    <3>1. CASE S = {}
      BY <3>1, FS_EmptySet
    <3>2. CASE S # {}
      <4>1. PICK c : S = {c}
        BY <2>2, <3>2
      <4> QED BY <4>1, FS_Singleton
    <3> QED BY <3>1, <3>2
  <2> QED BY <2>1, <2>3 DEF ControllerInv, CompactionCanBeAborted
<1> QED BY <1>1, PatientInvariance, PTL

(* Every bash result and custom message is recorded once or still pending,   *)
(* and pending ones do not outlive the run (recordBashResult,                *)
(* sendCustomMessage, _flushPendingBashMessages, _flushPendingCustomMessages).*)
THEOREM NoNoteIsLost ==
  ASSUME Patient
  PROVE  Spec => []NotesAreConserved
<1>1. PatientInv => NotesAreConserved
  BY DEF PatientInv, NotesInv
<1> QED BY <1>1, PatientInvariance, PTL
================================================================================
