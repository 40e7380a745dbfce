---------------------------- MODULE AgentLoopProofs ----------------------------
(***************************************************************************)
(* Proofs about one Agent and its loop: types, queues and tool calls.  The *)
(* properties follow from one inductive invariant, LoopInv, whose parts say *)
(* what the loop's locals hold at each await: a part has a lemma that every *)
(* step keeps it, with one case per action, and uses the parts before it.  *)
(***************************************************************************)
EXTENDS AgentLoop, SequenceTheorems, FiniteSetTheorems, TLAPS

Failing == {"failed", "failTurnEnd", "failAgentEnd", "failFinish"}
InBatch == {"tools", "join", "emitResults"}

(* Where the locals of the loop are in use.                                  *)
ControlInv ==
  /\ activeRun <=> pc # "idle"
  /\ pending # <<>> => pc \in {"turnTop", "prepareNextTurn", "prepared"}
  /\ todo # <<>> => Emitting
  /\ pc \in {"emitPrompts", "emitPending"} => \A j \in 1..Len(todo) : todo[j].role = "user"
  /\ pc = "emitPrompts" => firstTurn /\ hasMoreToolCalls
  /\ pc = "turnTop" /\ firstTurn => hasMoreToolCalls
  /\ pc \in {"prepareNextTurn", "prepared", "emitPending", "stream", "streaming", "replied",
             "turnEnd", "turnEnded"} \cup InBatch => ~firstTurn

(* Whether the turn may still poll for steering, and that it has not.        *)
SteeringInv ==
  /\ SteeringOncePerTurn
  /\ pc = "emitPrompts" /\ ~skipInitialSteeringPoll => steeringDrains = 0
  /\ pc \in {"turnEnd", "turnEnded"} \cup InBatch => steeringDrains = 0
  /\ pc = "turnTop" /\ ~firstTurn /\ pending = <<>> => steeringDrains = 0
  /\ pc = "prepareNextTurn" /\ pending = <<>> => steeringDrains = 0

(* The number of places message m is in.                                     *)
Places(m) ==
  Count(steeringQueue, m) + Count(followUpQueue, m) + Count(pending, m)
    + Count(todo, User(m)) + Count(messages, User(m)) + (IF m \in dropped THEN 1 ELSE 0)

Conserved(m) == Places(m) = IF m \in sent THEN 1 ELSE 0
ConservationInv == \A m \in Msg : Conserved(m)

(* How far the calls of a batch are: outside a parallel batch those before   *)
(* the cursor have ended and those behind it are untouched; a parallel batch *)
(* leaves calls untouched only when the run was aborted.                     *)
BatchInv ==
  /\ cursor >= 1
  /\ pc \in InBatch => ~Failed(reply) /\ Len(calls) = reply.calls
  /\ pc \in InBatch /\ batch # "parallel" => cursor <= Len(calls)
  /\ pc = "tools" /\ batch # "parallel" =>
       \A i \in 1..Len(calls) : (i < cursor => calls[i] = "ended") /\ (i > cursor => calls[i] = "queued")
  /\ pc = "join" => batch = "parallel"
  /\ pc = "emitResults" /\ batch # "parallel" =>
       \A i \in 1..Len(calls) : calls[i] = IF i <= cursor THEN "ended" ELSE "queued"
  /\ pc \notin {"tools", "join"} \cup Failing => \A i \in 1..Len(calls) : calls[i] \in {"queued", "ended"}
  /\ pc = "tools" /\ batch = "parallel" /\ ~aborted =>
       \A i \in 1..Len(calls) : i < cursor => calls[i] # "queued"
  /\ pc \in {"join", "emitResults"} /\ batch = "parallel" /\ ~aborted =>
       \A i \in 1..Len(calls) : calls[i] # "queued"

(* A tool left behind by a failed run belongs to an earlier turn than the    *)
(* one in progress, so its call is not one of the current calls.             *)
DetachedInv ==
  /\ \A c \in detached : c.turn <= turn
  /\ pc \in {"stream", "streaming", "replied", "turnEnd", "turnEnded"} \cup InBatch =>
       \A c \in detached : c.turn < turn
  /\ pc \in {"replied"} \cup InBatch => reply.turn = turn

(* The first k results of turn t.                                           *)
ResultsUpTo(t, k) == [i \in 1..k |-> ToolResult([turn |-> t, index |-> i])]
LoopInv == TypeOK /\ ControlInv /\ SteeringInv /\ ConservationInv /\ BatchInv /\ DetachedInv
           /\ PendingCallsAreCurrent

--------------------------------------------------------------------------------
(* Type correctness *)

(* The constructors of messages.                                             *)
LEMMA EntryTypes ==
  /\ \A m \in Msg : User(m) \in Entry
  /\ \A t, n \in Nat, s \in Stops \cup {"pending"} :
       /\ Assistant(t, s, n) \in Entry
       /\ Assistant(t, s, n).role = "assistant" /\ Assistant(t, s, n).turn = t
       /\ Assistant(t, s, n).stop = s /\ Assistant(t, s, n).calls = n
  /\ \A c \in CallId : ToolResult(c) \in Entry /\ ToolResult(c).role = "toolResult"
  /\ \A t, i \in Nat : [turn |-> t, index |-> i] \in CallId
  BY DEF User, Assistant, ToolResult, Entry, CallId

(* The assistant message of a turn.                                          *)
LEMMA ReplyType ==
  ASSUME TypeOK
  PROVE  /\ reply.turn \in Nat /\ reply.calls \in Nat /\ reply.stop \in Stops \cup {"pending"}
         /\ \A i \in Nat : Call(i) \in CallId
         /\ NoReply \in Entry /\ NoReply.role = "assistant"
         /\ Partial \in Entry
<1>1. reply.turn \in Nat /\ reply.calls \in Nat /\ reply.stop \in Stops \cup {"pending"}
  BY DEF TypeOK, Entry
<1>2. \A i \in Nat : Call(i) \in CallId
  BY <1>1 DEF Call, CallId
<1>3. NoReply \in Entry /\ NoReply.role = "assistant" /\ Partial \in Entry
  BY DEF NoReply, Partial, Assistant, Entry, TypeOK, Stops
<1> QED BY <1>1, <1>2, <1>3

(* What a queue hands out and what it keeps.                                 *)
LEMMA QueueTypes ==
  ASSUME NEW q \in Seq(Msg), NEW mode
  PROVE  /\ Drained(q, mode) \in Seq(Msg) /\ Rest(q, mode) \in Seq(Msg)
         /\ Users(q) \in Seq(Entry) /\ Len(Users(q)) = Len(q)
         /\ \A i \in 1..Len(q) : Users(q)[i] = User(q[i]) /\ Users(q)[i].role = "user"
         /\ Drained(q, mode) = <<>> <=> q = <<>>
         /\ Users(q) = <<>> <=> q = <<>>
<1>1. Drained(q, mode) \in Seq(Msg) /\ Rest(q, mode) \in Seq(Msg)
  BY DEF Drained, Rest
<1>2. Users(q) \in Seq(Entry) /\ Len(Users(q)) = Len(q)
      /\ \A i \in 1..Len(q) : Users(q)[i] = User(q[i]) /\ Users(q)[i].role = "user"
  <2>1. \A i \in 1..Len(q) : User(q[i]) \in Entry /\ User(q[i]).role = "user"
    BY EntryTypes DEF User
  <2> QED BY <2>1 DEF Users
<1>3. Drained(q, mode) = <<>> <=> q = <<>>
  BY DEF Drained
<1>4. Users(q) = <<>> <=> q = <<>>
  BY <1>2
<1> QED BY <1>1, <1>2, <1>3, <1>4

(* The indices of a sequence.                                                *)
LEMMA PrefixCard ==
  ASSUME NEW n \in Nat
  PROVE  IsFiniteSet(1..n) /\ Cardinality(1..n) = n
<1>1. 1 \in Int /\ n \in Int
  OBVIOUS
<1>2. IsFiniteSet(1..n) /\ Cardinality(1..n) = IF 1 > n THEN 0 ELSE n - 1 + 1
  BY <1>1, FS_Interval
<1> QED BY <1>2

(* The results of a batch.                                                   *)
LEMMA ResultsTypes ==
  ASSUME TypeOK
  PROVE  /\ IsFiniteSet(Ended) /\ Cardinality(Ended) \in 0..Len(calls)
         /\ Results = ResultsUpTo(reply.turn, Cardinality(Ended))
         /\ \A k \in Nat : /\ ResultsUpTo(reply.turn, k) \in Seq(Entry)
                           /\ Len(ResultsUpTo(reply.turn, k)) = k
<1>0. Len(calls) \in Nat
  BY DEF TypeOK
<1>1. IsFiniteSet(1..Len(calls)) /\ Cardinality(1..Len(calls)) = Len(calls)
  BY <1>0, PrefixCard
<1>2. IsFiniteSet(Ended) /\ Cardinality(Ended) <= Len(calls) /\ Cardinality(Ended) \in Nat
  BY <1>0, <1>1, FS_Subset, FS_CardinalityType DEF Ended
<1>3. Results = ResultsUpTo(reply.turn, Cardinality(Ended))
  BY DEF Results, ResultsUpTo, Call
<1>4. ASSUME NEW k \in Nat
      PROVE  ResultsUpTo(reply.turn, k) \in Seq(Entry) /\ Len(ResultsUpTo(reply.turn, k)) = k
  BY ReplyType, EntryTypes DEF ResultsUpTo
<1> QED BY <1>0, <1>2, <1>3, <1>4

(* What the provider may answer.                                             *)
LEMMA RepliesTypes ==
  ASSUME TypeOK, NEW r \in Replies
  PROVE  /\ r \in Entry /\ r.role = "assistant" /\ r.turn = turn
         /\ r.stop \in Stops /\ r.calls \in Nat
         /\ r.stop = "stop" => r.calls = 0
  BY BoundsAssumption, SMTT(20) DEF Replies, Assistant, Entry, Stops, TypeOK

(* A failure is recorded as an assistant message of the turn it ends.        *)
LEMMA FailureTypes ==
  ASSUME TypeOK, ReportFailure, detached' \subseteq CallId, pendingToolCalls' \subseteq CallId
  PROVE  TypeOK'
<1>1. /\ reply' \in Entry /\ reply'.role = "assistant"
  BY DEF ReportFailure, Assistant, Entry, Stops, TypeOK
<1>2. dropped' \subseteq Msg
  <2>1. Elems(pending) \subseteq Msg
    BY DEF Elems, TypeOK
  <2>2. MsgsIn(todo) \subseteq Msg
    BY SMTT(20) DEF MsgsIn, Entry, TypeOK
  <2> QED BY <2>1, <2>2 DEF ReportFailure, TypeOK
<1> QED BY <1>1, <1>2 DEF ReportFailure, TypeOK, Pcs, agentVars, queueVars, loopVars

(* Empty sequences.                                                          *)
LEMMA EmptySeqs ==
  /\ <<>> \in Seq(Msg) /\ <<>> \in Seq(Entry) /\ <<>> \in Seq(Statuses)
  /\ Len(<<>>) = 0
  OBVIOUS

(* A steering poll.                                                          *)
LEMMA DrainTypes ==
  ASSUME TypeOK, DrainSteering
  PROVE  pending' \in Seq(Msg) /\ steeringQueue' \in Seq(Msg) /\ steeringDrains' \in Nat
<1>1. pending' \in Seq(Msg) /\ steeringQueue' \in Seq(Msg)
  BY QueueTypes DEF DrainSteering, TypeOK
<1>2. steeringDrains' \in Nat
  BY DEF DrainSteering, TypeOK
<1> QED BY <1>1, <1>2

(* Injected messages.                                                        *)
LEMMA InjectTypes ==
  ASSUME TypeOK, Inject(pending)
  PROVE  pending' \in Seq(Msg) /\ todo' \in Seq(Entry) /\ pc' \in Pcs
<1>1. todo' \in Seq(Entry)
  BY QueueTypes DEF Inject, TypeOK
<1>2. pending' \in Seq(Msg) /\ pc' \in Pcs
  BY EmptySeqs DEF Inject, Pcs
<1> QED BY <1>1, <1>2

(* Replacing one element of a sequence.                                      *)
LEMMA SeqUpdate ==
  ASSUME NEW T, NEW s \in Seq(T), NEW i, NEW x \in T
  PROVE  /\ [s EXCEPT ![i] = x] \in Seq(T) /\ Len([s EXCEPT ![i] = x]) = Len(s)
         /\ \A j \in 1..Len(s) : [s EXCEPT ![i] = x][j] = IF j = i THEN x ELSE s[j]
<1>1. CASE i \in 1..Len(s)
  BY <1>1, ExceptSeq
<1>2. CASE i \notin 1..Len(s)
  <2>1. [s EXCEPT ![i] = x] = s
    BY <1>2, LenProperties
  <2> QED BY <1>2, <2>1
<1> QED BY <1>1, <1>2

(* A run starts with its prompts appended to the transcript.                 *)
LEMMA StartRunTypes ==
  ASSUME TypeOK, NEW ps \in Seq(Msg), NEW skip \in BOOLEAN, StartRun(ps, skip),
         sent' \subseteq Msg, dropped' \subseteq Msg, steeringDrains' \in Nat,
         steeringQueue' \in Seq(Msg), followUpQueue' \in Seq(Msg)
  PROVE  TypeOK'
<1>1. Users(ps) \in Seq(Entry)
  BY QueueTypes
<1>2. context' \in Seq(Entry) /\ newMessages' \in Seq(Entry) /\ todo' \in Seq(Entry)
  BY <1>1 DEF TypeOK, StartRun
<1>3. runStart' \in Nat
  BY DEF TypeOK, StartRun
<1>4. /\ activeRun' \in BOOLEAN /\ aborted' \in BOOLEAN /\ errorMessage' \in BOOLEAN
      /\ firstTurn' \in BOOLEAN /\ hasMoreToolCalls' \in BOOLEAN
      /\ skipInitialSteeringPoll' \in BOOLEAN
  BY DEF StartRun
<1> QED BY <1>2, <1>3, <1>4 DEF TypeOK, StartRun, Pcs, modeVars, toolVars

(* When a run ends its locals are empty.                                     *)
LEMMA EndRunTypes ==
  ASSUME TypeOK, EndRun, detached' \subseteq CallId, dropped' \subseteq Msg
  PROVE  TypeOK'
<1>1. /\ context' \in Seq(Entry) /\ newMessages' \in Seq(Entry) /\ todo' \in Seq(Entry)
      /\ pending' \in Seq(Msg) /\ calls' \in Seq(Statuses)
  BY EmptySeqs DEF EndRun
<1>2. reply' \in Entry /\ reply'.role = "assistant" /\ pendingToolCalls' \subseteq CallId
  BY ReplyType DEF EndRun, ClearPending
<1> QED BY <1>1, <1>2 DEF TypeOK, EndRun, Pcs, queueVars

(* Every step keeps every variable in its type.                              *)
LEMMA TypeNext == TypeOK /\ [Next]_vars => TypeOK'
<1> SUFFICES ASSUME TypeOK, [Next]_vars PROVE TypeOK'
  OBVIOUS
<1> USE DEF agentVars, queueVars, modeVars, loopVars, toolVars, histVars, toolRest
<1>1. ASSUME NEW m \in Msg, Prompt(m) PROVE TypeOK'
  <2>1. <<m>> \in Seq(Msg)
    OBVIOUS
  <2> QED BY <1>1, <2>1, StartRunTypes DEF TypeOK, Prompt
<1>2. ASSUME NEW m \in Msg, Steer(m) PROVE TypeOK'
  BY <1>2 DEF TypeOK, Steer
<1>3. ASSUME NEW m \in Msg, FollowUp(m) PROVE TypeOK'
  BY <1>3 DEF TypeOK, FollowUp
<1>4. CASE Continue
  <2> DEFINE steer == Drained(steeringQueue, steeringMode)
             follow == Drained(followUpQueue, followUpMode)
  <2>1. /\ steer \in Seq(Msg) /\ follow \in Seq(Msg) /\ <<>> \in Seq(Msg)
        /\ Rest(steeringQueue, steeringMode) \in Seq(Msg)
        /\ Rest(followUpQueue, followUpMode) \in Seq(Msg)
    BY QueueTypes, EmptySeqs DEF TypeOK
  <2>2. \E ps \in Seq(Msg), skip \in BOOLEAN : StartRun(ps, skip)
    BY <1>4, <2>1 DEF Continue
  <2>3. /\ steeringQueue' \in Seq(Msg) /\ followUpQueue' \in Seq(Msg)
    BY <1>4, <2>1 DEF Continue, TypeOK
  <2>4. steeringDrains' \in {0, 1} /\ sent' = sent /\ dropped' = dropped
    BY <1>4, Zenon DEF Continue
  <2>5. steeringDrains' \in Nat /\ sent' \subseteq Msg /\ dropped' \subseteq Msg
    BY <2>4 DEF TypeOK
  <2>6. PICK ps \in Seq(Msg), skip \in BOOLEAN : StartRun(ps, skip)
    BY <2>2
  <2> QED BY <2>3, <2>5, <2>6, StartRunTypes
<1>5. CASE ClearAllQueues
  BY <1>5 DEF TypeOK, ClearAllQueues, Elems
<1>6. CASE Abort
  BY <1>6 DEF TypeOK, Abort
<1>7. CASE Reset
  <2>1. messages' \in Seq(Entry) /\ steeringQueue' \in Seq(Msg) /\ followUpQueue' \in Seq(Msg)
    BY <1>7, EmptySeqs DEF Reset
  <2> QED BY <1>7, <2>1 DEF TypeOK, Reset
<1>8. ASSUME NEW s \in QueueModes, NEW f \in QueueModes, SetQueueModes(s, f) PROVE TypeOK'
  BY <1>8 DEF TypeOK, SetQueueModes
<1>9. CASE EmitMessageStart
  BY <1>9 DEF TypeOK, EmitMessageStart, Entry
<1>10. CASE EmitMessageEnd
  <2>1. todo[1] \in Entry /\ Tail(todo) \in Seq(Entry)
    BY <1>10 DEF EmitMessageEnd, TypeOK
  <2>2. messages' \in Seq(Entry) /\ todo' \in Seq(Entry)
    BY <1>10, <2>1, AppendProperties DEF EmitMessageEnd, TypeOK
  <2>3. context' \in Seq(Entry) /\ newMessages' \in Seq(Entry)
    <3>1. Append(context, todo[1]) \in Seq(Entry) /\ Append(newMessages, todo[1]) \in Seq(Entry)
      BY <2>1, AppendProperties DEF TypeOK
    <3> QED BY <1>10, <3>1 DEF EmitMessageEnd, TypeOK
  <2> QED BY <1>10, <2>2, <2>3 DEF TypeOK, EmitMessageEnd
<1>11. CASE InitialPoll
  <2>1. /\ pending' \in Seq(Msg) /\ steeringQueue' \in Seq(Msg) /\ steeringDrains' \in Nat
    BY <1>11, DrainTypes, EmptySeqs DEF TypeOK, InitialPoll
  <2> QED BY <1>11, <2>1 DEF TypeOK, InitialPoll, Pcs
<1>12. CASE EnterTurn
  <2>1. pending' \in Seq(Msg) /\ steeringQueue' \in Seq(Msg) /\ followUpQueue' \in Seq(Msg)
        /\ todo' \in Seq(Entry) /\ context' \in Seq(Entry) /\ steeringDrains' \in Nat
    BY <1>12, QueueTypes, EmptySeqs DEF TypeOK, EnterTurn, DrainSteering, Inject
  <2> QED BY <1>12, <2>1, ZenonT(40) DEF TypeOK, EnterTurn, DrainSteering, Inject, Pcs
<1>13. CASE PrepareNextTurn
  <2>1. context' \in Seq(Entry)
    BY <1>13 DEF PrepareNextTurn, TypeOK
  <2>2. /\ pending' \in Seq(Msg) /\ steeringQueue' \in Seq(Msg) /\ steeringDrains' \in Nat
        /\ todo' \in Seq(Entry) /\ pc' \in Pcs
    <3>1. CASE pending = <<>>
      BY <1>13, <3>1, DrainTypes DEF PrepareNextTurn, TypeOK, Pcs
    <3>2. CASE pending # <<>>
      BY <1>13, <3>2, InjectTypes DEF PrepareNextTurn, TypeOK
    <3> QED BY <3>1, <3>2
  <2> QED BY <1>13, <2>1, <2>2 DEF TypeOK, PrepareNextTurn
<1>14. CASE StartPreparedTurn
  <2>1. pending' \in Seq(Msg) /\ steeringQueue' \in Seq(Msg) /\ followUpQueue' \in Seq(Msg)
        /\ todo' \in Seq(Entry) /\ context' \in Seq(Entry) /\ steeringDrains' \in Nat
    BY <1>14, QueueTypes, EmptySeqs DEF TypeOK, StartPreparedTurn, DrainSteering, Inject
  <2> QED BY <1>14, <2>1 DEF TypeOK, StartPreparedTurn, DrainSteering, Inject, Pcs
<1>15. CASE PollFollowUps
  <2>1. pending' \in Seq(Msg) /\ steeringQueue' \in Seq(Msg) /\ followUpQueue' \in Seq(Msg)
        /\ todo' \in Seq(Entry) /\ context' \in Seq(Entry) /\ steeringDrains' \in Nat
    BY <1>15, QueueTypes, EmptySeqs DEF TypeOK, PollFollowUps, DrainSteering, Inject
  <2> QED BY <1>15, <2>1 DEF TypeOK, PollFollowUps, DrainSteering, Inject, Pcs
<1>16. CASE Request
  BY <1>16 DEF TypeOK, Request, Pcs
<1>17. CASE StreamStart
  BY <1>17, ReplyType DEF TypeOK, StreamStart, Pcs
<1>18. ASSUME NEW r \in Replies, StreamResult(r) PROVE TypeOK'
  <2>1. r \in Entry /\ r.role = "assistant"
    BY RepliesTypes
  <2>2. context' \in Seq(Entry)
    <3>1. Append(context, r) \in Seq(Entry) /\ [context EXCEPT ![Len(context)] = r] \in Seq(Entry)
      BY <2>1, SeqUpdate, AppendProperties DEF TypeOK
    <3> QED BY <1>18, <3>1 DEF StreamResult
  <2> QED BY <1>18, <2>1, <2>2 DEF TypeOK, StreamResult, Pcs
<1>19. CASE StreamEnd
  <2>1. messages' \in Seq(Entry) /\ newMessages' \in Seq(Entry)
    BY <1>19, AppendProperties DEF TypeOK, StreamEnd
  <2>2. calls' \in Seq(Statuses)
    <3>1. [i \in 1..reply.calls |-> "queued"] \in Seq(Statuses)
      BY ReplyType DEF Statuses
    <3> QED BY <1>19, <3>1 DEF TypeOK, StreamEnd
  <2>3. /\ batch' \in {"truncated", "sequential", "parallel"} /\ pc' \in Pcs
        /\ hasMoreToolCalls' \in BOOLEAN
    BY <1>19, ModesAssumption DEF TypeOK, StreamEnd, BatchModes, Pcs
  <2>4. terminating' \subseteq Nat /\ cursor' \in Nat
    <3>1. CASE Failed(reply)
      BY <1>19, <3>1 DEF TypeOK, StreamEnd
    <3>2. CASE ~Failed(reply)
      BY <1>19, <3>2 DEF StreamEnd
    <3> QED BY <3>1, <3>2
  <2> QED BY <1>19, <2>1, <2>2, <2>3, <2>4 DEF TypeOK, StreamEnd
<1>20. CASE ToolStart
  <2>1. calls' \in Seq(Statuses)
    BY <1>20, SeqUpdate DEF TypeOK, ToolStart, Statuses
  <2>2. pendingToolCalls' \subseteq CallId
    BY <1>20, ReplyType DEF TypeOK, ToolStart
  <2> QED BY <1>20, <2>1, <2>2 DEF TypeOK, ToolStart
<1>21. CASE PrepareCall
  <2>1. calls' \in Seq(Statuses)
    BY <1>21, SeqUpdate DEF TypeOK, PrepareCall, Statuses
  <2> QED BY <1>21, <2>1 DEF TypeOK, PrepareCall
<1>22. ASSUME NEW b \in BOOLEAN, PrepareImmediate(b) PROVE TypeOK'
  <2>1. calls' \in Seq(Statuses)
    BY <1>22, SeqUpdate DEF TypeOK, PrepareImmediate, SetOutcome, Statuses
  <2>2. pendingToolCalls' \subseteq CallId /\ terminating' \subseteq Nat
    BY <1>22, ReplyType DEF TypeOK, PrepareImmediate, SetOutcome
  <2> QED BY <1>22, <2>1, <2>2 DEF TypeOK, PrepareImmediate
<1>23. ASSUME NEW i \in 1..MaxCalls, NEW b \in BOOLEAN, ToolReturn(i, b) PROVE TypeOK'
  <2>1. calls' \in Seq(Statuses)
    BY <1>23, SeqUpdate DEF TypeOK, ToolReturn, SetOutcome, Statuses
  <2>2. pendingToolCalls' \subseteq CallId /\ terminating' \subseteq Nat
    BY <1>23, ReplyType DEF TypeOK, ToolReturn, SetOutcome
  <2> QED BY <1>23, <2>1, <2>2 DEF TypeOK, ToolReturn
<1>24. ASSUME NEW i \in 1..MaxCalls, ToolEnd(i) PROVE TypeOK'
  <2>1. calls' \in Seq(Statuses)
    BY <1>24, SeqUpdate DEF TypeOK, ToolEnd, Statuses
  <2>2. todo' \in Seq(Entry)
    <3>1. ToolResult(Call(i)) \in Entry
      BY ReplyType, EntryTypes
    <3>2. <<ToolResult(Call(i))>> \in Seq(Entry)
      BY <3>1
    <3> QED BY <1>24, <3>2 DEF TypeOK, ToolEnd
  <2>3. pendingToolCalls' \subseteq CallId /\ pc' \in Pcs
    BY <1>24 DEF TypeOK, ToolEnd, ForgetPending, Pcs
  <2> QED BY <1>24, <2>1, <2>2, <2>3 DEF TypeOK, ToolEnd
<1>25. CASE NextParallelCall
  BY <1>25 DEF TypeOK, NextParallelCall
<1>26. CASE LaunchParallel
  BY <1>26, ReplyType DEF TypeOK, LaunchParallel, Statuses, Pcs
<1>27. CASE JoinParallel
  <2>1. todo' \in Seq(Entry)
    BY <1>27, ResultsTypes DEF TypeOK, JoinParallel
  <2> QED BY <1>27, <2>1 DEF TypeOK, JoinParallel, Pcs
<1>28. CASE NextSequentialCall
  BY <1>28 DEF TypeOK, NextSequentialCall, Pcs
<1>29. CASE BatchDone
  <2>1. context' \in Seq(Entry) /\ newMessages' \in Seq(Entry) /\ hasMoreToolCalls' \in BOOLEAN
    BY <1>29, ResultsTypes DEF TypeOK, BatchDone, RecordResults
  <2> QED BY <1>29, <2>1 DEF TypeOK, BatchDone, Pcs
<1>30. CASE TurnEnd
  BY <1>30 DEF TypeOK, TurnEnd, Pcs
<1>31. ASSUME NEW b \in BOOLEAN, AfterTurn(b) PROVE TypeOK'
  <2>1. pending' \in Seq(Msg) /\ steeringQueue' \in Seq(Msg) /\ followUpQueue' \in Seq(Msg)
        /\ todo' \in Seq(Entry) /\ context' \in Seq(Entry) /\ steeringDrains' \in Nat
    BY <1>31, QueueTypes, EmptySeqs DEF TypeOK, AfterTurn, DrainSteering, Inject
  <2> QED BY <1>31, <2>1 DEF TypeOK, AfterTurn, DrainSteering, Inject, Pcs
<1>32. CASE EmitAgentEnd
  BY <1>32 DEF TypeOK, EmitAgentEnd, Pcs
<1>33. CASE FinishRun
  BY <1>33, EndRunTypes DEF TypeOK, FinishRun
<1>34. CASE RunFails
  BY <1>34, FailureTypes DEF TypeOK, RunFails
<1>35. ASSUME NEW i \in 1..MaxCalls, ParallelCallFails(i) PROVE TypeOK'
  <2>1. detached' \subseteq CallId
    <3>1. \A j \in 1..Len(calls) : Call(j) \in CallId
      BY ReplyType DEF TypeOK
    <3> QED BY <1>35, <3>1 DEF TypeOK, ParallelCallFails
  <2>2. pendingToolCalls' \subseteq CallId
    BY <1>35 DEF TypeOK, ParallelCallFails
  <2> QED BY <1>35, <2>1, <2>2, FailureTypes DEF ParallelCallFails
<1>36. CASE FailureMessageEnd
  BY <1>36 DEF TypeOK, FailureMessageEnd, Pcs
<1>37. CASE FailureTurnEnd
  BY <1>37 DEF TypeOK, FailureTurnEnd, Pcs
<1>38. CASE FailureReportFails
  BY <1>38, EndRunTypes DEF TypeOK, FailureReportFails
<1>39. ASSUME NEW c \in detached, DetachedToolEnd(c) PROVE TypeOK'
  BY <1>39 DEF TypeOK, DetachedToolEnd, ForgetPending
<1>40. CASE UNCHANGED vars
  BY <1>40 DEF TypeOK, vars
<1> QED
  BY <1>1, <1>2, <1>3, <1>4, <1>5, <1>6, <1>7, <1>8, <1>9, <1>10, <1>11, <1>12, <1>13,
     <1>14, <1>15, <1>16, <1>17, <1>18, <1>19, <1>20, <1>21, <1>22, <1>23, <1>24, <1>25,
     <1>26, <1>27, <1>28, <1>29, <1>30, <1>31, <1>32, <1>33, <1>34, <1>35, <1>36, <1>37,
     <1>38, <1>39, <1>40
     DEF Next, Caller, Step

(* agent.continue starts a run with what it took from a queue, or nothing.   *)
LEMMA ContinueStarts ==
  ASSUME TypeOK, Continue
  PROVE  \E ps \in Seq(Msg), skip \in BOOLEAN : StartRun(ps, skip)
<1>1. /\ Drained(steeringQueue, steeringMode) \in Seq(Msg)
      /\ Drained(followUpQueue, followUpMode) \in Seq(Msg) /\ <<>> \in Seq(Msg)
  BY QueueTypes, EmptySeqs DEF TypeOK
<1> QED BY <1>1 DEF Continue

(* A new run emits its prompts.                                              *)
LEMMA StartRunControl ==
  ASSUME TypeOK, ControlInv, NEW ps \in Seq(Msg), NEW skip, StartRun(ps, skip)
  PROVE  ControlInv'
<1>1. /\ Users(ps) \in Seq(Entry) /\ Len(Users(ps)) = Len(ps)
      /\ \A i \in 1..Len(ps) : Users(ps)[i].role = "user"
  BY QueueTypes
<1> QED BY <1>1 DEF ControlInv, StartRun, Emitting, InBatch

(* Injecting the pending messages.                                           *)
LEMMA InjectControl ==
  ASSUME TypeOK, ControlInv, pc # "idle", activeRun' = activeRun, ~firstTurn', Inject(pending)
  PROVE  ControlInv'
<1>1. /\ Users(pending) \in Seq(Entry) /\ Len(Users(pending)) = Len(pending)
      /\ \A i \in 1..Len(pending) : Users(pending)[i].role = "user"
  BY QueueTypes DEF TypeOK
<1> QED BY <1>1 DEF ControlInv, Inject, Emitting, InBatch

(* The loop is where its locals say.                                           *)
LEMMA ControlNext ==
  ASSUME TypeOK, ControlInv, [Next]_vars
  PROVE  ControlInv'
<1> USE DEF agentVars, queueVars, modeVars, loopVars, toolVars, histVars, toolRest
<1>1. ASSUME NEW m \in Msg, Prompt(m) PROVE ControlInv'
  <2>1. <<m>> \in Seq(Msg)
    OBVIOUS
  <2> QED BY <1>1, <2>1, StartRunControl DEF Prompt
<1>2. ASSUME NEW m \in Msg, Steer(m) PROVE ControlInv'
  BY <1>2 DEF TypeOK, ControlInv, Emitting, InBatch, Steer
<1>3. ASSUME NEW m \in Msg, FollowUp(m) PROVE ControlInv'
  BY <1>3 DEF TypeOK, ControlInv, Emitting, InBatch, FollowUp
<1>4. CASE Continue
  BY <1>4, StartRunControl, ContinueStarts
<1>5. CASE ClearAllQueues
  BY <1>5 DEF TypeOK, ControlInv, Emitting, InBatch, ClearAllQueues
<1>6. CASE Abort
  BY <1>6 DEF TypeOK, ControlInv, Emitting, InBatch, Abort
<1>7. CASE Reset
  BY <1>7 DEF TypeOK, ControlInv, Emitting, InBatch, Reset
<1>8. ASSUME NEW s \in QueueModes, NEW f \in QueueModes, SetQueueModes(s, f) PROVE ControlInv'
  BY <1>8 DEF TypeOK, ControlInv, Emitting, InBatch, SetQueueModes
<1>9. CASE EmitMessageStart
  BY <1>9 DEF TypeOK, ControlInv, Emitting, InBatch, EmitMessageStart
<1>10. CASE EmitMessageEnd
  BY <1>10 DEF TypeOK, ControlInv, Emitting, InBatch, EmitMessageEnd
<1>11. CASE InitialPoll
  BY <1>11, QueueTypes DEF TypeOK, ControlInv, Emitting, InBatch, InitialPoll, DrainSteering
<1>12. CASE EnterTurn
  BY <1>12, InjectControl DEF TypeOK, ControlInv, Emitting, InBatch, EnterTurn, DrainSteering
<1>13. CASE PrepareNextTurn
  BY <1>13, InjectControl DEF TypeOK, ControlInv, Emitting, InBatch, PrepareNextTurn, DrainSteering
<1>14. CASE StartPreparedTurn
  BY <1>14, InjectControl DEF TypeOK, ControlInv, Emitting, InBatch, StartPreparedTurn, DrainSteering
<1>15. CASE PollFollowUps
  BY <1>15, QueueTypes DEF TypeOK, ControlInv, Emitting, InBatch, PollFollowUps, DrainSteering
<1>16. CASE Request
  BY <1>16 DEF TypeOK, ControlInv, Emitting, InBatch, Request
<1>17. CASE StreamStart
  BY <1>17 DEF TypeOK, ControlInv, Emitting, InBatch, StreamStart
<1>18. ASSUME NEW r \in Replies, StreamResult(r) PROVE ControlInv'
  BY <1>18 DEF TypeOK, ControlInv, Emitting, InBatch, StreamResult
<1>19. CASE StreamEnd
  BY <1>19 DEF TypeOK, ControlInv, Emitting, InBatch, StreamEnd
<1>20. CASE ToolStart
  BY <1>20 DEF TypeOK, ControlInv, Emitting, InBatch, ToolStart
<1>21. CASE PrepareCall
  BY <1>21 DEF TypeOK, ControlInv, Emitting, InBatch, PrepareCall
<1>22. ASSUME NEW b \in BOOLEAN, PrepareImmediate(b) PROVE ControlInv'
  BY <1>22 DEF TypeOK, ControlInv, Emitting, InBatch, PrepareImmediate
<1>23. ASSUME NEW i \in 1..MaxCalls, NEW b \in BOOLEAN, ToolReturn(i, b) PROVE ControlInv'
  BY <1>23 DEF TypeOK, ControlInv, Emitting, InBatch, ToolReturn
<1>24. ASSUME NEW i \in 1..MaxCalls, ToolEnd(i) PROVE ControlInv'
  BY <1>24 DEF TypeOK, ControlInv, Emitting, InBatch, ToolEnd
<1>25. CASE NextParallelCall
  BY <1>25 DEF TypeOK, ControlInv, Emitting, InBatch, NextParallelCall
<1>26. CASE LaunchParallel
  BY <1>26 DEF TypeOK, ControlInv, Emitting, InBatch, LaunchParallel
<1>27. CASE JoinParallel
  BY <1>27 DEF TypeOK, ControlInv, Emitting, InBatch, JoinParallel
<1>28. CASE NextSequentialCall
  BY <1>28 DEF TypeOK, ControlInv, Emitting, InBatch, NextSequentialCall
<1>29. CASE BatchDone
  BY <1>29 DEF TypeOK, ControlInv, Emitting, InBatch, BatchDone
<1>30. CASE TurnEnd
  BY <1>30 DEF TypeOK, ControlInv, Emitting, InBatch, TurnEnd
<1>31. ASSUME NEW b \in BOOLEAN, AfterTurn(b) PROVE ControlInv'
  BY <1>31, QueueTypes DEF TypeOK, ControlInv, Emitting, InBatch, AfterTurn, DrainSteering
<1>32. CASE EmitAgentEnd
  BY <1>32 DEF TypeOK, ControlInv, Emitting, InBatch, EmitAgentEnd
<1>33. CASE FinishRun
  BY <1>33 DEF TypeOK, ControlInv, Emitting, InBatch, FinishRun, EndRun
<1>34. CASE RunFails
  BY <1>34 DEF TypeOK, ControlInv, Emitting, InBatch, RunFails, ReportFailure, HookAwaits, ListenerRunning, ListenerAwaits
<1>35. ASSUME NEW i \in 1..MaxCalls, ParallelCallFails(i) PROVE ControlInv'
  BY <1>35 DEF TypeOK, ControlInv, Emitting, InBatch, ParallelCallFails, ReportFailure, HookAwaits, ListenerRunning, ListenerAwaits
<1>36. CASE FailureMessageEnd
  BY <1>36 DEF TypeOK, ControlInv, Emitting, InBatch, FailureMessageEnd
<1>37. CASE FailureTurnEnd
  BY <1>37 DEF TypeOK, ControlInv, Emitting, InBatch, FailureTurnEnd
<1>38. CASE FailureReportFails
  BY <1>38 DEF TypeOK, ControlInv, Emitting, InBatch, FailureReportFails, EndRun
<1>39. ASSUME NEW c \in detached, DetachedToolEnd(c) PROVE ControlInv'
  BY <1>39 DEF TypeOK, ControlInv, Emitting, InBatch, DetachedToolEnd
<1>40. CASE UNCHANGED vars
  BY <1>40 DEF TypeOK, ControlInv, Emitting, InBatch, vars
<1> QED
  BY <1>1, <1>2, <1>3, <1>4, <1>5, <1>6, <1>7, <1>8, <1>9, <1>10, <1>11, <1>12,
     <1>13, <1>14, <1>15, <1>16, <1>17, <1>18, <1>19, <1>20, <1>21, <1>22, <1>23,
     <1>24, <1>25, <1>26, <1>27, <1>28, <1>29, <1>30, <1>31, <1>32, <1>33, <1>34,
     <1>35, <1>36, <1>37, <1>38, <1>39, <1>40
     DEF Next, Caller, Step

(* A poll counts as a drain exactly if it returns something.                 *)
LEMMA DrainCount ==
  ASSUME TypeOK, DrainSteering
  PROVE  /\ pending' = <<>> => steeringDrains' = steeringDrains
         /\ steeringDrains' \in {steeringDrains, steeringDrains + 1}
  BY QueueTypes DEF DrainSteering, TypeOK

(* No path through a turn polls the steering queue again once it has given.   *)
LEMMA SteeringNext ==
  ASSUME TypeOK, ControlInv, SteeringInv, [Next]_vars
  PROVE  SteeringInv'
<1> USE DEF agentVars, queueVars, modeVars, loopVars, toolVars, histVars, toolRest
<1>1. ASSUME NEW m \in Msg, Prompt(m) PROVE SteeringInv'
  BY <1>1 DEF TypeOK, ControlInv, SteeringInv, SteeringOncePerTurn, InBatch, Prompt, StartRun
<1>2. ASSUME NEW m \in Msg, Steer(m) PROVE SteeringInv'
  BY <1>2 DEF TypeOK, ControlInv, SteeringInv, SteeringOncePerTurn, InBatch, Steer
<1>3. ASSUME NEW m \in Msg, FollowUp(m) PROVE SteeringInv'
  BY <1>3 DEF TypeOK, ControlInv, SteeringInv, SteeringOncePerTurn, InBatch, FollowUp
<1>4. CASE Continue
  <2>1. pc' = "emitPrompts" /\ (steeringDrains' = 0 \/ (steeringDrains' = 1 /\ skipInitialSteeringPoll'))
    BY <1>4, Zenon DEF Continue, StartRun
  <2> QED BY <2>1 DEF TypeOK, ControlInv, SteeringInv, SteeringOncePerTurn, InBatch
<1>5. CASE ClearAllQueues
  BY <1>5 DEF TypeOK, ControlInv, SteeringInv, SteeringOncePerTurn, InBatch, ClearAllQueues
<1>6. CASE Abort
  BY <1>6 DEF TypeOK, ControlInv, SteeringInv, SteeringOncePerTurn, InBatch, Abort
<1>7. CASE Reset
  BY <1>7 DEF TypeOK, ControlInv, SteeringInv, SteeringOncePerTurn, InBatch, Reset
<1>8. ASSUME NEW s \in QueueModes, NEW f \in QueueModes, SetQueueModes(s, f) PROVE SteeringInv'
  BY <1>8 DEF TypeOK, ControlInv, SteeringInv, SteeringOncePerTurn, InBatch, SetQueueModes
<1>9. CASE EmitMessageStart
  BY <1>9 DEF TypeOK, ControlInv, SteeringInv, SteeringOncePerTurn, InBatch, EmitMessageStart
<1>10. CASE EmitMessageEnd
  BY <1>10 DEF TypeOK, ControlInv, SteeringInv, SteeringOncePerTurn, InBatch, EmitMessageEnd
<1>11. CASE InitialPoll
  BY <1>11, DrainCount, QueueTypes DEF TypeOK, ControlInv, SteeringInv, SteeringOncePerTurn, InBatch, InitialPoll, Inject
<1>12. CASE EnterTurn
  BY <1>12 DEF TypeOK, ControlInv, SteeringInv, SteeringOncePerTurn, InBatch, EnterTurn, Inject
<1>13. CASE PrepareNextTurn
  BY <1>13, DrainCount, QueueTypes DEF TypeOK, ControlInv, SteeringInv, SteeringOncePerTurn, InBatch, PrepareNextTurn, Inject
<1>14. CASE StartPreparedTurn
  BY <1>14 DEF TypeOK, ControlInv, SteeringInv, SteeringOncePerTurn, InBatch, StartPreparedTurn, Inject
<1>15. CASE PollFollowUps
  BY <1>15, DrainCount, QueueTypes DEF TypeOK, ControlInv, SteeringInv, SteeringOncePerTurn, InBatch, PollFollowUps, Inject
<1>16. CASE Request
  BY <1>16 DEF TypeOK, ControlInv, SteeringInv, SteeringOncePerTurn, InBatch, Request
<1>17. CASE StreamStart
  BY <1>17 DEF TypeOK, ControlInv, SteeringInv, SteeringOncePerTurn, InBatch, StreamStart
<1>18. ASSUME NEW r \in Replies, StreamResult(r) PROVE SteeringInv'
  BY <1>18 DEF TypeOK, ControlInv, SteeringInv, SteeringOncePerTurn, InBatch, StreamResult
<1>19. CASE StreamEnd
  BY <1>19 DEF TypeOK, ControlInv, SteeringInv, SteeringOncePerTurn, InBatch, StreamEnd
<1>20. CASE ToolStart
  BY <1>20 DEF TypeOK, ControlInv, SteeringInv, SteeringOncePerTurn, InBatch, ToolStart
<1>21. CASE PrepareCall
  BY <1>21 DEF TypeOK, ControlInv, SteeringInv, SteeringOncePerTurn, InBatch, PrepareCall
<1>22. ASSUME NEW b \in BOOLEAN, PrepareImmediate(b) PROVE SteeringInv'
  BY <1>22 DEF TypeOK, ControlInv, SteeringInv, SteeringOncePerTurn, InBatch, PrepareImmediate
<1>23. ASSUME NEW i \in 1..MaxCalls, NEW b \in BOOLEAN, ToolReturn(i, b) PROVE SteeringInv'
  BY <1>23 DEF TypeOK, ControlInv, SteeringInv, SteeringOncePerTurn, InBatch, ToolReturn
<1>24. ASSUME NEW i \in 1..MaxCalls, ToolEnd(i) PROVE SteeringInv'
  BY <1>24 DEF TypeOK, ControlInv, SteeringInv, SteeringOncePerTurn, InBatch, ToolEnd
<1>25. CASE NextParallelCall
  BY <1>25 DEF TypeOK, ControlInv, SteeringInv, SteeringOncePerTurn, InBatch, NextParallelCall
<1>26. CASE LaunchParallel
  BY <1>26 DEF TypeOK, ControlInv, SteeringInv, SteeringOncePerTurn, InBatch, LaunchParallel
<1>27. CASE JoinParallel
  BY <1>27 DEF TypeOK, ControlInv, SteeringInv, SteeringOncePerTurn, InBatch, JoinParallel
<1>28. CASE NextSequentialCall
  BY <1>28 DEF TypeOK, ControlInv, SteeringInv, SteeringOncePerTurn, InBatch, NextSequentialCall
<1>29. CASE BatchDone
  BY <1>29 DEF TypeOK, ControlInv, SteeringInv, SteeringOncePerTurn, InBatch, BatchDone
<1>30. CASE TurnEnd
  BY <1>30 DEF TypeOK, ControlInv, SteeringInv, SteeringOncePerTurn, InBatch, TurnEnd
<1>31. ASSUME NEW b \in BOOLEAN, AfterTurn(b) PROVE SteeringInv'
  BY <1>31, DrainCount, QueueTypes DEF TypeOK, ControlInv, SteeringInv, SteeringOncePerTurn, InBatch, AfterTurn, Inject
<1>32. CASE EmitAgentEnd
  BY <1>32 DEF TypeOK, ControlInv, SteeringInv, SteeringOncePerTurn, InBatch, EmitAgentEnd
<1>33. CASE FinishRun
  BY <1>33 DEF TypeOK, ControlInv, SteeringInv, SteeringOncePerTurn, InBatch, FinishRun, EndRun
<1>34. CASE RunFails
  BY <1>34 DEF TypeOK, ControlInv, SteeringInv, SteeringOncePerTurn, InBatch, RunFails, ReportFailure
<1>35. ASSUME NEW i \in 1..MaxCalls, ParallelCallFails(i) PROVE SteeringInv'
  BY <1>35 DEF TypeOK, ControlInv, SteeringInv, SteeringOncePerTurn, InBatch, ParallelCallFails, ReportFailure
<1>36. CASE FailureMessageEnd
  BY <1>36 DEF TypeOK, ControlInv, SteeringInv, SteeringOncePerTurn, InBatch, FailureMessageEnd
<1>37. CASE FailureTurnEnd
  BY <1>37 DEF TypeOK, ControlInv, SteeringInv, SteeringOncePerTurn, InBatch, FailureTurnEnd
<1>38. CASE FailureReportFails
  BY <1>38 DEF TypeOK, ControlInv, SteeringInv, SteeringOncePerTurn, InBatch, FailureReportFails, EndRun
<1>39. ASSUME NEW c \in detached, DetachedToolEnd(c) PROVE SteeringInv'
  BY <1>39 DEF TypeOK, ControlInv, SteeringInv, SteeringOncePerTurn, InBatch, DetachedToolEnd
<1>40. CASE UNCHANGED vars
  BY <1>40 DEF TypeOK, ControlInv, SteeringInv, SteeringOncePerTurn, InBatch, vars
<1> QED
  BY <1>1, <1>2, <1>3, <1>4, <1>5, <1>6, <1>7, <1>8, <1>9, <1>10, <1>11, <1>12,
     <1>13, <1>14, <1>15, <1>16, <1>17, <1>18, <1>19, <1>20, <1>21, <1>22, <1>23,
     <1>24, <1>25, <1>26, <1>27, <1>28, <1>29, <1>30, <1>31, <1>32, <1>33, <1>34,
     <1>35, <1>36, <1>37, <1>38, <1>39, <1>40
     DEF Next, Caller, Step

--------------------------------------------------------------------------------
(* Counting the occurrences of an element in a sequence *)

Positions(s, x) == {i \in 1..Len(s) : s[i] = x}

(* Positions are finitely many.                                              *)
LEMMA PositionsFinite ==
  ASSUME NEW T, NEW s \in Seq(T), NEW x
  PROVE  /\ IsFiniteSet(Positions(s, x)) /\ Count(s, x) = Cardinality(Positions(s, x))
         /\ Count(s, x) \in Nat
         /\ Count(s, x) = 0 <=> \A i \in 1..Len(s) : s[i] # x
<1>1. Len(s) \in Nat
  OBVIOUS
<1>2. IsFiniteSet(1..Len(s))
  BY <1>1, PrefixCard
<1>3. IsFiniteSet(Positions(s, x))
  BY <1>2, FS_Subset DEF Positions
<1>4. Count(s, x) = Cardinality(Positions(s, x))
  BY DEF Count, Positions
<1>5. Count(s, x) = 0 <=> Positions(s, x) = {}
  BY <1>3, <1>4, FS_EmptySet
<1> QED BY <1>3, <1>4, <1>5, FS_CardinalityType DEF Positions

(* Nothing occurs in the empty sequence.                                     *)
LEMMA CountEmpty ==
  ASSUME NEW x
  PROVE  Count(<<>>, x) = 0
<1>1. <<>> \in Seq({}) /\ \A i \in 1..Len(<<>>) : <<>>[i] # x
  OBVIOUS
<1> QED BY <1>1, PositionsFinite

(* An element that is appended occurs once more.                             *)
LEMMA CountAppend ==
  ASSUME NEW T, NEW s \in Seq(T), NEW y \in T, NEW x
  PROVE  Count(Append(s, y), x) = Count(s, x) + (IF y = x THEN 1 ELSE 0)
<1> DEFINE a == Append(s, y)
<1>1. a \in Seq(T) /\ Len(a) = Len(s) + 1 /\ a[Len(s) + 1] = y
      /\ \A i \in 1..Len(s) : a[i] = s[i]
  OBVIOUS
<1>2. Len(s) \in Nat
  OBVIOUS
<1>3. CASE y = x
  <2>1. Positions(a, x) = Positions(s, x) \cup {Len(s) + 1} /\ Len(s) + 1 \notin Positions(s, x)
    BY <1>1, <1>2, <1>3 DEF Positions
  <2>2. Cardinality(Positions(a, x)) = Cardinality(Positions(s, x)) + 1
    BY <2>1, PositionsFinite, FS_AddElement, ZenonT(40)
  <2> QED BY <1>1, <1>3, <2>2, PositionsFinite
<1>4. CASE y # x
  <2>1. Positions(a, x) = Positions(s, x)
    BY <1>1, <1>2, <1>4 DEF Positions
  <2>2. Count(a, x) = Count(s, x) /\ Count(s, x) \in Nat
    <3>1. Count(a, x) = Cardinality(Positions(a, x))
      BY <1>1, PositionsFinite
    <3>2. Count(s, x) = Cardinality(Positions(s, x)) /\ Count(s, x) \in Nat
      BY PositionsFinite
    <3> QED BY <2>1, <3>1, <3>2
  <2> QED BY <1>4, <2>2
<1> QED BY <1>3, <1>4

(* The first element is counted apart from the rest.                         *)
LEMMA CountHead ==
  ASSUME NEW T, NEW s \in Seq(T), s # <<>>, NEW x
  PROVE  Count(s, x) = Count(Tail(s), x) + (IF s[1] = x THEN 1 ELSE 0)
<1> DEFINE t == Tail(s)
           Later == {i \in 2..Len(s) : s[i] = x}
           f == [i \in Positions(t, x) |-> i + 1]
<1>1. t \in Seq(T) /\ Len(s) \in Nat /\ Len(s) >= 1 /\ Len(t) = Len(s) - 1
      /\ \A i \in 1..Len(t) : t[i] = s[i + 1]
  OBVIOUS
<1>2. f \in Bijection(Positions(t, x), Later)
  <2>1. f \in [Positions(t, x) -> Later]
    BY <1>1 DEF Positions
  <2>2. \A i, j \in Positions(t, x) : f[i] = f[j] => i = j
    BY <1>1 DEF Positions
  <2>3. \A j \in Later : \E i \in Positions(t, x) : f[i] = j
    <3> SUFFICES ASSUME NEW j \in Later PROVE j - 1 \in Positions(t, x) /\ f[j - 1] = j
      OBVIOUS
    <3> QED BY <1>1 DEF Positions
  <2> QED BY <2>1, <2>2, <2>3 DEF Bijection, Injection, Surjection, IsInjective
<1>3. IsFiniteSet(Positions(t, x))
  BY <1>1, PositionsFinite
<1>4. IsFiniteSet(Later) /\ Cardinality(Later) = Cardinality(Positions(t, x))
  <2>1. ExistsBijection(Positions(t, x), Later)
    BY <1>2 DEF ExistsBijection
  <2> QED BY <1>3, <2>1, FS_Bijection
<1>5. CASE s[1] = x
  <2>1. Positions(s, x) = Later \cup {1} /\ 1 \notin Later
    BY <1>1, <1>5 DEF Positions
  <2>2. Cardinality(Positions(s, x)) = Cardinality(Later) + 1
    BY <1>4, <2>1, FS_AddElement
  <2> QED BY <1>1, <1>4, <1>5, <2>2, PositionsFinite
<1>6. CASE s[1] # x
  <2>1. Positions(s, x) = Later
    BY <1>1, <1>6 DEF Positions
  <2>2. Count(s, x) = Count(t, x) /\ Count(t, x) \in Nat
    <3>1. Count(t, x) = Cardinality(Positions(t, x)) /\ Count(t, x) \in Nat
      BY <1>1, PositionsFinite
    <3>2. Count(s, x) = Cardinality(Positions(s, x))
      BY PositionsFinite
    <3> QED BY <1>4, <2>1, <3>1, <3>2
  <2> QED BY <1>6, <2>2
<1> QED BY <1>5, <1>6

(* Wrapping messages keeps their number.                                     *)
LEMMA CountUsers ==
  ASSUME NEW q \in Seq(Msg), NEW m \in Msg
  PROVE  Count(Users(q), User(m)) = Count(q, m)
<1>1. Len(Users(q)) = Len(q) /\ \A i \in 1..Len(q) : Users(q)[i] = User(q[i])
  BY QueueTypes
<1>2. \A i \in 1..Len(q) : User(q[i]) = User(m) <=> q[i] = m
  BY DEF User
<1>3. {i \in 1..Len(Users(q)) : Users(q)[i] = User(m)} = {i \in 1..Len(q) : q[i] = m}
  BY <1>1, <1>2
<1> QED BY <1>3 DEF Count

(* A sequence of one element.                                                *)
LEMMA CountSingle ==
  ASSUME NEW y, NEW x
  PROVE  Count(<<y>>, x) = IF y = x THEN 1 ELSE 0
<1>1. Positions(<<y>>, x) = IF y = x THEN {1} ELSE {}
  BY DEF Positions
<1>2. Count(<<y>>, x) = Cardinality(Positions(<<y>>, x))
  BY DEF Count, Positions
<1> QED BY <1>1, <1>2, FS_Singleton, FS_EmptySet

(* A queue hands out what it does not keep.                                  *)
LEMMA CountDrained ==
  ASSUME NEW q \in Seq(Msg), NEW mode, NEW m \in Msg
  PROVE  Count(Drained(q, mode), m) + Count(Rest(q, mode), m) = Count(q, m)
<1>0. Count(<<>>, m) = 0 /\ Count(q, m) \in Nat
  BY CountEmpty, PositionsFinite
<1>1. CASE mode = "all" \/ q = <<>>
  BY <1>0, <1>1 DEF Drained, Rest
<1>2. CASE ~(mode = "all" \/ q = <<>>)
  <2>1. Drained(q, mode) = <<q[1]>> /\ Rest(q, mode) = Tail(q)
    BY <1>2 DEF Drained, Rest
  <2>2. q[1] \in Msg /\ <<q[1]>> \in Seq(Msg) /\ Tail(q) \in Seq(Msg)
    BY <1>2
  <2>3. Count(<<q[1]>>, m) = IF q[1] = m THEN 1 ELSE 0
    BY CountSingle
  <2>4. Count(q, m) = Count(Tail(q), m) + (IF q[1] = m THEN 1 ELSE 0) /\ Count(Tail(q), m) \in Nat
    BY <1>2, <2>2, CountHead, PositionsFinite
  <2> QED BY <2>1, <2>3, <2>4
<1> QED BY <1>1, <1>2

(* The counts of a message in its places.                                    *)
LEMMA CountsAreNat ==
  ASSUME TypeOK, NEW m \in Msg
  PROVE  /\ Count(steeringQueue, m) \in Nat /\ Count(followUpQueue, m) \in Nat
         /\ Count(pending, m) \in Nat /\ Count(todo, User(m)) \in Nat
         /\ Count(messages, User(m)) \in Nat
  BY PositionsFinite DEF TypeOK

(* What is dropped is what was counted.                                      *)
LEMMA CountElems ==
  ASSUME NEW T, NEW s \in Seq(T), NEW m
  PROVE  m \in Elems(s) <=> Count(s, m) # 0
  BY PositionsFinite DEF Elems

(* Only a user message carries a message that was submitted.                 *)
LEMMA CountMsgsIn ==
  ASSUME NEW es \in Seq(Entry), NEW m \in Msg
  PROVE  m \in MsgsIn(es) <=> Count(es, User(m)) # 0
<1>1. \A i \in 1..Len(es) : es[i] \in Entry
  OBVIOUS
<1>2. \A e \in Entry : e.role = "user" /\ e.msg = m <=> e = User(m)
  BY DEF Entry, User
<1>3. m \in MsgsIn(es) <=> \E i \in 1..Len(es) : es[i].role = "user" /\ es[i].msg = m
  BY DEF MsgsIn
<1> QED BY <1>1, <1>2, <1>3, PositionsFinite

(* Replies and results are not messages that were submitted.                 *)
LEMMA NotUsers ==
  ASSUME TypeOK, NEW m \in Msg
  PROVE  /\ reply # User(m)
         /\ \A c : ToolResult(c) # User(m)
         /\ Count(Results, User(m)) = 0
<1>1. reply # User(m) /\ \A c : ToolResult(c) # User(m)
  BY DEF TypeOK, User, ToolResult
<1>2. Results \in Seq(Entry) /\ \A i \in 1..Len(Results) : Results[i] = ToolResult(Call(i))
  <2>1. Len(Results) = Cardinality(Ended) /\ Results \in Seq(Entry)
    BY ResultsTypes
  <2> QED BY <2>1 DEF Results
<1> QED BY <1>1, <1>2, PositionsFinite

--------------------------------------------------------------------------------
(* Conservation of messages *)

(* A steering poll moves messages into hands that are empty.                 *)
LEMMA DrainConserves ==
  ASSUME TypeOK, ConservationInv, NEW x \in Msg, pending = <<>>, DrainSteering,
         UNCHANGED <<followUpQueue, todo, messages, dropped, sent>>
  PROVE  Conserved(x)'
<1>1. /\ Count(pending', x) + Count(steeringQueue', x) = Count(steeringQueue, x)
      /\ Count(pending', x) \in Nat /\ Count(steeringQueue', x) \in Nat
  BY CountDrained, QueueTypes, PositionsFinite DEF DrainSteering, TypeOK
<1>2. Count(pending, x) = 0
  BY CountEmpty
<1> QED BY <1>1, <1>2, CountsAreNat DEF ConservationInv, Conserved, Places

(* Pending messages are handed to the loop that emits them.                  *)
LEMMA InjectConserves ==
  ASSUME TypeOK, ConservationInv, NEW x \in Msg, todo = <<>>, Inject(pending),
         UNCHANGED <<steeringQueue, followUpQueue, messages, dropped, sent>>
  PROVE  Conserved(x)'
<1>1. Count(todo', User(x)) = Count(pending, x) /\ Count(pending', x) = 0 /\ Count(todo, User(x)) = 0
  BY CountUsers, CountEmpty DEF Inject, TypeOK
<1> QED BY <1>1, CountsAreNat DEF ConservationInv, Conserved, Places

(* A failure drops what the loop holds.                                      *)
LEMMA FailureConserves ==
  ASSUME TypeOK, ConservationInv, NEW x \in Msg, ReportFailure
  PROVE  Conserved(x)'
<1>1. Count(pending', x) = 0 /\ Count(todo', User(x)) = 0
  BY CountEmpty DEF ReportFailure
<1>2. x \in dropped' <=> x \in dropped \/ Count(pending, x) # 0 \/ Count(todo, User(x)) # 0
  BY CountElems, CountMsgsIn DEF ReportFailure, TypeOK
<1>3. UNCHANGED <<steeringQueue, followUpQueue, messages, sent>>
  BY DEF ReportFailure, queueVars
<1>4. (IF x \in dropped' THEN 1 ELSE 0)
        = (IF x \in dropped THEN 1 ELSE 0) + Count(pending, x) + Count(todo, User(x))
  <2>1. (IF x \in dropped THEN 1 ELSE 0) + Count(pending, x) + Count(todo, User(x)) \in {0, 1}
    BY CountsAreNat DEF ConservationInv, Conserved, Places
  <2> QED BY <1>2, <2>1, CountsAreNat
<1>5. Places(x)' = Places(x)
  BY <1>1, <1>3, <1>4, CountsAreNat DEF Places
<1> QED BY <1>3, <1>5 DEF ConservationInv, Conserved

(* Every step moves messages, or accounts for them.                           *)
LEMMA ConservationNext ==
  ASSUME TypeOK, ControlInv, ConservationInv, [Next]_vars
  PROVE  ConservationInv'
<1> SUFFICES ASSUME NEW x \in Msg PROVE Conserved(x)'
  BY DEF ConservationInv
<1> USE DEF agentVars, queueVars, modeVars, loopVars, toolVars, histVars, toolRest
<1>0. /\ Conserved(x)
      /\ Count(steeringQueue, x) \in Nat /\ Count(followUpQueue, x) \in Nat
      /\ Count(pending, x) \in Nat /\ Count(todo, User(x)) \in Nat
      /\ Count(messages, User(x)) \in Nat
  BY CountsAreNat DEF ConservationInv
<1>1. ASSUME NEW m \in Msg, Prompt(m) PROVE Conserved(x)'
  <2>1. Count(Users(<<m>>), User(x)) = IF m = x THEN 1 ELSE 0
    <3>1. <<m>> \in Seq(Msg)
      OBVIOUS
    <3>2. Count(Users(<<m>>), User(x)) = Count(<<m>>, x)
      BY <3>1, CountUsers
    <3> QED BY <3>2, CountSingle
  <2>2. todo = <<>> /\ todo' = Users(<<m>>)
    BY <1>1 DEF ControlInv, Emitting, Prompt, StartRun
  <2>3. Count(todo, User(x)) = 0 /\ Count(todo', User(x)) = IF m = x THEN 1 ELSE 0
    BY <2>1, <2>2, CountEmpty
  <2> QED BY <1>0, <1>1, <2>3 DEF Conserved, Places, Prompt, StartRun
<1>2. ASSUME NEW m \in Msg, Steer(m) PROVE Conserved(x)'
  <2>1. Count(steeringQueue', x) = Count(steeringQueue, x) + (IF m = x THEN 1 ELSE 0)
    BY <1>2, CountAppend DEF Steer, TypeOK
  <2> QED BY <1>0, <1>2, <2>1 DEF Conserved, Places, Steer
<1>3. ASSUME NEW m \in Msg, FollowUp(m) PROVE Conserved(x)'
  <2>1. Count(followUpQueue', x) = Count(followUpQueue, x) + (IF m = x THEN 1 ELSE 0)
    BY <1>3, CountAppend DEF FollowUp, TypeOK
  <2> QED BY <1>0, <1>3, <2>1 DEF Conserved, Places, FollowUp
<1>4. CASE Continue
  <2> DEFINE steer == Drained(steeringQueue, steeringMode)
             follow == Drained(followUpQueue, followUpMode)
  <2>1. todo = <<>> /\ Count(todo, User(x)) = 0
    BY <1>4, CountEmpty DEF ControlInv, Emitting, Continue, StartRun
  <2>2. /\ UNCHANGED <<pending, messages, sent, dropped>>
    BY <1>4 DEF Continue, StartRun
  <2>3. /\ steer \in Seq(Msg) /\ follow \in Seq(Msg) /\ <<>> \in Seq(Msg)
    BY QueueTypes, EmptySeqs DEF TypeOK
  <2>4. /\ Count(Users(steer), User(x)) + Count(Rest(steeringQueue, steeringMode), x)
             = Count(steeringQueue, x)
        /\ Count(Users(follow), User(x)) + Count(Rest(followUpQueue, followUpMode), x)
             = Count(followUpQueue, x)
        /\ Count(Users(<<>>), User(x)) = 0
    <3>1. \A q \in Seq(Msg) : Count(Users(q), User(x)) = Count(q, x)
      BY CountUsers
    <3>2. /\ Count(steer, x) + Count(Rest(steeringQueue, steeringMode), x) = Count(steeringQueue, x)
          /\ Count(follow, x) + Count(Rest(followUpQueue, followUpMode), x) = Count(followUpQueue, x)
      BY CountDrained DEF TypeOK
    <3>3. Count(<<>>, x) = 0
      BY CountEmpty
    <3> HIDE DEF steer, follow
    <3> QED BY <2>3, <3>1, <3>2, <3>3
  <2>5. \/ /\ todo' = Users(steer) /\ steeringQueue' = Rest(steeringQueue, steeringMode)
           /\ followUpQueue' = followUpQueue
        \/ /\ todo' = Users(follow) /\ followUpQueue' = Rest(followUpQueue, followUpMode)
           /\ steeringQueue' = steeringQueue
        \/ /\ todo' = Users(<<>>) /\ steeringQueue' = steeringQueue
           /\ followUpQueue' = followUpQueue
    BY <1>4 DEF Continue, StartRun
  <2>6. Count(Rest(steeringQueue, steeringMode), x) \in Nat
        /\ Count(Rest(followUpQueue, followUpMode), x) \in Nat
        /\ Count(Users(steer), User(x)) \in Nat /\ Count(Users(follow), User(x)) \in Nat
    BY <2>3, QueueTypes, PositionsFinite DEF TypeOK
  <2>7. Count(todo', User(x)) + Count(steeringQueue', x) + Count(followUpQueue', x)
          = Count(steeringQueue, x) + Count(followUpQueue, x)
        /\ Count(todo', User(x)) \in Nat /\ Count(steeringQueue', x) \in Nat
        /\ Count(followUpQueue', x) \in Nat
    <3> HIDE DEF steer, follow
    <3> QED BY <1>0, <2>4, <2>5, <2>6
  <2> QED BY <1>0, <2>1, <2>2, <2>7 DEF Conserved, Places
<1>5. CASE ClearAllQueues
  <2>1. Count(steeringQueue', x) = 0 /\ Count(followUpQueue', x) = 0
    BY <1>5, CountEmpty DEF ClearAllQueues
  <2>2. x \in dropped' <=>
          x \in dropped \/ Count(steeringQueue, x) # 0 \/ Count(followUpQueue, x) # 0
    BY <1>5, CountElems DEF ClearAllQueues, TypeOK
  <2>3. UNCHANGED <<pending, todo, messages, sent>>
    BY <1>5 DEF ClearAllQueues
  <2>4. (IF x \in dropped' THEN 1 ELSE 0)
          = (IF x \in dropped THEN 1 ELSE 0) + Count(steeringQueue, x) + Count(followUpQueue, x)
    <3>1. (IF x \in dropped THEN 1 ELSE 0) + Count(steeringQueue, x) + Count(followUpQueue, x) \in {0, 1}
      BY <1>0 DEF Conserved, Places
    <3> QED BY <1>0, <2>2, <3>1
  <2>5. Places(x)' = Places(x)
    BY <1>0, <2>1, <2>3, <2>4 DEF Places
  <2> QED BY <1>0, <2>3, <2>5 DEF Conserved
<1>6. CASE Abort
  BY <1>0, <1>6 DEF Conserved, Places, Abort
<1>7. CASE Reset
  <2>1. pending = <<>> /\ todo = <<>>
    BY <1>7 DEF Reset, ControlInv, Emitting
  <2>2. /\ steeringQueue' = <<>> /\ followUpQueue' = <<>> /\ pending' = <<>> /\ todo' = <<>>
        /\ messages' = <<>> /\ dropped' = sent /\ sent' = sent
    BY <1>7, <2>1 DEF Reset
  <2>3. Count(<<>>, x) = 0 /\ Count(<<>>, User(x)) = 0
    BY CountEmpty
  <2> QED BY <2>2, <2>3 DEF Conserved, Places
<1>8. ASSUME NEW s \in QueueModes, NEW f \in QueueModes, SetQueueModes(s, f) PROVE Conserved(x)'
  BY <1>0, <1>8 DEF Conserved, Places, SetQueueModes
<1>9. CASE EmitMessageStart
  BY <1>0, <1>9 DEF Conserved, Places, EmitMessageStart
<1>10. CASE EmitMessageEnd
  <2>1. todo # <<>> /\ todo[1] \in Entry /\ todo' = Tail(todo) /\ messages' = Append(messages, todo[1])
    BY <1>10 DEF EmitMessageEnd, TypeOK
  <2>2. Count(todo, User(x)) = Count(todo', User(x)) + (IF todo[1] = User(x) THEN 1 ELSE 0)
        /\ Count(todo', User(x)) \in Nat
    <3>1. todo \in Seq(Entry) /\ Tail(todo) \in Seq(Entry)
      BY <2>1 DEF TypeOK
    <3>2. Count(Tail(todo), User(x)) \in Nat
      BY <3>1, PositionsFinite
    <3>3. Count(todo, User(x)) = Count(Tail(todo), User(x)) + (IF todo[1] = User(x) THEN 1 ELSE 0)
      BY <2>1, <3>1, CountHead
    <3> QED BY <2>1, <3>2, <3>3
  <2>3. Count(messages', User(x)) = Count(messages, User(x)) + (IF todo[1] = User(x) THEN 1 ELSE 0)
    BY <2>1, CountAppend DEF TypeOK
  <2> QED BY <1>0, <1>10, <2>2, <2>3 DEF Conserved, Places, EmitMessageEnd
<1>11. CASE InitialPoll
  <2>1. pending = <<>>
    BY <1>11 DEF InitialPoll, ControlInv
  <2>2. CASE skipInitialSteeringPoll
    BY <1>0, <1>11, <2>1, <2>2 DEF InitialPoll, Conserved, Places
  <2>3. CASE ~skipInitialSteeringPoll
    BY <1>11, <2>1, <2>3, DrainConserves DEF InitialPoll
  <2> QED BY <2>2, <2>3
<1>12. CASE EnterTurn
  <2>1. CASE firstTurn
    <3>1. todo = <<>>
      BY <1>12 DEF EnterTurn, ControlInv, Emitting
    <3> QED BY <1>12, <2>1, <3>1, InjectConserves DEF EnterTurn
  <2>2. CASE ~firstTurn
    BY <1>0, <1>12, <2>2 DEF EnterTurn, Conserved, Places
  <2> QED BY <2>1, <2>2
<1>13. CASE PrepareNextTurn
  <2>1. todo = <<>>
    BY <1>13 DEF PrepareNextTurn, ControlInv, Emitting
  <2>2. CASE pending = <<>>
    BY <1>13, <2>2, DrainConserves DEF PrepareNextTurn
  <2>3. CASE pending # <<>>
    BY <1>13, <2>1, <2>3, InjectConserves DEF PrepareNextTurn
  <2> QED BY <2>2, <2>3
<1>14. CASE StartPreparedTurn
  <2>1. todo = <<>>
    BY <1>14 DEF StartPreparedTurn, ControlInv, Emitting
  <2> QED BY <1>14, <2>1, InjectConserves DEF StartPreparedTurn
<1>15. CASE PollFollowUps
  <2>1. Count(pending', x) + Count(followUpQueue', x) = Count(followUpQueue, x)
        /\ Count(pending', x) \in Nat /\ Count(followUpQueue', x) \in Nat
    BY <1>15, CountDrained, QueueTypes, PositionsFinite DEF PollFollowUps, TypeOK
  <2>2. Count(pending, x) = 0
    BY <1>15, CountEmpty DEF PollFollowUps
  <2> QED BY <1>0, <1>15, <2>1, <2>2 DEF PollFollowUps, Conserved, Places
<1>16. CASE Request
  BY <1>0, <1>16 DEF Conserved, Places, Request
<1>17. CASE StreamStart
  BY <1>0, <1>17 DEF Conserved, Places, StreamStart
<1>18. ASSUME NEW r \in Replies, StreamResult(r) PROVE Conserved(x)'
  BY <1>0, <1>18 DEF Conserved, Places, StreamResult
<1>19. CASE StreamEnd
  <2>1. Count(messages', User(x)) = Count(messages, User(x))
    <3>1. Count(messages', User(x)) = Count(messages, User(x)) + (IF reply = User(x) THEN 1 ELSE 0)
      BY <1>19, CountAppend DEF StreamEnd, TypeOK
    <3> QED BY <1>0, <3>1, NotUsers
  <2> QED BY <1>0, <1>19, <2>1 DEF StreamEnd, Conserved, Places
<1>20. CASE ToolStart
  BY <1>0, <1>20 DEF Conserved, Places, ToolStart
<1>21. CASE PrepareCall
  BY <1>0, <1>21 DEF Conserved, Places, PrepareCall
<1>22. ASSUME NEW b \in BOOLEAN, PrepareImmediate(b) PROVE Conserved(x)'
  BY <1>0, <1>22 DEF Conserved, Places, PrepareImmediate
<1>23. ASSUME NEW i \in 1..MaxCalls, NEW b \in BOOLEAN, ToolReturn(i, b) PROVE Conserved(x)'
  BY <1>0, <1>23 DEF Conserved, Places, ToolReturn
<1>24. ASSUME NEW i \in 1..MaxCalls, ToolEnd(i) PROVE Conserved(x)'
  <2>1. CASE batch = "parallel"
    BY <1>0, <1>24, <2>1 DEF ToolEnd, Conserved, Places
  <2>2. CASE batch # "parallel"
    <3>1. todo = <<>> /\ todo' = <<ToolResult(Call(i))>>
      BY <1>24, <2>2 DEF ToolEnd, ControlInv, Emitting
    <3>2. Count(todo, User(x)) = 0 /\ Count(todo', User(x)) = 0
      BY <3>1, CountEmpty, CountSingle, NotUsers
    <3> QED BY <1>0, <1>24, <3>2 DEF ToolEnd, Conserved, Places
  <2> QED BY <2>1, <2>2
<1>25. CASE NextParallelCall
  BY <1>0, <1>25 DEF Conserved, Places, NextParallelCall
<1>26. CASE LaunchParallel
  BY <1>0, <1>26 DEF Conserved, Places, LaunchParallel
<1>27. CASE JoinParallel
  <2>1. todo = <<>> /\ todo' = Results
    BY <1>27 DEF JoinParallel, ControlInv, Emitting
  <2>2. Count(todo, User(x)) = 0 /\ Count(todo', User(x)) = 0
    BY <2>1, CountEmpty, NotUsers
  <2> QED BY <1>0, <1>27, <2>2 DEF JoinParallel, Conserved, Places
<1>28. CASE NextSequentialCall
  BY <1>0, <1>28 DEF Conserved, Places, NextSequentialCall
<1>29. CASE BatchDone
  BY <1>0, <1>29 DEF Conserved, Places, BatchDone
<1>30. CASE TurnEnd
  BY <1>0, <1>30 DEF Conserved, Places, TurnEnd
<1>31. ASSUME NEW b \in BOOLEAN, AfterTurn(b) PROVE Conserved(x)'
  <2>1. pending = <<>>
    BY <1>31 DEF AfterTurn, ControlInv
  <2>2. CASE b
    BY <1>0, <1>31, <2>2 DEF AfterTurn, Conserved, Places
  <2>3. CASE ~b
    BY <1>31, <2>1, <2>3, DrainConserves DEF AfterTurn
  <2> QED BY <2>2, <2>3
<1>32. CASE EmitAgentEnd
  BY <1>0, <1>32 DEF Conserved, Places, EmitAgentEnd
<1>33. CASE FinishRun
  <2>1. pending = <<>> /\ todo = <<>>
    BY <1>33 DEF FinishRun, ControlInv, Emitting
  <2> QED BY <1>0, <1>33, <2>1 DEF FinishRun, EndRun, Conserved, Places
<1>34. CASE RunFails
  BY <1>34, FailureConserves DEF RunFails
<1>35. ASSUME NEW i \in 1..MaxCalls, ParallelCallFails(i) PROVE Conserved(x)'
  BY <1>35, FailureConserves DEF ParallelCallFails
<1>36. CASE FailureMessageEnd
  <2>1. Count(messages', User(x)) = Count(messages, User(x))
    <3>1. Count(messages', User(x)) = Count(messages, User(x)) + (IF reply = User(x) THEN 1 ELSE 0)
      BY <1>36, CountAppend DEF FailureMessageEnd, TypeOK
    <3> QED BY <1>0, <3>1, NotUsers
  <2> QED BY <1>0, <1>36, <2>1 DEF FailureMessageEnd, Conserved, Places
<1>37. CASE FailureTurnEnd
  BY <1>0, <1>37 DEF Conserved, Places, FailureTurnEnd
<1>38. CASE FailureReportFails
  <2>1. pending = <<>> /\ todo = <<>>
    BY <1>38 DEF FailureReportFails, ControlInv, Emitting
  <2> QED BY <1>0, <1>38, <2>1 DEF FailureReportFails, EndRun, Conserved, Places
<1>39. ASSUME NEW c \in detached, DetachedToolEnd(c) PROVE Conserved(x)'
  BY <1>0, <1>39 DEF Conserved, Places, DetachedToolEnd
<1>40. CASE UNCHANGED vars
  BY <1>0, <1>40 DEF Conserved, Places, vars
<1> QED
  BY <1>1, <1>2, <1>3, <1>4, <1>5, <1>6, <1>7, <1>8, <1>9, <1>10, <1>11, <1>12,
     <1>13, <1>14, <1>15, <1>16, <1>17, <1>18, <1>19, <1>20, <1>21, <1>22, <1>23,
     <1>24, <1>25, <1>26, <1>27, <1>28, <1>29, <1>30, <1>31, <1>32, <1>33, <1>34,
     <1>35, <1>36, <1>37, <1>38, <1>39, <1>40
     DEF Next, Caller, Step

--------------------------------------------------------------------------------
(* Tool calls *)

(* How far a batch of tool calls has come.                                    *)
LEMMA BatchNext ==
  ASSUME TypeOK, ControlInv, BatchInv, [Next]_vars
  PROVE  BatchInv'
<1> USE DEF agentVars, queueVars, modeVars, loopVars, toolVars, histVars, toolRest, Failed
<1>1. ASSUME NEW m \in Msg, Prompt(m) PROVE BatchInv'
  <2>1. /\ pc' = "emitPrompts" /\ UNCHANGED <<calls, cursor>>
        /\ pc \notin {"tools", "join"} \cup Failing
    BY <1>1 DEF Prompt, StartRun, ControlInv, Failing
  <2> QED BY <2>1 DEF BatchInv, InBatch, Failing
<1>2. ASSUME NEW m \in Msg, Steer(m) PROVE BatchInv'
  BY <1>2 DEF TypeOK, BatchInv, InBatch, Failing, Steer
<1>3. ASSUME NEW m \in Msg, FollowUp(m) PROVE BatchInv'
  BY <1>3 DEF TypeOK, BatchInv, InBatch, Failing, FollowUp
<1>4. CASE Continue
  <2>1. /\ pc' = "emitPrompts" /\ UNCHANGED <<calls, cursor>>
        /\ pc \notin {"tools", "join"} \cup Failing
    BY <1>4 DEF Continue, StartRun, ControlInv, Failing
  <2> QED BY <2>1 DEF BatchInv, InBatch, Failing
<1>5. CASE ClearAllQueues
  BY <1>5 DEF TypeOK, BatchInv, InBatch, Failing, ClearAllQueues
<1>6. CASE Abort
  BY <1>6 DEF TypeOK, BatchInv, InBatch, Failing, Abort
<1>7. CASE Reset
  BY <1>7 DEF TypeOK, BatchInv, InBatch, Failing, Reset
<1>8. ASSUME NEW s \in QueueModes, NEW f \in QueueModes, SetQueueModes(s, f) PROVE BatchInv'
  BY <1>8 DEF TypeOK, BatchInv, InBatch, Failing, SetQueueModes
<1>9. CASE EmitMessageStart
  BY <1>9 DEF TypeOK, BatchInv, InBatch, Failing, EmitMessageStart
<1>10. CASE EmitMessageEnd
  BY <1>10 DEF TypeOK, BatchInv, InBatch, Failing, EmitMessageEnd
<1>11. CASE InitialPoll
  BY <1>11 DEF TypeOK, BatchInv, InBatch, Failing, InitialPoll, Inject
<1>12. CASE EnterTurn
  BY <1>12 DEF TypeOK, BatchInv, InBatch, Failing, EnterTurn, Inject
<1>13. CASE PrepareNextTurn
  BY <1>13 DEF TypeOK, BatchInv, InBatch, Failing, PrepareNextTurn, Inject
<1>14. CASE StartPreparedTurn
  BY <1>14 DEF TypeOK, BatchInv, InBatch, Failing, StartPreparedTurn, Inject
<1>15. CASE PollFollowUps
  BY <1>15 DEF TypeOK, BatchInv, InBatch, Failing, PollFollowUps
<1>16. CASE Request
  BY <1>16 DEF TypeOK, BatchInv, InBatch, Failing, Request
<1>17. CASE StreamStart
  BY <1>17 DEF TypeOK, BatchInv, InBatch, Failing, StreamStart
<1>18. ASSUME NEW r \in Replies, StreamResult(r) PROVE BatchInv'
  BY <1>18 DEF TypeOK, BatchInv, InBatch, Failing, StreamResult
<1>19. CASE StreamEnd
  <2>1. CASE Failed(reply)
    BY <1>19, <2>1 DEF TypeOK, BatchInv, InBatch, Failing, StreamEnd
  <2>2. CASE ~Failed(reply)
    <3>1. /\ calls' = [i \in 1..reply.calls |-> "queued"] /\ Len(calls') = reply.calls
          /\ \A i \in 1..reply.calls : calls'[i] = "queued"
      BY <1>19, <2>2, ReplyType DEF StreamEnd
    <3>2. /\ cursor' = 1 /\ reply' = reply /\ reply.calls \in Nat /\ ~Failed(reply')
          /\ pc' = IF reply.calls > 0 THEN "tools" ELSE "turnEnd"
      BY <1>19, <2>2, ReplyType DEF StreamEnd
    <3> HIDE DEF toolVars
    <3> QED BY <3>1, <3>2 DEF BatchInv, InBatch, Failing
  <2> QED BY <2>1, <2>2
<1>20. CASE ToolStart
  <2>1. /\ Len(calls') = Len(calls)
        /\ \A j \in 1..Len(calls) : calls'[j] = IF j = cursor THEN "started" ELSE calls[j]
    BY <1>20, SeqUpdate DEF ToolStart, TypeOK, Statuses
  <2> QED BY <1>20, <2>1 DEF TypeOK, BatchInv, InBatch, Failing, ToolStart
<1>21. CASE PrepareCall
  <2>1. /\ Len(calls') = Len(calls)
        /\ \A j \in 1..Len(calls) : calls'[j] = IF j = cursor THEN IF batch = "parallel" THEN "prepared" ELSE "running" ELSE calls[j]
    BY <1>21, SeqUpdate DEF PrepareCall, TypeOK, Statuses
  <2> QED BY <1>21, <2>1 DEF TypeOK, BatchInv, InBatch, Failing, PrepareCall
<1>22. ASSUME NEW b \in BOOLEAN, PrepareImmediate(b) PROVE BatchInv'
  <2>1. /\ Len(calls') = Len(calls)
        /\ \A j \in 1..Len(calls) : calls'[j] = IF j = cursor THEN "executed" ELSE calls[j]
    BY <1>22, SeqUpdate DEF PrepareImmediate, SetOutcome, TypeOK, Statuses
  <2> QED BY <1>22, <2>1 DEF TypeOK, BatchInv, InBatch, Failing, PrepareImmediate, SetOutcome
<1>23. ASSUME NEW i \in 1..MaxCalls, NEW b \in BOOLEAN, ToolReturn(i, b) PROVE BatchInv'
  <2>1. /\ Len(calls') = Len(calls)
        /\ \A j \in 1..Len(calls) : calls'[j] = IF j = i THEN "executed" ELSE calls[j]
    BY <1>23, SeqUpdate DEF ToolReturn, SetOutcome, TypeOK, Statuses
  <2> QED BY <1>23, <2>1 DEF TypeOK, BatchInv, InBatch, Failing, ToolReturn, SetOutcome
<1>24. ASSUME NEW i \in 1..MaxCalls, ToolEnd(i) PROVE BatchInv'
  <2>1. /\ Len(calls') = Len(calls)
        /\ \A j \in 1..Len(calls) : calls'[j] = IF j = i THEN "ended" ELSE calls[j]
    BY <1>24, SeqUpdate DEF ToolEnd, TypeOK, Statuses
  <2> QED BY <1>24, <2>1 DEF TypeOK, BatchInv, InBatch, Failing, ToolEnd
<1>25. CASE NextParallelCall
  BY <1>25 DEF TypeOK, BatchInv, InBatch, Failing, NextParallelCall
<1>26. CASE LaunchParallel
  <2>1. /\ Len(calls') = Len(calls)
        /\ \A j \in 1..Len(calls) : calls'[j] = IF calls[j] = "prepared" THEN "running" ELSE calls[j]
    BY <1>26 DEF LaunchParallel, TypeOK
  <2> QED BY <1>26, <2>1 DEF TypeOK, BatchInv, InBatch, Failing, LaunchParallel
<1>27. CASE JoinParallel
  BY <1>27 DEF TypeOK, BatchInv, InBatch, Failing, JoinParallel
<1>28. CASE NextSequentialCall
  BY <1>28 DEF TypeOK, BatchInv, InBatch, Failing, NextSequentialCall, MoreSequentialCalls
<1>29. CASE BatchDone
  BY <1>29 DEF TypeOK, BatchInv, InBatch, Failing, BatchDone, MoreSequentialCalls
<1>30. CASE TurnEnd
  BY <1>30 DEF TypeOK, BatchInv, InBatch, Failing, TurnEnd
<1>31. ASSUME NEW b \in BOOLEAN, AfterTurn(b) PROVE BatchInv'
  BY <1>31 DEF TypeOK, BatchInv, InBatch, Failing, AfterTurn, Inject
<1>32. CASE EmitAgentEnd
  BY <1>32 DEF TypeOK, BatchInv, InBatch, Failing, EmitAgentEnd
<1>33. CASE FinishRun
  BY <1>33, EmptySeqs DEF TypeOK, BatchInv, InBatch, Failing, FinishRun, EndRun
<1>34. CASE RunFails
  BY <1>34 DEF TypeOK, BatchInv, InBatch, Failing, RunFails, ReportFailure
<1>35. ASSUME NEW i \in 1..MaxCalls, ParallelCallFails(i) PROVE BatchInv'
  BY <1>35 DEF TypeOK, BatchInv, InBatch, Failing, ParallelCallFails, ReportFailure
<1>36. CASE FailureMessageEnd
  BY <1>36 DEF TypeOK, BatchInv, InBatch, Failing, FailureMessageEnd
<1>37. CASE FailureTurnEnd
  BY <1>37 DEF TypeOK, BatchInv, InBatch, Failing, FailureTurnEnd
<1>38. CASE FailureReportFails
  BY <1>38, EmptySeqs DEF TypeOK, BatchInv, InBatch, Failing, FailureReportFails, EndRun
<1>39. ASSUME NEW c \in detached, DetachedToolEnd(c) PROVE BatchInv'
  BY <1>39 DEF TypeOK, BatchInv, InBatch, Failing, DetachedToolEnd
<1>40. CASE UNCHANGED vars
  BY <1>40 DEF TypeOK, BatchInv, InBatch, Failing, vars
<1> QED
  BY <1>1, <1>2, <1>3, <1>4, <1>5, <1>6, <1>7, <1>8, <1>9, <1>10, <1>11, <1>12,
     <1>13, <1>14, <1>15, <1>16, <1>17, <1>18, <1>19, <1>20, <1>21, <1>22, <1>23,
     <1>24, <1>25, <1>26, <1>27, <1>28, <1>29, <1>30, <1>31, <1>32, <1>33, <1>34,
     <1>35, <1>36, <1>37, <1>38, <1>39, <1>40
     DEF Next, Caller, Step

(* A tool that outlived its run belongs to an earlier turn.                   *)
LEMMA DetachedNext ==
  ASSUME TypeOK, ControlInv, DetachedInv, [Next]_vars
  PROVE  DetachedInv'
<1> USE DEF agentVars, queueVars, modeVars, loopVars, toolVars, histVars, toolRest
<1>1. ASSUME NEW m \in Msg, Prompt(m) PROVE DetachedInv'
  BY <1>1 DEF TypeOK, DetachedInv, InBatch, Prompt, StartRun
<1>2. ASSUME NEW m \in Msg, Steer(m) PROVE DetachedInv'
  BY <1>2 DEF TypeOK, DetachedInv, InBatch, Steer
<1>3. ASSUME NEW m \in Msg, FollowUp(m) PROVE DetachedInv'
  BY <1>3 DEF TypeOK, DetachedInv, InBatch, FollowUp
<1>4. CASE Continue
  <2>1. pc' = "emitPrompts" /\ UNCHANGED <<detached, turn, reply>>
    BY <1>4 DEF Continue, StartRun
  <2> QED BY <2>1 DEF TypeOK, DetachedInv, InBatch
<1>5. CASE ClearAllQueues
  BY <1>5 DEF TypeOK, DetachedInv, InBatch, ClearAllQueues
<1>6. CASE Abort
  BY <1>6 DEF TypeOK, DetachedInv, InBatch, Abort
<1>7. CASE Reset
  BY <1>7 DEF TypeOK, DetachedInv, InBatch, Reset
<1>8. ASSUME NEW s \in QueueModes, NEW f \in QueueModes, SetQueueModes(s, f) PROVE DetachedInv'
  BY <1>8 DEF TypeOK, DetachedInv, InBatch, SetQueueModes
<1>9. CASE EmitMessageStart
  BY <1>9 DEF TypeOK, DetachedInv, InBatch, EmitMessageStart
<1>10. CASE EmitMessageEnd
  BY <1>10 DEF TypeOK, DetachedInv, InBatch, EmitMessageEnd
<1>11. CASE InitialPoll
  BY <1>11 DEF TypeOK, DetachedInv, InBatch, InitialPoll, Inject
<1>12. CASE EnterTurn
  BY <1>12 DEF TypeOK, DetachedInv, InBatch, EnterTurn, Inject
<1>13. CASE PrepareNextTurn
  BY <1>13 DEF TypeOK, DetachedInv, InBatch, PrepareNextTurn, Inject
<1>14. CASE StartPreparedTurn
  BY <1>14 DEF TypeOK, DetachedInv, InBatch, StartPreparedTurn, Inject
<1>15. CASE PollFollowUps
  BY <1>15 DEF TypeOK, DetachedInv, InBatch, PollFollowUps
<1>16. CASE Request
  <2>1. \A c \in detached : c.turn \in Nat
    BY DEF TypeOK, CallId
  <2> QED BY <1>16, <2>1 DEF TypeOK, DetachedInv, InBatch, Request
<1>17. CASE StreamStart
  BY <1>17 DEF TypeOK, DetachedInv, InBatch, StreamStart
<1>18. ASSUME NEW r \in Replies, StreamResult(r) PROVE DetachedInv'
  BY <1>18, RepliesTypes DEF TypeOK, DetachedInv, InBatch, StreamResult
<1>19. CASE StreamEnd
  BY <1>19 DEF TypeOK, DetachedInv, InBatch, StreamEnd
<1>20. CASE ToolStart
  BY <1>20 DEF TypeOK, DetachedInv, InBatch, ToolStart
<1>21. CASE PrepareCall
  BY <1>21 DEF TypeOK, DetachedInv, InBatch, PrepareCall
<1>22. ASSUME NEW b \in BOOLEAN, PrepareImmediate(b) PROVE DetachedInv'
  BY <1>22 DEF TypeOK, DetachedInv, InBatch, PrepareImmediate
<1>23. ASSUME NEW i \in 1..MaxCalls, NEW b \in BOOLEAN, ToolReturn(i, b) PROVE DetachedInv'
  BY <1>23 DEF TypeOK, DetachedInv, InBatch, ToolReturn
<1>24. ASSUME NEW i \in 1..MaxCalls, ToolEnd(i) PROVE DetachedInv'
  BY <1>24 DEF TypeOK, DetachedInv, InBatch, ToolEnd
<1>25. CASE NextParallelCall
  BY <1>25 DEF TypeOK, DetachedInv, InBatch, NextParallelCall
<1>26. CASE LaunchParallel
  BY <1>26 DEF TypeOK, DetachedInv, InBatch, LaunchParallel
<1>27. CASE JoinParallel
  BY <1>27 DEF TypeOK, DetachedInv, InBatch, JoinParallel
<1>28. CASE NextSequentialCall
  BY <1>28 DEF TypeOK, DetachedInv, InBatch, NextSequentialCall
<1>29. CASE BatchDone
  BY <1>29 DEF TypeOK, DetachedInv, InBatch, BatchDone
<1>30. CASE TurnEnd
  BY <1>30 DEF TypeOK, DetachedInv, InBatch, TurnEnd
<1>31. ASSUME NEW b \in BOOLEAN, AfterTurn(b) PROVE DetachedInv'
  BY <1>31 DEF TypeOK, DetachedInv, InBatch, AfterTurn, Inject
<1>32. CASE EmitAgentEnd
  BY <1>32 DEF TypeOK, DetachedInv, InBatch, EmitAgentEnd
<1>33. CASE FinishRun
  BY <1>33 DEF TypeOK, DetachedInv, InBatch, FinishRun, EndRun
<1>34. CASE RunFails
  BY <1>34 DEF TypeOK, DetachedInv, InBatch, RunFails, ReportFailure
<1>35. ASSUME NEW i \in 1..MaxCalls, ParallelCallFails(i) PROVE DetachedInv'
  <2>1. reply.turn = turn /\ turn \in Nat
    BY <1>35 DEF TypeOK, DetachedInv, InBatch, ParallelCallFails
  <2>2. \A j : Call(j).turn = turn
    BY <2>1 DEF Call
  <2>3. \A c \in detached' : c.turn <= turn
    BY <1>35, <2>1, <2>2 DEF DetachedInv, ParallelCallFails
  <2> QED BY <1>35, <2>3 DEF TypeOK, DetachedInv, InBatch, ParallelCallFails, ReportFailure
<1>36. CASE FailureMessageEnd
  BY <1>36 DEF TypeOK, DetachedInv, InBatch, FailureMessageEnd
<1>37. CASE FailureTurnEnd
  BY <1>37 DEF TypeOK, DetachedInv, InBatch, FailureTurnEnd
<1>38. CASE FailureReportFails
  BY <1>38 DEF TypeOK, DetachedInv, InBatch, FailureReportFails, EndRun
<1>39. ASSUME NEW c \in detached, DetachedToolEnd(c) PROVE DetachedInv'
  BY <1>39 DEF TypeOK, DetachedInv, InBatch, DetachedToolEnd
<1>40. CASE UNCHANGED vars
  BY <1>40 DEF TypeOK, DetachedInv, InBatch, vars
<1> QED
  BY <1>1, <1>2, <1>3, <1>4, <1>5, <1>6, <1>7, <1>8, <1>9, <1>10, <1>11, <1>12,
     <1>13, <1>14, <1>15, <1>16, <1>17, <1>18, <1>19, <1>20, <1>21, <1>22, <1>23,
     <1>24, <1>25, <1>26, <1>27, <1>28, <1>29, <1>30, <1>31, <1>32, <1>33, <1>34,
     <1>35, <1>36, <1>37, <1>38, <1>39, <1>40
     DEF Next, Caller, Step

OpenCalls == {j \in 1..Len(calls) : calls[j] \notin {"queued", "ended"}}

(* PendingCallsAreCurrent in terms of the open calls.                        *)
LEMMA PendingIsOpen ==
  /\ PendingCallsAreCurrent <=> (pc \notin Failing => pendingToolCalls = {Call(i) : i \in OpenCalls})
  /\ PendingCallsAreCurrent' <=> (pc' \notin Failing => pendingToolCalls' = {Call(i)' : i \in OpenCalls'})
  BY DEF PendingCallsAreCurrent, OpenCalls, Failing, Call

(* pendingToolCalls follows the calls of the current batch.                   *)
LEMMA PendingNext ==
  ASSUME TypeOK, ControlInv, BatchInv, DetachedInv, PendingCallsAreCurrent, [Next]_vars
  PROVE  PendingCallsAreCurrent'
<1> USE DEF agentVars, queueVars, modeVars, loopVars, toolVars, histVars, toolRest
<1>1. ASSUME NEW m \in Msg, Prompt(m) PROVE PendingCallsAreCurrent'
  <2>1. /\ UNCHANGED <<calls, pendingToolCalls, reply>>
        /\ pc \notin Failing
    BY <1>1 DEF Prompt, StartRun, ControlInv, Failing
  <2> QED BY <2>1 DEF PendingCallsAreCurrent, Failing, Call
<1>2. ASSUME NEW m \in Msg, Steer(m) PROVE PendingCallsAreCurrent'
  BY <1>2 DEF TypeOK, PendingCallsAreCurrent, Call, Steer
<1>3. ASSUME NEW m \in Msg, FollowUp(m) PROVE PendingCallsAreCurrent'
  BY <1>3 DEF TypeOK, PendingCallsAreCurrent, Call, FollowUp
<1>4. CASE Continue
  <2>1. /\ UNCHANGED <<calls, pendingToolCalls, reply>>
        /\ pc \notin Failing
    BY <1>4 DEF Continue, StartRun, ControlInv, Failing
  <2> QED BY <2>1 DEF PendingCallsAreCurrent, Failing, Call
<1>5. CASE ClearAllQueues
  BY <1>5 DEF TypeOK, PendingCallsAreCurrent, Call, ClearAllQueues
<1>6. CASE Abort
  BY <1>6 DEF TypeOK, PendingCallsAreCurrent, Call, Abort
<1>7. CASE Reset
  <2>1. pc = "idle"
    BY <1>7 DEF Reset, ControlInv
  <2>2. {j \in 1..Len(calls) : calls[j] \notin {"queued", "ended"}} = {}
    BY <2>1 DEF BatchInv, Failing
  <2> QED BY <1>7, <2>1, <2>2 DEF Reset, PendingCallsAreCurrent, Call
<1>8. ASSUME NEW s \in QueueModes, NEW f \in QueueModes, SetQueueModes(s, f) PROVE PendingCallsAreCurrent'
  BY <1>8 DEF TypeOK, PendingCallsAreCurrent, Call, SetQueueModes
<1>9. CASE EmitMessageStart
  BY <1>9 DEF TypeOK, PendingCallsAreCurrent, Call, EmitMessageStart
<1>10. CASE EmitMessageEnd
  BY <1>10 DEF TypeOK, PendingCallsAreCurrent, Call, EmitMessageEnd
<1>11. CASE InitialPoll
  BY <1>11 DEF TypeOK, PendingCallsAreCurrent, Call, InitialPoll, Inject
<1>12. CASE EnterTurn
  BY <1>12 DEF TypeOK, PendingCallsAreCurrent, Call, EnterTurn, Inject
<1>13. CASE PrepareNextTurn
  BY <1>13 DEF TypeOK, PendingCallsAreCurrent, Call, PrepareNextTurn, Inject
<1>14. CASE StartPreparedTurn
  BY <1>14 DEF TypeOK, PendingCallsAreCurrent, Call, StartPreparedTurn, Inject
<1>15. CASE PollFollowUps
  BY <1>15 DEF TypeOK, PendingCallsAreCurrent, Call, PollFollowUps
<1>16. CASE Request
  BY <1>16 DEF TypeOK, PendingCallsAreCurrent, Call, Request
<1>17. CASE StreamStart
  BY <1>17 DEF TypeOK, PendingCallsAreCurrent, Call, StreamStart
<1>18. ASSUME NEW r \in Replies, StreamResult(r) PROVE PendingCallsAreCurrent'
  <2>1. {j \in 1..Len(calls) : calls[j] \notin {"queued", "ended"}} = {} /\ pc \notin Failing
    BY <1>18 DEF BatchInv, StreamResult, Failing
  <2> QED BY <1>18, <2>1 DEF StreamResult, PendingCallsAreCurrent, Failing
<1>19. CASE StreamEnd
  <2>1. {j \in 1..Len(calls) : calls[j] \notin {"queued", "ended"}} = {} /\ pc \notin Failing
    BY <1>19 DEF BatchInv, StreamEnd, Failing
  <2>2. {j \in 1..Len(calls') : calls'[j] \notin {"queued", "ended"}} = {}
    <3>1. CASE Failed(reply)
      BY <1>19, <2>1, <3>1 DEF StreamEnd
    <3>2. CASE ~Failed(reply)
      <4>1. calls' = [i \in 1..reply.calls |-> "queued"] /\ Len(calls') = reply.calls
        BY <1>19, <3>2, ReplyType DEF StreamEnd
      <4> QED BY <4>1
    <3> QED BY <3>1, <3>2
  <2> QED BY <1>19, <2>1, <2>2 DEF StreamEnd, PendingCallsAreCurrent, Failing
<1>20. CASE ToolStart
  <2>1. /\ Len(calls') = Len(calls)
        /\ \A j \in 1..Len(calls) : calls'[j] = IF j = cursor THEN "started" ELSE calls[j]
    BY <1>20, SeqUpdate DEF ToolStart, TypeOK, Statuses
  <2>2. cursor \in 1..Len(calls) /\ pc \notin Failing /\ reply' = reply /\ Len(calls) \in Nat
    BY <1>20 DEF ToolStart, Failing, BatchInv, TypeOK
  <2>3. OpenCalls' = OpenCalls \cup {cursor}
    BY <1>20, <2>1, <2>2 DEF OpenCalls, ToolStart
  <2> QED BY <1>20, <2>2, <2>3, PendingIsOpen DEF ToolStart, Call
<1>21. CASE PrepareCall
  <2>1. /\ Len(calls') = Len(calls)
        /\ \A j \in 1..Len(calls) : calls'[j] = IF j = cursor THEN IF batch = "parallel" THEN "prepared" ELSE "running" ELSE calls[j]
    BY <1>21, SeqUpdate DEF PrepareCall, TypeOK, Statuses
  <2>2. cursor \in 1..Len(calls) /\ pc \notin Failing /\ reply' = reply /\ Len(calls) \in Nat
    BY <1>21 DEF PrepareCall, Failing, BatchInv, TypeOK
  <2>3. OpenCalls' = OpenCalls
    BY <1>21, <2>1, <2>2 DEF OpenCalls, PrepareCall
  <2> QED BY <1>21, <2>2, <2>3, PendingIsOpen DEF PrepareCall, Call
<1>22. ASSUME NEW b \in BOOLEAN, PrepareImmediate(b) PROVE PendingCallsAreCurrent'
  <2>1. /\ Len(calls') = Len(calls)
        /\ \A j \in 1..Len(calls) : calls'[j] = IF j = cursor THEN "executed" ELSE calls[j]
    BY <1>22, SeqUpdate DEF PrepareImmediate, SetOutcome, TypeOK, Statuses
  <2>2. cursor \in 1..Len(calls) /\ pc \notin Failing /\ reply' = reply /\ Len(calls) \in Nat
    BY <1>22 DEF PrepareImmediate, Failing, BatchInv, TypeOK
  <2>3. OpenCalls' = OpenCalls
    BY <1>22, <2>1, <2>2 DEF OpenCalls, PrepareImmediate
  <2> QED BY <1>22, <2>2, <2>3, PendingIsOpen DEF PrepareImmediate, Call
<1>23. ASSUME NEW i \in 1..MaxCalls, NEW b \in BOOLEAN, ToolReturn(i, b) PROVE PendingCallsAreCurrent'
  <2>1. /\ Len(calls') = Len(calls)
        /\ \A j \in 1..Len(calls) : calls'[j] = IF j = i THEN "executed" ELSE calls[j]
    BY <1>23, SeqUpdate DEF ToolReturn, SetOutcome, TypeOK, Statuses
  <2>2. i \in 1..Len(calls) /\ pc \notin Failing /\ reply' = reply /\ Len(calls) \in Nat
    BY <1>23 DEF ToolReturn, Failing, BatchInv, TypeOK
  <2>3. OpenCalls' = OpenCalls
    BY <1>23, <2>1, <2>2 DEF OpenCalls, ToolReturn
  <2> QED BY <1>23, <2>2, <2>3, PendingIsOpen DEF ToolReturn, Call
<1>24. ASSUME NEW i \in 1..MaxCalls, ToolEnd(i) PROVE PendingCallsAreCurrent'
  <2>1. /\ Len(calls') = Len(calls)
        /\ \A j \in 1..Len(calls) : calls'[j] = IF j = i THEN "ended" ELSE calls[j]
    BY <1>24, SeqUpdate DEF ToolEnd, TypeOK, Statuses
  <2>2. i \in 1..Len(calls) /\ pc \notin Failing /\ reply' = reply /\ Len(calls) \in Nat
    BY <1>24 DEF ToolEnd, Failing, BatchInv, TypeOK
  <2>3. OpenCalls' = OpenCalls \ {i}
    BY <1>24, <2>1, <2>2 DEF OpenCalls, ToolEnd
  <2> QED BY <1>24, <2>2, <2>3, PendingIsOpen DEF ToolEnd, ForgetPending, Call
<1>25. CASE NextParallelCall
  BY <1>25 DEF TypeOK, PendingCallsAreCurrent, Call, NextParallelCall
<1>26. CASE LaunchParallel
  <2>1. /\ Len(calls') = Len(calls)
        /\ \A j \in 1..Len(calls) : calls'[j] = IF calls[j] = "prepared" THEN "running" ELSE calls[j]
    BY <1>26 DEF LaunchParallel, TypeOK
  <2>2. OpenCalls' = OpenCalls
    BY <2>1 DEF OpenCalls
  <2> QED BY <1>26, <2>2, PendingIsOpen DEF LaunchParallel, Failing, Call
<1>27. CASE JoinParallel
  BY <1>27 DEF TypeOK, PendingCallsAreCurrent, Call, JoinParallel
<1>28. CASE NextSequentialCall
  BY <1>28 DEF TypeOK, PendingCallsAreCurrent, Call, NextSequentialCall
<1>29. CASE BatchDone
  BY <1>29 DEF TypeOK, PendingCallsAreCurrent, Call, BatchDone
<1>30. CASE TurnEnd
  BY <1>30 DEF TypeOK, PendingCallsAreCurrent, Call, TurnEnd
<1>31. ASSUME NEW b \in BOOLEAN, AfterTurn(b) PROVE PendingCallsAreCurrent'
  BY <1>31 DEF TypeOK, PendingCallsAreCurrent, Call, AfterTurn, Inject
<1>32. CASE EmitAgentEnd
  BY <1>32 DEF TypeOK, PendingCallsAreCurrent, Call, EmitAgentEnd
<1>33. CASE FinishRun
  <2>1. calls' = <<>> /\ pendingToolCalls' = {}
    BY <1>33 DEF FinishRun, EndRun, ClearPending
  <2> QED BY <2>1, EmptySeqs DEF PendingCallsAreCurrent
<1>34. CASE RunFails
  BY <1>34 DEF PendingCallsAreCurrent, RunFails, ReportFailure
<1>35. ASSUME NEW i \in 1..MaxCalls, ParallelCallFails(i) PROVE PendingCallsAreCurrent'
  BY <1>35 DEF PendingCallsAreCurrent, ParallelCallFails, ReportFailure
<1>36. CASE FailureMessageEnd
  BY <1>36 DEF TypeOK, PendingCallsAreCurrent, Call, FailureMessageEnd
<1>37. CASE FailureTurnEnd
  BY <1>37 DEF TypeOK, PendingCallsAreCurrent, Call, FailureTurnEnd
<1>38. CASE FailureReportFails
  <2>1. calls' = <<>> /\ pendingToolCalls' = {}
    BY <1>38 DEF FailureReportFails, EndRun, ClearPending
  <2> QED BY <2>1, EmptySeqs DEF PendingCallsAreCurrent
<1>39. ASSUME NEW c \in detached, DetachedToolEnd(c) PROVE PendingCallsAreCurrent'
  <2>1. CASE pc \in InBatch
    <3>1. \A i : Call(i) # c
      BY <2>1 DEF DetachedInv, Call, TypeOK, CallId
    <3> QED BY <1>39, <3>1 DEF DetachedToolEnd, ForgetPending, PendingCallsAreCurrent, Call
  <2>2. CASE pc \notin InBatch
    <3>1. pc \notin Failing => OpenCalls = {}
      BY <2>2 DEF BatchInv, InBatch, OpenCalls
    <3>2. UNCHANGED <<pc, calls, reply>> /\ pendingToolCalls' = pendingToolCalls \ {c}
      BY <1>39 DEF DetachedToolEnd, ForgetPending
    <3> QED BY <3>1, <3>2 DEF PendingCallsAreCurrent, OpenCalls, Failing, Call
  <2> QED BY <2>1, <2>2
<1>40. CASE UNCHANGED vars
  BY <1>40 DEF TypeOK, PendingCallsAreCurrent, Call, vars
<1> QED
  BY <1>1, <1>2, <1>3, <1>4, <1>5, <1>6, <1>7, <1>8, <1>9, <1>10, <1>11, <1>12,
     <1>13, <1>14, <1>15, <1>16, <1>17, <1>18, <1>19, <1>20, <1>21, <1>22, <1>23,
     <1>24, <1>25, <1>26, <1>27, <1>28, <1>29, <1>30, <1>31, <1>32, <1>33, <1>34,
     <1>35, <1>36, <1>37, <1>38, <1>39, <1>40
     DEF Next, Caller, Step

--------------------------------------------------------------------------------
(* The inductive invariant *)

(* It holds when the agent is created.                                       *)
LEMMA InitInv == Init => LoopInv
<1> SUFFICES ASSUME Init PROVE LoopInv
  OBVIOUS
<1>1. TypeOK
  <2>1. NoReply \in Entry /\ NoReply.role = "assistant"
    BY EntryTypes DEF NoReply, Stops
  <2>2. reply \in Entry /\ reply.role = "assistant"
    BY <2>1 DEF Init
  <2>3. /\ messages \in Seq(Entry) /\ context \in Seq(Entry) /\ newMessages \in Seq(Entry)
        /\ todo \in Seq(Entry) /\ pending \in Seq(Msg) /\ calls \in Seq(Statuses)
        /\ steeringQueue \in Seq(Msg) /\ followUpQueue \in Seq(Msg)
    BY EmptySeqs DEF Init
  <2> QED BY <2>2, <2>3 DEF Init, TypeOK, Pcs
<1>2. ControlInv /\ SteeringInv /\ BatchInv /\ DetachedInv
  BY DEF Init, ControlInv, Emitting, InBatch, SteeringInv, SteeringOncePerTurn, BatchInv, Failing,
         DetachedInv
<1>3. ConservationInv
  <2>1. ASSUME NEW m \in Msg PROVE Conserved(m)
    <3>1. \A x : Count(<<>>, x) = 0
      BY FS_EmptySet DEF Count
    <3> QED BY <3>1 DEF Init, Conserved, Places
  <2> QED BY <2>1 DEF ConservationInv
<1>4. PendingCallsAreCurrent
  BY DEF Init, PendingCallsAreCurrent
<1> QED BY <1>1, <1>2, <1>3, <1>4 DEF LoopInv

(* Every step keeps it.                                                      *)
LEMMA NextInv == LoopInv /\ [Next]_vars => LoopInv'
<1> SUFFICES ASSUME LoopInv, [Next]_vars PROVE LoopInv'
  OBVIOUS
<1> USE DEF LoopInv
<1>1. TypeOK'
  BY TypeNext
<1>2. ControlInv'
  BY ControlNext
<1>3. SteeringInv'
  BY SteeringNext
<1>4. ConservationInv'
  BY ConservationNext
<1>5. BatchInv'
  BY BatchNext
<1>6. DetachedInv'
  BY DetachedNext
<1>7. PendingCallsAreCurrent'
  BY PendingNext
<1> QED BY <1>1, <1>2, <1>3, <1>4, <1>5, <1>6, <1>7

(* It holds in every state an agent reaches.                                 *)
THEOREM Invariance == Spec => []LoopInv
  BY InitInv, NextInv, PTL DEF Spec

--------------------------------------------------------------------------------
(* What it shows *)

(* The state of agent.ts and the locals of runLoop keep their types.         *)
THEOREM TypeCorrect == Spec => []TypeOK
<1>1. LoopInv => TypeOK
  BY DEF LoopInv
<1> QED BY <1>1, Invariance, PTL

(* A message given to prompt, steer or followUp is always in exactly one     *)
(* place: it is neither lost nor delivered twice.                            *)
THEOREM MessagesAreConserved == Spec => []MessageConservation
<1>1. LoopInv => MessageConservation
  BY DEF LoopInv, TypeOK, ConservationInv, Conserved, Places, MessageConservation
<1> QED BY <1>1, Invariance, PTL

(* A turn takes steering messages from their queue at most once.             *)
THEOREM SteeringIsPolledOnce == Spec => []SteeringOncePerTurn
<1>1. LoopInv => SteeringOncePerTurn
  BY DEF LoopInv, SteeringInv
<1> QED BY <1>1, Invariance, PTL

(* pendingToolCalls is exactly the calls started and not ended, and is never *)
(* changed by the tools that a failed run has left behind.                   *)
THEOREM PendingCallsAreExact == Spec => []PendingCallsAreCurrent
<1>1. LoopInv => PendingCallsAreCurrent
  BY DEF LoopInv
<1> QED BY <1>1, Invariance, PTL
================================================================================
