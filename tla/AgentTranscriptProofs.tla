------------------------- MODULE AgentTranscriptProofs -------------------------
(***************************************************************************)
(* Proofs about one Agent and its loop: the transcript.  The loop keeps    *)
(* its own context and list of new messages beside the transcript that     *)
(* processEvents records; TranscriptInv says how far the three may differ  *)
(* at each await, and the order and completeness of tool results follow.   *)
(***************************************************************************)
EXTENDS AgentLoopProofs

(* What a run has added to a transcript.                                    *)
Since(s, n) == SubSeq(s, n + 1, Len(s))

(* How many results of the batch have been recorded.                         *)
Emitted == IF pc = "emitResults" THEN Cardinality(Ended) - Len(todo)
           ELSE IF batch = "parallel" THEN 0 ELSE cursor - 1

(* How the loop's context and newMessages relate to the transcript: at most  *)
(* the messages being emitted, the reply being streamed or the results of    *)
(* the batch are in one and not yet in the other.                            *)
TranscriptInv ==
  /\ pc # "idle" => runStart <= Len(messages)
  /\ pc = "emitPrompts" => context = messages \o todo /\ newMessages = Since(messages, runStart) \o todo
  /\ pc \in {"turnTop", "prepareNextTurn", "prepared", "emitPending", "stream", "turnEnd",
             "turnEnded", "agentEnd", "finish"} =>
       context = messages /\ newMessages = Since(messages, runStart)
  /\ pc = "streaming" => context = Append(messages, Partial) /\ newMessages = Since(messages, runStart)
  /\ pc = "replied" => context = Append(messages, reply) /\ newMessages = Since(messages, runStart)
  /\ pc \in InBatch =>
       /\ Emitted >= 0
       /\ messages = context \o ResultsUpTo(reply.turn, Emitted)
       /\ Since(messages, runStart) = newMessages \o ResultsUpTo(reply.turn, Emitted)
       /\ runStart < Len(context)
       /\ context[Len(context)] = reply
  /\ pc = "emitResults" =>
       \A j \in 1..Len(todo) : todo[j] = ToolResult(Call(Emitted + j))

(* The calls of the replies in s, from start to n, have their results in s.  *)
Answered(start, s, n) ==
  \A i \in (start + 1)..n : s[i].role = "assistant" =>
    \A k \in 1..s[i].calls :
      \E j \in (i + 1)..Len(s) : s[j] = ToolResult([turn |-> s[i].turn, index |-> k])

(* Where in a turn every call the run has made is answered.                  *)
AnsweredInv ==
  ~aborted =>
    /\ pc \in {"emitPrompts", "turnTop", "prepareNextTurn", "prepared", "emitPending",
               "stream", "streaming", "replied", "turnEnded"} => Answered(runStart, messages, Len(messages))
    /\ pc = "turnEnd" /\ ~Failed(reply) => Answered(runStart, messages, Len(messages))
    /\ pc \in InBatch => Answered(runStart, context, Len(context) - 1)

(* agent_end is emitted once, and then the run is over.                      *)
EndInv ==
  ~ListenersThrow =>
    /\ agentEnds \in {0, 1}
    /\ agentEnds = 1 /\ activeRun => pc \in {"finish", "failFinish"}

(* The strengthening of LoopInv for the transcript.                          *)
TranscriptIInv == LoopInv /\ TranscriptInv /\ ResultsFollowTheirCalls /\ AnsweredInv /\ EndInv

--------------------------------------------------------------------------------
(* Sequences that grow at their end *)

(* Moving the head of one sequence to the end of another.                    *)
LEMMA ShiftHead ==
  ASSUME NEW T, NEW s \in Seq(T), NEW t \in Seq(T), t # <<>>
  PROVE  Append(s, t[1]) \o Tail(t) = s \o t
<1>1. t[1] \in T /\ Tail(t) \in Seq(T) /\ Len(Tail(t)) = Len(t) - 1 /\ Len(t) >= 1
      /\ \A i \in 1..Len(Tail(t)) : Tail(t)[i] = t[i + 1]
  OBVIOUS
<1>2. Append(s, t[1]) \in Seq(T) /\ Len(Append(s, t[1])) = Len(s) + 1
      /\ \A i \in 1..(Len(s) + 1) : Append(s, t[1])[i] = IF i = Len(s) + 1 THEN t[1] ELSE s[i]
  BY <1>1
<1>3. /\ Append(s, t[1]) \o Tail(t) \in Seq(T)
      /\ Len(Append(s, t[1]) \o Tail(t)) = Len(s) + Len(t)
  BY <1>1, <1>2, ConcatProperties
<1>4. s \o t \in Seq(T) /\ Len(s \o t) = Len(s) + Len(t)
  BY ConcatProperties
<1>5. ASSUME NEW i \in 1..(Len(s) + Len(t))
      PROVE  (Append(s, t[1]) \o Tail(t))[i] = (s \o t)[i]
  <2>1. (s \o t)[i] = IF i <= Len(s) THEN s[i] ELSE t[i - Len(s)]
    BY ConcatProperties
  <2>2. (Append(s, t[1]) \o Tail(t))[i] =
          IF i <= Len(s) + 1 THEN Append(s, t[1])[i] ELSE Tail(t)[i - (Len(s) + 1)]
    BY <1>1, <1>2, ConcatProperties
  <2> QED BY <1>1, <1>2, <2>1, <2>2
<1> QED BY <1>3, <1>4, <1>5, SeqEqual

(* Replacing the last element.                                               *)
LEMMA ReplaceLast ==
  ASSUME NEW T, NEW s \in Seq(T), NEW x \in T, NEW y \in T
  PROVE  [Append(s, x) EXCEPT ![Len(Append(s, x))] = y] = Append(s, y)
<1> DEFINE a == Append(s, x)
           u == [a EXCEPT ![Len(a)] = y]
           v == Append(s, y)
<1>1. a \in Seq(T) /\ Len(a) = Len(s) + 1 /\ \A i \in 1..Len(s) : a[i] = s[i]
  OBVIOUS
<1>2. v \in Seq(T) /\ Len(v) = Len(s) + 1 /\ v[Len(s) + 1] = y /\ \A i \in 1..Len(s) : v[i] = s[i]
  OBVIOUS
<1>3. u \in Seq(T) /\ Len(u) = Len(a) /\ \A j \in 1..Len(a) : u[j] = IF j = Len(a) THEN y ELSE a[j]
  <2> HIDE DEF a
  <2> QED BY <1>1, SeqUpdate
<1>4. \A i \in 1..Len(u) : u[i] = v[i]
  <2> HIDE DEF a, u, v
  <2>1. Len(s) \in Nat
    OBVIOUS
  <2> QED BY <1>1, <1>2, <1>3, <2>1
<1> HIDE DEF u, v
<1>5. u = v
  BY <1>1, <1>2, <1>3, <1>4, SeqEqual
<1> QED BY <1>5 DEF u, v

(* What a run adds to the transcript.                                        *)
LEMMA SinceProperties ==
  ASSUME NEW T, NEW s \in Seq(T), NEW n \in 0..Len(s)
  PROVE  /\ Since(s, n) \in Seq(T) /\ Len(Since(s, n)) = Len(s) - n
         /\ Since(s, Len(s)) = <<>>
         /\ \A i \in 1..(Len(s) - n) : Since(s, n)[i] = s[n + i]
<1>1. \A i \in (n + 1)..Len(s) : s[i] \in T
  OBVIOUS
<1>2. /\ Since(s, n) \in Seq(T)
      /\ Len(Since(s, n)) = IF n + 1 <= Len(s) THEN Len(s) - (n + 1) + 1 ELSE 0
      /\ \A i \in 1..(Len(s) - (n + 1) + 1) : Since(s, n)[i] = s[n + 1 + i - 1]
  BY <1>1, SubSeqProperties DEF Since
<1>3. Since(s, Len(s)) = <<>>
  BY SubSeqEmpty DEF Since
<1> QED BY <1>2, <1>3

(* A message recorded in the run is the last one the run has added.          *)
LEMMA SinceAppend ==
  ASSUME NEW T, NEW s \in Seq(T), NEW n \in 0..Len(s), NEW x \in T
  PROVE  Since(Append(s, x), n) = Append(Since(s, n), x)
<1> DEFINE a == Append(s, x)
           u == Since(a, n)
           v == Append(Since(s, n), x)
<1>1. a \in Seq(T) /\ Len(a) = Len(s) + 1 /\ a[Len(s) + 1] = x /\ \A i \in 1..Len(s) : a[i] = s[i]
  OBVIOUS
<1>2. u \in Seq(T) /\ Len(u) = Len(s) + 1 - n /\ \A i \in 1..(Len(s) + 1 - n) : u[i] = a[n + i]
  <2> HIDE DEF a
  <2>1. n \in 0..Len(a) /\ Len(s) \in Nat
    BY <1>1
  <2>2. /\ Since(a, n) \in Seq(T) /\ Len(Since(a, n)) = Len(a) - n
        /\ \A i \in 1..(Len(a) - n) : Since(a, n)[i] = a[n + i]
    BY <1>1, <2>1, SinceProperties
  <2> QED BY <1>1, <2>2
<1>3. /\ Since(s, n) \in Seq(T) /\ Len(Since(s, n)) = Len(s) - n
      /\ \A i \in 1..(Len(s) - n) : Since(s, n)[i] = s[n + i]
  BY SinceProperties
<1>4. /\ v \in Seq(T) /\ Len(v) = Len(s) - n + 1 /\ v[Len(s) - n + 1] = x
      /\ \A i \in 1..(Len(s) - n) : v[i] = s[n + i]
  BY <1>3
<1>5. \A i \in 1..Len(u) : u[i] = v[i]
  <2> HIDE DEF a, u, v
  <2> QED BY <1>1, <1>2, <1>4, SMTT(20)
<1> HIDE DEF u, v
<1>6. u = v
  BY <1>2, <1>4, <1>5, SeqEqual
<1> QED BY <1>6 DEF u, v

(* The results of a batch, one after the other.                              *)
LEMMA ResultsGrow ==
  ASSUME NEW t \in Nat, NEW k \in Nat, NEW s \in Seq(Entry)
  PROVE  /\ ResultsUpTo(t, 0) = <<>>
         /\ Append(s \o ResultsUpTo(t, k), ToolResult([turn |-> t, index |-> k + 1]))
              = s \o ResultsUpTo(t, k + 1)
<1> DEFINE r == ResultsUpTo(t, k)
           q == ResultsUpTo(t, k + 1)
           x == ToolResult([turn |-> t, index |-> k + 1])
           u == Append(s \o r, x)
           v == s \o q
<1>1. \A i \in Nat : ToolResult([turn |-> t, index |-> i]) \in Entry
  BY EntryTypes
<1>2. r \in Seq(Entry) /\ Len(r) = k /\ \A i \in 1..k : r[i] = ToolResult([turn |-> t, index |-> i])
  BY <1>1 DEF ResultsUpTo
<1>3. q \in Seq(Entry) /\ Len(q) = k + 1
      /\ \A i \in 1..(k + 1) : q[i] = ToolResult([turn |-> t, index |-> i])
  BY <1>1 DEF ResultsUpTo
<1>4. x \in Entry
  BY <1>1
<1> HIDE DEF r, q, x
<1>5. /\ s \o r \in Seq(Entry) /\ Len(s \o r) = Len(s) + k
      /\ \A i \in 1..(Len(s) + k) : (s \o r)[i] = IF i <= Len(s) THEN s[i] ELSE r[i - Len(s)]
  BY <1>2, ConcatProperties
<1>6. /\ v \in Seq(Entry) /\ Len(v) = Len(s) + k + 1
      /\ \A i \in 1..(Len(s) + k + 1) : v[i] = IF i <= Len(s) THEN s[i] ELSE q[i - Len(s)]
  <2>1. /\ s \o q \in Seq(Entry) /\ Len(s \o q) = Len(s) + Len(q)
        /\ \A i \in 1..(Len(s) + Len(q)) : (s \o q)[i] = IF i <= Len(s) THEN s[i] ELSE q[i - Len(s)]
    BY <1>3, ConcatProperties
  <2>2. Len(s) + Len(q) = Len(s) + k + 1
    BY <1>3
  <2> QED BY <2>1, <2>2
<1>7. /\ u \in Seq(Entry) /\ Len(u) = Len(s) + k + 1 /\ u[Len(s) + k + 1] = x
      /\ \A i \in 1..(Len(s) + k) : u[i] = (s \o r)[i]
  BY <1>4, <1>5, AppendProperties
<1>8. ASSUME NEW i \in 1..Len(u) PROVE u[i] = v[i]
  <2>0. Len(s) \in Nat
    OBVIOUS
  <2>1. CASE i <= Len(s)
    BY <1>5, <1>6, <1>7, <2>0, <2>1
  <2>2. CASE i > Len(s) /\ i <= Len(s) + k
    <3>1. i - Len(s) \in 1..k
      BY <2>0, <2>2, <1>7
    <3>2. r[i - Len(s)] = q[i - Len(s)]
      <4>1. \A j \in 1..k : j \in 1..(k + 1)
        OBVIOUS
      <4>2. ASSUME NEW j \in 1..k PROVE r[j] = q[j]
        <5>1. r[j] = ToolResult([turn |-> t, index |-> j])
          BY <1>2
        <5>2. q[j] = ToolResult([turn |-> t, index |-> j])
          BY <1>3, <4>1
        <5> QED BY <5>1, <5>2
      <4> QED BY <3>1, <4>2
    <3>3. u[i] = r[i - Len(s)] /\ v[i] = q[i - Len(s)]
      <4> HIDE DEF u, v
      <4> QED BY <1>5, <1>6, <1>7, <2>0, <2>2
    <3> QED BY <3>2, <3>3
  <2>3. CASE i = Len(s) + k + 1
    BY <1>3, <1>6, <1>7, <2>0, <2>3 DEF x
  <2>4. i \in 1..(Len(s) + k + 1)
    BY <1>7
  <2> HIDE DEF u, v
  <2> QED BY <2>0, <2>1, <2>2, <2>3, <2>4
<1>9. u = v
  <2> HIDE DEF u, v
  <2> QED BY <1>6, <1>7, <1>8, SeqEqual
<1>10. ResultsUpTo(t, 0) = <<>>
  BY DEF ResultsUpTo
<1> QED BY <1>9, <1>10 DEF u, v, r, q, x

--------------------------------------------------------------------------------
(* The loop's context and the transcript *)

(* In a sequential batch the calls before the cursor and at it have ended.   *)
LEMMA SequentialEnded ==
  ASSUME TypeOK, BatchInv, pc = "emitResults", batch # "parallel"
  PROVE  Ended = 1..cursor /\ Cardinality(Ended) = cursor
<1>1. cursor \in Nat \ {0} /\ cursor <= Len(calls) /\ Len(calls) \in Nat
  BY DEF TypeOK, BatchInv, InBatch
<1>2. Ended = 1..cursor
  BY <1>1 DEF Ended, BatchInv
<1> QED BY <1>1, <1>2, PrefixCard

(* A run starts from a copy of the transcript.                               *)
LEMMA StartRunTranscript ==
  ASSUME TypeOK, NEW ps \in Seq(Msg), NEW skip, StartRun(ps, skip)
  PROVE  TranscriptInv'
<1>0. messages \in Seq(Entry) /\ Len(messages) \in Nat
  BY DEF TypeOK
<1>1. Users(ps) \in Seq(Entry)
  BY QueueTypes
<1>2. Since(messages, Len(messages)) = <<>>
  <2>1. Len(messages) \in 0..Len(messages)
    BY <1>0
  <2> QED BY <1>0, <2>1, SinceProperties
<1>3. <<>> \o Users(ps) = Users(ps)
  BY <1>1, ConcatEmptySeq
<1> QED BY <1>0, <1>1, <1>2, <1>3 DEF StartRun, TranscriptInv, InBatch

(* Context, new messages and transcript grow together.                        *)
LEMMA TranscriptNext ==
  ASSUME TypeOK, ControlInv, BatchInv, TranscriptInv, [Next]_vars
  PROVE  TranscriptInv'
<1> USE DEF agentVars, queueVars, modeVars, loopVars, toolVars, histVars, toolRest
<1>1. ASSUME NEW m \in Msg, Prompt(m) PROVE TranscriptInv'
  <2>1. <<m>> \in Seq(Msg)
    OBVIOUS
  <2> QED BY <1>1, <2>1, StartRunTranscript DEF Prompt
<1>2. ASSUME NEW m \in Msg, Steer(m) PROVE TranscriptInv'
  BY <1>2 DEF TranscriptInv, Emitted, Call, InBatch, TypeOK, Steer, Ended, Partial, Assistant
<1>3. ASSUME NEW m \in Msg, FollowUp(m) PROVE TranscriptInv'
  BY <1>3 DEF TranscriptInv, Emitted, Call, InBatch, TypeOK, FollowUp, Ended, Partial, Assistant
<1>4. CASE Continue
  BY <1>4, ContinueStarts, StartRunTranscript
<1>5. CASE ClearAllQueues
  BY <1>5 DEF TranscriptInv, Emitted, Call, InBatch, TypeOK, ClearAllQueues, Ended, Partial, Assistant
<1>6. CASE Abort
  BY <1>6 DEF TranscriptInv, Emitted, Call, InBatch, TypeOK, Abort, Ended, Partial, Assistant
<1>7. CASE Reset
  BY <1>7 DEF Reset, ControlInv, TranscriptInv, InBatch
<1>8. ASSUME NEW s \in QueueModes, NEW f \in QueueModes, SetQueueModes(s, f) PROVE TranscriptInv'
  BY <1>8 DEF TranscriptInv, Emitted, Call, InBatch, TypeOK, SetQueueModes, Ended, Partial, Assistant
<1>9. CASE EmitMessageStart
  BY <1>9 DEF TranscriptInv, Emitted, Call, InBatch, TypeOK, EmitMessageStart, Ended, Partial, Assistant
<1>10. CASE EmitMessageEnd
  <2>1. /\ todo # <<>> /\ todo \in Seq(Entry) /\ todo[1] \in Entry /\ todo' = Tail(todo)
        /\ messages' = Append(messages, todo[1]) /\ UNCHANGED <<pc, reply, runStart, batch, cursor, calls>>
        /\ messages \in Seq(Entry) /\ newMessages \in Seq(Entry) /\ context \in Seq(Entry)
    BY <1>10 DEF EmitMessageEnd, TypeOK
  <2>2. /\ runStart \in 0..Len(messages) /\ Len(messages') = Len(messages) + 1
        /\ Since(messages', runStart) = Append(Since(messages, runStart), todo[1])
        /\ Since(messages, runStart) \in Seq(Entry)
    <3>1. runStart \in 0..Len(messages)
      BY <1>10 DEF EmitMessageEnd, Emitting, TranscriptInv, TypeOK
    <3>2. Since(Append(messages, todo[1]), runStart) = Append(Since(messages, runStart), todo[1])
      BY <2>1, <3>1, SinceAppend
    <3>3. Since(messages, runStart) \in Seq(Entry)
      BY <2>1, <3>1, SinceProperties
    <3>4. Len(Append(messages, todo[1])) = Len(messages) + 1
      BY <2>1, AppendProperties
    <3> QED BY <2>1, <3>1, <3>2, <3>3, <3>4
  <2>3. CASE pc = "emitPrompts"
    <3>1. context' = messages' \o todo'
      BY <1>10, <2>1, <2>3, ShiftHead, ZenonT(40) DEF EmitMessageEnd, TranscriptInv
    <3>2. newMessages' = Since(messages', runStart) \o todo'
      BY <1>10, <2>1, <2>2, <2>3, ShiftHead DEF EmitMessageEnd, TranscriptInv
    <3> QED BY <2>1, <2>2, <2>3, <3>1, <3>2 DEF TranscriptInv, InBatch
  <2>4. CASE pc = "emitPending"
    BY <1>10, <2>1, <2>2, <2>4 DEF EmitMessageEnd, TranscriptInv, InBatch
  <2>5. CASE pc = "emitResults"
    <3> DEFINE k == Emitted
               t == reply.turn
    <3>1. UNCHANGED <<context, newMessages>>
      BY <1>10, <2>5 DEF EmitMessageEnd
    <3>2. /\ k \in Nat /\ Emitted' = k + 1 /\ t \in Nat /\ Len(todo) \in Nat /\ Len(todo) >= 1
          /\ Len(todo') = Len(todo) - 1
      <4>1. Cardinality(Ended) \in Nat /\ Ended' = Ended /\ t \in Nat
        <5>1. Cardinality(Ended) \in Nat
          <6>1. Len(calls) \in Nat
            BY DEF TypeOK
          <6> QED BY <6>1, ResultsTypes
        <5>2. Ended' = Ended
          BY <2>1 DEF Ended
        <5> QED BY <5>1, <5>2, ReplyType
      <4>2. Len(todo) \in Nat /\ Len(todo) >= 1 /\ Len(todo') = Len(todo) - 1
        BY <2>1
      <4>3. Emitted >= 0
        BY <2>5 DEF TranscriptInv, InBatch
      <4> QED BY <2>1, <2>5, <4>1, <4>2, <4>3 DEF Emitted
    <3>3. todo[1] = ToolResult([turn |-> t, index |-> k + 1])
      BY <2>5, <3>2 DEF TranscriptInv, Call
    <3>4. /\ messages' = context \o ResultsUpTo(t, k + 1)
          /\ Since(messages', runStart) = newMessages \o ResultsUpTo(t, k + 1)
      <4> HIDE DEF k, t
      <4>1. messages = context \o ResultsUpTo(t, k) /\ Since(messages, runStart) = newMessages \o ResultsUpTo(t, k)
        BY <2>5 DEF TranscriptInv, InBatch, k, t
      <4>2. k \in Nat /\ t \in Nat /\ todo[1] = ToolResult([turn |-> t, index |-> k + 1])
        BY <3>2, <3>3
      <4>3. \A s \in Seq(Entry) : Append(s \o ResultsUpTo(t, k), todo[1]) = s \o ResultsUpTo(t, k + 1)
        BY <4>2, ResultsGrow
      <4> QED BY <2>1, <2>2, <4>1, <4>3
    <3>5. \A j \in 1..Len(todo') : todo'[j] = ToolResult(Call(k + 1 + j))
      <4>1. \A j \in 1..Len(todo') : todo'[j] = todo[j + 1] /\ j + 1 \in 1..Len(todo)
        BY <2>1, <3>2
      <4>2. \A j \in 1..Len(todo) : todo[j] = ToolResult(Call(k + j))
        BY <2>5 DEF TranscriptInv
      <4>3. \A j \in 1..Len(todo') : k + (j + 1) = k + 1 + j
        BY <3>2
      <4> HIDE DEF k
      <4> QED BY <4>1, <4>2, <4>3
    <3>6. runStart < Len(context) /\ context[Len(context)] = reply /\ runStart <= Len(messages')
      BY <2>1, <2>2, <2>5 DEF TranscriptInv, InBatch
    <3>7. /\ Emitted' >= 0 /\ messages' = context \o ResultsUpTo(reply.turn, Emitted')
          /\ Since(messages', runStart) = newMessages \o ResultsUpTo(reply.turn, Emitted')
          /\ \A j \in 1..Len(todo') : todo'[j] = ToolResult(Call(Emitted' + j))
      BY <3>2, <3>4, <3>5
    <3> QED BY <2>1, <2>5, <3>1, <3>6, <3>7 DEF TranscriptInv, InBatch, Call
  <2> QED BY <1>10, <2>3, <2>4, <2>5 DEF EmitMessageEnd, Emitting
<1>11. CASE InitialPoll
  <2>1. messages \o <<>> = messages /\ Since(messages, runStart) \in Seq(Entry)
        /\ Since(messages, runStart) \o <<>> = Since(messages, runStart)
    BY <1>11, ConcatEmptySeq, SinceProperties DEF InitialPoll, TranscriptInv, TypeOK
  <2> QED BY <1>11, <2>1 DEF TranscriptInv, InBatch, InitialPoll
<1>12. CASE EnterTurn
  BY <1>12 DEF TranscriptInv, Emitted, Call, InBatch, TypeOK, EnterTurn, Inject
<1>13. CASE PrepareNextTurn
  BY <1>13 DEF TranscriptInv, Emitted, Call, InBatch, TypeOK, PrepareNextTurn, Inject
<1>14. CASE StartPreparedTurn
  BY <1>14 DEF TranscriptInv, Emitted, Call, InBatch, TypeOK, StartPreparedTurn, Inject
<1>15. CASE PollFollowUps
  BY <1>15 DEF TranscriptInv, InBatch, PollFollowUps
<1>16. CASE Request
  BY <1>16 DEF TranscriptInv, InBatch, Request
<1>17. CASE StreamStart
  BY <1>17 DEF TranscriptInv, InBatch, StreamStart, Partial, Assistant
<1>18. ASSUME NEW r \in Replies, StreamResult(r) PROVE TranscriptInv'
  <2>1. r \in Entry /\ Partial \in Entry
    BY RepliesTypes, ReplyType
  <2>2. pc = "streaming" => [context EXCEPT ![Len(context)] = r] = Append(messages, r)
    <3>1. [Append(messages, Partial) EXCEPT ![Len(Append(messages, Partial))] = r] = Append(messages, r)
      <4> HIDE DEF Partial
      <4>1. messages \in Seq(Entry)
        BY DEF TypeOK
      <4> QED BY <2>1, <4>1, ReplaceLast
    <3>2. SUFFICES ASSUME pc = "streaming" PROVE [context EXCEPT ![Len(context)] = r] = Append(messages, r)
      OBVIOUS
    <3>3. context = Append(messages, Partial)
      BY <3>2 DEF TranscriptInv
    <3> QED BY <3>1, <3>3
  <2> QED BY <1>18, <2>2 DEF TranscriptInv, InBatch, StreamResult
<1>19. CASE StreamEnd
  <2>1. /\ messages' = Append(messages, reply) /\ newMessages' = Append(newMessages, reply)
        /\ context' = context /\ context = messages' /\ UNCHANGED <<reply, runStart, todo>>
        /\ newMessages = Since(messages, runStart) /\ pc = "replied"
        /\ runStart \in 0..Len(messages)
    BY <1>19 DEF StreamEnd, TranscriptInv, TypeOK
  <2>2. newMessages' = Since(messages', runStart)
    BY <2>1, SinceAppend DEF TypeOK
  <2>3. /\ messages' \in Seq(Entry) /\ Len(messages') = Len(messages) + 1 /\ messages'[Len(messages')] = reply
        /\ newMessages' \in Seq(Entry) /\ Len(messages) \in Nat
    BY <2>1, AppendProperties DEF TypeOK
  <2>4. CASE pc' = "turnEnd"
    BY <2>1, <2>2, <2>3, <2>4 DEF TranscriptInv, InBatch
  <2>5. CASE pc' = "tools"
    <3>1. Emitted' = 0
      BY <1>19, <2>5 DEF StreamEnd, Emitted
    <3>2. ResultsUpTo(reply.turn, 0) = <<>>
      BY ReplyType, <2>3, ResultsGrow
    <3>3. messages' \o <<>> = messages' /\ newMessages' \o <<>> = newMessages'
      BY <2>3, ConcatEmptySeq
    <3>4. runStart' < Len(context') /\ context'[Len(context')] = reply' /\ runStart' <= Len(messages')
      BY <2>1, <2>3
    <3>5. /\ messages' = context' \o ResultsUpTo(reply'.turn, Emitted')
          /\ Since(messages', runStart') = newMessages' \o ResultsUpTo(reply'.turn, Emitted')
      BY <2>1, <2>2, <3>1, <3>2, <3>3
    <3>6. Emitted' >= 0
      BY <3>1
    <3> QED BY <2>5, <3>4, <3>5, <3>6 DEF TranscriptInv, InBatch
  <2> QED BY <1>19, <2>4, <2>5 DEF StreamEnd
<1>20. CASE ToolStart
  <2>1. pc \in InBatch /\ pc' \in {"tools", "join"} /\ pc \in {"tools", "join"} /\ Emitted' = Emitted
        /\ UNCHANGED <<messages, newMessages, context, reply, runStart>>
    BY <1>20 DEF ToolStart, InBatch, Emitted, BatchInv
  <2> QED BY <2>1 DEF TranscriptInv, InBatch
<1>21. CASE PrepareCall
  <2>1. pc \in InBatch /\ pc' \in {"tools", "join"} /\ pc \in {"tools", "join"} /\ Emitted' = Emitted
        /\ UNCHANGED <<messages, newMessages, context, reply, runStart>>
    BY <1>21 DEF PrepareCall, InBatch, Emitted, BatchInv
  <2> QED BY <2>1 DEF TranscriptInv, InBatch
<1>22. ASSUME NEW b \in BOOLEAN, PrepareImmediate(b) PROVE TranscriptInv'
  <2>1. pc \in InBatch /\ pc' \in {"tools", "join"} /\ pc \in {"tools", "join"} /\ Emitted' = Emitted
        /\ UNCHANGED <<messages, newMessages, context, reply, runStart>>
    BY <1>22 DEF PrepareImmediate, InBatch, Emitted, BatchInv
  <2> QED BY <2>1 DEF TranscriptInv, InBatch
<1>23. ASSUME NEW i \in 1..MaxCalls, NEW b \in BOOLEAN, ToolReturn(i, b) PROVE TranscriptInv'
  <2>1. pc \in InBatch /\ pc' \in {"tools", "join"} /\ pc \in {"tools", "join"} /\ Emitted' = Emitted
        /\ UNCHANGED <<messages, newMessages, context, reply, runStart>>
    BY <1>23 DEF ToolReturn, InBatch, Emitted, BatchInv
  <2> QED BY <2>1 DEF TranscriptInv, InBatch
<1>24. ASSUME NEW i \in 1..MaxCalls, ToolEnd(i) PROVE TranscriptInv'
  <2>1. /\ Len(calls') = Len(calls)
        /\ \A j \in 1..Len(calls) : calls'[j] = IF j = i THEN "ended" ELSE calls[j]
    BY <1>24, SeqUpdate DEF ToolEnd, TypeOK, Statuses
  <2>2. UNCHANGED <<messages, newMessages, context, reply, runStart, batch, cursor>> /\ pc \in InBatch
    BY <1>24 DEF ToolEnd, InBatch
  <2>3. CASE batch = "parallel"
    <3>1. pc' = pc /\ Emitted' = Emitted /\ pc' # "emitResults"
      BY <1>24, <2>3 DEF ToolEnd, Emitted
    <3> QED BY <2>2, <3>1 DEF TranscriptInv, InBatch
  <2>4. CASE batch # "parallel"
    <3>1. /\ pc = "tools" /\ pc' = "emitResults" /\ todo' = <<ToolResult(Call(i))>> /\ i = cursor
          /\ cursor \in Nat \ {0} /\ Len(calls) \in Nat /\ cursor <= Len(calls)
      BY <1>24, <2>4 DEF ToolEnd, BatchInv, InBatch, TypeOK
    <3>2. Ended' = 1..cursor
      BY <1>24, <2>1, <2>2, <2>4, <3>1 DEF Ended, BatchInv
    <3>3. Cardinality(1..cursor) = cursor
      BY <3>1, PrefixCard
    <3>4. Emitted' = cursor - 1 /\ Emitted = cursor - 1 /\ Len(todo') = 1
          /\ todo'[1] = ToolResult(Call(cursor))
      BY <2>2, <2>4, <3>1, <3>2, <3>3 DEF Emitted
    <3>5. \A j \in 1..Len(todo') : todo'[j] = ToolResult(Call(Emitted' + j))
      BY <3>1, <3>4
    <3> QED BY <2>2, <3>1, <3>4, <3>5 DEF TranscriptInv, InBatch, Call
  <2> QED BY <2>3, <2>4
<1>25. CASE NextParallelCall
  <2>1. pc \in InBatch /\ pc' \in {"tools", "join"} /\ pc \in {"tools", "join"} /\ Emitted' = Emitted
        /\ UNCHANGED <<messages, newMessages, context, reply, runStart>>
    BY <1>25 DEF NextParallelCall, InBatch, Emitted, BatchInv
  <2> QED BY <2>1 DEF TranscriptInv, InBatch
<1>26. CASE LaunchParallel
  <2>1. pc \in InBatch /\ pc' \in {"tools", "join"} /\ pc \in {"tools", "join"} /\ Emitted' = Emitted
        /\ UNCHANGED <<messages, newMessages, context, reply, runStart>>
    BY <1>26 DEF LaunchParallel, InBatch, Emitted, BatchInv
  <2> QED BY <2>1 DEF TranscriptInv, InBatch
<1>27. CASE JoinParallel
  <2>1. /\ todo' = Results /\ UNCHANGED <<messages, newMessages, context, reply, runStart, calls>>
        /\ pc' = "emitResults" /\ pc = "join" /\ batch = "parallel"
    BY <1>27 DEF JoinParallel, BatchInv
  <2>2. Len(Results) = Cardinality(Ended) /\ Cardinality(Ended) \in Nat
    BY ResultsTypes DEF TypeOK
  <2>3. Emitted' = 0 /\ Emitted = 0
    BY <2>1, <2>2 DEF Emitted, Ended
  <2>4. \A j \in 1..Len(todo') : todo'[j] = ToolResult(Call(Emitted' + j))
    BY <2>1, <2>2, <2>3 DEF Results
  <2> QED BY <2>1, <2>3, <2>4 DEF TranscriptInv, InBatch, Call
<1>28. CASE NextSequentialCall
  <2>1. /\ UNCHANGED <<messages, newMessages, context, reply, runStart, batch>>
        /\ pc = "emitResults" /\ pc' = "tools" /\ batch # "parallel" /\ cursor' = cursor + 1
        /\ Len(todo) = 0 /\ cursor \in Nat
    BY <1>28 DEF NextSequentialCall, MoreSequentialCalls, TypeOK
  <2>2. Emitted = cursor /\ Emitted' = cursor
    BY <2>1, SequentialEnded DEF Emitted
  <2> QED BY <2>1, <2>2 DEF TranscriptInv, InBatch
<1>29. CASE BatchDone
  <2>1. /\ UNCHANGED <<messages, reply, runStart>> /\ pc = "emitResults" /\ pc' = "turnEnd"
        /\ context' = context \o Results /\ newMessages' = newMessages \o Results /\ Len(todo) = 0
    BY <1>29 DEF BatchDone, RecordResults, TypeOK
  <2>2. Results = ResultsUpTo(reply.turn, Emitted)
    BY <2>1, ResultsTypes DEF Emitted
  <2> QED BY <2>1, <2>2 DEF TranscriptInv, InBatch
<1>30. CASE TurnEnd
  BY <1>30 DEF TranscriptInv, InBatch, TurnEnd
<1>31. ASSUME NEW b \in BOOLEAN, AfterTurn(b) PROVE TranscriptInv'
  BY <1>31 DEF TranscriptInv, InBatch, AfterTurn
<1>32. CASE EmitAgentEnd
  BY <1>32 DEF TranscriptInv, InBatch, EmitAgentEnd
<1>33. CASE FinishRun
  BY <1>33 DEF TranscriptInv, InBatch, FinishRun, EndRun
<1>34. CASE RunFails
  BY <1>34 DEF TranscriptInv, InBatch, ControlInv, HookAwaits, ListenerRunning, ListenerAwaits, RunFails, ReportFailure
<1>35. ASSUME NEW i \in 1..MaxCalls, ParallelCallFails(i) PROVE TranscriptInv'
  BY <1>35 DEF TranscriptInv, InBatch, ControlInv, HookAwaits, ListenerRunning, ListenerAwaits, ParallelCallFails, ReportFailure
<1>36. CASE FailureMessageEnd
  <2>1. Len(messages') = Len(messages) + 1 /\ Len(messages) \in Nat
    BY <1>36 DEF FailureMessageEnd, TypeOK
  <2> QED BY <1>36, <2>1 DEF FailureMessageEnd, TranscriptInv, InBatch, TypeOK
<1>37. CASE FailureTurnEnd
  BY <1>37 DEF TranscriptInv, InBatch, FailureTurnEnd
<1>38. CASE FailureReportFails
  BY <1>38 DEF TranscriptInv, InBatch, FailureReportFails, EndRun
<1>39. ASSUME NEW c \in detached, DetachedToolEnd(c) PROVE TranscriptInv'
  BY <1>39 DEF TranscriptInv, Emitted, Call, InBatch, TypeOK, DetachedToolEnd, Ended, Partial, Assistant
<1>40. CASE UNCHANGED vars
  BY <1>40 DEF TranscriptInv, Emitted, Call, InBatch, TypeOK, vars, Ended, Partial, Assistant
<1> QED
  BY <1>1, <1>2, <1>3, <1>4, <1>5, <1>6, <1>7, <1>8, <1>9, <1>10, <1>11, <1>12,
     <1>13, <1>14, <1>15, <1>16, <1>17, <1>18, <1>19, <1>20, <1>21, <1>22, <1>23,
     <1>24, <1>25, <1>26, <1>27, <1>28, <1>29, <1>30, <1>31, <1>32, <1>33, <1>34,
     <1>35, <1>36, <1>37, <1>38, <1>39, <1>40
     DEF Next, Caller, Step

--------------------------------------------------------------------------------
(* The order of the transcript *)

(* The two parts of a concatenation.                                         *)
LEMMA ConcatParts ==
  ASSUME NEW T, NEW s \in Seq(T), NEW t \in Seq(T), NEW n, Len(t) = n
  PROVE  /\ s \o t \in Seq(T) /\ Len(s \o t) = Len(s) + n
         /\ \A i \in 1..Len(s) : (s \o t)[i] = s[i]
         /\ \A i \in 1..n : (s \o t)[Len(s) + i] = t[i]
  OBVIOUS

(* The transcript ends where the result of call c belongs.                   *)
LastAnswers(c) ==
  LET p == messages[Len(messages)]
  IN IF c.index = 1 THEN p.role = "assistant" /\ p.turn = c.turn
     ELSE p = ToolResult([c EXCEPT !.index = @ - 1])

(* Appending anything but a result, or the next result, keeps the order.     *)
LEMMA AppendFollows ==
  ASSUME TypeOK, ResultsFollowTheirCalls, NEW x \in Entry, messages' = Append(messages, x),
         x.role = "toolResult" => Len(messages) >= 1 /\ LastAnswers(x.call)
  PROVE  ResultsFollowTheirCalls'
<1>1. messages \in Seq(Entry) /\ Len(messages) \in Nat
  BY DEF TypeOK
<1>2. /\ Len(messages') = Len(messages) + 1 /\ messages'[Len(messages) + 1] = x
      /\ \A i \in 1..Len(messages) : messages'[i] = messages[i]
  BY <1>1, AppendProperties
<1>3. SUFFICES ASSUME NEW i \in 1..Len(messages'), messages'[i].role = "toolResult"
      PROVE  LET c == messages'[i].call
                 p == messages'[i - 1]
             IN /\ i > 1
                /\ IF c.index = 1
                   THEN p.role = "assistant" /\ p.turn = c.turn
                   ELSE p = ToolResult([c EXCEPT !.index = @ - 1])
  BY DEF ResultsFollowTheirCalls
<1>4. CASE i <= Len(messages)
  <2>1. i \in 1..Len(messages) /\ messages'[i] = messages[i]
    BY <1>1, <1>2, <1>4
  <2>2. i > 1
    BY <1>3, <2>1 DEF ResultsFollowTheirCalls
  <2>3. i - 1 \in 1..Len(messages)
    BY <1>1, <2>1, <2>2
  <2>4. messages'[i - 1] = messages[i - 1]
    BY <1>2, <2>3
  <2> QED BY <1>3, <2>1, <2>4 DEF ResultsFollowTheirCalls
<1>5. CASE i = Len(messages) + 1
  <2>1. messages'[i] = x /\ i - 1 = Len(messages) /\ Len(messages) >= 1 /\ LastAnswers(x.call)
    BY <1>1, <1>2, <1>3, <1>5
  <2>2. messages'[i - 1] = messages[Len(messages)] /\ i > 1
    BY <1>1, <1>2, <1>5, <2>1
  <2> QED BY <2>1, <2>2 DEF LastAnswers
<1>6. i <= Len(messages) \/ i = Len(messages) + 1
  BY <1>1, <1>2
<1> QED BY <1>4, <1>5, <1>6

(* Results are recorded behind their reply, in the order of the calls.       *)
LEMMA ResultsFollowNext ==
  ASSUME TypeOK, ControlInv, BatchInv, TranscriptInv, ResultsFollowTheirCalls, [Next]_vars
  PROVE  ResultsFollowTheirCalls'
<1> USE DEF agentVars, queueVars, modeVars, loopVars, toolVars, histVars, toolRest
<1>1. ASSUME NEW m \in Msg, Prompt(m) PROVE ResultsFollowTheirCalls'
  BY <1>1 DEF Prompt, StartRun, ResultsFollowTheirCalls
<1>2. ASSUME NEW m \in Msg, Steer(m) PROVE ResultsFollowTheirCalls'
  BY <1>2 DEF Steer, ResultsFollowTheirCalls
<1>3. ASSUME NEW m \in Msg, FollowUp(m) PROVE ResultsFollowTheirCalls'
  BY <1>3 DEF FollowUp, ResultsFollowTheirCalls
<1>4. CASE Continue
  BY <1>4 DEF Continue, StartRun, ResultsFollowTheirCalls
<1>5. CASE ClearAllQueues
  BY <1>5 DEF ClearAllQueues, ResultsFollowTheirCalls
<1>6. CASE Abort
  BY <1>6 DEF Abort, ResultsFollowTheirCalls
<1>7. CASE Reset
  <2>1. messages' = <<>>
    BY <1>7 DEF Reset
  <2> QED BY <2>1 DEF ResultsFollowTheirCalls
<1>8. ASSUME NEW s \in QueueModes, NEW f \in QueueModes, SetQueueModes(s, f) PROVE ResultsFollowTheirCalls'
  BY <1>8 DEF SetQueueModes, ResultsFollowTheirCalls
<1>9. CASE EmitMessageStart
  BY <1>9 DEF EmitMessageStart, ResultsFollowTheirCalls
<1>10. CASE EmitMessageEnd
  <2>1. todo # <<>> /\ todo[1] \in Entry /\ messages' = Append(messages, todo[1]) /\ 1 \in 1..Len(todo)
    BY <1>10 DEF EmitMessageEnd, TypeOK
  <2>2. CASE pc # "emitResults"
    <3>1. todo[1].role = "user"
      BY <1>10, <2>1, <2>2 DEF EmitMessageEnd, Emitting, ControlInv
    <3> QED BY <2>1, <3>1, AppendFollows
  <2>3. CASE pc = "emitResults"
    <3> DEFINE k == Emitted
               t == reply.turn
               c == [turn |-> t, index |-> k + 1]
    <3>1. k \in Nat
      <4>1. Cardinality(Ended) \in Int
        <5>1. Len(calls) \in Nat
          BY DEF TypeOK
        <5> QED BY <5>1, ResultsTypes
      <4>2. Len(todo) \in Nat
        BY DEF TypeOK
      <4>3. Emitted >= 0
        BY <2>3 DEF TranscriptInv, InBatch
      <4> QED BY <2>3, <4>1, <4>2, <4>3 DEF Emitted
    <3>2. t \in Nat /\ reply.role = "assistant"
      BY ReplyType DEF TypeOK
    <3>3. todo[1] = ToolResult(c)
      BY <2>1, <2>3, <3>1 DEF TranscriptInv, Call
    <3>4. /\ context \in Seq(Entry) /\ Len(context) \in Nat /\ Len(context) >= 1 /\ context[Len(context)] = reply
          /\ messages = context \o ResultsUpTo(t, k)
      BY <2>3 DEF TranscriptInv, InBatch, TypeOK
    <3>5. /\ ResultsUpTo(t, k) \in Seq(Entry) /\ Len(ResultsUpTo(t, k)) = k
          /\ k > 0 => ResultsUpTo(t, k)[k] = ToolResult([turn |-> t, index |-> k])
      <4>1. ResultsUpTo(t, k) \in Seq(Entry) /\ Len(ResultsUpTo(t, k)) = k
        BY <3>1, ResultsTypes
      <4>2. k > 0 => ResultsUpTo(t, k)[k] = ToolResult([turn |-> t, index |-> k])
        BY <3>1 DEF ResultsUpTo
      <4> QED BY <4>1, <4>2
    <3> HIDE DEF k, t
    <3>6. /\ Len(messages) = Len(context) + k /\ Len(messages) >= 1
          /\ messages[Len(messages)] = IF k = 0 THEN reply ELSE ToolResult([turn |-> t, index |-> k])
      <4>1. /\ Len(messages) = Len(context) + k
            /\ \A i \in 1..Len(context) : messages[i] = context[i]
            /\ \A i \in 1..k : messages[Len(context) + i] = ResultsUpTo(t, k)[i]
        BY <3>4, <3>5, ConcatParts
      <4>2. CASE k = 0
        BY <3>4, <4>1, <4>2
      <4>3. CASE k > 0
        BY <3>1, <3>4, <3>5, <4>1, <4>3
      <4> QED BY <3>1, <4>2, <4>3
    <3>7. /\ c.index = k + 1 /\ c.turn = t /\ [c EXCEPT !.index = @ - 1] = [turn |-> t, index |-> k]
          /\ ToolResult(c).call = c
      BY <3>1 DEF ToolResult
    <3>8. c.index = 1 <=> k = 0
      BY <3>1
    <3>9. reply.turn = t
      BY DEF t
    <3>10. Len(messages) >= 1 /\ LastAnswers(c)
      BY <3>2, <3>6, <3>7, <3>8, <3>9 DEF LastAnswers
    <3> QED BY <2>1, <3>3, <3>7, <3>10, AppendFollows
  <2> QED BY <2>2, <2>3
<1>11. CASE InitialPoll
  BY <1>11 DEF InitialPoll, ResultsFollowTheirCalls
<1>12. CASE EnterTurn
  BY <1>12 DEF EnterTurn, ResultsFollowTheirCalls
<1>13. CASE PrepareNextTurn
  BY <1>13 DEF PrepareNextTurn, ResultsFollowTheirCalls
<1>14. CASE StartPreparedTurn
  BY <1>14 DEF StartPreparedTurn, ResultsFollowTheirCalls
<1>15. CASE PollFollowUps
  BY <1>15 DEF PollFollowUps, ResultsFollowTheirCalls
<1>16. CASE Request
  BY <1>16 DEF Request, ResultsFollowTheirCalls
<1>17. CASE StreamStart
  BY <1>17 DEF StreamStart, ResultsFollowTheirCalls
<1>18. ASSUME NEW r \in Replies, StreamResult(r) PROVE ResultsFollowTheirCalls'
  BY <1>18 DEF StreamResult, ResultsFollowTheirCalls
<1>19. CASE StreamEnd
  <2>1. messages' = Append(messages, reply) /\ reply \in Entry /\ reply.role # "toolResult"
    BY <1>19 DEF StreamEnd, TypeOK
  <2> QED BY <2>1, AppendFollows
<1>20. CASE ToolStart
  BY <1>20 DEF ToolStart, ResultsFollowTheirCalls
<1>21. CASE PrepareCall
  BY <1>21 DEF PrepareCall, ResultsFollowTheirCalls
<1>22. ASSUME NEW b \in BOOLEAN, PrepareImmediate(b) PROVE ResultsFollowTheirCalls'
  BY <1>22 DEF PrepareImmediate, ResultsFollowTheirCalls
<1>23. ASSUME NEW i \in 1..MaxCalls, NEW b \in BOOLEAN, ToolReturn(i, b) PROVE ResultsFollowTheirCalls'
  BY <1>23 DEF ToolReturn, ResultsFollowTheirCalls
<1>24. ASSUME NEW i \in 1..MaxCalls, ToolEnd(i) PROVE ResultsFollowTheirCalls'
  BY <1>24 DEF ToolEnd, ResultsFollowTheirCalls
<1>25. CASE NextParallelCall
  BY <1>25 DEF NextParallelCall, ResultsFollowTheirCalls
<1>26. CASE LaunchParallel
  BY <1>26 DEF LaunchParallel, ResultsFollowTheirCalls
<1>27. CASE JoinParallel
  BY <1>27 DEF JoinParallel, ResultsFollowTheirCalls
<1>28. CASE NextSequentialCall
  BY <1>28 DEF NextSequentialCall, ResultsFollowTheirCalls
<1>29. CASE BatchDone
  BY <1>29 DEF BatchDone, ResultsFollowTheirCalls
<1>30. CASE TurnEnd
  BY <1>30 DEF TurnEnd, ResultsFollowTheirCalls
<1>31. ASSUME NEW b \in BOOLEAN, AfterTurn(b) PROVE ResultsFollowTheirCalls'
  BY <1>31 DEF AfterTurn, ResultsFollowTheirCalls
<1>32. CASE EmitAgentEnd
  BY <1>32 DEF EmitAgentEnd, ResultsFollowTheirCalls
<1>33. CASE FinishRun
  BY <1>33 DEF FinishRun, EndRun, ResultsFollowTheirCalls
<1>34. CASE RunFails
  BY <1>34 DEF RunFails, ReportFailure, ResultsFollowTheirCalls
<1>35. ASSUME NEW i \in 1..MaxCalls, ParallelCallFails(i) PROVE ResultsFollowTheirCalls'
  BY <1>35 DEF ParallelCallFails, ReportFailure, ResultsFollowTheirCalls
<1>36. CASE FailureMessageEnd
  <2>1. messages' = Append(messages, reply) /\ reply \in Entry /\ reply.role # "toolResult"
    BY <1>36 DEF FailureMessageEnd, TypeOK
  <2> QED BY <2>1, AppendFollows
<1>37. CASE FailureTurnEnd
  BY <1>37 DEF FailureTurnEnd, ResultsFollowTheirCalls
<1>38. CASE FailureReportFails
  BY <1>38 DEF FailureReportFails, EndRun, ResultsFollowTheirCalls
<1>39. ASSUME NEW c \in detached, DetachedToolEnd(c) PROVE ResultsFollowTheirCalls'
  BY <1>39 DEF DetachedToolEnd, ResultsFollowTheirCalls
<1>40. CASE UNCHANGED vars
  BY <1>40 DEF ResultsFollowTheirCalls, vars
<1> QED
  BY <1>1, <1>2, <1>3, <1>4, <1>5, <1>6, <1>7, <1>8, <1>9, <1>10, <1>11, <1>12,
     <1>13, <1>14, <1>15, <1>16, <1>17, <1>18, <1>19, <1>20, <1>21, <1>22, <1>23,
     <1>24, <1>25, <1>26, <1>27, <1>28, <1>29, <1>30, <1>31, <1>32, <1>33, <1>34,
     <1>35, <1>36, <1>37, <1>38, <1>39, <1>40
     DEF Next, Caller, Step

--------------------------------------------------------------------------------
(* The calls of a run are answered *)

(* A message behind answered ones; a reply with calls is not answered yet.   *)
LEMMA AppendAnswered ==
  ASSUME NEW s \in Seq(Entry), NEW start \in 0..Len(s), NEW x \in Entry, Answered(start, s, Len(s))
  PROVE  /\ Answered(start, Append(s, x), Len(s))
         /\ x.role = "user" \/ x.calls = 0 => Answered(start, Append(s, x), Len(Append(s, x)))
<1> DEFINE a == Append(s, x)
<1>1. Len(s) \in Nat /\ Len(a) = Len(s) + 1 /\ a[Len(s) + 1] = x /\ \A i \in 1..Len(s) : a[i] = s[i]
  BY AppendProperties
<1> HIDE DEF a
<1>2. ASSUME NEW i \in (start + 1)..Len(s), a[i].role = "assistant", NEW k \in 1..a[i].calls
      PROVE  \E j \in (i + 1)..Len(a) : a[j] = ToolResult([turn |-> a[i].turn, index |-> k])
  <2>1. i \in 1..Len(s) /\ a[i] = s[i]
    BY <1>1
  <2>2. PICK j \in (i + 1)..Len(s) : s[j] = ToolResult([turn |-> s[i].turn, index |-> k])
    BY <1>2, <2>1 DEF Answered
  <2>3. j \in (i + 1)..Len(a) /\ a[j] = s[j]
    BY <1>1, <2>1, <2>2
  <2> QED BY <2>1, <2>2, <2>3
<1>3. Answered(start, a, Len(s))
  BY <1>2 DEF Answered
<1>4. ASSUME x.role = "user" \/ x.calls = 0 PROVE Answered(start, a, Len(a))
  <2>1. SUFFICES ASSUME NEW i \in (start + 1)..Len(a), a[i].role = "assistant", NEW k \in 1..a[i].calls
        PROVE  \E j \in (i + 1)..Len(a) : a[j] = ToolResult([turn |-> a[i].turn, index |-> k])
    BY DEF Answered
  <2>2. CASE i = Len(s) + 1
    BY <1>1, <1>4, <2>1, <2>2
  <2>3. CASE i <= Len(s)
    BY <1>1, <1>2, <2>1, <2>3
  <2> QED BY <1>1, <2>2, <2>3
<1> QED BY <1>3, <1>4 DEF a

(* The first n results of a batch.                                           *)
LEMMA ResultsUpToTypes ==
  ASSUME NEW t \in Nat, NEW n \in Nat
  PROVE  ResultsUpTo(t, n) \in Seq(Entry) /\ Len(ResultsUpTo(t, n)) = n
<1>1. \A i \in Nat : ToolResult([turn |-> t, index |-> i]) \in Entry
  BY EntryTypes
<1> QED BY <1>1 DEF ResultsUpTo

(* The results of a batch answer the reply they follow.                      *)
LEMMA BatchAnswered ==
  ASSUME NEW s \in Seq(Entry), NEW start \in 0..(Len(s) - 1), NEW r, NEW n \in Nat, n = r.calls,
         r.turn \in Nat, s[Len(s)] = r, Answered(start, s, Len(s) - 1)
  PROVE  Answered(start, s \o ResultsUpTo(r.turn, n), Len(s \o ResultsUpTo(r.turn, n)))
<1> DEFINE q == ResultsUpTo(r.turn, n)
           a == s \o q
<1>1. /\ q \in Seq(Entry) /\ Len(q) = n
      /\ \A i \in 1..n : q[i] = ToolResult([turn |-> r.turn, index |-> i]) /\ q[i].role = "toolResult"
  <2>1. \A i \in Nat : ToolResult([turn |-> r.turn, index |-> i]) \in Entry
                       /\ ToolResult([turn |-> r.turn, index |-> i]).role = "toolResult"
    BY EntryTypes
  <2>2. q \in Seq(Entry) /\ Len(q) = n
    BY ResultsUpToTypes
  <2>3. \A i \in 1..n : q[i] = ToolResult([turn |-> r.turn, index |-> i])
    BY DEF ResultsUpTo
  <2> HIDE DEF q
  <2> QED BY <2>1, <2>2, <2>3
<1> HIDE DEF q
<1>2. /\ Len(s) \in Nat /\ Len(a) = Len(s) + n /\ \A i \in 1..Len(s) : a[i] = s[i]
      /\ \A i \in 1..n : a[Len(s) + i] = q[i]
  BY <1>1, ConcatParts, SMTT(20)
<1> HIDE DEF a
<1>3. SUFFICES ASSUME NEW i \in (start + 1)..Len(a), a[i].role = "assistant", NEW k \in 1..a[i].calls
      PROVE  \E j \in (i + 1)..Len(a) : a[j] = ToolResult([turn |-> a[i].turn, index |-> k])
  BY DEF Answered, a, q
<1>4. CASE i < Len(s)
  <2>1. i \in 1..Len(s) /\ a[i] = s[i] /\ i \in (start + 1)..(Len(s) - 1)
    BY <1>2, <1>4
  <2>2. PICK j \in (i + 1)..Len(s) : s[j] = ToolResult([turn |-> s[i].turn, index |-> k])
    BY <1>3, <2>1 DEF Answered
  <2>3. j \in (i + 1)..Len(a) /\ a[j] = s[j]
    BY <1>2, <2>1, <2>2, SMTT(20)
  <2> QED BY <2>1, <2>2, <2>3
<1>5. CASE i = Len(s)
  <2>1. a[i] = r /\ k \in 1..n
    <3>1. i \in 1..Len(s)
      BY <1>2, <1>5
    <3>2. a[i] = r
      BY <1>2, <1>5, <3>1
    <3> QED BY <3>2
  <2>2. a[Len(s) + k] = ToolResult([turn |-> r.turn, index |-> k])
    BY <1>1, <1>2, <2>1
  <2>3. Len(s) + k \in (i + 1)..Len(a)
    BY <1>2, <1>5, <2>1
  <2> QED BY <2>1, <2>2, <2>3
<1>6. CASE i > Len(s)
  <2>1. i - Len(s) \in 1..n /\ Len(s) + (i - Len(s)) = i
    BY <1>2, <1>6
  <2>2. a[i] = q[i - Len(s)]
    BY <1>2, <2>1
  <2> QED BY <1>1, <1>3, <2>1, <2>2
<1>7. i < Len(s) \/ i = Len(s) \/ i > Len(s)
  BY <1>2
<1> QED BY <1>4, <1>5, <1>6, <1>7

(* A run that starts has made no call.                                       *)
LEMMA StartRunAnswered ==
  ASSUME TypeOK, NEW ps \in Seq(Msg), NEW skip, StartRun(ps, skip)
  PROVE  AnsweredInv'
<1>1. Len(messages) \in Nat
  BY DEF TypeOK
<1>2. pc' = "emitPrompts" /\ messages' = messages /\ runStart' = Len(messages)
  BY DEF StartRun
<1>3. Answered(runStart', messages', Len(messages'))
  BY <1>1, <1>2 DEF Answered
<1> QED BY <1>2, <1>3 DEF AnsweredInv, InBatch

(* A call is answered before the model is asked to go on.                    *)
LEMMA AnsweredNext ==
  ASSUME TypeOK, ControlInv, BatchInv, TranscriptInv, AnsweredInv, [Next]_vars
  PROVE  AnsweredInv'
<1> USE DEF agentVars, queueVars, modeVars, loopVars, toolVars, histVars, toolRest
<1>1. ASSUME NEW m \in Msg, Prompt(m) PROVE AnsweredInv'
  <2>1. <<m>> \in Seq(Msg)
    OBVIOUS
  <2> QED BY <1>1, <2>1, StartRunAnswered DEF Prompt
<1>2. ASSUME NEW m \in Msg, Steer(m) PROVE AnsweredInv'
  BY <1>2 DEF Steer, AnsweredInv, InBatch
<1>3. ASSUME NEW m \in Msg, FollowUp(m) PROVE AnsweredInv'
  BY <1>3 DEF FollowUp, AnsweredInv, InBatch
<1>4. CASE Continue
  BY <1>4, ContinueStarts, StartRunAnswered
<1>5. CASE ClearAllQueues
  BY <1>5 DEF ClearAllQueues, AnsweredInv, InBatch
<1>6. CASE Abort
  BY <1>6 DEF Abort, AnsweredInv, InBatch
<1>7. CASE Reset
  BY <1>7 DEF Reset, ControlInv, AnsweredInv, InBatch
<1>8. ASSUME NEW s \in QueueModes, NEW f \in QueueModes, SetQueueModes(s, f) PROVE AnsweredInv'
  BY <1>8 DEF SetQueueModes, AnsweredInv, InBatch
<1>9. CASE EmitMessageStart
  BY <1>9 DEF EmitMessageStart, AnsweredInv, InBatch
<1>10. CASE EmitMessageEnd
  <2>1. /\ todo[1] \in Entry /\ messages' = Append(messages, todo[1]) /\ 1 \in 1..Len(todo)
        /\ UNCHANGED <<pc, aborted, runStart>> /\ messages \in Seq(Entry)
    BY <1>10 DEF EmitMessageEnd, TypeOK
  <2>2. CASE pc # "emitResults"
    <3>1. todo[1].role = "user" /\ runStart \in 0..Len(messages)
      BY <1>10, <2>1, <2>2 DEF EmitMessageEnd, Emitting, ControlInv, TranscriptInv, TypeOK
    <3>2. ~aborted => Answered(runStart, messages, Len(messages))
      BY <1>10, <2>2 DEF EmitMessageEnd, Emitting, AnsweredInv
    <3>3. ~aborted => Answered(runStart, messages', Len(messages'))
      BY <2>1, <3>1, <3>2, AppendAnswered
    <3> QED BY <1>10, <2>1, <2>2, <3>3 DEF EmitMessageEnd, Emitting, AnsweredInv, InBatch
  <2>3. CASE pc = "emitResults"
    BY <1>10, <2>1, <2>3 DEF EmitMessageEnd, AnsweredInv, InBatch
  <2> QED BY <2>2, <2>3
<1>11. CASE InitialPoll
  BY <1>11 DEF InitialPoll, AnsweredInv, InBatch
<1>12. CASE EnterTurn
  BY <1>12 DEF EnterTurn, Inject, AnsweredInv, InBatch
<1>13. CASE PrepareNextTurn
  BY <1>13 DEF PrepareNextTurn, Inject, AnsweredInv, InBatch
<1>14. CASE StartPreparedTurn
  BY <1>14 DEF StartPreparedTurn, Inject, AnsweredInv, InBatch
<1>15. CASE PollFollowUps
  BY <1>15 DEF PollFollowUps, AnsweredInv, InBatch
<1>16. CASE Request
  BY <1>16 DEF Request, AnsweredInv, InBatch
<1>17. CASE StreamStart
  BY <1>17 DEF StreamStart, AnsweredInv, InBatch
<1>18. ASSUME NEW r \in Replies, StreamResult(r) PROVE AnsweredInv'
  BY <1>18 DEF StreamResult, AnsweredInv, InBatch
<1>19. CASE StreamEnd
  <2>1. /\ reply \in Entry /\ messages' = Append(messages, reply) /\ UNCHANGED <<aborted, runStart, reply, context>>
        /\ messages \in Seq(Entry) /\ runStart \in 0..Len(messages) /\ context = Append(messages, reply)
        /\ Len(context) - 1 = Len(messages)
    BY <1>19 DEF StreamEnd, TranscriptInv, TypeOK
  <2>2. ~aborted => Answered(runStart, messages, Len(messages))
    BY <1>19 DEF StreamEnd, AnsweredInv
  <2>3. ~aborted => Answered(runStart, context, Len(context) - 1)
    BY <2>1, <2>2, AppendAnswered
  <2>4. ~aborted /\ reply.calls = 0 => Answered(runStart, messages', Len(messages'))
    BY <2>1, <2>2, AppendAnswered
  <2>5. pc' = "turnEnd" /\ ~Failed(reply) => reply.calls = 0
    BY <1>19, ReplyType DEF StreamEnd
  <2>6. pc' = "tools" \/ pc' = "turnEnd"
    BY <1>19 DEF StreamEnd
  <2> QED BY <2>1, <2>3, <2>4, <2>5, <2>6 DEF AnsweredInv, InBatch, Failed
<1>20. CASE ToolStart
  BY <1>20 DEF ToolStart, AnsweredInv, InBatch
<1>21. CASE PrepareCall
  BY <1>21 DEF PrepareCall, AnsweredInv, InBatch
<1>22. ASSUME NEW b \in BOOLEAN, PrepareImmediate(b) PROVE AnsweredInv'
  BY <1>22 DEF PrepareImmediate, AnsweredInv, InBatch
<1>23. ASSUME NEW i \in 1..MaxCalls, NEW b \in BOOLEAN, ToolReturn(i, b) PROVE AnsweredInv'
  BY <1>23 DEF ToolReturn, AnsweredInv, InBatch
<1>24. ASSUME NEW i \in 1..MaxCalls, ToolEnd(i) PROVE AnsweredInv'
  BY <1>24 DEF ToolEnd, AnsweredInv, InBatch
<1>25. CASE NextParallelCall
  BY <1>25 DEF NextParallelCall, AnsweredInv, InBatch
<1>26. CASE LaunchParallel
  BY <1>26 DEF LaunchParallel, AnsweredInv, InBatch
<1>27. CASE JoinParallel
  BY <1>27 DEF JoinParallel, AnsweredInv, InBatch
<1>28. CASE NextSequentialCall
  BY <1>28 DEF NextSequentialCall, AnsweredInv, InBatch
<1>29. CASE BatchDone
  <2>1. /\ UNCHANGED <<messages, reply, runStart, aborted>> /\ pc = "emitResults" /\ pc' = "turnEnd"
        /\ Len(todo) = 0 /\ ~MoreSequentialCalls
    BY <1>29 DEF BatchDone, TypeOK
  <2>2. SUFFICES ASSUME ~aborted PROVE Answered(runStart, messages, Len(messages))
    BY <2>1 DEF AnsweredInv, InBatch
  <2>3. Cardinality(Ended) = reply.calls /\ reply.calls \in Nat
    <3>1. Len(calls) = reply.calls /\ Len(calls) \in Nat
      BY <2>1 DEF BatchInv, InBatch, TypeOK
    <3>2. CASE batch = "parallel"
      <4>1. Ended = 1..Len(calls)
        BY <2>1, <2>2, <3>2 DEF BatchInv, Failing, Ended
      <4> QED BY <3>1, <4>1, PrefixCard
    <3>3. CASE batch # "parallel"
      <4>1. cursor >= Len(calls) /\ cursor <= Len(calls) /\ cursor \in Nat
        BY <2>1, <2>2, <3>1, <3>3 DEF MoreSequentialCalls, BatchInv, InBatch, TypeOK
      <4>2. Cardinality(Ended) = cursor
        BY <2>1, <3>3, SequentialEnded
      <4> QED BY <3>1, <4>1, <4>2
    <3> QED BY <3>2, <3>3
  <2>4. Emitted = reply.calls
    BY <2>1, <2>3 DEF Emitted
  <2>5. /\ context \in Seq(Entry) /\ runStart \in 0..(Len(context) - 1) /\ context[Len(context)] = reply
        /\ messages = context \o ResultsUpTo(reply.turn, reply.calls)
    BY <2>1, <2>4 DEF TranscriptInv, InBatch, TypeOK
  <2>6. Answered(runStart, context, Len(context) - 1)
    BY <2>1, <2>2 DEF AnsweredInv, InBatch
  <2> QED BY <2>3, <2>5, <2>6, ReplyType, BatchAnswered
<1>30. CASE TurnEnd
  BY <1>30 DEF TurnEnd, AnsweredInv, InBatch
<1>31. ASSUME NEW b \in BOOLEAN, AfterTurn(b) PROVE AnsweredInv'
  BY <1>31 DEF AfterTurn, AnsweredInv, InBatch
<1>32. CASE EmitAgentEnd
  BY <1>32 DEF EmitAgentEnd, AnsweredInv, InBatch
<1>33. CASE FinishRun
  BY <1>33 DEF FinishRun, EndRun, AnsweredInv, InBatch
<1>34. CASE RunFails
  BY <1>34 DEF RunFails, ReportFailure, AnsweredInv, InBatch
<1>35. ASSUME NEW i \in 1..MaxCalls, ParallelCallFails(i) PROVE AnsweredInv'
  BY <1>35 DEF ParallelCallFails, ReportFailure, AnsweredInv, InBatch
<1>36. CASE FailureMessageEnd
  BY <1>36 DEF FailureMessageEnd, AnsweredInv, InBatch
<1>37. CASE FailureTurnEnd
  BY <1>37 DEF FailureTurnEnd, AnsweredInv, InBatch
<1>38. CASE FailureReportFails
  BY <1>38 DEF FailureReportFails, EndRun, AnsweredInv, InBatch
<1>39. ASSUME NEW c \in detached, DetachedToolEnd(c) PROVE AnsweredInv'
  BY <1>39 DEF DetachedToolEnd, AnsweredInv, InBatch
<1>40. CASE UNCHANGED vars
  BY <1>40 DEF vars, AnsweredInv, InBatch
<1> QED
  BY <1>1, <1>2, <1>3, <1>4, <1>5, <1>6, <1>7, <1>8, <1>9, <1>10, <1>11, <1>12,
     <1>13, <1>14, <1>15, <1>16, <1>17, <1>18, <1>19, <1>20, <1>21, <1>22, <1>23,
     <1>24, <1>25, <1>26, <1>27, <1>28, <1>29, <1>30, <1>31, <1>32, <1>33, <1>34,
     <1>35, <1>36, <1>37, <1>38, <1>39, <1>40
     DEF Next, Caller, Step

(* While no listener throws, nothing comes after agent_end.                  *)
LEMMA EndNext ==
  ASSUME TypeOK, ControlInv, EndInv, [Next]_vars
  PROVE  EndInv'
<1> USE DEF agentVars, queueVars, modeVars, loopVars, toolVars, histVars, toolRest
<1>1. ASSUME NEW m \in Msg, Prompt(m) PROVE EndInv'
  BY <1>1 DEF Prompt, StartRun, EndInv
<1>2. ASSUME NEW m \in Msg, Steer(m) PROVE EndInv'
  BY <1>2 DEF Steer, EndInv, TypeOK
<1>3. ASSUME NEW m \in Msg, FollowUp(m) PROVE EndInv'
  BY <1>3 DEF FollowUp, EndInv, TypeOK
<1>4. CASE Continue
  BY <1>4 DEF Continue, StartRun, EndInv
<1>5. CASE ClearAllQueues
  BY <1>5 DEF ClearAllQueues, EndInv, TypeOK
<1>6. CASE Abort
  BY <1>6 DEF Abort, EndInv, TypeOK
<1>7. CASE Reset
  BY <1>7 DEF Reset, EndInv, TypeOK
<1>8. ASSUME NEW s \in QueueModes, NEW f \in QueueModes, SetQueueModes(s, f) PROVE EndInv'
  BY <1>8 DEF SetQueueModes, EndInv, TypeOK
<1>9. CASE EmitMessageStart
  BY <1>9 DEF EmitMessageStart, EndInv, TypeOK
<1>10. CASE EmitMessageEnd
  BY <1>10 DEF EmitMessageEnd, EndInv, TypeOK
<1>11. CASE InitialPoll
  BY <1>11 DEF InitialPoll, EndInv, TypeOK
<1>12. CASE EnterTurn
  BY <1>12 DEF EnterTurn, Inject, EndInv
<1>13. CASE PrepareNextTurn
  BY <1>13 DEF PrepareNextTurn, Inject, EndInv
<1>14. CASE StartPreparedTurn
  BY <1>14 DEF StartPreparedTurn, Inject, EndInv
<1>15. CASE PollFollowUps
  BY <1>15 DEF PollFollowUps, EndInv, TypeOK
<1>16. CASE Request
  BY <1>16 DEF Request, EndInv, TypeOK
<1>17. CASE StreamStart
  BY <1>17 DEF StreamStart, EndInv, TypeOK
<1>18. ASSUME NEW r \in Replies, StreamResult(r) PROVE EndInv'
  BY <1>18 DEF StreamResult, EndInv, TypeOK
<1>19. CASE StreamEnd
  BY <1>19 DEF StreamEnd, EndInv, TypeOK
<1>20. CASE ToolStart
  BY <1>20 DEF ToolStart, EndInv, TypeOK
<1>21. CASE PrepareCall
  BY <1>21 DEF PrepareCall, EndInv, TypeOK
<1>22. ASSUME NEW b \in BOOLEAN, PrepareImmediate(b) PROVE EndInv'
  BY <1>22 DEF PrepareImmediate, EndInv, TypeOK
<1>23. ASSUME NEW i \in 1..MaxCalls, NEW b \in BOOLEAN, ToolReturn(i, b) PROVE EndInv'
  BY <1>23 DEF ToolReturn, EndInv, TypeOK
<1>24. ASSUME NEW i \in 1..MaxCalls, ToolEnd(i) PROVE EndInv'
  BY <1>24 DEF ToolEnd, EndInv
<1>25. CASE NextParallelCall
  BY <1>25 DEF NextParallelCall, EndInv, TypeOK
<1>26. CASE LaunchParallel
  BY <1>26 DEF LaunchParallel, EndInv, TypeOK
<1>27. CASE JoinParallel
  BY <1>27 DEF JoinParallel, EndInv, TypeOK
<1>28. CASE NextSequentialCall
  BY <1>28 DEF NextSequentialCall, EndInv, TypeOK
<1>29. CASE BatchDone
  BY <1>29 DEF BatchDone, EndInv, TypeOK
<1>30. CASE TurnEnd
  BY <1>30 DEF TurnEnd, EndInv, TypeOK
<1>31. ASSUME NEW b \in BOOLEAN, AfterTurn(b) PROVE EndInv'
  BY <1>31 DEF AfterTurn, EndInv, TypeOK
<1>32. CASE EmitAgentEnd
  BY <1>32 DEF EmitAgentEnd, EndInv, ControlInv, TypeOK
<1>33. CASE FinishRun
  BY <1>33 DEF FinishRun, EndRun, EndInv
<1>34. CASE RunFails
  BY <1>34 DEF RunFails, ReportFailure, EndInv, HookAwaits
<1>35. ASSUME NEW i \in 1..MaxCalls, ParallelCallFails(i) PROVE EndInv'
  BY <1>35 DEF ParallelCallFails, ReportFailure, EndInv, HookAwaits
<1>36. CASE FailureMessageEnd
  BY <1>36 DEF FailureMessageEnd, EndInv, TypeOK
<1>37. CASE FailureTurnEnd
  BY <1>37 DEF FailureTurnEnd, EndInv, TypeOK
<1>38. CASE FailureReportFails
  BY <1>38 DEF FailureReportFails, EndRun, EndInv
<1>39. ASSUME NEW c \in detached, DetachedToolEnd(c) PROVE EndInv'
  BY <1>39 DEF DetachedToolEnd, EndInv, TypeOK
<1>40. CASE UNCHANGED vars
  BY <1>40 DEF vars, EndInv
<1> QED
  BY <1>1, <1>2, <1>3, <1>4, <1>5, <1>6, <1>7, <1>8, <1>9, <1>10, <1>11, <1>12,
     <1>13, <1>14, <1>15, <1>16, <1>17, <1>18, <1>19, <1>20, <1>21, <1>22, <1>23,
     <1>24, <1>25, <1>26, <1>27, <1>28, <1>29, <1>30, <1>31, <1>32, <1>33, <1>34,
     <1>35, <1>36, <1>37, <1>38, <1>39, <1>40
     DEF Next, Caller, Step

--------------------------------------------------------------------------------
(* The inductive invariant *)

(* It holds when the agent is created.                                       *)
LEMMA InitTranscriptInv == Init => TranscriptIInv
<1> SUFFICES ASSUME Init PROVE TranscriptIInv
  OBVIOUS
<1>1. LoopInv
  BY InitInv
<1>2. TranscriptInv /\ ResultsFollowTheirCalls /\ AnsweredInv /\ EndInv
  BY DEF Init, TranscriptInv, InBatch, ResultsFollowTheirCalls, AnsweredInv, EndInv
<1> QED BY <1>1, <1>2 DEF TranscriptIInv

(* Every step keeps it.                                                      *)
LEMMA NextTranscriptInv == TranscriptIInv /\ [Next]_vars => TranscriptIInv'
<1> SUFFICES ASSUME TranscriptIInv, [Next]_vars PROVE TranscriptIInv'
  OBVIOUS
<1> USE DEF TranscriptIInv
<1>1. LoopInv'
  BY NextInv
<1> USE DEF LoopInv
<1>2. TranscriptInv'
  BY TranscriptNext
<1>3. ResultsFollowTheirCalls'
  BY ResultsFollowNext
<1>4. AnsweredInv'
  BY AnsweredNext
<1>5. EndInv'
  BY EndNext
<1> QED BY <1>1, <1>2, <1>3, <1>4, <1>5

(* It holds in every state an agent reaches.                                 *)
THEOREM TranscriptInvariance == Spec => []TranscriptIInv
  BY InitTranscriptInv, NextTranscriptInv, PTL DEF Spec

--------------------------------------------------------------------------------
(* What it shows *)

(* The transcript shows the results of a reply right behind it, in the order *)
(* of its calls, in whatever order the tools end.                            *)
THEOREM ResultsAreOrdered == Spec => []ResultsFollowTheirCalls
<1>1. TranscriptIInv => ResultsFollowTheirCalls
  BY DEF TranscriptIInv
<1> QED BY <1>1, TranscriptInvariance, PTL

(* Until it is aborted a run asks the model only with all calls answered.    *)
THEOREM RequestsAreComplete == Spec => []RequestHasAllResults
<1>1. TranscriptIInv => RequestHasAllResults
  <2> SUFFICES ASSUME TranscriptIInv, pc = "stream", ~aborted
               PROVE  Answered(runStart, context, Len(context))
    BY DEF RequestHasAllResults, Answered
  <2>1. context = messages /\ Answered(runStart, messages, Len(messages))
    BY DEF TranscriptIInv, TranscriptInv, AnsweredInv
  <2> QED BY <2>1
<1> QED BY <1>1, TranscriptInvariance, PTL

(* The model is sent the transcript, and agent_end reports what the run      *)
(* added to it.                                                              *)
THEOREM ContextFollowsTranscript == Spec => []ContextIsTranscript
<1>1. TranscriptIInv => ContextIsTranscript
  BY DEF TranscriptIInv, TranscriptInv, ContextIsTranscript, Since
<1> QED BY <1>1, TranscriptInvariance, PTL

(* Once agent_end is out and no listener throws, the run only ends.          *)
LEMMA AfterAgentEnd ==
  ASSUME ~ListenersThrow, ControlInv, pc \in {"finish", "failFinish"}, [Next]_vars
  PROVE  pc' \in {pc, "idle"}
<1> USE DEF agentVars, queueVars, modeVars, loopVars, toolVars, histVars, toolRest, Emitting
<1>1. ASSUME NEW m \in Msg, Prompt(m) PROVE pc' \in {pc, "idle"}
  BY <1>1 DEF Prompt, StartRun, ControlInv
<1>2. ASSUME NEW m \in Msg, Steer(m) PROVE pc' \in {pc, "idle"}
  BY <1>2 DEF Steer
<1>3. ASSUME NEW m \in Msg, FollowUp(m) PROVE pc' \in {pc, "idle"}
  BY <1>3 DEF FollowUp
<1>4. CASE Continue
  BY <1>4 DEF Continue, StartRun, ControlInv
<1>5. CASE ClearAllQueues
  BY <1>5 DEF ClearAllQueues
<1>6. CASE Abort
  BY <1>6 DEF Abort
<1>7. CASE Reset
  BY <1>7 DEF Reset
<1>8. ASSUME NEW s \in QueueModes, NEW f \in QueueModes, SetQueueModes(s, f) PROVE pc' \in {pc, "idle"}
  BY <1>8 DEF SetQueueModes
<1>9. CASE EmitMessageStart
  BY <1>9 DEF EmitMessageStart
<1>10. CASE EmitMessageEnd
  BY <1>10 DEF EmitMessageEnd
<1>11. CASE InitialPoll
  BY <1>11 DEF InitialPoll
<1>12. CASE EnterTurn
  BY <1>12 DEF EnterTurn
<1>13. CASE PrepareNextTurn
  BY <1>13 DEF PrepareNextTurn
<1>14. CASE StartPreparedTurn
  BY <1>14 DEF StartPreparedTurn
<1>15. CASE PollFollowUps
  BY <1>15 DEF PollFollowUps
<1>16. CASE Request
  BY <1>16 DEF Request
<1>17. CASE StreamStart
  BY <1>17 DEF StreamStart
<1>18. ASSUME NEW r \in Replies, StreamResult(r) PROVE pc' \in {pc, "idle"}
  BY <1>18 DEF StreamResult
<1>19. CASE StreamEnd
  BY <1>19 DEF StreamEnd
<1>20. CASE ToolStart
  BY <1>20 DEF ToolStart
<1>21. CASE PrepareCall
  BY <1>21 DEF PrepareCall
<1>22. ASSUME NEW b \in BOOLEAN, PrepareImmediate(b) PROVE pc' \in {pc, "idle"}
  BY <1>22 DEF PrepareImmediate
<1>23. ASSUME NEW i \in 1..MaxCalls, NEW b \in BOOLEAN, ToolReturn(i, b) PROVE pc' \in {pc, "idle"}
  BY <1>23 DEF ToolReturn
<1>24. ASSUME NEW i \in 1..MaxCalls, ToolEnd(i) PROVE pc' \in {pc, "idle"}
  BY <1>24 DEF ToolEnd
<1>25. CASE NextParallelCall
  BY <1>25 DEF NextParallelCall
<1>26. CASE LaunchParallel
  BY <1>26 DEF LaunchParallel
<1>27. CASE JoinParallel
  BY <1>27 DEF JoinParallel
<1>28. CASE NextSequentialCall
  BY <1>28 DEF NextSequentialCall
<1>29. CASE BatchDone
  BY <1>29 DEF BatchDone
<1>30. CASE TurnEnd
  BY <1>30 DEF TurnEnd
<1>31. ASSUME NEW b \in BOOLEAN, AfterTurn(b) PROVE pc' \in {pc, "idle"}
  BY <1>31 DEF AfterTurn
<1>32. CASE EmitAgentEnd
  BY <1>32 DEF EmitAgentEnd
<1>33. CASE FinishRun
  BY <1>33 DEF FinishRun, EndRun
<1>34. CASE RunFails
  BY <1>34 DEF RunFails, HookAwaits
<1>35. ASSUME NEW i \in 1..MaxCalls, ParallelCallFails(i) PROVE pc' \in {pc, "idle"}
  BY <1>35 DEF ParallelCallFails
<1>36. CASE FailureMessageEnd
  BY <1>36 DEF FailureMessageEnd
<1>37. CASE FailureTurnEnd
  BY <1>37 DEF FailureTurnEnd
<1>38. CASE FailureReportFails
  BY <1>38 DEF FailureReportFails, EndRun
<1>39. ASSUME NEW c \in detached, DetachedToolEnd(c) PROVE pc' \in {pc, "idle"}
  BY <1>39 DEF DetachedToolEnd
<1>40. CASE UNCHANGED vars
  BY <1>40 DEF vars
<1> QED
  BY <1>1, <1>2, <1>3, <1>4, <1>5, <1>6, <1>7, <1>8, <1>9, <1>10, <1>11, <1>12,
     <1>13, <1>14, <1>15, <1>16, <1>17, <1>18, <1>19, <1>20, <1>21, <1>22, <1>23,
     <1>24, <1>25, <1>26, <1>27, <1>28, <1>29, <1>30, <1>31, <1>32, <1>33, <1>34,
     <1>35, <1>36, <1>37, <1>38, <1>39, <1>40
     DEF Next, Caller, Step

(* agent.ts:276: no event of a run follows its agent_end.  Without the       *)
(* hypothesis this is false: a listener of agent_end that throws makes       *)
(* handleRunFailure report the run a second time.                            *)
THEOREM AgentEndComesLast == ASSUME ~ListenersThrow PROVE Spec => AgentEndIsFinal
<1>1. TranscriptIInv /\ [Next]_vars => [agentEnds = 1 /\ activeRun => pc' \in {"finish", "idle"}]_pc
  <2> SUFFICES ASSUME TranscriptIInv, [Next]_vars, agentEnds = 1, activeRun, pc' # pc
               PROVE  pc' \in {"finish", "idle"}
    OBVIOUS
  <2>1. pc \in {"finish", "failFinish"}
    BY DEF TranscriptIInv, LoopInv, EndInv
  <2> QED BY <2>1, AfterAgentEnd DEF TranscriptIInv, LoopInv
<1> QED BY <1>1, TranscriptInvariance, PTL DEF Spec, AgentEndIsFinal
================================================================================
