------------------------------ MODULE ModelRequest -----------------------------
(***************************************************************************)
(* From a transcript to the messages of a request: transformMessages       *)
(* (packages/ai/src/api/transform-messages.ts) makes a stored transcript   *)
(* fit the target model, convertMessages (openai-completions.ts) turns the *)
(* outcome into the parameters of the call.                                *)
(*                                                                         *)
(* A transcript is handed over one message at a time, so that every        *)
(* transcript of up to MaxMessages messages is covered; the first pass of  *)
(* transformMessages looks only at earlier messages, so both its passes    *)
(* handle a message in the same step.  Texts, names, arguments and         *)
(* timestamps are left out; of an assistant's blocks there is what decides *)
(* whether and in which form they are replayed.                            *)
(***************************************************************************)
EXTENDS Integers, Sequences, SequencesExt, FiniteSets, FiniteSetsExt

CONSTANTS
  CallId,       \* tool call ids
  Normalize,    \* normalizeToolCallId of the target, as a function
  Message,      \* messages that transcripts are made of
  Targets,      \* target models and their compat flags
  MaxMessages   \* longest transcript (bound)

ASSUME TargetAssumption ==
  /\ Normalize \in [CallId -> CallId]
  /\ \A c \in CallId : Normalize[Normalize[c]] = Normalize[c]
  /\ Targets \subseteq [vision: BOOLEAN, bridge: BOOLEAN, thinkingAsText: BOOLEAN]
  /\ MaxMessages \in Nat

VARIABLES
  target,                  \* the model, and the compat flags, of the request
  input,                   \* messages handed over so far
  toolCallIdMap,           \* normalized id of an original id
  result,                  \* transformed messages
  pendingToolCalls,
  existingToolResultIds,
  phase,                   \* "transform" | "convert" | "sent"
  i,                       \* next transformed message to convert
  params,                  \* messages of the request
  lastRole

transformVars == <<input, toolCallIdMap, result, pendingToolCalls, existingToolResultIds>>
vars == <<target, transformVars, phase, i, params, lastRole>>

--------------------------------------------------------------------------------
(* Messages.  A body is what an assistant message has beside its calls:    *)
(* nothing, text, readable thinking, or thinking that only its own model   *)
(* can use (redacted, or signed without text).                             *)

Body == {"none", "text", "thinking", "sealed"}

User == [role: {"user"}, content: {"none", "text"}]

ToolResult == [role: {"toolResult"}, id: CallId, image: BOOLEAN, real: {TRUE}]

Assistant == [role: {"assistant"}, same: BOOLEAN, stop: {"ok", "bad"}, body: Body, calls: Seq(CallId)]

(* The calls of a message have different ids, also when normalized, and a  *)
(* model gives its own calls ids in its own format.                        *)
ASSUME MessageAssumption ==
  \A m \in Message :
    \/ m \in User \union ToolResult
    \/ /\ m \in Assistant
       /\ Cardinality({Normalize[c] : c \in Range(m.calls)}) = Len(m.calls)
       /\ m.same => \A c \in Range(m.calls) : Normalize[c] = c

(* Where a transcript may have a tool result: behind the message that made *)
(* the call, with nothing but other results in between, once.  Aborts and  *)
(* crashes leave calls without one; a message that failed was not executed *)
(* (AgentLoop: ResultsFollowTheirCalls).                                   *)
Owner(t, n) ==
  LET heads == {k \in 1..n : t[k].role # "toolResult"}
  IN IF heads = {} THEN 0 ELSE Max(heads)

MayFollow(m) ==
  m.role = "toolResult" =>
    LET n == Len(input)
        owner == Owner(input, n)
    IN /\ owner # 0 /\ input[owner].role = "assistant" /\ input[owner].stop = "ok"
       /\ m.id \in Range(input[owner].calls)
       /\ \A k \in owner + 1 .. n : input[k].id # m.id

Init ==
  /\ target \in Targets
  /\ input = <<>>
  /\ toolCallIdMap = [c \in CallId |-> c]
  /\ result = <<>> /\ pendingToolCalls = <<>> /\ existingToolResultIds = {}
  /\ phase = "transform"
  /\ i = 1 /\ params = <<>> /\ lastRole = "null"

--------------------------------------------------------------------------------
(* First pass *)

(* Mutant: sealed thinking is kept for every model.                        *)
transformedBodyKept(m) == IF ~m.same /\ m.body = "thinking" THEN "text" ELSE m.body

transformedBody(m) ==
  CASE m.same -> m.body
    [] ~m.same /\ m.body = "sealed" -> "none"
    [] ~m.same /\ m.body = "thinking" -> "text"
    [] OTHER -> m.body

transformedCalls(m) == IF m.same THEN m.calls ELSE [k \in DOMAIN m.calls |-> Normalize[m.calls[k]]]

transformResult(m) == [m EXCEPT !.image = @ /\ target.vision, !.id = toolCallIdMap[@]]

transformAssistant(m) == [m EXCEPT !.body = transformedBody(m), !.calls = transformedCalls(m)]

learnedIds(m) ==
  [c \in CallId |-> IF ~m.same /\ c \in Range(m.calls) THEN Normalize[c] ELSE toolCallIdMap[c]]

--------------------------------------------------------------------------------
(* Second pass *)

SyntheticResult(c) == [role |-> "toolResult", id |-> c, image |-> FALSE, real |-> FALSE]

(* insertSyntheticToolResults: the results of the pending calls without    *)
(* one.                                                                    *)
synthetic(calls, existing) ==
  LET upTo[n \in 0..Len(calls)] ==
        IF n = 0 THEN <<>>
        ELSE IF calls[n] \in existing THEN upTo[n - 1]
        ELSE Append(upTo[n - 1], SyntheticResult(calls[n]))
  IN upTo[Len(calls)]

syntheticToolResults == synthetic(pendingToolCalls, existingToolResultIds)

existingAfterInsert == IF pendingToolCalls = <<>> THEN existingToolResultIds ELSE {}

kept(m) == m.stop = "ok"

(* Mutant: a failed message is skipped before the calls that are pending   *)
(* get their results, and they are forgotten.                              *)
TakeAssistantSkipsFirst(m) ==
  LET calls == IF kept(m) THEN transformedCalls(m) ELSE <<>>
  IN /\ result' = IF kept(m) THEN result \o syntheticToolResults \o <<transformAssistant(m)>> ELSE result
     /\ toolCallIdMap' = learnedIds(m)
     /\ pendingToolCalls' = calls
     /\ existingToolResultIds' = IF calls # <<>> THEN {} ELSE existingAfterInsert

TakeAssistant(m) ==
  LET calls == IF kept(m) THEN transformedCalls(m) ELSE <<>>
  IN /\ result' = result \o syntheticToolResults \o (IF kept(m) THEN <<transformAssistant(m)>> ELSE <<>>)
     /\ toolCallIdMap' = learnedIds(m)
     /\ pendingToolCalls' = calls
     /\ existingToolResultIds' = IF calls # <<>> THEN {} ELSE existingAfterInsert

TakeResult(m) ==
  /\ result' = Append(result, transformResult(m))
  /\ existingToolResultIds' = existingToolResultIds \union {transformResult(m).id}
  /\ UNCHANGED <<toolCallIdMap, pendingToolCalls>>

TakeUser(m) ==
  /\ result' = result \o syntheticToolResults \o <<m>>
  /\ pendingToolCalls' = <<>> /\ existingToolResultIds' = existingAfterInsert
  /\ UNCHANGED toolCallIdMap

Take(m) ==
  /\ phase = "transform" /\ Len(input) < MaxMessages /\ MayFollow(m)
  /\ input' = Append(input, m)
  /\ \/ m.role = "assistant" /\ TakeAssistant(m)
     \/ m.role = "toolResult" /\ TakeResult(m)
     \/ m.role = "user" /\ TakeUser(m)
  /\ UNCHANGED <<target, phase, i, params, lastRole>>

TranscriptEnds ==
  /\ phase = "transform" /\ phase' = "convert"
  /\ result' = result \o syntheticToolResults
  /\ pendingToolCalls' = <<>> /\ existingToolResultIds' = existingAfterInsert
  /\ UNCHANGED <<target, input, toolCallIdMap, i, params, lastRole>>

--------------------------------------------------------------------------------
(* convertMessages *)

Bridge == [role |-> "assistant", body |-> "bridge", calls |-> <<>>]

(* The pictures of a batch of results, which a tool message cannot hold.   *)
Images == [role |-> "user", content |-> "images"]

bridgeIf(needed) == IF target.bridge /\ needed THEN <<Bridge>> ELSE <<>>

ConvertUser ==
  LET m == result[i]
      bridge == bridgeIf(lastRole = "toolResult")
  IN /\ m.role = "user"
     /\ params' = params \o bridge \o (IF m.content = "none" THEN <<>> ELSE <<m>>)
     /\ lastRole' = IF m.content = "none" THEN lastRole ELSE "user"
     /\ i' = i + 1

hasContent(body) == body = "text" \/ (body = "thinking" /\ target.thinkingAsText)

(* Mutant: a message that is not sent counts as the last one.              *)
ConvertAssistantCounted ==
  LET m == result[i]
      skipped == ~hasContent(m.body) /\ m.calls = <<>>
  IN /\ m.role = "assistant"
     /\ params' = IF skipped THEN params
                  ELSE Append(params, [role |-> "assistant", body |-> m.body, calls |-> m.calls])
     /\ lastRole' = "assistant"
     /\ i' = i + 1

ConvertAssistant ==
  LET m == result[i]
      skipped == ~hasContent(m.body) /\ m.calls = <<>>
  IN /\ m.role = "assistant"
     /\ params' = IF skipped THEN params
                  ELSE Append(params, [role |-> "assistant", body |-> m.body, calls |-> m.calls])
     /\ lastRole' = IF skipped THEN lastRole ELSE "assistant"
     /\ i' = i + 1

(* A whole batch of results, then their pictures.                          *)
ConvertResults ==
  LET ends == {k \in i .. Len(result) : result[k].role # "toolResult"}
      j == IF ends = {} THEN Len(result) + 1 ELSE Min(ends)
      batch == SubSeq(result, i, j - 1)
      images == \E k \in DOMAIN batch : batch[k].image
  IN /\ result[i].role = "toolResult"
     /\ params' = params
          \o [k \in DOMAIN batch |-> [role |-> "tool", id |-> batch[k].id, real |-> batch[k].real]]
          \o (IF images THEN bridgeIf(TRUE) \o <<Images>> ELSE <<>>)
     /\ lastRole' = IF images THEN "user" ELSE "toolResult"
     /\ i' = j

Convert ==
  /\ phase = "convert" /\ i <= Len(result)
  /\ ConvertUser \/ ConvertAssistant \/ ConvertResults
  /\ UNCHANGED <<target, transformVars, phase>>

Send ==
  /\ phase = "convert" /\ i > Len(result)
  /\ phase' = "sent"
  /\ UNCHANGED <<target, transformVars, i, params, lastRole>>

Next ==
  \/ \E m \in Message : Take(m)
  \/ TranscriptEnds \/ Convert \/ Send

Spec == Init /\ [][Next]_vars

--------------------------------------------------------------------------------
(* Properties *)

(* Tool messages of a request follow the message that made their calls,    *)
(* every call is answered exactly once, and nothing else is answered:      *)
(* whatever was aborted, failed or stored by another model, the provider   *)
(* gets a conversation it accepts (transformMessages, convertMessages).    *)
RequestIsPaired ==
  phase = "sent" =>
    \A k \in DOMAIN params :
      /\ params[k].role = "tool" => k > 1 /\ params[k - 1].role \in {"tool", "assistant"}
      /\ params[k].role = "assistant" =>
           LET n == Len(params[k].calls)
           IN /\ k + n <= Len(params)
              /\ {params[k + d] : d \in 1..n} \subseteq
                   [role: {"tool"}, id: Range(params[k].calls), real: BOOLEAN]
              /\ Cardinality({params[k + d].id : d \in 1..n}) = n
              /\ k + n < Len(params) => params[k + n + 1].role # "tool"

(* Whether a message of the transcript is sent, and as what, on its own.   *)
IsSent(k) ==
  LET m == input[k]
  IN CASE m.role = "user" -> m.content # "none"
       [] m.role = "assistant" -> m.stop = "ok" /\ (m.calls # <<>> \/ hasContent(transformedBody(m)))
       [] m.role = "toolResult" -> TRUE

SentAs(k) ==
  LET m == input[k]
  IN CASE m.role = "user" -> m
       [] m.role = "assistant" ->
            [role |-> "assistant",
             body |-> IF m.same \/ m.body # "sealed" THEN transformedBody(m) ELSE "none",
             calls |-> transformedCalls(m)]
       [] m.role = "toolResult" ->
            [role |-> "tool",
             id |-> IF input[Owner(input, k)].same THEN m.id ELSE Normalize[m.id],
             real |-> TRUE]

FromTranscript(p) ==
  /\ p.role = "tool" => p.real
  /\ p.role = "assistant" => p.body # "bridge"
  /\ p.role = "user" => p.content # "images"

(* The positions from are, one by one and in their order, the positions to. *)
InStep(at, from, to) ==
  /\ {at[k] : k \in from} = to
  /\ \A k, l \in from : k < l => at[k] < at[l]

(* The messages whose results have pictures that the model can see.        *)
WithImages ==
  {Owner(input, k) : k \in {n \in DOMAIN input :
     target.vision /\ input[n].role = "toolResult" /\ input[n].image}}

(* Without what was synthesized, the request is the transcript, in order:  *)
(* no message is lost, repeated or moved, a result that exists is never    *)
(* replaced, ids stay paired when they are normalized, and thinking that   *)
(* only another model can read is not sent.  The pictures of a batch are   *)
(* sent once, to a model that can see them.                                *)
TranscriptIsKept ==
  phase = "sent" =>
    LET told == {k \in DOMAIN input : IsSent(k)}
        heard == {p \in DOMAIN params : FromTranscript(params[p])}
    IN /\ \E at \in [told -> heard] :
            InStep(at, told, heard) /\ \A k \in told : params[at[k]] = SentAs(k)
       /\ Cardinality({p \in DOMAIN params : params[p] = Images}) = Cardinality(WithImages)

(* For a provider that wants an assistant message between tool results and *)
(* a user message there always is one, also when the assistant message of  *)
(* the transcript is left out (compat.requiresAssistantAfterToolResult).   *)
ResultsAreBridged ==
  target.bridge =>
    \A k \in DOMAIN params : k > 1 /\ params[k].role = "user" => params[k - 1].role # "tool"
================================================================================
