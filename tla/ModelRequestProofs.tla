-------------------------- MODULE ModelRequestProofs ---------------------------
(***************************************************************************)
(* Proofs about ModelRequest, for every set of messages, every target and  *)
(* transcripts of any length: the request pairs every tool call with its   *)
(* results (RequestIsPaired), results are bridged from the user messages   *)
(* behind them where the provider wants it (ResultsAreBridged), and        *)
(* without what was synthesized the request is the transcript              *)
(* (TranscriptIsKept).                                                     *)
(***************************************************************************)
EXTENDS ModelRequest, FiniteSetTheorems, FunctionTheorems, SequenceTheorems, TLAPS

--------------------------------------------------------------------------------
(* The inductive invariants *)

Answer == [role: {"toolResult"}, id: CallId, image: BOOLEAN, real: BOOLEAN]

(* What insertSyntheticToolResults makes. *)
Forged == [role: {"toolResult"}, id: CallId, image: {FALSE}, real: {FALSE}]

Transformed == User \cup Answer \cup Assistant

Param ==
  [role: {"user"}, content: {"none", "text", "images"}]
    \cup [role: {"assistant"}, body: Body \cup {"bridge"}, calls: Seq(CallId)]
    \cup [role: {"tool"}, id: CallId, real: BOOLEAN]

(* The types of the state; an id is renamed to its normalized form or not at all. *)
TypesInv ==
  /\ target \in Targets
  /\ input \in Seq(Message)
  /\ toolCallIdMap \in [CallId -> CallId]
  /\ \A c \in CallId : toolCallIdMap[c] \in {c, Normalize[c]}
  /\ result \in Seq(Transformed)
  /\ pendingToolCalls \in Seq(CallId)
  /\ existingToolResultIds \subseteq CallId
  /\ phase \in {"transform", "convert", "sent"}
  /\ i \in 1..(Len(result) + 1)
  /\ params \in Seq(Param)
  /\ lastRole \in {"null", "user", "assistant", "toolResult"}

(* Results, which have the role tool, are behind other results or the message of their calls. *)
Behind(s, tool) ==
  \A k \in 1..Len(s) : s[k].role = tool => k > 1 /\ s[k - 1].role \in {tool, "assistant"}

(* Each of the calls has one of the m messages behind position k as its answer, at most. *)
Answering(s, tool, k, m, calls) ==
  /\ \A d \in 1..m : s[k + d].role = tool /\ s[k + d].id \in Range(calls)
  /\ \A d, e \in 1..m : s[k + d].id = s[k + e].id => d = e

(* The calls of message k are answered, one by one, and nothing else is. *)
Closed(s, tool, k) ==
  LET n == Len(s[k].calls)
  IN /\ k + n <= Len(s)
     /\ Answering(s, tool, k, n, s[k].calls)
     /\ k + n < Len(s) => s[k + n + 1].role # tool

(* Every message before position n has its calls answered. *)
ClosedBefore(s, tool, n) ==
  \A k \in 1..Len(s) : k < n /\ s[k].role = "assistant" => Closed(s, tool, k)

(* The last message of the transcript that is not a result. *)
IsOwner(w) ==
  /\ w \in 1..Len(input) /\ input[w].role # "toolResult"
  /\ \A k \in (w + 1)..Len(input) : input[k].role = "toolResult"

Calling(m) == m.role = "assistant" /\ m.stop = "ok" /\ m.calls # <<>>

(* The message with the pending calls is w of the transcript and o of the result. *)
Waiting(w, o) ==
  /\ Calling(input[w])
  /\ pendingToolCalls = transformedCalls(input[w])
  /\ o \in 1..Len(result) /\ result[o].role = "assistant" /\ result[o].calls = pendingToolCalls
  /\ ClosedBefore(result, "toolResult", o)
  /\ Answering(result, "toolResult", o, Len(result) - o, pendingToolCalls)
  /\ existingToolResultIds = {result[k].id : k \in (o + 1)..Len(result)}
  /\ existingToolResultIds = {toolCallIdMap[input[k].id] : k \in (w + 1)..Len(input)}
  /\ \A k \in (w + 1)..Len(input) : input[k].id \in Range(input[w].calls)
  /\ \A j \in 1..Len(pendingToolCalls) : toolCallIdMap[input[w].calls[j]] = pendingToolCalls[j]

AllClosed == ClosedBefore(result, "toolResult", Len(result) + 1)

TransformInv ==
  phase = "transform" =>
    \/ input = <<>> /\ pendingToolCalls = <<>> /\ AllClosed
    \/ \E w \in 1..Len(input) :
         /\ IsOwner(w)
         /\ \/ ~Calling(input[w]) /\ w = Len(input) /\ pendingToolCalls = <<>> /\ AllClosed
            \/ \E o \in 1..Len(result) : Waiting(w, o)

(* The message that was converted last made calls: their results are next. *)
Awaiting == i > 1 /\ result[i - 1].role = "assistant" /\ result[i - 1].calls # <<>>

ConvertInv ==
  /\ Behind(params, "tool")
  /\ phase = "transform" => i = 1 /\ params = <<>> /\ lastRole = "null"
  /\ phase # "transform" =>
       /\ AllClosed
       /\ i > 1 /\ i <= Len(result) /\ result[i].role = "toolResult" => result[i - 1].role = "assistant"
       /\ IF Awaiting
          THEN /\ params # <<>> /\ params[Len(params)].role = "assistant"
               /\ params[Len(params)].calls = result[i - 1].calls
               /\ ClosedBefore(params, "tool", Len(params))
          ELSE ClosedBefore(params, "tool", Len(params) + 1)
  /\ phase = "sent" => i = Len(result) + 1

RequestInv == TypesInv /\ Behind(result, "toolResult") /\ TransformInv /\ ConvertInv

(* The converter knows when results are last. *)
BridgeInv ==
  /\ params # <<>> /\ params[Len(params)].role = "tool" => lastRole = "toolResult"
  /\ ResultsAreBridged

--------------------------------------------------------------------------------
(* The synthetic results *)

(* A set of numbers that is not empty has a least one. *)
LEMMA LeastNumber ==
  ASSUME NEW T \in SUBSET Nat, T # {}
  PROVE  \E m \in T : \A k \in T : m <= k
<1> DEFINE R == OpToRel(<, Nat)
<1>1. IsWellFoundedOn(R, Nat)
  BY NatLessThanWellFounded DEF R
<1>2. PICK m \in T : \A k \in T : ~(<<k, m>> \in R)
  <2> HIDE DEF R
  <2> QED BY <1>1, WFMin
<1>3. \A k \in T : ~(k < m)
  BY <1>2 DEF R, OpToRel
<1>4. m \in Nat /\ \A k \in T : k \in Nat /\ m <= k
  BY <1>3
<1> QED BY <1>4

(* One round of insertSyntheticToolResults, from what the rounds before it left. *)
Round(calls, existing, f, n) ==
  IF n = 0 THEN <<>>
  ELSE IF calls[n] \in existing THEN f[n - 1]
  ELSE Append(f[n - 1], SyntheticResult(calls[n]))

(* The rounds are well defined. *)
LEMMA RoundsExist ==
  ASSUME NEW calls \in Seq(CallId), NEW existing
  PROVE  \E f \in [0..Len(calls) -> Seq(Forged)] :
           \A n \in 0..Len(calls) : f[n] = Round(calls, existing, f, n)
<1> DEFINE Done(m) == \E f \in [0..m -> Seq(Forged)] : \A n \in 0..m : f[n] = Round(calls, existing, f, n)
           Bad == {m \in 0..Len(calls) : ~Done(m)}
<1>1. Len(calls) \in Nat
  OBVIOUS
<1>2. Done(0)
  <2> DEFINE f == [n \in 0..0 |-> <<>>]
  <2>1. f \in [0..0 -> Seq(Forged)] /\ \A n \in 0..0 : f[n] = Round(calls, existing, f, n)
    BY DEF Round
  <2> QED BY <2>1
<1>3. ASSUME NEW m \in 1..Len(calls), Done(m - 1) PROVE Done(m)
  <2>1. PICK f \in [0..(m - 1) -> Seq(Forged)] : \A n \in 0..(m - 1) : f[n] = Round(calls, existing, f, n)
    BY <1>3
  <2> DEFINE g == [n \in 0..m |-> IF n = m THEN Round(calls, existing, f, m) ELSE f[n]]
  <2>2. Round(calls, existing, f, m) \in Seq(Forged)
    <3>1. f[m - 1] \in Seq(Forged) /\ m # 0
      BY <1>1
    <3>2. SyntheticResult(calls[m]) \in Forged
      BY <1>1 DEF SyntheticResult, Forged
    <3> QED BY <3>1, <3>2 DEF Round
  <2>3. g \in [0..m -> Seq(Forged)]
    BY <1>1, <2>2
  <2>4. ASSUME NEW n \in 0..m PROVE g[n] = Round(calls, existing, g, n)
    <3>1. n = 0 \/ (n - 1 \in 0..(m - 1) /\ g[n - 1] = f[n - 1])
      BY <1>1
    <3>2. Round(calls, existing, g, n) = Round(calls, existing, f, n)
      BY <3>1 DEF Round
    <3>3. CASE n = m
      BY <3>2, <3>3
    <3>4. CASE n # m
      BY <1>1, <2>1, <3>2, <3>4
    <3> QED BY <3>3, <3>4
  <2> QED BY <2>3, <2>4
<1> HIDE DEF Done
<1>4. Bad = {}
  <2> SUFFICES ASSUME Bad # {} PROVE FALSE
    OBVIOUS
  <2>1. Bad \in SUBSET Nat
    BY <1>1
  <2>2. PICK m \in Bad : \A k \in Bad : m <= k
    BY <2>1, LeastNumber
  <2>3. m \in 0..Len(calls) /\ ~Done(m)
    OBVIOUS
  <2>4. m # 0
    BY <1>2, <2>3
  <2>5. m \in 1..Len(calls) /\ m - 1 \in 0..Len(calls) /\ ~(m <= m - 1)
    BY <1>1, <2>3, <2>4
  <2>6. Done(m - 1)
    BY <2>2, <2>5
  <2> QED BY <1>3, <2>3, <2>5, <2>6
<1>5. Done(Len(calls))
  BY <1>1, <1>4
<1> QED BY <1>5 DEF Done

(* What insertSyntheticToolResults appends: a result for each call that has  *)
(* none, once when the calls differ.                                         *)
LEMMA SyntheticMade ==
  ASSUME NEW calls \in Seq(CallId), NEW existing, IsInjective(calls),
         NEW r, r = synthetic(calls, existing)
  PROVE  /\ r \in Seq(Answer) /\ r \in Seq(Forged)
         /\ \A k \in 1..Len(r) : r[k].role = "toolResult" /\ r[k].id \in Range(calls) \ existing
         /\ \A k, l \in 1..Len(r) : r[k].id = r[l].id => k = l
         /\ \A j \in 1..Len(calls) : calls[j] \notin existing => \E k \in 1..Len(r) : r[k].id = calls[j]
<1> DEFINE U == CHOOSE f : f = [n \in 0..Len(calls) |->
                  IF n = 0 THEN <<>>
                  ELSE IF calls[n] \in existing THEN f[n - 1]
                  ELSE Append(f[n - 1], SyntheticResult(calls[n]))]
           F(f) == [n \in 0..Len(calls) |-> Round(calls, existing, f, n)]
<1>1. Len(calls) \in Nat /\ DOMAIN calls = 1..Len(calls)
  OBVIOUS
<1>2. synthetic(calls, existing) = U[Len(calls)]
  BY DEF synthetic
<1>3. \A f : F(f) = [n \in 0..Len(calls) |->
                  IF n = 0 THEN <<>>
                  ELSE IF calls[n] \in existing THEN f[n - 1]
                  ELSE Append(f[n - 1], SyntheticResult(calls[n]))]
  BY DEF Round
<1>4. U = CHOOSE f : f = F(f)
  BY DEF Round
<1>5. \E f : f = F(f)
  <2>1. PICK f \in [0..Len(calls) -> Seq(Forged)] : \A n \in 0..Len(calls) : f[n] = Round(calls, existing, f, n)
    BY RoundsExist
  <2>2. f = F(f)
    BY <2>1
  <2> QED BY <2>2
<1>6. U = F(U)
  <2> HIDE DEF U, F
  <2> QED BY <1>4, <1>5
<1>7. \A n \in 0..Len(calls) : U[n] = Round(calls, existing, U, n)
  <2> HIDE DEF U
  <2> QED BY <1>6
<1> HIDE DEF U, F
<1> DEFINE Good(n) ==
      /\ U[n] \in Seq(Forged)
      /\ \A k \in 1..Len(U[n]) :
           /\ U[n][k].role = "toolResult"
           /\ \E j \in 1..n : U[n][k].id = calls[j] /\ calls[j] \notin existing
      /\ \A k, l \in 1..Len(U[n]) : U[n][k].id = U[n][l].id => k = l
      /\ \A j \in 1..n : calls[j] \notin existing => \E k \in 1..Len(U[n]) : U[n][k].id = calls[j]
<1>8. Good(0)
  <2>1. U[0] = <<>>
    BY <1>1, <1>7 DEF Round
  <2> QED BY <2>1
<1>9. ASSUME NEW n \in 1..Len(calls), Good(n - 1) PROVE Good(n)
  <2> DEFINE p == U[n - 1]
             x == SyntheticResult(calls[n])
  <2>1. /\ p \in Seq(Forged) /\ Len(p) \in Nat
        /\ \A k \in 1..Len(p) :
             /\ p[k].role = "toolResult"
             /\ \E j \in 1..(n - 1) : p[k].id = calls[j] /\ calls[j] \notin existing
        /\ \A k, l \in 1..Len(p) : p[k].id = p[l].id => k = l
        /\ \A j \in 1..(n - 1) : calls[j] \notin existing => \E k \in 1..Len(p) : p[k].id = calls[j]
    BY <1>9
  <2>2. U[n] = IF calls[n] \in existing THEN p ELSE Append(p, x)
    BY <1>1, <1>7 DEF Round
  <2>3. x \in Forged /\ x.role = "toolResult" /\ x.id = calls[n]
    BY <1>1 DEF SyntheticResult, Forged
  <2>4. n \in Nat /\ \A j \in 1..n : j \in 1..(n - 1) \/ j = n
    BY <1>1
  <2>5. \A j \in 1..(n - 1) : j \in 1..n /\ calls[j] # calls[n]
    BY <1>1 DEF IsInjective
  <2> HIDE DEF p, x, Good
  <2>6. CASE calls[n] \in existing
    <3>1. U[n] = p
      BY <2>2, <2>6
    <3> QED BY <2>1, <2>4, <2>5, <2>6, <3>1 DEF Good
  <2>7. CASE calls[n] \notin existing
    <3> DEFINE q == Append(p, x)
    <3>1. /\ q \in Seq(Forged) /\ Len(q) = Len(p) + 1 /\ q[Len(p) + 1] = x
          /\ \A k \in 1..Len(p) : q[k] = p[k]
      BY <2>1, <2>3
    <3>2. U[n] = q
      BY <2>2, <2>7
    <3> HIDE DEF q
    <3>3. \A k \in 1..Len(q) : k \in 1..Len(p) \/ k = Len(p) + 1
      BY <2>1, <3>1
    <3>4. \A k \in 1..Len(p) : k \in 1..Len(q) /\ q[k] = p[k] /\ q[k].id # calls[n]
      BY <2>1, <2>5, <3>1
    <3>5. Len(p) + 1 \in 1..Len(q)
      BY <2>1, <3>1
    <3>6. ASSUME NEW k \in 1..Len(q)
          PROVE  q[k].role = "toolResult" /\ \E j \in 1..n : q[k].id = calls[j] /\ calls[j] \notin existing
      BY <2>1, <2>3, <2>4, <2>5, <2>7, <3>1, <3>3, <3>4
    <3>7. ASSUME NEW k \in 1..Len(q), NEW l \in 1..Len(q), q[k].id = q[l].id PROVE k = l
      <4>1. k = Len(p) + 1 => q[k].id = calls[n]
        BY <2>3, <3>1
      <4>2. l = Len(p) + 1 => q[l].id = calls[n]
        BY <2>3, <3>1
      <4> QED BY <2>1, <3>3, <3>4, <3>7, <4>1, <4>2
    <3>8. ASSUME NEW j \in 1..n, calls[j] \notin existing PROVE \E k \in 1..Len(q) : q[k].id = calls[j]
      <4>1. CASE j = n
        BY <2>3, <3>1, <3>5, <4>1
      <4>2. CASE j \in 1..(n - 1)
        <5>1. PICK k \in 1..Len(p) : p[k].id = calls[j]
          BY <2>1, <3>8, <4>2
        <5> QED BY <3>4, <5>1
      <4> QED BY <2>4, <4>1, <4>2
    <3> QED BY <3>1, <3>2, <3>6, <3>7, <3>8 DEF Good
  <2> QED BY <2>6, <2>7
<1> HIDE DEF Good
<1>10. Good(Len(calls))
  <2> DEFINE Bad == {m \in 0..Len(calls) : ~Good(m)}
  <2> SUFFICES ASSUME Bad # {} PROVE FALSE
    BY <1>1
  <2>1. Bad \in SUBSET Nat
    BY <1>1
  <2>2. PICK m \in Bad : \A k \in Bad : m <= k
    BY <2>1, LeastNumber
  <2>3. m \in 0..Len(calls) /\ ~Good(m)
    OBVIOUS
  <2>4. m # 0
    BY <1>8, <2>3
  <2>5. m \in 1..Len(calls) /\ m - 1 \in 0..Len(calls) /\ ~(m <= m - 1)
    BY <1>1, <2>3, <2>4
  <2>6. Good(m - 1)
    BY <2>2, <2>5
  <2> QED BY <1>9, <2>3, <2>5, <2>6
<1>11. r = U[Len(calls)]
  BY <1>2
<1>12. \A k \in 1..Len(r) : r[k].role = "toolResult" /\ r[k].id \in Range(calls) \ existing
  <2> SUFFICES ASSUME NEW k \in 1..Len(r) PROVE r[k].role = "toolResult" /\ r[k].id \in Range(calls) \ existing
    OBVIOUS
  <2>1. PICK j \in 1..Len(calls) : r[k].role = "toolResult" /\ r[k].id = calls[j] /\ calls[j] \notin existing
    BY <1>10, <1>11 DEF Good
  <2> QED BY <1>1, <2>1 DEF Range
<1>13. r \in Seq(Forged) /\ Forged \subseteq Answer
  BY <1>10, <1>11 DEF Good, Forged, Answer
<1>14. r \in Seq(Answer)
  BY <1>13
<1> QED BY <1>10, <1>11, <1>12, <1>13, <1>14 DEF Good

(* The same of answers in general. *)
LEMMA SyntheticResults ==
  ASSUME NEW calls \in Seq(CallId), NEW existing, IsInjective(calls),
         NEW r, r = synthetic(calls, existing)
  PROVE  /\ r \in Seq(Answer)
         /\ \A k \in 1..Len(r) : r[k].role = "toolResult" /\ r[k].id \in Range(calls) \ existing
         /\ \A k, l \in 1..Len(r) : r[k].id = r[l].id => k = l
         /\ \A j \in 1..Len(calls) : calls[j] \notin existing => \E k \in 1..Len(r) : r[k].id = calls[j]
BY SyntheticMade

--------------------------------------------------------------------------------
(* Calls and their ids *)

(* A sequence without repetition is as long as it has elements. *)
LEMMA InjectiveCount ==
  ASSUME NEW C, NEW s \in Seq(C), IsInjective(s)
  PROVE  Cardinality(Range(s)) = Len(s)
<1>1. Len(s) \in Nat /\ DOMAIN s = 1..Len(s) /\ s \in [1..Len(s) -> C]
  OBVIOUS
<1>2. s \in [1..Len(s) -> Range(s)] /\ \A y \in Range(s) : \E x \in 1..Len(s) : s[x] = y
  BY <1>1 DEF Range
<1>3. s \in Bijection(1..Len(s), Range(s))
  BY <1>1, <1>2 DEF Bijection, Injection, Surjection
<1>4. ExistsBijection(1..Len(s), Range(s))
  BY <1>3 DEF ExistsBijection
<1> QED BY <1>1, <1>4, FS_CountingElements

(* The messages of a transcript. *)
LEMMA Messages ==
  ASSUME NEW m \in Message
  PROVE  /\ m \in User \cup ToolResult \cup Assistant
         /\ m.role \in {"user", "toolResult", "assistant"}
         /\ m.role = "user" => m \in User
         /\ m.role = "toolResult" => m \in ToolResult /\ m.id \in CallId
         /\ m.role = "assistant" =>
              /\ m \in Assistant /\ m.calls \in Seq(CallId)
              /\ Cardinality({Normalize[c] : c \in Range(m.calls)}) = Len(m.calls)
              /\ m.same => \A c \in Range(m.calls) : Normalize[c] = c
<1>1. m \in User => m.role = "user"
  BY DEF User
<1>2. m \in ToolResult => m.role = "toolResult" /\ m.id \in CallId
  BY DEF ToolResult
<1>3. m \in Assistant => m.role = "assistant" /\ m.calls \in Seq(CallId)
  BY DEF Assistant
<1>4. \/ m \in User \union ToolResult
      \/ /\ m \in Assistant
         /\ Cardinality({Normalize[c] : c \in Range(m.calls)}) = Len(m.calls)
         /\ m.same => \A c \in Range(m.calls) : Normalize[c] = c
  BY MessageAssumption
<1> QED BY <1>1, <1>2, <1>3, <1>4

(* The calls of a message differ, also in the form the target gets them.     *)
LEMMA CallsDiffer ==
  ASSUME NEW m \in Message, m.role = "assistant"
  PROVE  /\ transformedCalls(m) \in Seq(CallId) /\ Len(transformedCalls(m)) = Len(m.calls)
         /\ Len(m.calls) \in Nat /\ DOMAIN m.calls = 1..Len(m.calls)
         /\ \A j \in 1..Len(m.calls) :
              transformedCalls(m)[j] = IF m.same THEN m.calls[j] ELSE Normalize[m.calls[j]]
         /\ IsInjective(m.calls) /\ IsInjective(transformedCalls(m))
<1> DEFINE s == m.calls
           N == {Normalize[c] : c \in Range(s)}
           f == [k \in 1..Len(s) |-> Normalize[s[k]]]
<1>1. s \in Seq(CallId) /\ Cardinality(N) = Len(s) /\ (m.same => \A c \in Range(s) : Normalize[c] = c)
  BY Messages
<1> HIDE DEF s
<1>2. Len(s) \in Nat /\ DOMAIN s = 1..Len(s) /\ \A k \in 1..Len(s) : s[k] \in CallId /\ s[k] \in Range(s)
  BY <1>1 DEF Range
<1>3. f \in Surjection(1..Len(s), N)
  <2>1. \A k \in 1..Len(s) : f[k] \in N
    BY <1>2
  <2>2. \A y \in N : \E x \in 1..Len(s) : f[x] = y
    BY <1>2 DEF Range
  <2> QED BY <2>1, <2>2 DEF Surjection
<1>4. IsFiniteSet(1..Len(s)) /\ Cardinality(1..Len(s)) = Len(s)
  BY <1>2, FS_Interval
<1>5. f \in Injection(1..Len(s), N)
  <2> HIDE DEF f, N
  <2> QED BY <1>1, <1>3, <1>4, FS_SurjSameCardinalityImpliesInj
<1>6. \A j, k \in 1..Len(s) : Normalize[s[j]] = Normalize[s[k]] => j = k
  BY <1>5 DEF Injection, IsInjective
<1>7. IsInjective(s)
  BY <1>2, <1>6 DEF IsInjective
<1>8. \A c \in CallId : Normalize[c] \in CallId
  BY TargetAssumption
<1>9. [k \in DOMAIN s |-> Normalize[s[k]]] \in Seq(CallId)
  BY <1>1, <1>2, <1>8
<1>10. [k \in DOMAIN s |-> Normalize[s[k]]] = f
  BY <1>2
<1>11. f \in Seq(CallId) /\ Len(f) = Len(s) /\ DOMAIN f = 1..Len(s) /\ IsInjective(f)
  <2>1. DOMAIN f = 1..Len(s)
    OBVIOUS
  <2>2. f \in Seq(CallId) /\ Len(f) = Len(s)
    BY <1>2, <1>9, <1>10
  <2> QED BY <1>5, <2>1, <2>2 DEF Injection
<1>12. transformedCalls(m) = IF m.same THEN s ELSE f
  BY <1>10 DEF transformedCalls, s
<1>13. \A j \in 1..Len(s) : transformedCalls(m)[j] = IF m.same THEN s[j] ELSE Normalize[s[j]]
  BY <1>12
<1> HIDE DEF f
<1>14. transformedCalls(m) \in Seq(CallId) /\ Len(transformedCalls(m)) = Len(s) /\ IsInjective(transformedCalls(m))
  BY <1>1, <1>7, <1>11, <1>12
<1> QED BY <1>2, <1>7, <1>13, <1>14 DEF s

(* What the first pass makes of an assistant message and of a result.        *)
LEMMA FirstPass ==
  ASSUME TypesInv, NEW m \in Message
  PROVE  /\ m.role = "assistant" =>
              /\ transformAssistant(m) \in Transformed
              /\ transformAssistant(m).role = "assistant" /\ transformAssistant(m).calls = transformedCalls(m)
         /\ m.role = "toolResult" =>
              /\ transformResult(m) \in Transformed
              /\ transformResult(m).role = "toolResult" /\ transformResult(m).id = toolCallIdMap[m.id]
         /\ m.role = "user" => m \in Transformed
<1>1. ASSUME m.role = "assistant"
      PROVE  /\ transformAssistant(m) \in Transformed
             /\ transformAssistant(m).role = "assistant" /\ transformAssistant(m).calls = transformedCalls(m)
  <2>1. m \in Assistant /\ transformedCalls(m) \in Seq(CallId)
    BY <1>1, Messages, CallsDiffer
  <2>2. transformedBody(m) \in Body
    BY <2>1 DEF Assistant, transformedBody, Body
  <2>3. transformAssistant(m) \in Assistant /\ transformAssistant(m).role = "assistant"
        /\ transformAssistant(m).calls = transformedCalls(m)
    BY <2>1, <2>2 DEF transformAssistant, Assistant
  <2> QED BY <2>3 DEF Transformed
<1>2. ASSUME m.role = "toolResult"
      PROVE  /\ transformResult(m) \in Transformed
             /\ transformResult(m).role = "toolResult" /\ transformResult(m).id = toolCallIdMap[m.id]
  <2>1. m \in ToolResult /\ toolCallIdMap[m.id] \in CallId
    BY <1>2, Messages DEF TypesInv
  <2>2. target.vision \in BOOLEAN
    BY TargetAssumption DEF TypesInv
  <2>3. transformResult(m) \in Answer /\ transformResult(m).role = "toolResult"
        /\ transformResult(m).id = toolCallIdMap[m.id]
    BY <2>1, <2>2 DEF transformResult, ToolResult, Answer
  <2> QED BY <2>3 DEF Transformed
<1>3. m.role = "user" => m \in Transformed
  BY Messages DEF Transformed
<1> QED BY <1>1, <1>2, <1>3

(* After a message is taken its calls are known under the ids they are sent with. *)
LEMMA IdsLearned ==
  ASSUME TypesInv, NEW m \in Message, m.role = "assistant"
  PROVE  /\ learnedIds(m) \in [CallId -> CallId]
         /\ \A c \in CallId : learnedIds(m)[c] \in {c, Normalize[c]}
         /\ \A j \in 1..Len(m.calls) : learnedIds(m)[m.calls[j]] = transformedCalls(m)[j]
<1>1. /\ m.calls \in Seq(CallId) /\ Len(m.calls) \in Nat /\ DOMAIN m.calls = 1..Len(m.calls)
      /\ m.same => \A c \in Range(m.calls) : Normalize[c] = c
      /\ \A j \in 1..Len(m.calls) :
           transformedCalls(m)[j] = IF m.same THEN m.calls[j] ELSE Normalize[m.calls[j]]
  BY Messages, CallsDiffer
<1>2. \A c \in CallId : Normalize[c] \in CallId
  BY TargetAssumption
<1>3. \A c \in CallId : toolCallIdMap[c] \in {c, Normalize[c]}
  BY DEF TypesInv
<1>4. \A c \in CallId : learnedIds(m)[c] = IF ~m.same /\ c \in Range(m.calls) THEN Normalize[c] ELSE toolCallIdMap[c]
  BY DEF learnedIds
<1>5. \A c \in CallId : learnedIds(m)[c] \in {c, Normalize[c]}
  BY <1>3, <1>4
<1>6. learnedIds(m) \in [CallId -> CallId]
  BY <1>2, <1>3 DEF learnedIds
<1>7. ASSUME NEW j \in 1..Len(m.calls) PROVE learnedIds(m)[m.calls[j]] = transformedCalls(m)[j]
  <2>1. m.calls[j] \in CallId /\ m.calls[j] \in Range(m.calls)
    BY <1>1 DEF Range
  <2> QED BY <1>1, <1>3, <1>4, <2>1
<1> QED BY <1>5, <1>6, <1>7

(* The message a result belongs to. *)
LEMMA OwnerFound ==
  ASSUME TypesInv, NEW w, IsOwner(w)
  PROVE  Owner(input, Len(input)) = w
<1> DEFINE heads == {k \in 1..Len(input) : input[k].role # "toolResult"}
<1>1. Len(input) \in Nat
  BY DEF TypesInv
<1>2. w \in heads /\ \A k \in heads : k \in Int /\ w >= k
  BY <1>1 DEF IsOwner
<1>3. \A x \in heads : (\A k \in heads : x >= k) => x = w
  BY <1>2
<1>4. Max(heads) = w
  <2> HIDE DEF heads
  <2> QED BY <1>2, <1>3 DEF Max
<1>5. heads # {}
  BY <1>2
<1> QED BY <1>4, <1>5 DEF Owner

--------------------------------------------------------------------------------
(* Answered calls in a growing sequence *)

(* Calls that are answered stay so, unless results that are not theirs are   *)
(* put right behind.                                                         *)
LEMMA ClosedStays ==
  ASSUME NEW T, NEW s \in Seq(T), NEW t \in Seq(T), NEW tool, NEW k \in 1..Len(s),
         s[k].calls \in Seq(CallId),
         Len(s) <= Len(t), \A j \in 1..Len(s) : t[j] = s[j],
         Closed(s, tool, k),
         \/ Len(t) = Len(s)
         \/ t[Len(s) + 1].role # tool
         \/ \E o \in (k + 1)..Len(s) : s[o].role # tool
  PROVE  Closed(t, tool, k)
<1> DEFINE n == Len(s[k].calls)
<1>1. n \in Nat /\ Len(s) \in Nat /\ Len(t) \in Nat /\ k \in Nat /\ t[k] = s[k]
  OBVIOUS
<1>2. /\ k + n <= Len(s) /\ Answering(s, tool, k, n, s[k].calls)
      /\ k + n < Len(s) => s[k + n + 1].role # tool
  BY DEF Closed
<1> HIDE DEF n
<1>3. \A d \in 1..n : k + d \in 1..Len(s) /\ t[k + d] = s[k + d]
  BY <1>1, <1>2
<1>4. Answering(t, tool, k, n, t[k].calls)
  BY <1>1, <1>2, <1>3 DEF Answering
<1>5. k + n < Len(t) => t[k + n + 1].role # tool
  <2> SUFFICES ASSUME k + n < Len(t) PROVE t[k + n + 1].role # tool
    OBVIOUS
  <2>1. CASE k + n < Len(s)
    <3>1. k + n + 1 \in 1..Len(s)
      BY <1>1, <2>1
    <3> QED BY <1>2, <2>1, <3>1
  <2>2. CASE k + n = Len(s)
    <3>1. \A o \in (k + 1)..Len(s) : s[o].role = tool
      <4> SUFFICES ASSUME NEW o \in (k + 1)..Len(s) PROVE s[o].role = tool
        OBVIOUS
      <4>1. o - k \in 1..n /\ k + (o - k) = o
        BY <1>1, <2>2
      <4> QED BY <1>2, <4>1 DEF Answering
    <3>2. Len(t) # Len(s)
      BY <1>1, <2>2
    <3>3. t[Len(s) + 1].role # tool
      BY <3>1, <3>2
    <3> QED BY <2>2, <3>3
  <2> QED BY <1>1, <1>2, <2>1, <2>2
<1> QED BY <1>1, <1>2, <1>4, <1>5 DEF Closed, n

(* A sequence of messages whose calls can be told. *)
HasCalls(s) == \A k \in 1..Len(s) : s[k].role = "assistant" => s[k].calls \in Seq(CallId)

(* What can be appended when all calls are answered: messages that are not   *)
(* results, of which only the last one may make calls.                       *)
LEMMA Appending ==
  ASSUME NEW T, NEW s \in Seq(T), NEW q \in Seq(T), NEW tool \in {"tool", "toolResult"},
         HasCalls(s), HasCalls(q),
         Behind(s, tool), ClosedBefore(s, tool, Len(s) + 1),
         \A j \in 1..Len(q) : q[j].role # tool,
         \A j \in 1..Len(q) : j < Len(q) /\ q[j].role = "assistant" => q[j].calls = <<>>
  PROVE  LET t == s \o q
         IN /\ t \in Seq(T) /\ HasCalls(t) /\ Behind(t, tool)
            /\ Len(t) = Len(s) + Len(q) /\ (q # <<>> => t[Len(t)] = q[Len(q)])
            /\ \A j \in 1..Len(s) : t[j] = s[j]
            /\ ClosedBefore(t, tool, Len(t))
            /\ (q # <<>> /\ q[Len(q)].role = "assistant" /\ q[Len(q)].calls # <<>>)
               \/ ClosedBefore(t, tool, Len(t) + 1)
<1> DEFINE t == s \o q
<1>1. /\ Len(s) \in Nat /\ Len(q) \in Nat /\ t \in Seq(T) /\ Len(t) = Len(s) + Len(q)
      /\ \A j \in 1..Len(s) : t[j] = s[j]
      /\ \A j \in 1..Len(q) : t[Len(s) + j] = q[j]
  OBVIOUS
<1> HIDE DEF t
<1>2. \A j \in 1..Len(t) : j \in 1..Len(s) \/ (j - Len(s) \in 1..Len(q) /\ t[j] = q[j - Len(s)])
  <2> SUFFICES ASSUME NEW j \in 1..Len(t), j \notin 1..Len(s)
               PROVE  j - Len(s) \in 1..Len(q) /\ t[j] = q[j - Len(s)]
    OBVIOUS
  <2>1. j - Len(s) \in 1..Len(q) /\ Len(s) + (j - Len(s)) = j
    BY <1>1
  <2> QED BY <1>1, <2>1
<1>3. HasCalls(t)
  BY <1>1, <1>2 DEF HasCalls
<1>4. Behind(t, tool)
  <2> SUFFICES ASSUME NEW j \in 1..Len(t), t[j].role = tool
               PROVE  j > 1 /\ t[j - 1].role \in {tool, "assistant"}
    BY DEF Behind
  <2>1. j \in 1..Len(s) /\ s[j].role = tool
    BY <1>1, <1>2
  <2>2. j > 1 /\ s[j - 1].role \in {tool, "assistant"}
    BY <2>1 DEF Behind
  <2>3. j - 1 \in 1..Len(s)
    BY <1>1, <2>1, <2>2
  <2> QED BY <1>1, <2>2, <2>3
<1>5. Len(t) = Len(s) \/ t[Len(s) + 1].role # tool
  <2>1. CASE Len(q) = 0
    BY <1>1, <2>1
  <2>2. CASE Len(q) # 0
    <3>1. 1 \in 1..Len(q)
      BY <1>1, <2>2
    <3> QED BY <1>1, <3>1
  <2> QED BY <2>1, <2>2
<1>6. ASSUME NEW k \in 1..Len(s), t[k].role = "assistant" PROVE Closed(t, tool, k)
  <2>1. s[k].role = "assistant" /\ s[k].calls \in Seq(CallId)
    BY <1>1, <1>6 DEF HasCalls
  <2>2. k < Len(s) + 1 /\ Len(s) <= Len(t)
    BY <1>1
  <2>3. Closed(s, tool, k)
    BY <2>1, <2>2 DEF ClosedBefore
  <2> QED BY <1>1, <1>5, <2>1, <2>2, <2>3, ClosedStays
<1>7. ASSUME NEW k \in 1..Len(t), t[k].role = "assistant", t[k].calls = <<>>, k > Len(s)
      PROVE  Closed(t, tool, k)
  <2>1. Len(t[k].calls) = 0
    BY <1>7
  <2>2. k < Len(t) => t[k + 1].role # tool
    <3> SUFFICES ASSUME k < Len(t) PROVE t[k + 1].role # tool
      OBVIOUS
    <3>1. k + 1 \in 1..Len(t) /\ k + 1 \notin 1..Len(s)
      BY <1>1, <1>7
    <3>2. k + 1 - Len(s) \in 1..Len(q) /\ t[k + 1] = q[k + 1 - Len(s)]
      BY <1>2, <3>1
    <3> QED BY <3>2
  <2>3. k + 0 = k /\ k + 0 <= Len(t) /\ k + 0 + 1 = k + 1
    BY <1>1
  <2>4. Answering(t, tool, k, 0, t[k].calls)
    BY DEF Answering
  <2> QED BY <2>1, <2>2, <2>3, <2>4 DEF Closed
<1>8. ClosedBefore(t, tool, Len(t))
  <2> SUFFICES ASSUME NEW k \in 1..Len(t), k < Len(t), t[k].role = "assistant" PROVE Closed(t, tool, k)
    BY DEF ClosedBefore
  <2>1. CASE k \in 1..Len(s)
    BY <1>6, <2>1
  <2>2. CASE k \notin 1..Len(s)
    <3>1. k - Len(s) \in 1..Len(q) /\ k - Len(s) < Len(q) /\ t[k] = q[k - Len(s)] /\ k > Len(s)
      BY <1>1, <1>2, <2>2
    <3> QED BY <1>7, <3>1
  <2> QED BY <2>1, <2>2
<1>9. q # <<>> => t[Len(t)] = q[Len(q)]
  <2> SUFFICES ASSUME q # <<>> PROVE t[Len(t)] = q[Len(q)]
    OBVIOUS
  <2>1. Len(q) \in 1..Len(q)
    BY <1>1
  <2> QED BY <1>1, <2>1
<1>10. ASSUME ~(q # <<>> /\ q[Len(q)].role = "assistant" /\ q[Len(q)].calls # <<>>)
       PROVE  ClosedBefore(t, tool, Len(t) + 1)
  <2> SUFFICES ASSUME NEW k \in 1..Len(t), k < Len(t) + 1, t[k].role = "assistant" PROVE Closed(t, tool, k)
    BY DEF ClosedBefore
  <2>1. CASE k < Len(t)
    BY <1>8, <2>1 DEF ClosedBefore
  <2>2. CASE k = Len(t) /\ q = <<>>
    <3>1. k \in 1..Len(s)
      BY <1>1, <2>2
    <3> QED BY <1>6, <3>1
  <2>3. CASE k = Len(t) /\ q # <<>>
    <3>1. t[k] = q[Len(q)] /\ t[k].calls = <<>> /\ k > Len(s)
      BY <1>1, <1>9, <1>10, <2>3
    <3> QED BY <1>7, <3>1
  <2> QED BY <1>1, <2>1, <2>2, <2>3
<1> QED BY <1>1, <1>3, <1>4, <1>8, <1>9, <1>10 DEF t

(* The answers of the last message are put behind it, all of them.           *)
LEMMA Answered ==
  ASSUME NEW T, NEW s \in Seq(T), NEW t \in Seq(T), NEW tool \in {"tool", "toolResult"}, NEW o \in 1..Len(s),
         HasCalls(s), Behind(s, tool),
         s[o].role = "assistant", ClosedBefore(s, tool, o),
         Len(s) <= Len(t), \A j \in 1..Len(s) : t[j] = s[j],
         Len(t) = o + Len(s[o].calls), Answering(t, tool, o, Len(s[o].calls), s[o].calls)
  PROVE  HasCalls(t) /\ Behind(t, tool) /\ ClosedBefore(t, tool, Len(t) + 1)
<1> DEFINE n == Len(s[o].calls)
<1>1. /\ Len(s) \in Nat /\ Len(t) \in Nat /\ o \in Nat /\ s[o].calls \in Seq(CallId) /\ n \in Nat
      /\ t[o] = s[o]
  BY DEF HasCalls
<1>2. Len(t) = o + n /\ Answering(t, tool, o, n, s[o].calls)
  OBVIOUS
<1> HIDE DEF n
<1>3. \A k \in (o + 1)..Len(t) : t[k].role = tool
  <2> SUFFICES ASSUME NEW k \in (o + 1)..Len(t) PROVE t[k].role = tool
    OBVIOUS
  <2>1. k - o \in 1..n /\ o + (k - o) = k
    BY <1>1, <1>2
  <2> QED BY <1>2, <2>1 DEF Answering
<1>4. \A k \in 1..Len(t) : k \in 1..o \/ k \in (o + 1)..Len(t)
  BY <1>1
<1>5. \A k \in 1..o : k \in 1..Len(s) /\ t[k] = s[k]
  BY <1>1
<1>6. HasCalls(t)
  <2> SUFFICES ASSUME NEW k \in 1..Len(t), t[k].role = "assistant" PROVE t[k].calls \in Seq(CallId)
    BY DEF HasCalls
  <2>1. k \in 1..o
    BY <1>3, <1>4
  <2> QED BY <1>5, <2>1 DEF HasCalls
<1>7. Behind(t, tool)
  <2> SUFFICES ASSUME NEW k \in 1..Len(t), t[k].role = tool
               PROVE  k > 1 /\ t[k - 1].role \in {tool, "assistant"}
    BY DEF Behind
  <2>1. CASE k \in 1..o
    <3>1. k > 1 /\ s[k - 1].role \in {tool, "assistant"}
      BY <1>5, <2>1 DEF Behind
    <3>2. k - 1 \in 1..o
      BY <1>1, <2>1, <3>1
    <3> QED BY <1>5, <3>1, <3>2
  <2>2. CASE k \in (o + 1)..Len(t)
    <3>1. k > 1 /\ (k - 1 = o \/ k - 1 \in (o + 1)..Len(t))
      BY <1>1, <2>2, SMTT(20)
    <3> QED BY <1>1, <1>3, <3>1
  <2> QED BY <1>4, <2>1, <2>2
<1>8. ASSUME NEW k \in 1..Len(t), t[k].role = "assistant" PROVE Closed(t, tool, k)
  <2>1. k \in 1..o /\ k \in 1..Len(s) /\ s[k].role = "assistant"
    BY <1>3, <1>4, <1>5, <1>8
  <2>2. CASE k = o
    <3>1. k + n <= Len(t) /\ ~(k + n < Len(t)) /\ n = Len(t[k].calls) /\ Answering(t, tool, k, n, t[k].calls)
      BY <1>1, <1>2, <2>2 DEF n
    <3> QED BY <3>1 DEF Closed
  <2>3. CASE k # o
    <3>1. k < o /\ o \in (k + 1)..Len(s) /\ s[o].role # tool
      BY <1>1, <2>1, <2>3
    <3>2. Closed(s, tool, k)
      BY <2>1, <3>1 DEF ClosedBefore
    <3>3. s[k].calls \in Seq(CallId)
      BY <2>1 DEF HasCalls
    <3> QED BY <2>1, <3>1, <3>2, <3>3, ClosedStays
  <2> QED BY <2>2, <2>3
<1>9. ClosedBefore(t, tool, Len(t) + 1)
  BY <1>8 DEF ClosedBefore
<1> QED BY <1>6, <1>7, <1>9

(* The results that are there and the synthetic ones answer all the calls.   *)
LEMMA Completed ==
  ASSUME NEW calls \in Seq(CallId), IsInjective(calls), NEW s \in Seq(Transformed), NEW o \in 1..Len(s),
         Answering(s, "toolResult", o, Len(s) - o, calls),
         NEW existing, existing = {s[k].id : k \in (o + 1)..Len(s)}
  PROVE  LET t == s \o synthetic(calls, existing)
         IN /\ t \in Seq(Transformed) /\ Len(s) <= Len(t) /\ \A j \in 1..Len(s) : t[j] = s[j]
            /\ Len(t) = o + Len(calls) /\ Answering(t, "toolResult", o, Len(calls), calls)
<1> DEFINE r == synthetic(calls, existing)
<1>1. /\ r \in Seq(Answer)
      /\ \A k \in 1..Len(r) : r[k].role = "toolResult" /\ r[k].id \in Range(calls) \ existing
      /\ \A k, l \in 1..Len(r) : r[k].id = r[l].id => k = l
      /\ \A j \in 1..Len(calls) : calls[j] \notin existing => \E k \in 1..Len(r) : r[k].id = calls[j]
  <2>1. r = synthetic(calls, existing)
    OBVIOUS
  <2> HIDE DEF r
  <2>2. calls \in Seq(CallId) /\ IsInjective(calls)
    OBVIOUS
  <2> QED BY ONLY <2>1, <2>2, SyntheticResults
<1> HIDE DEF r
<1> DEFINE t == s \o r
           M == Len(t) - o
           g == [d \in 1..M |-> t[o + d].id]
<1>2. r \in Seq(Transformed)
  <2>1. Answer \subseteq Transformed
    BY DEF Transformed
  <2> QED BY <1>1, <2>1
<1>3. /\ Len(s) \in Nat /\ Len(r) \in Nat /\ t \in Seq(Transformed) /\ Len(t) = Len(s) + Len(r)
      /\ \A j \in 1..Len(s) : t[j] = s[j]
      /\ \A j \in 1..Len(r) : t[Len(s) + j] = r[j]
      /\ Len(calls) \in Nat /\ DOMAIN calls = 1..Len(calls) /\ \A j \in 1..Len(calls) : calls[j] \in CallId
  BY <1>2
<1> HIDE DEF t
<1>4. M \in Nat /\ o \in Nat
  BY <1>3
<1> HIDE DEF M
<1>5. \A d \in 1..M : d <= Len(s) - o =>
        d \in 1..(Len(s) - o) /\ t[o + d] = s[o + d] /\ t[o + d].id \in existing
  <2> SUFFICES ASSUME NEW d \in 1..M, d <= Len(s) - o
               PROVE  d \in 1..(Len(s) - o) /\ t[o + d] = s[o + d] /\ t[o + d].id \in existing
    OBVIOUS
  <2>1. d \in 1..(Len(s) - o) /\ o + d \in (o + 1)..Len(s) /\ o + d \in 1..Len(s)
    BY <1>3, <1>4
  <2> QED BY <1>3, <2>1
<1>6. \A d \in 1..M : ~(d <= Len(s) - o) =>
        o + d - Len(s) \in 1..Len(r) /\ t[o + d] = r[o + d - Len(s)] /\ t[o + d].id \notin existing
  <2> SUFFICES ASSUME NEW d \in 1..M, ~(d <= Len(s) - o)
               PROVE  o + d - Len(s) \in 1..Len(r) /\ t[o + d] = r[o + d - Len(s)] /\ t[o + d].id \notin existing
    OBVIOUS
  <2>1. o + d - Len(s) \in 1..Len(r) /\ Len(s) + (o + d - Len(s)) = o + d
    BY <1>3, <1>4 DEF M
  <2>2. t[o + d] = r[o + d - Len(s)]
    BY <1>3, <2>1
  <2> QED BY <1>1, <2>1, <2>2
<1>7. \A d \in 1..M : t[o + d].role = "toolResult" /\ t[o + d].id \in Range(calls)
  <2> SUFFICES ASSUME NEW d \in 1..M PROVE t[o + d].role = "toolResult" /\ t[o + d].id \in Range(calls)
    OBVIOUS
  <2>1. CASE d <= Len(s) - o
    BY <1>5, <2>1 DEF Answering
  <2>2. CASE ~(d <= Len(s) - o)
    <3> DEFINE k == o + d - Len(s)
    <3>1. k \in 1..Len(r) /\ t[o + d] = r[k]
      BY <1>6, <2>2
    <3> HIDE DEF k
    <3> QED BY <1>1, <3>1
  <2> QED BY <2>1, <2>2
<1>8. ASSUME NEW d \in 1..M, NEW e \in 1..M, t[o + d].id = t[o + e].id PROVE d = e
  <2>1. CASE d <= Len(s) - o /\ e <= Len(s) - o
    BY <1>5, <1>8, <2>1 DEF Answering
  <2>2. CASE ~(d <= Len(s) - o <=> e <= Len(s) - o)
    BY <1>5, <1>6, <1>8, <2>2
  <2>3. CASE ~(d <= Len(s) - o) /\ ~(e <= Len(s) - o)
    <3> DEFINE k == o + d - Len(s)
               l == o + e - Len(s)
    <3>1. k \in 1..Len(r) /\ l \in 1..Len(r) /\ t[o + d] = r[k] /\ t[o + e] = r[l]
      BY <1>6, <2>3
    <3>2. k = l
      <4> HIDE DEF k, l
      <4> QED BY <1>1, <1>8, <3>1
    <3> QED BY <1>3, <1>4, <3>2
  <2> QED BY <2>1, <2>2, <2>3
<1>9. \A x \in Range(calls) : x \in CallId
  BY <1>3 DEF Range
<1>10. g \in Seq(CallId) /\ Len(g) = M /\ DOMAIN g = 1..M
  <2>1. \A d \in 1..M : t[o + d].id \in CallId
    BY <1>7, <1>9
  <2>2. g \in [1..M -> CallId]
    BY <2>1
  <2> HIDE DEF g
  <2> QED BY <1>4, <2>2
<1>11. IsInjective(g)
  BY <1>8, <1>10 DEF IsInjective
<1>12. ASSUME NEW j \in 1..Len(calls) PROVE \E d \in 1..M : t[o + d].id = calls[j]
  <2>1. CASE calls[j] \in existing
    <3>1. PICK k \in (o + 1)..Len(s) : s[k].id = calls[j]
      BY <2>1
    <3>2. k - o \in 1..M /\ o + (k - o) = k /\ k \in 1..Len(s)
      BY <1>3, <1>4 DEF M
    <3> QED BY <1>3, <3>1, <3>2
  <2>2. CASE calls[j] \notin existing
    <3>1. PICK k \in 1..Len(r) : r[k].id = calls[j]
      BY <1>1, <2>2
    <3>2. Len(s) + k - o \in 1..M /\ o + (Len(s) + k - o) = Len(s) + k
      BY <1>3, <1>4 DEF M
    <3> QED BY <1>3, <3>1, <3>2
  <2> QED BY <2>1, <2>2
<1>13. Range(g) = Range(calls)
  <2>1. \A x \in Range(g) : x \in Range(calls)
    BY <1>7, <1>10 DEF Range
  <2>2. ASSUME NEW x \in Range(calls) PROVE x \in Range(g)
    <3>1. PICK j \in 1..Len(calls) : x = calls[j]
      BY <1>3 DEF Range
    <3>2. PICK d \in 1..M : t[o + d].id = calls[j]
      BY <1>12
    <3> QED BY <1>10, <3>1, <3>2 DEF Range
  <2> QED BY <2>1, <2>2
<1>14. M = Len(calls)
  <2> HIDE DEF g
  <2>1. Cardinality(Range(g)) = M
    BY <1>10, <1>11, InjectiveCount
  <2>2. Cardinality(Range(calls)) = Len(calls)
    BY InjectiveCount
  <2> QED BY <1>13, <2>1, <2>2
<1>15. Answering(t, "toolResult", o, Len(calls), calls)
  BY <1>7, <1>8, <1>14 DEF Answering
<1>16. Len(t) = o + Len(calls) /\ Len(s) <= Len(t)
  BY <1>3, <1>4, <1>14 DEF M
<1> QED BY <1>3, <1>15, <1>16 DEF t, r

--------------------------------------------------------------------------------
(* The transformation *)

(* The calls of a message that is kept have a form the target can tell apart.*)
LEMMA TransformedHaveCalls ==
  ASSUME NEW s \in Seq(Transformed)
  PROVE  HasCalls(s)
<1>1. \A x \in Transformed : x.role = "assistant" => x.calls \in Seq(CallId)
  BY DEF Transformed, User, Answer, Assistant
<1> QED BY <1>1 DEF HasCalls

(* Whenever a turn ends, insertSyntheticToolResults leaves no call open.     *)
LEMMA Flushed ==
  ASSUME TypesInv, Behind(result, "toolResult"), TransformInv, phase = "transform"
  PROVE  LET t == result \o syntheticToolResults
         IN /\ t \in Seq(Transformed) /\ Len(result) <= Len(t)
            /\ Behind(t, "toolResult") /\ ClosedBefore(t, "toolResult", Len(t) + 1)
<1>1. result \in Seq(Transformed) /\ pendingToolCalls \in Seq(CallId) /\ Len(result) \in Nat
  BY DEF TypesInv
<1>2. CASE pendingToolCalls = <<>> /\ AllClosed
  <2>1. Len(pendingToolCalls) = 0 /\ IsInjective(pendingToolCalls)
    BY <1>2 DEF IsInjective
  <2> DEFINE r == syntheticToolResults
  <2>2. r \in Seq(Answer) /\ \A k \in 1..Len(r) : r[k].id \in Range(pendingToolCalls)
    <3>1. r = synthetic(pendingToolCalls, existingToolResultIds)
      BY DEF syntheticToolResults
    <3> HIDE DEF r
    <3> QED BY <1>1, <2>1, <3>1, SyntheticResults
  <2> HIDE DEF r
  <2>3. Range(pendingToolCalls) = {}
    BY <1>2 DEF Range
  <2>4. r = <<>>
    BY <2>2, <2>3
  <2>5. result \o r = result
    BY <1>1, <2>4
  <2> QED BY <1>1, <1>2, <2>5 DEF AllClosed, r
<1>3. ASSUME NEW w \in 1..Len(input), IsOwner(w), NEW o \in 1..Len(result), Waiting(w, o)
      PROVE  LET t == result \o syntheticToolResults
             IN /\ t \in Seq(Transformed) /\ Len(result) <= Len(t)
                /\ Behind(t, "toolResult") /\ ClosedBefore(t, "toolResult", Len(t) + 1)
  <2> DEFINE t == result \o syntheticToolResults
  <2>1. input[w] \in Message /\ input[w].role = "assistant"
    BY <1>3 DEF TypesInv, Waiting, Calling
  <2>2. IsInjective(pendingToolCalls)
    BY <1>3, <2>1, CallsDiffer DEF Waiting
  <2>3. /\ result[o].role = "assistant" /\ result[o].calls = pendingToolCalls
        /\ ClosedBefore(result, "toolResult", o)
        /\ Answering(result, "toolResult", o, Len(result) - o, pendingToolCalls)
        /\ existingToolResultIds = {result[k].id : k \in (o + 1)..Len(result)}
    BY <1>3 DEF Waiting
  <2>4. /\ t \in Seq(Transformed) /\ Len(result) <= Len(t) /\ \A j \in 1..Len(result) : t[j] = result[j]
        /\ Len(t) = o + Len(pendingToolCalls)
        /\ Answering(t, "toolResult", o, Len(pendingToolCalls), pendingToolCalls)
    BY <1>1, <2>2, <2>3, Completed, SMTT(20) DEF syntheticToolResults
  <2> HIDE DEF t
  <2>5. Behind(t, "toolResult") /\ ClosedBefore(t, "toolResult", Len(t) + 1)
    BY <1>1, <2>3, <2>4, Answered, TransformedHaveCalls
  <2> QED BY <2>4, <2>5 DEF t
<1> QED BY <1>2, <1>3 DEF TransformInv

(* An interval, and one number more. *)
LEMMA IntervalGrows ==
  ASSUME NEW a \in Nat, NEW b \in Nat, a <= b
  PROVE  \A k : k \in (a + 1)..(b + 1) <=> k \in (a + 1)..b \/ k = b + 1
OBVIOUS

(* The transcript grows by a message. *)
LEMMA InputGrows ==
  ASSUME TypesInv, NEW m \in Message, input' = Append(input, m)
  PROVE  /\ input' \in Seq(Message) /\ Len(input) \in Nat /\ Len(input') = Len(input) + 1
         /\ input'[Len(input) + 1] = m /\ \A k \in 1..Len(input) : input'[k] = input[k]
BY DEF TypesInv

(* A message without calls starts a turn in which nothing is pending.        *)
LEMMA QuietTurn ==
  ASSUME TypesInv, NEW m \in Message, input' = Append(input, m), m.role # "toolResult", ~Calling(m),
         pendingToolCalls' = <<>>, AllClosed'
  PROVE  TransformInv'
<1>0. Len(input) \in Nat /\ Len(input') = Len(input) + 1 /\ input'[Len(input) + 1] = m
  BY InputGrows
<1>1. PICK w \in Nat : w = Len(input) + 1 /\ Len(input') = w /\ input'[w] = m
  BY <1>0
<1>2. w \in 1..Len(input') /\ \A k \in (w + 1)..Len(input') : FALSE
  BY <1>0, <1>1
<1>3. IsOwner(w)'
  BY <1>1, <1>2 DEF IsOwner
<1> QED BY <1>1, <1>2, <1>3 DEF TransformInv

(* One message of the transcript is put at the end, without calls or with    *)
(* calls that are pending then.                                              *)
LEMMA Pushed ==
  ASSUME NEW t \in Seq(Transformed), Behind(t, "toolResult"), ClosedBefore(t, "toolResult", Len(t) + 1),
         NEW x \in Transformed, x.role # "toolResult",
         NEW u, u = t \o <<x>>
  PROVE  /\ u \in Seq(Transformed) /\ Behind(u, "toolResult") /\ Len(u) = Len(t) + 1 /\ u[Len(u)] = x
         /\ ClosedBefore(u, "toolResult", Len(u))
         /\ ~(x.role = "assistant" /\ x.calls # <<>>) => ClosedBefore(u, "toolResult", Len(u) + 1)
<1> DEFINE q == <<x>>
<1>1. q \in Seq(Transformed) /\ Len(q) = 1 /\ q[1] = x /\ q # <<>>
  OBVIOUS
<1>2. /\ \A j \in 1..Len(q) : q[j].role # "toolResult"
      /\ \A j \in 1..Len(q) : j < Len(q) /\ q[j].role = "assistant" => q[j].calls = <<>>
  BY <1>1
<1>3. HasCalls(t) /\ HasCalls(q)
  BY <1>1, TransformedHaveCalls
<1>4. u = t \o q
  OBVIOUS
<1> HIDE DEF q
<1>5. /\ t \o q \in Seq(Transformed) /\ Behind(t \o q, "toolResult") /\ Len(t \o q) = Len(t) + Len(q)
      /\ q # <<>> => (t \o q)[Len(t \o q)] = q[Len(q)]
      /\ ClosedBefore(t \o q, "toolResult", Len(t \o q))
      /\ (q # <<>> /\ q[Len(q)].role = "assistant" /\ q[Len(q)].calls # <<>>)
         \/ ClosedBefore(t \o q, "toolResult", Len(t \o q) + 1)
  BY <1>1, <1>2, <1>3, Appending, SMTT(20)
<1> QED BY <1>1, <1>4, <1>5

(* What an assistant message leaves. *)
LEMMA AssistantTaken ==
  ASSUME RequestInv, phase = "transform", NEW m \in Message, m.role = "assistant",
         input' = Append(input, m), TakeAssistant(m)
  PROVE  /\ result' \in Seq(Transformed) /\ Behind(result, "toolResult")' /\ TransformInv'
         /\ pendingToolCalls' \in Seq(CallId) /\ existingToolResultIds' \subseteq CallId
<1> DEFINE t == result \o syntheticToolResults
           x == transformAssistant(m)
           calls == transformedCalls(m)
<1>1. TypesInv /\ Behind(result, "toolResult") /\ TransformInv
  BY DEF RequestInv
<1>2. t \in Seq(Transformed) /\ Behind(t, "toolResult") /\ ClosedBefore(t, "toolResult", Len(t) + 1)
  BY <1>1, Flushed
<1>3. /\ result' = t \o (IF kept(m) THEN <<x>> ELSE <<>>)
      /\ toolCallIdMap' = learnedIds(m)
      /\ pendingToolCalls' = IF kept(m) THEN calls ELSE <<>>
      /\ existingToolResultIds' = IF pendingToolCalls' # <<>> THEN {} ELSE existingAfterInsert
  BY DEF TakeAssistant
<1>4. x \in Transformed /\ x.role = "assistant" /\ x.calls = calls
  BY <1>1, FirstPass
<1>5. calls \in Seq(CallId) /\ Len(calls) = Len(m.calls) /\ m.calls \in Seq(CallId) /\ (calls = <<>> <=> m.calls = <<>>)
  <2>1. calls \in Seq(CallId) /\ Len(calls) = Len(m.calls) /\ m.calls \in Seq(CallId)
    BY CallsDiffer, Messages
  <2> HIDE DEF calls
  <2> QED BY <2>1
<1>6. existingToolResultIds' \subseteq CallId
  BY <1>1, <1>3 DEF TypesInv, existingAfterInsert
<1>7. pendingToolCalls' \in Seq(CallId)
  BY <1>3, <1>5
<1>8. \A j \in 1..Len(m.calls) : toolCallIdMap'[m.calls[j]] = calls[j]
  BY <1>1, <1>3, IdsLearned
<1>9. PICK w \in Nat :
        /\ Len(input') = w /\ input'[w] = m
        /\ w \in 1..Len(input') /\ \A k \in (w + 1)..Len(input') : FALSE
  <2>1. Len(input) \in Nat /\ Len(input') = Len(input) + 1 /\ input'[Len(input) + 1] = m
    BY <1>1, InputGrows
  <2> QED BY <2>1
<1> HIDE DEF t, x, calls
<1>10. CASE ~kept(m)
  <2>1. result' = t
    BY <1>2, <1>3, <1>10
  <2>2. AllClosed'
    BY <1>2, <2>1 DEF AllClosed
  <2>3. TransformInv'
    BY <1>1, <1>3, <1>10, <2>2, QuietTurn DEF kept, Calling
  <2> QED BY <1>2, <1>6, <1>7, <2>1, <2>3
<1>11. CASE kept(m)
  <2>1. result' = t \o <<x>> /\ pendingToolCalls' = calls
    BY <1>3, <1>11
  <2>2. /\ result' \in Seq(Transformed) /\ Behind(result', "toolResult")
        /\ Len(result') = Len(t) + 1 /\ result'[Len(result')] = x
        /\ ClosedBefore(result', "toolResult", Len(result'))
        /\ calls = <<>> => ClosedBefore(result', "toolResult", Len(result') + 1)
    BY <1>2, <1>4, <2>1, Pushed
  <2>3. Behind(result, "toolResult")'
    BY <2>2
  <2>4. CASE calls = <<>>
    <3>1. AllClosed'
      BY <2>2, <2>4 DEF AllClosed
    <3>2. TransformInv'
      BY <1>1, <1>5, <2>1, <2>4, <3>1, QuietTurn DEF Calling
    <3> QED BY <1>6, <1>7, <2>2, <2>3, <3>2
  <2>5. CASE calls # <<>>
    <3>0. PICK o \in Nat : o = Len(result')
      BY <2>2
    <3>1. o \in 1..Len(result') /\ Len(result') - o = 0 /\ (\A k \in (o + 1)..Len(result') : FALSE)
      BY <1>2, <2>2, <3>0
    <3>2. existingToolResultIds' = {}
      BY <1>3, <2>1, <2>5
    <3>3. Answering(result', "toolResult", o, Len(result') - o, calls)
      BY <3>1 DEF Answering
    <3>4. Calling(m)
      BY <1>5, <1>11, <2>5 DEF Calling, kept
    <3>5. IsOwner(w)'
      BY <1>9 DEF IsOwner
    <3>6. {result'[k].id : k \in (o + 1)..Len(result')} = {}
      BY <3>1
    <3>7. {toolCallIdMap'[input'[k].id] : k \in (w + 1)..Len(input')} = {}
      BY <1>9
    <3>8. result'[o].role = "assistant" /\ result'[o].calls = calls /\ ClosedBefore(result', "toolResult", o)
      BY <1>4, <2>2, <3>0
    <3>9. \A k \in (w + 1)..Len(input') : input'[k].id \in Range(input'[w].calls)
      BY <1>9
    <3>10. \A j \in 1..Len(pendingToolCalls') : toolCallIdMap'[input'[w].calls[j]] = pendingToolCalls'[j]
      BY <1>5, <1>8, <1>9, <2>1
    <3>11. pendingToolCalls' = transformedCalls(input'[w]) /\ Calling(input'[w])
      BY <1>9, <2>1, <3>4 DEF calls
    <3>12. Waiting(w, o)'
      BY <2>1, <3>1, <3>2, <3>3, <3>6, <3>7, <3>8, <3>9, <3>10, <3>11 DEF Waiting
    <3>13. TransformInv'
      BY <1>9, <3>1, <3>5, <3>12 DEF TransformInv
    <3> QED BY <1>6, <1>7, <2>2, <2>3, <3>13
  <2> QED BY <2>4, <2>5
<1> QED BY <1>10, <1>11

(* What a user message leaves. *)
LEMMA UserTaken ==
  ASSUME RequestInv, phase = "transform", NEW m \in Message, m.role = "user",
         input' = Append(input, m), TakeUser(m)
  PROVE  /\ result' \in Seq(Transformed) /\ Behind(result, "toolResult")' /\ TransformInv'
         /\ pendingToolCalls' \in Seq(CallId) /\ existingToolResultIds' \subseteq CallId
<1> DEFINE t == result \o syntheticToolResults
<1>1. TypesInv /\ Behind(result, "toolResult") /\ TransformInv
  BY DEF RequestInv
<1>2. t \in Seq(Transformed) /\ Behind(t, "toolResult") /\ ClosedBefore(t, "toolResult", Len(t) + 1)
  BY <1>1, Flushed
<1>3. /\ result' = t \o <<m>> /\ pendingToolCalls' = <<>> /\ existingToolResultIds' = existingAfterInsert
  BY DEF TakeUser
<1>4. m \in Transformed
  BY <1>1, FirstPass
<1>5. existingToolResultIds' \subseteq CallId /\ pendingToolCalls' \in Seq(CallId)
  BY <1>1, <1>3 DEF TypesInv, existingAfterInsert
<1> HIDE DEF t
<1>6. /\ result' \in Seq(Transformed) /\ Behind(result', "toolResult")
      /\ ClosedBefore(result', "toolResult", Len(result') + 1)
  BY <1>2, <1>3, <1>4, Pushed
<1>7. AllClosed' /\ Behind(result, "toolResult")'
  BY <1>6 DEF AllClosed
<1>8. TransformInv'
  BY <1>1, <1>3, <1>7, QuietTurn DEF Calling
<1> QED BY <1>5, <1>6, <1>7, <1>8

(* What a result leaves: it answers a pending call that had no answer.       *)
LEMMA ResultTaken ==
  ASSUME RequestInv, phase = "transform", NEW m \in Message, m.role = "toolResult", MayFollow(m),
         input' = Append(input, m), TakeResult(m)
  PROVE  /\ result' \in Seq(Transformed) /\ Behind(result, "toolResult")' /\ TransformInv'
         /\ pendingToolCalls' \in Seq(CallId) /\ existingToolResultIds' \subseteq CallId
<1> DEFINE x == transformResult(m)
           own == Owner(input, Len(input))
<1>1. TypesInv /\ Behind(result, "toolResult") /\ TransformInv
  BY DEF RequestInv
<1>2. /\ result' = Append(result, x) /\ existingToolResultIds' = existingToolResultIds \cup {x.id}
      /\ toolCallIdMap' = toolCallIdMap /\ pendingToolCalls' = pendingToolCalls
  BY DEF TakeResult
<1>3. x \in Transformed /\ x.role = "toolResult" /\ x.id = toolCallIdMap[m.id] /\ m.id \in CallId /\ x.id \in CallId
  BY <1>1, FirstPass, Messages DEF TypesInv
<1>4. /\ own # 0 /\ input[own].role = "assistant" /\ input[own].stop = "ok"
      /\ m.id \in Range(input[own].calls)
      /\ \A k \in own + 1 .. Len(input) : input[k].id # m.id
  BY DEF MayFollow
<1>5. input # <<>>
  <2>1. ASSUME input = <<>> PROVE own = 0
    <3>1. {k \in 1..Len(input) : input[k].role # "toolResult"} = {}
      BY <2>1
    <3> QED BY <3>1 DEF Owner
  <2> QED BY <1>4, <2>1
<1>6. PICK w \in 1..Len(input) :
        /\ IsOwner(w)
        /\ \/ ~Calling(input[w]) /\ w = Len(input) /\ pendingToolCalls = <<>> /\ AllClosed
           \/ \E o \in 1..Len(result) : Waiting(w, o)
  BY <1>1, <1>5 DEF TransformInv
<1>7. own = w
  BY <1>1, <1>6, OwnerFound
<1> HIDE DEF x, own
<1>8. Calling(input[w])
  <2>1. input[w].calls # <<>>
    BY <1>4, <1>7 DEF Range
  <2> QED BY <1>4, <1>7, <2>1 DEF Calling
<1>9. PICK o \in 1..Len(result) : Waiting(w, o)
  BY <1>6, <1>8
<1>10. /\ pendingToolCalls = transformedCalls(input[w])
       /\ result[o].role = "assistant" /\ result[o].calls = pendingToolCalls
       /\ ClosedBefore(result, "toolResult", o)
       /\ Answering(result, "toolResult", o, Len(result) - o, pendingToolCalls)
       /\ existingToolResultIds = {result[k].id : k \in (o + 1)..Len(result)}
       /\ existingToolResultIds = {toolCallIdMap[input[k].id] : k \in (w + 1)..Len(input)}
       /\ \A k \in (w + 1)..Len(input) : input[k].id \in Range(input[w].calls)
       /\ \A j \in 1..Len(pendingToolCalls) : toolCallIdMap[input[w].calls[j]] = pendingToolCalls[j]
  BY <1>9 DEF Waiting
<1>11. /\ input[w] \in Message /\ input[w].role = "assistant"
       /\ result \in Seq(Transformed) /\ Len(result) \in Nat /\ o \in Nat /\ w \in Nat
       /\ pendingToolCalls \in Seq(CallId) /\ existingToolResultIds \subseteq CallId
  BY <1>1, <1>4, <1>7 DEF TypesInv
<1>12. /\ DOMAIN input[w].calls = 1..Len(pendingToolCalls) /\ DOMAIN pendingToolCalls = 1..Len(pendingToolCalls)
       /\ \A j, k \in 1..Len(pendingToolCalls) : pendingToolCalls[j] = pendingToolCalls[k] => j = k
  <2>1. /\ Len(pendingToolCalls) = Len(input[w].calls) /\ DOMAIN input[w].calls = 1..Len(input[w].calls)
        /\ IsInjective(pendingToolCalls)
    BY <1>10, <1>11, CallsDiffer
  <2>2. DOMAIN pendingToolCalls = 1..Len(pendingToolCalls)
    BY <1>11
  <2> QED BY <2>1, <2>2 DEF IsInjective
<1>13. PICK j \in 1..Len(pendingToolCalls) : m.id = input[w].calls[j]
  BY <1>4, <1>7, <1>12 DEF Range
<1>14. x.id = pendingToolCalls[j] /\ x.id \in Range(pendingToolCalls)
  <2>1. x.id = pendingToolCalls[j]
    BY <1>3, <1>10, <1>13
  <2> QED BY <1>12, <2>1 DEF Range
<1>15. x.id \notin existingToolResultIds
  <2> SUFFICES ASSUME x.id \in existingToolResultIds PROVE FALSE
    OBVIOUS
  <2>1. PICK k \in (w + 1)..Len(input) : x.id = toolCallIdMap[input[k].id]
    BY <1>10
  <2>2. PICK l \in 1..Len(pendingToolCalls) : input[k].id = input[w].calls[l]
    <3>1. input[k].id \in Range(input[w].calls)
      BY <1>10
    <3> QED BY <1>12, <3>1 DEF Range
  <2>3. pendingToolCalls[l] = pendingToolCalls[j]
    BY <1>10, <1>14, <2>1, <2>2
  <2>4. input[k].id = m.id
    BY <1>12, <1>13, <2>2, <2>3
  <2> QED BY <1>4, <1>7, <2>4
<1> DEFINE n == Len(result)
<1>16. /\ result' \in Seq(Transformed) /\ Len(result') = n + 1 /\ result'[n + 1] = x
       /\ \A k \in 1..n : result'[k] = result[k]
  BY <1>2, <1>3, <1>11
<1>17. n \in Nat /\ o <= n /\ o \in 1..Len(result')
  BY <1>11, <1>16
<1> HIDE DEF n
<1>18. Answering(result', "toolResult", o, Len(result') - o, pendingToolCalls)
  <2> DEFINE M == n - o
  <2>1. M \in Nat /\ Len(result') - o = M + 1 /\ o + (M + 1) = n + 1
    BY <1>11, <1>16, <1>17
  <2>2. ASSUME NEW d \in 1..M PROVE result'[o + d] = result[o + d] /\ result[o + d].id \in existingToolResultIds
    <3>1. o + d \in (o + 1)..n /\ o + d \in 1..n
      BY <1>11, <1>17
    <3> QED BY <1>10, <1>16, <3>1 DEF n
  <2>3. /\ \A d \in 1..M : result[o + d].role = "toolResult" /\ result[o + d].id \in Range(pendingToolCalls)
        /\ \A d, e \in 1..M : result[o + d].id = result[o + e].id => d = e
    BY <1>10 DEF Answering, n
  <2>4. \A d \in 1..(M + 1) : d \in 1..M \/ d = M + 1
    BY <2>1
  <2>5. result'[o + (M + 1)] = x
    BY <1>16, <2>1
  <2> HIDE DEF M
  <2>6. \A d \in 1..(M + 1) : result'[o + d].role = "toolResult" /\ result'[o + d].id \in Range(pendingToolCalls)
    BY <1>3, <1>14, <2>2, <2>3, <2>4, <2>5
  <2>7. ASSUME NEW d \in 1..(M + 1), NEW e \in 1..(M + 1), result'[o + d].id = result'[o + e].id PROVE d = e
    <3>1. CASE d \in 1..M /\ e \in 1..M
      BY <2>2, <2>3, <2>7, <3>1
    <3>2. CASE d \in 1..M /\ e = M + 1
      BY <1>15, <2>2, <2>5, <2>7, <3>2
    <3>3. CASE d = M + 1 /\ e \in 1..M
      BY <1>15, <2>2, <2>5, <2>7, <3>3
    <3> QED BY <2>4, <3>1, <3>2, <3>3
  <2> QED BY <2>1, <2>6, <2>7 DEF Answering
<1>19. ClosedBefore(result', "toolResult", o)
  <2> SUFFICES ASSUME NEW k \in 1..Len(result'), k < o, result'[k].role = "assistant"
               PROVE  Closed(result', "toolResult", k)
    BY DEF ClosedBefore
  <2>1. k \in 1..Len(result) /\ result[k].role = "assistant" /\ o \in (k + 1)..Len(result)
        /\ Len(result) <= Len(result')
    BY <1>11, <1>16, <1>17 DEF n
  <2>2. Closed(result, "toolResult", k)
    BY <1>10, <2>1 DEF ClosedBefore
  <2>3. result[k].calls \in Seq(CallId)
    BY <1>11, <2>1, TransformedHaveCalls DEF HasCalls
  <2>4. \A l \in 1..Len(result) : result'[l] = result[l]
    BY <1>16 DEF n
  <2>5. result[o].role # "toolResult"
    BY <1>10
  <2> QED BY <1>11, <1>16, <2>1, <2>2, <2>3, <2>4, <2>5, ClosedStays
<1>20. Behind(result', "toolResult")
  <2> SUFFICES ASSUME NEW k \in 1..Len(result'), result'[k].role = "toolResult"
               PROVE  k > 1 /\ result'[k - 1].role \in {"toolResult", "assistant"}
    BY DEF Behind
  <2>1. CASE k \in 1..n
    <3>1. k > 1 /\ result[k - 1].role \in {"toolResult", "assistant"}
      BY <1>1, <1>16, <2>1 DEF Behind, n
    <3>2. k - 1 \in 1..n
      BY <1>17, <2>1, <3>1
    <3> QED BY <1>16, <3>1, <3>2
  <2>2. CASE k = n + 1
    <3>1. k > 1 /\ k - 1 = n /\ n \in 1..n
      BY <1>11, <1>17, <2>2
    <3>2. result'[n] = result[n]
      BY <1>16, <3>1
    <3>3. result[n].role \in {"toolResult", "assistant"}
      <4>1. CASE n = o
        BY <1>10, <4>1
      <4>2. CASE n # o
        <5>1. n - o \in 1..(n - o) /\ o + (n - o) = n
          BY <1>11, <1>17, <4>2
        <5>2. \A d \in 1..(n - o) : result[o + d].role = "toolResult"
          BY <1>10 DEF Answering, n
        <5> QED BY <5>1, <5>2
      <4> QED BY <4>1, <4>2
    <3> QED BY <3>1, <3>2, <3>3
  <2> QED BY <1>16, <1>17, <2>1, <2>2
<1>21. /\ Len(input) \in Nat /\ Len(input') = Len(input) + 1 /\ input'[Len(input) + 1] = m
       /\ \A k \in 1..Len(input) : input'[k] = input[k]
  BY <1>1, InputGrows
<1>22. w \in 1..Len(input') /\ input'[w] = input[w]
       /\ \A k \in (w + 1)..Len(input') : (k \in (w + 1)..Len(input) /\ input'[k] = input[k]) \/ k = Len(input) + 1
  BY <1>11, <1>21
<1>23. IsOwner(w)'
  BY <1>6, <1>21, <1>22 DEF IsOwner
<1>24. existingToolResultIds' = {result'[k].id : k \in (o + 1)..Len(result')}
  <2>1. \A k : k \in (o + 1)..Len(result') <=> k \in (o + 1)..n \/ k = n + 1
    BY <1>11, <1>16, <1>17
  <2>2. \A k \in (o + 1)..n : result'[k] = result[k]
    BY <1>11, <1>16, <1>17
  <2>3. existingToolResultIds' = {result[k].id : k \in (o + 1)..n} \cup {x.id}
    BY <1>2, <1>10 DEF n
  <2>4. ASSUME NEW y \in existingToolResultIds' PROVE y \in {result'[k].id : k \in (o + 1)..Len(result')}
    BY <1>16, <2>1, <2>2, <2>3, <2>4
  <2>5. ASSUME NEW k \in (o + 1)..Len(result') PROVE result'[k].id \in existingToolResultIds'
    BY <1>16, <2>1, <2>2, <2>3
  <2> QED BY <2>4, <2>5
<1>25. existingToolResultIds' = {toolCallIdMap'[input'[k].id] : k \in (w + 1)..Len(input')}
  <2>0. PICK l \in Nat : l = Len(input) /\ Len(input') = l + 1 /\ w <= l
    BY <1>11, <1>21
  <2>1. \A k : k \in (w + 1)..Len(input') <=> k \in (w + 1)..Len(input) \/ k = Len(input) + 1
    <3>1. \A k : k \in (w + 1)..(l + 1) <=> k \in (w + 1)..l \/ k = l + 1
      BY <1>11, <2>0, IntervalGrows
    <3> QED BY <2>0, <3>1
  <2>2. \A k \in (w + 1)..Len(input) : input'[k] = input[k]
    BY <1>11, <1>21
  <2>3. existingToolResultIds' = {toolCallIdMap[input[k].id] : k \in (w + 1)..Len(input)} \cup {toolCallIdMap[m.id]}
    BY <1>2, <1>3, <1>10
  <2>4. ASSUME NEW y \in existingToolResultIds'
        PROVE  y \in {toolCallIdMap'[input'[k].id] : k \in (w + 1)..Len(input')}
    <3>1. CASE y = toolCallIdMap[m.id]
      BY <1>2, <1>21, <2>1, <3>1
    <3>2. CASE y # toolCallIdMap[m.id]
      <4>1. PICK k \in (w + 1)..Len(input) : y = toolCallIdMap[input[k].id]
        BY <2>3, <2>4, <3>2
      <4>2. k \in (w + 1)..Len(input') /\ y = toolCallIdMap'[input'[k].id]
        BY <1>2, <2>1, <2>2, <4>1
      <4> QED BY <4>2
    <3> QED BY <3>1, <3>2
  <2>5. ASSUME NEW k \in (w + 1)..Len(input') PROVE toolCallIdMap'[input'[k].id] \in existingToolResultIds'
    BY <1>2, <1>21, <2>1, <2>2, <2>3
  <2> QED BY <2>4, <2>5
<1>26. \A k \in (w + 1)..Len(input') : input'[k].id \in Range(input'[w].calls)
  BY <1>4, <1>7, <1>10, <1>21, <1>22
<1>27. Waiting(w, o)'
  BY <1>2, <1>8, <1>10, <1>16, <1>17, <1>18, <1>19, <1>22, <1>24, <1>25, <1>26 DEF Waiting, n
<1>28. TransformInv'
  BY <1>17, <1>22, <1>23, <1>27 DEF TransformInv
<1>29. existingToolResultIds' \subseteq CallId /\ pendingToolCalls' \in Seq(CallId)
  BY <1>2, <1>3, <1>11
<1> QED BY <1>16, <1>20, <1>28, <1>29

--------------------------------------------------------------------------------
(* The conversion *)

(* The messages of a request tell their calls. *)
LEMMA ParamsHaveCalls ==
  ASSUME NEW s \in Seq(Param)
  PROVE  HasCalls(s)
<1>1. \A x \in Param : x.role = "assistant" => x.calls \in Seq(CallId)
  BY DEF Param
<1> QED BY <1>1 DEF HasCalls

(* No user message is right behind a result. *)
Bridged(s) == \A k \in 1..Len(s) : k > 1 /\ s[k].role = "user" => s[k - 1].role # "tool"

(* A bridged request stays so when no user message is put right behind a result. *)
LEMMA BridgedConcat ==
  ASSUME NEW s \in Seq(Param), NEW q \in Seq(Param), Bridged(s), Bridged(q),
         s # <<>> /\ q # <<>> /\ q[1].role = "user" => s[Len(s)].role # "tool"
  PROVE  Bridged(s \o q)
<1> DEFINE u == s \o q
<1>1. /\ Len(s) \in Nat /\ Len(q) \in Nat /\ u \in Seq(Param) /\ Len(u) = Len(s) + Len(q)
      /\ \A j \in 1..Len(s) : u[j] = s[j]
      /\ \A j \in 1..Len(q) : u[Len(s) + j] = q[j]
  OBVIOUS
<1> HIDE DEF u
<1>2. ASSUME NEW k \in 1..Len(u), k > 1, u[k].role = "user" PROVE u[k - 1].role # "tool"
  <2>1. CASE k <= Len(s)
    <3>1. k \in 1..Len(s) /\ k - 1 \in 1..Len(s)
      BY <1>1, <1>2, <2>1
    <3> QED BY <1>1, <1>2, <3>1 DEF Bridged
  <2>2. CASE k = Len(s) + 1
    <3>1. 1 \in 1..Len(q) /\ Len(s) \in 1..Len(s) /\ k - 1 = Len(s) /\ s # <<>> /\ q # <<>>
      BY <1>1, <1>2, <2>2
    <3>2. q[1].role = "user" /\ u[k - 1] = s[Len(s)]
      BY <1>1, <1>2, <2>2, <3>1
    <3> QED BY <3>1, <3>2
  <2>3. CASE k > Len(s) + 1
    <3> DEFINE j == k - Len(s)
    <3>1. j \in 1..Len(q) /\ j - 1 \in 1..Len(q) /\ j > 1 /\ Len(s) + j = k /\ Len(s) + (j - 1) = k - 1
      BY <1>1, <1>2, <2>3
    <3> HIDE DEF j
    <3>2. u[k] = q[j] /\ u[k - 1] = q[j - 1]
      BY <1>1, <3>1
    <3> QED BY <1>2, <3>1, <3>2 DEF Bridged
  <2> QED BY <1>1, <2>1, <2>2, <2>3
<1> QED BY <1>2 DEF Bridged, u

(* A message that is not a result is put at the end of the request.          *)
LEMMA ParamPushed ==
  ASSUME NEW s \in Seq(Param), Behind(s, "tool"), ClosedBefore(s, "tool", Len(s) + 1),
         NEW x \in Param, x.role # "tool",
         NEW u, u = s \o <<x>>
  PROVE  /\ u \in Seq(Param) /\ Behind(u, "tool") /\ ClosedBefore(u, "tool", Len(u))
         /\ u # <<>> /\ u[Len(u)] = x
         /\ ~(x.role = "assistant" /\ x.calls # <<>>) => ClosedBefore(u, "tool", Len(u) + 1)
         /\ Bridged(s) /\ (x.role = "user" /\ s # <<>> => s[Len(s)].role # "tool") => Bridged(u)
<1> DEFINE q == <<x>>
<1>1. q \in Seq(Param) /\ Len(q) = 1 /\ q[1] = x /\ q # <<>> /\ u = s \o q
  OBVIOUS
<1>2. /\ \A j \in 1..Len(q) : q[j].role # "tool"
      /\ \A j \in 1..Len(q) : j < Len(q) /\ q[j].role = "assistant" => q[j].calls = <<>>
  BY <1>1
<1> HIDE DEF q
<1>3. HasCalls(s) /\ HasCalls(q)
  BY <1>1, ParamsHaveCalls
<1>4. /\ s \o q \in Seq(Param) /\ Behind(s \o q, "tool") /\ Len(s \o q) = Len(s) + Len(q)
      /\ q # <<>> => (s \o q)[Len(s \o q)] = q[Len(q)]
      /\ ClosedBefore(s \o q, "tool", Len(s \o q))
      /\ (q # <<>> /\ q[Len(q)].role = "assistant" /\ q[Len(q)].calls # <<>>)
         \/ ClosedBefore(s \o q, "tool", Len(s \o q) + 1)
  BY <1>1, <1>2, <1>3, Appending
<1>5. Bridged(q)
  BY <1>1 DEF Bridged
<1>6. Bridged(s) /\ (x.role = "user" /\ s # <<>> => s[Len(s)].role # "tool") => Bridged(u)
  BY <1>1, <1>5, BridgedConcat
<1>7. u # <<>> /\ u[Len(u)] = x
  BY <1>1, <1>4
<1> QED BY <1>1, <1>4, <1>6, <1>7

(* The message that is converted, and whether results are awaited.           *)
LEMMA Current ==
  ASSUME RequestInv, phase = "convert", i <= Len(result)
  PROVE  /\ result \in Seq(Transformed) /\ Len(result) \in Nat /\ i \in 1..Len(result) /\ i \in Nat
         /\ result[i] \in Transformed
         /\ params \in Seq(Param) /\ Behind(params, "tool")
         /\ result[i].role = "toolResult" => Awaiting
         /\ result[i].role # "toolResult" => ~Awaiting
<1>1. /\ TypesInv /\ Behind(result, "toolResult") /\ ClosedBefore(result, "toolResult", Len(result) + 1)
      /\ Behind(params, "tool")
      /\ i > 1 /\ result[i].role = "toolResult" => result[i - 1].role = "assistant"
  BY DEF RequestInv, ConvertInv, AllClosed
<1>2. /\ result \in Seq(Transformed) /\ Len(result) \in Nat /\ i \in 1..Len(result) /\ i \in Nat
      /\ params \in Seq(Param)
  BY <1>1 DEF TypesInv
<1>3. ASSUME i > 1, result[i - 1].role = "assistant"
      PROVE  result[i].role = "toolResult" <=> result[i - 1].calls # <<>>
  <2> DEFINE k == i - 1
             n == Len(result[k].calls)
  <2>1. k \in 1..Len(result) /\ k + 1 = i /\ k < Len(result) /\ k < Len(result) + 1
    BY <1>2, <1>3
  <2>2. Closed(result, "toolResult", k)
    BY <1>1, <1>3, <2>1 DEF ClosedBefore
  <2>3. result[k].calls \in Seq(CallId)
    BY <1>2, <1>3, <2>1, TransformedHaveCalls DEF HasCalls
  <2>4. /\ Answering(result, "toolResult", k, n, result[k].calls)
        /\ k + n < Len(result) => result[k + n + 1].role # "toolResult"
    BY <2>2 DEF Closed
  <2>5. n \in Nat /\ (n = 0 <=> result[k].calls = <<>>)
    BY <2>3
  <2> HIDE DEF k, n
  <2>6. CASE n = 0
    <3>1. result[k + 0 + 1].role # "toolResult" /\ k + 0 + 1 = i
      BY <2>1, <2>4, <2>6
    <3> QED BY <2>5, <2>6, <3>1 DEF k
  <2>7. CASE n # 0
    <3>1. 1 \in 1..n
      BY <2>5, <2>7
    <3>2. result[k + 1].role = "toolResult"
      BY <2>4, <3>1 DEF Answering
    <3> QED BY <2>1, <2>5, <2>7, <3>2 DEF k
  <2> QED BY <2>6, <2>7
<1>4. result[i].role = "toolResult" => i > 1
  BY <1>1, <1>2 DEF Behind
<1>5. result[i] \in Transformed
  BY <1>2
<1> QED BY <1>1, <1>2, <1>3, <1>4, <1>5 DEF Awaiting

(* convertMessages, a user message. *)
LEMMA UserConverted ==
  ASSUME RequestInv, BridgeInv, phase = "convert", i <= Len(result), ConvertUser,
         UNCHANGED <<target, transformVars, phase>>
  PROVE  /\ params' \in Seq(Param) /\ i' \in 1..(Len(result') + 1)
         /\ lastRole' \in {"null", "user", "assistant", "toolResult"}
         /\ ConvertInv' /\ BridgeInv'
<1> DEFINE m == result[i]
           c == target.bridge /\ lastRole = "toolResult"
           d == m.content # "none"
           u == params \o (IF c THEN <<Bridge>> ELSE <<>>)
<1>1. /\ result \in Seq(Transformed) /\ Len(result) \in Nat /\ i \in 1..Len(result) /\ i \in Nat
      /\ m \in Transformed /\ params \in Seq(Param) /\ Behind(params, "tool") /\ ~Awaiting /\ m.role = "user"
  BY Current DEF ConvertUser
<1>2. ClosedBefore(params, "tool", Len(params) + 1) /\ AllClosed /\ Behind(result, "toolResult")
  BY <1>1 DEF RequestInv, ConvertInv
<1>3. /\ params' = u \o (IF d THEN <<m>> ELSE <<>>)
      /\ lastRole' = IF d THEN "user" ELSE lastRole
      /\ i' = i + 1
      /\ result' = result /\ target' = target /\ phase' = phase
  BY DEF ConvertUser, bridgeIf, transformVars
<1>4. m \in Param
  BY <1>1 DEF Transformed, User, Answer, Assistant, Param
<1>5. Bridge \in Param /\ Bridge.role = "assistant" /\ Bridge.calls = <<>>
  BY DEF Bridge, Param
<1>6. lastRole \in {"null", "user", "assistant", "toolResult"}
  BY DEF RequestInv, TypesInv
<1> HIDE DEF m, c, d, u
<1>7. (c => u = params \o <<Bridge>>) /\ (~c => u = params)
  BY <1>1 DEF u
<1>9. /\ u \in Seq(Param) /\ Behind(u, "tool") /\ ClosedBefore(u, "tool", Len(u) + 1)
      /\ c => u # <<>> /\ u[Len(u)] = Bridge
      /\ ~c => u = params
      /\ Bridged(params) => Bridged(u)
  <2>1. CASE c
    <3>1. u = params \o <<Bridge>>
      BY <1>7, <2>1
    <3> QED BY <1>1, <1>2, <1>5, <2>1, <3>1, ParamPushed
  <2>2. CASE ~c
    BY <1>1, <1>2, <1>7, <2>2
  <2> QED BY <2>1, <2>2
<1>10. /\ params' \in Seq(Param) /\ Behind(params', "tool") /\ ClosedBefore(params', "tool", Len(params') + 1)
       /\ d => params' # <<>> /\ params'[Len(params')] = m
       /\ ~d => params' = u
       /\ Bridged(u) /\ (d /\ u # <<>> => u[Len(u)].role # "tool") => Bridged(params')
  <2>1. CASE d
    <3>1. params' = u \o <<m>>
      BY <1>3, <2>1
    <3> QED BY <1>1, <1>4, <1>9, <2>1, <3>1, ParamPushed
  <2>2. CASE ~d
    <3>1. params' = u
      BY <1>3, <1>9, <2>2
    <3> QED BY <1>9, <2>2, <3>1
  <2> QED BY <2>1, <2>2
<1>11. params # <<>> /\ params[Len(params)].role = "tool" => lastRole = "toolResult"
  BY DEF BridgeInv
<1>12. BridgeInv'
  <2>1. ASSUME params' # <<>>, params'[Len(params')].role = "tool" PROVE lastRole' = "toolResult"
    <3>1. ~d /\ params' = u
      BY <1>1, <1>10, <2>1
    <3>2. ~c /\ u = params
      BY <1>5, <1>9, <2>1, <3>1
    <3> QED BY <1>3, <1>11, <2>1, <3>1, <3>2
  <2>2. ASSUME target.bridge PROVE Bridged(params')
    <3>0. DOMAIN params = 1..Len(params)
      BY <1>1
    <3>1. Bridged(params)
      BY <2>2, <3>0 DEF BridgeInv, ResultsAreBridged, Bridged
    <3>2. u # <<>> => u[Len(u)].role # "tool"
      BY <1>5, <1>9, <1>11, <2>2 DEF c
    <3> QED BY <1>9, <1>10, <3>1, <3>2
  <2>3. DOMAIN params' = 1..Len(params')
    BY <1>10
  <2> QED BY <1>3, <2>1, <2>2, <2>3 DEF BridgeInv, ResultsAreBridged, Bridged
<1>13. i' <= Len(result') => result'[i'].role # "toolResult"
  <2> SUFFICES ASSUME i + 1 <= Len(result), result[i + 1].role = "toolResult" PROVE FALSE
    BY <1>3
  <2>1. PICK k \in 1..Len(result) : k = i + 1 /\ k - 1 = i
    BY <1>1
  <2>2. result[k].role = "toolResult" /\ result[k - 1].role \in {"toolResult", "assistant"}
    BY <1>2, <2>1 DEF Behind
  <2> QED BY <1>1, <2>1, <2>2 DEF m
<1>14. result'[i' - 1] = m /\ ~Awaiting'
  <2>1. i + 1 - 1 = i
    BY <1>1
  <2> QED BY <1>1, <1>3, <2>1 DEF Awaiting, m
<1>15. AllClosed'
  BY <1>2, <1>3 DEF AllClosed
<1>16. ConvertInv'
  BY <1>3, <1>10, <1>13, <1>14, <1>15 DEF ConvertInv
<1> QED BY <1>1, <1>3, <1>6, <1>10, <1>12, <1>16

(* convertMessages, an assistant message: its calls, if any, are answered next. *)
LEMMA AssistantConverted ==
  ASSUME RequestInv, BridgeInv, phase = "convert", i <= Len(result), ConvertAssistant,
         UNCHANGED <<target, transformVars, phase>>
  PROVE  /\ params' \in Seq(Param) /\ i' \in 1..(Len(result') + 1)
         /\ lastRole' \in {"null", "user", "assistant", "toolResult"}
         /\ ConvertInv' /\ BridgeInv'
<1> DEFINE m == result[i]
           skipped == ~hasContent(m.body) /\ m.calls = <<>>
           x == [role |-> "assistant", body |-> m.body, calls |-> m.calls]
<1>1. /\ result \in Seq(Transformed) /\ Len(result) \in Nat /\ i \in 1..Len(result) /\ i \in Nat
      /\ m \in Transformed /\ params \in Seq(Param) /\ Behind(params, "tool") /\ ~Awaiting /\ m.role = "assistant"
  BY Current DEF ConvertAssistant
<1>2. ClosedBefore(params, "tool", Len(params) + 1) /\ AllClosed
  BY <1>1 DEF RequestInv, ConvertInv
<1>3. /\ params' = IF skipped THEN params ELSE Append(params, x)
      /\ lastRole' = IF skipped THEN lastRole ELSE "assistant"
      /\ i' = i + 1
      /\ result' = result /\ target' = target /\ phase' = phase
  BY DEF ConvertAssistant, transformVars
<1>4. x \in Param /\ x.role = "assistant" /\ x.calls = m.calls
  <2>1. m \in Assistant
    BY <1>1 DEF Transformed, User, Answer, Assistant
  <2>2. m.body \in Body /\ m.calls \in Seq(CallId)
    BY <2>1 DEF Assistant
  <2> QED BY <2>2 DEF Param
<1>5. skipped => m.calls = <<>>
  OBVIOUS
<1>6. lastRole \in {"null", "user", "assistant", "toolResult"}
  BY DEF RequestInv, TypesInv
<1> HIDE DEF m, skipped, x
<1>7. /\ params' \in Seq(Param) /\ Behind(params', "tool") /\ ClosedBefore(params', "tool", Len(params'))
      /\ ~skipped => params' # <<>> /\ params'[Len(params')] = x
      /\ skipped => params' = params
      /\ m.calls = <<>> => ClosedBefore(params', "tool", Len(params') + 1)
      /\ Bridged(params) => Bridged(params')
  <2>1. CASE skipped
    <3>1. ClosedBefore(params, "tool", Len(params))
      BY <1>2 DEF ClosedBefore
    <3> QED BY <1>1, <1>2, <1>3, <2>1, <3>1
  <2>2. CASE ~skipped
    <3>1. params' = params \o <<x>>
      BY <1>1, <1>3, <1>4, <2>2, AppendIsConcat
    <3> QED BY <1>1, <1>2, <1>4, <2>2, <3>1, ParamPushed, ZenonT(40)
  <2> QED BY <2>1, <2>2
<1>8. BridgeInv'
  <2>1. ASSUME params' # <<>>, params'[Len(params')].role = "tool" PROVE lastRole' = "toolResult"
    <3>1. skipped /\ params' = params
      BY <1>4, <1>7, <2>1
    <3> QED BY <1>3, <2>1, <3>1 DEF BridgeInv
  <2>2. ASSUME target.bridge PROVE Bridged(params')
    <3>1. DOMAIN params = 1..Len(params)
      BY <1>1
    <3>2. Bridged(params)
      BY <2>2, <3>1 DEF BridgeInv, ResultsAreBridged, Bridged
    <3> QED BY <1>7, <3>2
  <2>3. DOMAIN params' = 1..Len(params')
    BY <1>7
  <2> QED BY <1>3, <2>1, <2>2, <2>3 DEF BridgeInv, ResultsAreBridged, Bridged
<1>9. result'[i' - 1] = m /\ i' > 1 /\ (Awaiting' <=> m.calls # <<>>)
  <2>1. i + 1 - 1 = i /\ i + 1 > 1
    BY <1>1
  <2>2. result'[i' - 1] = m /\ i' > 1
    BY <1>1, <1>3, <2>1 DEF m
  <2> QED BY <1>1, <2>2 DEF Awaiting
<1>10. AllClosed'
  BY <1>2, <1>3 DEF AllClosed
<1>11. m.calls # <<>> => /\ params' # <<>> /\ params'[Len(params')].role = "assistant"
                         /\ params'[Len(params')].calls = m.calls
  BY <1>4, <1>5, <1>7
<1>12. ConvertInv'
  BY <1>1, <1>3, <1>7, <1>9, <1>10, <1>11 DEF ConvertInv
<1> QED BY <1>1, <1>3, <1>6, <1>7, <1>8, <1>12

(* Short sequences. *)
LEMMA TwoConcat ==
  ASSUME NEW T, NEW a \in T, NEW b \in T
  PROVE  /\ <<a>> \o <<b>> \in Seq(T) /\ Len(<<a>> \o <<b>>) = 2
         /\ (<<a>> \o <<b>>)[1] = a /\ (<<a>> \o <<b>>)[2] = b
         /\ <<>> \o <<b>> = <<b>>
OBVIOUS

(* The pictures of a batch, behind a bridge where the provider wants one.    *)
LEMMA Trailer ==
  ASSUME NEW images \in BOOLEAN, NEW q,
         images => q = bridgeIf(TRUE) \o <<Images>>, ~images => q = <<>>
  PROVE  /\ q \in Seq(Param) /\ Bridged(q)
         /\ \A j \in 1..Len(q) : q[j].role # "tool" /\ (q[j].role = "assistant" => q[j].calls = <<>>)
         /\ images => q # <<>> /\ q[Len(q)].role = "user"
         /\ ~images => q = <<>>
         /\ target.bridge /\ q # <<>> => q[1].role # "user"
<1>1. Bridge \in Param /\ Bridge.role = "assistant" /\ Bridge.calls = <<>>
  BY DEF Bridge, Param
<1>2. Images \in Param /\ Images.role = "user"
  BY DEF Images, Param
<1>3. CASE ~images
  <2>1. q = <<>>
    BY <1>3
  <2> QED BY <1>3, <2>1 DEF Bridged
<1>4. CASE images /\ target.bridge
  <2>1. q = <<Bridge>> \o <<Images>>
    BY <1>4 DEF bridgeIf
  <2>2. q \in Seq(Param) /\ Len(q) = 2 /\ q[1] = Bridge /\ q[2] = Images
    BY <1>1, <1>2, <2>1, TwoConcat
  <2>3. \A j \in 1..Len(q) : j = 1 \/ j = 2
    BY <2>2
  <2>4. Bridged(q)
    BY <1>1, <1>2, <2>2, <2>3 DEF Bridged
  <2>5. \A j \in 1..Len(q) : q[j].role # "tool" /\ (q[j].role = "assistant" => q[j].calls = <<>>)
    BY <1>1, <1>2, <2>2, <2>3
  <2>6. q # <<>> /\ q[Len(q)].role = "user" /\ q[1].role # "user"
    BY <1>1, <1>2, <2>2
  <2> QED BY <1>4, <2>2, <2>4, <2>5, <2>6
<1>5. CASE images /\ ~target.bridge
  <2>1. q = <<>> \o <<Images>>
    BY <1>5 DEF bridgeIf
  <2>2. q \in Seq(Param) /\ Len(q) = 1 /\ q[1] = Images
    <3>1. q = <<Images>>
      BY <1>2, <2>1, TwoConcat
    <3> QED BY <1>2, <3>1
  <2>3. \A j \in 1..Len(q) : j = 1
    BY <2>2
  <2>4. Bridged(q)
    BY <2>2, <2>3 DEF Bridged
  <2>5. \A j \in 1..Len(q) : q[j].role # "tool" /\ (q[j].role = "assistant" => q[j].calls = <<>>)
    BY <1>1, <1>2, <2>2, <2>3
  <2>6. q # <<>> /\ q[Len(q)].role = "user"
    <3>1. q # <<>>
      BY <2>2
    <3>2. q[Len(q)] = Images
      BY <2>2
    <3> QED BY <1>2, <3>1, <3>2
  <2> QED BY <1>5, <2>2, <2>4, <2>5, <2>6
<1> QED BY <1>3, <1>4, <1>5

(* A batch ends where its message's calls end. *)
LEMMA BatchEnds ==
  ASSUME NEW s \in Seq(Transformed), NEW k \in 1..Len(s), s[k].role = "assistant", Closed(s, "toolResult", k),
         NEW ends, ends = {l \in (k + 1)..Len(s) : s[l].role # "toolResult"}
  PROVE  (IF ends = {} THEN Len(s) + 1 ELSE Min(ends)) = k + Len(s[k].calls) + 1
<1> DEFINE n == Len(s[k].calls)
<1>1. Len(s) \in Nat /\ k \in Nat /\ n \in Nat
  BY TransformedHaveCalls DEF HasCalls
<1>2. /\ k + n <= Len(s) /\ \A d \in 1..n : s[k + d].role = "toolResult"
      /\ k + n < Len(s) => s[k + n + 1].role # "toolResult"
  BY DEF Closed, Answering
<1> HIDE DEF n
<1>3. \A l \in ends : l \in Nat /\ l >= k + n + 1
  <2> SUFFICES ASSUME NEW l \in (k + 1)..Len(s), s[l].role # "toolResult", ~(l >= k + n + 1) PROVE FALSE
    BY <1>1
  <2>1. l - k \in 1..n /\ k + (l - k) = l
    BY <1>1
  <2> QED BY <1>2, <2>1
<1>4. CASE k + n < Len(s)
  <2>1. k + n + 1 \in ends
    BY <1>1, <1>2, <1>4
  <2>2. \A l \in ends : (\A y \in ends : l <= y) => l = k + n + 1
    BY <1>1, <1>3, <2>1
  <2>3. \A y \in ends : k + n + 1 <= y
    BY <1>1, <1>3
  <2>4. Min(ends) = k + n + 1
    BY ONLY <2>1, <2>2, <2>3 DEF Min
  <2> QED BY <2>1, <2>4 DEF n
<1>5. CASE k + n = Len(s)
  <2>1. ends = {}
    BY <1>1, <1>3, <1>5
  <2> QED BY <1>5, <2>1 DEF n
<1> QED BY <1>1, <1>2, <1>4, <1>5

(* The parts of a concatenation. *)
LEMMA ConcatParts ==
  ASSUME NEW T, NEW a \in Seq(T), NEW b \in Seq(T)
  PROVE  /\ a \o b \in Seq(T) /\ Len(a \o b) = Len(a) + Len(b)
         /\ \A l \in 1..Len(a) : (a \o b)[l] = a[l]
         /\ \A d \in 1..Len(b) : (a \o b)[Len(a) + d] = b[d]
OBVIOUS

(* convertMessages, a batch of results: it answers the calls of the message before it. *)
LEMMA ResultsConverted ==
  ASSUME RequestInv, BridgeInv, phase = "convert", i <= Len(result), ConvertResults,
         UNCHANGED <<target, transformVars, phase>>
  PROVE  /\ params' \in Seq(Param) /\ i' \in 1..(Len(result') + 1)
         /\ lastRole' \in {"null", "user", "assistant", "toolResult"}
         /\ ConvertInv' /\ BridgeInv'
<1> DEFINE ends == {l \in i..Len(result) : result[l].role # "toolResult"}
           j == IF ends = {} THEN Len(result) + 1 ELSE Min(ends)
           batch == SubSeq(result, i, j - 1)
           images == \E l \in DOMAIN batch : batch[l].image
           tools == [l \in DOMAIN batch |-> [role |-> "tool", id |-> batch[l].id, real |-> batch[l].real]]
           tail == IF images THEN bridgeIf(TRUE) \o <<Images>> ELSE <<>>
<1>1. /\ result \in Seq(Transformed) /\ Len(result) \in Nat /\ i \in 1..Len(result) /\ i \in Nat
      /\ params \in Seq(Param) /\ Behind(params, "tool") /\ Awaiting /\ result[i].role = "toolResult"
  BY Current DEF ConvertResults
<1>2. /\ ClosedBefore(params, "tool", Len(params)) /\ AllClosed
      /\ params # <<>> /\ params[Len(params)].role = "assistant"
      /\ params[Len(params)].calls = result[i - 1].calls
  BY <1>1 DEF RequestInv, ConvertInv
<1>3. /\ params' = (params \o tools) \o tail
      /\ lastRole' = IF images THEN "user" ELSE "toolResult"
      /\ i' = j
      /\ result' = result /\ target' = target /\ phase' = phase
  BY DEF ConvertResults, transformVars
<1>4. PICK k \in 1..Len(result) : k = i - 1 /\ k + 1 = i /\ k < Len(result) + 1 /\ k \in Nat
  BY <1>1 DEF Awaiting
<1>5. /\ result[k].role = "assistant" /\ result[k].calls # <<>> /\ params[Len(params)].calls = result[k].calls
      /\ result[k].calls \in Seq(CallId) /\ Closed(result, "toolResult", k)
  <2>1. result[k].role = "assistant" /\ result[k].calls # <<>>
    BY <1>1, <1>4 DEF Awaiting
  <2>2. Closed(result, "toolResult", k)
    BY <1>2, <1>4, <2>1 DEF AllClosed, ClosedBefore
  <2>3. result[k].calls \in Seq(CallId)
    BY <1>1, <2>1, TransformedHaveCalls DEF HasCalls
  <2> QED BY <1>2, <1>4, <2>1, <2>2, <2>3
<1> DEFINE calls == result[k].calls
           n == Len(calls)
<1>6. ends = {l \in (k + 1)..Len(result) : result[l].role # "toolResult"}
  BY <1>4
<1> HIDE DEF ends
<1>7. j = k + n + 1
  BY <1>1, <1>5, <1>6, BatchEnds
<1> HIDE DEF j
<1>8. n \in Nat /\ n >= 1 /\ calls \in Seq(CallId) /\ calls = result[k].calls
  BY <1>5
<1>9. /\ k + n <= Len(result) /\ (k + n < Len(result) => result[k + n + 1].role # "toolResult")
      /\ \A d \in 1..n : result[k + d].role = "toolResult" /\ result[k + d].id \in Range(calls)
      /\ \A d, e \in 1..n : result[k + d].id = result[k + e].id => d = e
  BY <1>5 DEF Closed, Answering
<1> HIDE DEF calls, n
<1>10. batch = SubSeq(result, k + 1, k + n)
  <2>1. i = k + 1 /\ j - 1 = k + n
    BY <1>4, <1>7, <1>8
  <2> QED BY <2>1
<1>11. /\ batch \in Seq(Transformed) /\ Len(batch) = n /\ DOMAIN batch = 1..n
       /\ \A d \in 1..n : batch[d] = result[k + d]
  <2> HIDE DEF batch
  <2> QED BY <1>1, <1>4, <1>8, <1>9, <1>10
<1> HIDE DEF batch
<1>12. \A d \in 1..n : batch[d] \in Answer
  <2> SUFFICES ASSUME NEW d \in 1..n PROVE batch[d] \in Answer
    OBVIOUS
  <2>1. batch[d] \in Transformed /\ batch[d].role = "toolResult"
    BY <1>9, <1>11
  <2> QED BY <2>1 DEF Transformed, User, Assistant
<1>13. \A d \in 1..n : /\ tools[d] \in Param /\ tools[d].role = "tool" /\ tools[d].id = result[k + d].id
  <2> SUFFICES ASSUME NEW d \in 1..n
               PROVE  tools[d] \in Param /\ tools[d].role = "tool" /\ tools[d].id = result[k + d].id
    OBVIOUS
  <2>1. batch[d].id \in CallId /\ batch[d].real \in BOOLEAN /\ batch[d] = result[k + d]
    BY <1>11, <1>12 DEF Answer
  <2>2. tools[d] = [role |-> "tool", id |-> batch[d].id, real |-> batch[d].real]
    BY <1>11
  <2> HIDE DEF tools
  <2> QED BY <2>1, <2>2 DEF Param
<1>14. tools \in Seq(Param) /\ Len(tools) = n
  <2>1. tools = [l \in 1..n |-> tools[l]]
    BY <1>11
  <2> HIDE DEF tools
  <2>2. tools \in [1..n -> Param]
    BY <1>13, <2>1
  <2> QED BY <1>8, <2>2
<1>15. images \in BOOLEAN
  OBVIOUS
<1>16. (images => tail = bridgeIf(TRUE) \o <<Images>>) /\ (~images => tail = <<>>)
  OBVIOUS
<1> HIDE DEF tools, images, tail
<1>17. /\ tail \in Seq(Param) /\ Bridged(tail)
       /\ \A l \in 1..Len(tail) : tail[l].role # "tool" /\ (tail[l].role = "assistant" => tail[l].calls = <<>>)
       /\ images => tail # <<>> /\ tail[Len(tail)].role = "user"
       /\ ~images => tail = <<>>
       /\ target.bridge /\ tail # <<>> => tail[1].role # "user"
  BY <1>15, <1>16, Trailer
<1> DEFINE s == params \o tools
           o == Len(params)
<1>18. /\ o \in Nat /\ o \in 1..Len(params) /\ s \in Seq(Param) /\ Len(s) = o + n
       /\ \A l \in 1..Len(params) : s[l] = params[l]
       /\ \A d \in 1..n : s[o + d] = tools[d]
       /\ Len(params) <= Len(s)
  <2>1. o \in Nat /\ o \in 1..Len(params)
    BY <1>1, <1>2
  <2>2. /\ s \in Seq(Param) /\ Len(s) = Len(params) + Len(tools)
        /\ \A l \in 1..Len(params) : s[l] = params[l]
        /\ \A d \in 1..Len(tools) : s[Len(params) + d] = tools[d]
    <3>1. params \in Seq(Param) /\ tools \in Seq(Param)
      BY <1>1, <1>14
    <3> QED BY ONLY <3>1, ConcatParts DEF s
  <2> HIDE DEF s
  <2> QED BY <1>8, <1>14, <2>1, <2>2
<1>19. /\ params[o].role = "assistant" /\ params[o].calls = calls /\ ClosedBefore(params, "tool", o)
  BY <1>2, <1>5 DEF calls
<1>20. Answering(s, "tool", o, n, calls)
  <2> HIDE DEF s, o
  <2>1. \A d \in 1..n : s[o + d].role = "tool" /\ s[o + d].id = result[k + d].id
    BY <1>13, <1>18
  <2> QED BY <1>9, <2>1 DEF Answering
<1> HIDE DEF s, o
<1>21. Behind(s, "tool") /\ ClosedBefore(s, "tool", Len(s) + 1)
  <2>1. Len(s) = o + Len(params[o].calls) /\ Answering(s, "tool", o, Len(params[o].calls), params[o].calls)
    BY <1>18, <1>19, <1>20 DEF n
  <2>2. HasCalls(params)
    BY <1>1, ParamsHaveCalls
  <2> QED BY <1>1, <1>18, <1>19, <2>1, <2>2, Answered
<1>22. Bridged(params) => Bridged(s)
  <2>1. Bridged(tools)
    BY <1>13, <1>14 DEF Bridged
  <2>2. tools[1].role # "user"
    BY <1>8, <1>13
  <2> QED BY <1>1, <1>14, <2>1, <2>2, BridgedConcat DEF s
<1>23. params' = s \o tail
  BY <1>3 DEF s
<1>24. /\ params' \in Seq(Param) /\ Behind(params', "tool") /\ ClosedBefore(params', "tool", Len(params') + 1)
       /\ tail # <<>> => params'[Len(params')] = tail[Len(tail)]
  <2>1. HasCalls(s) /\ HasCalls(tail)
    BY <1>17, <1>18, ParamsHaveCalls
  <2>0. /\ \A l \in 1..Len(tail) : tail[l].role # "tool"
        /\ \A l \in 1..Len(tail) : l < Len(tail) /\ tail[l].role = "assistant" => tail[l].calls = <<>>
    BY <1>17
  <2>2. /\ s \o tail \in Seq(Param) /\ Behind(s \o tail, "tool")
        /\ tail # <<>> => (s \o tail)[Len(s \o tail)] = tail[Len(tail)]
        /\ (tail # <<>> /\ tail[Len(tail)].role = "assistant" /\ tail[Len(tail)].calls # <<>>)
           \/ ClosedBefore(s \o tail, "tool", Len(s \o tail) + 1)
    <3>1. s \in Seq(Param) /\ tail \in Seq(Param) /\ "tool" \in {"tool", "toolResult"}
      BY <1>17, <1>18
    <3> QED BY <1>21, <2>0, <2>1, <3>1, Appending
  <2> QED BY <1>17, <1>23, <2>2
<1>25. target.bridge => Bridged(params')
  <2> SUFFICES ASSUME target.bridge PROVE Bridged(params')
    OBVIOUS
  <2>1. DOMAIN params = 1..Len(params)
    BY <1>1
  <2>2. Bridged(params)
    BY <2>1 DEF BridgeInv, ResultsAreBridged, Bridged
  <2> QED BY <1>17, <1>18, <1>22, <1>23, <2>2, BridgedConcat
<1>26. BridgeInv'
  <2>1. ASSUME params'[Len(params')].role = "tool" PROVE lastRole' = "toolResult"
    BY <1>3, <1>17, <1>24, <2>1
  <2>2. DOMAIN params' = 1..Len(params')
    BY <1>24
  <2> QED BY <1>3, <1>25, <2>1, <2>2 DEF BridgeInv, ResultsAreBridged, Bridged
<1>27. i' = k + n + 1 /\ i' - 1 = k + n /\ i' \in 1..(Len(result) + 1)
  <2>1. k + n + 1 - 1 = k + n /\ k + n + 1 \in 1..(Len(result) + 1)
    BY <1>1, <1>4, <1>8, <1>9
  <2>2. i' = k + n + 1
    BY <1>3, <1>7
  <2>3. i' - 1 = k + n
    BY <1>4, <1>8, <2>2
  <2>4. i' \in 1..(Len(result) + 1)
    BY ONLY <2>1, <2>2
  <2> QED BY <2>2, <2>3, <2>4
<1>28. result'[i' - 1].role = "toolResult"
  <2>1. n \in 1..n
    BY <1>8
  <2> QED BY <1>3, <1>9, <1>27, <2>1
<1>29. i' <= Len(result') => result'[i'].role # "toolResult"
  <2> SUFFICES ASSUME i' <= Len(result') PROVE result'[i'].role # "toolResult"
    OBVIOUS
  <2>1. k + n < Len(result)
    BY <1>1, <1>3, <1>4, <1>8, <1>27
  <2> QED BY <1>3, <1>9, <1>27, <2>1
<1>30. ~Awaiting' /\ AllClosed'
  BY <1>2, <1>3, <1>28 DEF Awaiting, AllClosed
<1>31. ConvertInv'
  BY <1>3, <1>24, <1>29, <1>30 DEF ConvertInv
<1>32. lastRole' \in {"null", "user", "assistant", "toolResult"}
  BY <1>3
<1> QED BY <1>3, <1>24, <1>26, <1>27, <1>31, <1>32

--------------------------------------------------------------------------------
(* Theorems *)

(* The invariants hold at first. *)
LEMMA RequestInit == Init => RequestInv /\ BridgeInv
<1> SUFFICES ASSUME Init PROVE RequestInv /\ BridgeInv
  OBVIOUS
<1>1. /\ target \in Targets /\ input = <<>> /\ toolCallIdMap = [c \in CallId |-> c]
      /\ result = <<>> /\ pendingToolCalls = <<>> /\ existingToolResultIds = {}
      /\ phase = "transform" /\ i = 1 /\ params = <<>> /\ lastRole = "null"
  BY DEF Init
<1>2. TypesInv
  BY <1>1 DEF TypesInv
<1>3. Behind(result, "toolResult") /\ Behind(params, "tool") /\ AllClosed
  BY <1>1 DEF Behind, AllClosed, ClosedBefore
<1>4. TransformInv
  BY <1>1, <1>3 DEF TransformInv
<1>5. ConvertInv
  BY <1>1, <1>3 DEF ConvertInv
<1>6. BridgeInv
  BY <1>1 DEF BridgeInv, ResultsAreBridged
<1> QED BY <1>2, <1>3, <1>4, <1>5, <1>6 DEF RequestInv

(* transformMessages keeps the invariants, message by message. *)
LEMMA Taken ==
  ASSUME RequestInv, BridgeInv, NEW m \in Message, Take(m)
  PROVE  RequestInv' /\ BridgeInv'
<1>1. /\ phase = "transform" /\ MayFollow(m) /\ input' = Append(input, m)
      /\ target' = target /\ phase' = phase /\ i' = i /\ params' = params /\ lastRole' = lastRole
  BY DEF Take
<1>2. TypesInv
  BY DEF RequestInv
<1>3. /\ result' \in Seq(Transformed) /\ Behind(result, "toolResult")' /\ TransformInv'
      /\ pendingToolCalls' \in Seq(CallId) /\ existingToolResultIds' \subseteq CallId
      /\ toolCallIdMap' \in [CallId -> CallId]
      /\ \A c \in CallId : toolCallIdMap'[c] \in {c, Normalize[c]}
  <2>1. CASE m.role = "assistant" /\ TakeAssistant(m)
    <3>1. toolCallIdMap' = learnedIds(m)
      BY <2>1 DEF TakeAssistant
    <3>2. /\ toolCallIdMap' \in [CallId -> CallId]
          /\ \A c \in CallId : toolCallIdMap'[c] \in {c, Normalize[c]}
      BY <1>2, <2>1, <3>1, IdsLearned
    <3> QED BY <1>1, <2>1, <3>2, AssistantTaken
  <2>2. CASE m.role = "toolResult" /\ TakeResult(m)
    <3>1. toolCallIdMap' = toolCallIdMap
      BY <2>2 DEF TakeResult
    <3> QED BY <1>1, <1>2, <2>2, <3>1, ResultTaken DEF TypesInv
  <2>3. CASE m.role = "user" /\ TakeUser(m)
    <3>1. toolCallIdMap' = toolCallIdMap
      BY <2>3 DEF TakeUser
    <3> QED BY <1>1, <1>2, <2>3, <3>1, UserTaken DEF TypesInv
  <2> QED BY <2>1, <2>2, <2>3 DEF Take
<1>4. i = 1 /\ params = <<>> /\ lastRole = "null"
  BY <1>1 DEF RequestInv, ConvertInv
<1>5. i' \in 1..(Len(result') + 1)
  <2>1. Len(result') \in Nat
    BY <1>3
  <2> QED BY <1>1, <1>4, <2>1
<1>6. input' \in Seq(Message)
  BY <1>1, <1>2, InputGrows
<1>7. TypesInv'
  BY <1>1, <1>2, <1>3, <1>5, <1>6 DEF TypesInv
<1>8. ConvertInv'
  BY <1>1, <1>4 DEF ConvertInv, Behind
<1>9. BridgeInv'
  BY <1>1, <1>4 DEF BridgeInv, ResultsAreBridged
<1> QED BY <1>3, <1>7, <1>8, <1>9 DEF RequestInv

(* The end of the transcript: no call is left open. *)
LEMMA Ended ==
  ASSUME RequestInv, BridgeInv, TranscriptEnds
  PROVE  RequestInv' /\ BridgeInv'
<1>1. /\ phase = "transform" /\ phase' = "convert" /\ result' = result \o syntheticToolResults
      /\ pendingToolCalls' = <<>> /\ existingToolResultIds' = existingAfterInsert
      /\ target' = target /\ input' = input /\ toolCallIdMap' = toolCallIdMap
      /\ i' = i /\ params' = params /\ lastRole' = lastRole
  BY DEF TranscriptEnds
<1>2. TypesInv /\ Behind(result, "toolResult") /\ TransformInv
  BY DEF RequestInv
<1>3. i = 1 /\ params = <<>> /\ lastRole = "null"
  BY <1>1 DEF RequestInv, ConvertInv
<1>4. /\ result' \in Seq(Transformed) /\ Behind(result', "toolResult")
      /\ ClosedBefore(result', "toolResult", Len(result') + 1)
  BY <1>1, <1>2, Flushed
<1>5. AllClosed' /\ Behind(result, "toolResult")' /\ TransformInv'
  BY <1>1, <1>4 DEF AllClosed, TransformInv
<1>6. existingToolResultIds' \subseteq CallId /\ pendingToolCalls' \in Seq(CallId) /\ i' \in 1..(Len(result') + 1)
  <2>1. Len(result') \in Nat
    BY <1>4
  <2>2. i' \in 1..(Len(result') + 1)
    BY <1>1, <1>3, <2>1
  <2> QED BY <1>1, <1>2, <2>2 DEF existingAfterInsert, TypesInv
<1>7. TypesInv'
  BY <1>1, <1>2, <1>4, <1>6 DEF TypesInv
<1>8. ~Awaiting' /\ ClosedBefore(params', "tool", Len(params') + 1) /\ Behind(params', "tool")
  BY <1>1, <1>3 DEF Awaiting, ClosedBefore, Behind
<1>9. ConvertInv'
  BY <1>1, <1>3, <1>5, <1>8 DEF ConvertInv
<1>10. BridgeInv'
  BY <1>1, <1>3 DEF BridgeInv, ResultsAreBridged
<1> QED BY <1>5, <1>7, <1>9, <1>10 DEF RequestInv

(* convertMessages keeps the invariants, message by message. *)
LEMMA Converted ==
  ASSUME RequestInv, BridgeInv, Convert
  PROVE  RequestInv' /\ BridgeInv'
<1>1. /\ phase = "convert" /\ i <= Len(result) /\ (ConvertUser \/ ConvertAssistant \/ ConvertResults)
      /\ UNCHANGED <<target, transformVars, phase>>
  BY DEF Convert
<1>2. /\ params' \in Seq(Param) /\ i' \in 1..(Len(result') + 1)
      /\ lastRole' \in {"null", "user", "assistant", "toolResult"}
      /\ ConvertInv' /\ BridgeInv'
  BY <1>1, UserConverted, AssistantConverted, ResultsConverted DEF Convert
<1>3. /\ target' = target /\ input' = input /\ toolCallIdMap' = toolCallIdMap /\ result' = result
      /\ pendingToolCalls' = pendingToolCalls /\ existingToolResultIds' = existingToolResultIds /\ phase' = phase
  BY <1>1 DEF transformVars, Convert
<1>4. TypesInv'
  BY <1>2, <1>3 DEF TypesInv, RequestInv
<1>5. Behind(result, "toolResult")'
  BY <1>3 DEF RequestInv
<1>6. TransformInv'
  BY <1>1, <1>3 DEF TransformInv, Convert
<1> QED BY <1>2, <1>4, <1>5, <1>6 DEF RequestInv

(* Sending the request keeps the invariants. *)
LEMMA SentOff ==
  ASSUME RequestInv, BridgeInv, Send
  PROVE  RequestInv' /\ BridgeInv'
<1>1. /\ phase = "convert" /\ phase' = "sent" /\ i > Len(result)
      /\ target' = target /\ input' = input /\ toolCallIdMap' = toolCallIdMap /\ result' = result
      /\ pendingToolCalls' = pendingToolCalls /\ existingToolResultIds' = existingToolResultIds
      /\ i' = i /\ params' = params /\ lastRole' = lastRole
  BY DEF Send, transformVars
<1>2. i = Len(result) + 1
  BY <1>1 DEF RequestInv, TypesInv
<1>3. TypesInv'
  BY <1>1 DEF TypesInv, RequestInv
<1>4. Behind(result, "toolResult")' /\ TransformInv'
  BY <1>1 DEF RequestInv, TransformInv
<1>5. ConvertInv'
  BY <1>1, <1>2 DEF RequestInv, ConvertInv, Awaiting, AllClosed
<1>6. BridgeInv'
  BY <1>1 DEF BridgeInv, ResultsAreBridged
<1> QED BY <1>3, <1>4, <1>5, <1>6 DEF RequestInv

(* The invariants hold in every state that the transformation and the conversion reach. *)
THEOREM RequestInvariance == Spec => [](RequestInv /\ BridgeInv)
<1>1. Init => RequestInv /\ BridgeInv
  BY RequestInit
<1>2. RequestInv /\ BridgeInv /\ [Next]_vars => (RequestInv /\ BridgeInv)'
  <2> SUFFICES ASSUME RequestInv, BridgeInv, [Next]_vars PROVE RequestInv' /\ BridgeInv'
    OBVIOUS
  <2>1. CASE \E m \in Message : Take(m)
    BY <2>1, Taken
  <2>2. CASE TranscriptEnds
    BY <2>2, Ended
  <2>3. CASE Convert
    BY <2>3, Converted
  <2>4. CASE Send
    BY <2>4, SentOff
  <2>5. CASE UNCHANGED vars
    <3>1. /\ target' = target /\ input' = input /\ toolCallIdMap' = toolCallIdMap /\ result' = result
          /\ pendingToolCalls' = pendingToolCalls /\ existingToolResultIds' = existingToolResultIds
          /\ phase' = phase /\ i' = i /\ params' = params /\ lastRole' = lastRole
      BY <2>5 DEF vars, transformVars
    <3>2. TypesInv' /\ Behind(result, "toolResult")'
      BY <3>1 DEF RequestInv, TypesInv
    <3>3. TransformInv'
      BY <3>1 DEF RequestInv, TransformInv, IsOwner, Waiting, AllClosed
    <3>4. ConvertInv'
      BY <3>1 DEF RequestInv, ConvertInv, Awaiting, AllClosed
    <3>5. BridgeInv'
      BY <3>1 DEF BridgeInv, ResultsAreBridged
    <3> QED BY <3>2, <3>3, <3>4, <3>5 DEF RequestInv
  <2> QED BY <2>1, <2>2, <2>3, <2>4, <2>5 DEF Next
<1> QED BY <1>1, <1>2, PTL DEF Spec

(* In a request that is sent all calls are answered, and told in the terms of RequestIsPaired. *)
LEMMA SentIsPaired == RequestInv => RequestIsPaired
<1> SUFFICES ASSUME RequestInv, phase = "sent", NEW k \in DOMAIN params
             PROVE  /\ params[k].role = "tool" => k > 1 /\ params[k - 1].role \in {"tool", "assistant"}
                    /\ params[k].role = "assistant" =>
                         LET n == Len(params[k].calls)
                         IN /\ k + n <= Len(params)
                            /\ {params[k + d] : d \in 1..n} \subseteq
                                 [role: {"tool"}, id: Range(params[k].calls), real: BOOLEAN]
                            /\ Cardinality({params[k + d].id : d \in 1..n}) = n
                            /\ k + n < Len(params) => params[k + n + 1].role # "tool"
  BY DEF RequestIsPaired
<1>1. /\ result \in Seq(Transformed) /\ Len(result) \in Nat /\ i = Len(result) + 1
      /\ params \in Seq(Param) /\ Len(params) \in Nat /\ Behind(params, "tool") /\ AllClosed
  BY DEF RequestInv, TypesInv, ConvertInv
<1>2. k \in 1..Len(params) /\ k \in Nat
  BY <1>1
<1>3. ~Awaiting
  <2> SUFFICES ASSUME Awaiting PROVE FALSE
    OBVIOUS
  <2>1. PICK l \in 1..Len(result) : l = i - 1 /\ l = Len(result) /\ l < Len(result) + 1
    BY <1>1 DEF Awaiting
  <2>2. result[l].role = "assistant" /\ result[l].calls # <<>>
    BY <2>1 DEF Awaiting
  <2>3. Closed(result, "toolResult", l)
    BY <1>1, <2>1, <2>2 DEF AllClosed, ClosedBefore
  <2>4. result[l].calls \in Seq(CallId)
    BY <1>1, <2>2, TransformedHaveCalls DEF HasCalls
  <2>5. Len(result[l].calls) \in Nat /\ Len(result[l].calls) # 0
    BY <2>2, <2>4
  <2>6. l + Len(result[l].calls) <= Len(result)
    BY <2>3 DEF Closed
  <2> QED BY <1>1, <2>1, <2>5, <2>6
<1>4. ClosedBefore(params, "tool", Len(params) + 1)
  BY <1>3 DEF RequestInv, ConvertInv
<1>5. params[k].role = "tool" => k > 1 /\ params[k - 1].role \in {"tool", "assistant"}
  BY <1>1, <1>2 DEF Behind
<1>6. ASSUME params[k].role = "assistant"
      PROVE  LET n == Len(params[k].calls)
             IN /\ k + n <= Len(params)
                /\ {params[k + d] : d \in 1..n} \subseteq
                     [role: {"tool"}, id: Range(params[k].calls), real: BOOLEAN]
                /\ Cardinality({params[k + d].id : d \in 1..n}) = n
                /\ k + n < Len(params) => params[k + n + 1].role # "tool"
  <2> DEFINE calls == params[k].calls
             n == Len(calls)
             g == [d \in 1..n |-> params[k + d].id]
  <2>1. calls \in Seq(CallId) /\ n \in Nat
    BY <1>1, <1>2, <1>6, ParamsHaveCalls DEF HasCalls
  <2>2. Closed(params, "tool", k)
    BY <1>1, <1>2, <1>4, <1>6 DEF ClosedBefore
  <2>3. /\ k + n <= Len(params) /\ (k + n < Len(params) => params[k + n + 1].role # "tool")
        /\ \A d \in 1..n : params[k + d].role = "tool" /\ params[k + d].id \in Range(calls)
        /\ \A d, e \in 1..n : params[k + d].id = params[k + e].id => d = e
    BY <2>2 DEF Closed, Answering
  <2> HIDE DEF calls, n
  <2>4. ASSUME NEW d \in 1..n
        PROVE  /\ params[k + d] \in [role: {"tool"}, id: Range(calls), real: BOOLEAN]
               /\ params[k + d].id \in CallId
    <3>1. k + d \in 1..Len(params)
      <4>1. k \in Nat /\ n \in Nat /\ Len(params) \in Nat /\ k + n <= Len(params)
        BY <1>1, <1>2, <2>1, <2>3
      <4> QED BY <4>1
    <3>2. params[k + d] \in Param /\ params[k + d].role = "tool" /\ params[k + d].id \in Range(calls)
      BY <1>1, <2>3, <3>1
    <3>3. params[k + d] \in [role: {"tool"}, id: CallId, real: BOOLEAN]
      BY <3>2 DEF Param
    <3> QED BY <3>2, <3>3
  <2>5. g \in Seq(CallId) /\ Len(g) = n /\ DOMAIN g = 1..n
    <3>1. g \in [1..n -> CallId]
      BY <2>4
    <3> HIDE DEF g
    <3> QED BY <2>1, <3>1
  <2>6. IsInjective(g)
    BY <2>3, <2>5 DEF IsInjective
  <2>7. Range(g) = {params[k + d].id : d \in 1..n}
    BY <2>5 DEF Range
  <2>8. Cardinality(Range(g)) = n
    <3> HIDE DEF g
    <3> QED BY <2>5, <2>6, InjectiveCount
  <2>9. Cardinality({params[k + d].id : d \in 1..n}) = n
    BY <2>7, <2>8
  <2> QED BY <2>3, <2>4, <2>9 DEF n, calls
<1> QED BY <1>5, <1>6

(* A request pairs every tool call with exactly one result, right behind the *)
(* message that made it, whatever was aborted, failed or came from another   *)
(* model (transformMessages, convertMessages).                               *)
THEOREM RequestPaired == Spec => []RequestIsPaired
<1>1. RequestInv /\ BridgeInv => RequestIsPaired
  BY SentIsPaired
<1> QED BY <1>1, RequestInvariance, PTL

(* For a provider that wants it there is an assistant message between tool   *)
(* results and a user message (compat.requiresAssistantAfterToolResult).     *)
THEOREM ResultsBridged == Spec => []ResultsAreBridged
<1>1. RequestInv /\ BridgeInv => ResultsAreBridged
  BY DEF BridgeInv
<1> QED BY <1>1, RequestInvariance, PTL

--------------------------------------------------------------------------------
(* The transcript in the request: the invariants *)

(* Message w of a transcript is the last before position k that is not a result. *)
Owns(s, w, k) ==
  /\ w \in 1..Len(s) /\ w < k /\ s[w].role # "toolResult"
  /\ \A l \in (w + 1)..k : s[l].role = "toolResult"

(* Results belong to a message that was completed. *)
OwnersInv ==
  \A k \in 1..Len(input) : input[k].role = "toolResult" =>
    \E w \in 1..Len(input) :
      Owns(input, w, k) /\ input[w].role = "assistant" /\ input[w].stop = "ok"

(* What the target gets of message k of a transcript. *)
Form(t, k) ==
  LET m == t[k]
  IN CASE m.role = "user" -> m
       [] m.role = "assistant" -> transformAssistant(m)
       [] m.role = "toolResult" ->
            [role |-> "toolResult",
             id |-> IF t[Owner(t, k)].same THEN m.id ELSE Normalize[m.id],
             image |-> m.image /\ target.vision,
             real |-> TRUE]

(* How a transformed message is sent, and whether. *)
Wire(x) ==
  CASE x.role = "user" -> x
    [] x.role = "assistant" -> [role |-> "assistant", body |-> x.body, calls |-> x.calls]
    [] x.role = "toolResult" -> [role |-> "tool", id |-> x.id, real |-> x.real]

Emits(x) ==
  CASE x.role = "user" -> x.content # "none"
    [] x.role = "assistant" -> x.calls # <<>> \/ hasContent(x.body)
    [] x.role = "toolResult" -> x.real

Genuine(x) == x.role = "toolResult" => x.real

Complete(m) == m.role = "assistant" => m.stop = "ok"

(* The messages that are kept, among those of the transcript and among the transformed ones. *)
Told == {k \in 1..Len(input) : Complete(input[k])}

Got(s) == {r \in 1..Len(s) : Genuine(s[r])}

(* Those that were sent, among the transformed messages and in the request. *)
Emitted == {r \in 1..(i - 1) : Emits(result[r])}

Heard(s) == {p \in 1..Len(s) : FromTranscript(s[p])}

(* The messages whose batch of results had pictures, and the pictures. *)
Shown == {h \in 1..(i - 1) : \E r \in 1..(i - 1) : Owns(result, h, r) /\ result[r].image}

Pictures(s) == {p \in 1..Len(s) : s[p] = Images}

(* At the positions to, s has what f has at the positions from, in order. *)
Tells(s, from, to, f) ==
  \E at \in [from -> to] : InStep(at, from, to) /\ \A k \in from : s[at[k]] = f[k]

InputKept == Tells(result, Told, Got(result), [k \in Told |-> Form(input, k)])

OutputKept == Tells(params, Emitted, Heard(params), [r \in Emitted |-> Wire(result[r])])

ImagesKept == Tells(params, Shown, Pictures(params), [h \in Shown |-> Images])

(* A synthetic result has no picture. *)
ImagesAreReal == \A r \in 1..Len(result) : result[r].role = "toolResult" /\ result[r].image => result[r].real

KeptInv == OwnersInv /\ InputKept /\ OutputKept /\ ImagesKept /\ ImagesAreReal

--------------------------------------------------------------------------------
(* Positions in step *)

(* Nothing is told by nothing. *)
LEMMA NothingTold ==
  ASSUME NEW s, NEW from, from = {}, NEW to, to = {}, NEW f
  PROVE  Tells(s, from, to, f)
<1> DEFINE at == [k \in from |-> k]
<1>1. at \in [from -> to]
  OBVIOUS
<1>2. InStep(at, from, to)
  BY DEF InStep
<1> QED BY <1>1, <1>2 DEF Tells

(* A set of numbers, and others at a distance. *)
IsWithAll(S2, S, more, far) == S2 = S \cup {a + far : a \in more}

(* More is told: the positions more, higher than all others, at a distance. *)
LEMMA MoreTold ==
  ASSUME NEW s, NEW from \in SUBSET Nat, NEW to \in SUBSET Nat, NEW f, Tells(s, from, to, f),
         NEW more \in SUBSET Nat, NEW far \in Int,
         \A k \in from, a \in more : k < a,
         \A p \in to, a \in more : p < a + far,
         NEW s2, NEW from2, NEW to2, NEW f2,
         IsWithAll(from2, from, more, 0), IsWithAll(to2, to, more, far),
         \A p \in to : s2[p] = s[p],
         \A k \in from : f2[k] = f[k],
         \A a \in more : s2[a + far] = f2[a]
  PROVE  Tells(s2, from2, to2, f2)
<1>0. from2 = from \cup more /\ to2 = to \cup {a + far : a \in more}
  <2>1. {a + 0 : a \in more} = more
    <3>1. \A a \in more : a + 0 = a
      OBVIOUS
    <3> QED BY <3>1
  <2> QED BY <2>1 DEF IsWithAll
<1>1. PICK at \in [from -> to] : InStep(at, from, to) /\ \A k \in from : s[at[k]] = f[k]
  BY DEF Tells
<1> DEFINE at2 == [k \in from2 |-> IF k \in from THEN at[k] ELSE k + far]
<1>2. \A k \in from : at2[k] = at[k] /\ at[k] \in to /\ k \in from2
  BY <1>0, <1>1
<1>3. \A a \in more : a \notin from /\ a \in from2 /\ at2[a] = a + far
  <2>1. \A a \in more : a \notin from
    <3> SUFFICES ASSUME NEW a \in more, a \in from PROVE FALSE
      OBVIOUS
    <3>1. a < a /\ a \in Nat
      OBVIOUS
    <3> QED BY <3>1
  <2> QED BY <1>0, <2>1
<1>4. at2 \in [from2 -> to2]
  <2> SUFFICES ASSUME NEW k \in from2 PROVE at2[k] \in to2
    OBVIOUS
  <2> QED BY <1>0, <1>2, <1>3
<1>5. \A k \in from2 : k \in from \/ k \in more
  BY <1>0
<1> HIDE DEF at2
<1>6. {at2[k] : k \in from2} = to2
  <2>1. \A p \in to : \E k \in from : at2[k] = p
    BY <1>1, <1>2 DEF InStep
  <2>2. \A a \in more : \E k \in from2 : at2[k] = a + far
    BY <1>3
  <2>3. \A p \in to : \E k \in from2 : at2[k] = p
    BY <1>2, <2>1
  <2>4. \A p \in to2 : p \in to \/ \E a \in more : p = a + far
    BY <1>0
  <2>5. \A p \in to2 : \E k \in from2 : at2[k] = p
    BY ONLY <2>2, <2>3, <2>4
  <2> QED BY ONLY <1>4, <2>5
<1>7. ASSUME NEW k \in from2, NEW l \in from2, k < l PROVE at2[k] < at2[l]
  <2>1. CASE k \in from /\ l \in from
    BY <1>1, <1>2, <1>7, <2>1 DEF InStep
  <2>2. CASE k \in from /\ l \in more
    <3>1. at2[k] \in to /\ at2[l] = l + far
      BY <1>2, <1>3, <2>2
    <3>2. at2[k] < l + far
      BY <2>2, <3>1
    <3> QED BY <3>1, <3>2
  <2>3. CASE k \in more /\ l \in more
    <3>1. k \in Nat /\ l \in Nat /\ at2[k] = k + far /\ at2[l] = l + far
      BY <1>3, <2>3
    <3> QED BY <1>7, <3>1
  <2>4. CASE k \in more /\ l \in from
    <3>1. l < k /\ k \in Nat /\ l \in Nat
      BY <2>4
    <3> QED BY <1>7, <3>1
  <2> QED BY <1>5, <2>1, <2>2, <2>3, <2>4
<1>8. \A k \in from2 : s2[at2[k]] = f2[k]
  <2>1. ASSUME NEW k \in from PROVE s2[at2[k]] = f2[k]
    <3>1. at2[k] = at[k] /\ at[k] \in to /\ s[at[k]] = f[k]
      BY <1>1, <1>2
    <3>2. s2[at[k]] = s[at[k]] /\ f2[k] = f[k]
      BY <3>1
    <3> QED BY ONLY <3>1, <3>2
  <2>2. \A a \in more : s2[at2[a]] = f2[a]
    BY <1>3
  <2> QED BY <1>5, <2>1, <2>2
<1> QED BY <1>4, <1>6, <1>7, <1>8 DEF Tells, InStep

(* The same is told, also when messages were put behind it. *)
LEMMA SameTold ==
  ASSUME NEW s, NEW from, NEW to, NEW f, Tells(s, from, to, f),
         NEW s2, NEW from2, NEW to2, NEW f2, from2 = from, to2 = to,
         \A p \in to : s2[p] = s[p],
         \A k \in from : f2[k] = f[k]
  PROVE  Tells(s2, from2, to2, f2)
<1>1. PICK at \in [from -> to] : InStep(at, from, to) /\ \A k \in from : s[at[k]] = f[k]
  BY DEF Tells
<1>2. \A k \in from : s2[at[k]] = f2[k]
  BY <1>1
<1> QED BY <1>1, <1>2 DEF Tells

(* A set, and one element more. *)
IsWith(S2, S, x) == S2 = S \cup {x}

(* One more is told. *)
LEMMA OneMoreTold ==
  ASSUME NEW s, NEW from \in SUBSET Nat, NEW to \in SUBSET Nat, NEW f, Tells(s, from, to, f),
         NEW k \in Nat, NEW p \in Nat,
         \A l \in from : l < k, \A q \in to : q < p,
         NEW s2, NEW from2, NEW to2, NEW f2, IsWith(from2, from, k), IsWith(to2, to, p),
         \A q \in to : s2[q] = s[q],
         \A l \in from : f2[l] = f[l],
         s2[p] = f2[k]
  PROVE  Tells(s2, from2, to2, f2)
<1> DEFINE more == {k}
           far == p - k
<1>1. more \in SUBSET Nat /\ far \in Int /\ \A a \in more : a = k /\ a + far = p
  OBVIOUS
<1>2. {a + far : a \in more} = {p} /\ {a + 0 : a \in more} = {k}
  BY <1>1
<1>3. /\ \A l \in from, a \in more : l < a
      /\ \A q \in to, a \in more : q < a + far
      /\ \A a \in more : s2[a + far] = f2[a]
  BY <1>1
<1>4. IsWithAll(from2, from, more, 0) /\ IsWithAll(to2, to, more, far)
  BY <1>2 DEF IsWith, IsWithAll
<1> HIDE DEF more, far
<1> QED BY <1>1, <1>3, <1>4, MoreTold

(* Positions in step are equally many. *)
LEMMA EquallyMany ==
  ASSUME NEW n \in Nat, NEW from \in SUBSET (1..n), NEW to \in SUBSET Nat, NEW at \in [from -> to], InStep(at, from, to)
  PROVE  Cardinality(to) = Cardinality(from)
<1>1. IsFiniteSet(from)
  <2>1. IsFiniteSet(1..n)
    BY FS_Interval
  <2> QED BY <2>1, FS_Subset
<1>2. \A k, l \in from : at[k] = at[l] => k = l
  <2> SUFFICES ASSUME NEW k \in from, NEW l \in from, at[k] = at[l], k # l PROVE FALSE
    OBVIOUS
  <2>1. k \in Nat /\ l \in Nat
    OBVIOUS
  <2>2. k < l \/ l < k
    BY <2>1
  <2>3. at[k] < at[k] /\ at[k] \in Nat
    BY <2>2 DEF InStep
  <2> QED BY <2>3
<1>3. \A p \in to : \E k \in from : at[k] = p
  BY DEF InStep
<1>4. at \in Bijection(from, to)
  BY ONLY <1>2, <1>3, at \in [from -> to] DEF Bijection, Injection, Surjection, IsInjective
<1>5. ExistsBijection(from, to)
  BY <1>4 DEF ExistsBijection
<1> QED BY <1>1, <1>5, FS_Bijection

--------------------------------------------------------------------------------
(* The messages that results belong to *)

(* Owner is the message that Owns tells of. *)
LEMMA OwnerIs ==
  ASSUME NEW T, NEW s \in Seq(T), NEW k \in 1..Len(s), NEW w, Owns(s, w, k)
  PROVE  Owner(s, k) = w
<1> DEFINE heads == {l \in 1..k : s[l].role # "toolResult"}
<1>1. Len(s) \in Nat /\ k \in Nat
  OBVIOUS
<1>2. w \in heads /\ \A l \in heads : l \in Int /\ w >= l
  <2>1. w \in 1..Len(s) /\ w < k /\ s[w].role # "toolResult" /\ \A l \in (w + 1)..k : s[l].role = "toolResult"
    BY DEF Owns
  <2>2. \A l \in 1..k : ~(w >= l) => l \in (w + 1)..k
    BY <1>1, <2>1
  <2> QED BY <1>1, <2>1, <2>2
<1>3. \A x \in heads : (\A l \in heads : x >= l) => x = w
  BY <1>2
<1>4. Max(heads) = w
  <2> HIDE DEF heads
  <2> QED BY <1>2, <1>3 DEF Max
<1>5. heads # {}
  BY <1>2
<1> QED BY <1>4, <1>5 DEF Owner

(* A transcript that grows changes nothing of that. *)
LEMMA OwnsStays ==
  ASSUME NEW T, NEW s \in Seq(T), NEW u \in Seq(T), Len(s) <= Len(u), \A l \in 1..Len(s) : u[l] = s[l],
         NEW k \in 1..Len(s), NEW w
  PROVE  Owns(u, w, k) <=> Owns(s, w, k)
<1>1. Len(s) \in Nat /\ Len(u) \in Nat /\ k \in Nat
  OBVIOUS
<1>2. ASSUME w \in Nat, 1 <= w, w < k
      PROVE  w \in 1..Len(s) /\ w \in 1..Len(u) /\ \A l \in (w + 1)..k : l \in 1..Len(s)
  BY <1>1, <1>2
<1> QED BY <1>1, <1>2 DEF Owns

(* The messages taken earlier are sent as before. *)
LEMMA FormStays ==
  ASSUME TypesInv, OwnersInv, NEW u \in Seq(Message),
         Len(input) <= Len(u), \A l \in 1..Len(input) : u[l] = input[l],
         NEW k \in 1..Len(input)
  PROVE  Form(u, k) = Form(input, k)
<1>1. input \in Seq(Message) /\ Len(input) \in Nat /\ Len(u) \in Nat /\ k \in 1..Len(u) /\ u[k] = input[k]
  BY DEF TypesInv
<1>2. CASE input[k].role = "toolResult"
  <2>1. PICK w \in 1..Len(input) : Owns(input, w, k)
    BY <1>2 DEF OwnersInv
  <2>2. Owns(u, w, k)
    BY <1>1, <2>1, OwnsStays
  <2>3. Owner(input, k) = w /\ Owner(u, k) = w /\ u[w] = input[w]
    BY <1>1, <2>1, <2>2, OwnerIs
  <2> QED BY <1>1, <1>2, <2>3 DEF Form
<1>3. CASE input[k].role # "toolResult"
  BY <1>1, <1>3, Messages DEF Form
<1> QED BY <1>2, <1>3

(* The results that insertSyntheticToolResults makes say so, and have no pictures. *)
LEMMA ForgedTail ==
  ASSUME TypesInv, TransformInv, phase = "transform"
  PROVE  syntheticToolResults \in Seq(Forged)
<1>1. IsInjective(pendingToolCalls) /\ pendingToolCalls \in Seq(CallId)
  <2>1. pendingToolCalls \in Seq(CallId)
    BY DEF TypesInv
  <2>2. CASE pendingToolCalls = <<>>
    BY <2>1, <2>2 DEF IsInjective
  <2>3. ASSUME NEW w \in 1..Len(input), NEW o \in 1..Len(result), Waiting(w, o) PROVE IsInjective(pendingToolCalls)
    <3>1. input[w] \in Message /\ input[w].role = "assistant" /\ pendingToolCalls = transformedCalls(input[w])
      BY <2>3 DEF TypesInv, Waiting, Calling
    <3> QED BY <3>1, CallsDiffer
  <2> QED BY <2>1, <2>2, <2>3 DEF TransformInv
<1>2. PICK r : r = syntheticToolResults
  OBVIOUS
<1>3. r = synthetic(pendingToolCalls, existingToolResultIds)
  BY <1>2 DEF syntheticToolResults
<1>4. r \in Seq(Forged)
  BY <1>1, <1>3, SyntheticMade
<1> QED BY <1>2, <1>4

(* A result arrives behind the message of its call, and is renamed like that call. *)
LEMMA ResultForm ==
  ASSUME RequestInv, OwnersInv, phase = "transform", NEW m \in Message, m.role = "toolResult", MayFollow(m),
         input' = Append(input, m)
  PROVE  /\ transformResult(m) = Form(input', Len(input) + 1)
         /\ \E w \in 1..Len(input) :
              Owns(input', w, Len(input) + 1) /\ input[w].role = "assistant" /\ input[w].stop = "ok"
<1> DEFINE own == Owner(input, Len(input))
           n == Len(input)
<1>1. TypesInv /\ TransformInv
  BY DEF RequestInv
<1>2. input' \in Seq(Message) /\ n \in Nat /\ Len(input') = n + 1 /\ input'[n + 1] = m /\ \A k \in 1..n : input'[k] = input[k]
  BY <1>1, InputGrows
<1>3. /\ own # 0 /\ input[own].role = "assistant" /\ input[own].stop = "ok" /\ m.id \in Range(input[own].calls)
  BY DEF MayFollow
<1>4. input # <<>>
  <2>1. ASSUME input = <<>> PROVE own = 0
    <3>1. {k \in 1..Len(input) : input[k].role # "toolResult"} = {}
      BY <2>1
    <3> QED BY <3>1 DEF Owner
  <2> QED BY <1>3, <2>1
<1>5. PICK w \in 1..Len(input) :
        /\ IsOwner(w)
        /\ \/ ~Calling(input[w]) /\ w = Len(input) /\ pendingToolCalls = <<>> /\ AllClosed
           \/ \E o \in 1..Len(result) : Waiting(w, o)
  BY <1>1, <1>4 DEF TransformInv
<1>6. own = w
  BY <1>1, <1>5, OwnerFound
<1> HIDE DEF own
<1>7. Calling(input[w])
  <2>1. input[w].calls # <<>>
    BY <1>3, <1>6 DEF Range
  <2> QED BY <1>3, <1>6, <2>1 DEF Calling
<1>8. PICK o \in 1..Len(result) : Waiting(w, o)
  BY <1>5, <1>7
<1>9. /\ pendingToolCalls = transformedCalls(input[w])
      /\ \A j \in 1..Len(pendingToolCalls) : toolCallIdMap[input[w].calls[j]] = pendingToolCalls[j]
  BY <1>8 DEF Waiting
<1>10. input[w] \in Message /\ input[w].role = "assistant"
  BY <1>1, <1>3, <1>6 DEF TypesInv
<1>11. PICK j \in 1..Len(input[w].calls) : m.id = input[w].calls[j]
  <2>1. DOMAIN input[w].calls = 1..Len(input[w].calls)
    BY <1>10, CallsDiffer
  <2> QED BY <1>3, <1>6, <2>1 DEF Range
<1>12. toolCallIdMap[m.id] = IF input[w].same THEN m.id ELSE Normalize[m.id]
  BY <1>9, <1>10, <1>11, CallsDiffer
<1>13. Owns(input', w, n + 1)
  <2>1. w \in Nat /\ w <= n /\ w \in 1..Len(input') /\ w < n + 1 /\ input'[w].role # "toolResult"
    BY <1>2, <1>5 DEF IsOwner
  <2>2. ASSUME NEW l \in (w + 1)..(n + 1) PROVE input'[l].role = "toolResult"
    <3>1. CASE l = n + 1
      BY <1>2, <3>1
    <3>2. CASE l \in (w + 1)..n
      <4>1. l \in 1..n /\ input[l].role = "toolResult"
        BY <2>1, <3>2, <1>5 DEF IsOwner
      <4> QED BY <1>2, <4>1
    <3> QED BY <1>2, <2>1, <3>1, <3>2
  <2> QED BY <2>1, <2>2 DEF Owns
<1>14. Owner(input', n + 1) = w /\ input'[w] = input[w]
  <2>1. n + 1 \in 1..Len(input')
    BY <1>2
  <2> QED BY <1>2, <1>13, <2>1, OwnerIs
<1>15. Form(input', n + 1) =
         [role |-> "toolResult", id |-> toolCallIdMap[m.id], image |-> m.image /\ target.vision, real |-> TRUE]
  <2> HIDE DEF n
  <2>1. Form(input', n + 1) =
         [role |-> "toolResult", id |-> IF input[w].same THEN m.id ELSE Normalize[m.id],
          image |-> m.image /\ target.vision, real |-> TRUE]
    BY <1>2, <1>14 DEF Form
  <2> QED BY <1>12, <2>1
<1>16. transformResult(m) =
         [role |-> "toolResult", id |-> toolCallIdMap[m.id], image |-> m.image /\ target.vision, real |-> TRUE]
  <2>1. m \in ToolResult
    BY Messages
  <2>2. PICK v : v = (m.image /\ target.vision)
    OBVIOUS
  <2>3. transformResult(m) = [[m EXCEPT !.image = v] EXCEPT !.id = toolCallIdMap[m.id]]
    BY <2>1, <2>2 DEF transformResult, ToolResult
  <2>4. [[m EXCEPT !.image = v] EXCEPT !.id = toolCallIdMap[m.id]] =
         [role |-> "toolResult", id |-> toolCallIdMap[m.id], image |-> v, real |-> TRUE]
    <3> DEFINE y == [[m EXCEPT !.image = v] EXCEPT !.id = toolCallIdMap[m.id]]
               z == [role |-> "toolResult", id |-> toolCallIdMap[m.id], image |-> v, real |-> TRUE]
    <3>1. DOMAIN m = {"role", "id", "image", "real"} /\ m.role = "toolResult" /\ m.real = TRUE
      BY ONLY <2>1 DEF ToolResult
    <3>2. /\ DOMAIN y = DOMAIN m /\ y = [k \in DOMAIN m |-> y[k]]
          /\ y.role = "toolResult" /\ y.id = toolCallIdMap[m.id] /\ y.image = v /\ y.real = TRUE
      BY ONLY <3>1
    <3>3. /\ DOMAIN z = {"role", "id", "image", "real"} /\ z = [k \in DOMAIN z |-> z[k]]
          /\ z.role = "toolResult" /\ z.id = toolCallIdMap[m.id] /\ z.image = v /\ z.real = TRUE
      OBVIOUS
    <3> HIDE DEF y, z
    <3>4. \A k \in DOMAIN m : y[k] = z[k]
      BY ONLY <3>1, <3>2, <3>3
    <3>5. y = z
      BY ONLY <3>1, <3>2, <3>3, <3>4
    <3> QED BY <3>5 DEF y, z
  <2> QED BY <2>2, <2>3, <2>4
<1> QED BY <1>3, <1>6, <1>13, <1>15, <1>16

--------------------------------------------------------------------------------
(* transformMessages keeps the transcript *)

(* A concatenation, by a name of its own for the provers. *)
Joined(a, b) == a \o b

(* Synthetic results are not of the transcript. *)
LEMMA GotForged ==
  ASSUME NEW t \in Seq(Transformed), NEW q \in Seq(Forged), NEW u, u = Joined(t, q)
  PROVE  /\ u \in Seq(Transformed) /\ Len(u) \in Nat /\ Len(t) \in Nat /\ Len(t) <= Len(u)
         /\ \A r \in 1..Len(t) : u[r] = t[r]
         /\ \A r \in 1..Len(u) : r \in 1..Len(t) \/ u[r] \in Forged
         /\ Got(u) = Got(t)
<1>1. \A x \in Forged : x \in Transformed /\ x.role = "toolResult" /\ x.real = FALSE /\ x.image = FALSE
  BY DEF Forged, Transformed, Answer
<1>2. q \in Seq(Transformed)
  BY <1>1
<1>3. /\ u \in Seq(Transformed) /\ Len(u) = Len(t) + Len(q) /\ Len(t) \in Nat /\ Len(q) \in Nat
      /\ \A l \in 1..Len(t) : u[l] = t[l]
      /\ \A d \in 1..Len(q) : u[Len(t) + d] = q[d]
  BY <1>2, ConcatParts DEF Joined
<1>4. ASSUME NEW r \in 1..Len(u), r \notin 1..Len(t) PROVE u[r] \in Forged
  <2>1. PICK d \in 1..Len(q) : r = Len(t) + d
    <3>1. r - Len(t) \in 1..Len(q) /\ r = Len(t) + (r - Len(t))
      BY <1>3, <1>4
    <3> QED BY <3>1
  <2> QED BY <1>3, <2>1
<1>5. \A r \in 1..Len(t) : r \in 1..Len(u)
  BY <1>3
<1>6. \A r : r \in Got(u) <=> r \in Got(t)
  BY <1>1, <1>3, <1>4, <1>5 DEF Got, Genuine
<1>7. Got(u) = Got(t)
  BY <1>6
<1> QED BY <1>1, <1>3, <1>4, <1>7

(* A message of the transcript is. *)
LEMMA GotOne ==
  ASSUME NEW t \in Seq(Transformed), NEW x \in Transformed, Genuine(x), NEW u, u = Joined(t, <<x>>)
  PROVE  /\ u \in Seq(Transformed) /\ Len(u) = Len(t) + 1 /\ Len(t) \in Nat
         /\ \A r \in 1..Len(t) : u[r] = t[r]
         /\ u[Len(t) + 1] = x
         /\ Got(u) = Got(t) \cup {Len(t) + 1}
<1>1. /\ u \in Seq(Transformed) /\ Len(u) = Len(t) + 1 /\ Len(t) \in Nat
      /\ \A r \in 1..Len(t) : u[r] = t[r]
      /\ u[Len(t) + 1] = x
  BY DEF Joined
<1>2. \A r : r \in 1..Len(u) <=> r \in 1..Len(t) \/ r = Len(t) + 1
  BY <1>1
<1>3. \A r : r \in Got(u) <=> r \in Got(t) \/ r = Len(t) + 1
  BY <1>1, <1>2 DEF Got
<1> QED BY <1>1, <1>3

(* The messages of the transcript stay told when one more is taken. *)
LEMMA InputTold ==
  ASSUME RequestInv, OwnersInv, InputKept, ImagesAreReal, NEW m \in Message,
         input' = Append(input, m), target' = target,
         NEW q \in Seq(Forged), NEW x \in Transformed,
         Complete(m) => result' = (result \o q) \o <<x>> /\ x = Form(input', Len(input) + 1) /\ Genuine(x),
         ~Complete(m) => result' = result \o q
  PROVE  InputKept' /\ ImagesAreReal'
<1> DEFINE n == Len(input)
           f == [k \in Told |-> Form(input, k)]
           f2 == [k \in Told' |-> Form(input', k)]
<1>1. TypesInv /\ result \in Seq(Transformed) /\ Len(result) \in Nat
  BY DEF RequestInv, TypesInv
<1>2. /\ input' \in Seq(Message) /\ n \in Nat /\ Len(input') = n + 1 /\ input'[n + 1] = m
      /\ \A k \in 1..n : input'[k] = input[k]
  BY <1>1, InputGrows
<1>3. PICK t : t = Joined(result, q)
  OBVIOUS
<1>4. /\ t \in Seq(Transformed) /\ Len(t) \in Nat /\ Len(result) <= Len(t)
      /\ \A r \in 1..Len(result) : t[r] = result[r]
      /\ \A r \in 1..Len(t) : r \in 1..Len(result) \/ t[r] \in Forged
      /\ Got(t) = Got(result)
  <2>1. t \in Seq(Transformed) /\ Len(t) \in Nat /\ Len(result) <= Len(t)
    BY <1>1, <1>3, GotForged
  <2>2. \A r \in 1..Len(result) : t[r] = result[r]
    BY <1>1, <1>3, GotForged
  <2>3. \A r \in 1..Len(t) : r \in 1..Len(result) \/ t[r] \in Forged
    BY <1>1, <1>3, GotForged
  <2>4. Got(t) = Got(result)
    BY <1>1, <1>3, GotForged
  <2> QED BY <2>1, <2>2, <2>3, <2>4
<1>5. Tells(result, Told, Got(result), f)
  BY DEF InputKept
<1>6. InputKept' <=> Tells(result', Told', Got(result'), f2)
  BY DEF InputKept, Form
<1>7. \A k \in Told : k \in 1..n /\ f[k] = Form(input, k) /\ Form(input', k) = Form(input, k)
  <2>1. \A k \in 1..n : Form(input', k) = Form(input, k)
    <3>1. n <= Len(input')
      BY <1>2
    <3> QED BY ONLY <1>1, <1>2, <3>1, OwnersInv, FormStays
  <2> QED BY <2>1 DEF Told
<1>8. \A k : k \in 1..Len(input') <=> k \in 1..n \/ k = n + 1
  BY <1>2
<1>9. \A k : k \in Told' <=> k \in Told \/ (Complete(m) /\ k = n + 1)
  BY <1>2, <1>8 DEF Told
<1>10. \A k \in Told : f2[k] = f[k]
  BY <1>7, <1>9
<1>11. \A r \in Got(result) : r \in 1..Len(result) /\ t[r] = result[r]
  BY <1>4 DEF Got
<1>12. CASE ~Complete(m)
  <2>1. result' = t /\ Told' = Told
    BY <1>3, <1>9, <1>12 DEF Joined
  <2> HIDE DEF f, f2
  <2>2. Tells(result', Told', Got(result'), f2)
    BY ONLY <1>4, <1>5, <1>10, <1>11, <2>1, SameTold
  <2>3. ImagesAreReal'
    BY <1>4, <2>1 DEF ImagesAreReal, Forged
  <2> QED BY <1>6, <2>2, <2>3
<1>13. CASE Complete(m)
  <2>1. result' = Joined(t, <<x>>) /\ x = Form(input', n + 1) /\ Genuine(x) /\ Told' = Told \cup {n + 1}
    BY <1>3, <1>9, <1>13 DEF Joined
  <2>2. /\ Len(result') = Len(t) + 1 /\ result'[Len(t) + 1] = x
        /\ \A r \in 1..Len(t) : result'[r] = t[r]
        /\ Got(result') = Got(t) \cup {Len(t) + 1}
    <3>1. Len(result') = Len(t) + 1 /\ result'[Len(t) + 1] = x
      BY ONLY <1>4, <2>1, x \in Transformed, GotOne
    <3>2. \A r \in 1..Len(t) : result'[r] = t[r]
      BY ONLY <1>4, <2>1, x \in Transformed, GotOne
    <3>3. Got(result') = Got(t) \cup {Len(t) + 1}
      BY ONLY <1>4, <2>1, x \in Transformed, GotOne
    <3> QED BY <3>1, <3>2, <3>3
  <2>3. f2[n + 1] = x
    BY <1>9, <1>13, <2>1
  <2>4. \A r \in Got(result) : r < Len(t) + 1 /\ result'[r] = result[r]
    BY <1>4, <1>11, <2>2
  <2>5. \A k \in Told : k < n + 1
    BY <1>2, <1>7
  <2>6. Told \in SUBSET Nat /\ Got(result) \in SUBSET Nat /\ n + 1 \in Nat /\ Len(t) + 1 \in Nat
    BY <1>1, <1>2, <1>4 DEF Told, Got
  <2> HIDE DEF f, f2, n
  <2>7. Tells(result', Told', Got(result'), f2)
    <3> DEFINE k == n + 1
               p == Len(t) + 1
    <3>1. /\ k \in Nat /\ p \in Nat /\ \A l \in Told : l < k
          /\ \A r \in Got(result) : r < p
          /\ \A r \in Got(result) : result'[r] = result[r]
          /\ IsWith(Told', Told, k) /\ IsWith(Got(result'), Got(result), p) /\ result'[p] = f2[k]
      BY <1>4, <2>1, <2>2, <2>3, <2>4, <2>5, <2>6 DEF IsWith
    <3> HIDE DEF k, p
    <3> QED BY ONLY <1>5, <1>10, <2>6, <3>1, OneMoreTold
  <2>8. \A r \in 1..Len(result') : r \in 1..Len(t) \/ r = Len(t) + 1
    BY <1>4, <2>2
  <2>9. ImagesAreReal'
    <3> SUFFICES ASSUME NEW r \in 1..Len(result'), result'[r].role = "toolResult", result'[r].image
                 PROVE  result'[r].real
      BY DEF ImagesAreReal
    <3>1. CASE r = Len(t) + 1
      BY <2>1, <2>2, <3>1 DEF Genuine
    <3>2. CASE r \in 1..Len(t)
      <4>1. result'[r] = t[r] /\ r \in 1..Len(result) /\ t[r] = result[r]
        BY <1>4, <2>2, <3>2 DEF Forged
      <4> QED BY <4>1 DEF ImagesAreReal
    <3> QED BY <2>8, <3>1, <3>2
  <2> QED BY <1>6, <2>7, <2>9
<1> QED BY <1>12, <1>13

(* Taking a message of the transcript. *)
LEMMA TakenKept ==
  ASSUME RequestInv, KeptInv, NEW m \in Message, Take(m)
  PROVE  OwnersInv' /\ InputKept' /\ ImagesAreReal'
<1>1. /\ phase = "transform" /\ MayFollow(m) /\ input' = Append(input, m) /\ target' = target
  BY DEF Take
<1>2. TypesInv /\ TransformInv /\ OwnersInv /\ InputKept /\ ImagesAreReal /\ result \in Seq(Transformed)
  BY DEF RequestInv, KeptInv, TypesInv
<1>3. /\ input' \in Seq(Message) /\ Len(input) \in Nat /\ Len(input') = Len(input) + 1 /\ input'[Len(input) + 1] = m
      /\ \A k \in 1..Len(input) : input'[k] = input[k]
  BY <1>1, <1>2, InputGrows
<1>4. syntheticToolResults \in Seq(Forged) /\ <<>> \in Seq(Forged)
  BY <1>1, <1>2, ForgedTail
<1>5. OwnersInv'
  <2> SUFFICES ASSUME NEW k \in 1..Len(input'), input'[k].role = "toolResult"
               PROVE  \E w \in 1..Len(input') : Owns(input', w, k) /\ input'[w].role = "assistant" /\ input'[w].stop = "ok"
    BY DEF OwnersInv
  <2>1. \A w \in 1..Len(input) : w \in 1..Len(input') /\ input'[w] = input[w]
    BY <1>3
  <2>2. CASE k = Len(input) + 1
    <3>1. PICK w \in 1..Len(input) :
            Owns(input', w, Len(input) + 1) /\ input[w].role = "assistant" /\ input[w].stop = "ok"
      BY <1>1, <1>2, <1>3, <2>2, ResultForm
    <3> QED BY <2>1, <2>2, <3>1
  <2>3. CASE k \in 1..Len(input)
    <3>1. PICK w \in 1..Len(input) : Owns(input, w, k) /\ input[w].role = "assistant" /\ input[w].stop = "ok"
      BY <1>2, <1>3, <2>3 DEF OwnersInv
    <3>2. Owns(input', w, k)
      <4>1. input \in Seq(Message) /\ Len(input) <= Len(input')
        BY <1>2, <1>3 DEF TypesInv
      <4> QED BY <1>3, <2>3, <3>1, <4>1, OwnsStays
    <3> QED BY <2>1, <3>1, <3>2
  <2> QED BY <1>3, <2>2, <2>3
<1>6. CASE m.role = "assistant" /\ TakeAssistant(m)
  <2> DEFINE x == transformAssistant(m)
  <2>1. x \in Transformed /\ x.role = "assistant"
    BY <1>2, <1>6, FirstPass
  <2>2. x = Form(input', Len(input) + 1)
    BY <1>3, <1>6 DEF Form
  <2>3. result' = (result \o syntheticToolResults) \o (IF kept(m) THEN <<x>> ELSE <<>>)
    BY <1>6 DEF TakeAssistant
  <2>4. kept(m) <=> Complete(m)
    BY <1>6 DEF kept, Complete
  <2>5. Genuine(x)
    BY <2>1 DEF Genuine
  <2>6. result \o syntheticToolResults \in Seq(Transformed)
    <3>1. PICK u : u = Joined(result, syntheticToolResults)
      OBVIOUS
    <3> QED BY <1>2, <1>4, <3>1, GotForged DEF Joined
  <2>7. ~Complete(m) => result' = result \o syntheticToolResults
    BY <2>3, <2>4, <2>6
  <2>8. Complete(m) => result' = (result \o syntheticToolResults) \o <<x>>
    BY <2>3, <2>4
  <2> HIDE DEF x
  <2> QED BY <1>1, <1>2, <1>4, <1>5, <2>1, <2>2, <2>5, <2>7, <2>8, InputTold
<1>7. CASE m.role = "toolResult" /\ TakeResult(m)
  <2> DEFINE x == transformResult(m)
  <2>1. x \in Transformed /\ x.role = "toolResult"
    BY <1>2, <1>7, FirstPass
  <2>2. x = Form(input', Len(input) + 1)
    BY <1>1, <1>2, <1>7, ResultForm
  <2>3. Genuine(x)
    <3>1. x.real = TRUE
      BY <1>3, <1>7, <2>2 DEF Form
    <3> QED BY <3>1 DEF Genuine
  <2>4. result' = Append(result, x)
    BY <1>7 DEF TakeResult
  <2> HIDE DEF x
  <2>5. result' = (result \o <<>>) \o <<x>>
    BY <1>2, <2>1, <2>4
  <2>6. Complete(m)
    BY <1>7 DEF Complete
  <2> QED BY <1>1, <1>2, <1>4, <1>5, <2>1, <2>2, <2>3, <2>5, <2>6, InputTold
<1>8. CASE m.role = "user" /\ TakeUser(m)
  <2>1. m \in Transformed /\ m = Form(input', Len(input) + 1) /\ Genuine(m) /\ Complete(m)
    BY <1>2, <1>3, <1>8, FirstPass DEF Form, Genuine, Complete
  <2>2. result' = (result \o syntheticToolResults) \o <<m>>
    BY <1>8 DEF TakeUser
  <2> QED BY <1>1, <1>2, <1>4, <1>5, <2>1, <2>2, InputTold
<1> QED BY <1>5, <1>6, <1>7, <1>8 DEF Take

(* The end of the transcript. *)
LEMMA EndedKept ==
  ASSUME RequestInv, KeptInv, TranscriptEnds
  PROVE  OwnersInv' /\ InputKept' /\ ImagesAreReal'
<1>1. phase = "transform" /\ result' = result \o syntheticToolResults /\ input' = input /\ target' = target
  BY DEF TranscriptEnds
<1>2. TypesInv /\ TransformInv /\ OwnersInv /\ InputKept /\ ImagesAreReal /\ result \in Seq(Transformed)
  BY DEF RequestInv, KeptInv, TypesInv
<1>3. syntheticToolResults \in Seq(Forged)
  BY <1>1, <1>2, ForgedTail
<1>4. /\ \A r \in 1..Len(result) : result'[r] = result[r]
      /\ \A r \in 1..Len(result') : r \in 1..Len(result) \/ result'[r] \in Forged
      /\ Got(result') = Got(result)
  <2>1. result' = Joined(result, syntheticToolResults)
    BY <1>1 DEF Joined
  <2>2. \A r \in 1..Len(result) : result'[r] = result[r]
    BY <1>2, <1>3, <2>1, GotForged
  <2>3. \A r \in 1..Len(result') : r \in 1..Len(result) \/ result'[r] \in Forged
    BY <1>2, <1>3, <2>1, GotForged
  <2>4. Got(result') = Got(result)
    BY <1>2, <1>3, <2>1, GotForged
  <2> QED BY <2>2, <2>3, <2>4
<1> DEFINE f == [k \in Told |-> Form(input, k)]
<1>5. InputKept' <=> Tells(result', Told, Got(result'), f)
  BY <1>1 DEF InputKept, Told, Form
<1>6. Tells(result, Told, Got(result), f)
  BY <1>2 DEF InputKept
<1>7. \A r \in Got(result) : result'[r] = result[r]
  BY <1>4 DEF Got
<1> HIDE DEF f
<1>8. InputKept'
  BY <1>4, <1>5, <1>6, <1>7, SameTold
<1>9. OwnersInv'
  BY <1>1, <1>2 DEF OwnersInv
<1>10. ImagesAreReal'
  BY <1>2, <1>4 DEF ImagesAreReal, Forged
<1> QED BY <1>8, <1>9, <1>10

--------------------------------------------------------------------------------
(* convertMessages keeps the transformed messages *)

(* What is sent for a message is of the transcript when the message is. *)
LEMMA WireFacts ==
  ASSUME NEW x \in Transformed
  PROVE  /\ Wire(x) \in Param /\ Wire(x) # Images
         /\ x.role # "toolResult" => FromTranscript(Wire(x))
         /\ x.role = "toolResult" => (FromTranscript(Wire(x)) <=> x.real) /\ (Emits(x) <=> x.real)
<1>1. CASE x \in User
  <2>1. x.role = "user" /\ x.content \in {"none", "text"}
    BY <1>1 DEF User
  <2>2. Wire(x) = x
    BY <2>1 DEF Wire
  <2>3. x \in Param
    BY <1>1 DEF User, Param
  <2>4. x # Images
    BY <2>1 DEF Images
  <2> QED BY <2>1, <2>2, <2>3, <2>4 DEF FromTranscript
<1>2. CASE x \in Assistant
  <2>1. x.role = "assistant" /\ x.body \in Body /\ x.calls \in Seq(CallId)
    BY <1>2 DEF Assistant
  <2>2. Wire(x) = [role |-> "assistant", body |-> x.body, calls |-> x.calls]
    BY <2>1 DEF Wire
  <2>3. Wire(x) \in Param /\ Wire(x).role = "assistant" /\ Wire(x).body # "bridge"
    BY <2>1, <2>2 DEF Param, Body
  <2>4. Wire(x) # Images
    BY <2>3 DEF Images
  <2> QED BY <2>1, <2>3, <2>4 DEF FromTranscript
<1>3. CASE x \in Answer
  <2>1. x.role = "toolResult" /\ x.id \in CallId /\ x.real \in BOOLEAN
    BY <1>3 DEF Answer
  <2>2. Wire(x) = [role |-> "tool", id |-> x.id, real |-> x.real]
    BY <2>1 DEF Wire
  <2>3. Wire(x) \in Param /\ Wire(x).role = "tool" /\ Wire(x).real = x.real
    BY <2>1, <2>2 DEF Param
  <2>4. Wire(x) # Images
    BY <2>3 DEF Images
  <2>5. Emits(x) <=> x.real
    BY <2>1 DEF Emits
  <2>6. FromTranscript(Wire(x)) <=> x.real
    BY <2>3 DEF FromTranscript
  <2> QED BY <2>1, <2>3, <2>4, <2>5, <2>6
<1> QED BY <1>1, <1>2, <1>3 DEF Transformed

(* Messages that are not of the transcript, and that are not pictures. *)
NoneHeard(q) == \A d \in 1..Len(q) : ~FromTranscript(q[d])

NoneShown(q) == \A d \in 1..Len(q) : q[d] # Images

(* What a request has when messages were put behind it. *)
LEMMA Joins ==
  ASSUME NEW s \in Seq(Param), NEW q \in Seq(Param), NEW u, u = Joined(s, q)
  PROVE  /\ u \in Seq(Param) /\ Len(u) = Len(s) + Len(q) /\ Len(s) \in Nat /\ Len(q) \in Nat
         /\ \A p \in 1..Len(s) : u[p] = s[p]
         /\ \A d \in 1..Len(q) : u[Len(s) + d] = q[d]
         /\ \A p \in 1..Len(u) : p \in 1..Len(s) \/ \E d \in 1..Len(q) : p = Len(s) + d
         /\ NoneHeard(q) => Heard(u) = Heard(s)
         /\ NoneShown(q) => Pictures(u) = Pictures(s)
<1>1. /\ u \in Seq(Param) /\ Len(u) = Len(s) + Len(q) /\ Len(s) \in Nat /\ Len(q) \in Nat
      /\ \A p \in 1..Len(s) : u[p] = s[p]
      /\ \A d \in 1..Len(q) : u[Len(s) + d] = q[d]
  BY ConcatParts DEF Joined
<1>2. \A p \in 1..Len(s) : p \in 1..Len(u)
  BY <1>1
<1>4. ASSUME NEW p \in 1..Len(u), p \notin 1..Len(s) PROVE \E d \in 1..Len(q) : p = Len(s) + d
  <2>1. p - Len(s) \in 1..Len(q) /\ p = Len(s) + (p - Len(s))
    BY <1>1, <1>4
  <2> QED BY <2>1
<1>5. ASSUME NoneHeard(q) PROVE Heard(u) = Heard(s)
  <2>1. ASSUME NEW p \in Heard(u) PROVE p \in Heard(s)
    <3>1. p \in 1..Len(u) /\ FromTranscript(u[p])
      BY DEF Heard
    <3>2. p \in 1..Len(s)
      BY <1>1, <1>4, <1>5, <3>1 DEF NoneHeard
    <3> QED BY <1>1, <3>1, <3>2 DEF Heard
  <2>2. ASSUME NEW p \in Heard(s) PROVE p \in Heard(u)
    BY <1>1, <1>2 DEF Heard
  <2> QED BY <2>1, <2>2
<1>6. ASSUME NoneShown(q) PROVE Pictures(u) = Pictures(s)
  <2>1. ASSUME NEW p \in Pictures(u) PROVE p \in Pictures(s)
    <3>1. p \in 1..Len(u) /\ u[p] = Images
      BY DEF Pictures
    <3>2. p \in 1..Len(s)
      BY <1>1, <1>4, <1>6, <3>1 DEF NoneShown
    <3> QED BY <1>1, <3>1, <3>2 DEF Pictures
  <2>2. ASSUME NEW p \in Pictures(s) PROVE p \in Pictures(u)
    BY <1>1, <1>2 DEF Pictures
  <2> QED BY <2>1, <2>2
<1> QED BY <1>1, <1>4, <1>5, <1>6

(* One message of the transcript is put behind. *)
LEMMA HeardOne ==
  ASSUME NEW s \in Seq(Param), NEW x \in Param, FromTranscript(x), x # Images, NEW u, u = Joined(s, <<x>>)
  PROVE  /\ u \in Seq(Param) /\ Len(s) \in Nat /\ u[Len(s) + 1] = x
         /\ \A p \in 1..Len(s) : u[p] = s[p]
         /\ IsWith(Heard(u), Heard(s), Len(s) + 1)
         /\ Pictures(u) = Pictures(s)
<1>1. <<x>> \in Seq(Param) /\ Len(<<x>>) = 1 /\ <<x>>[1] = x
  OBVIOUS
<1>2. \A d \in 1..Len(<<x>>) : d = 1
  BY <1>1
<1>3. NoneShown(<<x>>)
  BY <1>1, <1>2 DEF NoneShown
<1>4. PICK q \in Seq(Param) : q = <<x>>
  BY <1>1
<1>5. u = Joined(s, q) /\ Len(q) = 1 /\ q[1] = x /\ NoneShown(q)
  BY <1>1, <1>3, <1>4
<1>6. u \in Seq(Param) /\ Len(u) = Len(s) + Len(q) /\ Len(s) \in Nat /\ Pictures(u) = Pictures(s)
  <2>1. u \in Seq(Param) /\ Len(u) = Len(s) + Len(q) /\ Len(s) \in Nat
    BY <1>5, ConcatParts DEF Joined
  <2>2. Pictures(u) = Pictures(s)
    BY ONLY <1>5, s \in Seq(Param), q \in Seq(Param), Joins
  <2> QED BY <2>1, <2>2
<1>7. \A p \in 1..Len(s) : u[p] = s[p]
  BY <1>5, ConcatParts DEF Joined
<1>8. \A d \in 1..Len(q) : u[Len(s) + d] = q[d]
  BY <1>5, ConcatParts DEF Joined
<1>9. u[Len(s) + 1] = x
  BY <1>5, <1>6, <1>8
<1>10. \A p : p \in 1..Len(u) <=> p \in 1..Len(s) \/ p = Len(s) + 1
  BY <1>5, <1>6
<1>11. \A p : p \in Heard(u) <=> p \in Heard(s) \/ p = Len(s) + 1
  BY <1>7, <1>9, <1>10 DEF Heard
<1>12. Heard(u) = Heard(s) \cup {Len(s) + 1}
  BY <1>11
<1> QED BY <1>6, <1>7, <1>9, <1>12 DEF IsWith

(* Where a bridge may be: nowhere or at the only place. *)
LEMMA BridgeTail ==
  ASSUME NEW c
  PROVE  bridgeIf(c) \in Seq(Param) /\ NoneHeard(bridgeIf(c)) /\ NoneShown(bridgeIf(c))
<1>1. Bridge \in Param /\ Bridge # Images /\ ~FromTranscript(Bridge)
  <2>1. Bridge \in Param /\ Bridge.role = "assistant" /\ Bridge.body = "bridge"
    BY DEF Bridge, Param
  <2>2. Images.role = "user"
    BY DEF Images
  <2>3. Bridge # Images
    BY <2>1, <2>2
  <2> QED BY <2>1, <2>3 DEF FromTranscript
<1>2. <<Bridge>> \in Seq(Param) /\ Len(<<Bridge>>) = 1 /\ <<Bridge>>[1] = Bridge
  BY <1>1
<1>3. \A d \in 1..Len(<<Bridge>>) : d = 1
  BY <1>2
<1>4. NoneHeard(<<Bridge>>) /\ NoneShown(<<Bridge>>)
  BY <1>1, <1>2, <1>3 DEF NoneHeard, NoneShown
<1>5. <<>> \in Seq(Param) /\ NoneHeard(<<>>) /\ NoneShown(<<>>)
  BY DEF NoneHeard, NoneShown
<1> QED BY <1>2, <1>4, <1>5 DEF bridgeIf

(* Converting a message that is not a result: it is told, or it is left out, *)
(* behind a bridge or not.                                                   *)
LEMMA OutputTold ==
  ASSUME RequestInv, OutputKept, ImagesKept, phase = "convert", i <= Len(result),
         result' = result, target' = target, i' = i + 1, result[i].role # "toolResult",
         NEW q \in Seq(Param), NoneHeard(q), NoneShown(q),
         Emits(result[i]) => params' = Joined(Joined(params, q), <<Wire(result[i])>>),
         ~Emits(result[i]) => params' = Joined(params, q)
  PROVE  OutputKept' /\ ImagesKept'
<1> DEFINE f == [r \in Emitted |-> Wire(result[r])]
           f2 == [r \in Emitted' |-> Wire(result[r])]
           g == [h \in Shown |-> Images]
           x == Wire(result[i])
<1>1. /\ result \in Seq(Transformed) /\ Len(result) \in Nat /\ i \in 1..Len(result) /\ i \in Nat
      /\ result[i] \in Transformed /\ params \in Seq(Param)
  BY Current
<1>2. PICK u : u = Joined(params, q)
  OBVIOUS
<1>3. u \in Seq(Param) /\ Len(u) = Len(params) + Len(q) /\ Len(params) \in Nat /\ Len(q) \in Nat
  BY <1>1, <1>2, Joins
<1>4. Heard(u) = Heard(params) /\ Pictures(u) = Pictures(params)
  BY <1>1, <1>2, Joins
<1>5. \A p \in 1..Len(params) : u[p] = params[p]
  BY <1>1, <1>2, ConcatParts DEF Joined
<1>6. Shown' = Shown
  <2>1. \A r : r \in 1..(i' - 1) <=> r \in 1..(i - 1) \/ r = i
    BY <1>1
  <2>2. \A h : ~Owns(result, h, i)
    <3> SUFFICES ASSUME NEW h, Owns(result, h, i) PROVE FALSE
      OBVIOUS
    <3>1. h \in Nat /\ h < i /\ \A l \in (h + 1)..i : result[l].role = "toolResult"
      BY <1>1 DEF Owns
    <3>2. i \in (h + 1)..i
      BY <1>1, <3>1
    <3> QED BY <3>1, <3>2
  <2>3. \A h, r : r \in 1..(i - 1) /\ Owns(result, h, r) => h \in 1..(i - 1) /\ h # i
    <3> SUFFICES ASSUME NEW h, NEW r \in 1..(i - 1), Owns(result, h, r) PROVE h \in 1..(i - 1) /\ h # i
      OBVIOUS
    <3>1. h \in 1..Len(result) /\ h < r
      BY DEF Owns
    <3> QED BY <1>1, <3>1
  <2>4. \A h : h \in Shown' <=> h \in Shown
    BY <2>1, <2>2, <2>3 DEF Shown
  <2> QED BY <2>4
<1>7. \A r : r \in Emitted' <=> r \in Emitted \/ (Emits(result[i]) /\ r = i)
  <2>1. \A r : r \in 1..(i' - 1) <=> r \in 1..(i - 1) \/ r = i
    BY <1>1
  <2>2. \A y : Emits(y)' <=> Emits(y)
    BY DEF Emits, hasContent
  <2>3. \A r : r \in Emitted' <=> r \in 1..(i' - 1) /\ Emits(result[r])
    BY <2>2 DEF Emitted
  <2> QED BY <2>1, <2>3 DEF Emitted
<1>8. Tells(params, Emitted, Heard(params), f) /\ Tells(params, Shown, Pictures(params), g)
  BY DEF OutputKept, ImagesKept
<1>9. /\ OutputKept' <=> Tells(params', Emitted', Heard(params'), f2)
      /\ ImagesKept' <=> Tells(params', Shown, Pictures(params'), g)
  BY <1>6 DEF OutputKept, ImagesKept
<1>10. \A r \in Emitted : f2[r] = f[r]
  BY <1>7
<1>11. /\ \A p \in Heard(params) : p \in 1..Len(params) /\ u[p] = params[p]
       /\ \A p \in Pictures(params) : p \in 1..Len(params) /\ u[p] = params[p]
  BY <1>5 DEF Heard, Pictures
<1>12. CASE ~Emits(result[i])
  <2>1. params' = u /\ Emitted' = Emitted
    BY <1>2, <1>7, <1>12
  <2> HIDE DEF f, f2, g
  <2>2. Tells(params', Emitted', Heard(params'), f2)
    BY ONLY <1>4, <1>8, <1>10, <1>11, <2>1, SameTold
  <2>3. Tells(params', Shown, Pictures(params'), g)
    BY ONLY <1>4, <1>8, <1>11, <2>1, SameTold
  <2> QED BY <1>9, <2>2, <2>3
<1>13. CASE Emits(result[i])
  <2>1. params' = Joined(u, <<x>>)
    BY <1>2, <1>13
  <2>2. x \in Param /\ x # Images /\ FromTranscript(x)
    BY <1>1, WireFacts
  <2>3. f2[i] = x
    BY <1>7, <1>13
  <2>4. IsWith(Emitted', Emitted, i)
    <3>1. Emitted' = Emitted \cup {i}
      BY <1>7, <1>13
    <3> QED BY <3>1 DEF IsWith
  <2>5. Emitted \in SUBSET Nat /\ \A r \in Emitted : r < i
    BY <1>1 DEF Emitted
  <2> HIDE DEF f, f2, g, x
  <2>6. params'[Len(u) + 1] = x
    BY ONLY <1>3, <2>1, <2>2 DEF Joined
  <2>7. \A p \in 1..Len(u) : params'[p] = u[p]
    BY ONLY <1>3, <2>1, <2>2 DEF Joined
  <2>8. IsWith(Heard(params'), Heard(params), Len(u) + 1)
    BY <1>3, <1>4, <2>1, <2>2, HeardOne
  <2>9. Pictures(params') = Pictures(params)
    BY <1>3, <1>4, <2>1, <2>2, HeardOne
  <2>10. /\ \A p \in Heard(params) : p < Len(u) + 1
         /\ \A p \in Heard(params) : params'[p] = params[p]
         /\ \A p \in Pictures(params) : params'[p] = params[p]
    <3>1. \A p \in 1..Len(params) : p \in 1..Len(u) /\ p < Len(u) + 1
      BY <1>3
    <3> QED BY ONLY <1>11, <2>7, <3>1
  <2>11. Heard(params) \in SUBSET Nat
    BY <1>3 DEF Heard
  <2>12. PICK p \in Nat : p = Len(u) + 1
    BY <1>3
  <2>13. /\ IsWith(Heard(params'), Heard(params), p) /\ params'[p] = f2[i]
         /\ \A l \in Heard(params) : l < p
    BY <2>3, <2>6, <2>8, <2>10, <2>12
  <2>14. Tells(params', Emitted', Heard(params'), f2)
    BY ONLY <1>1, <1>8, <1>10, <2>4, <2>5, <2>10, <2>11, p \in Nat, <2>13, OneMoreTold
  <2>15. Tells(params', Shown, Pictures(params'), g)
    BY ONLY <1>8, <2>9, <2>10, SameTold
  <2> QED BY <1>9, <2>14, <2>15
<1> QED BY <1>12, <1>13

(* A user message. *)
LEMMA UserKept ==
  ASSUME RequestInv, KeptInv, phase = "convert", i <= Len(result), ConvertUser,
         result' = result, target' = target
  PROVE  OutputKept' /\ ImagesKept'
<1> DEFINE m == result[i]
           q == bridgeIf(lastRole = "toolResult")
<1>1. /\ m.role = "user" /\ i' = i + 1
      /\ params' = (params \o q) \o (IF m.content = "none" THEN <<>> ELSE <<m>>)
  BY DEF ConvertUser
<1>2. params \in Seq(Param)
  BY Current
<1>3. q \in Seq(Param) /\ NoneHeard(q) /\ NoneShown(q)
  BY BridgeTail
<1>4. Wire(m) = m /\ (Emits(m) <=> m.content # "none")
  BY <1>1 DEF Wire, Emits
<1>5. params \o q \in Seq(Param)
  BY <1>2, <1>3
<1>6. ~Emits(m) => params' = Joined(params, q)
  <2>1. (params \o q) \o <<>> = params \o q
    <3> HIDE DEF q
    <3> QED BY <1>2, <1>3, <1>5
  <2> QED BY <1>1, <1>4, <2>1 DEF Joined
<1>7. Emits(m) => params' = Joined(Joined(params, q), <<Wire(m)>>)
  BY <1>1, <1>4 DEF Joined
<1>8. OutputKept /\ ImagesKept
  BY DEF KeptInv
<1> HIDE DEF q
<1> QED BY <1>1, <1>3, <1>6, <1>7, <1>8, OutputTold

(* An assistant message. *)
LEMMA AssistantKept ==
  ASSUME RequestInv, KeptInv, phase = "convert", i <= Len(result), ConvertAssistant,
         result' = result, target' = target
  PROVE  OutputKept' /\ ImagesKept'
<1> DEFINE m == result[i]
           x == [role |-> "assistant", body |-> m.body, calls |-> m.calls]
<1>1. /\ m.role = "assistant" /\ i' = i + 1
      /\ params' = IF ~hasContent(m.body) /\ m.calls = <<>> THEN params ELSE Append(params, x)
  BY DEF ConvertAssistant
<1>2. params \in Seq(Param) /\ m \in Transformed
  BY Current
<1>3. <<>> \in Seq(Param) /\ NoneHeard(<<>>) /\ NoneShown(<<>>)
  BY DEF NoneHeard, NoneShown
<1>4. Wire(m) = x /\ (Emits(m) <=> m.calls # <<>> \/ hasContent(m.body))
  BY <1>1 DEF Wire, Emits
<1>5. params = Joined(params, <<>>)
  BY <1>2 DEF Joined
<1>6. ~Emits(m) => params' = Joined(params, <<>>)
  BY <1>1, <1>4, <1>5
<1>7. x \in Param
  BY <1>2, <1>4, WireFacts
<1> HIDE DEF x
<1>8. Append(params, x) = params \o <<x>>
  BY <1>2, <1>7
<1>9. Emits(m) => params' = Joined(Joined(params, <<>>), <<Wire(m)>>)
  <2>1. Emits(m) => params' = Joined(params, <<x>>)
    BY <1>1, <1>4, <1>8 DEF Joined
  <2> QED BY <1>4, <1>5, <2>1
<1>10. OutputKept /\ ImagesKept
  BY DEF KeptInv
<1> QED BY <1>1, <1>3, <1>6, <1>9, <1>10, OutputTold

(* A batch of results, n of them behind message k, and what is sent for it. *)
IsBatch(k, n, tools, tail) ==
  /\ k \in Nat /\ n \in Nat /\ k \in 1..Len(result) /\ k + n <= Len(result)
  /\ i = k + 1 /\ result[k].role = "assistant"
  /\ \A d \in 1..n : result[k + d] \in Answer
  /\ tools \in Seq(Param) /\ Len(tools) = n /\ \A d \in 1..n : tools[d] = Wire(result[k + d])
  /\ tail = IF \E d \in 1..n : result[k + d].image THEN bridgeIf(TRUE) \o <<Images>> ELSE <<>>

(* convertMessages takes the whole batch that is next. *)
LEMMA BatchConverted ==
  ASSUME RequestInv, phase = "convert", i <= Len(result), ConvertResults
  PROVE  \E k, n, tools, tail :
           IsBatch(k, n, tools, tail) /\ i' = k + n + 1 /\ params' = Joined(Joined(params, tools), tail)
<1> DEFINE ends == {l \in i..Len(result) : result[l].role # "toolResult"}
           j == IF ends = {} THEN Len(result) + 1 ELSE Min(ends)
           batch == SubSeq(result, i, j - 1)
           images == \E l \in DOMAIN batch : batch[l].image
           tools == [l \in DOMAIN batch |-> [role |-> "tool", id |-> batch[l].id, real |-> batch[l].real]]
           tail == IF images THEN bridgeIf(TRUE) \o <<Images>> ELSE <<>>
<1>1. /\ result \in Seq(Transformed) /\ Len(result) \in Nat /\ i \in 1..Len(result) /\ i \in Nat
      /\ params \in Seq(Param) /\ Awaiting /\ result[i].role = "toolResult"
  BY Current DEF ConvertResults
<1>2. AllClosed
  BY <1>1 DEF RequestInv, ConvertInv
<1>3. params' = (params \o tools) \o tail /\ i' = j
  BY DEF ConvertResults
<1>4. PICK k \in 1..Len(result) : k = i - 1 /\ k + 1 = i /\ k < Len(result) + 1 /\ k \in Nat
  BY <1>1 DEF Awaiting
<1>5. /\ result[k].role = "assistant" /\ result[k].calls \in Seq(CallId) /\ Closed(result, "toolResult", k)
  <2>1. result[k].role = "assistant"
    BY <1>1, <1>4 DEF Awaiting
  <2>2. Closed(result, "toolResult", k)
    BY <1>2, <1>4, <2>1 DEF AllClosed, ClosedBefore
  <2>3. result[k].calls \in Seq(CallId)
    BY <1>1, <2>1, TransformedHaveCalls DEF HasCalls
  <2> QED BY <2>1, <2>2, <2>3
<1> DEFINE n == Len(result[k].calls)
<1>6. ends = {l \in (k + 1)..Len(result) : result[l].role # "toolResult"}
  BY <1>4
<1> HIDE DEF ends
<1>7. j = k + n + 1
  BY <1>1, <1>5, <1>6, BatchEnds
<1> HIDE DEF j
<1>8. n \in Nat /\ k + n <= Len(result) /\ \A d \in 1..n : result[k + d].role = "toolResult"
  BY <1>5 DEF Closed, Answering
<1> HIDE DEF n
<1>9. batch = SubSeq(result, k + 1, k + n)
  <2>1. i = k + 1 /\ j - 1 = k + n
    BY <1>4, <1>7, <1>8
  <2> QED BY <2>1
<1>10. /\ batch \in Seq(Transformed) /\ Len(batch) = n /\ DOMAIN batch = 1..n
       /\ \A d \in 1..n : batch[d] = result[k + d]
  <2> HIDE DEF batch
  <2> QED BY <1>1, <1>4, <1>8, <1>9
<1> HIDE DEF batch
<1>11. ASSUME NEW d \in 1..n
       PROVE  result[k + d] \in Answer /\ tools[d] = Wire(result[k + d]) /\ tools[d] \in Param
  <2>1. batch[d] \in Transformed /\ batch[d].role = "toolResult" /\ batch[d] = result[k + d]
    BY <1>8, <1>10
  <2>2. batch[d] \in Answer
    BY <2>1 DEF Transformed, User, Assistant
  <2>3. tools[d] = [role |-> "tool", id |-> batch[d].id, real |-> batch[d].real]
    BY <1>10
  <2>4. Wire(batch[d]) = [role |-> "tool", id |-> batch[d].id, real |-> batch[d].real]
    BY <2>1 DEF Wire
  <2>5. Wire(batch[d]) \in Param
    BY <2>1, WireFacts
  <2> HIDE DEF tools
  <2> QED BY <2>1, <2>2, <2>3, <2>4, <2>5
<1>12. DOMAIN tools = 1..n
  BY <1>10
<1>13. tools = [d \in 1..n |-> Wire(result[k + d])]
  BY <1>10, <1>11, <1>12
<1>14. images <=> \E d \in 1..n : result[k + d].image
  BY <1>10
<1> HIDE DEF images
<1>15. tail = IF \E d \in 1..n : result[k + d].image THEN bridgeIf(TRUE) \o <<Images>> ELSE <<>>
  BY <1>14
<1> HIDE DEF tools, tail
<1>16. tools \in Seq(Param) /\ Len(tools) = n
  <2>1. \A d \in 1..n : Wire(result[k + d]) \in Param
    BY <1>11
  <2> QED BY <1>8, <1>13, <2>1
<1>17. IsBatch(k, n, tools, tail)
  BY <1>4, <1>5, <1>8, <1>11, <1>15, <1>16 DEF IsBatch
<1>18. params' = Joined(Joined(params, tools), tail) /\ i' = k + n + 1
  BY <1>3, <1>7 DEF Joined
<1> QED BY <1>17, <1>18

(* The pictures of a batch are the last of what is sent for it. *)
LEMMA TailFacts ==
  ASSUME NEW images \in BOOLEAN, NEW q, q = IF images THEN bridgeIf(TRUE) \o <<Images>> ELSE <<>>
  PROVE  /\ q \in Seq(Param) /\ NoneHeard(q)
         /\ images => Len(q) >= 1 /\ \A d \in 1..Len(q) : q[d] = Images <=> d = Len(q)
         /\ ~images => NoneShown(q)
<1>1. Images \in Param /\ ~FromTranscript(Images)
  BY DEF Images, Param, FromTranscript
<1>2. CASE ~images
  <2>1. q = <<>>
    BY <1>2
  <2> QED BY <1>2, <2>1 DEF NoneHeard, NoneShown
<1>3. CASE images
  <2>1. PICK b \in Seq(Param) : b = bridgeIf(TRUE) /\ NoneHeard(b) /\ NoneShown(b)
    BY BridgeTail
  <2>2. q = b \o <<Images>>
    BY <1>3, <2>1
  <2>3. /\ q \in Seq(Param) /\ Len(q) = Len(b) + 1 /\ Len(b) \in Nat /\ q[Len(b) + 1] = Images
        /\ \A d \in 1..Len(b) : q[d] = b[d]
    BY ONLY <1>1, b \in Seq(Param), <2>2
  <2>4. \A d \in 1..Len(q) : (d \in 1..Len(b) /\ d # Len(q)) \/ (d = Len(b) + 1 /\ d = Len(q))
    BY ONLY <2>3
  <2>5. NoneHeard(q)
    BY <1>1, <2>1, <2>3, <2>4 DEF NoneHeard
  <2>6. \A d \in 1..Len(q) : q[d] = Images <=> d = Len(q)
    BY <2>1, <2>3, <2>4 DEF NoneShown
  <2>7. Len(q) >= 1
    BY ONLY <2>3
  <2> QED BY ONLY <1>3, <2>3, <2>5, <2>6, <2>7
<1> QED BY <1>2, <1>3

(* The results of a batch are told as they are in the transformed transcript. *)
LEMMA BatchTold ==
  ASSUME RequestInv, OutputKept, phase = "convert", result' = result, target' = target,
         NEW k, NEW n, NEW tools, NEW tail, IsBatch(k, n, tools, tail), i' = k + n + 1,
         NEW u, u = Joined(params, tools)
  PROVE  /\ u \in Seq(Param)
         /\ Tells(u, Emitted', Heard(u), [r \in Emitted' |-> Wire(result[r])])
         /\ Pictures(u) = Pictures(params)
         /\ \A p \in 1..Len(params) : u[p] = params[p] /\ p \in 1..Len(u)
<1> DEFINE f == [r \in Emitted |-> Wire(result[r])]
           f2 == [r \in Emitted' |-> Wire(result[r])]
           more == {r \in (k + 1)..(k + n) : result[r].real}
           far == Len(params) - k
<1>1. result \in Seq(Transformed) /\ Len(result) \in Nat /\ params \in Seq(Param) /\ Len(params) \in Nat
  BY DEF RequestInv, TypesInv
<1>2. /\ k \in Nat /\ n \in Nat /\ k + n <= Len(result) /\ i = k + 1 /\ tools \in Seq(Param) /\ Len(tools) = n
      /\ \A d \in 1..n : result[k + d] \in Answer /\ tools[d] = Wire(result[k + d])
  BY DEF IsBatch
<1>3. \A d \in 1..n : /\ (FromTranscript(tools[d]) <=> result[k + d].real) /\ tools[d] # Images
                      /\ (Emits(result[k + d]) <=> result[k + d].real)
  <2> SUFFICES ASSUME NEW d \in 1..n
               PROVE  /\ (FromTranscript(tools[d]) <=> result[k + d].real) /\ tools[d] # Images
                      /\ (Emits(result[k + d]) <=> result[k + d].real)
    OBVIOUS
  <2>1. PICK x \in Transformed : x = result[k + d] /\ x.role = "toolResult" /\ tools[d] = Wire(x)
    BY <1>2 DEF Answer, Transformed
  <2>2. (FromTranscript(Wire(x)) <=> x.real) /\ Wire(x) # Images /\ (Emits(x) <=> x.real)
    BY <2>1, WireFacts
  <2> QED BY <2>1, <2>2
<1>4. NoneShown(tools)
  BY <1>2, <1>3 DEF NoneShown
<1>5. /\ u \in Seq(Param) /\ Len(u) = Len(params) + n /\ Pictures(u) = Pictures(params)
  BY <1>1, <1>2, <1>4, Joins
<1>6. \A p \in 1..Len(params) : u[p] = params[p]
  BY <1>1, <1>2, ConcatParts DEF Joined
<1>7. \A d \in 1..n : u[Len(params) + d] = tools[d]
  BY <1>1, <1>2, ConcatParts DEF Joined
<1>8. ASSUME NEW r \in (k + 1)..(k + n)
      PROVE  /\ r - k \in 1..n /\ r = k + (r - k) /\ r \in Nat /\ r + far = Len(params) + (r - k)
             /\ r + far \in 1..Len(u) /\ r + far \notin 1..Len(params) /\ r \in 1..(i' - 1) /\ r \notin 1..(i - 1)
  BY <1>1, <1>2, <1>5
<1>9. \A r \in (k + 1)..(k + n) :
        /\ u[r + far] = Wire(result[r]) /\ (FromTranscript(u[r + far]) <=> result[r].real)
        /\ (Emits(result[r]) <=> result[r].real)
  <2> SUFFICES ASSUME NEW r \in (k + 1)..(k + n)
               PROVE  /\ u[r + far] = Wire(result[r]) /\ (FromTranscript(u[r + far]) <=> result[r].real)
                      /\ (Emits(result[r]) <=> result[r].real)
    OBVIOUS
  <2>1. PICK d \in 1..n : r = k + d /\ r + far = Len(params) + d
    BY <1>8
  <2> HIDE DEF far
  <2> QED BY <1>2, <1>3, <1>7, <2>1
<1>10. IsWithAll(Emitted', Emitted, more, 0)
  <2>1. \A y : Emits(y)' <=> Emits(y)
    BY DEF Emits, hasContent
  <2>2. \A r : r \in Emitted' <=> r \in 1..(i' - 1) /\ Emits(result[r])
    BY <2>1 DEF Emitted
  <2>3. \A r : r \in 1..(i' - 1) <=> r \in 1..(i - 1) \/ r \in (k + 1)..(k + n)
    BY <1>2
  <2>4. \A r : r \in Emitted' <=> r \in Emitted \/ r \in more
    BY <1>9, <2>2, <2>3 DEF Emitted
  <2>5. {a + 0 : a \in more} = more
    <3>1. \A a \in more : a + 0 = a
      BY <1>2
    <3> HIDE DEF more
    <3> QED BY <3>1
  <2>6. Emitted' = Emitted \cup {a + 0 : a \in more}
    <3> HIDE DEF more
    <3> QED BY <2>4, <2>5
  <2> QED BY <2>6 DEF IsWithAll
<1>11. IsWithAll(Heard(u), Heard(params), more, far)
  <2>1. ASSUME NEW p \in Heard(u) PROVE p \in Heard(params) \/ \E a \in more : p = a + far
    <3>1. p \in 1..Len(u) /\ FromTranscript(u[p])
      BY DEF Heard
    <3>2. CASE p \in 1..Len(params)
      BY <1>6, <3>1, <3>2 DEF Heard
    <3>3. CASE p \notin 1..Len(params)
      <4>1. PICK r \in (k + 1)..(k + n) : p = r + far
        <5>1. p - far \in (k + 1)..(k + n) /\ p = (p - far) + far
          BY <1>1, <1>2, <1>5, <3>1, <3>3
        <5> QED BY <5>1
      <4>2. r \in more
        BY <1>9, <3>1, <4>1
      <4> QED BY <4>1, <4>2
    <3> QED BY <3>2, <3>3
  <2>2. ASSUME NEW p \in Heard(params) PROVE p \in Heard(u)
    <3>1. p \in 1..Len(params) /\ p \in 1..Len(u)
      BY <1>1, <1>2, <1>5 DEF Heard
    <3> QED BY <1>6, <3>1 DEF Heard
  <2>3. ASSUME NEW a \in more PROVE a + far \in Heard(u)
    BY <1>8, <1>9 DEF Heard
  <2> HIDE DEF more, far
  <2>4. Heard(u) = Heard(params) \cup {a + far : a \in more}
    BY <2>1, <2>2, <2>3
  <2> QED BY <2>4 DEF IsWithAll
<1>12. Tells(params, Emitted, Heard(params), f)
  BY DEF OutputKept
<1>13. /\ Emitted \in SUBSET Nat /\ Heard(params) \in SUBSET Nat /\ more \in SUBSET Nat /\ far \in Int
       /\ \A r \in Emitted, a \in more : r < a
       /\ \A p \in Heard(params), a \in more : p < a + far
  BY <1>1, <1>2 DEF Emitted, Heard
<1>14. \A p \in Heard(params) : u[p] = params[p]
  BY <1>6 DEF Heard
<1>15. \A r \in Emitted : f2[r] = f[r]
  <2>1. \A r \in Emitted : r \in Emitted'
    <3>1. \A r \in 1..(i - 1) : r \in 1..(i' - 1)
      BY <1>2
    <3> QED BY <3>1 DEF Emitted, Emits, hasContent
  <2> QED BY <2>1
<1>16. \A a \in more : u[a + far] = f2[a]
  <2>1. \A a \in more : a \in Emitted'
    <3> SUFFICES ASSUME NEW a \in more PROVE a \in Emitted'
      OBVIOUS
    <3>1. a \in 1..(i' - 1) /\ Emits(result[a])
      BY <1>8, <1>9
    <3> QED BY <3>1 DEF Emitted, Emits, hasContent
  <2> QED BY <1>9, <2>1
<1> HIDE DEF f, f2, more, far
<1>17. Tells(u, Emitted', Heard(u), f2)
  BY ONLY <1>10, <1>11, <1>12, <1>13, <1>14, <1>15, <1>16, MoreTold
<1>18. \A p \in 1..Len(params) : u[p] = params[p] /\ p \in 1..Len(u)
  BY <1>1, <1>2, <1>5, <1>6
<1> QED BY <1>5, <1>17, <1>18 DEF f2

(* The message of a batch with pictures has not been shown before. *)
LEMMA BatchShown ==
  ASSUME RequestInv, result' = result,
         NEW k, NEW n, NEW tools, NEW tail, IsBatch(k, n, tools, tail), i' = k + n + 1
  PROVE  /\ \A h \in Shown : h \in Nat /\ h < k
         /\ (\E d \in 1..n : result[k + d].image) => IsWith(Shown', Shown, k)
         /\ ~(\E d \in 1..n : result[k + d].image) => Shown' = Shown
<1>1. Len(result) \in Nat
  BY DEF RequestInv, TypesInv
<1>2. /\ k \in Nat /\ n \in Nat /\ k \in 1..Len(result) /\ k + n <= Len(result) /\ i = k + 1
      /\ result[k].role = "assistant" /\ \A d \in 1..n : result[k + d].role = "toolResult"
  BY DEF IsBatch, Answer
<1>3. \A r \in (k + 1)..(k + n) : result[r].role = "toolResult" /\ r - k \in 1..n /\ r = k + (r - k)
  <2> SUFFICES ASSUME NEW r \in (k + 1)..(k + n)
               PROVE  result[r].role = "toolResult" /\ r - k \in 1..n /\ r = k + (r - k)
    OBVIOUS
  <2>1. PICK d \in 1..n : d = r - k /\ r = k + d
    <3>1. r - k \in 1..n /\ r = k + (r - k)
      BY <1>2
    <3> QED BY <3>1
  <2> QED BY <1>2, <2>1
<1>4. \A r \in (k + 1)..(k + n) : Owns(result, k, r)
  <2> SUFFICES ASSUME NEW r \in (k + 1)..(k + n) PROVE Owns(result, k, r)
    OBVIOUS
  <2>1. k < r /\ \A l \in (k + 1)..r : l \in (k + 1)..(k + n)
    BY <1>2
  <2> QED BY <1>2, <1>3, <2>1 DEF Owns
<1>5. ASSUME NEW r \in (k + 1)..(k + n), NEW h, Owns(result, h, r) PROVE h = k
  <2>1. h \in 1..Len(result) /\ h < r /\ result[h].role # "toolResult" /\ \A l \in (h + 1)..r : result[l].role = "toolResult"
    BY <1>5 DEF Owns
  <2>2. ~(h < k)
    <3> SUFFICES ASSUME h < k PROVE FALSE
      OBVIOUS
    <3>1. k \in (h + 1)..r
      BY <1>1, <1>2, <2>1
    <3> QED BY <1>2, <2>1, <3>1
  <2>3. ~(h > k)
    <3> SUFFICES ASSUME h > k PROVE FALSE
      OBVIOUS
    <3>1. h \in (k + 1)..(k + n)
      BY <1>1, <1>2, <2>1
    <3> QED BY <1>3, <2>1, <3>1
  <2> QED BY <1>1, <1>2, <2>1, <2>2, <2>3
<1>6. \A h, r : r \in 1..k /\ Owns(result, h, r) => h \in 1..k /\ h \in Nat /\ h < k
  <2> SUFFICES ASSUME NEW h, NEW r \in 1..k, Owns(result, h, r) PROVE h \in 1..k /\ h \in Nat /\ h < k
    OBVIOUS
  <2>1. h \in 1..Len(result) /\ h < r
    BY DEF Owns
  <2> QED BY <1>1, <1>2, <2>1
<1>7. i - 1 = k /\ i' - 1 = k + n
  BY <1>2
<1>8. \A h : h \in Shown <=> h \in 1..k /\ \E r \in 1..k : Owns(result, h, r) /\ result[r].image
  BY <1>7 DEF Shown
<1>9. \A h : h \in Shown' <=> h \in 1..(k + n) /\ \E r \in 1..(k + n) : Owns(result, h, r) /\ result[r].image
  BY <1>7 DEF Shown
<1>10. \A r : r \in 1..(k + n) <=> r \in 1..k \/ r \in (k + 1)..(k + n)
  BY <1>2
<1>11. \A h : h \in Shown => h \in Shown'
  BY <1>8, <1>9, <1>10
<1>12. ASSUME NEW h \in Shown', h \notin Shown
       PROVE  h = k /\ \E d \in 1..n : result[k + d].image
  <2>1. PICK r \in 1..(k + n) : Owns(result, h, r) /\ result[r].image
    BY <1>9
  <2>2. r \in (k + 1)..(k + n)
    BY <1>6, <1>8, <1>10, <1>12, <2>1
  <2>3. h = k
    BY <1>5, <2>1, <2>2
  <2>4. r - k \in 1..n /\ result[k + (r - k)].image
    BY <1>3, <2>1, <2>2
  <2> QED BY <2>3, <2>4
<1>13. ASSUME NEW d \in 1..n, result[k + d].image PROVE k \in Shown'
  <2>1. k + d \in (k + 1)..(k + n) /\ k \in 1..(k + n)
    BY <1>2
  <2>2. k + d \in 1..(k + n)
    BY <1>10, <2>1
  <2> QED BY <1>4, <1>9, <1>13, <2>1, <2>2
<1>14. \A h \in Shown : h \in Nat /\ h < k
  BY <1>6, <1>8
<1>15. ASSUME \E d \in 1..n : result[k + d].image PROVE IsWith(Shown', Shown, k)
  <2>1. k \in Shown'
    BY <1>13, <1>15
  <2>2. Shown' = Shown \cup {k}
    BY <1>11, <1>12, <2>1
  <2> QED BY <2>2 DEF IsWith
<1>16. ASSUME ~(\E d \in 1..n : result[k + d].image) PROVE Shown' = Shown
  BY <1>11, <1>12, <1>16
<1> QED BY <1>14, <1>15, <1>16

(* A batch of results, with its pictures. *)
LEMMA ResultsKept ==
  ASSUME RequestInv, KeptInv, phase = "convert", i <= Len(result), ConvertResults,
         result' = result, target' = target
  PROVE  OutputKept' /\ ImagesKept'
<1>1. OutputKept /\ ImagesKept /\ params \in Seq(Param) /\ Len(params) \in Nat
  BY DEF RequestInv, TypesInv, KeptInv
<1>2. PICK k, n, tools, tail :
         IsBatch(k, n, tools, tail) /\ i' = k + n + 1 /\ params' = Joined(Joined(params, tools), tail)
  BY BatchConverted
<1>3. PICK u : u = Joined(params, tools)
  OBVIOUS
<1> DEFINE f2 == [r \in Emitted' |-> Wire(result[r])]
           g == [h \in Shown |-> Images]
           g2 == [h \in Shown' |-> Images]
<1>4. /\ u \in Seq(Param) /\ Tells(u, Emitted', Heard(u), f2) /\ Pictures(u) = Pictures(params)
      /\ \A p \in 1..Len(params) : u[p] = params[p] /\ p \in 1..Len(u)
  BY <1>1, <1>2, <1>3, BatchTold
<1>5. PICK images \in BOOLEAN : images <=> \E d \in 1..n : result[k + d].image
  OBVIOUS
<1>6. tail = IF images THEN bridgeIf(TRUE) \o <<Images>> ELSE <<>>
  BY <1>2, <1>5 DEF IsBatch
<1>7. /\ tail \in Seq(Param) /\ NoneHeard(tail)
      /\ images => Len(tail) >= 1 /\ \A d \in 1..Len(tail) : tail[d] = Images <=> d = Len(tail)
      /\ ~images => NoneShown(tail)
  BY ONLY <1>6, images \in BOOLEAN, TailFacts
<1>8. params' = Joined(u, tail)
  BY <1>2, <1>3
<1>9. /\ params' \in Seq(Param) /\ Len(params') = Len(u) + Len(tail) /\ Len(u) \in Nat /\ Len(tail) \in Nat
      /\ Heard(params') = Heard(u)
  BY ONLY <1>4, <1>7, <1>8, Joins
<1>10. \A p \in 1..Len(u) : params'[p] = u[p]
  BY ONLY <1>4, <1>7, <1>8, ConcatParts DEF Joined
<1>11. \A d \in 1..Len(tail) : params'[Len(u) + d] = tail[d]
  BY ONLY <1>4, <1>7, <1>8, ConcatParts DEF Joined
<1>12. OutputKept'
  <2>1. \A p \in Heard(u) : params'[p] = u[p]
    BY <1>10 DEF Heard
  <2>2. OutputKept' <=> Tells(params', Emitted', Heard(params'), f2)
    BY DEF OutputKept
  <2> HIDE DEF f2
  <2>3. Tells(params', Emitted', Heard(params'), f2)
    BY ONLY <1>4, <1>9, <2>1, SameTold
  <2> QED BY <2>2, <2>3
<1>13. Tells(params, Shown, Pictures(params), g)
  BY <1>1 DEF ImagesKept
<1>14. ImagesKept' <=> Tells(params', Shown', Pictures(params'), g2)
  BY DEF ImagesKept
<1>15. \A p \in Pictures(params) : p \in Nat /\ p < Len(u) + 1 /\ params'[p] = params[p]
  <2> SUFFICES ASSUME NEW p \in Pictures(params) PROVE p \in Nat /\ p < Len(u) + 1 /\ params'[p] = params[p]
    OBVIOUS
  <2>1. p \in 1..Len(params)
    BY DEF Pictures
  <2>2. p \in 1..Len(u) /\ u[p] = params[p]
    BY <1>4, <2>1
  <2> QED BY <1>9, <1>10, <2>2
<1>16. /\ \A h \in Shown : h \in Nat /\ h < k
       /\ images => IsWith(Shown', Shown, k)
       /\ ~images => Shown' = Shown
  BY <1>2, <1>5, BatchShown
<1>17. CASE ~images
  <2>1. NoneShown(tail) /\ Shown' = Shown
    BY <1>7, <1>16, <1>17
  <2>2. Pictures(params') = Pictures(params)
    BY ONLY <1>4, <1>7, <1>8, <2>1, Joins
  <2>3. \A h \in Shown : g2[h] = g[h]
    BY <2>1
  <2> HIDE DEF g, g2
  <2>4. Tells(params', Shown', Pictures(params'), g2)
    BY ONLY <1>13, <1>15, <2>1, <2>2, <2>3, SameTold
  <2> QED BY <1>12, <1>14, <2>4
<1>18. CASE images
  <2>1. PICK p \in Nat : p = Len(params') /\ p = Len(u) + Len(tail) /\ p >= Len(u) + 1
    BY <1>7, <1>9, <1>18
  <2>2. params'[p] = Images
    <3>1. Len(tail) \in 1..Len(tail)
      BY <1>7, <1>9, <1>18
    <3> QED BY <1>7, <1>11, <1>18, <2>1, <3>1
  <2>3. ASSUME NEW q \in Pictures(params') PROVE q \in Pictures(params) \/ q = p
    <3>1. q \in 1..Len(params') /\ params'[q] = Images
      BY DEF Pictures
    <3>2. CASE q \in 1..Len(u)
      <4>1. q \in Pictures(u)
        BY <1>10, <3>1, <3>2 DEF Pictures
      <4> QED BY <1>4, <4>1
    <3>3. CASE q \notin 1..Len(u)
      <4>1. PICK d \in 1..Len(tail) : q = Len(u) + d
        <5>1. q - Len(u) \in 1..Len(tail) /\ q = Len(u) + (q - Len(u))
          BY <1>9, <3>1, <3>3
        <5> QED BY <5>1
      <4>2. tail[d] = Images
        BY <1>11, <3>1, <4>1
      <4> QED BY <1>7, <1>18, <2>1, <4>1, <4>2
    <3> QED BY <3>2, <3>3
  <2>4. ASSUME NEW q \in Pictures(params) PROVE q \in Pictures(params')
    <3>1. q \in 1..Len(params) /\ params[q] = Images
      BY DEF Pictures
    <3>2. q \in 1..Len(params')
      BY <1>4, <1>9, <3>1
    <3> QED BY <1>15, <3>1, <3>2 DEF Pictures
  <2>5. p \in Pictures(params')
    BY <2>1, <2>2, <1>9 DEF Pictures
  <2>6. IsWith(Pictures(params'), Pictures(params), p)
    <3>1. Pictures(params') = Pictures(params) \cup {p}
      BY <2>3, <2>4, <2>5
    <3> QED BY <3>1 DEF IsWith
  <2>7. k \in Nat /\ IsWith(Shown', Shown, k)
    BY <1>2, <1>16, <1>18 DEF IsBatch
  <2>8. k \in Shown' /\ \A h \in Shown : h \in Shown'
    BY <2>7 DEF IsWith
  <2>9. g2[k] = Images /\ \A h \in Shown : g2[h] = g[h]
    BY <2>8
  <2>10. /\ \A q \in Pictures(params) : q < p
         /\ \A q \in Pictures(params) : params'[q] = params[q]
         /\ \A h \in Shown : h < k
         /\ \A h \in Shown : g2[h] = g[h]
         /\ params'[p] = g2[k]
         /\ Pictures(params) \in SUBSET Nat /\ Shown \in SUBSET Nat
    BY <1>9, <1>15, <1>16, <2>1, <2>2, <2>9
  <2> HIDE DEF g, g2
  <2>11. Tells(params', Shown', Pictures(params'), g2)
    BY ONLY <1>13, <2>6, <2>7, <2>10, p \in Nat, OneMoreTold
  <2> QED BY <1>12, <1>14, <2>11
<1> QED BY <1>5, <1>17, <1>18

--------------------------------------------------------------------------------
(* The transcript in the request *)

(* Nothing is converted yet. *)
LEMMA Unconverted ==
  ASSUME i' = 1, params' = <<>>
  PROVE  OutputKept' /\ ImagesKept'
<1>1. Emitted' = {} /\ Shown' = {}
  BY DEF Emitted, Shown
<1>2. Heard(params') = {} /\ Pictures(params') = {}
  BY DEF Heard, Pictures
<1>3. /\ Tells(params', Emitted', Heard(params'), [r \in Emitted' |-> Wire(result'[r])])
      /\ Tells(params', Shown', Pictures(params'), [h \in Shown' |-> Images])
  BY ONLY <1>1, <1>2, NothingTold
<1> QED BY <1>3 DEF OutputKept, ImagesKept

(* Before the first message everything is kept. *)
LEMMA KeptInit == Init => KeptInv
<1> SUFFICES ASSUME Init PROVE KeptInv
  OBVIOUS
<1>1. input = <<>> /\ result = <<>> /\ params = <<>> /\ i = 1
  BY DEF Init
<1>2. OwnersInv /\ ImagesAreReal
  BY <1>1 DEF OwnersInv, ImagesAreReal
<1>3. Told = {} /\ Emitted = {} /\ Shown = {}
  BY <1>1 DEF Told, Emitted, Shown
<1>4. Got(result) = {} /\ Heard(params) = {} /\ Pictures(params) = {}
  BY <1>1 DEF Got, Heard, Pictures
<1>5. /\ Tells(result, Told, Got(result), [k \in Told |-> Form(input, k)])
      /\ Tells(params, Emitted, Heard(params), [r \in Emitted |-> Wire(result[r])])
      /\ Tells(params, Shown, Pictures(params), [h \in Shown |-> Images])
  BY ONLY <1>3, <1>4, NothingTold
<1> QED BY <1>2, <1>5 DEF KeptInv, InputKept, OutputKept, ImagesKept

(* What was taken stays told while the messages are converted. *)
LEMMA InputStays ==
  ASSUME KeptInv, input' = input, result' = result, target' = target
  PROVE  OwnersInv' /\ InputKept' /\ ImagesAreReal'
<1>1. OwnersInv' /\ ImagesAreReal'
  BY DEF KeptInv, OwnersInv, ImagesAreReal
<1>2. InputKept'
  <2>1. Told' = Told
    BY DEF Told
  <2>2. [k \in Told |-> Form(input, k)]' = [k \in Told |-> Form(input, k)]
    BY <2>1 DEF Form
  <2> QED BY <2>1, <2>2 DEF KeptInv, InputKept
<1> QED BY <1>1, <1>2

(* Every step keeps the transcript. *)
LEMMA KeptStep ==
  ASSUME RequestInv, KeptInv, [Next]_vars
  PROVE  KeptInv'
<1>1. ASSUME NEW m \in Message, Take(m) PROVE KeptInv'
  <2>1. i = 1 /\ params = <<>> /\ i' = i /\ params' = params
    BY <1>1 DEF Take, RequestInv, ConvertInv
  <2>2. OutputKept' /\ ImagesKept'
    BY <2>1, Unconverted
  <2> QED BY <1>1, <2>2, TakenKept DEF KeptInv
<1>2. CASE TranscriptEnds
  <2>1. i = 1 /\ params = <<>> /\ i' = i /\ params' = params
    BY <1>2 DEF TranscriptEnds, RequestInv, ConvertInv
  <2>2. OutputKept' /\ ImagesKept'
    BY <2>1, Unconverted
  <2> QED BY <1>2, <2>2, EndedKept DEF KeptInv
<1>3. CASE Convert
  <2>1. /\ phase = "convert" /\ i <= Len(result) /\ input' = input /\ result' = result /\ target' = target
        /\ (ConvertUser \/ ConvertAssistant \/ ConvertResults)
    BY <1>3 DEF Convert, transformVars
  <2>2. OutputKept' /\ ImagesKept'
    BY <2>1, UserKept, AssistantKept, ResultsKept
  <2> QED BY <2>1, <2>2, InputStays DEF KeptInv
<1>4. CASE Send \/ UNCHANGED vars
  <2>1. input' = input /\ result' = result /\ target' = target /\ i' = i /\ params' = params
    BY <1>4 DEF Send, vars, transformVars
  <2>2. \A y : Emits(y)' <=> Emits(y)
    BY <2>1 DEF Emits, hasContent
  <2>3. Emitted' = Emitted /\ Shown' = Shown
    BY <2>1, <2>2 DEF Emitted, Shown
  <2>4. OutputKept' /\ ImagesKept'
    BY <2>1, <2>3 DEF KeptInv, OutputKept, ImagesKept
  <2> QED BY <2>1, <2>4, InputStays DEF KeptInv
<1> QED BY <1>1, <1>2, <1>3, <1>4 DEF Next

(* In every state the transcript taken so far is in the transformed messages, *)
(* and of these the ones converted so far are in the request.                 *)
THEOREM KeptInvariance == Spec => []KeptInv
<1>1. Init => KeptInv
  BY KeptInit
<1>2. RequestInv /\ KeptInv /\ [Next]_vars => KeptInv'
  BY KeptStep
<1> QED BY <1>1, <1>2, RequestInvariance, PTL DEF Spec

(* What is sent for a message is what is sent for its transformed form. *)
LEMMA SentFacts ==
  ASSUME TypesInv, NEW k \in 1..Len(input)
  PROVE  /\ IsSent(k) <=> k \in Told /\ Emits(Form(input, k))
         /\ IsSent(k) => SentAs(k) = Wire(Form(input, k))
         /\ Form(input, k).role = input[k].role
<1> DEFINE m == input[k]
           x == Form(input, k)
<1>1. m \in Message
  BY DEF TypesInv
<1>2. CASE m.role = "user"
  <2>1. x = m /\ k \in Told
    BY <1>2 DEF Form, Told, Complete
  <2>2. IsSent(k) <=> m.content # "none"
    BY <1>2 DEF IsSent
  <2>3. SentAs(k) = m
    BY <1>2 DEF SentAs
  <2>4. (Emits(m) <=> m.content # "none") /\ Wire(m) = m
    BY <1>2 DEF Emits, Wire
  <2> QED BY <2>1, <2>2, <2>3, <2>4
<1>3. CASE m.role = "assistant"
  <2>1. x = transformAssistant(m)
    BY <1>3 DEF Form
  <2>2. /\ m \in Assistant /\ transformedCalls(m) \in Seq(CallId) /\ Len(transformedCalls(m)) = Len(m.calls)
        /\ m.calls \in Seq(CallId)
    BY <1>1, <1>3, Messages, CallsDiffer
  <2>3. x.role = "assistant" /\ x.calls = transformedCalls(m) /\ x.body = transformedBody(m)
    BY <2>1, <2>2 DEF transformAssistant, Assistant
  <2>4. m.calls = <<>> <=> transformedCalls(m) = <<>>
    BY <2>2
  <2>5. k \in Told <=> m.stop = "ok"
    BY <1>3 DEF Told, Complete
  <2>6. IsSent(k) <=> m.stop = "ok" /\ (m.calls # <<>> \/ hasContent(transformedBody(m)))
    BY <1>3 DEF IsSent
  <2> HIDE DEF x
  <2>7. Emits(x) <=> transformedCalls(m) # <<>> \/ hasContent(transformedBody(m))
    BY <2>3 DEF Emits
  <2>8. Wire(x) = [role |-> "assistant", body |-> transformedBody(m), calls |-> transformedCalls(m)]
    BY <2>3 DEF Wire
  <2>9. (IF m.same \/ m.body # "sealed" THEN transformedBody(m) ELSE "none") = transformedBody(m)
    BY <2>2 DEF transformedBody, Assistant
  <2>10. SentAs(k) = [role |-> "assistant",
                      body |-> IF m.same \/ m.body # "sealed" THEN transformedBody(m) ELSE "none",
                      calls |-> transformedCalls(m)]
    BY <1>3 DEF SentAs
  <2>11. SentAs(k) = Wire(x)
    BY <2>8, <2>9, <2>10
  <2> QED BY <1>3, <2>3, <2>4, <2>5, <2>6, <2>7, <2>11 DEF x
<1>4. CASE m.role = "toolResult"
  <2> DEFINE id == IF input[Owner(input, k)].same THEN m.id ELSE Normalize[m.id]
  <2>1. x = [role |-> "toolResult", id |-> id, image |-> m.image /\ target.vision, real |-> TRUE]
    BY <1>4 DEF Form
  <2>2. x.role = "toolResult" /\ x.id = id /\ x.real = TRUE
    BY <2>1
  <2>3. SentAs(k) = [role |-> "tool", id |-> id, real |-> TRUE]
    BY <1>4 DEF SentAs
  <2>4. IsSent(k) /\ k \in Told
    BY <1>4 DEF IsSent, Told, Complete
  <2> HIDE DEF x, id
  <2>5. Wire(x) = [role |-> "tool", id |-> id, real |-> TRUE]
    BY <2>2 DEF Wire
  <2>6. Emits(x)
    BY <2>2 DEF Emits
  <2> QED BY <1>4, <2>2, <2>3, <2>4, <2>5, <2>6 DEF x
<1> QED BY <1>1, <1>2, <1>3, <1>4, Messages

(* Through the transformed messages, the request tells the transcript. *)
LEMMA RequestTells ==
  ASSUME RequestInv, KeptInv, phase = "sent"
  PROVE  LET told == {k \in DOMAIN input : IsSent(k)}
             heard == {p \in DOMAIN params : FromTranscript(params[p])}
         IN \E at \in [told -> heard] : InStep(at, told, heard) /\ \A k \in told : params[at[k]] = SentAs(k)
<1> DEFINE told == {k \in DOMAIN input : IsSent(k)}
           heard == {p \in DOMAIN params : FromTranscript(params[p])}
<1>1. /\ TypesInv /\ i = Len(result) + 1 /\ input \in Seq(Message) /\ result \in Seq(Transformed)
      /\ params \in Seq(Param) /\ Len(result) \in Nat /\ Len(input) \in Nat
  BY DEF RequestInv, TypesInv, ConvertInv
<1>2. heard = Heard(params) /\ i - 1 = Len(result)
  BY <1>1 DEF Heard
<1>3. \A k : k \in told <=> k \in Told /\ Emits(Form(input, k))
  <2>1. \A k : k \in told <=> k \in 1..Len(input) /\ IsSent(k)
    BY <1>1
  <2>2. \A k \in Told : k \in 1..Len(input)
    BY DEF Told
  <2> QED BY <1>1, <2>1, <2>2, SentFacts
<1>4. \A k \in told : SentAs(k) = Wire(Form(input, k))
  <2>1. \A k \in told : k \in 1..Len(input) /\ IsSent(k)
    BY <1>1
  <2> QED BY <1>1, <2>1, SentFacts
<1> HIDE DEF told, heard
<1>5. PICK at1 \in [Told -> Got(result)] :
        /\ InStep(at1, Told, Got(result))
        /\ \A k \in Told : result[at1[k]] = [l \in Told |-> Form(input, l)][k]
  BY DEF KeptInv, InputKept, Tells
<1>6. PICK at2 \in [Emitted -> Heard(params)] :
        /\ InStep(at2, Emitted, Heard(params))
        /\ \A r \in Emitted : params[at2[r]] = [l \in Emitted |-> Wire(result[l])][r]
  BY DEF KeptInv, OutputKept, Tells
<1>7. \A k \in Told : result[at1[k]] = Form(input, k) /\ at1[k] \in 1..Len(result)
  BY <1>5 DEF Got
<1>8. \A r : r \in Emitted <=> r \in 1..Len(result) /\ Emits(result[r])
  BY <1>2 DEF Emitted
<1>9. \A r \in Emitted : r \in Got(result)
  <2> SUFFICES ASSUME NEW r \in Emitted PROVE r \in Got(result)
    OBVIOUS
  <2>1. r \in 1..Len(result) /\ Emits(result[r]) /\ result[r] \in Transformed
    BY <1>1, <1>8
  <2>2. Genuine(result[r])
    BY <2>1, WireFacts DEF Genuine
  <2> QED BY <2>1, <2>2 DEF Got
<1> DEFINE at == [k \in told |-> at2[at1[k]]]
<1>10. \A k \in told : k \in Told /\ at1[k] \in Emitted /\ at[k] = at2[at1[k]]
  BY <1>3, <1>7, <1>8
<1>11. at \in [told -> heard]
  <2> SUFFICES ASSUME NEW k \in told PROVE at2[at1[k]] \in heard
    OBVIOUS
  <2> QED BY <1>2, <1>6, <1>10
<1> HIDE DEF at
<1>12. \A p \in heard : \E k \in told : at[k] = p
  <2> SUFFICES ASSUME NEW p \in heard PROVE \E k \in told : at[k] = p
    OBVIOUS
  <2>1. PICK r \in Emitted : at2[r] = p
    BY <1>2, <1>6 DEF InStep
  <2>2. PICK k \in Told : at1[k] = r
    BY <1>5, <1>9 DEF InStep
  <2>3. k \in told
    BY <1>3, <1>7, <1>8, <2>2
  <2> QED BY <1>10, <2>1, <2>2, <2>3
<1>13. {at[k] : k \in told} = heard
  <2>1. \A k \in told : at[k] \in heard
    BY <1>11
  <2> QED BY ONLY <1>12, <2>1
<1>14. ASSUME NEW k \in told, NEW l \in told, k < l PROVE at[k] < at[l]
  <2>1. at1[k] < at1[l]
    BY <1>5, <1>10, <1>14 DEF InStep
  <2>2. at2[at1[k]] < at2[at1[l]]
    BY <1>6, <1>10, <2>1 DEF InStep
  <2> QED BY <1>10, <2>2
<1>15. ASSUME NEW k \in told PROVE params[at[k]] = SentAs(k)
  <2>1. params[at2[at1[k]]] = Wire(result[at1[k]])
    BY <1>6, <1>10
  <2>2. result[at1[k]] = Form(input, k)
    BY <1>7, <1>10
  <2> QED BY <1>4, <1>10, <2>1, <2>2
<1>16. \E a \in [told -> heard] : InStep(a, told, heard) /\ \A k \in told : params[a[k]] = SentAs(k)
  BY <1>11, <1>13, <1>14, <1>15 DEF InStep
<1> QED BY <1>16 DEF told, heard

(* The batches with pictures are those of the transcript. *)
LEMMA ImagesCounted ==
  ASSUME RequestInv, KeptInv, phase = "sent"
  PROVE  Cardinality(Pictures(params)) = Cardinality(WithImages)
<1>1. /\ TypesInv /\ OwnersInv /\ ImagesAreReal /\ i - 1 = Len(result) /\ input \in Seq(Message)
      /\ result \in Seq(Transformed) /\ params \in Seq(Param) /\ Len(params) \in Nat
      /\ Len(result) \in Nat /\ Len(input) \in Nat
  BY DEF RequestInv, TypesInv, ConvertInv, KeptInv
<1>2. PICK im \in [Shown -> Pictures(params)] : InStep(im, Shown, Pictures(params))
  BY DEF KeptInv, ImagesKept, Tells
<1>3. Shown \in SUBSET (1..Len(result)) /\ Shown \in SUBSET Nat /\ Pictures(params) \in SUBSET Nat
  BY <1>1 DEF Shown, Pictures
<1>4. Cardinality(Pictures(params)) = Cardinality(Shown)
  BY <1>1, <1>2, <1>3, EquallyMany
<1>5. PICK at1 \in [Told -> Got(result)] :
        /\ InStep(at1, Told, Got(result))
        /\ \A k \in Told : result[at1[k]] = [l \in Told |-> Form(input, l)][k]
  BY DEF KeptInv, InputKept, Tells
<1>6. \A k \in Told : result[at1[k]] = Form(input, k) /\ at1[k] \in 1..Len(result) /\ k \in 1..Len(input)
  BY <1>5 DEF Got, Told
<1>7. \A k \in Told : result[at1[k]].role = input[k].role
  BY <1>1, <1>6, SentFacts
<1>8. \A k, l \in Told : k < l => at1[k] < at1[l]
  BY <1>5 DEF InStep
<1>9. \A r \in Got(result) : \E k \in Told : at1[k] = r
  BY <1>5 DEF InStep
<1> DEFINE Seen == {n \in DOMAIN input : target.vision /\ input[n].role = "toolResult" /\ input[n].image}
<1>10. \A k : k \in Seen <=> k \in 1..Len(input) /\ target.vision /\ input[k].role = "toolResult" /\ input[k].image
  BY <1>1
<1>11. ASSUME NEW k \in 1..Len(input), input[k].role = "toolResult"
       PROVE  /\ k \in Told /\ Owner(input, k) \in Told
              /\ Owns(result, at1[Owner(input, k)], at1[k])
              /\ result[at1[k]].image <=> input[k].image /\ target.vision
  <2>1. PICK w \in 1..Len(input) : Owns(input, w, k) /\ input[w].role = "assistant" /\ input[w].stop = "ok"
    BY <1>1, <1>11 DEF OwnersInv
  <2>2. Owner(input, k) = w
    BY <1>1, <2>1, OwnerIs
  <2>3. k \in Told /\ w \in Told
    BY <1>11, <2>1 DEF Told, Complete
  <2>4. w \in Nat /\ k \in Nat /\ w < k /\ \A l \in (w + 1)..k : input[l].role = "toolResult"
    BY <1>1, <2>1 DEF Owns
  <2>5. PICK h \in 1..Len(result) : h = at1[w] /\ result[h].role = "assistant"
    BY <1>6, <1>7, <2>1, <2>3
  <2>6. PICK r \in 1..Len(result) : r = at1[k] /\ result[r].role = "toolResult"
    BY <1>6, <1>7, <1>11, <2>3
  <2>7. h < r
    BY <1>8, <2>3, <2>4, <2>5, <2>6
  <2>8. ASSUME NEW l \in (h + 1)..r, result[l].role # "toolResult" PROVE FALSE
    <3>1. l \in Nat /\ l \in 1..Len(result) /\ h < l /\ l <= r /\ h \in Nat /\ r \in Nat
      BY <1>1, <2>7
    <3>2. l # r /\ l < r
      BY <2>6, <2>8, <3>1
    <3>3. l \in Got(result)
      BY <2>8, <3>1 DEF Got, Genuine
    <3>4. PICK j \in Told : at1[j] = l
      BY <1>9, <3>3
    <3>5. j \in Nat /\ input[j].role # "toolResult"
      BY <1>1, <1>6, <1>7, <2>8, <3>4
    <3>6. j # w /\ j # k /\ ~(j < w) /\ ~(k < j)
      <4>1. j # w /\ j # k
        BY <2>5, <2>6, <3>1, <3>2, <3>4
      <4>2. j < w => l < h
        BY <1>8, <2>3, <2>5, <3>4
      <4>3. k < j => r < l
        BY <1>8, <2>3, <2>6, <3>4
      <4> QED BY <3>1, <3>2, <4>1, <4>2, <4>3
    <3>7. j \in (w + 1)..k
      BY <2>4, <3>5, <3>6
    <3> QED BY <2>4, <3>5, <3>7
  <2>9. Owns(result, h, r)
    BY <2>5, <2>7, <2>8 DEF Owns
  <2>10. result[r].image <=> input[k].image /\ target.vision
    <3>1. result[r] = Form(input, k)
      BY <1>6, <2>3, <2>6
    <3>2. Form(input, k).image = (input[k].image /\ target.vision)
      BY <1>11 DEF Form
    <3> QED BY <3>1, <3>2
  <2> QED BY <2>2, <2>3, <2>5, <2>6, <2>9, <2>10
<1>12. \A w \in WithImages : w \in Told /\ w \in 1..Len(input) /\ \E k \in Seen : w = Owner(input, k)
  <2> SUFFICES ASSUME NEW w \in WithImages
               PROVE  w \in Told /\ w \in 1..Len(input) /\ \E k \in Seen : w = Owner(input, k)
    OBVIOUS
  <2>1. PICK k \in Seen : w = Owner(input, k)
    BY DEF WithImages
  <2>2. k \in 1..Len(input) /\ input[k].role = "toolResult"
    BY <1>10
  <2>3. w \in Told
    BY <1>11, <2>1, <2>2
  <2> QED BY <1>6, <2>1, <2>3
<1>13. \A k \in Seen : Owner(input, k) \in WithImages
  BY DEF WithImages
<1> HIDE DEF Seen
<1>14. \A h : h \in Shown <=> h \in 1..Len(result) /\ \E r \in 1..Len(result) : Owns(result, h, r) /\ result[r].image
  BY <1>1 DEF Shown
<1>15. ASSUME NEW w \in WithImages PROVE at1[w] \in Shown
  <2>1. PICK k \in Seen : w = Owner(input, k)
    BY <1>12
  <2>2. k \in 1..Len(input) /\ target.vision /\ input[k].role = "toolResult" /\ input[k].image
    BY <1>10
  <2>3. k \in Told /\ w \in Told /\ Owns(result, at1[w], at1[k]) /\ result[at1[k]].image
    BY <1>11, <2>1, <2>2
  <2> QED BY <1>6, <1>14, <2>3
<1>16. ASSUME NEW h \in Shown PROVE \E w \in WithImages : at1[w] = h
  <2>1. PICK r \in 1..Len(result) : h \in 1..Len(result) /\ Owns(result, h, r) /\ result[r].image
    BY <1>14
  <2>2. result[r].role = "toolResult"
    <3>1. h < r /\ \A l \in (h + 1)..r : result[l].role = "toolResult"
      BY <2>1 DEF Owns
    <3>2. r \in (h + 1)..r
      BY <1>1, <2>1, <3>1
    <3> QED BY <3>1, <3>2
  <2>3. r \in Got(result)
    BY <1>1, <2>1, <2>2 DEF Got, Genuine, ImagesAreReal
  <2>4. PICK k \in Told : at1[k] = r
    BY <1>9, <2>3
  <2>5. k \in 1..Len(input) /\ input[k].role = "toolResult"
    BY <1>6, <1>7, <2>2, <2>4
  <2>6. Owns(result, at1[Owner(input, k)], r) /\ input[k].image /\ target.vision
    BY <1>11, <2>1, <2>4, <2>5
  <2>7. k \in Seen
    BY <1>10, <2>5, <2>6
  <2>8. at1[Owner(input, k)] = h
    <3>1. Owner(result, r) = h
      BY <1>1, <2>1, OwnerIs
    <3>2. Owner(result, r) = at1[Owner(input, k)]
      BY <1>1, <2>6, OwnerIs
    <3> QED BY <3>1, <3>2
  <2> QED BY <1>13, <2>7, <2>8
<1> DEFINE at3 == [w \in WithImages |-> at1[w]]
<1>17. at3 \in [WithImages -> Shown] /\ \A w \in WithImages : at3[w] = at1[w]
  BY <1>15
<1> HIDE DEF at3
<1>18. {at3[w] : w \in WithImages} = Shown
  <2>1. \A h \in Shown : \E w \in WithImages : at3[w] = h
    BY <1>16, <1>17
  <2> QED BY ONLY <1>17, <2>1
<1>19. InStep(at3, WithImages, Shown)
  BY <1>8, <1>12, <1>17, <1>18 DEF InStep
<1>20. WithImages \in SUBSET (1..Len(input))
  BY <1>12
<1>21. Cardinality(Shown) = Cardinality(WithImages)
  BY <1>1, <1>3, <1>17, <1>19, <1>20, EquallyMany
<1> QED BY <1>4, <1>21

(* Without what was synthesized, a request that is sent is the transcript, in *)
(* order, in the form its target reads; the pictures of a batch are sent once. *)
THEOREM TranscriptKept == Spec => []TranscriptIsKept
<1>1. RequestInv /\ KeptInv => TranscriptIsKept
  <2> SUFFICES ASSUME RequestInv, KeptInv, phase = "sent" PROVE TranscriptIsKept
    BY DEF TranscriptIsKept
  <2>1. LET told == {k \in DOMAIN input : IsSent(k)}
            heard == {p \in DOMAIN params : FromTranscript(params[p])}
        IN \E at \in [told -> heard] : InStep(at, told, heard) /\ \A k \in told : params[at[k]] = SentAs(k)
    BY RequestTells
  <2>2. {p \in DOMAIN params : params[p] = Images} = Pictures(params)
    <3>1. params \in Seq(Param)
      BY DEF RequestInv, TypesInv
    <3>2. DOMAIN params = 1..Len(params)
      BY <3>1
    <3> QED BY <3>2 DEF Pictures
  <2>3. Cardinality({p \in DOMAIN params : params[p] = Images}) = Cardinality(WithImages)
    BY <2>2, ImagesCounted
  <2> QED BY <2>1, <2>3 DEF TranscriptIsKept
<1> QED BY <1>1, RequestInvariance, KeptInvariance, PTL
================================================================================
