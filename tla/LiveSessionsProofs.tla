--------------------------- MODULE LiveSessionsProofs --------------------------
(***************************************************************************)
(* Proofs about the live sessions of a PiServer: a session has one runtime *)
(* at a time, each runtime is given back once, and connections and session *)
(* agree on who is attached, whatever attaches, drops, failures, disposals *)
(* and shutdown overlap.                                                   *)
(***************************************************************************)
EXTENDS LiveSessions, FiniteSetTheorems, TLAPS

(* A LiveSession; the stages in which it holds a runtime of the service.     *)
LiveRec ==
  [runtime: {"none", "opening", "snapshot", "live", "disposing", "gone"}, conns: SUBSET Conn,
   ops: Nat, terminal: BOOLEAN, busy: BOOLEAN, born: BOOLEAN, disposals: Nat]
ReqRec ==
  {Free} \union [pc: {"disposal", "opening", "acquired", "detaching", "running"},
                 conn: Conn, live: Live, creator: BOOLEAN]
Holding == {"opening", "snapshot", "live", "disposing"}

(* Who refers to the runtime that is held: the map of live sessions, the     *)
(* map of openings or close() while it waits for the disposal.               *)
HolderInv ==
  /\ \A l, m \in Live : lives[l].runtime \in Holding /\ lives[m].runtime \in Holding => l = m
  /\ \A l \in Live : lives[l].runtime \in {"opening", "snapshot"} => l = opening /\ current = 0
  /\ \A l \in Live : lives[l].runtime = "live" => l = current
  /\ \A l \in Live : lives[l].runtime = "disposing" =>
       IF lives[l].born THEN l = current \/ (server = "sessions" /\ l = awaited) ELSE l = opening
  /\ current # 0 => lives[current].runtime \in {"live", "disposing"} /\ lives[current].born

(* The life of a LiveSession.                                                *)
Life(l) ==
  /\ lives[l].runtime = "none" <=> l >= next
  /\ lives[l].runtime \in {"none", "opening", "snapshot"} =>
       ~lives[l].born /\ lives[l].disposals = 0 /\ lives[l].ops = 0 /\ lives[l].conns = {}
  /\ lives[l].runtime = "live" => lives[l].born /\ lives[l].disposals = 0
  /\ lives[l].runtime = "disposing" => lives[l].disposals = 1
  /\ lives[l].runtime = "gone" => lives[l].disposals <= 1 /\ (lives[l].born => lives[l].disposals = 1)
  /\ lives[l].disposals = 1 /\ ~closing => lives[l].ops = 0
LifeInv == \A l \in Live : Life(l)

(* The live session a request works on.                                      *)
RequestInv ==
  \A q \in Req :
    /\ req[q].pc \in {"acquired", "detaching", "running"} => lives[req[q].live].born
    /\ req[q].pc = "disposal" => lives[req[q].live].runtime \in {"disposing", "gone"}

(* While a settled disposal has waiters to wake, the only runtime that can   *)
(* be held is one that a waiter has just asked for.                          *)
DrainInv ==
  ~QueueDrained => \A l \in Live : lives[l].runtime \in Holding => lives[l].runtime = "opening"

(* operationCount counts the operations in progress.                         *)
Running(l) == {q \in Req : req[q].pc = "running" /\ req[q].live = l}
OpsInv == \A l \in Live : IsFiniteSet(Running(l)) /\ lives[l].ops = Cardinality(Running(l))

(* The connections that terminate() is dropping can attach to nothing else.  *)
EndingInv ==
  \A e \in ending : \A c \in e.conns :
    /\ stage[c] # "ready"
    /\ \A m \in Live : m # e.live /\ lives[m].runtime = "live" => c \notin lives[m].conns

(* What close() has achieved.                                                *)
CloseInv ==
  /\ server = "disconnect" => \A c \in Conn : stage[c] # "ready"
  /\ server \in {"openings", "sessions", "closed"} => attached = {} /\ \A c \in Conn : stage[c] = "closed"
  /\ server \in {"sessions", "closed"} => current = 0 /\ \A l \in Live : lives[l].runtime # "snapshot"
  /\ server = "openings" => \A l \in Live : lives[l].runtime = "snapshot" => awaited = l

IInv == TypeOK /\ LifeInv /\ OpsInv /\ RequestInv /\ CloseInv /\ HolderInv /\ DrainInv
        /\ EndingInv /\ AttachmentsAgree

--------------------------------------------------------------------------------
(* What the actions do *)

(* Live session l changes: its runtime stage, connections, operation count,  *)
(* whether it was ever live, and how often its runtime was given back.       *)
Move(l, runtime, conns, ops, born, disposals) ==
  /\ lives' \in [Live -> LiveRec] /\ \A m \in Live : m # l => lives'[m] = lives[m]
  /\ lives'[l].runtime = runtime /\ lives'[l].conns = conns /\ lives'[l].ops = ops
  /\ lives'[l].born = born /\ lives'[l].disposals = disposals

(* Its connections and operations change, and then it may be disposed.       *)
Tidied(l, conns, ops) ==
  \/ Move(l, lives[l].runtime, conns, ops, lives[l].born, lives[l].disposals)
  \/ /\ lives[l].runtime = "live" /\ conns = {} /\ ops = 0 /\ ~closing
     /\ Move(l, "disposing", conns, ops, lives[l].born, lives[l].disposals + 1)

(* Request q changes.                                                        *)
Answer(q, r) ==
  /\ req' \in [Req -> ReqRec] /\ req'[q] = r
  /\ \A p \in Req : p # q => req'[p] = req[p]

(* TypeOK with names for its records.                                        *)
LEMMA Types ==
  TypeOK =>
    /\ lives \in [Live -> LiveRec] /\ req \in [Req -> ReqRec] /\ MaxLives \in Nat
    /\ \A l : l \in Live <=> l \in Int /\ l >= 1 /\ l <= MaxLives
    /\ \A q \in Req : req[q].pc # "free" => req[q].conn \in Conn /\ req[q].live \in Live
    /\ current # 0 => current \in Live
    /\ opening # 0 => opening \in Live
<1>1. MaxLives \in Nat /\ \A l : l \in Live <=> l \in Int /\ l >= 1 /\ l <= MaxLives
  BY BoundsAssumption DEF Live
<1>2. TypeOK => lives \in [Live -> LiveRec] /\ req \in [Req -> ReqRec]
  BY DEF TypeOK, LiveRec, ReqRec
<1>3. ASSUME req \in [Req -> ReqRec], NEW q \in Req, req[q].pc # "free"
      PROVE  req[q].conn \in Conn /\ req[q].live \in Live
  <2>1. req[q] \in ReqRec
    BY <1>3
  <2> QED BY <1>3, <2>1 DEF ReqRec, Free
<1>4. TypeOK => (current # 0 => current \in Live) /\ (opening # 0 => opening \in Live)
  BY <1>1 DEF TypeOK
<1> QED BY <1>1, <1>2, <1>3, <1>4

(* Setting one live session.                                                 *)
LEMMA SetLive ==
  ASSUME lives \in [Live -> LiveRec], NEW l \in Live, NEW r \in LiveRec, lives' = [lives EXCEPT ![l] = r]
  PROVE  Move(l, r.runtime, r.conns, r.ops, r.born, r.disposals)
  BY DEF Move

(* Setting one request.                                                      *)
LEMMA SetReq ==
  ASSUME req \in [Req -> ReqRec], NEW q \in Req, NEW r \in ReqRec, req' = [req EXCEPT ![q] = r]
  PROVE  Answer(q, r)
  BY DEF Answer

(* Giving a runtime back.                                                    *)
LEMMA DisposeRec ==
  ASSUME NEW r \in LiveRec
  PROVE  /\ Dispose(r) \in LiveRec
         /\ Dispose(r).runtime = "disposing" /\ Dispose(r).disposals = r.disposals + 1
         /\ Dispose(r).conns = r.conns /\ Dispose(r).ops = r.ops /\ Dispose(r).born = r.born
<1>1. r.disposals + 1 \in Nat
  BY DEF LiveRec
<1> QED BY <1>1 DEF Dispose, LiveRec

(* maybeDispose of a live session that has been changed.                     *)
LEMMA Tidy ==
  ASSUME TypeOK, NEW l \in Live, NEW r \in LiveRec, lives' = [lives EXCEPT ![l] = maybeDispose(r)],
         r.runtime = lives[l].runtime, r.born = lives[l].born, r.disposals = lives[l].disposals
  PROVE  Tidied(l, r.conns, r.ops)
<1>1. lives \in [Live -> LiveRec]
  BY Types
<1>2. CASE Disposable(r)
  <2>1. maybeDispose(r) = Dispose(r)
    BY <1>2 DEF maybeDispose
  <2>2. Move(l, "disposing", r.conns, r.ops, r.born, r.disposals + 1)
    BY <1>1, <2>1, SetLive, DisposeRec
  <2> QED BY <1>2, <2>2 DEF Tidied, Disposable
<1>3. CASE ~Disposable(r)
  <2>1. maybeDispose(r) = r
    BY <1>3 DEF maybeDispose
  <2>2. Move(l, r.runtime, r.conns, r.ops, r.born, r.disposals)
    BY <1>1, <2>1, SetLive
  <2> QED BY <2>2 DEF Tidied
<1> QED BY <1>2, <1>3

(* A live session with another set of connections or another count.          *)
LEMMA EditRec ==
  ASSUME NEW r \in LiveRec
  PROVE  /\ \A cs \in SUBSET Conn :
              LET s == [r EXCEPT !.conns = cs]
              IN s \in LiveRec /\ s.conns = cs /\ s.ops = r.ops /\ s.runtime = r.runtime
                 /\ s.born = r.born /\ s.disposals = r.disposals
         /\ \A n \in Nat :
              LET s == [r EXCEPT !.ops = n]
              IN s \in LiveRec /\ s.conns = r.conns /\ s.ops = n /\ s.runtime = r.runtime
                 /\ s.born = r.born /\ s.disposals = r.disposals
         /\ \A b \in BOOLEAN :
              LET s == [r EXCEPT !.busy = b]
              IN s \in LiveRec /\ s.conns = r.conns /\ s.ops = r.ops /\ s.runtime = r.runtime
                 /\ s.born = r.born /\ s.disposals = r.disposals
         /\ \A b \in BOOLEAN :
              LET s == [r EXCEPT !.terminal = b]
              IN s \in LiveRec /\ s.conns = r.conns /\ s.ops = r.ops /\ s.runtime = r.runtime
                 /\ s.born = r.born /\ s.disposals = r.disposals
         /\ \A rt \in {"opening", "snapshot", "gone"} :
              LET s == [r EXCEPT !.runtime = rt]
              IN s \in LiveRec /\ s.conns = r.conns /\ s.ops = r.ops /\ s.runtime = rt
                 /\ s.born = r.born /\ s.disposals = r.disposals
  BY DEF LiveRec

(* The same for the changes that come before a maybeDispose.                 *)
LEMMA ChangeRec ==
  ASSUME NEW r \in LiveRec
  PROVE  /\ \A cs : LET s == Without(r, cs)
                  IN s \in LiveRec /\ s.conns = r.conns \ cs /\ s.ops = r.ops /\ s.runtime = r.runtime
                     /\ s.born = r.born /\ s.disposals = r.disposals /\ s.busy = r.busy
         /\ \A n \in Int : r.ops + n \in Nat =>
              LET s == AddOps(r, n)
              IN s \in LiveRec /\ s.conns = r.conns /\ s.ops = r.ops + n /\ s.runtime = r.runtime
                 /\ s.born = r.born /\ s.disposals = r.disposals /\ s.busy = r.busy
  BY DEF LiveRec, Without, AddOps

(* acquire: the request fails, or waits for an opening or a disposal, or has *)
(* the session, or asks for a runtime where there is none.                   *)
Joins(q) ==
  /\ lives' = lives /\ next' = next /\ opening' = opening
  /\ \/ Answer(q, Free)
     \/ \E r \in ReqRec :
          /\ Answer(q, r)
          /\ \/ r.pc = "opening"
             \/ r.pc = "acquired" /\ current # 0 /\ r.live = current /\ lives[current].runtime = "live"
             \/ r.pc = "disposal" /\ current # 0 /\ r.live = current /\ lives[current].runtime # "live"
Opens(q) ==
  /\ current = 0 /\ opening = 0 /\ next \in Live /\ next' = next + 1 /\ opening' = next
  /\ Move(next, "opening", lives[next].conns, lives[next].ops, lives[next].born, lives[next].disposals)
  /\ \E r \in ReqRec : Answer(q, r) /\ r.pc = "opening"

LEMMA AcquireEffect ==
  ASSUME TypeOK, NEW q \in Req, NEW c \in Conn, Acquire(q, c)
  PROVE  Joins(q) \/ Opens(q)
<1>0. /\ lives \in [Live -> LiveRec] /\ req \in [Req -> ReqRec]
      /\ (current # 0 => current \in Live) /\ (opening # 0 => opening \in Live)
  BY Types
<1>1. CASE Found # 0 /\ UNCHANGED <<lives, next, opening>>
           /\ req' = [req EXCEPT ![q] =
                IF lives[Found].terminal THEN Free
                ELSE [pc |-> IF current = 0 THEN "opening"
                             ELSE IF lives[current].runtime = "live" THEN "acquired" ELSE "disposal",
                      conn |-> c, live |-> Found, creator |-> FALSE]]
  <2>1. Found \in Live /\ (current # 0 => Found = current)
    BY <1>0, <1>1 DEF Found
  <2>2. CASE lives[Found].terminal
    <3>1. Answer(q, Free)
      BY <1>0, <1>1, <2>2, SetReq DEF ReqRec
    <3> QED BY <1>1, <3>1 DEF Joins
  <2>3. CASE ~lives[Found].terminal
    <3> DEFINE p == IF current = 0 THEN "opening"
                    ELSE IF lives[current].runtime = "live" THEN "acquired" ELSE "disposal"
               r == [pc |-> p, conn |-> c, live |-> Found, creator |-> FALSE]
    <3>1. r \in ReqRec /\ r.pc = p /\ r.live = Found
      BY <2>1 DEF ReqRec
    <3>2. req' = [req EXCEPT ![q] = r]
      BY <1>1, <2>3
    <3>3. \/ p = "opening"
          \/ p = "acquired" /\ current # 0 /\ lives[current].runtime = "live"
          \/ p = "disposal" /\ current # 0 /\ lives[current].runtime # "live"
      OBVIOUS
    <3> HIDE DEF r, p
    <3>4. Answer(q, r)
      BY <1>0, <3>1, <3>2, SetReq
    <3> QED BY <1>1, <2>1, <3>1, <3>3, <3>4 DEF Joins
  <2> QED BY <2>2, <2>3
<1>2. CASE /\ Found = 0 /\ next \in Live
           /\ req' = [req EXCEPT ![q] = [pc |-> "opening", conn |-> c, live |-> next, creator |-> TRUE]]
           /\ lives' = [lives EXCEPT ![next].runtime = "opening"]
           /\ opening' = next /\ next' = next + 1
  <2> DEFINE r == [pc |-> "opening", conn |-> c, live |-> next, creator |-> TRUE]
             s == [lives[next] EXCEPT !.runtime = "opening"]
  <2>1. r \in ReqRec /\ r.pc = "opening"
    BY <1>2 DEF ReqRec
  <2>2. Answer(q, r)
    <3> HIDE DEF r
    <3>1. req' = [req EXCEPT ![q] = r]
      BY <1>2 DEF r
    <3> QED BY <1>0, <2>1, <3>1, SetReq
  <2>3. lives[next] \in LiveRec /\ lives' = [lives EXCEPT ![next] = s]
    BY <1>0, <1>2
  <2>4. s \in LiveRec /\ s.conns = lives[next].conns /\ s.ops = lives[next].ops
        /\ s.runtime = "opening" /\ s.born = lives[next].born /\ s.disposals = lives[next].disposals
    BY <2>3, EditRec
  <2>5. Move(next, s.runtime, s.conns, s.ops, s.born, s.disposals)
    <3> HIDE DEF s
    <3> QED BY <1>0, <1>2, <2>3, <2>4, SetLive
  <2>6. current = 0 /\ opening = 0
    BY <1>0, <1>2 DEF Found
  <2> HIDE DEF r, s
  <2> QED BY <1>2, <2>1, <2>2, <2>4, <2>5, <2>6 DEF Opens
<1> QED BY <1>1, <1>2 DEF Acquire

(* acquire behind the creation it waited for.                                *)
LEMMA AcquireSettlesEffect ==
  ASSUME TypeOK, NEW q \in Req, AcquireSettles(q)
  PROVE  /\ req[q].pc = "opening" /\ req[q].live \in Live
         /\ \/ Answer(q, Free)
            \/ \E r \in ReqRec : /\ Answer(q, r) /\ r.pc = "acquired" /\ r.live = req[q].live
                                 /\ lives[req[q].live].born
         /\ \/ opening' = opening
            \/ opening' = 0 /\ opening \in Live /\ (lives[opening].born \/ lives[opening].runtime = "gone")
<1>0. req \in [Req -> ReqRec] /\ req[q].live \in Live /\ req[q].pc = "opening"
  BY Types DEF AcquireSettles
<1>1. \/ opening' = opening
      \/ opening' = 0 /\ opening \in Live /\ (lives[opening].born \/ lives[opening].runtime = "gone")
  BY <1>0 DEF AcquireSettles, CreateSettled
<1>2. CASE lives[req[q].live].born
  <2> DEFINE r == [req[q] EXCEPT !.pc = "acquired"]
  <2>1. req' = [req EXCEPT ![q] = r]
    BY <1>2 DEF AcquireSettles
  <2>2. r \in ReqRec /\ r.pc = "acquired" /\ r.live = req[q].live
    <3>1. req[q] \in ReqRec /\ req[q] # Free
      BY <1>0 DEF Free
    <3> QED BY <3>1 DEF ReqRec, Free
  <2> HIDE DEF r
  <2>3. Answer(q, r)
    BY <1>0, <2>1, <2>2, SetReq
  <2> QED BY <1>0, <1>1, <1>2, <2>2, <2>3
<1>3. CASE ~lives[req[q].live].born
  <2>1. req' = [req EXCEPT ![q] = Free]
    BY <1>3 DEF AcquireSettles
  <2>2. Answer(q, Free)
    BY <1>0, <2>1, SetReq DEF ReqRec
  <2> QED BY <1>0, <1>1, <2>2
<1> QED BY <1>2, <1>3

(* attach of a connection that has left, or that is there.                   *)
LEMMA AttachEffect ==
  ASSUME TypeOK, NEW q \in Req, Attach(q)
  PROVE  LET c == req[q].conn
             l == req[q].live
         IN /\ req[q].pc = "acquired" /\ c \in Conn /\ l \in Live /\ Answer(q, Free)
            /\ \/ /\ Tidied(l, lives[l].conns, lives[l].ops)
                  /\ stage[c] # "ready" /\ UNCHANGED <<attached, stranded>>
               \/ /\ Move(l, lives[l].runtime, lives[l].conns \union {c}, lives[l].ops,
                          lives[l].born, lives[l].disposals)
                  /\ stage[c] = "ready" /\ attached' = attached \union {c}
                  /\ \/ lives[l].runtime = "live" /\ stranded' = stranded \ {c}
                     \/ stranded' = stranded \union {c}
<1> DEFINE c == req[q].conn
           l == req[q].live
<1>0. /\ lives \in [Live -> LiveRec] /\ req \in [Req -> ReqRec] /\ req[q].pc = "acquired"
      /\ c \in Conn /\ l \in Live
  BY Types DEF Attach
<1>1. Answer(q, Free)
  BY <1>0, SetReq DEF Attach, ReqRec
<1>2. /\ stage[c] # "ready" => lives' = [lives EXCEPT ![l] = maybeDispose(lives[l])]
      /\ stage[c] = "ready" => lives' = [lives EXCEPT ![l] = [lives[l] EXCEPT !.conns = lives[l].conns \union {c}]]
  BY <1>0 DEF Attach
<1>3. /\ stage[c] # "ready" => UNCHANGED <<attached, stranded>>
      /\ stage[c] = "ready" =>
           /\ attached' = attached \union {c}
           /\ \/ lives[l].runtime = "live" /\ stranded' = stranded \ {c}
              \/ stranded' = stranded \union {c}
  BY DEF Attach
<1> HIDE DEF c, l
<1>4. lives[l] \in LiveRec
  BY <1>0
<1>5. CASE stage[c] # "ready"
  <2>1. Tidied(l, lives[l].conns, lives[l].ops)
    BY <1>0, <1>2, <1>4, <1>5, Tidy
  <2> QED BY <1>0, <1>1, <1>3, <1>5, <2>1 DEF c, l
<1>6. CASE stage[c] = "ready"
  <2> DEFINE r == [lives[l] EXCEPT !.conns = lives[l].conns \union {c}]
  <2>1. lives[l].conns \union {c} \in SUBSET Conn
    BY <1>0, <1>4 DEF LiveRec
  <2>2. r \in LiveRec /\ r.conns = lives[l].conns \union {c} /\ r.ops = lives[l].ops
        /\ r.runtime = lives[l].runtime /\ r.born = lives[l].born /\ r.disposals = lives[l].disposals
    BY <1>4, <2>1, EditRec
  <2>3. lives' = [lives EXCEPT ![l] = r]
    BY <1>2, <1>6
  <2> HIDE DEF r
  <2>4. Move(l, r.runtime, r.conns, r.ops, r.born, r.disposals)
    BY <1>0, <2>2, <2>3, SetLive
  <2> QED BY <1>0, <1>1, <1>3, <1>6, <2>2, <2>4 DEF c, l
<1> QED BY <1>5, <1>6

(* The end of a detach that told the others.                                 *)
LEMMA DetachSettlesEffect ==
  ASSUME TypeOK, NEW q \in Req, DetachSettles(q)
  PROVE  /\ req[q].pc = "detaching" /\ req[q].live \in Live /\ Answer(q, Free)
         /\ lives' = lives \/ Tidied(req[q].live, lives[req[q].live].conns, lives[req[q].live].ops)
<1> DEFINE l == req[q].live
<1>0. lives \in [Live -> LiveRec] /\ req \in [Req -> ReqRec] /\ req[q].pc = "detaching" /\ l \in Live
  BY Types DEF DetachSettles
<1>1. Answer(q, Free)
  BY <1>0, SetReq DEF DetachSettles, ReqRec
<1>2. lives' = lives \/ lives' = [lives EXCEPT ![l] = maybeDispose(lives[l])]
  BY <1>0 DEF DetachSettles
<1> HIDE DEF l
<1>3. lives' = lives \/ Tidied(l, lives[l].conns, lives[l].ops)
  BY <1>0, <1>2, Tidy
<1> QED BY <1>0, <1>1, <1>3 DEF l

(* The end of an operation.                                                  *)
LEMMA OperationSettlesEffect ==
  ASSUME TypeOK, NEW q \in Req, OperationSettles(q), lives[req[q].live].ops > 0
  PROVE  /\ req[q].pc = "running" /\ req[q].live \in Live /\ Answer(q, Free)
         /\ Tidied(req[q].live, lives[req[q].live].conns, lives[req[q].live].ops - 1)
<1> DEFINE l == req[q].live
           r == AddOps(lives[l], -1)
<1>0. lives \in [Live -> LiveRec] /\ req \in [Req -> ReqRec] /\ req[q].pc = "running" /\ l \in Live
  BY Types DEF OperationSettles
<1>1. Answer(q, Free)
  BY <1>0, SetReq DEF OperationSettles, ReqRec
<1>2. lives' = [lives EXCEPT ![l] = maybeDispose(r)]
  BY <1>0 DEF OperationSettles
<1>3. lives[l] \in LiveRec /\ lives[l].ops + -1 \in Nat /\ lives[l].ops + -1 = lives[l].ops - 1
  BY <1>0 DEF LiveRec
<1>4. r \in LiveRec /\ r.conns = lives[l].conns /\ r.ops = lives[l].ops - 1
      /\ r.runtime = lives[l].runtime /\ r.born = lives[l].born /\ r.disposals = lives[l].disposals
  BY <1>3, ChangeRec
<1> HIDE DEF l, r
<1>5. Tidied(l, r.conns, r.ops)
  BY <1>0, <1>2, <1>4, Tidy
<1> QED BY <1>0, <1>1, <1>4, <1>5 DEF l

(* A detach that tells the others first, or may dispose at once.             *)
LEMMA RequestDetachEffect ==
  ASSUME TypeOK, NEW q \in Req, NEW c \in Conn, RequestDetach(q, c)
  PROVE  /\ req[q] = Free /\ c \in attached /\ attached' = attached \ {c} /\ stranded' = stranded \ {c}
         /\ \/ current = 0 /\ UNCHANGED <<lives, req>>
            \/ /\ current \in Live /\ Tidied(current, lives[current].conns \ {c}, lives[current].ops)
               /\ \/ Answer(q, Free)
                  \/ /\ lives[current].runtime = "live"
                     /\ \E r \in ReqRec : Answer(q, r) /\ r.pc = "detaching" /\ r.live = current
<1>0. /\ lives \in [Live -> LiveRec] /\ req \in [Req -> ReqRec] /\ (current # 0 => current \in Live)
      /\ req[q] = Free /\ c \in attached /\ attached' = attached \ {c} /\ stranded' = stranded \ {c}
  BY Types DEF RequestDetach
<1>1. CASE current = 0
  BY <1>0, <1>1 DEF RequestDetach
<1>2. CASE current # 0
  <2> DEFINE live == Without(lives[current], {c})
             tell == live.conns # {} /\ ~live.terminal /\ live.runtime = "live"
             r == [pc |-> "detaching", conn |-> c, live |-> current, creator |-> FALSE]
  <2>1. lives[current] \in LiveRec
    BY <1>0, <1>2
  <2>2. /\ live \in LiveRec /\ live.conns = lives[current].conns \ {c} /\ live.ops = lives[current].ops
        /\ live.runtime = lives[current].runtime /\ live.born = lives[current].born
        /\ live.disposals = lives[current].disposals
    BY <2>1, ChangeRec
  <2>3. /\ lives' = [lives EXCEPT ![current] = IF tell THEN live ELSE maybeDispose(live)]
        /\ req' = [req EXCEPT ![q] = IF tell THEN r ELSE Free]
    BY <1>2 DEF RequestDetach
  <2>4. r \in ReqRec /\ r.pc = "detaching" /\ r.live = current
    BY <1>0, <1>2 DEF ReqRec
  <2>5. tell => lives[current].runtime = "live"
    BY <2>2
  <2> HIDE DEF live, tell, r
  <2>6. CASE tell
    <3>1. Answer(q, r)
      BY <1>0, <2>3, <2>4, <2>6, SetReq
    <3>2. Move(current, live.runtime, live.conns, live.ops, live.born, live.disposals)
      BY <1>0, <1>2, <2>2, <2>3, <2>6, SetLive
    <3> QED BY <1>0, <1>2, <2>2, <2>4, <2>5, <2>6, <3>1, <3>2 DEF Tidied
  <2>7. CASE ~tell
    <3>1. Answer(q, Free)
      BY <1>0, <2>3, <2>7, SetReq DEF ReqRec
    <3>2. Tidied(current, live.conns, live.ops)
      BY <1>0, <1>2, <2>2, <2>3, <2>7, Tidy
    <3> QED BY <1>0, <1>2, <2>2, <3>1, <3>2
  <2> QED BY <2>6, <2>7
<1> QED BY <1>1, <1>2

(* An operation starts.                                                      *)
LEMMA RequestOperationEffect ==
  ASSUME TypeOK, NEW q \in Req, NEW c \in Conn, RequestOperation(q, c)
  PROVE  /\ req[q] = Free /\ current \in Live /\ lives[current].runtime = "live"
         /\ Move(current, "live", lives[current].conns, lives[current].ops + 1,
                 lives[current].born, lives[current].disposals)
         /\ \E r \in ReqRec : Answer(q, r) /\ r.pc = "running" /\ r.live = current
<1>0. /\ lives \in [Live -> LiveRec] /\ req \in [Req -> ReqRec] /\ current \in Live
      /\ req[q] = Free /\ lives[current].runtime = "live"
  BY Types DEF RequestOperation
<1>1. lives[current] \in LiveRec /\ lives[current].ops + 1 \in Nat
  BY <1>0 DEF LiveRec
<1> DEFINE a == AddOps(lives[current], 1)
           r == [pc |-> "running", conn |-> c, live |-> current, creator |-> FALSE]
<1>2. /\ a \in LiveRec /\ a.conns = lives[current].conns /\ a.ops = lives[current].ops + 1
      /\ a.runtime = lives[current].runtime /\ a.born = lives[current].born
      /\ a.disposals = lives[current].disposals
  BY <1>1, ChangeRec
<1>3. r \in ReqRec /\ r.pc = "running" /\ r.live = current
  BY <1>0 DEF ReqRec
<1>4. req' = [req EXCEPT ![q] = r]
  BY DEF RequestOperation
<1>5. PICK busy \in {lives[current].busy, TRUE} : lives' = [lives EXCEPT ![current] = [a EXCEPT !.busy = busy]]
  BY <1>0 DEF RequestOperation
<1>6. busy \in BOOLEAN
  BY <1>1 DEF LiveRec
<1> HIDE DEF a, r
<1>7. Answer(q, r)
  BY <1>0, <1>3, <1>4, SetReq
<1> DEFINE b == [a EXCEPT !.busy = busy]
<1>8. b \in LiveRec /\ b.conns = a.conns /\ b.ops = a.ops /\ b.runtime = a.runtime
      /\ b.born = a.born /\ b.disposals = a.disposals
  BY <1>2, <1>6, EditRec
<1>9. lives' = [lives EXCEPT ![current] = b]
  BY <1>5
<1> HIDE DEF b
<1>10. Move(current, b.runtime, b.conns, b.ops, b.born, b.disposals)
  BY <1>0, <1>8, <1>9, SetLive
<1> QED BY <1>0, <1>2, <1>3, <1>7, <1>8, <1>10

(* The service settles what a session asked of it.                           *)
LEMMA RuntimeEffects ==
  ASSUME TypeOK, NEW l \in Live
  PROVE  LET n == lives[l].disposals
             Becomes(rt, b, d) == Move(l, rt, lives[l].conns, lives[l].ops, b, d)
         IN /\ DisposeSettles(l) => lives[l].runtime = "disposing" /\ Becomes("gone", lives[l].born, n)
            /\ OpenSettles(l) =>
                 /\ lives[l].runtime = "opening"
                 /\ \/ Becomes("gone", lives[l].born, n)
                    \/ closing /\ Becomes("disposing", lives[l].born, n + 1)
                    \/ ~closing /\ Becomes("snapshot", lives[l].born, n)
            /\ SnapshotSettles(l) =>
                 /\ lives[l].runtime = "snapshot"
                 /\ \/ Becomes("live", TRUE, n) /\ current' = l
                    \/ Becomes("disposing", lives[l].born, n + 1) /\ current' = current
            /\ RuntimeIdle(l) => lives[l].runtime = "live" /\ Tidied(l, lives[l].conns, lives[l].ops)
            /\ RuntimeError(l) =>
                 lives[l].runtime = "live" /\ Becomes(lives[l].runtime, lives[l].born, n)
<1>0. lives \in [Live -> LiveRec] /\ lives[l] \in LiveRec
  BY Types
<1> DEFINE n == lives[l].disposals
           Becomes(rt, b, d) == Move(l, rt, lives[l].conns, lives[l].ops, b, d)
<1>1. ASSUME DisposeSettles(l)
      PROVE  lives[l].runtime = "disposing" /\ Becomes("gone", lives[l].born, n)
  <2> DEFINE r == [lives[l] EXCEPT !.runtime = "gone", !.busy = FALSE, !.terminal = FALSE]
  <2>1. lives' = [lives EXCEPT ![l] = r] /\ lives[l].runtime = "disposing"
    BY <1>0, <1>1 DEF DisposeSettles
  <2>2. /\ r \in LiveRec /\ r.runtime = "gone" /\ r.conns = lives[l].conns /\ r.ops = lives[l].ops
        /\ r.born = lives[l].born /\ r.disposals = n
    BY <1>0 DEF LiveRec
  <2> HIDE DEF r, n
  <2>3. Move(l, r.runtime, r.conns, r.ops, r.born, r.disposals)
    BY <1>0, <2>1, <2>2, SetLive
  <2> QED BY <2>1, <2>2, <2>3
<1>2. ASSUME OpenSettles(l)
      PROVE  /\ lives[l].runtime = "opening"
             /\ \/ Becomes("gone", lives[l].born, n)
                \/ closing /\ Becomes("disposing", lives[l].born, n + 1)
                \/ ~closing /\ Becomes("snapshot", lives[l].born, n)
  <2>1. lives[l].runtime = "opening"
    BY <1>2 DEF OpenSettles
  <2>2. CASE lives' = [lives EXCEPT ![l].runtime = "gone"]
    <3> DEFINE r == [lives[l] EXCEPT !.runtime = "gone"]
    <3>1. lives' = [lives EXCEPT ![l] = r]
      BY <1>0, <2>2
    <3>2. /\ r \in LiveRec /\ r.runtime = "gone" /\ r.conns = lives[l].conns /\ r.ops = lives[l].ops
          /\ r.born = lives[l].born /\ r.disposals = n
      BY <1>0, EditRec
    <3> HIDE DEF r, n
    <3>3. Move(l, r.runtime, r.conns, r.ops, r.born, r.disposals)
      BY <1>0, <3>1, <3>2, SetLive
    <3> QED BY <2>1, <3>2, <3>3
  <2>3. CASE closing /\ lives' = [lives EXCEPT ![l] = Dispose(lives[l])]
    BY <1>0, <2>1, <2>3, SetLive, DisposeRec
  <2>4. CASE ~closing /\ lives' = [lives EXCEPT ![l] = [lives[l] EXCEPT !.runtime = "snapshot"]]
    <3> DEFINE r == [lives[l] EXCEPT !.runtime = "snapshot"]
    <3>2. /\ r \in LiveRec /\ r.runtime = "snapshot" /\ r.conns = lives[l].conns /\ r.ops = lives[l].ops
          /\ r.born = lives[l].born /\ r.disposals = n
      BY <1>0, EditRec
    <3>3. lives' = [lives EXCEPT ![l] = r]
      BY <2>4
    <3> HIDE DEF r, n
    <3>4. Move(l, r.runtime, r.conns, r.ops, r.born, r.disposals)
      BY <1>0, <3>2, <3>3, SetLive
    <3> QED BY <2>1, <2>4, <3>2, <3>4
  <2> QED BY <1>2, <2>2, <2>3, <2>4 DEF OpenSettles
<1>3. ASSUME SnapshotSettles(l)
      PROVE  /\ lives[l].runtime = "snapshot"
             /\ \/ Becomes("live", TRUE, n) /\ current' = l
                \/ Becomes("disposing", lives[l].born, n + 1) /\ current' = current
  <2>1. lives[l].runtime = "snapshot"
    BY <1>3 DEF SnapshotSettles
  <2>2. CASE lives' = [lives EXCEPT ![l].runtime = "live", ![l].born = TRUE] /\ current' = l
    <3> DEFINE r == [lives[l] EXCEPT !.runtime = "live", !.born = TRUE]
    <3>1. lives' = [lives EXCEPT ![l] = r]
      BY <1>0, <2>2
    <3>2. /\ r \in LiveRec /\ r.runtime = "live" /\ r.conns = lives[l].conns /\ r.ops = lives[l].ops
          /\ r.born = TRUE /\ r.disposals = n
      BY <1>0 DEF LiveRec
    <3> HIDE DEF r, n
    <3>3. Move(l, r.runtime, r.conns, r.ops, r.born, r.disposals)
      BY <1>0, <3>1, <3>2, SetLive
    <3> QED BY <2>1, <2>2, <3>2, <3>3
  <2>3. CASE lives' = [lives EXCEPT ![l] = Dispose(lives[l])] /\ current' = current
    BY <1>0, <2>1, <2>3, SetLive, DisposeRec
  <2> QED BY <1>3, <2>2, <2>3 DEF SnapshotSettles
<1>4. ASSUME RuntimeIdle(l) PROVE lives[l].runtime = "live" /\ Tidied(l, lives[l].conns, lives[l].ops)
  <2> DEFINE r == [lives[l] EXCEPT !.busy = FALSE]
  <2>1. /\ lives[l].runtime = "live"
        /\ lives' = [lives EXCEPT ![l] = r] \/ lives' = [lives EXCEPT ![l] = maybeDispose(r)]
    BY <1>4 DEF RuntimeIdle
  <2>2. /\ r \in LiveRec /\ r.runtime = lives[l].runtime /\ r.conns = lives[l].conns
        /\ r.ops = lives[l].ops /\ r.born = lives[l].born /\ r.disposals = lives[l].disposals
    BY <1>0, EditRec
  <2> HIDE DEF r
  <2>3. CASE lives' = [lives EXCEPT ![l] = r]
    <3>1. Move(l, r.runtime, r.conns, r.ops, r.born, r.disposals)
      BY <1>0, <2>2, <2>3, SetLive
    <3> QED BY <2>1, <2>2, <3>1 DEF Tidied
  <2>4. CASE lives' = [lives EXCEPT ![l] = maybeDispose(r)]
    <3>1. Tidied(l, r.conns, r.ops)
      BY <2>2, <2>4, Tidy
    <3> QED BY <2>1, <2>2, <3>1
  <2> QED BY <2>1, <2>3, <2>4
<1>5. ASSUME RuntimeError(l)
      PROVE  lives[l].runtime = "live" /\ Becomes(lives[l].runtime, lives[l].born, n)
  <2> DEFINE r == [lives[l] EXCEPT !.terminal = TRUE]
  <2>1. lives' = [lives EXCEPT ![l] = r] /\ lives[l].runtime = "live"
    BY <1>0, <1>5 DEF RuntimeError
  <2>2. /\ r \in LiveRec /\ r.runtime = lives[l].runtime /\ r.conns = lives[l].conns
        /\ r.ops = lives[l].ops /\ r.born = lives[l].born /\ r.disposals = n
    BY <1>0, EditRec
  <2> HIDE DEF r, n
  <2>3. Move(l, r.runtime, r.conns, r.ops, r.born, r.disposals)
    BY <1>0, <2>1, <2>2, SetLive
  <2> QED BY <2>1, <2>2, <2>3
<1> QED BY <1>1, <1>2, <1>3, <1>4, <1>5

(* Connections are dropped: by terminate, one by one, by close; and close    *)
(* disposes the session that is still live.                                  *)
LEMMA DropEffects ==
  ASSUME TypeOK
  PROVE  /\ \A e \in ending : TerminateSettles(e) =>
              e.live \in Live /\ Tidied(e.live, lives[e.live].conns \ e.conns, lives[e.live].ops)
         /\ \A c \in Conn : Disconnect(c) =>
              \/ lives' = lives /\ (c \notin attached \/ current = 0)
              \/ current \in Live /\ Tidied(current, lives[current].conns \ {c}, lives[current].ops)
         /\ CloseDisconnects =>
              \/ current = 0 /\ lives' = lives
              \/ /\ current \in Live
                 /\ Move(current, lives[current].runtime, lives[current].conns \ attached,
                         lives[current].ops, lives[current].born, lives[current].disposals)
         /\ CloseSessions =>
              \/ lives' = lives /\ (current = 0 \/ lives[current].runtime # "live")
              \/ /\ current \in Live /\ lives[current].runtime = "live"
                 /\ Move(current, "disposing", lives[current].conns, lives[current].ops,
                         lives[current].born, lives[current].disposals + 1)
<1>0. lives \in [Live -> LiveRec] /\ (current # 0 => current \in Live)
  BY Types
<1>1. ASSUME NEW e \in ending, TerminateSettles(e)
      PROVE  e.live \in Live /\ Tidied(e.live, lives[e.live].conns \ e.conns, lives[e.live].ops)
  <2> DEFINE r == Without(lives[e.live], e.conns)
  <2>1. e.live \in Live
    BY DEF TypeOK
  <2>2. /\ r \in LiveRec /\ r.conns = lives[e.live].conns \ e.conns /\ r.ops = lives[e.live].ops
        /\ r.runtime = lives[e.live].runtime /\ r.born = lives[e.live].born
        /\ r.disposals = lives[e.live].disposals
    BY <1>0, <2>1, ChangeRec
  <2>3. lives' = [lives EXCEPT ![e.live] = maybeDispose(r)]
    BY <1>1 DEF TerminateSettles
  <2> HIDE DEF r
  <2>4. Tidied(e.live, r.conns, r.ops)
    BY <2>1, <2>2, <2>3, Tidy
  <2> QED BY <2>1, <2>2, <2>4
<1>2. ASSUME NEW c \in Conn, Disconnect(c)
      PROVE  \/ lives' = lives /\ (c \notin attached \/ current = 0)
             \/ current \in Live /\ Tidied(current, lives[current].conns \ {c}, lives[current].ops)
  <2>1. CASE ~(c \in attached /\ current # 0)
    BY <1>2, <2>1 DEF Disconnect
  <2>2. CASE c \in attached /\ current # 0
    <3> DEFINE r == Without(lives[current], {c})
    <3>1. /\ r \in LiveRec /\ r.conns = lives[current].conns \ {c} /\ r.ops = lives[current].ops
          /\ r.runtime = lives[current].runtime /\ r.born = lives[current].born
          /\ r.disposals = lives[current].disposals
      BY <1>0, <2>2, ChangeRec
    <3>2. lives' = [lives EXCEPT ![current] = maybeDispose(r)]
      BY <1>2, <2>2 DEF Disconnect
    <3> HIDE DEF r
    <3>3. Tidied(current, r.conns, r.ops)
      BY <1>0, <2>2, <3>1, <3>2, Tidy
    <3> QED BY <1>0, <2>2, <3>1, <3>3
  <2> QED BY <2>1, <2>2
<1>3. ASSUME CloseDisconnects, current # 0
      PROVE  Move(current, lives[current].runtime, lives[current].conns \ attached,
                  lives[current].ops, lives[current].born, lives[current].disposals)
  <2> DEFINE r == Without(lives[current], attached)
  <2>1. /\ r \in LiveRec /\ r.conns = lives[current].conns \ attached /\ r.ops = lives[current].ops
        /\ r.runtime = lives[current].runtime /\ r.born = lives[current].born
        /\ r.disposals = lives[current].disposals
    BY <1>0, <1>3, ChangeRec
  <2>2. lives' = [lives EXCEPT ![current] = r]
    BY <1>3 DEF CloseDisconnects
  <2> HIDE DEF r
  <2>3. Move(current, r.runtime, r.conns, r.ops, r.born, r.disposals)
    BY <1>0, <1>3, <2>1, <2>2, SetLive
  <2> QED BY <2>1, <2>3
<1>4. ASSUME CloseSessions, current # 0, lives[current].runtime = "live"
      PROVE  Move(current, "disposing", lives[current].conns, lives[current].ops,
                  lives[current].born, lives[current].disposals + 1)
  <2>1. lives' = [lives EXCEPT ![current] = Dispose(lives[current])]
    BY <1>4 DEF CloseSessions
  <2> QED BY <1>0, <1>4, <2>1, SetLive, DisposeRec
<1>5. CloseDisconnects /\ current = 0 => lives' = lives
  BY DEF CloseDisconnects
<1>6. CloseSessions /\ ~(current # 0 /\ lives[current].runtime = "live") => lives' = lives
  BY DEF CloseSessions
<1> QED BY <1>0, <1>1, <1>2, <1>3, <1>4, <1>5, <1>6

(* The two actions that run a turn of acquire.                               *)
LEMMA AcquireActions ==
  ASSUME TypeOK, NEW q \in Req
  PROVE  /\ AcquireAgain(q) =>
              /\ Joins(q) \/ Opens(q)
              /\ req[q].pc = "disposal" /\ ~QueueDrained
         /\ \A c \in Conn : RequestAttach(q, c) =>
              /\ Joins(q) \/ Opens(q)
              /\ req[q] = Free /\ stage[c] = "ready"
<1>1. ASSUME AcquireAgain(q) PROVE (Joins(q) \/ Opens(q)) /\ req[q].pc = "disposal" /\ ~QueueDrained
  <2>1. req[q].pc = "disposal" /\ ~QueueDrained
    BY <1>1 DEF AcquireAgain, QueueDrained
  <2>2. req[q].conn \in Conn /\ req \in [Req -> ReqRec]
    BY <2>1, Types
  <2>3. CASE req' = [req EXCEPT ![q] = Free] /\ UNCHANGED <<lives, next, opening>>
    <3>1. Answer(q, Free)
      BY <2>2, <2>3, SetReq DEF ReqRec
    <3> QED BY <2>1, <2>3, <3>1 DEF Joins
  <2>4. CASE Acquire(q, req[q].conn)
    BY <2>1, <2>2, <2>4, AcquireEffect
  <2> QED BY <1>1, <2>3, <2>4 DEF AcquireAgain
<1>2. ASSUME NEW c \in Conn, RequestAttach(q, c)
      PROVE  (Joins(q) \/ Opens(q)) /\ req[q] = Free /\ stage[c] = "ready"
  BY <1>2, AcquireEffect DEF RequestAttach
<1> QED BY <1>1, <1>2

--------------------------------------------------------------------------------
(* Types and the life of a session *)

(* A running operation is counted.                                           *)
LEMMA RunningCounts ==
  ASSUME TypeOK, OpsInv, NEW q \in Req, req[q].pc = "running"
  PROVE  lives[req[q].live].ops > 0 /\ lives[req[q].live].ops \in Nat /\ req[q].live \in Live
<1>1. req[q].live \in Live /\ lives \in [Live -> LiveRec]
  BY Types
<1>2. q \in Running(req[q].live)
  BY DEF Running
<1>3. Cardinality(Running(req[q].live)) # 0 /\ Cardinality(Running(req[q].live)) \in Nat
  <2>1. IsFiniteSet(Running(req[q].live))
    BY <1>1 DEF OpsInv
  <2> QED BY <1>2, <2>1, FS_EmptySet, FS_CardinalityType
<1> QED BY <1>1, <1>3 DEF OpsInv

(* The variables other than lives and req have their types.                  *)
RestOK ==
  /\ stage \in [Conn -> {"ready", "closing", "closed"}]
  /\ attached \subseteq Conn /\ stranded \subseteq attached
  /\ next \in 1..MaxLives + 1 /\ current \in 0..MaxLives /\ opening \in 0..MaxLives
  /\ ending \subseteq [live: Live, conns: SUBSET Conn]
  /\ server \in {"open", "listeners", "disconnect", "openings", "sessions", "closed"}
  /\ awaited \in 0..MaxLives

(* The parts of the type invariant.                                          *)
LEMMA TypeParts ==
  (lives' \in [Live -> LiveRec] /\ req' \in [Req -> ReqRec] /\ RestOK') => TypeOK'
  BY DEF TypeOK, RestOK, LiveRec, ReqRec

(* The state keeps its types.                                                *)
LEMMA TypeNext ==
  ASSUME TypeOK, OpsInv, [Next]_vars
  PROVE  TypeOK'
<1> USE DEF connVars, closeVars
<1>1. ASSUME NEW q \in Req, AcquireAgain(q) PROVE TypeOK'
  <2>1. lives' \in [Live -> LiveRec] /\ req' \in [Req -> ReqRec]
    BY <1>1, Types, AcquireActions DEF AcquireAgain, Move, Tidied, Joins, Opens, Answer
  <2>2. RestOK'
    BY <1>1, Types, BoundsAssumption DEF AcquireAgain, RestOK, TypeOK, Acquire, Found
  <2> QED BY <2>1, <2>2, TypeParts
<1>2. ASSUME NEW q \in Req, AcquireSettles(q) PROVE TypeOK'
  <2>1. lives' \in [Live -> LiveRec] /\ req' \in [Req -> ReqRec]
    BY <1>2, Types, AcquireSettlesEffect DEF AcquireSettles, Move, Tidied, Answer
  <2>2. RestOK'
    BY <1>2, Types DEF AcquireSettles, RestOK, TypeOK
  <2> QED BY <2>1, <2>2, TypeParts
<1>3. ASSUME NEW q \in Req, Attach(q) PROVE TypeOK'
  <2>1. lives' \in [Live -> LiveRec] /\ req' \in [Req -> ReqRec]
    BY <1>3, Types, AttachEffect DEF Attach, Move, Tidied, Answer
  <2>2. RestOK'
    BY <1>3, Types DEF Attach, RestOK, TypeOK
  <2> QED BY <2>1, <2>2, TypeParts
<1>4. ASSUME NEW q \in Req, DetachSettles(q) PROVE TypeOK'
  <2>1. lives' \in [Live -> LiveRec] /\ req' \in [Req -> ReqRec]
    BY <1>4, Types, DetachSettlesEffect DEF DetachSettles, Move, Tidied, Answer
  <2>2. RestOK'
    BY <1>4, Types DEF DetachSettles, RestOK, TypeOK
  <2> QED BY <2>1, <2>2, TypeParts
<1>5. ASSUME NEW q \in Req, OperationSettles(q) PROVE TypeOK'
  <2>1. lives' \in [Live -> LiveRec] /\ req' \in [Req -> ReqRec]
    BY <1>5, Types, RunningCounts, OperationSettlesEffect DEF OperationSettles, Move, Tidied, Answer
  <2>2. RestOK'
    BY <1>5, Types DEF OperationSettles, RestOK, TypeOK
  <2> QED BY <2>1, <2>2, TypeParts
<1>6. ASSUME NEW q \in Req, NEW c \in Conn, RequestAttach(q, c) PROVE TypeOK'
  <2>1. lives' \in [Live -> LiveRec] /\ req' \in [Req -> ReqRec]
    BY <1>6, Types, AcquireActions DEF RequestAttach, Move, Tidied, Joins, Opens, Answer
  <2>2. RestOK'
    BY <1>6, Types, BoundsAssumption DEF RequestAttach, RestOK, TypeOK, Acquire, Found
  <2> QED BY <2>1, <2>2, TypeParts
<1>7. ASSUME NEW q \in Req, NEW c \in Conn, RequestDetach(q, c) PROVE TypeOK'
  <2>1. lives' \in [Live -> LiveRec] /\ req' \in [Req -> ReqRec]
    BY <1>7, Types, RequestDetachEffect DEF RequestDetach, Move, Tidied, Answer
  <2>2. RestOK'
    BY <1>7, Types DEF RequestDetach, RestOK, TypeOK
  <2> QED BY <2>1, <2>2, TypeParts
<1>8. ASSUME NEW q \in Req, NEW c \in Conn, RequestOperation(q, c) PROVE TypeOK'
  <2>1. lives' \in [Live -> LiveRec] /\ req' \in [Req -> ReqRec]
    BY <1>8, Types, RequestOperationEffect DEF RequestOperation, Move, Tidied, Answer
  <2>2. RestOK'
    BY <1>8, Types DEF RequestOperation, RestOK, TypeOK
  <2> QED BY <2>1, <2>2, TypeParts
<1>9. ASSUME NEW l \in Live, DisposeSettles(l) PROVE TypeOK'
  <2>1. lives' \in [Live -> LiveRec] /\ req' \in [Req -> ReqRec]
    BY <1>9, Types, RuntimeEffects DEF DisposeSettles, Move, Tidied
  <2>2. RestOK'
    BY <1>9, Types DEF DisposeSettles, RestOK, TypeOK
  <2> QED BY <2>1, <2>2, TypeParts
<1>10. ASSUME NEW l \in Live, OpenSettles(l) PROVE TypeOK'
  <2>1. lives' \in [Live -> LiveRec] /\ req' \in [Req -> ReqRec]
    BY <1>10, Types, RuntimeEffects DEF OpenSettles, Move, Tidied
  <2>2. RestOK'
    BY <1>10, Types DEF OpenSettles, RestOK, TypeOK
  <2> QED BY <2>1, <2>2, TypeParts
<1>11. ASSUME NEW l \in Live, SnapshotSettles(l) PROVE TypeOK'
  <2>1. lives' \in [Live -> LiveRec] /\ req' \in [Req -> ReqRec]
    BY <1>11, Types, RuntimeEffects DEF SnapshotSettles, Move, Tidied
  <2>2. RestOK'
    BY <1>11, Types DEF SnapshotSettles, RestOK, TypeOK
  <2> QED BY <2>1, <2>2, TypeParts
<1>12. ASSUME NEW l \in Live, RuntimeIdle(l) PROVE TypeOK'
  <2>1. lives' \in [Live -> LiveRec] /\ req' \in [Req -> ReqRec]
    BY <1>12, Types, RuntimeEffects DEF RuntimeIdle, Move, Tidied
  <2>2. RestOK'
    BY <1>12, Types DEF RuntimeIdle, RestOK, TypeOK
  <2> QED BY <2>1, <2>2, TypeParts
<1>13. ASSUME NEW l \in Live, RuntimeError(l) PROVE TypeOK'
  <2>1. lives' \in [Live -> LiveRec] /\ req' \in [Req -> ReqRec]
    BY <1>13, Types, RuntimeEffects DEF RuntimeError, Move, Tidied
  <2>2. RestOK'
    BY <1>13, Types DEF RuntimeError, RestOK, TypeOK
  <2> QED BY <2>1, <2>2, TypeParts
<1>14. ASSUME NEW e \in ending, TerminateSettles(e) PROVE TypeOK'
  <2>1. lives' \in [Live -> LiveRec] /\ req' \in [Req -> ReqRec]
    BY <1>14, Types, DropEffects DEF TerminateSettles, Move, Tidied
  <2>2. RestOK'
    BY <1>14, Types DEF TerminateSettles, RestOK, TypeOK
  <2> QED BY <2>1, <2>2, TypeParts
<1>15. ASSUME NEW c \in Conn, Disconnect(c) PROVE TypeOK'
  <2>1. lives' \in [Live -> LiveRec] /\ req' \in [Req -> ReqRec]
    BY <1>15, Types, DropEffects DEF Disconnect, Move, Tidied
  <2>2. RestOK'
    BY <1>15, Types DEF Disconnect, RestOK, TypeOK
  <2> QED BY <2>1, <2>2, TypeParts
<1>16. CASE Close
  <2>1. lives' \in [Live -> LiveRec] /\ req' \in [Req -> ReqRec]
    BY <1>16, Types DEF Close, Move, Tidied
  <2>2. RestOK'
    BY <1>16, Types DEF Close, RestOK, TypeOK
  <2> QED BY <2>1, <2>2, TypeParts
<1>17. CASE CloseConnections
  <2>1. lives' \in [Live -> LiveRec] /\ req' \in [Req -> ReqRec]
    BY <1>17, Types DEF CloseConnections, Move, Tidied
  <2>2. RestOK'
    BY <1>17, Types DEF CloseConnections, RestOK, TypeOK
  <2> QED BY <2>1, <2>2, TypeParts
<1>18. CASE CloseDisconnects
  <2>1. lives' \in [Live -> LiveRec] /\ req' \in [Req -> ReqRec]
    BY <1>18, Types, DropEffects DEF CloseDisconnects, Move, Tidied
  <2>2. RestOK'
    BY <1>18, Types DEF CloseDisconnects, RestOK, TypeOK
  <2> QED BY <2>1, <2>2, TypeParts
<1>19. CASE CloseSessions
  <2>1. lives' \in [Live -> LiveRec] /\ req' \in [Req -> ReqRec]
    BY <1>19, Types, DropEffects DEF CloseSessions, Move, Tidied
  <2>2. RestOK'
    BY <1>19, Types DEF CloseSessions, RestOK, TypeOK
  <2> QED BY <2>1, <2>2, TypeParts
<1>20. CASE CloseSettles
  <2>1. lives' \in [Live -> LiveRec] /\ req' \in [Req -> ReqRec]
    BY <1>20, Types DEF CloseSettles, Move, Tidied
  <2>2. RestOK'
    BY <1>20, Types DEF CloseSettles, RestOK, TypeOK
  <2> QED BY <2>1, <2>2, TypeParts
<1>21. CASE UNCHANGED vars
  BY <1>21, Types DEF vars, RestOK, TypeOK
<1> QED
  BY <1>1, <1>2, <1>3, <1>4, <1>5, <1>6, <1>7, <1>8, <1>9, <1>10, <1>11, <1>12,
     <1>13, <1>14, <1>15, <1>16, <1>17, <1>18, <1>19, <1>20, <1>21
     DEF Next, Handler, Runtime, Terminating, Closing, Events

(* A session changes in a way that fits its life.                            *)
LEMMA LifeMove ==
  ASSUME LifeInv, NEW l \in Live, NEW rt, NEW cs, NEW n, NEW b, NEW d, Move(l, rt, cs, n, b, d),
         closing => closing',
         \A m \in Live : m # l => (m >= next' <=> m >= next),
         rt = "none" <=> l >= next',
         rt \in {"none", "opening", "snapshot"} => ~b /\ d = 0 /\ n = 0 /\ cs = {},
         rt = "live" => b /\ d = 0,
         rt = "disposing" => d = 1,
         rt = "gone" => d <= 1 /\ (b => d = 1),
         d = 1 /\ ~closing => n = 0
  PROVE  LifeInv'
<1>1. SUFFICES ASSUME NEW m \in Live PROVE Life(m)'
  BY DEF LifeInv
<1>2. CASE m = l
  BY <1>2 DEF Life, Move
<1>3. CASE m # l
  <2>1. lives'[m] = lives[m] /\ Life(m)
    BY <1>3 DEF Move, LifeInv
  <2> QED BY <1>3, <2>1 DEF Life
<1> QED BY <1>2, <1>3

(* A session loses connections or operations and may then be disposed.       *)
LEMMA LifeTidied ==
  ASSUME TypeOK, LifeInv, NEW l \in Live, NEW cs, NEW n, Tidied(l, cs, n), UNCHANGED <<server, next>>,
         lives[l].conns = {} => cs = {}, lives[l].ops = 0 => n = 0
  PROVE  LifeInv'
<1>1. Life(l) /\ lives[l].disposals \in Nat
  BY Types DEF LifeInv, LiveRec
<1>2. CASE Move(l, lives[l].runtime, cs, n, lives[l].born, lives[l].disposals)
  BY <1>1, <1>2, LifeMove DEF Life, closing
<1>3. CASE /\ lives[l].runtime = "live" /\ cs = {} /\ n = 0 /\ ~closing
           /\ Move(l, "disposing", cs, n, lives[l].born, lives[l].disposals + 1)
  BY <1>1, <1>3, LifeMove DEF Life, closing
<1> QED BY <1>2, <1>3 DEF Tidied

(* Only requests change, or the server closes.                               *)
LEMMA LifeSame == LifeInv /\ UNCHANGED <<lives, next>> /\ (closing => closing') => LifeInv'
  BY DEF LifeInv, Life

(* A runtime is opened, becomes live and is given back, in this order.       *)
LEMMA LifeNext ==
  ASSUME TypeOK, OpsInv, RequestInv, LifeInv, [Next]_vars
  PROVE  LifeInv'
<1> USE DEF connVars, closeVars
<1>1. ASSUME NEW q \in Req, AcquireAgain(q) PROVE LifeInv'
  <2>1. CASE Joins(q)
    BY <1>1, <2>1, LifeSame DEF Joins, AcquireAgain, closing
  <2>2. CASE Opens(q)
    <3>1. /\ next \in Live /\ next' = next + 1 /\ server' = server
          /\ Move(next, "opening", lives[next].conns, lives[next].ops, lives[next].born, lives[next].disposals)
      BY <1>1, <2>2 DEF Opens, AcquireAgain
    <3>2. Life(next) /\ lives[next].runtime = "none" /\ \A m \in Live : m \in Int
      BY <3>1, Types DEF LifeInv, Life
    <3>3. \A m \in Live : m # next => (m >= next + 1 <=> m >= next)
      BY <3>1, <3>2
    <3>4. ~(next >= next + 1)
      BY <3>1, <3>2
    <3> QED BY <3>1, <3>2, <3>3, <3>4, LifeMove DEF Life, closing
  <2> QED BY <1>1, <2>1, <2>2, AcquireActions
<1>2. ASSUME NEW q \in Req, AcquireSettles(q) PROVE LifeInv'
  BY <1>2, LifeSame DEF AcquireSettles, closing
<1>3. ASSUME NEW q \in Req, Attach(q) PROVE LifeInv'
  <2> DEFINE c == req[q].conn
             l == req[q].live
  <2>1. UNCHANGED <<server, next>> /\ l \in Live /\ req[q].pc = "acquired"
    BY <1>3, AttachEffect DEF Attach
  <2>2. Life(l) /\ lives[l].born
    BY <2>1 DEF LifeInv, RequestInv
  <2>3. CASE Tidied(l, lives[l].conns, lives[l].ops)
    BY <2>1, <2>3, LifeTidied
  <2>4. CASE Move(l, lives[l].runtime, lives[l].conns \union {c}, lives[l].ops, lives[l].born, lives[l].disposals)
    <3> HIDE DEF c, l
    <3> QED BY <2>1, <2>2, <2>4, LifeMove DEF Life, closing
  <2> QED BY <1>3, <2>3, <2>4, AttachEffect
<1>4. ASSUME NEW q \in Req, DetachSettles(q) PROVE LifeInv'
  <2>1. UNCHANGED <<server, next>>
    BY <1>4 DEF DetachSettles
  <2> QED BY <1>4, <2>1, DetachSettlesEffect, LifeTidied, LifeSame DEF closing
<1>5. ASSUME NEW q \in Req, OperationSettles(q) PROVE LifeInv'
  <2> DEFINE l == req[q].live
             n == lives[l].ops - 1
  <2>1. UNCHANGED <<server, next>> /\ req[q].pc = "running"
    BY <1>5 DEF OperationSettles
  <2>2. lives[l].ops > 0 /\ l \in Live
    BY <2>1, RunningCounts
  <2>3. Tidied(l, lives[l].conns, n)
    BY <1>5, <2>2, OperationSettlesEffect
  <2>4. lives[l].ops # 0
    BY <2>2
  <2> HIDE DEF l, n
  <2> QED BY <2>1, <2>2, <2>3, <2>4, LifeTidied
<1>6. ASSUME NEW q \in Req, NEW c \in Conn, RequestAttach(q, c) PROVE LifeInv'
  <2>1. CASE Joins(q)
    BY <1>6, <2>1, LifeSame DEF Joins, RequestAttach, closing
  <2>2. CASE Opens(q)
    <3>1. /\ next \in Live /\ next' = next + 1 /\ server' = server
          /\ Move(next, "opening", lives[next].conns, lives[next].ops, lives[next].born, lives[next].disposals)
      BY <1>6, <2>2 DEF Opens, RequestAttach
    <3>2. Life(next) /\ lives[next].runtime = "none" /\ \A m \in Live : m \in Int
      BY <3>1, Types DEF LifeInv, Life
    <3>3. \A m \in Live : m # next => (m >= next + 1 <=> m >= next)
      BY <3>1, <3>2
    <3>4. ~(next >= next + 1)
      BY <3>1, <3>2
    <3> QED BY <3>1, <3>2, <3>3, <3>4, LifeMove DEF Life, closing
  <2> QED BY <1>6, <2>1, <2>2, AcquireActions
<1>7. ASSUME NEW q \in Req, NEW c \in Conn, RequestDetach(q, c) PROVE LifeInv'
  <2>1. UNCHANGED <<server, next>>
    BY <1>7 DEF RequestDetach
  <2>2. CASE current = 0 /\ UNCHANGED <<lives, req>>
    BY <2>1, <2>2, LifeSame DEF closing
  <2>3. CASE current \in Live /\ Tidied(current, lives[current].conns \ {c}, lives[current].ops)
    BY <2>1, <2>3, LifeTidied
  <2> QED BY <1>7, <2>2, <2>3, RequestDetachEffect
<1>8. ASSUME NEW q \in Req, NEW c \in Conn, RequestOperation(q, c) PROVE LifeInv'
  <2>1. UNCHANGED <<server, next>>
    BY <1>8 DEF RequestOperation
  <2>2. /\ current \in Live /\ lives[current].runtime = "live" /\ Life(current)
        /\ Move(current, "live", lives[current].conns, lives[current].ops + 1,
                lives[current].born, lives[current].disposals)
    BY <1>8, RequestOperationEffect DEF LifeInv
  <2> QED BY <2>1, <2>2, LifeMove DEF Life, closing
<1>9. ASSUME NEW l \in Live, DisposeSettles(l) PROVE LifeInv'
  <2>1. UNCHANGED <<server, next>> /\ Life(l) /\ lives[l].runtime = "disposing"
    BY <1>9 DEF DisposeSettles, LifeInv
  <2>2. Move(l, "gone", lives[l].conns, lives[l].ops, lives[l].born, lives[l].disposals)
    BY <1>9, RuntimeEffects
  <2> QED BY <2>1, <2>2, LifeMove DEF Life, closing
<1>10. ASSUME NEW l \in Live, OpenSettles(l) PROVE LifeInv'
  <2>1. UNCHANGED <<server, next>> /\ Life(l) /\ lives[l].runtime = "opening"
    BY <1>10 DEF OpenSettles, LifeInv
  <2>2. /\ ~(l >= next) /\ ~lives[l].born /\ lives[l].disposals = 0 /\ lives[l].ops = 0
        /\ lives[l].conns = {}
    BY <2>1 DEF Life
  <2>3. CASE Move(l, "gone", lives[l].conns, lives[l].ops, lives[l].born, lives[l].disposals)
    BY <2>1, <2>2, <2>3, LifeMove DEF closing
  <2>4. CASE closing /\ Move(l, "disposing", lives[l].conns, lives[l].ops, lives[l].born, lives[l].disposals + 1)
    BY <2>1, <2>2, <2>4, LifeMove DEF closing
  <2>5. CASE Move(l, "snapshot", lives[l].conns, lives[l].ops, lives[l].born, lives[l].disposals)
    BY <2>1, <2>2, <2>5, LifeMove DEF closing
  <2> QED BY <1>10, <2>3, <2>4, <2>5, RuntimeEffects
<1>11. ASSUME NEW l \in Live, SnapshotSettles(l) PROVE LifeInv'
  <2>1. UNCHANGED <<server, next>> /\ Life(l) /\ lives[l].runtime = "snapshot"
    BY <1>11 DEF SnapshotSettles, LifeInv
  <2>2. /\ ~(l >= next) /\ ~lives[l].born /\ lives[l].disposals = 0 /\ lives[l].ops = 0
        /\ lives[l].conns = {}
    BY <2>1 DEF Life
  <2>3. CASE Move(l, "live", lives[l].conns, lives[l].ops, TRUE, lives[l].disposals)
    <3>1. Life(l)'
      BY <2>1, <2>2, <2>3 DEF Life, Move
    <3>2. \A m \in Live : m # l => lives'[m] = lives[m]
      BY <2>3 DEF Move
    <3>3. ASSUME NEW m \in Live, m # l PROVE Life(m)'
      BY <2>1, <3>2, <3>3 DEF LifeInv, Life, closing
    <3> QED BY <3>1, <3>3 DEF LifeInv
  <2>4. CASE Move(l, "disposing", lives[l].conns, lives[l].ops, lives[l].born, lives[l].disposals + 1)
    BY <2>1, <2>2, <2>4, LifeMove DEF closing
  <2> QED BY <1>11, <2>3, <2>4, RuntimeEffects
<1>12. ASSUME NEW l \in Live, RuntimeIdle(l) PROVE LifeInv'
  <2>1. UNCHANGED <<server, next>>
    BY <1>12 DEF RuntimeIdle
  <2> QED BY <1>12, <2>1, RuntimeEffects, LifeTidied
<1>13. ASSUME NEW l \in Live, RuntimeError(l) PROVE LifeInv'
  <2>1. UNCHANGED <<server, next>> /\ Life(l)
    BY <1>13 DEF RuntimeError, LifeInv
  <2>2. Move(l, lives[l].runtime, lives[l].conns, lives[l].ops, lives[l].born, lives[l].disposals)
    BY <1>13, RuntimeEffects
  <2> QED BY <2>1, <2>2, LifeMove DEF Life, closing
<1>14. ASSUME NEW e \in ending, TerminateSettles(e) PROVE LifeInv'
  <2>1. UNCHANGED <<server, next>>
    BY <1>14 DEF TerminateSettles
  <2>2. e.live \in Live /\ Tidied(e.live, lives[e.live].conns \ e.conns, lives[e.live].ops)
    BY <1>14, DropEffects
  <2> QED BY <2>1, <2>2, LifeTidied
<1>15. ASSUME NEW c \in Conn, Disconnect(c) PROVE LifeInv'
  <2>1. UNCHANGED <<server, next>>
    BY <1>15 DEF Disconnect
  <2>2. CASE lives' = lives
    BY <2>1, <2>2, LifeSame DEF closing
  <2>3. CASE current \in Live /\ Tidied(current, lives[current].conns \ {c}, lives[current].ops)
    BY <2>1, <2>3, LifeTidied
  <2> QED BY <1>15, <2>2, <2>3, DropEffects
<1>16. CASE Close
  BY <1>16, LifeSame DEF Close, closing
<1>17. CASE CloseConnections
  BY <1>17, LifeSame DEF CloseConnections, closing
<1>18. CASE CloseDisconnects
  <2>1. next' = next /\ closing /\ closing'
    BY <1>18 DEF CloseDisconnects, closing
  <2>2. CASE lives' = lives
    BY <2>1, <2>2, LifeSame
  <2>3. CASE /\ current \in Live
             /\ Move(current, lives[current].runtime, lives[current].conns \ attached,
                     lives[current].ops, lives[current].born, lives[current].disposals)
    <3>1. Life(current)
      BY <2>3 DEF LifeInv
    <3> QED BY <2>1, <2>3, <3>1, LifeMove DEF Life
  <2> QED BY <1>18, <2>2, <2>3, DropEffects
<1>19. CASE CloseSessions
  <2>1. next' = next /\ closing /\ closing'
    BY <1>19 DEF CloseSessions, closing
  <2>2. CASE lives' = lives
    BY <2>1, <2>2, LifeSame
  <2>3. CASE /\ current \in Live /\ lives[current].runtime = "live"
             /\ Move(current, "disposing", lives[current].conns, lives[current].ops,
                     lives[current].born, lives[current].disposals + 1)
    <3>1. Life(current)
      BY <2>3 DEF LifeInv
    <3>2. lives[current].disposals = 0 /\ lives[current].disposals + 1 = 1 /\ ~(current >= next)
      BY <2>3, <3>1 DEF Life
    <3> QED BY <2>1, <2>3, <3>1, <3>2, LifeMove
  <2> QED BY <1>19, <2>2, <2>3, DropEffects
<1>20. CASE CloseSettles
  BY <1>20, LifeSame DEF CloseSettles, closing
<1>21. CASE UNCHANGED vars
  BY <1>21, LifeSame DEF vars, closing
<1> QED
  BY <1>1, <1>2, <1>3, <1>4, <1>5, <1>6, <1>7, <1>8, <1>9, <1>10, <1>11, <1>12,
     <1>13, <1>14, <1>15, <1>16, <1>17, <1>18, <1>19, <1>20, <1>21
     DEF Next, Handler, Runtime, Terminating, Closing, Events

--------------------------------------------------------------------------------
(* Requests *)

(* A request that neither was nor becomes an operation.                      *)
LEMMA OpsAnswer ==
  ASSUME OpsInv, NEW q \in Req, NEW r, Answer(q, r), req[q].pc # "running", r.pc # "running",
         \A m \in Live : lives'[m].ops = lives[m].ops
  PROVE  OpsInv'
<1>1. ASSUME NEW m \in Live PROVE Running(m)' = Running(m)
  BY DEF Running, Answer
<1> QED BY <1>1 DEF OpsInv

(* No request changes.                                                       *)
LEMMA OpsSame ==
  ASSUME OpsInv, req' = req, \A m \in Live : lives'[m].ops = lives[m].ops
  PROVE  OpsInv'
<1>1. ASSUME NEW m \in Live PROVE Running(m)' = Running(m)
  BY DEF Running
<1> QED BY <1>1 DEF OpsInv

(* An operation ends.                                                        *)
LEMMA OpsEnd ==
  ASSUME OpsInv, NEW l \in Live, NEW q \in Req, req[q].pc = "running", req[q].live = l, Answer(q, Free),
         lives'[l].ops = lives[l].ops - 1, \A m \in Live : m # l => lives'[m] = lives[m]
  PROVE  OpsInv'
<1>1. Running(l)' = Running(l) \ {q} /\ q \in Running(l)
  BY DEF Running, Answer, Free
<1>2. \A m \in Live : m # l => Running(m)' = Running(m)
  BY DEF Running, Answer, Free
<1>3. IsFiniteSet(Running(l)) /\ lives[l].ops = Cardinality(Running(l))
  BY DEF OpsInv
<1>4. IsFiniteSet(Running(l)') /\ Cardinality(Running(l)') = Cardinality(Running(l)) - 1
  BY <1>1, <1>3, FS_RemoveElement
<1>5. \A m \in Live : m # l => IsFiniteSet(Running(m)') /\ lives'[m].ops = Cardinality(Running(m)')
  BY <1>2 DEF OpsInv
<1>6. IsFiniteSet(Running(l)') /\ lives'[l].ops = Cardinality(Running(l)')
  BY <1>3, <1>4
<1> QED BY <1>5, <1>6 DEF OpsInv

(* An operation starts.                                                      *)
LEMMA OpsStart ==
  ASSUME OpsInv, NEW l \in Live, NEW q \in Req, req[q] = Free, NEW r, Answer(q, r),
         r.pc = "running", r.live = l,
         lives'[l].ops = lives[l].ops + 1, \A m \in Live : m # l => lives'[m] = lives[m]
  PROVE  OpsInv'
<1>1. Running(l)' = Running(l) \union {q} /\ q \notin Running(l)
  BY DEF Running, Answer, Free
<1>2. \A m \in Live : m # l => Running(m)' = Running(m)
  BY DEF Running, Answer, Free
<1>3. IsFiniteSet(Running(l)) /\ lives[l].ops = Cardinality(Running(l))
  BY DEF OpsInv
<1>4. IsFiniteSet(Running(l)') /\ Cardinality(Running(l)') = Cardinality(Running(l)) + 1
  BY <1>1, <1>3, FS_AddElement
<1>5. \A m \in Live : m # l => IsFiniteSet(Running(m)') /\ lives'[m].ops = Cardinality(Running(m)')
  BY <1>2 DEF OpsInv
<1>6. IsFiniteSet(Running(l)') /\ lives'[l].ops = Cardinality(Running(l)')
  BY <1>3, <1>4
<1> QED BY <1>5, <1>6 DEF OpsInv

(* Changes that keep the count.                                              *)
LEMMA OpsKept ==
  ASSUME TypeOK, NEW l \in Live, NEW cs, Tidied(l, cs, lives[l].ops)
  PROVE  \A m \in Live : lives'[m].ops = lives[m].ops
  BY DEF Tidied, Move

(* operationCount counts the operations in progress.                         *)
LEMMA OpsNext ==
  ASSUME TypeOK, OpsInv, [Next]_vars
  PROVE  OpsInv'
<1> USE DEF connVars, closeVars
<1>1. ASSUME NEW q \in Req, AcquireAgain(q) PROVE OpsInv'
  <2>1. req[q].pc # "running"
    BY <1>1, AcquireActions DEF Free
  <2>2. \A m \in Live : lives'[m].ops = lives[m].ops
    BY <1>1, AcquireActions DEF Joins, Opens, Move
  <2>3. \E r : Answer(q, r) /\ r.pc # "running"
    BY <1>1, AcquireActions DEF Joins, Opens, Free
  <2> QED BY <2>1, <2>2, <2>3, OpsAnswer
<1>2. ASSUME NEW q \in Req, AcquireSettles(q) PROVE OpsInv'
  <2>1. req[q].pc # "running" /\ lives' = lives
    BY <1>2 DEF AcquireSettles
  <2>2. \E r : Answer(q, r) /\ r.pc # "running"
    BY <1>2, AcquireSettlesEffect DEF Free
  <2> QED BY <2>1, <2>2, OpsAnswer
<1>3. ASSUME NEW q \in Req, Attach(q) PROVE OpsInv'
  <2>1. req[q].pc # "running" /\ Answer(q, Free) /\ Free.pc # "running"
    BY <1>3, AttachEffect DEF Free
  <2>2. \A m \in Live : lives'[m].ops = lives[m].ops
    BY <1>3, AttachEffect, OpsKept DEF Move
  <2> QED BY <2>1, <2>2, OpsAnswer
<1>4. ASSUME NEW q \in Req, DetachSettles(q) PROVE OpsInv'
  <2>1. req[q].pc # "running" /\ Answer(q, Free) /\ Free.pc # "running"
    BY <1>4, DetachSettlesEffect DEF Free
  <2>2. \A m \in Live : lives'[m].ops = lives[m].ops
    BY <1>4, DetachSettlesEffect, OpsKept
  <2> QED BY <2>1, <2>2, OpsAnswer
<1>5. ASSUME NEW q \in Req, OperationSettles(q) PROVE OpsInv'
  <2>1. req[q].pc = "running"
    BY <1>5 DEF OperationSettles
  <2>2. PICK l \in Live : l = req[q].live /\ lives[l].ops > 0 /\ lives[l].ops \in Nat
    BY <2>1, RunningCounts
  <2>3. Tidied(l, lives[l].conns, lives[l].ops - 1) /\ Answer(q, Free)
    BY <1>5, <2>2, OperationSettlesEffect
  <2>4. lives'[l].ops = lives[l].ops - 1 /\ \A m \in Live : m # l => lives'[m] = lives[m]
    BY <2>3 DEF Tidied, Move
  <2> QED BY <2>1, <2>2, <2>3, <2>4, OpsEnd
<1>6. ASSUME NEW q \in Req, NEW c \in Conn, RequestAttach(q, c) PROVE OpsInv'
  <2>1. req[q].pc # "running"
    BY <1>6, AcquireActions DEF Free
  <2>2. \A m \in Live : lives'[m].ops = lives[m].ops
    BY <1>6, AcquireActions DEF Joins, Opens, Move
  <2>3. \E r : Answer(q, r) /\ r.pc # "running"
    BY <1>6, AcquireActions DEF Joins, Opens, Free
  <2> QED BY <2>1, <2>2, <2>3, OpsAnswer
<1>7. ASSUME NEW q \in Req, NEW c \in Conn, RequestDetach(q, c) PROVE OpsInv'
  <2>1. CASE UNCHANGED <<lives, req>>
    BY <2>1, OpsSame
  <2>2. CASE current \in Live /\ Tidied(current, lives[current].conns \ {c}, lives[current].ops)
             /\ \E r : Answer(q, r) /\ r.pc # "running"
    <3>1. req[q].pc # "running"
      BY <1>7 DEF RequestDetach, Free
    <3>2. \A m \in Live : lives'[m].ops = lives[m].ops
      BY <2>2, OpsKept
    <3> QED BY <2>2, <3>1, <3>2, OpsAnswer
  <2> QED BY <1>7, <2>1, <2>2, RequestDetachEffect DEF Free
<1>8. ASSUME NEW q \in Req, NEW c \in Conn, RequestOperation(q, c) PROVE OpsInv'
  <2>1. PICK l \in Live : l = current
    BY <1>8, RequestOperationEffect
  <2>2. /\ req[q] = Free /\ lives'[l].ops = lives[l].ops + 1
        /\ \A m \in Live : m # l => lives'[m] = lives[m]
    BY <1>8, <2>1, RequestOperationEffect DEF Move
  <2>3. \E r : Answer(q, r) /\ r.pc = "running" /\ r.live = l
    BY <1>8, <2>1, RequestOperationEffect
  <2> QED BY <2>1, <2>2, <2>3, OpsStart
<1>9. ASSUME NEW l \in Live, DisposeSettles(l) PROVE OpsInv'
  <2>1. \A m \in Live : lives'[m].ops = lives[m].ops
    BY <1>9, RuntimeEffects DEF Move
  <2> QED BY <1>9, <2>1, OpsSame DEF DisposeSettles
<1>10. ASSUME NEW l \in Live, OpenSettles(l) PROVE OpsInv'
  <2>1. \A m \in Live : lives'[m].ops = lives[m].ops
    BY <1>10, RuntimeEffects DEF Move
  <2> QED BY <1>10, <2>1, OpsSame DEF OpenSettles
<1>11. ASSUME NEW l \in Live, SnapshotSettles(l) PROVE OpsInv'
  <2>1. \A m \in Live : lives'[m].ops = lives[m].ops
    BY <1>11, RuntimeEffects DEF Move
  <2> QED BY <1>11, <2>1, OpsSame DEF SnapshotSettles
<1>12. ASSUME NEW l \in Live, RuntimeIdle(l) PROVE OpsInv'
  <2>1. \A m \in Live : lives'[m].ops = lives[m].ops
    BY <1>12, RuntimeEffects, OpsKept DEF Move
  <2> QED BY <1>12, <2>1, OpsSame DEF RuntimeIdle
<1>13. ASSUME NEW l \in Live, RuntimeError(l) PROVE OpsInv'
  <2>1. \A m \in Live : lives'[m].ops = lives[m].ops
    BY <1>13, RuntimeEffects DEF Move
  <2> QED BY <1>13, <2>1, OpsSame DEF RuntimeError
<1>14. ASSUME NEW e \in ending, TerminateSettles(e) PROVE OpsInv'
  <2>1. \A m \in Live : lives'[m].ops = lives[m].ops
    BY <1>14, DropEffects, OpsKept DEF Move
  <2> QED BY <1>14, <2>1, OpsSame DEF TerminateSettles
<1>15. ASSUME NEW c \in Conn, Disconnect(c) PROVE OpsInv'
  <2>1. \A m \in Live : lives'[m].ops = lives[m].ops
    BY <1>15, DropEffects, OpsKept DEF Move
  <2> QED BY <1>15, <2>1, OpsSame DEF Disconnect
<1>16. CASE Close
  BY <1>16, OpsSame DEF Close
<1>17. CASE CloseConnections
  BY <1>17, OpsSame DEF CloseConnections
<1>18. CASE CloseDisconnects
  <2>1. \A m \in Live : lives'[m].ops = lives[m].ops
    BY <1>18, DropEffects DEF Move
  <2> QED BY <1>18, <2>1, OpsSame DEF CloseDisconnects
<1>19. CASE CloseSessions
  <2>1. \A m \in Live : lives'[m].ops = lives[m].ops
    BY <1>19, DropEffects DEF Move
  <2> QED BY <1>19, <2>1, OpsSame DEF CloseSessions
<1>20. CASE CloseSettles
  BY <1>20, OpsSame DEF CloseSettles
<1>21. CASE UNCHANGED vars
  BY <1>21, OpsSame DEF vars
<1> QED
  BY <1>1, <1>2, <1>3, <1>4, <1>5, <1>6, <1>7, <1>8, <1>9, <1>10, <1>11, <1>12,
     <1>13, <1>14, <1>15, <1>16, <1>17, <1>18, <1>19, <1>20, <1>21
     DEF Next, Handler, Runtime, Terminating, Closing, Events

(* What no step takes back: that a session was live once, and that its       *)
(* runtime is on its way out; nor does closing let a session come up.        *)
Forward ==
  \A m \in Live :
    /\ lives[m].born => lives'[m].born
    /\ lives[m].runtime \in {"disposing", "gone"} => lives'[m].runtime \in {"disposing", "gone"}
    /\ closing /\ lives'[m].runtime = "snapshot" => lives[m].runtime = "snapshot"

LEMMA ForwardMove ==
  ASSUME NEW l \in Live, NEW rt, NEW cs, NEW n, NEW b, NEW d, Move(l, rt, cs, n, b, d), lives[l].born => b,
         lives[l].runtime \in {"disposing", "gone"} => rt \in {"disposing", "gone"},
         closing /\ rt = "snapshot" => lives[l].runtime = "snapshot"
  PROVE  Forward
  BY DEF Move, Forward

LEMMA ForwardTidied ==
  ASSUME NEW l \in Live, NEW cs, NEW n, Tidied(l, cs, n)
  PROVE  Forward
  BY ForwardMove DEF Tidied

(* No step takes these back.                                                 *)
LEMMA ForwardNext ==
  ASSUME TypeOK, OpsInv, LifeInv, [Next]_vars
  PROVE  Forward
<1> USE DEF connVars, closeVars
<1>1. ASSUME NEW q \in Req, AcquireAgain(q) PROVE Forward
  <2>1. CASE Joins(q)
    BY <2>1 DEF Joins, Forward
  <2>2. CASE Opens(q)
    <3>1. /\ next \in Live
          /\ Move(next, "opening", lives[next].conns, lives[next].ops, lives[next].born, lives[next].disposals)
      BY <2>2 DEF Opens
    <3>2. lives[next].runtime = "none"
      BY <3>1, Types DEF LifeInv, Life
    <3> QED BY <3>1, <3>2, ForwardMove
  <2> QED BY <1>1, <2>1, <2>2, AcquireActions
<1>2. ASSUME NEW q \in Req, AcquireSettles(q) PROVE Forward
  BY <1>2 DEF AcquireSettles, Forward
<1>3. ASSUME NEW q \in Req, Attach(q) PROVE Forward
  <2>1. PICK l \in Live : l = req[q].live
    BY <1>3, AttachEffect
  <2>2. CASE Tidied(l, lives[l].conns, lives[l].ops)
    BY <2>2, ForwardTidied
  <2>3. CASE Move(l, lives[l].runtime, lives[l].conns \union {req[q].conn}, lives[l].ops,
                  lives[l].born, lives[l].disposals)
    BY <2>3, ForwardMove
  <2> QED BY <1>3, <2>1, <2>2, <2>3, AttachEffect
<1>4. ASSUME NEW q \in Req, DetachSettles(q) PROVE Forward
  BY <1>4, DetachSettlesEffect, ForwardTidied DEF Forward
<1>5. ASSUME NEW q \in Req, OperationSettles(q) PROVE Forward
  <2>1. req[q].pc = "running"
    BY <1>5 DEF OperationSettles
  <2> QED BY <1>5, <2>1, RunningCounts, OperationSettlesEffect, ForwardTidied
<1>6. ASSUME NEW q \in Req, NEW c \in Conn, RequestAttach(q, c) PROVE Forward
  <2>1. CASE Joins(q)
    BY <2>1 DEF Joins, Forward
  <2>2. CASE Opens(q)
    <3>1. /\ next \in Live
          /\ Move(next, "opening", lives[next].conns, lives[next].ops, lives[next].born, lives[next].disposals)
      BY <2>2 DEF Opens
    <3>2. lives[next].runtime = "none"
      BY <3>1, Types DEF LifeInv, Life
    <3> QED BY <3>1, <3>2, ForwardMove
  <2> QED BY <1>6, <2>1, <2>2, AcquireActions
<1>7. ASSUME NEW q \in Req, NEW c \in Conn, RequestDetach(q, c) PROVE Forward
  BY <1>7, RequestDetachEffect, ForwardTidied DEF Forward
<1>8. ASSUME NEW q \in Req, NEW c \in Conn, RequestOperation(q, c) PROVE Forward
  BY <1>8, RequestOperationEffect, ForwardMove
<1>9. ASSUME NEW l \in Live, DisposeSettles(l) PROVE Forward
  BY <1>9, RuntimeEffects, ForwardMove, ForwardTidied
<1>10. ASSUME NEW l \in Live, OpenSettles(l) PROVE Forward
  BY <1>10, RuntimeEffects, ForwardMove, ForwardTidied
<1>11. ASSUME NEW l \in Live, SnapshotSettles(l) PROVE Forward
  BY <1>11, RuntimeEffects, ForwardMove, ForwardTidied
<1>12. ASSUME NEW l \in Live, RuntimeIdle(l) PROVE Forward
  BY <1>12, RuntimeEffects, ForwardMove, ForwardTidied
<1>13. ASSUME NEW l \in Live, RuntimeError(l) PROVE Forward
  BY <1>13, RuntimeEffects, ForwardMove, ForwardTidied
<1>14. ASSUME NEW e \in ending, TerminateSettles(e) PROVE Forward
  BY <1>14, DropEffects, ForwardMove, ForwardTidied DEF Forward
<1>15. ASSUME NEW c \in Conn, Disconnect(c) PROVE Forward
  BY <1>15, DropEffects, ForwardMove, ForwardTidied DEF Forward
<1>16. CASE Close
  BY <1>16 DEF Close, Forward
<1>17. CASE CloseConnections
  BY <1>17 DEF CloseConnections, Forward
<1>18. CASE CloseDisconnects
  BY <1>18, DropEffects, ForwardMove, ForwardTidied DEF Forward
<1>19. CASE CloseSessions
  BY <1>19, DropEffects, ForwardMove, ForwardTidied DEF Forward
<1>20. CASE CloseSettles
  BY <1>20 DEF CloseSettles, Forward
<1>21. CASE UNCHANGED vars
  BY <1>21 DEF vars, Forward
<1> QED
  BY <1>1, <1>2, <1>3, <1>4, <1>5, <1>6, <1>7, <1>8, <1>9, <1>10, <1>11, <1>12,
     <1>13, <1>14, <1>15, <1>16, <1>17, <1>18, <1>19, <1>20, <1>21
     DEF Next, Handler, Runtime, Terminating, Closing, Events

(* One request changes, or none.                                             *)
LEMMA RequestAnswer ==
  ASSUME RequestInv, Forward, NEW q \in Req, NEW r, Answer(q, r),
         r.pc \in {"acquired", "detaching", "running"} => lives'[r.live].born,
         r.pc = "disposal" => lives'[r.live].runtime \in {"disposing", "gone"},
         \A p \in Req : req[p].pc # "free" => req[p].live \in Live
  PROVE  RequestInv'
  BY DEF RequestInv, Forward, Answer

LEMMA RequestSame ==
  ASSUME RequestInv, Forward, req' = req, \A p \in Req : req[p].pc # "free" => req[p].live \in Live
  PROVE  RequestInv'
  BY DEF RequestInv, Forward

(* A request works on a session that was live, or waits for its disposal.    *)
LEMMA RequestNext ==
  ASSUME TypeOK, OpsInv, LifeInv, HolderInv, RequestInv, [Next]_vars
  PROVE  RequestInv'
<1> USE DEF connVars, closeVars
<1>0. /\ Forward /\ \A p \in Req : req[p].pc # "free" => req[p].live \in Live
      /\ current # 0 => lives[current].runtime \in {"live", "disposing"} /\ lives[current].born
  BY ForwardNext, Types DEF HolderInv
<1>1. ASSUME NEW q \in Req, AcquireAgain(q) PROVE RequestInv'
  <2> PICK r : /\ Answer(q, r)
               /\ r.pc \in {"acquired", "detaching", "running"} => r.live \in Live /\ lives[r.live].born
               /\ r.pc = "disposal" => r.live \in Live /\ lives[r.live].runtime \in {"disposing", "gone"}
    BY <1>1, <1>0, Types, AcquireActions DEF Joins, Opens, Free
  <2>1. /\ r.pc \in {"acquired", "detaching", "running"} => lives'[r.live].born
        /\ r.pc = "disposal" => lives'[r.live].runtime \in {"disposing", "gone"}
    BY <1>0 DEF Forward
  <2> QED BY <1>0, <2>1, RequestAnswer
<1>2. ASSUME NEW q \in Req, AcquireSettles(q) PROVE RequestInv'
  <2> PICK r : /\ Answer(q, r)
               /\ r.pc \in {"acquired", "detaching", "running"} => r.live \in Live /\ lives[r.live].born
               /\ r.pc = "disposal" => r.live \in Live /\ lives[r.live].runtime \in {"disposing", "gone"}
    BY <1>2, <1>0, Types, AcquireSettlesEffect DEF Free
  <2>1. /\ r.pc \in {"acquired", "detaching", "running"} => lives'[r.live].born
        /\ r.pc = "disposal" => lives'[r.live].runtime \in {"disposing", "gone"}
    BY <1>0 DEF Forward
  <2> QED BY <1>0, <2>1, RequestAnswer
<1>3. ASSUME NEW q \in Req, Attach(q) PROVE RequestInv'
  <2>1. Answer(q, Free)
    BY <1>3, AttachEffect
  <2> QED BY <1>0, <2>1, RequestAnswer DEF Free
<1>4. ASSUME NEW q \in Req, DetachSettles(q) PROVE RequestInv'
  <2>1. Answer(q, Free)
    BY <1>4, DetachSettlesEffect
  <2> QED BY <1>0, <2>1, RequestAnswer DEF Free
<1>5. ASSUME NEW q \in Req, OperationSettles(q) PROVE RequestInv'
  <2>1. Answer(q, Free)
    BY <1>5, RunningCounts, OperationSettlesEffect DEF OperationSettles
  <2> QED BY <1>0, <2>1, RequestAnswer DEF Free
<1>6. ASSUME NEW q \in Req, NEW c \in Conn, RequestAttach(q, c) PROVE RequestInv'
  <2> PICK r : /\ Answer(q, r)
               /\ r.pc \in {"acquired", "detaching", "running"} => r.live \in Live /\ lives[r.live].born
               /\ r.pc = "disposal" => r.live \in Live /\ lives[r.live].runtime \in {"disposing", "gone"}
    BY <1>6, <1>0, Types, AcquireActions DEF Joins, Opens, Free
  <2>1. /\ r.pc \in {"acquired", "detaching", "running"} => lives'[r.live].born
        /\ r.pc = "disposal" => lives'[r.live].runtime \in {"disposing", "gone"}
    BY <1>0 DEF Forward
  <2> QED BY <1>0, <2>1, RequestAnswer
<1>7. ASSUME NEW q \in Req, NEW c \in Conn, RequestDetach(q, c) PROVE RequestInv'
  <2>0. CASE UNCHANGED <<lives, req>>
    BY <1>0, <2>0, RequestSame
  <2>9. CASE /\ current \in Live
             /\ \/ Answer(q, Free)
                \/ \E r \in ReqRec : Answer(q, r) /\ r.pc = "detaching" /\ r.live = current
    <3> PICK r : /\ Answer(q, r)
                 /\ r.pc \in {"acquired", "detaching", "running"} => r.live \in Live /\ lives[r.live].born
                 /\ r.pc = "disposal" => r.live \in Live /\ lives[r.live].runtime \in {"disposing", "gone"}
      BY <2>9, <1>0, Types DEF Free
    <3>1. /\ r.pc \in {"acquired", "detaching", "running"} => lives'[r.live].born
          /\ r.pc = "disposal" => lives'[r.live].runtime \in {"disposing", "gone"}
      BY <1>0 DEF Forward
    <3> QED BY <1>0, <3>1, RequestAnswer
  <2> QED BY <1>7, <2>0, <2>9, RequestDetachEffect
<1>8. ASSUME NEW q \in Req, NEW c \in Conn, RequestOperation(q, c) PROVE RequestInv'
  <2> PICK r : /\ Answer(q, r)
               /\ r.pc \in {"acquired", "detaching", "running"} => r.live \in Live /\ lives[r.live].born
               /\ r.pc = "disposal" => r.live \in Live /\ lives[r.live].runtime \in {"disposing", "gone"}
    BY <1>8, <1>0, Types, RequestOperationEffect DEF Free
  <2>1. /\ r.pc \in {"acquired", "detaching", "running"} => lives'[r.live].born
        /\ r.pc = "disposal" => lives'[r.live].runtime \in {"disposing", "gone"}
    BY <1>0 DEF Forward
  <2> QED BY <1>0, <2>1, RequestAnswer
<1>9. ASSUME NEW l \in Live, DisposeSettles(l) PROVE RequestInv'
  BY <1>9, <1>0, RequestSame DEF DisposeSettles
<1>10. ASSUME NEW l \in Live, OpenSettles(l) PROVE RequestInv'
  BY <1>10, <1>0, RequestSame DEF OpenSettles
<1>11. ASSUME NEW l \in Live, SnapshotSettles(l) PROVE RequestInv'
  BY <1>11, <1>0, RequestSame DEF SnapshotSettles
<1>12. ASSUME NEW l \in Live, RuntimeIdle(l) PROVE RequestInv'
  BY <1>12, <1>0, RequestSame DEF RuntimeIdle
<1>13. ASSUME NEW l \in Live, RuntimeError(l) PROVE RequestInv'
  BY <1>13, <1>0, RequestSame DEF RuntimeError
<1>14. ASSUME NEW e \in ending, TerminateSettles(e) PROVE RequestInv'
  BY <1>14, <1>0, RequestSame DEF TerminateSettles
<1>15. ASSUME NEW c \in Conn, Disconnect(c) PROVE RequestInv'
  BY <1>15, <1>0, RequestSame DEF Disconnect
<1>16. CASE Close
  BY <1>16, <1>0, RequestSame DEF Close
<1>17. CASE CloseConnections
  BY <1>17, <1>0, RequestSame DEF CloseConnections
<1>18. CASE CloseDisconnects
  BY <1>18, <1>0, RequestSame DEF CloseDisconnects
<1>19. CASE CloseSessions
  BY <1>19, <1>0, RequestSame DEF CloseSessions
<1>20. CASE CloseSettles
  BY <1>20, <1>0, RequestSame DEF CloseSettles
<1>21. CASE UNCHANGED vars
  BY <1>21, <1>0, RequestSame DEF vars
<1> QED
  BY <1>1, <1>2, <1>3, <1>4, <1>5, <1>6, <1>7, <1>8, <1>9, <1>10, <1>11, <1>12,
     <1>13, <1>14, <1>15, <1>16, <1>17, <1>18, <1>19, <1>20, <1>21
     DEF Next, Handler, Runtime, Terminating, Closing, Events

--------------------------------------------------------------------------------
(* Closing *)

(* A step that neither advances close() nor makes a session current.         *)
LEMMA CloseSame ==
  ASSUME TypeOK, CloseInv, Forward, UNCHANGED <<server, awaited>>, current' \in {0, current},
         \A c \in Conn : /\ stage[c] # "ready" => stage'[c] # "ready"
                         /\ stage[c] = "closed" => stage'[c] = "closed",
         \A c \in attached' : c \in attached \/ (c \in Conn /\ stage[c] = "ready")
  PROVE  CloseInv'
<1>1. CASE server \in {"openings", "sessions", "closed"}
  <2>1. attached = {} /\ \A c \in Conn : stage[c] = "closed"
    BY <1>1 DEF CloseInv
  <2>2. attached' = {} /\ \A c \in Conn : stage'[c] = "closed"
    BY <2>1
  <2> QED BY <1>1, <2>2 DEF CloseInv, Forward, closing
<1>2. CASE server \notin {"openings", "sessions", "closed"}
  BY <1>2 DEF CloseInv
<1> QED BY <1>1, <1>2

(* close() disconnects everyone and leaves no session behind.                *)
LEMMA CloseNext ==
  ASSUME TypeOK, OpsInv, LifeInv, HolderInv, CloseInv, [Next]_vars
  PROVE  CloseInv'
<1> USE DEF connVars, closeVars
<1>0. Forward
  BY ForwardNext
<1>1. ASSUME NEW q \in Req, AcquireAgain(q) PROVE CloseInv'
  BY <1>1, <1>0, CloseSame DEF AcquireAgain
<1>2. ASSUME NEW q \in Req, AcquireSettles(q) PROVE CloseInv'
  BY <1>2, <1>0, CloseSame DEF AcquireSettles
<1>3. ASSUME NEW q \in Req, Attach(q) PROVE CloseInv'
  <2>1. \A c \in attached' : c \in attached \/ (c \in Conn /\ stage[c] = "ready")
    BY <1>3, AttachEffect
  <2> QED BY <1>3, <1>0, <2>1, CloseSame DEF Attach
<1>4. ASSUME NEW q \in Req, DetachSettles(q) PROVE CloseInv'
  BY <1>4, <1>0, CloseSame DEF DetachSettles
<1>5. ASSUME NEW q \in Req, OperationSettles(q) PROVE CloseInv'
  BY <1>5, <1>0, CloseSame DEF OperationSettles
<1>6. ASSUME NEW q \in Req, NEW c \in Conn, RequestAttach(q, c) PROVE CloseInv'
  BY <1>6, <1>0, CloseSame DEF RequestAttach
<1>7. ASSUME NEW q \in Req, NEW c \in Conn, RequestDetach(q, c) PROVE CloseInv'
  BY <1>7, <1>0, CloseSame DEF RequestDetach
<1>8. ASSUME NEW q \in Req, NEW c \in Conn, RequestOperation(q, c) PROVE CloseInv'
  BY <1>8, <1>0, CloseSame DEF RequestOperation
<1>9. ASSUME NEW l \in Live, DisposeSettles(l) PROVE CloseInv'
  BY <1>9, <1>0, CloseSame DEF DisposeSettles
<1>10. ASSUME NEW l \in Live, OpenSettles(l) PROVE CloseInv'
  BY <1>10, <1>0, CloseSame DEF OpenSettles
<1>11. ASSUME NEW l \in Live, SnapshotSettles(l) PROVE CloseInv'
  <2>1. CASE current' = current
    BY <1>11, <1>0, <2>1, CloseSame DEF SnapshotSettles
  <2>2. CASE current' # current
    <3>1. server \notin {"sessions", "closed"}
      BY <1>11 DEF SnapshotSettles, CloseInv
    <3> QED BY <1>11, <1>0, <3>1 DEF SnapshotSettles, CloseInv, Forward, closing
  <2> QED BY <2>1, <2>2
<1>12. ASSUME NEW l \in Live, RuntimeIdle(l) PROVE CloseInv'
  BY <1>12, <1>0, CloseSame DEF RuntimeIdle
<1>13. ASSUME NEW l \in Live, RuntimeError(l) PROVE CloseInv'
  BY <1>13, <1>0, CloseSame DEF RuntimeError, TypeOK
<1>14. ASSUME NEW e \in ending, TerminateSettles(e) PROVE CloseInv'
  BY <1>14, <1>0, CloseSame DEF TerminateSettles, TypeOK
<1>15. ASSUME NEW c \in Conn, Disconnect(c) PROVE CloseInv'
  BY <1>15, <1>0, CloseSame DEF Disconnect, TypeOK
<1>16. CASE Close
  BY <1>16 DEF Close, CloseInv
<1>17. CASE CloseConnections
  BY <1>17 DEF CloseConnections, CloseInv
<1>18. CASE CloseDisconnects
  <2>1. closing /\ \A m \in Live : lives[m].runtime = "snapshot" => m = opening
    BY <1>18 DEF CloseDisconnects, HolderInv, closing
  <2>2. \A m \in Live : lives'[m].runtime = "snapshot" => m = opening
    BY <1>0, <2>1 DEF Forward
  <2> QED BY <1>18, <2>2 DEF CloseDisconnects, CloseInv
<1>19. CASE CloseSessions
  <2>1. closing /\ \A m \in Live : lives[m].runtime = "snapshot" => awaited = m /\ ~lives[m].born
    BY <1>19 DEF CloseSessions, CloseInv, LifeInv, Life, closing
  <2>2. \A m \in Live : lives[m].runtime # "snapshot"
    BY <1>19, <2>1, Types DEF CloseSessions, CreateSettled
  <2>3. \A m \in Live : lives'[m].runtime # "snapshot"
    BY <1>0, <2>1, <2>2 DEF Forward
  <2> QED BY <1>19, <2>3 DEF CloseSessions, CloseInv
<1>20. CASE CloseSettles
  BY <1>20, <1>0 DEF CloseSettles, CloseInv, Forward, closing
<1>21. CASE UNCHANGED vars
  BY <1>21, <1>0, CloseSame DEF vars
<1> QED
  BY <1>1, <1>2, <1>3, <1>4, <1>5, <1>6, <1>7, <1>8, <1>9, <1>10, <1>11, <1>12,
     <1>13, <1>14, <1>15, <1>16, <1>17, <1>18, <1>19, <1>20, <1>21
     DEF Next, Handler, Runtime, Terminating, Closing, Events

--------------------------------------------------------------------------------
(* Who holds the runtime *)

(* A step in which a live runtime may at most start to be disposed.          *)
Steady ==
  \A m \in Live :
    /\ lives'[m].born = lives[m].born
    /\ \/ lives'[m].runtime = lives[m].runtime
       \/ lives[m].runtime = "live" /\ lives'[m].runtime = "disposing"

LEMMA SteadyTidied ==
  ASSUME NEW l \in Live, NEW cs, NEW n, Tidied(l, cs, n)
  PROVE  Steady
  BY DEF Tidied, Move, Steady

LEMMA SteadyMove ==
  ASSUME NEW l \in Live, NEW cs, NEW n, NEW d, Move(l, lives[l].runtime, cs, n, lives[l].born, d)
  PROVE  Steady
  BY DEF Move, Steady

(* Which steps these are.                                                    *)
LEMMA SteadyActions ==
  ASSUME TypeOK, OpsInv
  PROVE  /\ \A q \in Req : Attach(q) \/ DetachSettles(q) \/ OperationSettles(q) => Steady
         /\ \A q \in Req, c \in Conn : RequestDetach(q, c) \/ RequestOperation(q, c) => Steady
         /\ \A l \in Live : RuntimeIdle(l) \/ RuntimeError(l) => Steady
         /\ \A e \in ending : TerminateSettles(e) => Steady
         /\ \A c \in Conn : Disconnect(c) => Steady
         /\ CloseDisconnects => Steady
<1>1. ASSUME NEW q \in Req, Attach(q) PROVE Steady
  <2>1. PICK l \in Live : l = req[q].live
    BY <1>1, AttachEffect
  <2> QED BY <1>1, <2>1, AttachEffect, SteadyTidied, SteadyMove
<1>2. ASSUME NEW q \in Req, DetachSettles(q) PROVE Steady
  BY <1>2, DetachSettlesEffect, SteadyTidied DEF Steady
<1>3. ASSUME NEW q \in Req, OperationSettles(q) PROVE Steady
  <2>1. req[q].pc = "running"
    BY <1>3 DEF OperationSettles
  <2> QED BY <1>3, <2>1, RunningCounts, OperationSettlesEffect, SteadyTidied
<1>4. ASSUME NEW q \in Req, NEW c \in Conn, RequestDetach(q, c) \/ RequestOperation(q, c) PROVE Steady
  BY <1>4, RequestDetachEffect, RequestOperationEffect, SteadyTidied, SteadyMove DEF Steady
<1>5. ASSUME NEW l \in Live, RuntimeIdle(l) \/ RuntimeError(l) PROVE Steady
  BY <1>5, RuntimeEffects, SteadyTidied, SteadyMove
<1>6. ASSUME NEW e \in ending, TerminateSettles(e) PROVE Steady
  BY <1>6, DropEffects, SteadyTidied
<1>7. ASSUME NEW c \in Conn, Disconnect(c) PROVE Steady
  BY <1>7, DropEffects, SteadyTidied DEF Steady
<1>8. ASSUME CloseDisconnects PROVE Steady
  BY <1>8, DropEffects, SteadyMove DEF Steady
<1> QED BY <1>1, <1>2, <1>3, <1>4, <1>5, <1>6, <1>7, <1>8

(* A request opens a session only when no runtime of it is held: not while   *)
(* close() disposes one, since nobody is connected then, and not while       *)
(* waiters of a disposal look again, unless one of them has opened it.       *)
LEMMA OpensWhenFree ==
  ASSUME TypeOK, CloseInv, HolderInv, DrainInv, NEW q \in Req, Opens(q),
         AcquireAgain(q) \/ \E c \in Conn : RequestAttach(q, c)
  PROVE  \A m \in Live : lives[m].runtime \notin Holding
<1>0. current = 0 /\ opening = 0 /\ 0 \notin Live
  BY Types DEF Opens
<1>1. CASE AcquireAgain(q)
  <2>1. ~QueueDrained
    BY <1>1, AcquireActions
  <2> QED BY <1>0, <2>1 DEF DrainInv, HolderInv
<1>2. CASE \E c \in Conn : RequestAttach(q, c)
  <2>1. server # "sessions"
    BY <1>2 DEF RequestAttach, CloseInv
  <2> QED BY <1>0, <2>1 DEF HolderInv, Holding
<1> QED BY <1>1, <1>2

(* Nothing but a disposal begins.                                            *)
LEMMA HolderSame ==
  ASSUME TypeOK, HolderInv, Steady, UNCHANGED <<current, opening>>,
         server = "sessions" => UNCHANGED <<server, awaited>>
  PROVE  HolderInv'
<1>1. \A m \in Live : lives'[m].runtime \in Holding => lives[m].runtime \in Holding
  BY DEF Steady, Holding
<1>2. current # 0 => current \in Live
  BY Types
<1>3. \A m \in Live : lives[m].runtime = "live" => m = current /\ lives[m].born
  BY <1>2, Types DEF HolderInv
<1>4. \A l, m \in Live : lives'[l].runtime \in Holding /\ lives'[m].runtime \in Holding => l = m
  BY <1>1 DEF HolderInv
<1>5. \A l \in Live : lives'[l].runtime = "disposing" =>
        IF lives'[l].born THEN l = current' \/ (server' = "sessions" /\ l = awaited') ELSE l = opening'
  <2>1. SUFFICES ASSUME NEW l \in Live, lives'[l].runtime = "disposing"
                PROVE  IF lives'[l].born THEN l = current' \/ (server' = "sessions" /\ l = awaited')
                       ELSE l = opening'
    OBVIOUS
  <2>2. CASE lives[l].runtime = "live"
    BY <1>3, <2>2 DEF Steady
  <2>3. CASE lives[l].runtime = "disposing"
    BY <2>3 DEF Steady, HolderInv
  <2> QED BY <2>1, <2>2, <2>3 DEF Steady
<1>6. current # 0 => lives'[current].runtime \in {"live", "disposing"} /\ lives'[current].born
  BY <1>2 DEF Steady, HolderInv
<1> QED BY <1>4, <1>5, <1>6 DEF HolderInv, Steady

(* At most one runtime is held, and who holds it is known.                   *)
LEMMA HolderNext ==
  ASSUME TypeOK, OpsInv, LifeInv, CloseInv, HolderInv, DrainInv, [Next]_vars
  PROVE  HolderInv'
<1> USE DEF connVars, closeVars
<1>1. ASSUME NEW q \in Req, AcquireAgain(q) PROVE HolderInv'
  <2>1. UNCHANGED <<current, server, awaited>>
    BY <1>1 DEF AcquireAgain
  <2>2. CASE Joins(q)
    BY <2>1, <2>2, HolderSame DEF Joins, Steady
  <2>3. CASE Opens(q)
    <3>1. \A m \in Live : lives[m].runtime \notin Holding
      BY <1>1, <2>3, OpensWhenFree
    <3>2. /\ current = 0 /\ opening' = next
          /\ \A m \in Live : m # next => lives'[m].runtime \notin Holding
          /\ lives'[next].runtime = "opening"
      BY <2>3, <3>1 DEF Opens, Move
    <3> QED BY <2>1, <3>2 DEF HolderInv, Holding
  <2> QED BY <1>1, <2>2, <2>3, AcquireActions
<1>2. ASSUME NEW q \in Req, AcquireSettles(q) PROVE HolderInv'
  <2>1. UNCHANGED <<lives, current, server, awaited>>
    BY <1>2 DEF AcquireSettles
  <2>2. CASE opening' = opening
    BY <2>1, <2>2, HolderSame DEF Steady
  <2>3. CASE opening \in Live /\ (lives[opening].born \/ lives[opening].runtime = "gone")
    <3>1. /\ lives[opening].runtime \notin {"opening", "snapshot"}
          /\ lives[opening].runtime = "disposing" => lives[opening].born
      BY <2>3 DEF LifeInv, Life
    <3> QED BY <2>1, <3>1 DEF HolderInv
  <2> QED BY <1>2, <2>2, <2>3, AcquireSettlesEffect
<1>3. ASSUME NEW q \in Req, Attach(q) PROVE HolderInv'
  BY <1>3, SteadyActions, HolderSame DEF Attach
<1>4. ASSUME NEW q \in Req, DetachSettles(q) PROVE HolderInv'
  BY <1>4, SteadyActions, HolderSame DEF DetachSettles
<1>5. ASSUME NEW q \in Req, OperationSettles(q) PROVE HolderInv'
  BY <1>5, SteadyActions, HolderSame DEF OperationSettles
<1>6. ASSUME NEW q \in Req, NEW c \in Conn, RequestAttach(q, c) PROVE HolderInv'
  <2>1. UNCHANGED <<current, server, awaited>>
    BY <1>6 DEF RequestAttach
  <2>2. CASE Joins(q)
    BY <2>1, <2>2, HolderSame DEF Joins, Steady
  <2>3. CASE Opens(q)
    <3>1. \A m \in Live : lives[m].runtime \notin Holding
      BY <1>6, <2>3, OpensWhenFree
    <3>2. /\ current = 0 /\ opening' = next
          /\ \A m \in Live : m # next => lives'[m].runtime \notin Holding
          /\ lives'[next].runtime = "opening"
      BY <2>3, <3>1 DEF Opens, Move
    <3> QED BY <2>1, <3>2 DEF HolderInv, Holding
  <2> QED BY <1>6, <2>2, <2>3, AcquireActions
<1>7. ASSUME NEW q \in Req, NEW c \in Conn, RequestDetach(q, c) PROVE HolderInv'
  BY <1>7, SteadyActions, HolderSame DEF RequestDetach
<1>8. ASSUME NEW q \in Req, NEW c \in Conn, RequestOperation(q, c) PROVE HolderInv'
  BY <1>8, SteadyActions, HolderSame DEF RequestOperation
<1>9. ASSUME NEW l \in Live, DisposeSettles(l) PROVE HolderInv'
  <2>1. /\ UNCHANGED <<opening, server, awaited>> /\ current' = IF current = l THEN 0 ELSE current
        /\ lives[l].runtime = "disposing" /\ lives'[l].runtime = "gone"
        /\ \A m \in Live : m # l => lives'[m] = lives[m]
    BY <1>9, RuntimeEffects DEF DisposeSettles, Move
  <2>2. \A m \in Live : lives'[m].runtime \notin Holding
    BY <2>1 DEF HolderInv, Holding
  <2>3. current' = 0
    BY <2>1, Types DEF HolderInv, Holding
  <2> QED BY <2>2, <2>3 DEF HolderInv, Holding
<1>10. ASSUME NEW l \in Live, OpenSettles(l) PROVE HolderInv'
  <2>1. /\ UNCHANGED <<current, opening, server, awaited>> /\ l = opening /\ current = 0
        /\ lives[l].runtime = "opening" /\ ~lives[l].born
    BY <1>10 DEF OpenSettles, HolderInv, LifeInv, Life
  <2>2. /\ lives'[l].runtime \in {"gone", "disposing", "snapshot"} /\ lives'[l].born = lives[l].born
        /\ \A m \in Live : m # l => lives'[m] = lives[m]
    BY <1>10, RuntimeEffects DEF Move
  <2>3. \A m \in Live : m # l => lives'[m].runtime \notin Holding
    BY <2>1, <2>2 DEF HolderInv, Holding
  <2> QED BY <2>1, <2>2, <2>3 DEF HolderInv, Holding
<1>11. ASSUME NEW l \in Live, SnapshotSettles(l) PROVE HolderInv'
  <2>1. /\ UNCHANGED <<opening, server, awaited>> /\ l = opening /\ current = 0
        /\ lives[l].runtime = "snapshot" /\ ~lives[l].born
    BY <1>11 DEF SnapshotSettles, HolderInv, LifeInv, Life
  <2>2. /\ \A m \in Live : m # l => lives'[m] = lives[m]
        /\ \/ lives'[l].runtime = "live" /\ lives'[l].born /\ current' = l
           \/ lives'[l].runtime = "disposing" /\ lives'[l].born = lives[l].born /\ current' = current
    BY <1>11, RuntimeEffects DEF Move
  <2>3. \A m \in Live : m # l => lives'[m].runtime \notin Holding
    BY <2>1, <2>2 DEF HolderInv, Holding
  <2> QED BY <2>1, <2>2, <2>3 DEF HolderInv, Holding
<1>12. ASSUME NEW l \in Live, RuntimeIdle(l) PROVE HolderInv'
  BY <1>12, SteadyActions, HolderSame DEF RuntimeIdle
<1>13. ASSUME NEW l \in Live, RuntimeError(l) PROVE HolderInv'
  BY <1>13, SteadyActions, HolderSame DEF RuntimeError
<1>14. ASSUME NEW e \in ending, TerminateSettles(e) PROVE HolderInv'
  BY <1>14, SteadyActions, HolderSame DEF TerminateSettles
<1>15. ASSUME NEW c \in Conn, Disconnect(c) PROVE HolderInv'
  BY <1>15, SteadyActions, HolderSame DEF Disconnect
<1>16. CASE Close
  BY <1>16, HolderSame DEF Close, Steady
<1>17. CASE CloseConnections
  BY <1>17, HolderSame DEF CloseConnections, Steady
<1>18. CASE CloseDisconnects
  <2>1. Steady /\ UNCHANGED <<current, opening>> /\ server = "disconnect"
    BY <1>18, SteadyActions DEF CloseDisconnects
  <2> QED BY <2>1, HolderSame
<1>19. CASE CloseSessions
  <2>1. current' = 0 /\ opening' = opening /\ server = "openings" /\ server' = "sessions" /\ awaited' = current
    BY <1>19 DEF CloseSessions
  <2>2. Steady /\ \A m \in Live : lives'[m].runtime # "live"
    <3>1. CASE lives' = lives /\ (current = 0 \/ lives[current].runtime # "live")
      BY <3>1, Types DEF HolderInv, Steady
    <3>2. CASE /\ current \in Live /\ lives[current].runtime = "live"
               /\ Move(current, "disposing", lives[current].conns, lives[current].ops,
                       lives[current].born, lives[current].disposals + 1)
      BY <3>2 DEF HolderInv, Steady, Move
    <3> QED BY <1>19, <3>1, <3>2, DropEffects
  <2>3. \A m \in Live : lives'[m].runtime \in Holding => lives[m].runtime \in Holding
    BY <2>2 DEF Steady, Holding
  <2>4. \A m \in Live : lives[m].runtime = "live" => lives[m].born /\ m = current
    BY DEF HolderInv, LifeInv, Life
  <2> QED BY <2>1, <2>2, <2>3, <2>4 DEF HolderInv, Steady
<1>20. CASE CloseSettles
  <2>1. UNCHANGED <<lives, current, opening>> /\ (awaited # 0 => lives[awaited].runtime = "gone")
    BY <1>20 DEF CloseSettles
  <2>2. \A m \in Live : lives[m].runtime = "disposing" => m # awaited
    BY <2>1, Types
  <2> QED BY <2>1, <2>2 DEF HolderInv
<1>21. CASE UNCHANGED vars
  BY <1>21, HolderSame DEF vars, Steady
<1> QED
  BY <1>1, <1>2, <1>3, <1>4, <1>5, <1>6, <1>7, <1>8, <1>9, <1>10, <1>11, <1>12,
     <1>13, <1>14, <1>15, <1>16, <1>17, <1>18, <1>19, <1>20, <1>21
     DEF Next, Handler, Runtime, Terminating, Closing, Events

(* No step ends a disposal, and no request starts to wait for one.           *)
LEMMA DrainSame ==
  ASSUME TypeOK, DrainInv, Steady, \A p \in Req : req'[p].pc = "disposal" => req'[p] = req[p]
  PROVE  DrainInv'
<1>1. SUFFICES ASSUME ~QueueDrained'
              PROVE  \A m \in Live : lives'[m].runtime \in Holding => lives'[m].runtime = "opening"
  BY DEF DrainInv
<1>2. PICK p \in Req : req'[p].pc = "disposal" /\ lives'[req'[p].live].runtime = "gone"
  BY <1>1 DEF QueueDrained
<1>3. req[p].pc = "disposal" /\ req[p].live \in Live /\ lives'[req[p].live].runtime = "gone"
  BY <1>2, Types
<1>4. lives[req[p].live].runtime = "gone"
  BY <1>3 DEF Steady
<1>5. \A m \in Live : lives[m].runtime \in Holding => lives[m].runtime = "opening"
  BY <1>3, <1>4 DEF DrainInv, QueueDrained
<1> QED BY <1>5 DEF Steady, Holding

(* Waiters of a disposal find nothing but what one of them has opened.       *)
LEMMA DrainNext ==
  ASSUME TypeOK, OpsInv, RequestInv, CloseInv, HolderInv, DrainInv, [Next]_vars
  PROVE  DrainInv'
<1> USE DEF connVars, closeVars
<1>1. ASSUME NEW q \in Req, AcquireAgain(q) PROVE DrainInv'
  <2>1. ~QueueDrained /\ (Joins(q) \/ Opens(q))
    BY <1>1, AcquireActions
  <2>2. CASE Joins(q)
    BY <2>1, <2>2 DEF DrainInv, Joins
  <2>3. CASE Opens(q)
    <3>1. \A m \in Live : lives[m].runtime \notin Holding
      BY <1>1, <2>3, OpensWhenFree
    <3> QED BY <2>3, <3>1 DEF DrainInv, Opens, Move
  <2> QED BY <2>1, <2>2, <2>3
<1>2. ASSUME NEW q \in Req, AcquireSettles(q) PROVE DrainInv'
  <2>1. \A p \in Req : req'[p].pc = "disposal" => req'[p] = req[p]
    BY <1>2, AcquireSettlesEffect DEF Answer, Free
  <2> QED BY <1>2, <2>1, DrainSame DEF AcquireSettles, Steady
<1>3. ASSUME NEW q \in Req, Attach(q) PROVE DrainInv'
  <2>1. Answer(q, Free)
    BY <1>3, AttachEffect
  <2>2. \A p \in Req : req'[p].pc = "disposal" => req'[p] = req[p]
    BY <2>1 DEF Answer, Free
  <2> QED BY <1>3, <2>2, SteadyActions, DrainSame
<1>4. ASSUME NEW q \in Req, DetachSettles(q) PROVE DrainInv'
  <2>1. \A p \in Req : req'[p].pc = "disposal" => req'[p] = req[p]
    BY <1>4, DetachSettlesEffect DEF Answer, Free
  <2> QED BY <1>4, <2>1, SteadyActions, DrainSame
<1>5. ASSUME NEW q \in Req, OperationSettles(q) PROVE DrainInv'
  <2>1. req[q].pc = "running"
    BY <1>5 DEF OperationSettles
  <2>2. Answer(q, Free)
    BY <1>5, <2>1, RunningCounts, OperationSettlesEffect
  <2>3. \A p \in Req : req'[p].pc = "disposal" => req'[p] = req[p]
    BY <2>2 DEF Answer, Free
  <2> QED BY <1>5, <2>3, SteadyActions, DrainSame
<1>6. ASSUME NEW q \in Req, NEW c \in Conn, QueueDrained, RequestAttach(q, c) PROVE DrainInv'
  <2>1. QueueDrained /\ (Joins(q) \/ Opens(q)) /\ req[q] = Free
    BY <1>6, AcquireActions
  <2>2. PICK r : /\ Answer(q, r)
                 /\ r.pc = "disposal" => lives' = lives /\ r.live = current /\ current # 0
    BY <2>1 DEF Joins, Opens, Free
  <2>3. \A m \in Live : lives'[m].runtime = "gone" => lives[m].runtime = "gone"
    BY <2>1 DEF Joins, Opens, Move
  <2>4. \A p \in Req : req[p].pc # "free" => req[p].live \in Live
    BY Types
  <2>5. ASSUME NEW p \in Req, req'[p].pc = "disposal" PROVE lives'[req'[p].live].runtime # "gone"
    <3>1. CASE p = q
      BY <2>2, <2>5, <3>1 DEF Answer, HolderInv
    <3>2. CASE p # q
      BY <2>1, <2>2, <2>3, <2>4, <2>5, <3>2 DEF Answer, QueueDrained
    <3> QED BY <3>1, <3>2
  <2> QED BY <2>5 DEF DrainInv, QueueDrained
<1>7. ASSUME NEW q \in Req, NEW c \in Conn, QueueDrained, RequestDetach(q, c) PROVE DrainInv'
  <2>1. \A p \in Req : req'[p].pc = "disposal" => req'[p] = req[p]
    BY <1>7, RequestDetachEffect DEF Answer, Free
  <2> QED BY <1>7, <2>1, SteadyActions, DrainSame
<1>8. ASSUME NEW q \in Req, NEW c \in Conn, QueueDrained, RequestOperation(q, c) PROVE DrainInv'
  <2>1. \A p \in Req : req'[p].pc = "disposal" => req'[p] = req[p]
    BY <1>8, RequestOperationEffect DEF Answer, Free
  <2> QED BY <1>8, <2>1, SteadyActions, DrainSame
<1>9. ASSUME NEW l \in Live, QueueDrained, DisposeSettles(l) PROVE DrainInv'
  <2>1. /\ lives[l].runtime = "disposing" /\ lives'[l].runtime = "gone"
        /\ \A m \in Live : m # l => lives'[m] = lives[m]
    BY <1>9, RuntimeEffects DEF Move
  <2>2. \A m \in Live : lives'[m].runtime \notin Holding
    BY <2>1 DEF HolderInv, Holding
  <2> QED BY <2>2 DEF DrainInv
<1>10. ASSUME NEW l \in Live, QueueDrained, OpenSettles(l) PROVE DrainInv'
  <2>1. /\ lives[l].runtime = "opening" /\ req' = req
        /\ \A m \in Live : m # l => lives'[m] = lives[m]
    BY <1>10, RuntimeEffects DEF OpenSettles, Move
  <2>2. \A p \in Req : req[p].pc = "disposal" => req[p].live \in Live /\ req[p].live # l
    BY <2>1, Types DEF RequestInv
  <2>3. QueueDrained'
    BY <1>10, <2>1, <2>2 DEF QueueDrained
  <2> QED BY <2>3 DEF DrainInv
<1>11. ASSUME NEW l \in Live, QueueDrained, SnapshotSettles(l) PROVE DrainInv'
  <2>1. /\ lives[l].runtime = "snapshot" /\ req' = req
        /\ \A m \in Live : m # l => lives'[m] = lives[m]
    BY <1>11, RuntimeEffects DEF SnapshotSettles, Move
  <2>2. \A p \in Req : req[p].pc = "disposal" => req[p].live \in Live /\ req[p].live # l
    BY <2>1, Types DEF RequestInv
  <2>3. QueueDrained'
    BY <1>11, <2>1, <2>2 DEF QueueDrained
  <2> QED BY <2>3 DEF DrainInv
<1>12. ASSUME NEW l \in Live, QueueDrained, RuntimeIdle(l) PROVE DrainInv'
  BY <1>12, SteadyActions, DrainSame DEF RuntimeIdle
<1>13. ASSUME NEW l \in Live, QueueDrained, RuntimeError(l) PROVE DrainInv'
  BY <1>13, SteadyActions, DrainSame DEF RuntimeError
<1>14. ASSUME NEW e \in ending, QueueDrained, TerminateSettles(e) PROVE DrainInv'
  BY <1>14, SteadyActions, DrainSame DEF TerminateSettles
<1>15. ASSUME NEW c \in Conn, QueueDrained, Disconnect(c) PROVE DrainInv'
  BY <1>15, SteadyActions, DrainSame DEF Disconnect
<1>16. ASSUME QueueDrained, Close PROVE DrainInv'
  BY <1>16, DrainSame DEF Close, Steady
<1>17. ASSUME QueueDrained, CloseConnections PROVE DrainInv'
  BY <1>17, DrainSame DEF CloseConnections, Steady
<1>18. ASSUME QueueDrained, CloseDisconnects PROVE DrainInv'
  BY <1>18, SteadyActions, DrainSame DEF CloseDisconnects
<1>19. ASSUME QueueDrained, CloseSessions PROVE DrainInv'
  <2>1. Steady
    BY <1>19, DropEffects DEF Steady, Move
  <2> QED BY <1>19, <2>1, DrainSame DEF CloseSessions
<1>20. ASSUME QueueDrained, CloseSettles PROVE DrainInv'
  BY <1>20, DrainSame DEF CloseSettles, Steady
<1>21. CASE UNCHANGED vars
  BY <1>21, DrainSame DEF vars, Steady
<1> QED
  BY <1>1, <1>2, <1>3, <1>4, <1>5, <1>6, <1>7, <1>8, <1>9, <1>10, <1>11, <1>12,
     <1>13, <1>14, <1>15, <1>16, <1>17, <1>18, <1>19, <1>20, <1>21
     DEF Next, Handler, Runtime, Terminating, Closing, Events

--------------------------------------------------------------------------------
(* Attachments *)

(* No session that serves gains a connection.                                *)
Parting ==
  \A m \in Live : lives'[m].runtime = "live" =>
    lives[m].runtime = "live" /\ lives'[m].conns \subseteq lives[m].conns

LEMMA PartingTidied ==
  ASSUME NEW l \in Live, NEW cs, NEW n, Tidied(l, cs, n), cs \subseteq lives[l].conns
  PROVE  Parting
  BY DEF Tidied, Move, Parting

LEMMA PartingMove ==
  ASSUME NEW l \in Live, NEW rt, NEW cs, NEW n, NEW b, NEW d, Move(l, rt, cs, n, b, d),
         rt = "live" => lives[l].runtime = "live" /\ cs \subseteq lives[l].conns
  PROVE  Parting
  BY DEF Move, Parting

(* terminate() begins nowhere, and no connection becomes ready.              *)
LEMMA EndingSame ==
  ASSUME TypeOK, EndingInv, Parting, ending' \subseteq ending,
         \A c \in Conn : stage'[c] = "ready" => stage[c] = "ready"
  PROVE  EndingInv'
<1>1. SUFFICES ASSUME NEW e \in ending', NEW c \in e.conns
              PROVE  /\ stage'[c] # "ready"
                     /\ \A m \in Live : m # e.live /\ lives'[m].runtime = "live" => c \notin lives'[m].conns
  BY DEF EndingInv
<1>2. /\ stage[c] # "ready" /\ c \in Conn
      /\ \A m \in Live : m # e.live /\ lives[m].runtime = "live" => c \notin lives[m].conns
  BY DEF EndingInv, TypeOK
<1> QED BY <1>2 DEF Parting

(* What terminate() drops can attach to nothing else.                        *)
LEMMA EndingNext ==
  ASSUME TypeOK, OpsInv, LifeInv, HolderInv, EndingInv, [Next]_vars
  PROVE  EndingInv'
<1> USE DEF connVars, closeVars
<1>1. ASSUME NEW q \in Req, AcquireAgain(q) PROVE EndingInv'
  <2>1. Parting
    BY <1>1, AcquireActions, PartingMove DEF Joins, Opens, Parting
  <2> QED BY <1>1, <2>1, EndingSame DEF AcquireAgain
<1>2. ASSUME NEW q \in Req, AcquireSettles(q) PROVE EndingInv'
  BY <1>2, EndingSame DEF AcquireSettles, Parting
<1>3. ASSUME NEW q \in Req, Attach(q) PROVE EndingInv'
  <2>1. PICK l \in Live, c \in Conn : l = req[q].live /\ c = req[q].conn
    BY <1>3, AttachEffect
  <2>2. ending' = ending /\ stage' = stage
    BY <1>3 DEF Attach
  <2>3. CASE Tidied(l, lives[l].conns, lives[l].ops)
    BY <2>2, <2>3, PartingTidied, EndingSame
  <2>4. CASE /\ stage[c] = "ready"
             /\ Move(l, lives[l].runtime, lives[l].conns \union {c}, lives[l].ops,
                     lives[l].born, lives[l].disposals)
    BY <2>2, <2>4 DEF EndingInv, Move
  <2> QED BY <1>3, <2>1, <2>3, <2>4, AttachEffect
<1>4. ASSUME NEW q \in Req, DetachSettles(q) PROVE EndingInv'
  <2>1. Parting
    BY <1>4, DetachSettlesEffect, PartingTidied DEF Parting
  <2> QED BY <1>4, <2>1, EndingSame DEF DetachSettles, TypeOK
<1>5. ASSUME NEW q \in Req, OperationSettles(q) PROVE EndingInv'
  <2>1. req[q].pc = "running"
    BY <1>5 DEF OperationSettles
  <2>2. Parting
    BY <1>5, <2>1, RunningCounts, OperationSettlesEffect, PartingTidied
  <2> QED BY <1>5, <2>2, EndingSame DEF OperationSettles
<1>6. ASSUME NEW q \in Req, NEW c \in Conn, RequestAttach(q, c) PROVE EndingInv'
  <2>1. Parting
    BY <1>6, AcquireActions, PartingMove DEF Joins, Opens, Parting
  <2> QED BY <1>6, <2>1, EndingSame DEF RequestAttach
<1>7. ASSUME NEW q \in Req, NEW c \in Conn, RequestDetach(q, c) PROVE EndingInv'
  <2>1. CASE lives' = lives
    BY <1>7, <2>1, EndingSame DEF RequestDetach, Parting
  <2>2. CASE current \in Live /\ Tidied(current, lives[current].conns \ {c}, lives[current].ops)
    <3>1. Parting
      BY <2>2, PartingTidied
    <3> QED BY <1>7, <3>1, EndingSame DEF RequestDetach
  <2> QED BY <1>7, <2>1, <2>2, RequestDetachEffect
<1>8. ASSUME NEW q \in Req, NEW c \in Conn, RequestOperation(q, c) PROVE EndingInv'
  <2>1. Parting
    BY <1>8, RequestOperationEffect, PartingMove
  <2> QED BY <1>8, <2>1, EndingSame DEF RequestOperation, TypeOK
<1>9. ASSUME NEW l \in Live, DisposeSettles(l) PROVE EndingInv'
  <2>1. Parting
    BY <1>9, RuntimeEffects, PartingMove, PartingTidied
  <2> QED BY <1>9, <2>1, EndingSame DEF DisposeSettles, TypeOK
<1>10. ASSUME NEW l \in Live, OpenSettles(l) PROVE EndingInv'
  <2>1. Parting
    BY <1>10, RuntimeEffects, PartingMove, PartingTidied
  <2> QED BY <1>10, <2>1, EndingSame DEF OpenSettles, TypeOK
<1>11. ASSUME NEW l \in Live, SnapshotSettles(l) PROVE EndingInv'
  <2>1. lives[l].conns = {} /\ lives[l].runtime = "snapshot" /\ UNCHANGED <<stage, ending>>
    BY <1>11 DEF SnapshotSettles, LifeInv, Life
  <2>2. lives'[l].conns = {} /\ \A m \in Live : m # l => lives'[m] = lives[m]
    BY <1>11, <2>1, RuntimeEffects DEF Move
  <2> QED BY <2>1, <2>2 DEF EndingInv
<1>12. ASSUME NEW l \in Live, RuntimeIdle(l) PROVE EndingInv'
  <2>1. Parting
    BY <1>12, RuntimeEffects, PartingMove, PartingTidied
  <2> QED BY <1>12, <2>1, EndingSame DEF RuntimeIdle, TypeOK
<1>13. ASSUME NEW l \in Live, RuntimeError(l) PROVE EndingInv'
  <2>1. /\ lives[l].runtime = "live" /\ ending' = ending \union {[live |-> l, conns |-> lives[l].conns]}
        /\ stage' = [c \in Conn |-> IF c \in lives[l].conns /\ stage[c] = "ready" THEN "closing" ELSE stage[c]]
    BY <1>13 DEF RuntimeError
  <2>2. \A m \in Live : lives'[m].runtime = lives[m].runtime /\ lives'[m].conns = lives[m].conns
    BY <1>13, RuntimeEffects DEF Move
  <2>3. \A m \in Live : lives[m].runtime = "live" => m = l
    BY <2>1 DEF HolderInv
  <2>4. ASSUME NEW e \in ending, NEW c \in e.conns
        PROVE  /\ stage'[c] # "ready"
               /\ \A m \in Live : m # e.live /\ lives'[m].runtime = "live" => c \notin lives'[m].conns
    <3>1. c \in Conn /\ stage[c] # "ready"
      BY DEF EndingInv, TypeOK
    <3> QED BY <2>1, <2>2, <3>1 DEF EndingInv
  <2>5. ASSUME NEW c \in lives[l].conns
        PROVE  /\ stage'[c] # "ready"
               /\ \A m \in Live : m # l /\ lives'[m].runtime = "live" => c \notin lives'[m].conns
    <3>1. c \in Conn
      BY Types DEF LiveRec
    <3> QED BY <2>1, <2>2, <2>3, <3>1
  <2> QED BY <2>1, <2>4, <2>5 DEF EndingInv
<1>14. ASSUME NEW e \in ending, TerminateSettles(e) PROVE EndingInv'
  <2>1. Parting
    BY <1>14, DropEffects, PartingTidied DEF Parting
  <2> QED BY <1>14, <2>1, EndingSame DEF TerminateSettles, TypeOK
<1>15. ASSUME NEW c \in Conn, Disconnect(c) PROVE EndingInv'
  <2>1. Parting
    BY <1>15, DropEffects, PartingTidied, ZenonT(40) DEF Parting
  <2> QED BY <1>15, <2>1, EndingSame DEF Disconnect, TypeOK
<1>16. CASE Close
  BY <1>16, EndingSame DEF Close, Parting
<1>17. CASE CloseConnections
  BY <1>17, EndingSame DEF CloseConnections, Parting
<1>18. CASE CloseDisconnects
  <2>1. Parting
    BY <1>18, DropEffects, PartingMove DEF Parting
  <2> QED BY <1>18, <2>1, EndingSame DEF CloseDisconnects, TypeOK
<1>19. CASE CloseSessions
  <2>1. Parting
    BY <1>19, DropEffects, PartingMove DEF Parting
  <2> QED BY <1>19, <2>1, EndingSame DEF CloseSessions, TypeOK
<1>20. CASE CloseSettles
  BY <1>20, EndingSame DEF CloseSettles, Parting
<1>21. CASE UNCHANGED vars
  BY <1>21, EndingSame DEF vars, Parting
<1> QED
  BY <1>1, <1>2, <1>3, <1>4, <1>5, <1>6, <1>7, <1>8, <1>9, <1>10, <1>11, <1>12,
     <1>13, <1>14, <1>15, <1>16, <1>17, <1>18, <1>19, <1>20, <1>21
     DEF Next, Handler, Runtime, Terminating, Closing, Events

(* Connections leave, and the sessions do not change.                        *)
LEMMA AgreeSame ==
  ASSUME TypeOK, AttachmentsAgree, NEW D, UNCHANGED <<lives, current>>,
         attached' = attached \ D, stranded' = stranded \ D,
         \A c \in Conn \ D : stage'[c] = "closed" => stage[c] = "closed",
         \A m \in Live : lives[m].runtime = "live" => lives[m].conns \cap D = {}
  PROVE  AttachmentsAgree'
<1>1. \A m \in Live : \A c \in lives[m].conns : c \in Conn
  BY Types DEF LiveRec
<1> QED BY <1>1 DEF AttachmentsAgree

(* Connections leave, and their session may then be disposed.                *)
LEMMA AgreeTidied ==
  ASSUME TypeOK, HolderInv, AttachmentsAgree, NEW l \in Live, NEW cs, NEW n, NEW D, Tidied(l, cs, n),
         cs = lives[l].conns \ D, current' = current,
         attached' = attached \ D, stranded' = stranded \ D,
         \A c \in Conn \ D : stage'[c] = "closed" => stage[c] = "closed",
         \A m \in Live : m # l /\ lives[m].runtime = "live" => lives[m].conns \cap D = {}
  PROVE  AttachmentsAgree'
<1>0. /\ \A m \in Live : \A c \in lives[m].conns : c \in Conn
      /\ current # 0 => current \in Live
  BY Types DEF LiveRec
<1>1. /\ \A m \in Live : m # l => lives'[m] = lives[m]
      /\ lives'[l].conns = cs
      /\ \/ lives'[l].runtime = lives[l].runtime
         \/ lives[l].runtime = "live" /\ lives'[l].runtime = "disposing" /\ cs = {}
  BY DEF Tidied, Move
<1>2. ASSUME NEW c \in attached' \ stranded'
      PROVE  current' # 0 /\ lives'[current'].runtime = "live" /\ c \in lives'[current'].conns
  <2>1. c \notin D /\ current # 0 /\ lives[current].runtime = "live" /\ c \in lives[current].conns
    BY <1>2 DEF AttachmentsAgree
  <2>2. CASE current = l
    BY <1>1, <2>1, <2>2
  <2>3. CASE current # l
    BY <1>0, <1>1, <2>1, <2>3
  <2> QED BY <2>2, <2>3
<1>3. ASSUME NEW m \in Live, lives'[m].runtime = "live", NEW c \in lives'[m].conns
      PROVE  c \in attached' /\ stage'[c] # "closed"
  <2>1. lives[m].runtime = "live" /\ c \in lives[m].conns /\ c \notin D
    BY <1>1, <1>3
  <2> QED BY <1>0, <2>1 DEF AttachmentsAgree
<1> QED BY <1>2, <1>3 DEF AttachmentsAgree

(* A runtime comes up or goes while nobody is served.                        *)
LEMMA AgreeMove ==
  ASSUME TypeOK, AttachmentsAgree, NEW l \in Live, NEW rt, NEW cs, NEW n, NEW b, NEW d, Move(l, rt, cs, n, b, d),
         rt # "live" \/ cs = {}, UNCHANGED <<stage, attached, stranded>>, attached \subseteq stranded
  PROVE  AttachmentsAgree'
  BY DEF AttachmentsAgree, Move

(* Connections and the session agree.                                        *)
LEMMA AttachmentsNext ==
  ASSUME TypeOK, OpsInv, LifeInv, CloseInv, HolderInv, EndingInv, AttachmentsAgree, [Next]_vars
  PROVE  AttachmentsAgree'
<1> USE DEF connVars, closeVars
<1>0. /\ \A S : S \ {} = S /\ S \cap {} = {}
      /\ current # 0 => current \in Live
  BY Types
<1>1. ASSUME NEW q \in Req, AcquireAgain(q) PROVE AttachmentsAgree'
  <2>1. UNCHANGED <<stage, attached, stranded, current>>
    BY <1>1 DEF AcquireAgain
  <2>2. CASE Joins(q)
    BY <1>0, <2>1, <2>2, AgreeSame DEF Joins
  <2>3. CASE Opens(q)
    <3>1. attached \subseteq stranded
      BY <2>3 DEF Opens, AttachmentsAgree
    <3> QED BY <2>1, <2>3, <3>1, AgreeMove DEF Opens
  <2> QED BY <1>1, <2>2, <2>3, AcquireActions
<1>2. ASSUME NEW q \in Req, AcquireSettles(q) PROVE AttachmentsAgree'
  BY <1>2, <1>0, AgreeSame DEF AcquireSettles
<1>3. ASSUME NEW q \in Req, Attach(q) PROVE AttachmentsAgree'
  <2>1. PICK l \in Live, c \in Conn : l = req[q].live /\ c = req[q].conn
    BY <1>3, AttachEffect
  <2>2. current' = current /\ stage' = stage
    BY <1>3 DEF Attach
  <2>3. CASE Tidied(l, lives[l].conns, lives[l].ops) /\ UNCHANGED <<attached, stranded>>
    BY <1>0, <2>2, <2>3, AgreeTidied
  <2>4. CASE /\ stage[c] = "ready" /\ attached' = attached \union {c}
             /\ Move(l, lives[l].runtime, lives[l].conns \union {c}, lives[l].ops,
                     lives[l].born, lives[l].disposals)
             /\ \/ lives[l].runtime = "live" /\ stranded' = stranded \ {c}
                \/ stranded' = stranded \union {c}
    <3>1. /\ \A m \in Live : lives'[m].runtime = lives[m].runtime
          /\ lives'[l].conns = lives[l].conns \union {c}
          /\ \A m \in Live : m # l => lives'[m].conns = lives[m].conns
      BY <2>4 DEF Move
    <3>2. lives[l].runtime = "live" => l = current /\ current # 0
      BY Types DEF HolderInv
    <3>3. ASSUME NEW x \in attached' \ stranded'
          PROVE  current # 0 /\ lives'[current].runtime = "live" /\ x \in lives'[current].conns
      <4>1. CASE x = c
        BY <2>4, <3>1, <3>2, <3>3, <4>1
      <4>2. CASE x # c
        <5>1. x \in attached \ stranded
          BY <2>4, <3>3, <4>2
        <5> QED BY <1>0, <3>1, <5>1 DEF AttachmentsAgree
      <4> QED BY <4>1, <4>2
    <3>4. ASSUME NEW m \in Live, lives'[m].runtime = "live", NEW x \in lives'[m].conns
          PROVE  x \in attached' /\ stage'[x] # "closed"
      BY <2>2, <2>4, <3>1, <3>4 DEF AttachmentsAgree
    <3> QED BY <2>2, <3>3, <3>4 DEF AttachmentsAgree
  <2> QED BY <1>3, <2>1, <2>3, <2>4, AttachEffect
<1>4. ASSUME NEW q \in Req, DetachSettles(q) PROVE AttachmentsAgree'
  <2>1. UNCHANGED <<stage, attached, stranded, current>>
    BY <1>4 DEF DetachSettles
  <2>2. PICK l \in Live : lives' = lives \/ Tidied(l, lives[l].conns, lives[l].ops)
    BY <1>4, DetachSettlesEffect
  <2> QED BY <1>0, <2>1, <2>2, AgreeSame, AgreeTidied
<1>5. ASSUME NEW q \in Req, OperationSettles(q) PROVE AttachmentsAgree'
  <2>1. UNCHANGED <<stage, attached, stranded, current>> /\ req[q].pc = "running"
    BY <1>5 DEF OperationSettles
  <2>2. PICK l \in Live : Tidied(l, lives[l].conns, lives[l].ops - 1)
    BY <1>5, <2>1, RunningCounts, OperationSettlesEffect
  <2> QED BY <1>0, <2>1, <2>2, AgreeTidied
<1>6. ASSUME NEW q \in Req, NEW c \in Conn, RequestAttach(q, c) PROVE AttachmentsAgree'
  <2>1. UNCHANGED <<stage, attached, stranded, current>>
    BY <1>6 DEF RequestAttach
  <2>2. CASE Joins(q)
    BY <1>0, <2>1, <2>2, AgreeSame DEF Joins
  <2>3. CASE Opens(q)
    <3>1. attached \subseteq stranded
      BY <2>3 DEF Opens, AttachmentsAgree
    <3> QED BY <2>1, <2>3, <3>1, AgreeMove DEF Opens
  <2> QED BY <1>6, <2>2, <2>3, AcquireActions
<1>7. ASSUME NEW q \in Req, NEW c \in Conn, RequestDetach(q, c) PROVE AttachmentsAgree'
  <2>1. /\ UNCHANGED <<stage, current>> /\ attached' = attached \ {c} /\ stranded' = stranded \ {c}
        /\ \A m \in Live : lives[m].runtime = "live" => m = current
    BY <1>7 DEF RequestDetach, HolderInv
  <2>2. CASE current = 0 /\ lives' = lives
    <3>1. \A m \in Live : lives[m].runtime # "live"
      BY <2>1, <2>2, Types
    <3> QED BY <2>1, <2>2, <3>1, AgreeSame
  <2>3. CASE current \in Live /\ Tidied(current, lives[current].conns \ {c}, lives[current].ops)
    BY <2>1, <2>3, AgreeTidied
  <2> QED BY <1>7, <2>2, <2>3, RequestDetachEffect
<1>8. ASSUME NEW q \in Req, NEW c \in Conn, RequestOperation(q, c) PROVE AttachmentsAgree'
  <2>1. UNCHANGED <<stage, attached, stranded, current>>
    BY <1>8 DEF RequestOperation
  <2>2. \A m \in Live : lives'[m].runtime = lives[m].runtime /\ lives'[m].conns = lives[m].conns
    BY <1>8, RequestOperationEffect DEF Move
  <2> QED BY <1>0, <2>1, <2>2 DEF AttachmentsAgree
<1>9. ASSUME NEW l \in Live, DisposeSettles(l) PROVE AttachmentsAgree'
  <2>1. /\ UNCHANGED <<stage, attached, stranded>> /\ current' = IF current = l THEN 0 ELSE current
        /\ lives[l].runtime = "disposing"
        /\ Move(l, "gone", lives[l].conns, lives[l].ops, lives[l].born, lives[l].disposals)
    BY <1>9, RuntimeEffects DEF DisposeSettles
  <2>2. current # 0 => lives[current].runtime # "live"
    BY <1>0, <2>1 DEF HolderInv, Holding
  <2>3. attached \subseteq stranded
    BY <2>2 DEF AttachmentsAgree
  <2> QED BY <2>1, <2>3, AgreeMove
<1>10. ASSUME NEW l \in Live, OpenSettles(l) PROVE AttachmentsAgree'
  <2>1. UNCHANGED <<stage, attached, stranded>> /\ current = 0
    BY <1>10 DEF OpenSettles, HolderInv
  <2>2. attached \subseteq stranded
    BY <2>1 DEF AttachmentsAgree
  <2> QED BY <1>10, <2>1, <2>2, RuntimeEffects, AgreeMove
<1>11. ASSUME NEW l \in Live, SnapshotSettles(l) PROVE AttachmentsAgree'
  <2>1. UNCHANGED <<stage, attached, stranded>> /\ current = 0 /\ lives[l].conns = {}
    BY <1>11 DEF SnapshotSettles, HolderInv, LifeInv, Life
  <2>2. attached \subseteq stranded
    BY <2>1 DEF AttachmentsAgree
  <2> QED BY <1>11, <2>1, <2>2, RuntimeEffects, AgreeMove
<1>12. ASSUME NEW l \in Live, RuntimeIdle(l) PROVE AttachmentsAgree'
  <2>1. UNCHANGED <<stage, attached, stranded, current>>
    BY <1>12 DEF RuntimeIdle
  <2>2. Tidied(l, lives[l].conns, lives[l].ops)
    BY <1>12, RuntimeEffects
  <2> QED BY <1>0, <2>1, <2>2, AgreeTidied
<1>13. ASSUME NEW l \in Live, RuntimeError(l) PROVE AttachmentsAgree'
  <2>1. /\ UNCHANGED <<attached, stranded, current>>
        /\ \A c \in Conn : stage'[c] = "closed" => stage[c] = "closed"
    BY <1>13 DEF RuntimeError
  <2>2. \A m \in Live : lives'[m].runtime = lives[m].runtime /\ lives'[m].conns = lives[m].conns
    BY <1>13, RuntimeEffects DEF Move
  <2>3. \A m \in Live : \A c \in lives[m].conns : c \in Conn
    BY Types DEF LiveRec
  <2> QED BY <1>0, <2>1, <2>2, <2>3 DEF AttachmentsAgree
<1>14. ASSUME NEW e \in ending, TerminateSettles(e) PROVE AttachmentsAgree'
  <2>1. /\ current' = current /\ attached' = attached \ e.conns /\ stranded' = stranded \ e.conns
        /\ \A c \in Conn \ e.conns : stage'[c] = "closed" => stage[c] = "closed"
    BY <1>14 DEF TerminateSettles
  <2>2. \A m \in Live : m # e.live /\ lives[m].runtime = "live" => lives[m].conns \cap e.conns = {}
    BY DEF EndingInv
  <2>3. e.live \in Live /\ Tidied(e.live, lives[e.live].conns \ e.conns, lives[e.live].ops)
    BY <1>14, DropEffects
  <2> QED BY <2>1, <2>2, <2>3, AgreeTidied
<1>15. ASSUME NEW c \in Conn, Disconnect(c) PROVE AttachmentsAgree'
  <2>1. /\ current' = current /\ attached' = attached \ {c} /\ stranded' = stranded \ {c}
        /\ \A x \in Conn \ {c} : stage'[x] = "closed" => stage[x] = "closed"
        /\ \A m \in Live : lives[m].runtime = "live" => m = current
    BY <1>15 DEF Disconnect, HolderInv, TypeOK
  <2>2. CASE lives' = lives /\ (c \notin attached \/ current = 0)
    <3>1. \A m \in Live : lives[m].runtime = "live" => lives[m].conns \cap {c} = {}
      BY <2>1, <2>2, Types DEF AttachmentsAgree
    <3> QED BY <2>1, <2>2, <3>1, AgreeSame
  <2>3. CASE current \in Live /\ Tidied(current, lives[current].conns \ {c}, lives[current].ops)
    BY <2>1, <2>3, AgreeTidied
  <2> QED BY <1>15, <2>2, <2>3, DropEffects
<1>16. CASE Close
  BY <1>16, <1>0, AgreeSame DEF Close
<1>17. CASE CloseConnections
  <2>1. \A c \in Conn : stage'[c] = "closed" => stage[c] = "closed"
    BY <1>17 DEF CloseConnections
  <2> QED BY <1>17, <1>0, <2>1, AgreeSame DEF CloseConnections
<1>18. CASE CloseDisconnects
  <2>1. attached' = {} /\ \A m \in Live : lives[m].runtime = "live" => m = current
    BY <1>18 DEF CloseDisconnects, HolderInv
  <2>2. \A m \in Live : lives'[m].runtime = "live" => lives'[m].conns = {}
    <3>1. CASE current = 0 /\ lives' = lives
      BY <2>1, <3>1, Types
    <3>2. CASE /\ current \in Live
               /\ Move(current, lives[current].runtime, lives[current].conns \ attached,
                       lives[current].ops, lives[current].born, lives[current].disposals)
      <4>1. lives[current].runtime = "live" => lives[current].conns \ attached = {}
        BY <3>2 DEF AttachmentsAgree
      <4> QED BY <2>1, <3>2, <4>1 DEF Move
    <3> QED BY <1>18, <3>1, <3>2, DropEffects
  <2> QED BY <2>1, <2>2 DEF AttachmentsAgree
<1>19. CASE CloseSessions
  <2>1. UNCHANGED <<stage, attached, stranded>> /\ attached = {}
    BY <1>19 DEF CloseSessions, CloseInv
  <2>2. \A m \in Live : lives'[m].runtime = "live" => lives'[m] = lives[m]
    BY <1>19, DropEffects DEF Move
  <2> QED BY <2>1, <2>2 DEF AttachmentsAgree
<1>20. CASE CloseSettles
  BY <1>20, <1>0, AgreeSame DEF CloseSettles
<1>21. CASE UNCHANGED vars
  BY <1>21, <1>0, AgreeSame DEF vars
<1> QED
  BY <1>1, <1>2, <1>3, <1>4, <1>5, <1>6, <1>7, <1>8, <1>9, <1>10, <1>11, <1>12,
     <1>13, <1>14, <1>15, <1>16, <1>17, <1>18, <1>19, <1>20, <1>21
     DEF Next, Handler, Runtime, Terminating, Closing, Events

--------------------------------------------------------------------------------
(* Theorems *)

(* The initial state.                                                        *)
LEMMA InvInit == Init => IInv
<1> SUFFICES ASSUME Init PROVE IInv
  OBVIOUS
<1>1. /\ stage = [c \in Conn |-> "ready"] /\ attached = {} /\ stranded = {} /\ req = [q \in Req |-> Free]
      /\ lives = [l \in Live |-> NewLive] /\ next = 1 /\ current = 0 /\ opening = 0 /\ ending = {}
      /\ server = "open" /\ awaited = 0
  BY DEF Init
<1>2. /\ NewLive \in LiveRec /\ NewLive.runtime = "none" /\ NewLive.conns = {} /\ NewLive.ops = 0
      /\ ~NewLive.born /\ NewLive.disposals = 0
  BY DEF NewLive, LiveRec
<1>3. TypeOK
  <2>1. lives \in [Live -> LiveRec] /\ req \in [Req -> ReqRec]
    BY <1>1, <1>2 DEF ReqRec
  <2> QED BY <1>1, <2>1, BoundsAssumption DEF TypeOK, LiveRec, ReqRec
<1>4. \A l \in Live : lives[l] = NewLive /\ l \in Int /\ l >= 1
  BY <1>1, <1>3, Types
<1>5. \A q \in Req : req[q].pc = "free"
  BY <1>1 DEF Free
<1>6. OpsInv
  <2>1. \A l \in Live : Running(l) = {}
    BY <1>5 DEF Running
  <2> QED BY <1>2, <1>4, <2>1, FS_EmptySet DEF OpsInv
<1>7. LifeInv
  BY <1>1, <1>2, <1>4 DEF LifeInv, Life
<1>8. RequestInv /\ CloseInv /\ HolderInv /\ DrainInv /\ EndingInv /\ AttachmentsAgree
  BY <1>1, <1>2, <1>4, <1>5
     DEF RequestInv, CloseInv, HolderInv, DrainInv, EndingInv, AttachmentsAgree, Holding
<1> QED BY <1>3, <1>6, <1>7, <1>8 DEF IInv

(* Every step keeps the invariant.                                           *)
LEMMA InvNext == IInv /\ [Next]_vars => IInv'
<1> SUFFICES ASSUME IInv, [Next]_vars PROVE IInv'
  OBVIOUS
<1>1. TypeOK /\ LifeInv /\ OpsInv /\ RequestInv /\ CloseInv
      /\ HolderInv /\ DrainInv /\ EndingInv /\ AttachmentsAgree
  BY DEF IInv
<1>2. TypeOK' /\ LifeInv' /\ OpsInv'
  BY <1>1, TypeNext, LifeNext, OpsNext
<1>3. RequestInv' /\ CloseInv' /\ HolderInv' /\ DrainInv'
  BY <1>1, RequestNext, CloseNext, HolderNext, DrainNext
<1>4. EndingInv' /\ AttachmentsAgree'
  BY <1>1, EndingNext, AttachmentsNext
<1> QED BY <1>2, <1>3, <1>4 DEF IInv

(* The inductive invariant holds of every behaviour.                         *)
THEOREM Invariance == Spec => []IInv
  BY InvInit, InvNext, PTL DEF Spec

(* The server's state keeps its types (sessions.ts, server.ts).              *)
THEOREM TypeCorrect == Spec => []TypeOK
<1>1. IInv => TypeOK
  BY DEF IInv
<1> QED BY <1>1, Invariance, PTL

(* A session never has two runtimes, being opened, used or disposed at the   *)
(* same time, for any number of connections, requests, reopenings and        *)
(* failures (acquire, create, maybeDispose, close).                          *)
THEOREM OneRuntimeAtATime == Spec => []RuntimeIsExclusive
<1>1. ASSUME IInv PROVE RuntimeIsExclusive
  <2> DEFINE H == {l \in Live : lives[l].runtime \in Holding}
  <2>1. \A l, m \in H : l = m
    BY <1>1 DEF IInv, HolderInv
  <2>2. Cardinality(H) <= 1
    <3>1. CASE H = {}
      BY <3>1, FS_EmptySet
    <3>2. CASE H # {}
      <4>1. PICK l : H = {l}
        BY <2>1, <3>2
      <4> QED BY <4>1, FS_Singleton
    <3> QED BY <3>1, <3>2
  <2> QED BY <2>2 DEF RuntimeIsExclusive, Holding
<1> QED BY <1>1, Invariance, PTL

(* Each runtime is given back once, and before the server closes never under *)
(* a running operation (maybeDispose, create, close).                        *)
THEOREM RuntimesAreReturned == Spec => []RuntimeIsReturnedOnce
<1>1. ASSUME IInv PROVE RuntimeIsReturnedOnce
  <2>1. SUFFICES ASSUME NEW l \in Live
                PROVE  /\ lives[l].disposals <= 1
                       /\ lives[l].born /\ lives[l].runtime = "gone" => lives[l].disposals = 1
                       /\ lives[l].disposals = 1 /\ ~closing => lives[l].ops = 0
    BY DEF RuntimeIsReturnedOnce
  <2>2. Life(l) /\ lives \in [Live -> LiveRec]
    BY <1>1, Types DEF IInv, LifeInv
  <2>3. lives[l].runtime \in {"none", "opening", "snapshot", "live", "disposing", "gone"}
    BY <2>2 DEF LiveRec
  <2> QED BY <2>2, <2>3 DEF Life
<1> QED BY <1>1, Invariance, PTL

(* What a connection believes to be attached to serves it, and what a        *)
(* session serves is there (attach, detach, disconnect, terminate, close).   *)
THEOREM BothSidesAgree == Spec => []AttachmentsAgree
<1>1. IInv => AttachmentsAgree
  BY DEF IInv
<1> QED BY <1>1, Invariance, PTL
================================================================================
