------------------------------ MODULE LiveSessions -----------------------------
(***************************************************************************)
(* The live sessions of a PiServer (packages/server/src/sessions.ts, and   *)
(* the connections of server.ts), seen from one session id: connections    *)
(* attach to it, run operations on its runtime, detach and drop; the       *)
(* runtime is opened for the first of them and disposed after the last.    *)
(* Sessions of different ids share nothing but their connections.          *)
(*                                                                         *)
(* The server is single threaded: what happens between two awaits is one   *)
(* action, and at every await any other handler may run.  Requests of one  *)
(* connection are handled concurrently too.                                *)
(***************************************************************************)
EXTENDS Integers, FiniteSets

CONSTANTS
  Conn,       \* connections
  Req,        \* requests in flight
  MaxLives,   \* most runtimes opened (bound)
  MaxFailing  \* the first so many of them may report an error (bound)

ASSUME BoundsAssumption == MaxLives \in Nat /\ MaxFailing \in Nat

Live == 1..MaxLives

VARIABLES
  stage,      \* of a connection: "ready" | "closing" (transport closed) | "closed"
  attached,   \* connections whose sessionIds has the id
  req,        \* request: pc, conn, live session it is about, creator of it
  lives,      \* LiveSession objects with the runtime each of them holds
  next,       \* next LiveSession
  current,    \* liveSessions.get(id), or 0
  opening,    \* openingSessions.get(id), or 0
  ending,     \* terminate()s in progress: live session and connections to drop
  server,     \* "open" | "listeners" | "disconnect" | "openings" | "sessions" | "closed"
  awaited,    \* live session that close() waits for, or 0
  stranded    \* attached to a live session that no longer serves (history)

vars == <<stage, attached, req, lives, next, current, opening, ending, server, awaited, stranded>>
connVars == <<stage, attached, stranded>>
closeVars == <<server, awaited>>

Free == [pc |-> "free"]

(* runtime: "none" | "opening" (service called) | "snapshot" (acquired,    *)
(* create() reads its snapshot) | "live" | "disposing" | "gone".           *)
NewLive == [runtime |-> "none", conns |-> {}, ops |-> 0, terminal |-> FALSE,
            busy |-> FALSE, born |-> FALSE, disposals |-> 0]

Init ==
  /\ stage = [c \in Conn |-> "ready"]
  /\ attached = {} /\ stranded = {}
  /\ req = [q \in Req |-> Free]
  /\ lives = [l \in Live |-> NewLive]
  /\ next = 1 /\ current = 0 /\ opening = 0
  /\ ending = {}
  /\ server = "open" /\ awaited = 0

closing == server # "open"

(* live.connections.delete; the operation count that runOperation keeps.    *)
Without(live, conns) == [live EXCEPT !.conns = @ \ conns]
AddOps(live, n) == [live EXCEPT !.ops = @ + n]

--------------------------------------------------------------------------------
(* maybeDispose *)

Dispose(live) == [live EXCEPT !.runtime = "disposing", !.disposals = @ + 1]

(* Mutant: the operations in progress are not counted.                     *)
DisposableUnderOperation(live) ==
  ~closing /\ live.runtime = "live" /\ live.conns = {} /\ (live.terminal \/ ~live.busy)

Disposable(live) ==
  /\ ~closing
  /\ live.runtime = "live"
  /\ live.conns = {} /\ live.ops = 0
  /\ live.terminal \/ ~live.busy

maybeDispose(live) == IF Disposable(live) THEN Dispose(live) ELSE live

(* runtime.dispose() settles; the session leaves the map if still in it.   *)
(* Nothing reads the phase and the terminal flag of a disposed session.    *)
DisposeSettles(l) ==
  /\ lives[l].runtime = "disposing"
  /\ lives' = [lives EXCEPT ![l].runtime = "gone", ![l].busy = FALSE, ![l].terminal = FALSE]
  /\ current' = IF current = l THEN 0 ELSE current
  /\ UNCHANGED <<connVars, req, next, opening, ending, closeVars>>

--------------------------------------------------------------------------------
(* What acquire finds under the id: a live session, or one being opened.   *)
(* Mutant: openings are not shared.                                        *)
FoundLive == current

Found == IF current # 0 THEN current ELSE opening

(* acquire: one turn of its loop, for request q of connection c.           *)
Acquire(q, c) ==
  \/ /\ Found # 0
     /\ req' = [req EXCEPT ![q] =
          IF lives[Found].terminal THEN Free
          ELSE [pc |-> IF current = 0 THEN "opening"
                       ELSE IF lives[current].runtime = "live" THEN "acquired" ELSE "disposal",
                conn |-> c, live |-> Found, creator |-> FALSE]]
     /\ UNCHANGED <<lives, next, opening>>
  \/ /\ Found = 0 /\ next \in Live
     /\ req' = [req EXCEPT ![q] =
          [pc |-> "opening", conn |-> c, live |-> next, creator |-> TRUE]]
     /\ lives' = [lives EXCEPT ![next].runtime = "opening"]
     /\ opening' = next
     /\ next' = next + 1

(* A request is dispatched while its connection is ready.                  *)
RequestAttach(q, c) ==
  /\ req[q] = Free /\ stage[c] = "ready"
  /\ Acquire(q, c)
  /\ UNCHANGED <<connVars, current, ending, closeVars>>

(* The disposal that acquire waits for has settled: look again, or fail as *)
(* the disposal did.                                                       *)
AcquireAgain(q) ==
  /\ req[q].pc = "disposal" /\ lives[req[q].live].runtime = "gone"
  /\ \/ Acquire(q, req[q].conn)
     \/ req' = [req EXCEPT ![q] = Free] /\ UNCHANGED <<lives, next, opening>>
  /\ UNCHANGED <<connVars, current, ending, closeVars>>

(* create: the service returns a runtime or fails ...                      *)
(* Mutant: the server may have closed meanwhile.                           *)
OpenSettlesUnchecked(l) ==
  /\ lives[l].runtime = "opening"
  /\ \E outcome \in {"gone", "snapshot"} : lives' = [lives EXCEPT ![l].runtime = outcome]
  /\ UNCHANGED <<connVars, req, next, current, opening, ending, closeVars>>

OpenSettles(l) ==
  /\ lives[l].runtime = "opening"
  /\ \/ lives' = [lives EXCEPT ![l].runtime = "gone"]
     \/ lives' = [lives EXCEPT ![l] = IF closing THEN Dispose(@) ELSE [@ EXCEPT !.runtime = "snapshot"]]
  /\ UNCHANGED <<connVars, req, next, current, opening, ending, closeVars>>

(* ... and the first snapshot is read, or the runtime is given back.       *)
SnapshotSettles(l) ==
  /\ lives[l].runtime = "snapshot"
  /\ \/ /\ lives' = [lives EXCEPT ![l].runtime = "live", ![l].born = TRUE]
        /\ current' = l
     \/ /\ lives' = [lives EXCEPT ![l] = Dispose(@)]
        /\ UNCHANGED current
  /\ UNCHANGED <<connVars, req, next, opening, ending, closeVars>>

CreateSettled(l) == lives[l].born \/ lives[l].runtime = "gone"

(* acquire continues behind the creation it waits for.                     *)
AcquireSettles(q) ==
  /\ req[q].pc = "opening" /\ CreateSettled(req[q].live)
  /\ req' = [req EXCEPT ![q] =
       IF lives[req[q].live].born THEN [@ EXCEPT !.pc = "acquired"] ELSE Free]
  /\ opening' = IF req[q].creator /\ opening = req[q].live THEN 0 ELSE opening
  /\ UNCHANGED <<connVars, lives, next, current, ending, closeVars>>

(* attach: the connection may be gone by now.                              *)
Attach(q) ==
  /\ req[q].pc = "acquired"
  /\ LET c == req[q].conn
         l == req[q].live
     IN IF stage[c] # "ready"
        THEN /\ lives' = [lives EXCEPT ![l] = maybeDispose(@)]
             /\ UNCHANGED <<attached, stranded>>
        ELSE /\ lives' = [lives EXCEPT ![l].conns = @ \union {c}]
             /\ attached' = attached \union {c}
             /\ stranded' = IF lives[l].runtime = "live" /\ ~lives[l].terminal
                            THEN stranded \ {c} ELSE stranded \union {c}
  /\ req' = [req EXCEPT ![q] = Free]
  /\ UNCHANGED <<stage, next, current, opening, ending, closeVars>>

--------------------------------------------------------------------------------
(* detach: the rest learn of it before the session may be disposed.        *)
RequestDetach(q, c) ==
  /\ req[q] = Free /\ stage[c] = "ready" /\ c \in attached
  /\ attached' = attached \ {c} /\ stranded' = stranded \ {c}
  /\ IF current = 0
     THEN UNCHANGED <<lives, req>>
     ELSE LET live == Without(lives[current], {c})
              tell == live.conns # {} /\ ~live.terminal /\ live.runtime = "live"
          IN /\ lives' = [lives EXCEPT ![current] = IF tell THEN live ELSE maybeDispose(live)]
             /\ req' = [req EXCEPT ![q] =
                  IF tell THEN [pc |-> "detaching", conn |-> c, live |-> current, creator |-> FALSE]
                  ELSE Free]
  /\ UNCHANGED <<stage, next, current, opening, ending, closeVars>>

(* The snapshot was sent, or could not be read.                            *)
DetachSettles(q) ==
  /\ req[q].pc = "detaching"
  /\ \/ lives' = [lives EXCEPT ![req[q].live] = maybeDispose(@)]
     \/ UNCHANGED lives
  /\ req' = [req EXCEPT ![q] = Free]
  /\ UNCHANGED <<connVars, next, current, opening, ending, closeVars>>

--------------------------------------------------------------------------------
(* prompt, steer, abort, set_model, set_thinking: requireAttached, then    *)
(* runOperation.                                                           *)
RequestOperation(q, c) ==
  /\ req[q] = Free /\ stage[c] = "ready"
  /\ c \in attached /\ current # 0
  /\ ~lives[current].terminal /\ lives[current].runtime = "live"
  /\ \E busy \in {lives[current].busy, TRUE} :
       lives' = [lives EXCEPT ![current] = [AddOps(@, 1) EXCEPT !.busy = busy]]
  /\ req' = [req EXCEPT ![q] = [pc |-> "running", conn |-> c, live |-> current, creator |-> FALSE]]
  /\ UNCHANGED <<connVars, next, current, opening, ending, closeVars>>

(* Mutant: the count goes down twice, after the operation and in finally.  *)
OperationSettlesTwice(q) ==
  /\ req[q].pc = "running"
  /\ lives' = [lives EXCEPT ![req[q].live] = maybeDispose(AddOps(@, -2))]
  /\ req' = [req EXCEPT ![q] = Free]
  /\ UNCHANGED <<connVars, next, current, opening, ending, closeVars>>

(* Mutant: the end of an operation does not look for a disposal.           *)
OperationSettlesSilently(q) ==
  /\ req[q].pc = "running"
  /\ lives' = [lives EXCEPT ![req[q].live] = AddOps(@, -1)]
  /\ req' = [req EXCEPT ![q] = Free]
  /\ UNCHANGED <<connVars, next, current, opening, ending, closeVars>>

OperationSettles(q) ==
  /\ req[q].pc = "running"
  /\ lives' = [lives EXCEPT ![req[q].live] = maybeDispose(AddOps(@, -1))]
  /\ req' = [req EXCEPT ![q] = Free]
  /\ UNCHANGED <<connVars, next, current, opening, ending, closeVars>>

(* The runtime becomes busy with an operation; its phase returns to idle   *)
(* with a snapshot event, which nobody receives once it has failed.        *)
RuntimeIdle(l) ==
  /\ lives[l].runtime = "live" /\ lives[l].busy
  /\ lives' = [lives EXCEPT ![l] =
       IF @.terminal THEN [@ EXCEPT !.busy = FALSE] ELSE maybeDispose([@ EXCEPT !.busy = FALSE])]
  /\ UNCHANGED <<connVars, req, next, current, opening, ending, closeVars>>

--------------------------------------------------------------------------------
(* An error event: terminate closes the connections attached now ...       *)
RuntimeError(l) ==
  /\ l <= MaxFailing
  /\ lives[l].runtime = "live" /\ ~lives[l].terminal
  /\ lives' = [lives EXCEPT ![l].terminal = TRUE]
  /\ ending' = ending \union {[live |-> l, conns |-> lives[l].conns]}
  /\ stage' = [c \in Conn |->
       IF c \in lives[l].conns /\ stage[c] = "ready" THEN "closing" ELSE stage[c]]
  /\ UNCHANGED <<attached, stranded, req, next, current, opening, closeVars>>

(* ... and, when the transports are closed, disconnects them.              *)
TerminateSettles(e) ==
  /\ stage' = [c \in Conn |-> IF c \in e.conns THEN "closed" ELSE stage[c]]
  /\ attached' = attached \ e.conns /\ stranded' = stranded \ e.conns
  /\ lives' = [lives EXCEPT ![e.live] = maybeDispose(Without(@, e.conns))]
  /\ ending' = ending \ {e}
  /\ UNCHANGED <<req, next, current, opening, closeVars>>

--------------------------------------------------------------------------------
(* Mutant: the session keeps the connection.                               *)
DisconnectHalf(c) ==
  /\ stage[c] # "closed"
  /\ stage' = [stage EXCEPT ![c] = "closed"]
  /\ attached' = attached \ {c} /\ stranded' = stranded \ {c}
  /\ UNCHANGED <<req, lives, next, current, opening, ending, closeVars>>

(* The peer closes, the transport fails or the protocol is broken.  A      *)
(* client that comes back has a connection of its own.                     *)
Disconnect(c) ==
  /\ stage[c] # "closed"
  /\ stage' = [stage EXCEPT ![c] = "closed"]
  /\ attached' = attached \ {c} /\ stranded' = stranded \ {c}
  /\ lives' = IF c \in attached /\ current # 0
              THEN [lives EXCEPT ![current] = maybeDispose(Without(@, {c}))]
              ELSE lives
  /\ UNCHANGED <<req, next, current, opening, ending, closeVars>>

--------------------------------------------------------------------------------
(* close() of the server: close the listeners, while requests go on; close *)
(* the connections, disconnect them, wait for the session being opened,    *)
(* dispose what is live.                                                   *)
Close ==
  /\ server = "open"
  /\ server' = "listeners"
  /\ UNCHANGED <<connVars, req, lives, next, current, opening, ending, awaited>>

CloseConnections ==
  /\ server = "listeners"
  /\ server' = "disconnect"
  /\ stage' = [c \in Conn |-> IF stage[c] = "ready" THEN "closing" ELSE stage[c]]
  /\ UNCHANGED <<attached, stranded, req, lives, next, current, opening, ending, awaited>>

CloseDisconnects ==
  /\ server = "disconnect"
  /\ server' = "openings" /\ awaited' = opening
  /\ stage' = [c \in Conn |-> "closed"]
  /\ attached' = {} /\ stranded' = {}
  /\ lives' = IF current = 0 THEN lives
              ELSE [lives EXCEPT ![current] = Without(@, attached)]
  /\ UNCHANGED <<req, next, current, opening, ending>>

CloseSessions ==
  /\ server = "openings"
  /\ awaited # 0 => CreateSettled(awaited)
  /\ server' = "sessions" /\ awaited' = current
  /\ lives' = IF current # 0 /\ lives[current].runtime = "live"
              THEN [lives EXCEPT ![current] = Dispose(@)] ELSE lives
  /\ current' = 0
  /\ UNCHANGED <<connVars, req, next, opening, ending>>

CloseSettles ==
  /\ server = "sessions"
  /\ awaited # 0 => lives[awaited].runtime = "gone"
  /\ server' = "closed" /\ awaited' = 0
  /\ UNCHANGED <<connVars, req, lives, next, current, opening, ending>>

--------------------------------------------------------------------------------
(* Promise continuations run before the event loop takes up anything new:  *)
(* the requests whose awaited disposal has settled have all looked again   *)
(* before a message arrives or another promise of the service settles.     *)
QueueDrained == \A q \in Req : req[q].pc = "disposal" => lives[req[q].live].runtime # "gone"

Handler(q) ==
  AcquireAgain(q) \/ AcquireSettles(q) \/ Attach(q) \/ DetachSettles(q) \/ OperationSettles(q)

Runtime ==
  /\ QueueDrained
  /\ \E l \in Live : DisposeSettles(l) \/ OpenSettles(l) \/ SnapshotSettles(l) \/ RuntimeIdle(l)

Terminating == QueueDrained /\ \E e \in ending : TerminateSettles(e)

Closing ==
  /\ QueueDrained
  /\ CloseConnections \/ CloseDisconnects \/ CloseSessions \/ CloseSettles

Events ==
  /\ QueueDrained
  /\ \/ \E q \in Req, c \in Conn :
          RequestAttach(q, c) \/ RequestDetach(q, c) \/ RequestOperation(q, c)
     \/ \E l \in Live : RuntimeError(l)
     \/ \E c \in Conn : Disconnect(c)
     \/ Close

Next == (\E q \in Req : Handler(q)) \/ Runtime \/ Terminating \/ Closing \/ Events

(* Continuations run, and the service and its runtimes settle what they    *)
(* were asked; nothing is assumed of clients and of failures.              *)
Fairness ==
  /\ \A q \in Req : WF_vars(Handler(q))
  /\ WF_vars(Runtime) /\ WF_vars(Terminating) /\ WF_vars(Closing)

Spec == Init /\ [][Next]_vars /\ Fairness

--------------------------------------------------------------------------------
(* Properties *)

TypeOK ==
  /\ stage \in [Conn -> {"ready", "closing", "closed"}]
  /\ attached \subseteq Conn /\ stranded \subseteq attached
  /\ req \in [Req -> {Free} \union
                     [pc: {"disposal", "opening", "acquired", "detaching", "running"},
                      conn: Conn, live: Live, creator: BOOLEAN]]
  /\ lives \in [Live -> [runtime: {"none", "opening", "snapshot", "live", "disposing", "gone"},
                         conns: SUBSET Conn, ops: Nat, terminal: BOOLEAN,
                         busy: BOOLEAN, born: BOOLEAN, disposals: Nat]]
  /\ next \in 1..MaxLives + 1 /\ current \in 0..MaxLives /\ opening \in 0..MaxLives
  /\ ending \subseteq [live: Live, conns: SUBSET Conn]
  /\ server \in {"open", "listeners", "disconnect", "openings", "sessions", "closed"}
  /\ awaited \in 0..MaxLives

(* The service is never asked for a runtime of a session while another     *)
(* runtime of it is being opened, used or disposed, whatever attaches,     *)
(* drops, failures and shutdown overlap (acquire, maybeDispose, close).    *)
RuntimeIsExclusive ==
  Cardinality({l \in Live : lives[l].runtime \in {"opening", "snapshot", "live", "disposing"}}) <= 1

(* A runtime is given back exactly once, and, until the server closes,     *)
(* never under a running operation (maybeDispose, close, create).          *)
RuntimeIsReturnedOnce ==
  \A l \in Live :
    /\ lives[l].disposals <= 1
    /\ lives[l].born /\ lives[l].runtime = "gone" => lives[l].disposals = 1
    /\ lives[l].disposals = 1 /\ ~closing => lives[l].ops = 0

(* The two sides of an attachment agree: a connection that believes it is  *)
(* attached is served by the session's current runtime, and no connection  *)
(* that has left keeps a runtime alive.  The one way to break the first is *)
(* attach() adding a connection to a session that was disposed or has      *)
(* failed since acquire() returned it (stranded).                          *)
AttachmentsAgree ==
  /\ \A c \in attached \ stranded :
       current # 0 /\ lives[current].runtime = "live" /\ c \in lives[current].conns
  /\ \A l \in Live : lives[l].runtime = "live" =>
       \A c \in lives[l].conns : c \in attached /\ stage[c] # "closed"

Abandoned == \E l \in Live : lives[l].runtime = "live" /\ lives[l].conns = {} /\ lives[l].ops = 0

(* A session that nobody is attached to and that does nothing is disposed, *)
(* unless it is used again (maybeDispose is called on every path that may  *)
(* leave it so).                                                           *)
AbandonedIsDisposed == Abandoned ~> ~Abandoned

(* After close() every runtime is eventually returned, also one that an    *)
(* acquire still in flight opens behind it (close, create).                *)
CloseReturnsEverything ==
  closing ~> [](\A l \in Live : lives[l].runtime \in {"none", "gone"})
================================================================================
