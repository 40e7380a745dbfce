------------------------------ MODULE SqliteLease ------------------------------
(***************************************************************************)
(* The writer lease of one session in the SQLite backend                   *)
(* (packages/session-backends/sqlite-node): several processes, each with a *)
(* SqliteSessionRepository on the same database, open, write, delete and   *)
(* repair the session.  A SqliteSessionStorage is identified by the owner  *)
(* id (a fresh uuid) it claimed the lease with; owner ids are numbered in  *)
(* the order of the claims.                                                *)
(*                                                                         *)
(* A transaction (BEGIN IMMEDIATE ... COMMIT) is one action: SQLite        *)
(* serialises them across processes.  Everything between transactions      *)
(* interleaves, the clock included.  A process may crash at any moment.    *)
(***************************************************************************)
EXTENDS Integers, Sequences, FiniteSets

CONSTANTS
  Repo,        \* processes, each with one repository object
  MaxOwners,   \* most claims of the lease (bound)
  TTL,         \* writerLease.ttlMs, in clock ticks
  MaxTime,     \* the clock stops here (bound)
  MaxLog,      \* most committed mutations (bound)
  MaxWaiting   \* most writes waiting in one storage (bound)

ASSUME BoundsAssumption ==
  MaxOwners \in Nat /\ MaxTime \in Nat /\ MaxLog \in Nat /\ MaxWaiting \in Nat
ASSUME RepoAssumption == Repo # {}
(* resolveWriterLeaseOptions rejects a ttl that is not a positive integer. *)
ASSUME TTLAssumption == TTL \in Nat \ {0}

Owner == 1..MaxOwners
NoLease == [owner |-> 0, fence |-> 0, expires |-> 0]

VARIABLES
  now,         \* Date.now()
  (* the database *)
  exists,      \* the session's rows exist
  lease,       \* its writer_leases row, or NoLease
  log,         \* committed mutations: sequence number and owner of each
  nextSeq,     \* session_sequences.next_seq
  (* storages *)
  nextOwner,   \* next owner id
  repoOf,      \* repository holding a storage
  phase,       \* "none" | "open" | "closing" | "gone"
  fence,       \* lease.fence of a storage
  lost,        \* storages with leaseError set
  timer,       \* heartbeat timer: "off" | "armed" | "fired"
  queue,       \* SerialOperationQueue of a storage
  (* repositories *)
  active,      \* activeStorages
  task,        \* what the repository's own queue is doing
  targets      \* storages that task still has to release

dbVars == <<exists, lease, log, nextSeq>>
storageVars == <<repoOf, phase, fence, lost, timer, queue>>
repoVars == <<active, task, targets>>
vars == <<now, dbVars, nextOwner, storageVars, repoVars>>

Init ==
  /\ now = 0 /\ exists = FALSE /\ lease = NoLease /\ log = <<>> /\ nextSeq = 1
  /\ nextOwner = 1
  /\ \E r \in Repo : repoOf = [o \in Owner |-> r]
  /\ phase = [o \in Owner |-> "none"] /\ fence = [o \in Owner |-> 0] /\ lost = {}
  /\ timer = [o \in Owner |-> "off"] /\ queue = [o \in Owner |-> <<>>]
  /\ active = [r \in Repo |-> {}] /\ task = [r \in Repo |-> "none"]
  /\ targets = [r \in Repo |-> {}]

--------------------------------------------------------------------------------
(* Statements on the writer_leases row, each inside a transaction.          *)

Claimable == nextOwner \in Owner /\ (lease = NoLease \/ lease.expires <= now)

(* acquireWriterLease: insert with fence 1, or take over an expired row.    *)
Acquired ==
  [owner |-> nextOwner,
   fence |-> IF lease = NoLease THEN 1 ELSE lease.fence + 1,
   expires |-> now + TTL]

(* Mutant: the owner is not compared.                                       *)
RenewableByAnyone(o) == lease # NoLease /\ lease.expires > now

(* renewWriterLease succeeds only for the recorded owner, before expiry.    *)
Renewable(o) ==
  lease # NoLease /\ lease.owner = o /\ lease.fence = fence[o] /\ lease.expires > now

(* Mutant: the new expiry lies in the past.                                 *)
RenewedBackwards == [lease EXCEPT !.expires = now - TTL]

Renewed == [lease EXCEPT !.expires = now + TTL]

(* Mutant: the row is deleted whoever it belongs to.                        *)
AfterReleaseByAnyone(o) == NoLease

(* releaseWriterLease deletes the row only if it is the caller's.           *)
AfterRelease(o) == IF lease.owner = o /\ lease.fence = fence[o] THEN NoLease ELSE lease

--------------------------------------------------------------------------------
(* SqliteSessionRepository *)

(* Its queue runs one operation at a time; only close() works beside it.    *)
QueueFree(r) == task[r] \in {"none", "close"}

(* new SqliteSessionStorage after a claim, and its first heartbeat timer.   *)
NewStorage(r) ==
  /\ nextOwner' = nextOwner + 1
  /\ repoOf' = [repoOf EXCEPT ![nextOwner] = r]
  /\ phase' = [phase EXCEPT ![nextOwner] = "open"]
  /\ fence' = [fence EXCEPT ![nextOwner] = Acquired.fence]
  /\ timer' = [timer EXCEPT ![nextOwner] = "armed"]
  /\ active' = [active EXCEPT ![r] = @ \cup {nextOwner}]
  /\ lease' = Acquired
  /\ UNCHANGED <<now, lost, queue, task, targets>>

(* create: the rows and the claim are one transaction.                      *)
Create(r) ==
  /\ QueueFree(r) /\ ~exists /\ Claimable
  /\ exists' = TRUE /\ log' = <<>> /\ nextSeq' = 1
  /\ NewStorage(r)

(* claimSession: a storage this repository already has is returned as it    *)
(* is, without a look at the lease; otherwise the lease is claimed.         *)
OpenActive(r) ==
  /\ QueueFree(r) /\ active[r] # {}
  /\ UNCHANGED vars

(* Mutant: the existence of the session is not checked.                     *)
OpenClaimUnchecked(r) ==
  /\ QueueFree(r) /\ active[r] = {} /\ Claimable
  /\ NewStorage(r)
  /\ UNCHANGED <<exists, log, nextSeq>>

OpenClaim(r) ==
  /\ QueueFree(r) /\ active[r] = {} /\ exists /\ Claimable
  /\ NewStorage(r)
  /\ UNCHANGED <<exists, log, nextSeq>>

(* delete, repairBranchCache and close first release the storages they find. *)
StartTask(r, t) ==
  /\ task[r] = "none"
  /\ task' = [task EXCEPT ![r] = t] /\ targets' = [targets EXCEPT ![r] = active[r]]
  /\ UNCHANGED <<now, dbVars, nextOwner, storageVars, active>>

(* Mutant: the timer keeps running.                                         *)
KeepHeartbeat(o) == UNCHANGED timer

(* clearTimeout: a timer that has not fired yet is cancelled.               *)
ClearHeartbeat(o) == timer' = [timer EXCEPT ![o] = IF @ = "armed" THEN "off" ELSE @]

(* storage.release(): seal admission, stop the timer, queue the release.    *)
(* They are awaited one after the other.                                    *)
StartRelease(r, o) ==
  /\ o \in targets[r] /\ \A p \in targets[r] : o <= p
  /\ phase[o] = "open"
  /\ phase' = [phase EXCEPT ![o] = "closing"]
  /\ ClearHeartbeat(o)
  /\ queue' = [queue EXCEPT ![o] = Append(@, "release")]
  /\ UNCHANGED <<now, dbVars, nextOwner, repoOf, fence, lost, repoVars>>

AwaitRelease(r, o) ==
  /\ o \in targets[r] /\ phase[o] = "gone"
  /\ targets' = [targets EXCEPT ![r] = @ \ {o}]
  /\ UNCHANGED <<now, dbVars, nextOwner, storageVars, active, task>>

(* The transaction of delete: a session that is gone only has its lease row *)
(* removed; otherwise the lease is claimed before anything is deleted.      *)
FinishDelete(r) ==
  /\ task[r] = "delete" /\ targets[r] = {}
  /\ task' = [task EXCEPT ![r] = "none"]
  /\ \/ ~exists /\ lease' = NoLease /\ UNCHANGED <<exists, log, nextSeq, nextOwner>>
     \/ /\ exists /\ Claimable
        /\ nextOwner' = nextOwner + 1
        /\ exists' = FALSE /\ lease' = NoLease /\ log' = <<>> /\ nextSeq' = 1
     \/ exists /\ ~Claimable /\ UNCHANGED <<dbVars, nextOwner>>
  /\ UNCHANGED <<now, storageVars, active, targets>>

(* The transaction of repairBranchCache: claim, rebuild, release.           *)
FinishRepair(r) ==
  /\ task[r] = "repair" /\ targets[r] = {}
  /\ task' = [task EXCEPT ![r] = "none"]
  /\ \/ exists /\ Claimable /\ nextOwner' = nextOwner + 1 /\ lease' = NoLease
     \/ ~(exists /\ Claimable) /\ UNCHANGED <<lease, nextOwner>>
  /\ UNCHANGED <<now, exists, log, nextSeq, storageVars, active, targets>>

FinishClose(r) ==
  /\ task[r] = "close" /\ targets[r] = {}
  /\ task' = [task EXCEPT ![r] = "none"]
  /\ UNCHANGED <<now, dbVars, nextOwner, storageVars, active, targets>>

(* The process dies: its storages vanish, the database keeps the lease row. *)
Crash(r) ==
  /\ \E o \in Owner : repoOf[o] = r /\ phase[o] \in {"open", "closing"}
  /\ phase' = [o \in Owner |->
                 IF repoOf[o] = r /\ phase[o] \in {"open", "closing"} THEN "gone" ELSE phase[o]]
  /\ timer' = [o \in Owner |-> IF repoOf[o] = r THEN "off" ELSE timer[o]]
  /\ queue' = [o \in Owner |-> IF repoOf[o] = r THEN <<>> ELSE queue[o]]
  /\ active' = [active EXCEPT ![r] = {}]
  /\ task' = [task EXCEPT ![r] = "none"] /\ targets' = [targets EXCEPT ![r] = {}]
  /\ UNCHANGED <<now, dbVars, nextOwner, repoOf, fence, lost>>

--------------------------------------------------------------------------------
(* SqliteSessionStorage *)

(* enqueueWrite: rejected at once while closing.                            *)
RequestWrite(o) ==
  /\ phase[o] = "open"
  /\ Cardinality({i \in 1..Len(queue[o]) : queue[o][i] = "write"}) < MaxWaiting
  /\ queue' = [queue EXCEPT ![o] = Append(@, "write")]
  /\ UNCHANGED <<now, dbVars, nextOwner, repoOf, phase, fence, lost, timer, repoVars>>

Next1(o, op) == queue[o] # <<>> /\ Head(queue[o]) = op
Pop(o) == queue' = [queue EXCEPT ![o] = Tail(@)]

(* Mutant: the next sequence number is not written back.                    *)
KeepSequence == UNCHANGED nextSeq

(* The mutation's number was read from next_seq, which moves on.            *)
AdvanceSequence == nextSeq' = nextSeq + 1

(* The lease is renewed and the mutation applied in one transaction.        *)
CommitWrite(o) ==
  /\ Next1(o, "write") /\ o \notin lost /\ Renewable(o) /\ Len(log) < MaxLog
  /\ Pop(o)
  /\ lease' = Renewed
  /\ log' = Append(log, [seq |-> nextSeq, by |-> o]) /\ AdvanceSequence
  /\ UNCHANGED <<now, exists, nextOwner, repoOf, phase, fence, lost, timer, repoVars>>

(* The operation rejects its input (or a statement fails): rolled back,     *)
(* renewal included.                                                        *)
RollbackWrite(o) ==
  /\ Next1(o, "write")
  /\ o \in lost \/ Renewable(o)
  /\ Pop(o)
  /\ UNCHANGED <<now, dbVars, nextOwner, repoOf, phase, fence, lost, timer, repoVars>>

(* The renewal matches no row: leaseError is set for good.                  *)
LoseOnWrite(o) ==
  /\ Next1(o, "write") /\ o \notin lost /\ ~Renewable(o)
  /\ Pop(o)
  /\ lost' = lost \cup {o}
  /\ ClearHeartbeat(o)
  /\ UNCHANGED <<now, dbVars, nextOwner, repoOf, phase, fence, repoVars>>

HeartbeatFires(o) ==
  /\ timer[o] = "armed"
  /\ timer' = [timer EXCEPT ![o] = "fired"]
  /\ queue' = [queue EXCEPT ![o] = Append(@, "heartbeat")]
  /\ UNCHANGED <<now, dbVars, nextOwner, repoOf, phase, fence, lost, repoVars>>

(* The queued heartbeat renews, finds the lease lost, or fails (a busy      *)
(* database); then scheduleHeartbeat arms the timer again, unless sealed.   *)
Heartbeat(o) ==
  /\ Next1(o, "heartbeat")
  /\ Pop(o)
  /\ \/ UNCHANGED <<lease, lost>>
     \/ phase[o] = "open" /\ o \notin lost /\ Renewable(o) /\ lease' = Renewed /\ UNCHANGED lost
     \/ phase[o] = "open" /\ o \notin lost /\ ~Renewable(o) /\ lost' = lost \cup {o} /\ UNCHANGED lease
  /\ timer' = [timer EXCEPT ![o] =
                 IF phase[o] = "open" /\ o \notin lost' THEN "armed" ELSE "off"]
  /\ UNCHANGED <<now, exists, log, nextSeq, nextOwner, repoOf, phase, fence, repoVars>>

(* finishRelease: delete the matching row (or fail to); onRelease runs      *)
(* either way.                                                              *)
Release(o) ==
  /\ Next1(o, "release")
  /\ Pop(o)
  /\ lease' \in {lease, AfterRelease(o)}
  /\ phase' = [phase EXCEPT ![o] = "gone"]
  /\ active' = [active EXCEPT ![repoOf[o]] = @ \ {o}]
  /\ UNCHANGED <<now, exists, log, nextSeq, nextOwner, repoOf, fence, lost, timer, task,
                 targets>>

Tick == now < MaxTime /\ now' = now + 1
        /\ UNCHANGED <<dbVars, nextOwner, storageVars, repoVars>>

Next ==
  \/ Tick
  \/ \E r \in Repo :
       \/ Create(r) \/ OpenActive(r) \/ OpenClaim(r)
       \/ \E t \in {"delete", "repair", "close"} : StartTask(r, t)
       \/ \E o \in Owner : StartRelease(r, o) \/ AwaitRelease(r, o)
       \/ FinishDelete(r) \/ FinishRepair(r) \/ FinishClose(r) \/ Crash(r)
  \/ \E o \in Owner :
       \/ RequestWrite(o) \/ CommitWrite(o) \/ RollbackWrite(o) \/ LoseOnWrite(o)
       \/ HeartbeatFires(o) \/ Heartbeat(o) \/ Release(o)

Spec == Init /\ [][Next]_vars

--------------------------------------------------------------------------------
(* Properties *)

LeaseType == [owner : 0..MaxOwners, fence : Nat, expires : Nat]

(* Every variable holds a value of the type the source gives it.            *)
TypeOK ==
  /\ now \in Nat /\ exists \in BOOLEAN /\ lease \in LeaseType
  /\ log \in Seq([seq : Nat, by : Owner]) /\ nextSeq \in Nat /\ nextOwner \in Nat
  /\ repoOf \in [Owner -> Repo]
  /\ phase \in [Owner -> {"none", "open", "closing", "gone"}]
  /\ fence \in [Owner -> Nat] /\ lost \subseteq Owner
  /\ timer \in [Owner -> {"off", "armed", "fired"}]
  /\ queue \in [Owner -> Seq({"write", "heartbeat", "release"})]
  /\ active \in [Repo -> SUBSET Owner]
  /\ task \in [Repo -> {"none", "delete", "repair", "close"}]
  /\ targets \in [Repo -> SUBSET Owner]

(* Writers of one session never interleave: once a later claimant of the    *)
(* lease has written, no write of an earlier one is committed, however      *)
(* late it wakes up (repo.ts enqueueWrite).                                 *)
WritesNeverInterleave ==
  \A i, j \in 1..Len(log) : i <= j => log[i].by <= log[j].by

(* Only the most recent claimant of the lease ever appends to the log.      *)
LatestAppends ==
  Len(log') > Len(log) => log'[Len(log')].by = nextOwner - 1
OnlyLastClaimantWrites == [][LatestAppends]_log

(* The session's log has no gaps and no duplicate sequence numbers, across  *)
(* writers, roll-backs and crashes.                                         *)
LogIsDense ==
  /\ nextSeq = Len(log) + 1
  /\ \A i \in 1..Len(log) : log[i].seq = i

(* A lease that has not expired is taken away by nobody: it stays with its  *)
(* owner until that owner releases it.  In particular a stale owner cannot  *)
(* release its successor's lease (harness.md:572).                          *)
OwnerKeepsLiveLease ==
  lease # NoLease /\ lease.expires > now =>
    \/ lease'.owner = lease.owner
    \/ lease' = NoLease /\ phase[lease.owner] = "closing"
LiveLeaseIsStable == [][OwnerKeepsLiveLease]_lease

(* Release is the last operation of a storage: the queue drains before the  *)
(* lease goes, and nothing is attempted on the session afterwards.          *)
ReleaseIsLast ==
  \A o \in Owner :
    /\ \A i \in 1..(Len(queue[o]) - 1) : queue[o][i] # "release"
    /\ phase[o] = "gone" => queue[o] = <<>> /\ timer[o] # "armed"

(* A lease row never outlives the session it belongs to.                    *)
LeaseNeedsSession == lease # NoLease => exists
================================================================================
