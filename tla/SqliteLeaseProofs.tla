--------------------------- MODULE SqliteLeaseProofs ---------------------------
(***************************************************************************)
(* What SqliteLease promises, proved for any number of processes, claims,  *)
(* clock ticks and writes.                                                 *)
(*                                                                         *)
(* WritesNeverInterleave is not inductive: that a stale storage cannot     *)
(* commit rests on the lease row always naming the latest claimant         *)
(* (LeaseInv) and on nobody having written who has not claimed (LogInv).   *)
(* That a live lease is only given up by its owner rests on the queue      *)
(* discipline of a storage (QueueInv): a release is queued only once the   *)
(* storage is sealed, and nothing is queued behind it.                     *)
(***************************************************************************)
EXTENDS SqliteLease, SequenceTheorems, TLAPS

(* The lease row names the most recent claimant of the lease.               *)
LeaseInv ==
  /\ nextOwner >= 1
  /\ lease # NoLease => lease.owner = nextOwner - 1

(* The log is dense, written by past claimants, in the order of the claims. *)
LogInv ==
  /\ LogIsDense
  /\ \A i \in 1..Len(log) : log[i].by < nextOwner
  /\ WritesNeverInterleave

(* The life of one storage: what may be queued in which phase.              *)
QueueInv ==
  \A o \in Owner :
    /\ phase[o] \in {"none", "gone"} => queue[o] = <<>>
    /\ timer[o] = "armed" => phase[o] = "open"
    /\ \A i \in 1..Len(queue[o]) :
         queue[o][i] = "release" => phase[o] = "closing" /\ i = Len(queue[o])
    /\ o >= nextOwner => phase[o] = "none"

IInv == TypeOK /\ LeaseInv /\ LogInv /\ QueueInv /\ LeaseNeedsSession

--------------------------------------------------------------------------------
(* Type correctness *)

(* The log of a new session.                                                *)
LEMMA EmptyLog == <<>> \in Seq([seq : Nat, by : Owner])
  OBVIOUS

(* The statements on the lease row produce lease rows.                      *)
LEMMA LeaseTypes ==
  ASSUME TypeOK
  PROVE  /\ NoLease \in LeaseType
         /\ Claimable => Acquired \in LeaseType /\ nextOwner \in Owner
         /\ Renewed \in LeaseType
         /\ \A o \in Owner : AfterRelease(o) \in LeaseType
<1>1. NoLease \in LeaseType
  BY BoundsAssumption DEF NoLease, LeaseType
<1>2. Claimable => Acquired \in LeaseType /\ nextOwner \in Owner
  BY BoundsAssumption, TTLAssumption DEF TypeOK, Claimable, Acquired, LeaseType, Owner
<1>3. Renewed \in LeaseType
  <2>1. now + TTL \in Nat /\ lease \in LeaseType
    BY TTLAssumption DEF TypeOK
  <2> QED BY <2>1 DEF Renewed, LeaseType
<1>4. \A o \in Owner : AfterRelease(o) \in LeaseType
  BY <1>1 DEF TypeOK, AfterRelease
<1> QED BY <1>1, <1>2, <1>3, <1>4

(* A claimant's storage object is well formed.                              *)
LEMMA NewStorageTypes ==
  ASSUME TypeOK, NEW r \in Repo, Claimable, NewStorage(r),
         exists' \in BOOLEAN, log' \in Seq([seq : Nat, by : Owner]), nextSeq' \in Nat
  PROVE  TypeOK'
<1>1. lease' \in LeaseType /\ nextOwner \in Owner /\ nextOwner' \in Nat /\ Acquired \in LeaseType
  BY LeaseTypes DEF NewStorage, TypeOK, Owner
<1>2. Acquired.fence \in Nat
  BY <1>1 DEF LeaseType
<1>3. repoOf' \in [Owner -> Repo] /\ active' \in [Repo -> SUBSET Owner]
  BY <1>1 DEF NewStorage, TypeOK
<1>4. /\ phase' \in [Owner -> {"none", "open", "closing", "gone"}]
      /\ timer' \in [Owner -> {"off", "armed", "fired"}]
      /\ fence' \in [Owner -> Nat]
  BY <1>1, <1>2 DEF NewStorage, TypeOK
<1> QED
  BY <1>1, <1>3, <1>4 DEF NewStorage, TypeOK

(* Every step keeps every variable in its type.                             *)
LEMMA TypeNext == TypeOK /\ [Next]_vars => TypeOK'
<1> SUFFICES ASSUME TypeOK, [Next]_vars PROVE TypeOK'
  OBVIOUS
<1> USE DEF dbVars, storageVars, repoVars
<1>1. CASE Tick
  BY <1>1 DEF TypeOK, Tick
<1>2. ASSUME NEW r \in Repo, Create(r) PROVE TypeOK'
  BY <1>2, NewStorageTypes DEF Create
<1>3. ASSUME NEW r \in Repo, OpenActive(r) PROVE TypeOK'
  BY <1>3 DEF TypeOK, OpenActive, vars
<1>4. ASSUME NEW r \in Repo, OpenClaim(r) PROVE TypeOK'
  BY <1>4, NewStorageTypes DEF OpenClaim, TypeOK
<1>5. ASSUME NEW r \in Repo, NEW t \in {"delete", "repair", "close"}, StartTask(r, t)
      PROVE TypeOK'
  BY <1>5 DEF TypeOK, StartTask
<1>6. ASSUME NEW r \in Repo, NEW o \in Owner, StartRelease(r, o) PROVE TypeOK'
  BY <1>6 DEF TypeOK, StartRelease, ClearHeartbeat
<1>7. ASSUME NEW r \in Repo, NEW o \in Owner, AwaitRelease(r, o) PROVE TypeOK'
  BY <1>7 DEF TypeOK, AwaitRelease
<1>8. ASSUME NEW r \in Repo, FinishDelete(r) PROVE TypeOK'
  <2>1. /\ exists' \in BOOLEAN /\ lease' \in LeaseType /\ nextSeq' \in Nat /\ nextOwner' \in Nat
        /\ log' \in Seq([seq : Nat, by : Owner])
    <3>1. exists' \in BOOLEAN
      BY <1>8, Zenon DEF TypeOK, FinishDelete
    <3>2. lease' \in LeaseType /\ nextSeq' \in Nat /\ nextOwner' \in Nat
      BY <1>8, LeaseTypes DEF TypeOK, FinishDelete
    <3>3. log' \in Seq([seq : Nat, by : Owner])
      BY <1>8, EmptyLog DEF TypeOK, FinishDelete
    <3> QED BY <3>1, <3>2, <3>3
  <2> QED BY <1>8, <2>1 DEF TypeOK, FinishDelete
<1>9. ASSUME NEW r \in Repo, FinishRepair(r) PROVE TypeOK'
  BY <1>9, LeaseTypes DEF TypeOK, FinishRepair
<1>10. ASSUME NEW r \in Repo, FinishClose(r) PROVE TypeOK'
  BY <1>10 DEF TypeOK, FinishClose
<1>11. ASSUME NEW r \in Repo, Crash(r) PROVE TypeOK'
  BY <1>11 DEF TypeOK, Crash
<1>12. ASSUME NEW o \in Owner, RequestWrite(o) PROVE TypeOK'
  BY <1>12 DEF TypeOK, RequestWrite
<1>13. ASSUME NEW o \in Owner, CommitWrite(o) PROVE TypeOK'
  BY <1>13, LeaseTypes DEF TypeOK, CommitWrite, AdvanceSequence, Pop, Next1
<1>14. ASSUME NEW o \in Owner, RollbackWrite(o) PROVE TypeOK'
  BY <1>14 DEF TypeOK, RollbackWrite, Pop, Next1
<1>15. ASSUME NEW o \in Owner, LoseOnWrite(o) PROVE TypeOK'
  BY <1>15 DEF TypeOK, LoseOnWrite, ClearHeartbeat, Pop, Next1
<1>16. ASSUME NEW o \in Owner, HeartbeatFires(o) PROVE TypeOK'
  BY <1>16 DEF TypeOK, HeartbeatFires
<1>17. ASSUME NEW o \in Owner, Heartbeat(o) PROVE TypeOK'
  BY <1>17, LeaseTypes DEF TypeOK, Heartbeat, Pop, Next1
<1>18. ASSUME NEW o \in Owner, Release(o) PROVE TypeOK'
  BY <1>18, LeaseTypes DEF TypeOK, Release, Pop, Next1
<1>19. CASE UNCHANGED vars
  BY <1>19 DEF TypeOK, vars
<1>20. ASSUME NEW r \in Repo,
              \/ Create(r) \/ OpenActive(r) \/ OpenClaim(r)
              \/ \E t \in {"delete", "repair", "close"} : StartTask(r, t)
              \/ \E o \in Owner : StartRelease(r, o) \/ AwaitRelease(r, o)
              \/ FinishDelete(r) \/ FinishRepair(r) \/ FinishClose(r) \/ Crash(r)
       PROVE TypeOK'
  BY <1>2, <1>3, <1>4, <1>5, <1>6, <1>7, <1>8, <1>9, <1>10, <1>11, <1>20, Zenon
<1> QED
  BY <1>1, <1>12, <1>13, <1>14, <1>15, <1>16, <1>17, <1>18, <1>19, <1>20, Zenon DEF Next

(* The initial state is well typed.                                         *)
LEMMA TypeInit == Init => TypeOK
<1> SUFFICES ASSUME Init PROVE TypeOK
  OBVIOUS
<1>1. exists \in BOOLEAN
  BY Zenon DEF Init
<1>2. lease \in LeaseType
  BY BoundsAssumption DEF Init, NoLease, LeaseType
<1>3. log \in Seq([seq : Nat, by : Owner])
  BY EmptyLog DEF Init
<1>4. repoOf \in [Owner -> Repo] /\ lost \subseteq Owner
  BY DEF Init
<1>5. /\ phase \in [Owner -> {"none", "open", "closing", "gone"}] /\ fence \in [Owner -> Nat]
      /\ timer \in [Owner -> {"off", "armed", "fired"}]
      /\ queue \in [Owner -> Seq({"write", "heartbeat", "release"})]
  BY DEF Init
<1>6. /\ active \in [Repo -> SUBSET Owner] /\ targets \in [Repo -> SUBSET Owner]
      /\ task \in [Repo -> {"none", "delete", "repair", "close"}]
      /\ now \in Nat /\ nextSeq \in Nat /\ nextOwner \in Nat
  BY DEF Init
<1> QED BY <1>1, <1>2, <1>3, <1>4, <1>5, <1>6 DEF TypeOK

(* SqliteLease keeps its types, for all processes and bounds.               *)
THEOREM TypeCorrect == Spec => []TypeOK
  BY TypeInit, TypeNext, PTL DEF Spec

--------------------------------------------------------------------------------
(* The database *)

dbState == <<exists, lease, log, nextSeq, nextOwner>>

(* The steps that touch the database; every other step leaves it alone.     *)
DbStep ==
  \/ \E r \in Repo : Create(r) \/ OpenClaim(r) \/ FinishDelete(r) \/ FinishRepair(r)
  \/ \E o \in Owner : CommitWrite(o) \/ Heartbeat(o) \/ Release(o)

(* Only claims, deletes, commits, heartbeats and releases change a row.     *)
LEMMA DbSteps == [Next]_vars => DbStep \/ UNCHANGED dbState
<1> USE DEF dbState, dbVars, DbStep
<1>1. ASSUME NEW r \in Repo, OpenActive(r) PROVE UNCHANGED dbState
  BY <1>1 DEF OpenActive, vars
<1>2. ASSUME NEW r \in Repo, NEW t \in {"delete", "repair", "close"}, StartTask(r, t)
      PROVE UNCHANGED dbState
  BY <1>2 DEF StartTask
<1>3. ASSUME NEW r \in Repo, NEW o \in Owner, StartRelease(r, o) \/ AwaitRelease(r, o)
      PROVE UNCHANGED dbState
  BY <1>3 DEF StartRelease, AwaitRelease
<1>4. ASSUME NEW r \in Repo, FinishClose(r) \/ Crash(r) PROVE UNCHANGED dbState
  BY <1>4 DEF FinishClose, Crash
<1>5. ASSUME NEW o \in Owner,
             RequestWrite(o) \/ RollbackWrite(o) \/ LoseOnWrite(o) \/ HeartbeatFires(o)
      PROVE UNCHANGED dbState
  BY <1>5 DEF RequestWrite, RollbackWrite, LoseOnWrite, HeartbeatFires
<1>6. CASE Tick \/ UNCHANGED vars
  BY <1>6 DEF Tick, vars
<1> HIDE DEF dbState, dbVars
<1> QED BY <1>1, <1>2, <1>3, <1>4, <1>5, <1>6, Zenon DEF Next

(* A storage that can renew the lease is the most recent claimant.          *)
LEMMA RenewerIsLatest ==
  ASSUME LeaseInv, NEW o \in Owner, Renewable(o)
  PROVE  o = nextOwner - 1 /\ lease # NoLease
  BY DEF LeaseInv, Renewable

(* The lease row keeps naming the most recent claimant.                     *)
LEMMA LeaseNext == TypeOK /\ LeaseInv /\ [Next]_vars => LeaseInv'
<1> SUFFICES ASSUME TypeOK, LeaseInv, [Next]_vars PROVE LeaseInv'
  OBVIOUS
<1> nextOwner \in Nat
  BY DEF TypeOK
<1>1. CASE UNCHANGED dbState
  BY <1>1 DEF dbState, LeaseInv
<1>2. ASSUME NEW r \in Repo, Create(r) \/ OpenClaim(r) PROVE LeaseInv'
  BY <1>2 DEF Create, OpenClaim, NewStorage, Acquired, LeaseInv
<1>3. ASSUME NEW r \in Repo, FinishDelete(r) PROVE LeaseInv'
  BY <1>3 DEF FinishDelete, LeaseInv, dbVars
<1>4. ASSUME NEW r \in Repo, FinishRepair(r) PROVE LeaseInv'
  BY <1>4 DEF FinishRepair, LeaseInv
<1>5. ASSUME NEW o \in Owner, CommitWrite(o) \/ Heartbeat(o) PROVE LeaseInv'
  <2>1. Renewable(o) => Renewed.owner = lease.owner
    BY DEF TypeOK, LeaseType, Renewed
  <2>2. nextOwner' = nextOwner /\ (lease' = lease \/ (Renewable(o) /\ lease' = Renewed))
    BY <1>5 DEF CommitWrite, Heartbeat
  <2> QED BY <2>1, <2>2, RenewerIsLatest DEF LeaseInv
<1>6. ASSUME NEW o \in Owner, Release(o) PROVE LeaseInv'
  BY <1>6 DEF Release, AfterRelease, LeaseInv
<1> QED BY <1>1, <1>2, <1>3, <1>4, <1>5, <1>6, DbSteps DEF DbStep

(* Owners in the log are numbers.                                           *)
LEMMA WriterIsNat ==
  ASSUME TypeOK, NEW i \in 1..Len(log) PROVE log[i].by \in Nat
<1> DEFINE Mutation == [seq : Nat, by : Owner]
<1>1. log \in Seq(Mutation)
  BY DEF TypeOK
<1>2. log[i] \in Mutation
  <2> HIDE DEF Mutation
  <2> QED BY <1>1
<1>3. log[i].by \in Owner
  BY <1>2
<1> QED BY <1>3, BoundsAssumption DEF Owner

(* The log stays dense and ordered by claim.                                *)
LEMMA LogNext == TypeOK /\ LeaseInv /\ LogInv /\ [Next]_vars => LogInv'
<1> SUFFICES ASSUME TypeOK, LeaseInv, LogInv, [Next]_vars PROVE LogInv'
  OBVIOUS
<1> USE DEF LogIsDense, WritesNeverInterleave
<1> nextOwner \in Nat /\ nextOwner >= 1 /\ log \in Seq([seq : Nat, by : Owner])
  BY DEF TypeOK, LeaseInv
<1>1. ASSUME log' = <<>>, nextSeq' = 1 PROVE LogInv'
  BY <1>1 DEF LogInv
<1>2. ASSUME UNCHANGED <<log, nextSeq>>, nextOwner' \in {nextOwner, nextOwner + 1} PROVE LogInv'
  BY <1>2, WriterIsNat DEF LogInv
<1>3. CASE UNCHANGED dbState
  BY <1>2, <1>3 DEF dbState
<1>4. ASSUME NEW r \in Repo, Create(r) PROVE LogInv'
  BY <1>1, <1>4 DEF Create
<1>5. ASSUME NEW r \in Repo, OpenClaim(r) PROVE LogInv'
  BY <1>2, <1>5 DEF OpenClaim, NewStorage
<1>6. ASSUME NEW r \in Repo, FinishDelete(r) PROVE LogInv'
  BY <1>1, <1>2, <1>6 DEF FinishDelete, dbVars
<1>7. ASSUME NEW r \in Repo, FinishRepair(r) PROVE LogInv'
  BY <1>2, <1>7 DEF FinishRepair
<1>8. ASSUME NEW o \in Owner, CommitWrite(o) PROVE LogInv'
  <2>1. o = nextOwner - 1 /\ nextOwner' = nextOwner /\ nextSeq' = nextSeq + 1
        /\ log' = Append(log, [seq |-> nextSeq, by |-> o])
    BY <1>8, RenewerIsLatest DEF CommitWrite, AdvanceSequence
  <2>2. /\ Len(log') = Len(log) + 1 /\ log'[Len(log) + 1] = [seq |-> nextSeq, by |-> o]
        /\ \A i \in 1..Len(log) : log'[i] = log[i]
    BY <2>1
  <2>3. \A i \in 1..Len(log) : log[i].by \in Nat /\ log[i].by <= o
    <3> SUFFICES ASSUME NEW i \in 1..Len(log) PROVE log[i].by \in Nat /\ log[i].by <= o
      OBVIOUS
    <3>1. log[i].by \in Nat
      BY WriterIsNat
    <3>2. log[i].by < nextOwner
      BY DEF LogInv
    <3> QED BY <2>1, <3>1, <3>2
  <2>4. LogIsDense'
    BY <2>1, <2>2 DEF LogInv
  <2>5. \A i \in 1..Len(log') : log'[i].by <= o
    BY <2>2, <2>3 DEF Owner
  <2>6. \A i \in 1..Len(log') : log'[i].by \in Nat
    BY <2>2, <2>3, SMTT(20) DEF Owner
  <2>7. WritesNeverInterleave'
    <3> SUFFICES ASSUME NEW i \in 1..Len(log'), NEW j \in 1..Len(log'), i <= j
                 PROVE log'[i].by <= log'[j].by
      OBVIOUS
    <3>1. CASE j = Len(log')
      BY <2>2, <2>5, <3>1
    <3>2. CASE j # Len(log')
      <4>1. i \in 1..Len(log) /\ j \in 1..Len(log)
        BY <2>2, <3>2
      <4>2. log[i].by <= log[j].by
        BY <4>1 DEF LogInv
      <4> QED BY <2>2, <4>1, <4>2
    <3> QED BY <3>1, <3>2
  <2> QED BY <2>1, <2>4, <2>5, <2>6, <2>7 DEF LogInv
<1>9. ASSUME NEW o \in Owner, Heartbeat(o) \/ Release(o) PROVE LogInv'
  BY <1>2, <1>9 DEF Heartbeat, Release
<1> QED BY <1>3, <1>4, <1>5, <1>6, <1>7, <1>8, <1>9, DbSteps DEF DbStep

(* A session's lease row goes no later than the session.                    *)
LEMMA SessionNext == TypeOK /\ LeaseInv /\ LeaseNeedsSession /\ [Next]_vars => LeaseNeedsSession'
<1> SUFFICES ASSUME TypeOK, LeaseInv, LeaseNeedsSession, [Next]_vars PROVE LeaseNeedsSession'
  OBVIOUS
<1> USE DEF LeaseNeedsSession
<1>1. CASE UNCHANGED dbState
  BY <1>1 DEF dbState
<1>2. ASSUME NEW r \in Repo, Create(r) \/ OpenClaim(r) PROVE LeaseNeedsSession'
  BY <1>2 DEF Create, OpenClaim
<1>3. ASSUME NEW r \in Repo, FinishDelete(r) \/ FinishRepair(r) PROVE LeaseNeedsSession'
  BY <1>3 DEF FinishDelete, FinishRepair, dbVars
<1>4. ASSUME NEW o \in Owner, CommitWrite(o) \/ Heartbeat(o) PROVE LeaseNeedsSession'
  BY <1>4, RenewerIsLatest DEF CommitWrite, Heartbeat
<1>5. ASSUME NEW o \in Owner, Release(o) PROVE LeaseNeedsSession'
  BY <1>5 DEF Release, AfterRelease
<1> QED BY <1>1, <1>2, <1>3, <1>4, <1>5, DbSteps DEF DbStep

--------------------------------------------------------------------------------
(* The queue of a storage *)

StorageInv(o) ==
  /\ phase[o] \in {"none", "gone"} => queue[o] = <<>>
  /\ timer[o] = "armed" => phase[o] = "open"
  /\ \A i \in 1..Len(queue[o]) :
       queue[o][i] = "release" => phase[o] = "closing" /\ i = Len(queue[o])
  /\ o >= nextOwner => phase[o] = "none"

(* QueueInv speaks of one storage at a time.                                *)
LEMMA QueueInvIsPointwise == QueueInv <=> \A o \in Owner : StorageInv(o)
  BY DEF QueueInv, StorageInv

(* A step that leaves a storage's queue, phase and timer alone keeps its    *)
(* invariant, even if a claim goes to somebody else.                        *)
LEMMA OtherStorage ==
  ASSUME TypeOK, NEW o \in Owner, StorageInv(o),
         queue'[o] = queue[o], phase'[o] = phase[o], timer'[o] = timer[o],
         nextOwner' \in {nextOwner, nextOwner + 1}
  PROVE  StorageInv(o)'
<1>1. nextOwner \in Nat /\ o \in Nat
  BY BoundsAssumption DEF TypeOK, Owner
<1> QED BY <1>1 DEF StorageInv

(* Appending an ordinary operation to an open storage, and taking the head. *)
LEMMA QueueOperations ==
  ASSUME TypeOK, NEW o \in Owner, StorageInv(o)
  PROVE  /\ \A op : phase[o] = "open" /\ op # "release" =>
              \A i \in 1..Len(Append(queue[o], op)) : Append(queue[o], op)[i] # "release"
         /\ queue[o] # <<>> => \A i \in 1..Len(Tail(queue[o])) :
              Tail(queue[o])[i] = "release" => phase[o] = "closing" /\ i = Len(Tail(queue[o]))
         /\ queue[o] # <<>> /\ Head(queue[o]) = "release" =>
              phase[o] = "closing" /\ Tail(queue[o]) = <<>>
<1> DEFINE Op == {"write", "heartbeat", "release"}
<1>1. queue[o] \in Seq(Op)
  BY DEF TypeOK
<1> HIDE DEF Op
<1>2. ASSUME NEW op, phase[o] = "open", op # "release",
             NEW i \in 1..Len(Append(queue[o], op))
      PROVE  Append(queue[o], op)[i] # "release"
  <2>1. Len(Append(queue[o], op)) = Len(queue[o]) + 1
    BY <1>1
  <2>2. CASE i = Len(queue[o]) + 1
    BY <1>1, <1>2, <2>2
  <2>3. CASE i \in 1..Len(queue[o])
    BY <1>1, <1>2, <2>3 DEF StorageInv
  <2> QED BY <1>1, <1>2, <2>1, <2>2, <2>3
<1>3. ASSUME queue[o] # <<>>, NEW i \in 1..Len(Tail(queue[o])), Tail(queue[o])[i] = "release"
      PROVE  phase[o] = "closing" /\ i = Len(Tail(queue[o]))
  <2>1. Len(Tail(queue[o])) = Len(queue[o]) - 1 /\ Tail(queue[o])[i] = queue[o][i + 1]
        /\ i + 1 \in 1..Len(queue[o])
    BY <1>1, <1>3
  <2> QED BY <1>1, <1>3, <2>1 DEF StorageInv
<1>4. ASSUME queue[o] # <<>>, Head(queue[o]) = "release"
      PROVE  phase[o] = "closing" /\ Tail(queue[o]) = <<>>
  <2>1. 1 \in 1..Len(queue[o]) /\ queue[o][1] = "release"
    BY <1>1, <1>4
  <2>2. phase[o] = "closing" /\ Len(queue[o]) = 1
    BY <2>1 DEF StorageInv
  <2>3. Tail(queue[o]) \in Seq(Op) /\ Len(Tail(queue[o])) = 0
    BY <1>1, <1>4, <2>2
  <2> QED BY <2>2, <2>3, EmptySeq
<1> QED BY <1>2, <1>3, <1>4

(* Every step keeps the queue discipline of every storage.                  *)
LEMMA QueueNext == TypeOK /\ LeaseInv /\ QueueInv /\ [Next]_vars => QueueInv'
<1> SUFFICES ASSUME TypeOK, LeaseInv, QueueInv, [Next]_vars, NEW o \in Owner
             PROVE  StorageInv(o)'
  BY QueueInvIsPointwise, Zenon DEF QueueInv, StorageInv
<1> USE DEF dbVars, storageVars, repoVars
<1>1. StorageInv(o)
  BY QueueInvIsPointwise
<1>2. /\ nextOwner \in Nat /\ o \in Nat
      /\ phase \in [Owner -> {"none", "open", "closing", "gone"}]
      /\ timer \in [Owner -> {"off", "armed", "fired"}]
      /\ queue \in [Owner -> Seq({"write", "heartbeat", "release"})]
  BY BoundsAssumption DEF TypeOK, Owner
<1>3. ASSUME UNCHANGED <<phase, timer, queue>>, nextOwner' \in {nextOwner, nextOwner + 1}
      PROVE  StorageInv(o)'
  BY <1>1, <1>3, OtherStorage
<1>4. CASE Tick \/ UNCHANGED vars
  BY <1>3, <1>4 DEF Tick, vars
<1>5. ASSUME NEW r \in Repo, Create(r) \/ OpenClaim(r) PROVE StorageInv(o)'
  <2>1. nextOwner \in Owner /\ NewStorage(r)
    BY <1>5 DEF Create, OpenClaim, Claimable
  <2>2. CASE o = nextOwner
    <3>1. queue'[o] = <<>> /\ phase'[o] = "open" /\ nextOwner' = o + 1
      BY <1>1, <1>2, <2>1, <2>2 DEF NewStorage, StorageInv
    <3> QED BY <1>2, <3>1 DEF StorageInv
  <2>3. CASE o # nextOwner
    BY <1>1, <1>2, <2>1, <2>3, OtherStorage DEF NewStorage
  <2> QED BY <2>2, <2>3
<1>6. ASSUME NEW r \in Repo, OpenActive(r) PROVE StorageInv(o)'
  BY <1>3, <1>6 DEF OpenActive, vars
<1>7. ASSUME NEW r \in Repo, NEW t \in {"delete", "repair", "close"}, StartTask(r, t)
      PROVE  StorageInv(o)'
  BY <1>3, <1>7 DEF StartTask
<1>8. ASSUME NEW r \in Repo, NEW p \in Owner, StartRelease(r, p) PROVE StorageInv(o)'
  <2>1. CASE o = p
    <3> DEFINE Op == {"write", "heartbeat", "release"}
    <3>1. queue[o] \in Seq(Op) /\ queue'[o] = Append(queue[o], "release")
      BY <1>2, <1>8, <2>1 DEF StartRelease, ClearHeartbeat
    <3>2. /\ phase[o] = "open" /\ phase'[o] = "closing" /\ timer'[o] # "armed"
          /\ nextOwner' = nextOwner
      BY <1>2, <1>8, <2>1 DEF StartRelease, ClearHeartbeat
    <3>3. /\ Len(queue'[o]) = Len(queue[o]) + 1
          /\ \A i \in 1..Len(queue[o]) : queue'[o][i] = queue[o][i]
      BY <3>1
    <3>4. \A i \in 1..Len(queue[o]) : queue[o][i] # "release"
      BY <1>1, <3>2 DEF StorageInv
    <3>5. \A i \in 1..Len(queue'[o]) : queue'[o][i] = "release" => i = Len(queue'[o])
      BY <3>1, <3>3, <3>4
    <3> QED BY <1>1, <1>2, <3>2, <3>5 DEF StorageInv
  <2>2. CASE o # p
    BY <1>1, <1>2, <1>8, <2>2, OtherStorage DEF StartRelease, ClearHeartbeat
  <2> QED BY <2>1, <2>2
<1>9. ASSUME NEW r \in Repo, NEW p \in Owner, AwaitRelease(r, p) PROVE StorageInv(o)'
  BY <1>3, <1>9 DEF AwaitRelease
<1>10. ASSUME NEW r \in Repo, FinishDelete(r) PROVE StorageInv(o)'
  BY <1>3, <1>10 DEF FinishDelete
<1>11. ASSUME NEW r \in Repo, FinishRepair(r) \/ FinishClose(r) PROVE StorageInv(o)'
  BY <1>3, <1>11 DEF FinishRepair, FinishClose
<1>12. ASSUME NEW r \in Repo, Crash(r) PROVE StorageInv(o)'
  <2>1. CASE repoOf[o] = r
    BY <1>1, <1>2, <1>12, <2>1 DEF Crash, StorageInv
  <2>2. CASE repoOf[o] # r
    BY <1>1, <1>2, <1>12, <2>2, OtherStorage DEF Crash
  <2> QED BY <2>1, <2>2
<1>13. ASSUME NEW p \in Owner, RequestWrite(p) \/ HeartbeatFires(p) PROVE StorageInv(o)'
  <2>1. CASE o = p
    <3>1. PICK op \in {"write", "heartbeat"} : queue'[o] = Append(queue[o], op)
      BY <1>2, <1>13, <2>1 DEF RequestWrite, HeartbeatFires
    <3>2. /\ phase[o] = "open" /\ phase' = phase /\ nextOwner' = nextOwner
      BY <1>1, <1>2, <1>13, <2>1 DEF RequestWrite, HeartbeatFires, StorageInv
    <3>3. \A i \in 1..Len(queue'[o]) : queue'[o][i] # "release"
      BY <1>1, <3>1, <3>2, QueueOperations
    <3> QED BY <1>1, <1>2, <3>2, <3>3 DEF StorageInv
  <2>2. CASE o # p
    BY <1>1, <1>2, <1>13, <2>2, OtherStorage DEF RequestWrite, HeartbeatFires
  <2> QED BY <2>1, <2>2
<1>14. ASSUME NEW p \in Owner,
              CommitWrite(p) \/ RollbackWrite(p) \/ LoseOnWrite(p) \/ Heartbeat(p)
       PROVE  StorageInv(o)'
  <2>1. CASE o = p
    <3>1. queue[o] # <<>> /\ queue'[o] = Tail(queue[o]) /\ UNCHANGED <<phase, nextOwner>>
      BY <1>2, <1>14, <2>1
      DEF CommitWrite, RollbackWrite, LoseOnWrite, Heartbeat, Next1, Pop
    <3>2. timer'[o] = "armed" => timer[o] = "armed" \/ phase[o] = "open"
      BY <1>2, <1>14, <2>1 DEF CommitWrite, RollbackWrite, LoseOnWrite, Heartbeat, ClearHeartbeat
    <3>3. phase[o] \notin {"none", "gone"}
      BY <1>1, <3>1 DEF StorageInv
    <3> QED BY <1>1, <1>2, <3>1, <3>2, <3>3, QueueOperations DEF StorageInv
  <2>2. CASE o # p
    BY <1>1, <1>2, <1>14, <2>2, OtherStorage
    DEF CommitWrite, RollbackWrite, LoseOnWrite, Heartbeat, ClearHeartbeat, Pop
  <2> QED BY <2>1, <2>2
<1>15. ASSUME NEW p \in Owner, Release(p) PROVE StorageInv(o)'
  <2>1. CASE o = p
    <3>1. /\ queue[o] # <<>> /\ Head(queue[o]) = "release" /\ queue'[o] = Tail(queue[o])
          /\ phase'[o] = "gone" /\ UNCHANGED <<timer, nextOwner>>
      BY <1>2, <1>15, <2>1 DEF Release, Next1, Pop
    <3>2. phase[o] = "closing" /\ queue'[o] = <<>>
      BY <1>1, <3>1, QueueOperations
    <3> QED BY <1>1, <1>2, <3>1, <3>2 DEF StorageInv
  <2>2. CASE o # p
    BY <1>1, <1>2, <1>15, <2>2, OtherStorage DEF Release, Pop
  <2> QED BY <2>1, <2>2
<1>16. ASSUME NEW r \in Repo,
              \/ Create(r) \/ OpenActive(r) \/ OpenClaim(r)
              \/ \E t \in {"delete", "repair", "close"} : StartTask(r, t)
              \/ \E p \in Owner : StartRelease(r, p) \/ AwaitRelease(r, p)
              \/ FinishDelete(r) \/ FinishRepair(r) \/ FinishClose(r) \/ Crash(r)
       PROVE StorageInv(o)'
  BY <1>5, <1>6, <1>7, <1>8, <1>9, <1>10, <1>11, <1>12, <1>16, Zenon
<1> QED
  BY <1>4, <1>13, <1>14, <1>15, <1>16, Zenon DEF Next

--------------------------------------------------------------------------------
(* Theorems *)

(* The inductive invariant holds at the start.                              *)
LEMMA InvInit == Init => IInv
<1> SUFFICES ASSUME Init PROVE IInv
  OBVIOUS
<1>1. TypeOK
  BY TypeInit
<1>2. LeaseInv /\ LeaseNeedsSession
  BY DEF Init, LeaseInv, LeaseNeedsSession
<1>3. LogInv
  BY DEF Init, LogInv, LogIsDense, WritesNeverInterleave
<1>4. QueueInv
  BY DEF Init, QueueInv
<1> QED BY <1>1, <1>2, <1>3, <1>4 DEF IInv

(* The inductive invariant holds always.                                    *)
THEOREM Invariant == Spec => []IInv
<1>1. IInv /\ [Next]_vars => IInv'
  BY TypeNext, LeaseNext, LogNext, QueueNext, SessionNext DEF IInv
<1> QED BY InvInit, <1>1, PTL DEF Spec

(* Writers of one session never interleave, with any number of processes    *)
(* and of claims (enqueueWrite, acquireWriterLease, renewWriterLease).      *)
THEOREM WritersAreSerial == Spec => []WritesNeverInterleave
<1>1. IInv => WritesNeverInterleave
  BY DEF IInv, LogInv
<1> QED BY Invariant, <1>1, PTL

(* The log of a session is dense (allocateSessionSequence).                 *)
THEOREM SequenceIsDense == Spec => []LogIsDense
<1>1. IInv => LogIsDense
  BY DEF IInv, LogInv
<1> QED BY Invariant, <1>1, PTL

(* A storage's release is its last operation (release, finishRelease).      *)
THEOREM ReleaseSeals == Spec => []ReleaseIsLast
<1>1. IInv => ReleaseIsLast
  <2> SUFFICES ASSUME IInv, NEW o \in Owner
               PROVE  /\ \A i \in 1..(Len(queue[o]) - 1) : queue[o][i] # "release"
                      /\ phase[o] = "gone" => queue[o] = <<>> /\ timer[o] # "armed"
    BY DEF ReleaseIsLast
  <2>1. Len(queue[o]) \in Nat
    BY DEF IInv, TypeOK
  <2> QED BY <2>1 DEF IInv, QueueInv
<1> QED BY Invariant, <1>1, PTL

(* A lease row never outlives its session (delete).                         *)
THEOREM LeaseHasSession == Spec => []LeaseNeedsSession
<1>1. IInv => LeaseNeedsSession
  BY DEF IInv
<1> QED BY Invariant, <1>1, PTL

(* Only the most recent claimant appends to the log.                        *)
THEOREM LatestClaimantWrites == Spec => OnlyLastClaimantWrites
<1>1. IInv /\ [Next]_vars => [LatestAppends]_log
  <2> SUFFICES ASSUME IInv, [Next]_vars, log' # log, Len(log') > Len(log)
               PROVE  log'[Len(log')].by = nextOwner - 1
    BY DEF LatestAppends
  <2>1. log \in Seq([seq : Nat, by : Owner])
    BY DEF IInv, TypeOK
  <2>2. ASSUME NEW o \in Owner, CommitWrite(o) PROVE log'[Len(log')].by = nextOwner - 1
    BY <2>1, <2>2, RenewerIsLatest DEF IInv, CommitWrite
  <2>3. log' # <<>>
    BY <2>1
  <2> QED
    BY <2>2, <2>3, DbSteps
    DEF DbStep, dbState, dbVars, Create, OpenClaim, FinishDelete, FinishRepair, Heartbeat, Release
<1> QED BY Invariant, <1>1, PTL DEF Spec, OnlyLastClaimantWrites

(* Nobody but its owner, while closing, ends a lease that has not expired.  *)
THEOREM LiveLeaseStays == Spec => LiveLeaseIsStable
<1>1. IInv /\ [Next]_vars => [OwnerKeepsLiveLease]_lease
  <2> SUFFICES ASSUME IInv, [Next]_vars, lease' # lease, lease # NoLease, lease.expires > now
               PROVE  \/ lease'.owner = lease.owner
                      \/ lease' = NoLease /\ phase[lease.owner] = "closing"
    BY DEF OwnerKeepsLiveLease
  <2>1. ~Claimable /\ exists
    <3>1. lease.expires \in Int /\ now \in Int
      BY DEF IInv, TypeOK, LeaseType
    <3> QED BY <3>1 DEF Claimable, IInv, LeaseNeedsSession
  <2>2. ASSUME NEW o \in Owner, CommitWrite(o) \/ Heartbeat(o) PROVE lease'.owner = lease.owner
    <3>1. lease' = Renewed
      BY <2>2 DEF CommitWrite, Heartbeat
    <3> QED BY <3>1 DEF IInv, TypeOK, LeaseType, Renewed
  <2>3. ASSUME NEW o \in Owner, Release(o) PROVE lease' = NoLease /\ phase[lease.owner] = "closing"
    <3>1. lease' = NoLease /\ lease.owner = o
      BY <2>3 DEF Release, AfterRelease
    <3>2. StorageInv(o) /\ TypeOK
      BY QueueInvIsPointwise DEF IInv
    <3>3. queue[o] # <<>> /\ Head(queue[o]) = "release"
      BY <2>3 DEF Release, Next1
    <3> QED BY <3>1, <3>2, <3>3, QueueOperations
  <2>4. ASSUME NEW r \in Repo, Create(r) \/ OpenClaim(r) \/ FinishDelete(r) \/ FinishRepair(r)
        PROVE FALSE
    BY <2>1, <2>4 DEF Create, OpenClaim, FinishDelete, FinishRepair, dbVars
  <2> QED BY <2>2, <2>3, <2>4, DbSteps DEF DbStep, dbState
<1> QED BY Invariant, <1>1, PTL DEF Spec, LiveLeaseIsStable
================================================================================
