------------------------------- MODULE DurableLog ------------------------------
(***************************************************************************)
(* What a session storage promises its callers: a log on stable storage    *)
(* that only grows.  A mutation is committed before its call returns; a    *)
(* call that is rejected has committed nothing; a crash loses no committed *)
(* mutation, and leaves the one in doubt either wholly in the log or not   *)
(* at all.                                                                 *)
(***************************************************************************)
EXTENDS Sequences

CONSTANTS Mutation, NoMutation

VARIABLES
  log,       \* committed mutations
  seen,      \* mutations whose call has returned, or that a reader has loaded
  pending,   \* mutation of the call in progress, or NoMutation
  alive      \* the storage is open

vars == <<log, seen, pending, alive>>

Init == log = <<>> /\ seen = <<>> /\ pending = NoMutation /\ alive = FALSE

Open ==
  /\ ~alive /\ alive' = TRUE
  /\ seen' = log
  /\ UNCHANGED <<log, pending>>

Begin ==
  /\ alive /\ pending = NoMutation /\ seen = log
  /\ pending' \in Mutation
  /\ UNCHANGED <<log, seen, alive>>

Commit ==
  /\ pending # NoMutation /\ log = seen
  /\ log' = Append(log, pending)
  /\ UNCHANGED <<seen, pending, alive>>

Return ==
  /\ pending # NoMutation /\ log = Append(seen, pending)
  /\ seen' = log
  /\ pending' = NoMutation
  /\ UNCHANGED <<log, alive>>

Reject ==
  /\ pending # NoMutation /\ log = seen
  /\ pending' = NoMutation
  /\ UNCHANGED <<log, seen, alive>>

Crash ==
  /\ alive /\ alive' = FALSE
  /\ pending' = NoMutation
  /\ UNCHANGED <<log, seen>>

Next == Open \/ Begin \/ Commit \/ Return \/ Reject \/ Crash

Spec == Init /\ [][Next]_vars
================================================================================
