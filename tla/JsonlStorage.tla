------------------------------ MODULE JsonlStorage -----------------------------
(***************************************************************************)
(* One harness session kept in a JSONL file (packages/agent/src/harness/   *)
(* session/jsonl): a header line and one line per mutation.  An append may *)
(* be interrupted at any byte by a crash; load() repairs what it finds.    *)
(*                                                                         *)
(* The bytes of a line matter in three ways only: it parses as a mutation, *)
(* it does not parse, and it does or does not end with a newline.  A line  *)
(* that does not parse is the beginning of one mutation's JSON text        *)
(* (Partial), or can never become one again (Garbage): text written behind *)
(* other text on the same line, the rest of a split line, an empty line.   *)
(***************************************************************************)
EXTENDS SessionState

CONSTANTS
  MaxLog,        \* longest log (bound)
  SharedFile,    \* fork() may load the file while a storage is open on it
  TornFailures   \* an append may be rejected after part of it was written

ASSUME MaxLogAssumption == MaxLog \in Nat
ASSUME FaultAssumption == SharedFile \in BOOLEAN /\ TornFailures \in BOOLEAN

Partial == [kind |-> "partial"]
Garbage == [kind |-> "garbage"]
Torn == {Partial, Garbage}
NoMutation == [kind |-> "none"]
Line == Mutation \union Torn

VARIABLES
  file,      \* the file: header ("none" | "torn" | "ok"), lines, newline at its end
  up,        \* the storage: "down" | "creating" | "open"
  state,     \* log of its SessionState; kept after a crash as what callers know
  writing,   \* mutation being appended, or NoMutation
  written,   \* bytes of it written: "none" | "part" | "json" | "line"
  orphan,    \* that append writes to a file that a rename has replaced
  loader     \* the load() or fork() in progress

vars == <<file, up, state, writing, written, orphan, loader>>
appendVars == <<writing, written, orphan>>

Idle == [pc |-> "idle"]

Init ==
  /\ file = [header |-> "none", lines |-> <<>>, ended |-> FALSE]
  /\ up = "down"
  /\ state = <<>>
  /\ writing = NoMutation /\ written = "none" /\ orphan = FALSE
  /\ loader = Idle

--------------------------------------------------------------------------------
(* create(): write the header line.  The repository has checked that no    *)
(* file of this id exists.                                                 *)
Create ==
  /\ up = "down" /\ loader = Idle /\ file.header = "none"
  /\ up' = "creating"
  /\ UNCHANGED <<file, state, appendVars, loader>>

WriteHeader ==
  /\ up = "creating"
  /\ \/ /\ file.header = "none"
        /\ file' = [file EXCEPT !.header = "torn"]
        /\ UNCHANGED up
     \/ /\ file.header = "torn"
        /\ file' = [file EXCEPT !.header = "ok", !.ended = TRUE]
        /\ up' = "open"
  /\ UNCHANGED <<state, appendVars, loader>>

--------------------------------------------------------------------------------
(* An operation.  enqueue() runs them one at a time; one that validates    *)
(* builds its mutation from the current state and starts to append it, one *)
(* that does not is rejected and changes nothing.                          *)
Begin(o) ==
  /\ up = "open" /\ writing = NoMutation
  /\ Len(state) < MaxLog
  /\ Validates(state, o)
  /\ writing' = MutationOf(state, o)
  /\ written' = "none" /\ orphan' = FALSE
  /\ UNCHANGED <<file, up, state, loader>>

SetLast(s, line) == [s EXCEPT ![Len(s)] = line]

(* The file when the bytes of m up to a point have been appended to it.    *)
Appended(f, m, upTo) ==
  IF f.ended
  THEN [f EXCEPT !.lines = Append(@, IF upTo = "part" THEN Partial ELSE Garbage),
                 !.ended = (upTo = "line")]
  ELSE [f EXCEPT !.lines = CASE upTo = "part" -> SetLast(@, Garbage)
                             [] upTo = "json" /\ Last(@) = Partial -> SetLast(@, m)
                             [] OTHER -> @,
                 !.ended = (upTo = "line")]

Following == [none |-> "part", part |-> "json", json |-> "line"]

(* appendFile() writes the JSON text and the newline, in as many pieces as *)
(* it takes.  Its descriptor is opened with the first of them.             *)
WriteMore ==
  /\ writing # NoMutation /\ written # "line"
  /\ written' = Following[written]
  /\ file' = IF orphan THEN file ELSE Appended(file, writing, Following[written])
  /\ UNCHANGED <<up, state, writing, orphan, loader>>

(* The append is complete: apply the mutation and return to the caller.    *)
Acknowledge ==
  /\ writing # NoMutation /\ written = "line"
  /\ state' = Append(state, writing)
  /\ writing' = NoMutation /\ written' = "none" /\ orphan' = FALSE
  /\ UNCHANGED <<file, up, loader>>

(* Mutant: the operation fails when its mutation is already in the file.   *)
RejectAppendLate ==
  /\ writing # NoMutation /\ written \in {"none", "line"}
  /\ writing' = NoMutation /\ written' = "none" /\ orphan' = FALSE
  /\ UNCHANGED <<file, up, state, loader>>

(* appendFile() failed: the operation is rejected, the queue goes on.      *)
RejectAppend ==
  /\ writing # NoMutation
  /\ written = "none" \/ (TornFailures /\ written # "line")
  /\ writing' = NoMutation /\ written' = "none" /\ orphan' = FALSE
  /\ UNCHANGED <<file, up, state, loader>>

--------------------------------------------------------------------------------
(* load() *)

TornTail(f) == f.lines # <<>> /\ Last(f.lines) \in Torn

(* Mutant: a last line that parses is left as it is.                       *)
UnendedNever(f) == FALSE

Unended(f) == ~f.ended /\ ~TornTail(f)

(* The mutations load() takes from a file: all but a torn last line.       *)
Intact(f) == IF TornTail(f) THEN Front(f.lines) ELSE f.lines

Loadable(f) ==
  /\ f.header = "ok"
  /\ \A i \in 1..Len(Intact(f)) : Intact(f)[i] \notin Torn
  /\ Replays(Intact(f))

(* load() returns a storage with this log, to open() or to fork().         *)
Loaded(goal, log) ==
  \/ /\ goal = "open"
     /\ up' = "open" /\ state' = log /\ loader' = Idle
  \/ /\ goal = "fork"
     /\ loader' = [pc |-> "fork", log |-> log]
     /\ UNCHANGED <<up, state>>

(* Read the file and replay it.  A file that is not Loadable is rejected.  *)
Load(goal) ==
  /\ loader = Idle
  /\ up = "down" \/ (SharedFile /\ up = "open" /\ goal = "fork")
  /\ Loadable(file)
  /\ \/ /\ TornTail(file)
        /\ loader' = [pc |-> "stage", goal |-> goal, log |-> Intact(file)]
        /\ UNCHANGED <<up, state>>
     \/ /\ Unended(file)
        /\ loader' = [pc |-> "newline", goal |-> goal, log |-> Intact(file)]
        /\ UNCHANGED <<up, state>>
     \/ /\ ~TornTail(file) /\ ~Unended(file)
        /\ Loaded(goal, Intact(file))
  /\ UNCHANGED <<file, appendVars>>

(* publishFileAtomically: write the valid prefix to a sibling file ...     *)
StageRepair ==
  /\ loader.pc = "stage"
  /\ loader' = [loader EXCEPT !.pc = "publish"]
  /\ UNCHANGED <<file, up, state, appendVars>>

(* ... and rename it over the session's file.                              *)
PublishRepair ==
  /\ loader.pc = "publish"
  /\ file' = [header |-> "ok", lines |-> loader.log, ended |-> TRUE]
  /\ orphan' = (orphan \/ written # "none")
  /\ Loaded(loader.goal, loader.log)
  /\ UNCHANGED <<writing, written>>

(* Terminate a last line that parses.                                      *)
RepairNewline ==
  /\ loader.pc = "newline"
  /\ file' = Appended(file, NoMutation, "line")
  /\ Loaded(loader.goal, loader.log)
  /\ UNCHANGED appendVars

(* A step of load() or fork() failed: the call is rejected, a staged file  *)
(* is removed.                                                             *)
RejectLoad ==
  /\ loader.pc \in {"stage", "publish", "newline", "fork"}
  /\ loader' = Idle
  /\ UNCHANGED <<file, up, state, appendVars>>

--------------------------------------------------------------------------------
(* fork(): stage the copied mutations in a sibling of the destination and  *)
(* rename it; nothing of it is visible before.                             *)
PublishFork(options) ==
  /\ loader.pc = "fork"
  /\ ForkTargetOK(loader.log, options)
  /\ loader' = [pc |-> "published", of |-> loader.log, options |-> options,
                log |-> createForkMutations(loader.log, options)]
  /\ UNCHANGED <<file, up, state, appendVars>>

(* fork() loads the new file and returns; its session has a life of its    *)
(* own from here on.                                                       *)
ReturnFork ==
  /\ loader.pc = "published"
  /\ loader' = Idle
  /\ UNCHANGED <<file, up, state, appendVars>>

--------------------------------------------------------------------------------
(* The process dies, at any moment.                                        *)
Crash ==
  /\ up # "down" \/ loader # Idle
  /\ up' = "down"
  /\ writing' = NoMutation /\ written' = "none" /\ orphan' = FALSE
  /\ loader' = Idle
  /\ UNCHANGED <<file, state>>

Next ==
  \/ Create \/ WriteHeader
  \/ \E o \in Operation : Begin(o)
  \/ WriteMore \/ Acknowledge \/ RejectAppend
  \/ \E goal \in {"open", "fork"} : Load(goal)
  \/ StageRepair \/ PublishRepair \/ RepairNewline \/ RejectLoad
  \/ \E options \in ForkOptions : PublishFork(options)
  \/ ReturnFork
  \/ Crash

Spec == Init /\ [][Next]_vars

--------------------------------------------------------------------------------
(* Properties *)

TypeOK ==
  /\ file \in [header: {"none", "torn", "ok"}, lines: Seq(Line), ended: BOOLEAN]
  /\ up \in {"down", "creating", "open"}
  /\ state \in Seq(Mutation)
  /\ writing \in Mutation \union {NoMutation}
  /\ written \in {"none", "part", "json", "line"}
  /\ orphan \in BOOLEAN
  /\ loader.pc \in {"idle", "stage", "publish", "newline", "fork", "published"}

(* No acknowledged mutation is lost: whenever the process dies, the file   *)
(* it leaves loads without an error (no torn line inside, no gap in the    *)
(* sequence numbers, no entry off its lane) and begins with everything a   *)
(* caller was told.  What load() drops as a torn tail is never             *)
(* acknowledged (storage.ts load, appendMutation).                         *)
AckedAreDurable ==
  file.header = "ok" => Loadable(file) /\ IsPrefix(state, Intact(file))

(* A fork taken from the loaded log replays, keeps every copied entry in   *)
(* its place, and shows what the source showed: all lanes with their       *)
(* leaves for a tree, exactly the branch of its one lane otherwise; the    *)
(* name, the labels of the copied entries, and no operation (state.ts      *)
(* createForkMutations).                                                   *)
ForkIsFaithful ==
  loader.pc = "published" =>
    LET src == loader.of
        fork == loader.log
    IN /\ Replays(fork)
       /\ \A id \in Entries(fork) :
            /\ id \in Entries(src)
            /\ fork[EntryAt(fork, id)].parent = src[EntryAt(src, id)].parent
            /\ fork[EntryAt(fork, id)].message = src[EntryAt(src, id)].message
            /\ Label(fork, id) = Label(src, id)
       /\ Name(fork) = Name(src)
       /\ \A lane \in Lane : OpenOperations(fork, lane) = {}
       /\ IF loader.options.scope = "tree"
          THEN /\ Entries(fork) = Entries(src) /\ Lanes(fork) = Lanes(src)
               /\ \A lane \in Lanes(src) : Leaf(fork, lane) = Leaf(src, lane)
          ELSE /\ Lanes(fork) = {Main}
               /\ Entries(fork) = BranchOf(fork, Leaf(fork, Main))

(* The storage implements the durable log its callers rely on.             *)
Durable == INSTANCE DurableLog WITH
  log <- Intact(file), seen <- state, pending <- writing, alive <- (up = "open")

(* Every step of the storage is a step of the durable log or invisible to  *)
(* it: the completed JSON text commits, only a committed mutation is       *)
(* acknowledged, a rejected append has committed nothing, repair and fork  *)
(* change nothing (storage.ts).                                            *)
ImplementsDurableLog == Durable!Spec

================================================================================
