------------------------------ MODULE SessionState -----------------------------
(***************************************************************************)
(* The state of one harness session (packages/agent/src/harness/session/   *)
(* state.ts) and the operations a storage offers on it.                    *)
(*                                                                         *)
(* SessionState is the fold of the mutations applied to it and keeps all   *)
(* of them in its log, so the log stands for the state: the maps of the    *)
(* class (lanes, entriesById, openOperationsByLane, name, labels) are the  *)
(* operators below.                                                        *)
(***************************************************************************)
EXTENDS Integers, Sequences, SequencesExt

CONSTANTS
  EntryId,    \* ids of entries
  RecordId,   \* ids of lane records (ids share one namespace: usedIds)
  Lane,       \* lane names
  Main,       \* the lane every session starts with
  NoId,       \* null: the leaf of an empty lane, the parent of a root
  NoLane,     \* undefined: an entry copied by a fork belongs to no lane
  Text,       \* names and labels
  NoText      \* undefined: no name, no label

ASSUME LaneAssumption == Main \in Lane /\ NoLane \notin Lane
ASSUME IdAssumption == NoId \notin EntryId

(* A mutation; seq numbers the mutations of a session from 1.              *)
EntryMutation == [kind: {"entry"}, seq: Nat, lane: Lane \union {NoLane},
                  id: EntryId, parent: EntryId \union {NoId}, message: BOOLEAN]
StartMutation == [kind: {"start"}, seq: Nat, lane: Lane, id: RecordId]
FinishMutation == [kind: {"finish"}, seq: Nat, lane: Lane, id: RecordId, run: RecordId]
LaneMutation == [kind: {"lane"}, seq: Nat, lane: Lane, leaf: EntryId \union {NoId}]
NameMutation == [kind: {"name"}, seq: Nat, name: Text \union {NoText}]
LabelMutation == [kind: {"label"}, seq: Nat, target: EntryId, label: Text \union {NoText}]
Mutation ==
  EntryMutation \union StartMutation \union FinishMutation \union LaneMutation
    \union NameMutation \union LabelMutation

--------------------------------------------------------------------------------
(* The maps of the class, as functions of the log *)

nextSequence(log) == Len(log) + 1

IsRecord(m) == m.kind \in {"start", "finish"}

Entries(log) == {log[i].id : i \in {j \in 1..Len(log) : log[j].kind = "entry"}}
UsedIds(log) == Entries(log) \union {log[i].id : i \in {j \in 1..Len(log) : IsRecord(log[j])}}
Lanes(log) == {Main} \union {log[i].lane : i \in {j \in 1..Len(log) : log[j].kind = "lane"}}

(* The positions of the log that set the leaf of a lane.                   *)
SetsLeaf(log, lane) ==
  {i \in 1..Len(log) : log[i].kind \in {"entry", "lane"} /\ log[i].lane = lane}
Latest(positions) == CHOOSE i \in positions : \A j \in positions : j <= i

LeafSetBy(m) == IF m.kind = "entry" THEN m.id ELSE m.leaf
(* Mutant: a lane that nothing was appended to has no leaf at all.         *)
LeafUndefined(log, lane) ==
  IF SetsLeaf(log, lane) = {} THEN NoText ELSE LeafSetBy(log[Latest(SetsLeaf(log, lane))])

Leaf(log, lane) ==
  IF SetsLeaf(log, lane) = {} THEN NoId ELSE LeafSetBy(log[Latest(SetsLeaf(log, lane))])

(* Operations started on a lane and not finished there since.              *)
OpenOperations(log, lane) ==
  {log[i].id : i \in {j \in 1..Len(log) :
     /\ log[j].kind = "start" /\ log[j].lane = lane
     /\ ~ \E k \in j + 1..Len(log) :
            log[k].kind = "finish" /\ log[k].lane = lane /\ log[k].run = log[j].id}}

SetsName(log) == {i \in 1..Len(log) : log[i].kind = "name"}
Name(log) == IF SetsName(log) = {} THEN NoText ELSE log[Latest(SetsName(log))].name

SetsLabel(log, id) == {i \in 1..Len(log) : log[i].kind = "label" /\ log[i].target = id}
Label(log, id) ==
  IF SetsLabel(log, id) = {} THEN NoText ELSE log[Latest(SetsLabel(log, id))].label

--------------------------------------------------------------------------------
(* applyMutation: the checks made before a mutation, replayed or new, is   *)
(* taken into the state.                                                   *)
Applies(log, m) ==
  /\ m.seq = nextSequence(log)
  /\ CASE m.kind = "entry" ->
            /\ m.id \notin UsedIds(log)
            /\ m.lane # NoLane => m.lane \in Lanes(log) /\ m.parent = Leaf(log, m.lane)
            /\ m.parent # NoId => m.parent \in Entries(log)
       [] IsRecord(m) -> m.lane \in Lanes(log) /\ m.id \notin UsedIds(log)
       [] m.kind = "lane" -> m.leaf # NoId => m.leaf \in Entries(log)
       [] m.kind = "name" -> TRUE
       [] m.kind = "label" -> m.target \in Entries(log)

(* A log that replays from the empty state without an error.               *)
Replays(log) == \A i \in 1..Len(log) : Applies(SubSeq(log, 1, i - 1), log[i])

--------------------------------------------------------------------------------
(* The operations of a storage *)

Operation ==
  [op: {"createLane", "moveLane"}, lane: Lane, leaf: EntryId \union {NoId}]
    \union [op: {"appendEntry"}, lane: Lane, id: EntryId, message: BOOLEAN]
    \union [op: {"start"}, lane: Lane, id: RecordId]
    \union [op: {"finish"}, lane: Lane, id: RecordId, run: RecordId]
    \union [op: {"setName"}, name: Text \union {NoText}]
    \union [op: {"setLabel"}, target: EntryId, label: Text \union {NoText}]

(* The checks an operation makes when its turn in the queue comes.         *)
Validates(log, o) ==
  CASE o.op = "createLane" -> o.lane \notin Lanes(log) /\ (o.leaf # NoId => o.leaf \in Entries(log))
    [] o.op = "moveLane" -> o.lane \in Lanes(log) /\ (o.leaf # NoId => o.leaf \in Entries(log))
    [] o.op = "appendEntry" -> o.lane \in Lanes(log) /\ o.id \notin UsedIds(log)
    [] o.op = "start" ->
         /\ o.lane \in Lanes(log) /\ o.id \notin UsedIds(log)
         /\ OpenOperations(log, o.lane) = {}
    [] o.op = "finish" -> o.lane \in Lanes(log) /\ o.id \notin UsedIds(log)
    [] o.op = "setName" -> TRUE
    [] o.op = "setLabel" -> o.target \in Entries(log)

(* The mutation it then builds from the state.                             *)
MutationOf(log, o) ==
  CASE o.op \in {"createLane", "moveLane"} ->
         [kind |-> "lane", seq |-> nextSequence(log), lane |-> o.lane, leaf |-> o.leaf]
    [] o.op = "appendEntry" ->
         [kind |-> "entry", seq |-> nextSequence(log), lane |-> o.lane, id |-> o.id,
          parent |-> Leaf(log, o.lane), message |-> o.message]
    [] o.op = "start" ->
         [kind |-> "start", seq |-> nextSequence(log), lane |-> o.lane, id |-> o.id]
    [] o.op = "finish" ->
         [kind |-> "finish", seq |-> nextSequence(log), lane |-> o.lane, id |-> o.id, run |-> o.run]
    [] o.op = "setName" -> [kind |-> "name", seq |-> nextSequence(log), name |-> o.name]
    [] o.op = "setLabel" ->
         [kind |-> "label", seq |-> nextSequence(log), target |-> o.target, label |-> o.label]

--------------------------------------------------------------------------------
(* Forks: createForkMutations *)

(* scope, the entry asked for (NoId: the leaf of Main), and the position.  *)
ForkOptions ==
  [scope: {"tree"}]
    \union [scope: {"branch"}, entry: EntryId \union {NoId}, position: {"before", "at", "default"}]

EntryAt(log, id) == CHOOSE i \in 1..Len(log) : log[i].kind = "entry" /\ log[i].id = id

(* walkToRoot: an entry and the entries above it, the smallest set that    *)
(* has the entry and, with an entry, its parent.                           *)
HasParents(log, ids) == \A id \in ids : log[EntryAt(log, id)].parent \in ids \union {NoId}

BranchOf(log, id) ==
  IF id = NoId
  THEN {}
  ELSE {e \in Entries(log) :
          \A ids \in SUBSET Entries(log) : id \in ids /\ HasParents(log, ids) => e \in ids}

Selected(log, options) == IF options.entry = NoId THEN Leaf(log, Main) ELSE options.entry

(* Only a message can be forked at or before.                              *)
ForkTargetOK(log, options) ==
  (options.scope = "branch" /\ Selected(log, options) # NoId) =>
    /\ Selected(log, options) \in Entries(log)
    /\ log[EntryAt(log, Selected(log, options))].message

ForkTarget(log, options) ==
  LET selected == Selected(log, options)
      at == \/ options.position = "at"
            \/ options.position = "default" /\ options.entry = NoId
  IN IF selected = NoId \/ at THEN selected ELSE log[EntryAt(log, selected)].parent

CopiedIds(log, options) ==
  IF options.scope = "tree" THEN Entries(log) ELSE BranchOf(log, ForkTarget(log, options))

(* Positions of a log in their order.                                      *)
InOrder(positions) ==
  CHOOSE at \in [1..Cardinality(positions) -> positions] :
    \A i, j \in 1..Cardinality(positions) : i < j => at[i] < at[j]

CopiedEntries(log, options) ==
  LET copied == {i \in 1..Len(log) : log[i].kind = "entry" /\ log[i].id \in CopiedIds(log, options)}
  IN [k \in 1..Cardinality(copied) |-> [log[InOrder(copied)[k]] EXCEPT !.lane = NoLane]]

ForkLanes(log, options) ==
  IF options.scope = "tree"
  THEN LET lanes == SetToSeq(Lanes(log))
       IN [i \in 1..Len(lanes) |->
             [kind |-> "lane", seq |-> 0, lane |-> lanes[i], leaf |-> Leaf(log, lanes[i])]]
  ELSE << [kind |-> "lane", seq |-> 0, lane |-> Main, leaf |-> ForkTarget(log, options)] >>

(* The labels of these entries, as mutations.                              *)
LabelsOf(log, entries) ==
  LET labelled == {i \in 1..Len(entries) : Label(log, entries[i].id) # NoText}
      target(k) == entries[InOrder(labelled)[k]].id
  IN [k \in 1..Cardinality(labelled) |->
        [kind |-> "label", seq |-> 0, target |-> target(k), label |-> Label(log, target(k))]]

NameFact(log) ==
  IF Name(log) = NoText THEN <<>> ELSE << [kind |-> "name", seq |-> 0, name |-> Name(log)] >>

(* Mutant: the labels are those of the whole session.                      *)
ForkFactsOfAll(log, options) ==
  NameFact(log) \o LabelsOf(log, CopiedEntries(log, [scope |-> "tree"]))

ForkFacts(log, options) == NameFact(log) \o LabelsOf(log, CopiedEntries(log, options))

createForkMutations(log, options) ==
  LET mutations ==
        CopiedEntries(log, options) \o ForkLanes(log, options) \o ForkFacts(log, options)
  IN [i \in 1..Len(mutations) |-> [mutations[i] EXCEPT !.seq = i]]
================================================================================
