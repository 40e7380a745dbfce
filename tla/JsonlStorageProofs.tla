--------------------------- MODULE JsonlStorageProofs --------------------------
(***************************************************************************)
(* Proofs about a storage on its file, for every set of ids, lanes and     *)
(* texts and every length of log.                                          *)
(*                                                                         *)
(* With one user of the file whose failed appends write nothing            *)
(* (SharedFile and TornFailures are FALSE), the file is always the log its *)
(* callers know, with at most the append in doubt behind it (FileInv).     *)
(* That log replays because an operation that validates builds a mutation  *)
(* that applies, and the append in doubt therefore loads too, or is torn   *)
(* and dropped.  A crash changes none of this, and a repair leaves one of  *)
(* the same three kinds of file.                                           *)
(*                                                                         *)
(* Whoever shares the file and however an append fails, what a storage     *)
(* replays is a log that loads (LogInv), and so a fork is faithful to what *)
(* it was taken from (ForksAreFaithful).                                   *)
(***************************************************************************)
EXTENDS JsonlStorage, SequenceTheorems, FiniteSetTheorems, WellFoundedInduction, TLAPS

(* What appending a line to a file does to its first and last lines.       *)
LEMMA AppendFacts ==
  ASSUME NEW S, NEW s \in Seq(S), NEW x \in S, NEW y \in S
  PROVE  /\ Append(s, x) \in Seq(S)
         /\ Append(s, x) # <<>>
         /\ Last(Append(s, x)) = x
         /\ Front(Append(s, x)) = s
         /\ SetLast(Append(s, x), y) = Append(s, y)
<1> DEFINE a == Append(s, x)
<1>1. a \in Seq(S) /\ Len(a) = Len(s) + 1 /\ Len(s) \in Nat /\ a # <<>>
      /\ a[Len(s) + 1] = x /\ \A i \in 1..Len(s) : a[i] = s[i]
  BY AppendProperties, LenProperties
<1>2. Last(a) = x
  BY <1>1 DEF Last
<1>3. Front(a) = s
  <2>1. Front(a) = SubSeq(a, 1, Len(s))
    BY <1>1 DEF Front
  <2>2. SubSeq(a, 1, Len(s)) \in Seq(S) /\ Len(SubSeq(a, 1, Len(s))) = Len(s)
        /\ \A i \in 1..Len(s) : SubSeq(a, 1, Len(s))[i] = a[i]
    BY <1>1
  <2> QED BY <1>1, <2>1, <2>2, SeqEqual
<1>4. SetLast(a, y) = Append(s, y)
  <2> DEFINE b == [a EXCEPT ![Len(a)] = y]
             c == Append(s, y)
  <2>1. b \in Seq(S) /\ Len(b) = Len(a) /\ b[Len(a)] = y /\ \A i \in 1..Len(s) : b[i] = a[i]
    <3> HIDE DEF a
    <3>1. b \in Seq(S) /\ Len(b) = Len(a) /\ \A i \in 1..Len(a) : b[i] = IF i = Len(a) THEN y ELSE a[i]
      BY <1>1, ExceptSeq
    <3> QED BY <1>1, <3>1
  <2>2. c \in Seq(S) /\ Len(c) = Len(a) /\ c[Len(a)] = y /\ \A i \in 1..Len(s) : c[i] = s[i]
    BY <1>1, AppendProperties
  <2>3. \A i \in 1..Len(b) : b[i] = c[i]
    BY <1>1, <2>1, <2>2
  <2> QED BY <2>1, <2>2, <2>3, SeqEqual DEF SetLast
<1> QED BY <1>1, <1>2, <1>3, <1>4

(* A log that replays still does with one more mutation that applies.      *)
LEMMA ReplaysAppend ==
  ASSUME NEW s \in Seq(Mutation), NEW m \in Mutation, Replays(s), Applies(s, m)
  PROVE  Replays(Append(s, m))
<1> DEFINE a == Append(s, m)
<1>1. a \in Seq(Mutation) /\ Len(a) = Len(s) + 1 /\ Len(s) \in Nat
      /\ a[Len(s) + 1] = m /\ \A i \in 1..Len(s) : a[i] = s[i]
  BY AppendProperties, LenProperties
<1>2. ASSUME NEW i \in 1..Len(a)
      PROVE  Applies(SubSeq(a, 1, i - 1), a[i])
  <2>1. SubSeq(a, 1, i - 1) = SubSeq(s, 1, i - 1)
    <3> DEFINE u == SubSeq(a, 1, i - 1)
               v == SubSeq(s, 1, i - 1)
    <3>1. i - 1 \in 0..Len(s) /\ i - 1 \in 0..Len(a)
      BY <1>1
    <3>2. u \in Seq(Mutation) /\ Len(u) = i - 1 /\ \A k \in 1..(i - 1) : u[k] = a[k]
      BY <1>1, <3>1
    <3>3. v \in Seq(Mutation) /\ Len(v) = i - 1 /\ \A k \in 1..(i - 1) : v[k] = s[k]
      BY <1>1, <3>1
    <3>4. \A k \in 1..(i - 1) : a[k] = s[k]
      BY <1>1, <3>1
    <3> QED BY <3>2, <3>3, <3>4, SeqEqual
  <2>2. CASE i \in 1..Len(s)
    BY <1>1, <2>1, <2>2 DEF Replays
  <2>3. CASE i = Len(s) + 1
    <3>1. SubSeq(s, 1, i - 1) = s
      BY <1>1, <2>3, SubSeqFull
    <3> QED BY <1>1, <2>1, <2>3, <3>1
  <2> QED BY <1>1, <2>2, <2>3
<1> QED BY <1>2 DEF Replays

(* There is a latest one among the positions of a log.                     *)
LEMMA LatestExists ==
  ASSUME NEW n \in Nat, NEW positions, positions \subseteq 1..n, positions # {}
  PROVE  Latest(positions) \in positions
<1> DEFINE behind == {n - i : i \in positions}
           R == OpToRel(<, Nat)
<1>1. behind \subseteq Nat /\ behind # {}
  <2>1. \A i \in positions : n - i \in Nat
    OBVIOUS
  <2>2. PICK i \in positions : TRUE
    OBVIOUS
  <2>3. n - i \in behind
    BY <2>2
  <2> QED BY <2>1, <2>3
<1>2. \E x \in behind : \A y \in behind : ~(<<y, x>> \in R)
  <2> HIDE DEF R, behind
  <2>1. IsWellFoundedOn(R, Nat)
    BY NatLessThanWellFounded DEF R
  <2> QED BY <1>1, <2>1, WFMin
<1>3. PICK x \in behind : \A y \in behind : ~(<<y, x>> \in R)
  BY <1>2
<1>4. \A y \in behind : ~(y < x)
  BY <1>1, <1>3 DEF OpToRel
<1>5. PICK i \in positions : x = n - i
  BY <1>3
<1>6. \A j \in positions : j <= i
  BY <1>4, <1>5, SMTT(20)
<1> QED BY <1>6 DEF Latest

(* Entries and record ids only accumulate.                                 *)
LEMMA EntriesGrow ==
  ASSUME NEW log \in Seq(Mutation), NEW i \in 1..Len(log)
  PROVE  Entries(SubSeq(log, 1, i - 1)) \subseteq Entries(log)
<1> DEFINE u == SubSeq(log, 1, i - 1)
<1>1. Len(log) \in Nat /\ i - 1 \in 0..Len(log)
  BY LenProperties
<1>2. Len(u) = i - 1 /\ \A k \in 1..(i - 1) : u[k] = log[k]
  BY <1>1
<1> HIDE DEF u
<1>3. \A k \in 1..Len(u) : k \in 1..Len(log) /\ u[k] = log[k]
  BY <1>1, <1>2
<1> QED BY <1>3 DEF Entries, u

(* The leaf of a lane is null or one of the entries.                       *)
LEMMA LeafIsEntry ==
  ASSUME NEW log \in Seq(Mutation), Replays(log), NEW lane \in Lane
  PROVE  /\ Leaf(log, lane) \in EntryId \union {NoId}
         /\ Leaf(log, lane) # NoId => Leaf(log, lane) \in Entries(log)
<1>1. CASE SetsLeaf(log, lane) = {}
  BY <1>1 DEF Leaf
<1>2. CASE SetsLeaf(log, lane) # {}
  <2> DEFINE i == Latest(SetsLeaf(log, lane))
  <2>1. i \in SetsLeaf(log, lane)
    <3>1. SetsLeaf(log, lane) \subseteq 1..Len(log) /\ Len(log) \in Nat
      BY LenProperties DEF SetsLeaf
    <3> QED BY <1>2, <3>1, LatestExists
  <2> HIDE DEF i
  <2>2. i \in 1..Len(log) /\ log[i].kind \in {"entry", "lane"}
    BY <2>1 DEF SetsLeaf
  <2>3. log[i] \in Mutation
    BY <2>2, ElementOfSeq
  <2>4. Leaf(log, lane) = LeafSetBy(log[i])
    BY <1>2 DEF Leaf, i
  <2>5. CASE log[i].kind = "entry"
    <3>1. log[i].id \in EntryId
      BY <2>3, <2>5 DEF Mutation, EntryMutation, StartMutation, FinishMutation, LaneMutation,
                        NameMutation, LabelMutation
    <3>2. log[i].id \in Entries(log)
      BY <2>2, <2>5 DEF Entries
    <3> QED BY <2>4, <2>5, <3>1, <3>2 DEF LeafSetBy
  <2>6. CASE log[i].kind = "lane"
    <3>1. log[i].leaf \in EntryId \union {NoId}
      BY <2>3, <2>6 DEF Mutation, EntryMutation, StartMutation, FinishMutation, LaneMutation,
                        NameMutation, LabelMutation
    <3>2. Applies(SubSeq(log, 1, i - 1), log[i])
      BY <2>2 DEF Replays
    <3>3. log[i].leaf # NoId => log[i].leaf \in Entries(SubSeq(log, 1, i - 1))
      BY <2>6, <3>2 DEF Applies, IsRecord
    <3>4. log[i].leaf # NoId => log[i].leaf \in Entries(log)
      BY <2>2, <3>3, EntriesGrow
    <3> QED BY <2>4, <2>6, <3>1, <3>4 DEF LeafSetBy
  <2> QED BY <2>2, <2>5, <2>6
<1> QED BY <1>1, <1>2

(* An operation that validates builds a mutation that applies.             *)
LEMMA OperationApplies ==
  ASSUME NEW log \in Seq(Mutation), Replays(log), NEW o \in Operation, Validates(log, o)
  PROVE  MutationOf(log, o) \in Mutation /\ Applies(log, MutationOf(log, o))
<1> DEFINE m == MutationOf(log, o)
<1> USE DEF Operation, nextSequence
<1>0. nextSequence(log) \in Nat
  BY LenProperties
<1>1. CASE o.op \in {"createLane", "moveLane"}
  <2>1. o.lane \in Lane /\ o.leaf \in EntryId \union {NoId}
    BY <1>1
  <2>2. m = [kind |-> "lane", seq |-> nextSequence(log), lane |-> o.lane, leaf |-> o.leaf]
    BY <1>1 DEF MutationOf
  <2>3. m \in LaneMutation
    BY <1>0, <2>1, <2>2 DEF LaneMutation
  <2>4. o.leaf # NoId => o.leaf \in Entries(log)
    BY <1>1 DEF Validates
  <2> QED BY <2>2, <2>3, <2>4 DEF Applies, Mutation, IsRecord
<1>2. CASE o.op = "appendEntry"
  <2>1. o.lane \in Lane /\ o.id \in EntryId /\ o.message \in BOOLEAN
    BY <1>2
  <2>2. m = [kind |-> "entry", seq |-> nextSequence(log), lane |-> o.lane, id |-> o.id,
             parent |-> Leaf(log, o.lane), message |-> o.message]
    BY <1>2 DEF MutationOf
  <2>3. o.lane \in Lanes(log) /\ o.id \notin UsedIds(log)
    BY <1>2 DEF Validates
  <2>4. m \in EntryMutation
    BY <1>0, <2>1, <2>2, LeafIsEntry DEF EntryMutation
  <2>5. Leaf(log, o.lane) # NoId => Leaf(log, o.lane) \in Entries(log)
    BY <2>1, LeafIsEntry
  <2>6. /\ m.kind = "entry" /\ m.seq = nextSequence(log) /\ m.id = o.id
        /\ m.lane = o.lane /\ m.parent = Leaf(log, o.lane)
    BY <2>2
  <2>7. Applies(log, m)
    <3> HIDE DEF m, Operation
    <3> QED BY <2>3, <2>5, <2>6 DEF Applies
  <2> QED BY <2>4, <2>7 DEF Mutation
<1>3. CASE o.op = "start"
  <2>1. o.lane \in Lane /\ o.id \in RecordId
    BY <1>3
  <2>2. m = [kind |-> "start", seq |-> nextSequence(log), lane |-> o.lane, id |-> o.id]
    BY <1>3 DEF MutationOf
  <2>3. o.lane \in Lanes(log) /\ o.id \notin UsedIds(log)
    BY <1>3 DEF Validates
  <2>4. m \in StartMutation
    BY <1>0, <2>1, <2>2 DEF StartMutation
  <2> QED BY <2>2, <2>3, <2>4 DEF Applies, Mutation, IsRecord
<1>4. CASE o.op = "finish"
  <2>1. o.lane \in Lane /\ o.id \in RecordId /\ o.run \in RecordId
    BY <1>4
  <2>2. m = [kind |-> "finish", seq |-> nextSequence(log), lane |-> o.lane, id |-> o.id, run |-> o.run]
    BY <1>4 DEF MutationOf
  <2>3. o.lane \in Lanes(log) /\ o.id \notin UsedIds(log)
    BY <1>4 DEF Validates
  <2>4. m \in FinishMutation
    BY <1>0, <2>1, <2>2 DEF FinishMutation
  <2> QED BY <2>2, <2>3, <2>4 DEF Applies, Mutation, IsRecord
<1>5. CASE o.op = "setName"
  <2>1. m = [kind |-> "name", seq |-> nextSequence(log), name |-> o.name] /\ o.name \in Text \union {NoText}
    BY <1>5 DEF MutationOf
  <2>2. m \in NameMutation
    BY <1>0, <2>1 DEF NameMutation
  <2> QED BY <2>1, <2>2 DEF Applies, Mutation, IsRecord
<1>6. CASE o.op = "setLabel"
  <2>1. m = [kind |-> "label", seq |-> nextSequence(log), target |-> o.target, label |-> o.label]
        /\ o.target \in EntryId /\ o.label \in Text \union {NoText}
    BY <1>6 DEF MutationOf
  <2>2. m \in LabelMutation
    BY <1>0, <2>1 DEF LabelMutation
  <2>3. o.target \in Entries(log)
    BY <1>6 DEF Validates
  <2> QED BY <2>1, <2>2, <2>3 DEF Applies, Mutation, IsRecord
<1> QED BY <1>1, <1>2, <1>3, <1>4, <1>5, <1>6

--------------------------------------------------------------------------------
(* The inductive invariant *)

(* One append at a time, only by an open storage, of a mutation that        *)
(* applies; nothing else has the file meanwhile.                            *)
ControlInv ==
  /\ orphan = FALSE
  /\ writing = NoMutation => written = "none"
  /\ writing # NoMutation => up = "open" /\ Applies(state, writing)
  /\ up = "open" => file.header = "ok" /\ loader = Idle
  /\ up = "creating" => file.header # "ok" /\ loader = Idle

(* A repair works on what the file still holds.                             *)
LoaderInv ==
  /\ loader.pc \in {"stage", "publish"} =>
       /\ loader = [pc |-> loader.pc, goal |-> loader.goal, log |-> state]
       /\ file.header = "ok" /\ file.lines = Append(state, Partial)
  /\ loader.pc = "newline" =>
       /\ loader = [pc |-> loader.pc, goal |-> loader.goal, log |-> file.lines]
       /\ file.header = "ok" /\ file.lines \in Seq(Mutation) /\ ~file.ended

(* The file is what callers know, with at most the append in doubt behind   *)
(* it: its beginning, its JSON text, or all of it.                          *)
CleanFile == file.lines = state /\ file.ended /\ written = "none"
TornFile == file.lines = Append(state, Partial) /\ ~file.ended /\ (up = "open" => written = "part")
DoubtfulFile ==
  \E m \in Mutation :
    /\ Applies(state, m)
    /\ file.lines = Append(state, m)
    /\ up = "open" => m = writing /\ written = IF file.ended THEN "line" ELSE "json"

FileInv ==
  /\ file.header # "ok" => file.lines = <<>> /\ state = <<>>
  /\ file.header = "ok" => CleanFile \/ TornFile \/ DoubtfulFile

IInv == TypeOK /\ ControlInv /\ LoaderInv /\ FileInv /\ Replays(state)

--------------------------------------------------------------------------------
(* What load() makes of the three kinds of file *)

(* Mutations, torn lines and NoMutation are different things.               *)
LEMMA Kinds ==
  /\ \A m \in Mutation : m \notin Torn /\ m # NoMutation
  /\ Mutation \subseteq Line /\ Partial \in Line /\ Garbage \in Line
  /\ Partial \in Torn
<1>1. \A m \in Mutation : m.kind \notin {"partial", "garbage", "none"}
  BY DEF Mutation, EntryMutation, StartMutation, FinishMutation, LaneMutation, NameMutation,
         LabelMutation
<1> QED BY <1>1 DEF Torn, Partial, Garbage, NoMutation, Line

(* A log without a torn line is taken as it is.                             *)
LEMMA IntactLog ==
  ASSUME NEW f, f.lines \in Seq(Mutation)
  PROVE  ~TornTail(f) /\ Intact(f) = f.lines
<1>1. f.lines # <<>> => Last(f.lines) \in Mutation
  <2>1. Len(f.lines) \in Nat /\ (f.lines # <<>> => Len(f.lines) \in 1..Len(f.lines))
    BY LenProperties, EmptySeq
  <2> QED BY <2>1, ElementOfSeq DEF Last
<1> QED BY <1>1, Kinds DEF TornTail, Intact

(* A torn last line is dropped.                                             *)
LEMMA IntactTorn ==
  ASSUME NEW f, NEW s \in Seq(Mutation), f.lines = Append(s, Partial)
  PROVE  TornTail(f) /\ Intact(f) = s
<1>1. s \in Seq(Line)
  BY Kinds, SeqMonotonic
<1>2. f.lines # <<>> /\ Last(f.lines) = Partial /\ Front(f.lines) = s
  BY <1>1, Kinds, AppendFacts
<1> QED BY <1>2, Kinds DEF TornTail, Intact

(* In each of the states of the invariant the file loads, and has what the  *)
(* callers know.                                                            *)
LEMMA FileLoads ==
  ASSUME IInv, file.header = "ok"
  PROVE  Loadable(file) /\ IsPrefix(state, Intact(file)) /\ Intact(file) \in Seq(Mutation)
<1> USE DEF IInv, TypeOK, FileInv
<1>1. Intact(file) \in Seq(Mutation) /\ Replays(Intact(file)) /\ IsPrefix(state, Intact(file))
  <2>0. IsPrefix(state, state)
    BY LenProperties DEF IsPrefix
  <2>1. CASE CleanFile
    BY <2>0, <2>1, IntactLog DEF CleanFile
  <2>2. CASE TornFile
    BY <2>0, <2>2, IntactTorn DEF TornFile
  <2>3. CASE DoubtfulFile
    <3>1. PICK m \in Mutation : Applies(state, m) /\ file.lines = Append(state, m)
      BY <2>3 DEF DoubtfulFile
    <3>2. Append(state, m) \in Seq(Mutation) /\ Replays(Append(state, m))
      BY <3>1, ReplaysAppend, AppendFacts
    <3>3. IsPrefix(state, Append(state, m))
      <4>1. Len(Append(state, m)) = Len(state) + 1 /\ Len(state) \in Nat
        BY <3>1, AppendProperties, LenProperties
      <4>2. SubSeq(Append(state, m), 1, Len(state)) = state
        BY <3>1, <4>1, AppendFacts DEF Front
      <4>3. SubSeq(state, 1, Len(state)) = state
        BY SubSeqFull
      <4> QED BY <4>1, <4>2, <4>3 DEF IsPrefix
    <3> QED BY <3>1, <3>2, <3>3, IntactLog
  <2> QED BY <2>1, <2>2, <2>3
<1>2. \A i \in 1..Len(Intact(file)) : Intact(file)[i] \notin Torn
  BY <1>1, Kinds, ElementOfSeq
<1> QED BY <1>1, <1>2 DEF Loadable

--------------------------------------------------------------------------------
(* The invariant is inductive *)

(* No file yet: the invariant holds.                                        *)
LEMMA InitEstablishes == Init => IInv
<1> SUFFICES ASSUME Init PROVE IInv
  OBVIOUS
<1>1. <<>> \in Seq(Line) /\ <<>> \in Seq(Mutation) /\ Len(<<>>) = 0
  BY EmptySeq
<1>2. Replays(state)
  BY <1>1 DEF Init, Replays
<1> QED BY <1>1, <1>2 DEF Init, IInv, TypeOK, ControlInv, LoaderInv, FileInv, Idle

(* Steps that leave the file and what callers know of it alone.             *)
LEMMA SameFile ==
  ASSUME IInv, UNCHANGED <<file, state>>, up' # "open", written' = "none"
  PROVE  FileInv'
<1> USE DEF IInv, FileInv
<1>1. CASE file.header # "ok"
  BY <1>1
<1>2. CASE CleanFile
  BY <1>2 DEF CleanFile, TypeOK
<1>3. CASE TornFile
  BY <1>3 DEF TornFile
<1>4. CASE DoubtfulFile
  BY <1>4 DEF DoubtfulFile
<1> QED BY <1>1, <1>2, <1>3, <1>4 DEF CleanFile, TypeOK

(* create() begins on a file that does not exist.                           *)
LEMMA CreateKeeps == IInv /\ Create => IInv'
<1> SUFFICES ASSUME IInv, Create PROVE IInv'
  OBVIOUS
<1>1. UNCHANGED <<file, state>> /\ up' = "creating" /\ written' = "none" /\ writing = NoMutation
  BY DEF IInv, Create, ControlInv, appendVars
<1>2. FileInv'
  BY <1>1, SameFile
<1> QED BY <1>1, <1>2 DEF IInv, Create, TypeOK, ControlInv, LoaderInv, Idle, appendVars

(* The header goes into an empty file.                                      *)
LEMMA WriteHeaderKeeps == IInv /\ WriteHeader => IInv'
<1> SUFFICES ASSUME IInv, WriteHeader PROVE IInv'
  OBVIOUS
<1>1. UNCHANGED <<state, writing, written, orphan, loader>> /\ up = "creating"
  BY DEF WriteHeader, appendVars
<1>2. writing = NoMutation /\ written = "none" /\ loader = Idle
      /\ file.lines = <<>> /\ state = <<>>
  BY <1>1 DEF IInv, ControlInv, FileInv
<1>3. /\ file' \in [header: {"none", "torn", "ok"}, lines: Seq(Line), ended: BOOLEAN]
      /\ file'.lines = <<>>
      /\ up' = "open" => file'.header = "ok" /\ file'.ended
      /\ up' \in {"creating", "open"}
      /\ up' = "creating" => file'.header # "ok"
  BY <1>1, <1>2 DEF IInv, TypeOK, WriteHeader
<1>4. file'.header = "ok" => CleanFile'
  BY <1>1, <1>2, <1>3 DEF CleanFile
<1> QED BY <1>1, <1>2, <1>3, <1>4 DEF IInv, TypeOK, ControlInv, LoaderInv, FileInv, Idle

(* An append starts on a clean file, with a mutation that applies.          *)
LEMMA BeginKeeps == \A o \in Operation : IInv /\ Begin(o) => IInv'
<1> SUFFICES ASSUME NEW o \in Operation, IInv, Begin(o) PROVE IInv'
  OBVIOUS
<1>1. /\ up = "open" /\ writing = NoMutation /\ written = "none" /\ Validates(state, o)
      /\ writing' = MutationOf(state, o) /\ written' = "none" /\ orphan' = FALSE
      /\ UNCHANGED <<file, up, state, loader>>
  BY DEF Begin, IInv, ControlInv
<1>2. writing' \in Mutation /\ Applies(state, writing')
  BY <1>1, OperationApplies DEF IInv, TypeOK
<1>3. CleanFile
  BY <1>1, Kinds DEF IInv, ControlInv, FileInv, TornFile, DoubtfulFile
<1>4. FileInv'
  BY <1>1, <1>3 DEF IInv, ControlInv, FileInv, CleanFile
<1> QED BY <1>1, <1>2, <1>4 DEF IInv, TypeOK, ControlInv, LoaderInv

(* A clean file becomes torn, a torn one doubtful, and stays so to the newline. *)
LEMMA WriteMoreKeeps == IInv /\ WriteMore => IInv'
<1> SUFFICES ASSUME IInv, WriteMore PROVE IInv'
  OBVIOUS
<1>1. /\ writing \in Mutation /\ Applies(state, writing) /\ up = "open" /\ orphan = FALSE
      /\ file.header = "ok" /\ loader = Idle
      /\ written' = Following[written] /\ file' = Appended(file, writing, Following[written])
      /\ UNCHANGED <<up, state, writing, orphan, loader>>
      /\ state \in Seq(Mutation)
  BY DEF IInv, TypeOK, ControlInv, WriteMore
<1>2. state \in Seq(Line) /\ writing \in Line /\ Partial \in Line
  BY <1>1, Kinds, SeqMonotonic
<1>3. CASE CleanFile
  <2>1. written' = "part" /\ file' = [file EXCEPT !.lines = Append(@, Partial), !.ended = FALSE]
    BY <1>1, <1>3 DEF CleanFile, Appended, Following
  <2>2. /\ file' \in [header: {"none", "torn", "ok"}, lines: Seq(Line), ended: BOOLEAN]
        /\ file'.header = "ok" /\ file'.lines = Append(state, Partial) /\ file'.ended = FALSE
    <3>1. file.lines = state /\ Append(state, Partial) \in Seq(Line)
      BY <1>2, <1>3, AppendFacts DEF CleanFile
    <3> QED BY <1>1, <2>1, <3>1 DEF IInv, TypeOK
  <2>3. TornFile'
    BY <1>1, <2>1, <2>2 DEF TornFile
  <2> QED BY <1>1, <2>1, <2>2, <2>3, Kinds DEF IInv, TypeOK, ControlInv, LoaderInv, FileInv, Idle
<1>4. CASE TornFile
  <2>0. file.lines = Append(state, Partial) /\ file.ended = FALSE /\ written = "part"
    BY <1>1, <1>4 DEF TornFile, IInv, TypeOK
  <2>1. Last(file.lines) = Partial /\ SetLast(file.lines, writing) = Append(state, writing)
        /\ Append(state, writing) \in Seq(Line)
    BY <1>2, <2>0, AppendFacts
  <2>2. written' = "json" /\ file' = [file EXCEPT !.lines = SetLast(@, writing), !.ended = FALSE]
    BY <1>1, <2>0, <2>1 DEF Appended, Following
  <2>3. /\ file' \in [header: {"none", "torn", "ok"}, lines: Seq(Line), ended: BOOLEAN]
        /\ file'.header = "ok" /\ file'.lines = Append(state, writing) /\ file'.ended = FALSE
    BY <1>1, <2>1, <2>2 DEF IInv, TypeOK
  <2>4. DoubtfulFile'
    BY <1>1, <2>2, <2>3 DEF DoubtfulFile
  <2> QED BY <1>1, <2>2, <2>3, <2>4, Kinds DEF IInv, TypeOK, ControlInv, LoaderInv, FileInv, Idle
<1>5. CASE DoubtfulFile
  <2>0. file.lines = Append(state, writing) /\ file.ended = FALSE /\ written = "json"
    BY <1>1, <1>5 DEF DoubtfulFile, WriteMore, IInv, TypeOK
  <2>1. written' = "line" /\ file' = [file EXCEPT !.lines = @, !.ended = TRUE]
    BY <1>1, <2>0 DEF Appended, Following
  <2>2. /\ file' \in [header: {"none", "torn", "ok"}, lines: Seq(Line), ended: BOOLEAN]
        /\ file'.header = "ok" /\ file'.lines = Append(state, writing) /\ file'.ended = TRUE
    BY <1>1, <2>0, <2>1 DEF IInv, TypeOK
  <2>3. DoubtfulFile'
    BY <1>1, <2>1, <2>2 DEF DoubtfulFile
  <2> QED BY <1>1, <2>1, <2>2, <2>3, Kinds DEF IInv, TypeOK, ControlInv, LoaderInv, FileInv, Idle
<1> QED BY <1>1, <1>3, <1>4, <1>5 DEF IInv, FileInv

(* The mutation returned to the caller is the last line of the file.        *)
LEMMA AcknowledgeKeeps == IInv /\ Acknowledge => IInv'
<1> SUFFICES ASSUME IInv, Acknowledge PROVE IInv'
  OBVIOUS
<1>1. /\ writing \in Mutation /\ Applies(state, writing) /\ up = "open" /\ written = "line"
      /\ file.header = "ok" /\ loader = Idle
      /\ state' = Append(state, writing) /\ writing' = NoMutation /\ written' = "none"
      /\ orphan' = FALSE /\ UNCHANGED <<file, up, loader>>
  BY DEF IInv, TypeOK, ControlInv, Acknowledge
<1>2. file.lines = Append(state, writing) /\ file.ended = TRUE
  BY <1>1 DEF IInv, FileInv, TypeOK, CleanFile, TornFile, DoubtfulFile
<1>3. state' \in Seq(Mutation) /\ Replays(state')
  BY <1>1, ReplaysAppend, AppendFacts DEF IInv, TypeOK
<1>4. CleanFile'
  BY <1>1, <1>2 DEF CleanFile
<1> QED BY <1>1, <1>2, <1>3, <1>4 DEF IInv, TypeOK, ControlInv, LoaderInv, FileInv, Idle

(* A cleanly failed append has written nothing.                             *)
LEMMA RejectAppendKeeps == ~TornFailures /\ IInv /\ RejectAppend => IInv'
<1> SUFFICES ASSUME ~TornFailures, IInv, RejectAppend PROVE IInv'
  OBVIOUS
<1>1. /\ up = "open" /\ written = "none" /\ file.header = "ok"
      /\ writing' = NoMutation /\ written' = "none" /\ orphan' = FALSE
      /\ UNCHANGED <<file, up, state, loader>>
  BY DEF IInv, ControlInv, RejectAppend
<1>2. CleanFile
  BY <1>1 DEF IInv, FileInv, TornFile, DoubtfulFile
<1>3. CleanFile'
  BY <1>1, <1>2 DEF CleanFile
<1> QED BY <1>1, <1>3 DEF IInv, TypeOK, ControlInv, LoaderInv, FileInv

(* load() hands the log it read to open() or to fork().                     *)
LEMMA LoadKeeps == \A goal \in {"open", "fork"} : ~SharedFile /\ IInv /\ Load(goal) => IInv'
<1> SUFFICES ASSUME NEW goal \in {"open", "fork"}, ~SharedFile, IInv, Load(goal) PROVE IInv'
  OBVIOUS
<1>1. /\ loader = Idle /\ up = "down" /\ file.header = "ok" /\ Loadable(file)
      /\ writing = NoMutation /\ written = "none"
      /\ UNCHANGED <<file, writing, written, orphan>>
  BY DEF IInv, TypeOK, ControlInv, Load, Loadable, appendVars
<1>2. /\ Loadable(file) /\ Intact(file) \in Seq(Mutation)
      /\ state \in Seq(Mutation)
  BY <1>1, FileLoads DEF IInv, TypeOK
<1>3. CASE TornTail(file)
  <2>1. loader' = [pc |-> "stage", goal |-> goal, log |-> Intact(file)] /\ UNCHANGED <<up, state>>
    BY <1>3 DEF Load, Unended
  <2>2. TornFile
    <3>1. ~CleanFile
      BY <1>2, <1>3, IntactLog DEF CleanFile
    <3>2. ~DoubtfulFile
      BY <1>2, <1>3, IntactLog, AppendFacts DEF DoubtfulFile
    <3> QED BY <1>1, <3>1, <3>2 DEF IInv, FileInv
  <2>3. Intact(file) = state /\ file.lines = Append(state, Partial)
    BY <1>2, <2>2, IntactTorn DEF TornFile
  <2>4. FileInv'
    BY <1>1, <2>1, SameFile
  <2> QED BY <1>1, <2>1, <2>3, <2>4 DEF IInv, TypeOK, ControlInv, LoaderInv
<1>4. CASE Unended(file)
  <2>1. /\ loader' = [pc |-> "newline", goal |-> goal, log |-> Intact(file)]
        /\ UNCHANGED <<up, state>> /\ ~file.ended
    BY <1>4 DEF Load, Unended
  <2>2. Intact(file) = file.lines
    BY <1>4 DEF Unended, Intact
  <2>3. FileInv'
    BY <1>1, <2>1, SameFile
  <2> QED BY <1>1, <1>2, <2>1, <2>2, <2>3 DEF IInv, TypeOK, ControlInv, LoaderInv
<1>5. CASE ~TornTail(file) /\ ~Unended(file)
  <2>1. Loaded(goal, Intact(file)) /\ Intact(file) = file.lines /\ file.ended
    BY <1>1, <1>5 DEF Load, Unended, Intact, IInv, TypeOK
  <2>2. CASE goal = "open"
    <3>1. up' = "open" /\ state' = file.lines /\ loader' = Idle
      BY <2>1, <2>2 DEF Loaded
    <3>2. CleanFile'
      BY <1>1, <2>1, <3>1 DEF CleanFile
    <3>3. state' \in Seq(Mutation) /\ Replays(state')
      BY <1>2, <2>1, <3>1 DEF Loadable
    <3> QED BY <1>1, <3>1, <3>2, <3>3 DEF IInv, TypeOK, ControlInv, LoaderInv, FileInv, Idle
  <2>3. CASE goal = "fork"
    <3>1. loader' = [pc |-> "fork", log |-> Intact(file)] /\ UNCHANGED <<up, state>>
      BY <2>1, <2>3 DEF Loaded
    <3>2. FileInv'
      BY <1>1, <3>1, SameFile
    <3> QED BY <1>1, <3>1, <3>2 DEF IInv, TypeOK, ControlInv, LoaderInv
  <2> QED BY <2>2, <2>3
<1> QED BY <1>3, <1>4, <1>5

(* The sibling file is not the session file.                                *)
LEMMA StageRepairKeeps == IInv /\ StageRepair => IInv'
<1> SUFFICES ASSUME IInv, StageRepair PROVE IInv'
  OBVIOUS
<1>1. /\ loader.pc = "stage" /\ loader' = [loader EXCEPT !.pc = "publish"]
      /\ UNCHANGED <<file, up, state, writing, written, orphan>>
  BY DEF StageRepair, appendVars
<1>2. loader = [pc |-> loader.pc, goal |-> loader.goal, log |-> state]
  BY <1>1 DEF IInv, LoaderInv
<1>3. up = "down" /\ writing = NoMutation /\ written = "none"
  BY <1>1 DEF IInv, TypeOK, ControlInv, Idle
<1>4. loader' = [pc |-> "publish", goal |-> loader.goal, log |-> state]
  BY <1>1, <1>2
<1>5. FileInv'
  BY <1>1, <1>3, SameFile
<1> QED BY <1>1, <1>3, <1>4, <1>5 DEF IInv, TypeOK, ControlInv, LoaderInv

(* The renamed file holds exactly what callers know.                        *)
LEMMA PublishRepairKeeps == IInv /\ PublishRepair => IInv'
<1> SUFFICES ASSUME IInv, PublishRepair PROVE IInv'
  OBVIOUS
<1>1. /\ loader.pc = "publish" /\ loader.log = state /\ file.header = "ok"
      /\ up = "down" /\ writing = NoMutation /\ written = "none" /\ orphan = FALSE
      /\ state \in Seq(Mutation)
  BY DEF IInv, TypeOK, ControlInv, LoaderInv, PublishRepair, Idle
<1>2. /\ file' = [header |-> "ok", lines |-> state, ended |-> TRUE]
      /\ orphan' = FALSE /\ UNCHANGED <<writing, written>>
      /\ Loaded(loader.goal, state)
  BY <1>1 DEF PublishRepair
<1>3. state' = state /\ up' \in {"down", "open"}
      /\ (up' = "open" => loader' = Idle) /\ loader'.pc \in {"idle", "fork"}
  BY <1>1, <1>2 DEF Loaded, Idle
<1>4. CleanFile'
  BY <1>1, <1>2, <1>3 DEF CleanFile
<1>5. state \in Seq(Line)
  BY <1>1, Kinds, SeqMonotonic
<1> QED BY <1>1, <1>2, <1>3, <1>4, <1>5 DEF IInv, TypeOK, ControlInv, LoaderInv, FileInv

(* The newline ends the doubtful line, which callers then know.             *)
LEMMA RepairNewlineKeeps == IInv /\ RepairNewline => IInv'
<1> SUFFICES ASSUME IInv, RepairNewline PROVE IInv'
  OBVIOUS
<1>1. /\ loader.pc = "newline" /\ loader.log = file.lines /\ file.header = "ok"
      /\ ~file.ended /\ file.lines \in Seq(Mutation)
      /\ up = "down" /\ writing = NoMutation /\ written = "none" /\ orphan = FALSE
  BY DEF IInv, TypeOK, ControlInv, LoaderInv, RepairNewline, Idle
<1>2. file' = [file EXCEPT !.lines = @, !.ended = TRUE]
  BY <1>1 DEF RepairNewline, Appended
<1>3. /\ file' \in [header: {"none", "torn", "ok"}, lines: Seq(Line), ended: BOOLEAN]
      /\ file'.header = "ok" /\ file'.lines = file.lines /\ file'.ended = TRUE
  BY <1>1, <1>2 DEF IInv, TypeOK
<1>4. UNCHANGED <<writing, written, orphan>> /\ Loaded(loader.goal, file.lines)
  BY <1>1 DEF RepairNewline, appendVars
<1>5. Intact(file) = file.lines /\ ~TornTail(file) /\ Replays(file.lines)
  BY <1>1, IntactLog, FileLoads DEF Loadable
<1>6. CASE up' = "open"
  <2>1. state' = file.lines /\ loader' = Idle
    BY <1>1, <1>4, <1>6 DEF Loaded
  <2>2. CleanFile'
    BY <1>1, <1>3, <1>4, <2>1 DEF CleanFile
  <2> QED BY <1>1, <1>3, <1>4, <1>5, <1>6, <2>1, <2>2
          DEF IInv, TypeOK, ControlInv, LoaderInv, FileInv, Idle
<1>7. CASE up' # "open"
  <2>1. UNCHANGED <<up, state>> /\ loader' = [pc |-> "fork", log |-> file.lines]
    BY <1>4, <1>7 DEF Loaded
  <2>2. DoubtfulFile
    <3>1. ~TornFile
      BY <1>5, IntactTorn DEF TornFile, IInv, TypeOK
    <3> QED BY <1>1, <3>1 DEF IInv, FileInv, CleanFile
  <2>3. DoubtfulFile'
    BY <1>3, <1>7, <2>1, <2>2 DEF DoubtfulFile
  <2> QED BY <1>1, <1>3, <1>4, <2>1, <2>3 DEF IInv, TypeOK, ControlInv, LoaderInv, FileInv
<1> QED BY <1>6, <1>7

(* Steps of load() and fork() that only change the loader.                  *)
LEMMA LoaderKeeps ==
  ASSUME IInv, loader # Idle, loader'.pc \in {"idle", "fork", "published"},
         UNCHANGED <<file, up, state, writing, written, orphan>>
  PROVE  IInv'
<1>1. up = "down" /\ writing = NoMutation /\ written = "none"
  BY DEF IInv, TypeOK, ControlInv
<1>2. FileInv'
  BY <1>1, SameFile
<1> QED BY <1>1, <1>2 DEF IInv, TypeOK, ControlInv, LoaderInv

(* Nothing has to be true of the bytes in flight once the process is dead.  *)
LEMMA CrashKeeps == IInv /\ Crash => IInv'
<1> SUFFICES ASSUME IInv, Crash PROVE IInv'
  OBVIOUS
<1>1. /\ up' = "down" /\ writing' = NoMutation /\ written' = "none" /\ orphan' = FALSE
      /\ loader' = Idle /\ UNCHANGED <<file, state>>
  BY DEF Crash
<1>2. FileInv'
  BY <1>1, SameFile
<1> QED BY <1>1, <1>2 DEF IInv, TypeOK, ControlInv, LoaderInv, Idle

(* Every step keeps the invariant.                                          *)
LEMMA StepKeeps ==
  ASSUME ~SharedFile, ~TornFailures
  PROVE  IInv /\ [Next]_vars => IInv'
<1> SUFFICES ASSUME IInv, [Next]_vars PROVE IInv'
  OBVIOUS
<1>1. CASE Create \/ WriteHeader
  BY <1>1, CreateKeeps, WriteHeaderKeeps
<1>2. CASE \E o \in Operation : Begin(o)
  BY <1>2, BeginKeeps
<1>3. CASE WriteMore \/ Acknowledge \/ RejectAppend
  BY <1>3, WriteMoreKeeps, AcknowledgeKeeps, RejectAppendKeeps
<1>4. CASE \E goal \in {"open", "fork"} : Load(goal)
  BY <1>4, LoadKeeps
<1>5. CASE StageRepair \/ PublishRepair \/ RepairNewline
  BY <1>5, StageRepairKeeps, PublishRepairKeeps, RepairNewlineKeeps
<1>6. CASE RejectLoad \/ ReturnFork \/ \E options \in ForkOptions : PublishFork(options)
  <2>1. loader.pc # "idle" /\ loader'.pc \in {"idle", "fork", "published"}
        /\ UNCHANGED <<file, up, state, writing, written, orphan>>
    BY <1>6 DEF RejectLoad, ReturnFork, PublishFork, Idle, appendVars
  <2> QED BY <2>1, LoaderKeeps DEF Idle
<1>7. CASE Crash
  BY <1>7, CrashKeeps
<1>8. CASE UNCHANGED vars
  BY <1>8 DEF vars, IInv, TypeOK, ControlInv, LoaderInv, FileInv, CleanFile, TornFile, DoubtfulFile
<1> QED BY <1>1, <1>2, <1>3, <1>4, <1>5, <1>6, <1>7, <1>8 DEF Next

(* For one storage per file whose appends either happen or fail cleanly,    *)
(* the invariant holds in every state.                                      *)
THEOREM Invariant ==
  ASSUME ~SharedFile, ~TornFailures
  PROVE  Spec => []IInv
<1>1. IInv /\ [Next]_vars => IInv'
  BY StepKeeps
<1> QED BY <1>1, InitEstablishes, PTL DEF Spec

(* Whatever is appended and wherever the process dies, the file it leaves   *)
(* loads and begins with every acknowledged mutation.                       *)
THEOREM AcknowledgedSurvives ==
  ASSUME ~SharedFile, ~TornFailures
  PROVE  Spec => []AckedAreDurable
<1>1. IInv => AckedAreDurable
  BY FileLoads DEF AckedAreDurable
<1> QED BY <1>1, Invariant, PTL

--------------------------------------------------------------------------------
(* The storage implements the durable log *)

(* What is committed: all that callers know, and the append in progress     *)
(* once its JSON text is complete.                                          *)
Committed ==
  /\ up = "open" =>
       Intact(file) = IF written \in {"json", "line"} THEN Append(state, writing) ELSE state
  /\ file.header # "ok" => Intact(file) = <<>>

(* The invariant says which mutations load() would find now.                *)
LEMMA CommittedHolds == IInv => Committed
<1> SUFFICES ASSUME IInv PROVE Committed
  OBVIOUS
<1> USE DEF IInv, TypeOK, ControlInv, FileInv
<1>1. CASE file.header # "ok"
  <2>1. Intact(file) = <<>>
    BY <1>1, IntactLog
  <2> QED BY <1>1, <2>1 DEF Committed
<1>2. CASE file.header = "ok" /\ CleanFile
  BY <1>2, IntactLog DEF Committed, CleanFile
<1>3. CASE file.header = "ok" /\ TornFile
  BY <1>3, IntactTorn DEF Committed, TornFile
<1>4. CASE file.header = "ok" /\ DoubtfulFile
  <2>1. file.lines \in Seq(Mutation)
    <3>1. PICK m \in Mutation : file.lines = Append(state, m)
      BY <1>4 DEF DoubtfulFile
    <3> QED BY <3>1, AppendFacts
  <2>2. Intact(file) = file.lines
    BY <2>1, IntactLog
  <2> QED BY <1>4, <2>2 DEF Committed, DoubtfulFile
<1> QED BY <1>1, <1>2, <1>3, <1>4

(* A repair, by rename or by newline, keeps the log that load() read.       *)
LEMMA RepairKeepsLog ==
  ASSUME IInv, PublishRepair \/ RepairNewline
  PROVE  /\ Intact(file') = Intact(file) /\ loader.log = Intact(file)
         /\ up = "down" /\ Loaded(loader.goal, loader.log)
         /\ UNCHANGED <<writing, written>>
<1>1. up = "down" /\ state \in Seq(Mutation)
  BY DEF IInv, TypeOK, ControlInv, PublishRepair, RepairNewline, Idle
<1>2. CASE PublishRepair
  <2>1. loader.log = state /\ file.lines = Append(state, Partial)
    BY <1>2 DEF IInv, LoaderInv, PublishRepair
  <2>2. Intact(file) = state
    BY <1>1, <2>1, IntactTorn
  <2>3. file'.lines = state
    BY <1>2, <2>1 DEF PublishRepair
  <2>4. Intact(file') = state
    BY <1>1, <2>3, IntactLog
  <2> QED BY <1>1, <1>2, <2>1, <2>2, <2>4 DEF PublishRepair
<1>3. CASE RepairNewline
  <2>1. loader.log = file.lines /\ file.lines \in Seq(Mutation) /\ ~file.ended
    BY <1>3 DEF IInv, LoaderInv, RepairNewline
  <2>2. file' = [file EXCEPT !.lines = @, !.ended = TRUE]
    BY <1>3, <2>1 DEF RepairNewline, Appended
  <2>3. file'.lines = file.lines
    BY <2>2 DEF IInv, TypeOK
  <2>4. Intact(file) = file.lines /\ Intact(file') = file.lines
    BY <2>1, <2>3, IntactLog
  <2> QED BY <1>1, <1>3, <2>1, <2>4 DEF RepairNewline, appendVars
<1> QED BY <1>2, <1>3

(* Every step of the storage is a step of the durable log, or none.         *)
LEMMA StepImplements ==
  ASSUME ~SharedFile, ~TornFailures, IInv, IInv', Committed, Committed', [Next]_vars
  PROVE  [Durable!Next]_Durable!vars
<1> USE DEF Durable!Next, Durable!vars
<1>0. /\ writing # NoMutation => up = "open" /\ writing \in Mutation
      /\ writing = NoMutation => written = "none"
      /\ up = "open" => file.header = "ok" /\ loader = Idle
      /\ up = "creating" => file.header # "ok"
  BY DEF IInv, TypeOK, ControlInv
<1>1. CASE Create
  BY <1>1 DEF Create, appendVars
<1>2. CASE WriteHeader
  <2>1. /\ up = "creating" /\ Intact(file) = <<>> /\ state = <<>> /\ writing = NoMutation
        /\ written = "none" /\ UNCHANGED <<state, writing, written>>
    BY <1>0, <1>2 DEF WriteHeader, appendVars, Committed, IInv, FileInv
  <2>2. CASE up' = "open"
    <3>1. Intact(file)' = <<>>
      BY <2>1, <2>2 DEF Committed
    <3> QED BY <2>1, <2>2, <3>1 DEF Durable!Open
  <2>3. CASE up' # "open"
    <3>1. UNCHANGED up /\ file'.header # "ok"
      BY <1>2, <2>3 DEF WriteHeader, IInv, TypeOK
    <3>2. Intact(file)' = <<>>
      BY <3>1 DEF Committed
    <3> QED BY <2>1, <3>1, <3>2
  <2> QED BY <2>2, <2>3
<1>3. CASE \E o \in Operation : Begin(o)
  <2>1. /\ up = "open" /\ writing = NoMutation /\ writing' \in Mutation
        /\ UNCHANGED <<file, up, state>>
    BY <1>3, OperationApplies DEF Begin, IInv, TypeOK
  <2>2. Intact(file) = state
    BY <1>0, <2>1 DEF Committed
  <2> QED BY <2>1, <2>2 DEF Durable!Begin
<1>4. CASE WriteMore
  <2>1. /\ up = "open" /\ writing # NoMutation /\ written' = Following[written]
        /\ written \in {"none", "part", "json"} /\ UNCHANGED <<up, state, writing>>
    BY <1>0, <1>4 DEF WriteMore, IInv, TypeOK
  <2>2. CASE written = "part"
    <3>1. written' = "json"
      BY <2>1, <2>2 DEF Following
    <3>2. Intact(file) = state /\ Intact(file)' = Append(state, writing)
      BY <2>1, <2>2, <3>1 DEF Committed
    <3> QED BY <2>1, <3>2 DEF Durable!Commit
  <2>3. CASE written = "none"
    <3>1. written' = "part"
      BY <2>1, <2>3 DEF Following
    <3>2. Intact(file)' = Intact(file)
      BY <2>1, <2>3, <3>1 DEF Committed
    <3> QED BY <2>1, <3>2
  <2>4. CASE written = "json"
    <3>1. written' = "line"
      BY <2>1, <2>4 DEF Following
    <3>2. Intact(file)' = Intact(file)
      BY <2>1, <2>4, <3>1 DEF Committed
    <3> QED BY <2>1, <3>2
  <2> QED BY <2>1, <2>2, <2>3, <2>4
<1>5. CASE Acknowledge
  BY <1>0, <1>5 DEF Acknowledge, Committed, Durable!Return
<1>6. CASE RejectAppend
  <2>1. up = "open" /\ writing # NoMutation /\ written = "none"
        /\ writing' = NoMutation /\ UNCHANGED <<file, up, state>>
    BY <1>0, <1>6 DEF RejectAppend
  <2> QED BY <2>1 DEF Committed, Durable!Reject
<1>7. CASE \E goal \in {"open", "fork"} : Load(goal)
  <2>1. up = "down" /\ UNCHANGED <<file, writing>>
        /\ (UNCHANGED <<up, state>> \/ (up' = "open" /\ state' = Intact(file)))
    BY <1>7 DEF Load, Loaded, appendVars
  <2> QED BY <2>1 DEF Durable!Open
<1>8. CASE PublishRepair \/ RepairNewline
  BY <1>8, RepairKeepsLog DEF Loaded, Durable!Open
<1>9. CASE \/ StageRepair \/ RejectLoad \/ ReturnFork
           \/ \E options \in ForkOptions : PublishFork(options)
  BY <1>9 DEF StageRepair, RejectLoad, ReturnFork, PublishFork, appendVars
<1>10. CASE Crash
  <2>1. up' = "down" /\ writing' = NoMutation /\ UNCHANGED <<file, state>>
    BY <1>10 DEF Crash
  <2>2. CASE up = "open"
    BY <2>1, <2>2 DEF Durable!Crash
  <2>3. CASE up # "open"
    BY <1>0, <2>1, <2>3
  <2> QED BY <2>2, <2>3
<1>11. CASE UNCHANGED vars
  BY <1>11 DEF vars
<1> QED BY <1>1, <1>2, <1>3, <1>4, <1>5, <1>6, <1>7, <1>8, <1>9, <1>10, <1>11 DEF Next

(* The storage implements the durable log: a mutation is committed by the   *)
(* last byte of its JSON text and before its call returns, a rejected call  *)
(* commits nothing, and no crash, repair or fork takes a commit back.       *)
THEOREM Implements ==
  ASSUME ~SharedFile, ~TornFailures
  PROVE  Spec => ImplementsDurableLog
<1>1. Init => Durable!Init
  <2> SUFFICES ASSUME Init PROVE Durable!Init
    OBVIOUS
  <2>1. file.lines = <<>> /\ <<>> \in Seq(Mutation)
    BY EmptySeq DEF Init
  <2>2. Intact(file) = <<>>
    BY <2>1, IntactLog
  <2> QED BY <2>2 DEF Init, Durable!Init
<1>2. IInv /\ IInv' /\ Committed /\ Committed' /\ [Next]_vars => [Durable!Next]_Durable!vars
  BY StepImplements
<1> QED BY <1>1, <1>2, CommittedHolds, Invariant, PTL DEF Spec, ImplementsDurableLog, Durable!Spec

--------------------------------------------------------------------------------
(* Sets of positions and of lanes, put in order *)

(* A set of numbers that is not empty has a least one.                      *)
LEMMA LeastNumber ==
  ASSUME NEW T \in SUBSET Nat, T # {}
  PROVE  \E m \in T : \A k \in T : m <= k
<1> DEFINE R == OpToRel(<, Nat)
<1>1. IsWellFoundedOn(R, Nat)
  BY NatLessThanWellFounded DEF R
<1>2. PICK m \in T : \A k \in T : ~(<<k, m>> \in R)
  <2> HIDE DEF R
  <2> QED BY <1>1, WFMin
<1>3. \A k \in T : ~(k < m)
  BY <1>2 DEF R, OpToRel
<1> QED BY <1>3

(* As many different elements of a finite set as it has are all of them.    *)
LEMMA AllListed ==
  ASSUME NEW S, IsFiniteSet(S), NEW f \in [1..Cardinality(S) -> S],
         \A i, j \in 1..Cardinality(S) : f[i] = f[j] => i = j
  PROVE  \A x \in S : \E k \in 1..Cardinality(S) : f[k] = x
<1> DEFINE D == 1..Cardinality(S)
<1>1. Cardinality(S) \in Nat
  BY FS_CardinalityType
<1>2. IsFiniteSet(D) /\ Cardinality(D) = Cardinality(S)
  BY <1>1, FS_Interval
<1>3. f \in Injection(D, S)
  BY DEF Injection, IsInjective
<1>4. f \in Surjection(D, S)
  <2> HIDE DEF D
  <2> QED BY <1>2, <1>3, FS_Injection
<1> QED BY <1>4 DEF Surjection

(* SetToSeq lists a finite set, each element once.                          *)
LEMMA SetListed ==
  ASSUME NEW S, IsFiniteSet(S), NEW q, q = SetToSeq(S)
  PROVE  /\ Cardinality(S) \in Nat
         /\ q \in [1..Cardinality(S) -> S] /\ q \in Seq(S) /\ Len(q) = Cardinality(S)
         /\ \A i, j \in 1..Cardinality(S) : q[i] = q[j] => i = j
         /\ \A x \in S : \E k \in 1..Cardinality(S) : q[k] = x
<1>1. Cardinality(S) \in Nat /\ ExistsBijection(1..Cardinality(S), S)
  BY FS_CardinalityType
<1>2. \E f \in [1..Cardinality(S) -> S] : IsInjective(f)
  BY <1>1 DEF ExistsBijection, Bijection, Injection
<1>3. q \in [1..Cardinality(S) -> S] /\ IsInjective(q)
  BY <1>2 DEF SetToSeq
<1>4. \A i, j \in 1..Cardinality(S) : q[i] = q[j] => i = j
  BY <1>3 DEF IsInjective
<1>5. \A x \in S : \E k \in 1..Cardinality(S) : q[k] = x
  BY <1>3, <1>4, AllListed
<1>6. q \in Seq(S) /\ Len(q) = Cardinality(S)
  BY <1>1, <1>3
<1> QED BY <1>1, <1>3, <1>4, <1>5, <1>6

(* at lists a set of positions from the first to the last.                  *)
Ascends(at, positions) ==
  /\ at \in [1..Cardinality(positions) -> positions]
  /\ \A i, j \in 1..Cardinality(positions) : i < j => at[i] < at[j]

(* Positions can be put in order.                                           *)
LEMMA OrderExists ==
  ASSUME NEW n \in Nat, NEW positions \in SUBSET (1..n)
  PROVE  \E at : Ascends(at, positions)
<1> DEFINE Orderly(m) == \A p \in SUBSET (1..m) : \E at : Ascends(at, p)
           Bad == {m \in Nat : ~Orderly(m)}
<1>1. Orderly(0)
  <2> SUFFICES ASSUME NEW p \in SUBSET (1..0) PROVE \E at : Ascends(at, p)
    OBVIOUS
  <2>1. p = {}
    OBVIOUS
  <2>2. Cardinality(p) = 0
    BY <2>1, FS_EmptySet
  <2>3. Ascends([i \in 1..Cardinality(p) |-> i], p)
    BY <2>2 DEF Ascends
  <2> QED BY <2>3
<1>2. ASSUME NEW m \in Nat, Orderly(m) PROVE Orderly(m + 1)
  <2> SUFFICES ASSUME NEW p \in SUBSET (1..(m + 1)) PROVE \E at : Ascends(at, p)
    OBVIOUS
  <2> DEFINE r == p \ {m + 1}
  <2>1. r \in SUBSET (1..m)
    OBVIOUS
  <2>2. PICK at : Ascends(at, r)
    BY <1>2, <2>1
  <2>3. CASE m + 1 \notin p
    <3>1. r = p
      BY <2>3
    <3> QED BY <2>2, <3>1
  <2>4. CASE m + 1 \in p
    <3>1. IsFiniteSet(r)
      <4>1. IsFiniteSet(1..m)
        BY FS_Interval
      <4> HIDE DEF r
      <4> QED BY <2>1, <4>1, FS_Subset
    <3> DEFINE c == Cardinality(r)
               next == [i \in 1..(c + 1) |-> IF i = c + 1 THEN m + 1 ELSE at[i]]
    <3>2. c \in Nat
      BY <3>1, FS_CardinalityType
    <3>3. Cardinality(p) = c + 1
      <4>1. p = r \union {m + 1} /\ m + 1 \notin r
        BY <2>4
      <4> HIDE DEF r
      <4> QED BY <3>1, <4>1, FS_AddElement
    <3>4. at \in [1..c -> r] /\ \A i, j \in 1..c : i < j => at[i] < at[j]
      BY <2>2 DEF Ascends
    <3>5. \A i \in 1..c : at[i] \in p /\ at[i] \in Nat /\ at[i] < m + 1
      <4> SUFFICES ASSUME NEW i \in 1..c PROVE at[i] \in p /\ at[i] \in Nat /\ at[i] < m + 1
        OBVIOUS
      <4>1. at[i] \in r
        BY <3>4
      <4>2. at[i] \in p /\ at[i] \in 1..m
        BY <2>1, <4>1
      <4> QED BY <4>2
    <3> HIDE DEF c, r
    <3>6. next \in [1..(c + 1) -> p]
      BY <2>4, <3>2, <3>5
    <3>7. \A i, j \in 1..(c + 1) : i < j => next[i] < next[j]
      BY <3>2, <3>4, <3>5
    <3>8. Ascends(next, p)
      <4> HIDE DEF next
      <4> QED BY <3>3, <3>6, <3>7 DEF Ascends
    <3> QED BY <3>8
  <2> QED BY <2>3, <2>4
<1> HIDE DEF Orderly
<1>3. Bad = {}
  <2> SUFFICES ASSUME Bad # {} PROVE FALSE
    OBVIOUS
  <2>1. PICK b \in Bad : \A k \in Bad : b <= k
    BY LeastNumber
  <2>2. b \in Nat /\ b # 0 /\ ~Orderly(b)
    BY <1>1, <2>1
  <2>3. b - 1 \in Nat /\ b - 1 \notin Bad
    BY <2>1, <2>2
  <2>4. Orderly(b - 1)
    BY <2>3
  <2>5. Orderly((b - 1) + 1)
    BY <1>2, <2>3, <2>4
  <2>6. (b - 1) + 1 = b
    BY <2>2
  <2> QED BY <2>2, <2>5, <2>6
<1>4. Orderly(n)
  BY <1>3
<1> QED BY <1>4 DEF Orderly

(* InOrder lists every position, each after the ones before it.             *)
LEMMA InOrderLists ==
  ASSUME NEW n \in Nat, NEW positions \in SUBSET (1..n), NEW at, at = InOrder(positions)
  PROVE  /\ Cardinality(positions) \in Nat
         /\ at \in [1..Cardinality(positions) -> positions]
         /\ \A i, j \in 1..Cardinality(positions) : i < j => at[i] < at[j]
         /\ \A i, j \in 1..Cardinality(positions) : at[i] < at[j] => i < j
         /\ \A p \in positions : \E k \in 1..Cardinality(positions) : at[k] = p
<1>1. IsFiniteSet(positions)
  <2>1. IsFiniteSet(1..n)
    BY FS_Interval
  <2> QED BY <2>1, FS_Subset
<1> DEFINE c == Cardinality(positions)
<1>2. c \in Nat
  BY <1>1, FS_CardinalityType
<1>3. at \in [1..c -> positions] /\ \A i, j \in 1..c : i < j => at[i] < at[j]
  BY OrderExists DEF InOrder, Ascends
<1> HIDE DEF c
<1>4. \A i \in 1..c : at[i] \in Nat
  <2>1. \A i \in 1..c : at[i] \in 1..n
    BY <1>3
  <2> QED BY <2>1
<1>5. \A i, j \in 1..c : at[i] = at[j] => i = j
  BY <1>2, <1>3, <1>4
<1>6. \A i, j \in 1..c : at[i] < at[j] => i < j
  BY <1>2, <1>3, <1>4
<1>7. \A p \in positions : \E k \in 1..c : at[k] = p
  BY <1>1, <1>3, <1>5, AllListed DEF c
<1> QED BY <1>2, <1>3, <1>6, <1>7 DEF c

--------------------------------------------------------------------------------
(* Entries of a log that replays *)

(* What kind and type an element of a log has.                              *)
LEMMA EntryType ==
  ASSUME NEW log \in Seq(Mutation), NEW i \in 1..Len(log), log[i].kind = "entry"
  PROVE  /\ log[i] \in EntryMutation
         /\ log[i].id \in EntryId /\ log[i].parent \in EntryId \union {NoId}
         /\ log[i].message \in BOOLEAN
<1>1. log[i] \in Mutation
  BY ElementOfSeq
<1>2. log[i] \in EntryMutation
  BY <1>1 DEF Mutation, EntryMutation, StartMutation, FinishMutation, LaneMutation,
              NameMutation, LabelMutation
<1> QED BY <1>2 DEF EntryMutation

(* Which entries a prefix of a log has.                                     *)
LEMMA PrefixEntries ==
  ASSUME NEW log \in Seq(Mutation), NEW i \in 1..Len(log)
  PROVE  /\ \A id : id \in Entries(SubSeq(log, 1, i - 1)) <=>
              \E j \in 1..(i - 1) : log[j].kind = "entry" /\ log[j].id = id
         /\ \A id : id \in UsedIds(SubSeq(log, 1, i - 1)) <=>
              \E j \in 1..(i - 1) : (log[j].kind = "entry" \/ IsRecord(log[j])) /\ log[j].id = id
         /\ Len(SubSeq(log, 1, i - 1)) = i - 1
         /\ \A j \in 1..(i - 1) : j \in 1..Len(log)
<1> DEFINE u == SubSeq(log, 1, i - 1)
<1>1. Len(log) \in Nat /\ i - 1 \in 0..Len(log)
  BY LenProperties
<1>2. Len(u) = i - 1 /\ \A k \in 1..(i - 1) : u[k] = log[k]
  BY <1>1
<1> HIDE DEF u
<1>3. \A id : id \in Entries(u) <=> \E j \in 1..(i - 1) : log[j].kind = "entry" /\ log[j].id = id
  BY <1>2 DEF Entries
<1>4. \A id : id \in {u[k].id : k \in {j \in 1..Len(u) : IsRecord(u[j])}} <=>
        \E j \in 1..(i - 1) : IsRecord(log[j]) /\ log[j].id = id
  BY <1>2
<1>5. \A id : id \in UsedIds(u) <=>
        \E j \in 1..(i - 1) : (log[j].kind = "entry" \/ IsRecord(log[j])) /\ log[j].id = id
  BY <1>3, <1>4 DEF UsedIds
<1> QED BY <1>1, <1>2, <1>3, <1>5 DEF u

(* No two entries have the same id, and a parent is before its child.       *)
LEMMA EntriesApart ==
  ASSUME NEW log \in Seq(Mutation), Replays(log)
  PROVE  /\ \A i, j \in 1..Len(log) :
              log[i].kind = "entry" /\ log[j].kind = "entry" /\ log[i].id = log[j].id => i = j
         /\ \A i \in 1..Len(log) : log[i].kind = "entry" /\ log[i].parent # NoId =>
              \E p \in 1..(i - 1) :
                 p \in 1..Len(log) /\ log[p].kind = "entry" /\ log[p].id = log[i].parent
<1>0. Len(log) \in Nat
  BY LenProperties
<1>1. ASSUME NEW i \in 1..Len(log), log[i].kind = "entry"
      PROVE  /\ \A j \in 1..(i - 1) : ~(log[j].kind = "entry" /\ log[j].id = log[i].id)
             /\ log[i].parent # NoId =>
                  \E p \in 1..(i - 1) :
                    p \in 1..Len(log) /\ log[p].kind = "entry" /\ log[p].id = log[i].parent
  <2>1. Applies(SubSeq(log, 1, i - 1), log[i])
    BY DEF Replays
  <2>2. log[i].id \notin UsedIds(SubSeq(log, 1, i - 1))
    BY <1>1, <2>1 DEF Applies
  <2>3. log[i].parent # NoId => log[i].parent \in Entries(SubSeq(log, 1, i - 1))
    BY <1>1, <2>1 DEF Applies, IsRecord
  <2> QED BY <2>2, <2>3, PrefixEntries
<1>2. ASSUME NEW i \in 1..Len(log), NEW j \in 1..Len(log),
             log[i].kind = "entry", log[j].kind = "entry", log[i].id = log[j].id
      PROVE  i = j
  <2>1. CASE i < j
    <3>1. i \in 1..(j - 1)
      BY <2>1, <1>0
    <3> QED BY <1>1, <1>2, <3>1
  <2>2. CASE j < i
    <3>1. j \in 1..(i - 1)
      BY <2>2, <1>0
    <3> QED BY <1>1, <1>2, <3>1
  <2> QED BY <2>1, <2>2, <1>0
<1> QED BY <1>1, <1>2

(* EntryAt finds the one entry with an id.                                  *)
LEMMA EntryAtFinds ==
  ASSUME NEW log \in Seq(Mutation), Replays(log)
  PROVE  /\ \A id \in Entries(log) :
              /\ EntryAt(log, id) \in 1..Len(log)
              /\ log[EntryAt(log, id)].kind = "entry" /\ log[EntryAt(log, id)].id = id
         /\ \A i \in 1..Len(log) : log[i].kind = "entry" =>
              log[i].id \in Entries(log) /\ EntryAt(log, log[i].id) = i
<1>1. ASSUME NEW id \in Entries(log)
      PROVE  /\ EntryAt(log, id) \in 1..Len(log)
             /\ log[EntryAt(log, id)].kind = "entry" /\ log[EntryAt(log, id)].id = id
  <2>1. \E i \in 1..Len(log) : log[i].kind = "entry" /\ log[i].id = id
    BY <1>1 DEF Entries
  <2> QED BY <2>1 DEF EntryAt
<1>2. ASSUME NEW i \in 1..Len(log), log[i].kind = "entry"
      PROVE  log[i].id \in Entries(log) /\ EntryAt(log, log[i].id) = i
  <2>1. log[i].id \in Entries(log)
    BY <1>2 DEF Entries
  <2> QED BY <1>1, <1>2, <2>1, EntriesApart
<1> QED BY <1>1, <1>2

--------------------------------------------------------------------------------
(* Branches *)

(* A branch holds the entry it is the branch of and the parent of each of   *)
(* its entries, and nothing that is not an entry.                           *)
LEMMA BranchFacts ==
  ASSUME NEW log \in Seq(Mutation), Replays(log), NEW id \in Entries(log), id # NoId
  PROVE  /\ BranchOf(log, id) \subseteq Entries(log)
         /\ id \in BranchOf(log, id)
         /\ \A i \in 1..Len(log) :
              log[i].kind = "entry" /\ log[i].id \in BranchOf(log, id) /\ log[i].parent # NoId =>
                log[i].parent \in BranchOf(log, id)
<1>1. BranchOf(log, id) = {e \in Entries(log) :
          \A ids \in SUBSET Entries(log) : id \in ids /\ HasParents(log, ids) => e \in ids}
  BY DEF BranchOf
<1>2. ASSUME NEW i \in 1..Len(log), log[i].kind = "entry", log[i].id \in BranchOf(log, id),
             log[i].parent # NoId
      PROVE  log[i].parent \in BranchOf(log, id)
  <2>1. log[i].parent \in Entries(log)
    <3>1. PICK p \in 1..Len(log) : log[p].kind = "entry" /\ log[p].id = log[i].parent
      BY <1>2, EntriesApart
    <3> QED BY <3>1 DEF Entries
  <2>2. EntryAt(log, log[i].id) = i
    BY <1>2, EntryAtFinds
  <2>3. ASSUME NEW ids \in SUBSET Entries(log), id \in ids, HasParents(log, ids)
        PROVE  log[i].parent \in ids
    <3>1. log[i].id \in ids
      BY <1>1, <1>2, <2>3
    <3> QED BY <1>2, <2>2, <2>3, <3>1 DEF HasParents
  <2> QED BY <1>1, <2>1, <2>3
<1> QED BY <1>1, <1>2

--------------------------------------------------------------------------------
(* What a log says of its name and its labels *)

(* Names and labels are texts.                                              *)
LEMMA FactTypes ==
  ASSUME NEW log \in Seq(Mutation)
  PROVE  /\ Name(log) \in Text \union {NoText}
         /\ \A id : Label(log, id) \in Text \union {NoText}
<1>0. Len(log) \in Nat
  BY LenProperties
<1>1. Name(log) \in Text \union {NoText}
  <2>1. CASE SetsName(log) = {}
    BY <2>1 DEF Name
  <2>2. CASE SetsName(log) # {}
    <3> DEFINE i == Latest(SetsName(log))
    <3>1. i \in SetsName(log)
      <4>1. SetsName(log) \subseteq 1..Len(log)
        BY DEF SetsName
      <4> QED BY <1>0, <2>2, <4>1, LatestExists
    <3>2. Name(log) = log[i].name
      BY <2>2 DEF Name
    <3> HIDE DEF i
    <3>3. i \in 1..Len(log) /\ log[i].kind = "name" /\ log[i] \in Mutation
      BY <3>1, ElementOfSeq DEF SetsName
    <3>4. log[i] \in NameMutation
      BY <3>3 DEF Mutation, EntryMutation, StartMutation, FinishMutation, LaneMutation,
                  NameMutation, LabelMutation
    <3> QED BY <3>2, <3>4 DEF NameMutation
  <2> QED BY <2>1, <2>2
<1>2. ASSUME NEW id PROVE Label(log, id) \in Text \union {NoText}
  <2>1. CASE SetsLabel(log, id) = {}
    BY <2>1 DEF Label
  <2>2. CASE SetsLabel(log, id) # {}
    <3> DEFINE i == Latest(SetsLabel(log, id))
    <3>1. i \in SetsLabel(log, id)
      <4>1. SetsLabel(log, id) \subseteq 1..Len(log)
        BY DEF SetsLabel
      <4> QED BY <1>0, <2>2, <4>1, LatestExists
    <3>2. Label(log, id) = log[i].label
      BY <2>2 DEF Label
    <3> HIDE DEF i
    <3>3. i \in 1..Len(log) /\ log[i].kind = "label" /\ log[i] \in Mutation
      BY <3>1, ElementOfSeq DEF SetsLabel
    <3>4. log[i] \in LabelMutation
      BY <3>3 DEF Mutation, EntryMutation, StartMutation, FinishMutation, LaneMutation,
                  NameMutation, LabelMutation
    <3> QED BY <3>2, <3>4 DEF LabelMutation
  <2> QED BY <2>1, <2>2
<1> QED BY <1>1, <1>2

(* The latest of a single position is that position.                        *)
LEMMA LatestOfOne ==
  ASSUME NEW i \in Nat
  PROVE  Latest({i}) = i
<1>1. \E k \in {i} : \A j \in {i} : j <= k
  OBVIOUS
<1> QED BY <1>1 DEF Latest

(* The lanes of a log are finitely many.                                    *)
LEMMA LanesFinite ==
  ASSUME NEW log \in Seq(Mutation)
  PROVE  IsFiniteSet(Lanes(log)) /\ Lanes(log) \subseteq Lane
<1> DEFINE P == {j \in 1..Len(log) : log[j].kind = "lane"}
           f == [i \in P |-> log[i].lane]
           T == {log[i].lane : i \in P}
<1>1. Len(log) \in Nat
  BY LenProperties
<1>2. IsFiniteSet(P)
  <2>1. IsFiniteSet(1..Len(log)) /\ P \in SUBSET (1..Len(log))
    BY <1>1, FS_Interval
  <2> HIDE DEF P
  <2> QED BY <2>1, FS_Subset
<1>3. f \in Surjection(P, T)
  BY DEF Surjection
<1>4. IsFiniteSet(T)
  <2> HIDE DEF P, f, T
  <2> QED BY <1>2, <1>3, FS_Surjection
<1>5. Lanes(log) = T \union {Main}
  BY DEF Lanes
<1>6. IsFiniteSet(Lanes(log))
  <2> HIDE DEF T
  <2> QED BY <1>4, <1>5, FS_AddElement
<1>7. \A i \in P : log[i].lane \in Lane
  <2> SUFFICES ASSUME NEW i \in P PROVE log[i].lane \in Lane
    OBVIOUS
  <2>1. log[i] \in Mutation /\ log[i].kind = "lane"
    BY ElementOfSeq
  <2> QED BY <2>1 DEF Mutation, EntryMutation, StartMutation, FinishMutation, LaneMutation,
                      NameMutation, LabelMutation
<1> QED BY <1>5, <1>6, <1>7, LaneAssumption

--------------------------------------------------------------------------------
(* The parts of a fork *)

(* ent are the entries of src with one of these ids, in their order: at     *)
(* says where each of them is.                                              *)
CopyOf(src, ids, ent, at) ==
  /\ ent \in Seq(EntryMutation) /\ Len(ent) \in Nat
  /\ at \in [1..Len(ent) -> 1..Len(src)]
  /\ \A k \in 1..Len(ent) :
       /\ src[at[k]].kind = "entry" /\ src[at[k]].id \in ids
       /\ ent[k].kind = "entry" /\ ent[k].lane = NoLane
       /\ ent[k].id = src[at[k]].id /\ ent[k].parent = src[at[k]].parent
       /\ ent[k].message = src[at[k]].message
  /\ \A i, j \in 1..Len(ent) : (at[i] < at[j] => i < j) /\ (i < j => at[i] < at[j])
  /\ \A p \in 1..Len(src) : src[p].kind = "entry" /\ src[p].id \in ids =>
       \E k \in 1..Len(ent) : at[k] = p

(* createForkMutations copies the entries it chose.                         *)
LEMMA EntriesCopied ==
  ASSUME NEW src \in Seq(Mutation), NEW options, NEW ids, ids = CopiedIds(src, options),
         NEW ent, ent = CopiedEntries(src, options)
  PROVE  \E at : CopyOf(src, ids, ent, at)
<1> DEFINE P == {i \in 1..Len(src) : src[i].kind = "entry" /\ src[i].id \in ids}
           c == Cardinality(P)
           at == InOrder(P)
<1>1. ent = [k \in 1..c |-> [src[at[k]] EXCEPT !.lane = NoLane]]
  BY DEF CopiedEntries
<1>2. Len(src) \in Nat /\ P \in SUBSET (1..Len(src))
  BY LenProperties
<1>3. /\ c \in Nat /\ at \in [1..c -> P]
      /\ \A i, j \in 1..c : (at[i] < at[j] => i < j) /\ (i < j => at[i] < at[j])
      /\ \A p \in P : \E k \in 1..c : at[k] = p
  <2> HIDE DEF P
  <2> QED BY <1>2, InOrderLists
<1> HIDE DEF c, at
<1>4. ASSUME NEW k \in 1..c
      PROVE  /\ at[k] \in 1..Len(src) /\ src[at[k]].kind = "entry" /\ src[at[k]].id \in ids
             /\ ent[k] \in EntryMutation
             /\ ent[k].kind = "entry" /\ ent[k].lane = NoLane
             /\ ent[k].id = src[at[k]].id /\ ent[k].parent = src[at[k]].parent
             /\ ent[k].message = src[at[k]].message
  <2>1. at[k] \in P
    BY <1>3
  <2>2. at[k] \in 1..Len(src) /\ src[at[k]].kind = "entry" /\ src[at[k]].id \in ids
    BY <2>1
  <2>3. src[at[k]] \in EntryMutation
    BY <2>2, EntryType
  <2>4. ent[k] = [src[at[k]] EXCEPT !.lane = NoLane]
    BY <1>1
  <2> QED BY <2>2, <2>3, <2>4 DEF EntryMutation
<1>5. ent \in [1..c -> EntryMutation]
  BY <1>1, <1>4
<1>6. ent \in Seq(EntryMutation) /\ Len(ent) = c
  BY <1>3, <1>5
<1>7. at \in [1..c -> 1..Len(src)]
  BY <1>3
<1>8. \A p \in 1..Len(src) : src[p].kind = "entry" /\ src[p].id \in ids =>
        \E k \in 1..c : at[k] = p
  BY <1>3
<1>9. CopyOf(src, ids, ent, at)
  BY <1>3, <1>4, <1>6, <1>7, <1>8 DEF CopyOf
<1> QED BY <1>9

(* lab are the labels src has on the entries ent, one for each of them.     *)
LabelsFrom(src, ent, lab, at) ==
  /\ lab \in Seq(LabelMutation) /\ Len(lab) \in Nat
  /\ at \in [1..Len(lab) -> 1..Len(ent)]
  /\ \A k \in 1..Len(lab) :
       /\ lab[k].kind = "label" /\ lab[k].target = ent[at[k]].id
       /\ lab[k].label = Label(src, ent[at[k]].id) /\ Label(src, ent[at[k]].id) # NoText
  /\ \A i, j \in 1..Len(lab) : at[i] = at[j] => i = j
  /\ \A p \in 1..Len(ent) : Label(src, ent[p].id) # NoText => \E k \in 1..Len(lab) : at[k] = p

(* createForkMutations copies the labels of the copied entries.             *)
LEMMA LabelsCopied ==
  ASSUME NEW src \in Seq(Mutation), NEW ent \in Seq(EntryMutation),
         NEW lab, lab = LabelsOf(src, ent)
  PROVE  \E at : LabelsFrom(src, ent, lab, at)
<1> DEFINE P == {i \in 1..Len(ent) : Label(src, ent[i].id) # NoText}
           c == Cardinality(P)
           at == InOrder(P)
<1>1. lab = [k \in 1..c |-> [kind |-> "label", seq |-> 0, target |-> ent[at[k]].id,
                             label |-> Label(src, ent[at[k]].id)]]
  BY DEF LabelsOf
<1>2. Len(ent) \in Nat /\ P \in SUBSET (1..Len(ent))
  BY LenProperties
<1>3. /\ c \in Nat /\ at \in [1..c -> P]
      /\ \A i, j \in 1..c : i < j => at[i] < at[j]
      /\ \A p \in P : \E k \in 1..c : at[k] = p
  <2> HIDE DEF P
  <2> QED BY <1>2, InOrderLists
<1> HIDE DEF c, at
<1>4. ASSUME NEW k \in 1..c
      PROVE  /\ at[k] \in 1..Len(ent) /\ lab[k] \in LabelMutation
             /\ lab[k].kind = "label" /\ lab[k].target = ent[at[k]].id
             /\ lab[k].label = Label(src, ent[at[k]].id) /\ Label(src, ent[at[k]].id) # NoText
  <2>1. at[k] \in P
    BY <1>3
  <2>2. at[k] \in 1..Len(ent) /\ Label(src, ent[at[k]].id) # NoText
    BY <2>1
  <2>3. ent[at[k]].id \in EntryId
    <3>1. ent[at[k]] \in EntryMutation
      BY <2>2, ElementOfSeq
    <3> QED BY <3>1 DEF EntryMutation
  <2>4. Label(src, ent[at[k]].id) \in Text \union {NoText}
    BY FactTypes
  <2>5. lab[k] = [kind |-> "label", seq |-> 0, target |-> ent[at[k]].id,
                  label |-> Label(src, ent[at[k]].id)]
    BY <1>1
  <2> QED BY <2>2, <2>3, <2>4, <2>5 DEF LabelMutation
<1>5. lab \in [1..c -> LabelMutation]
  BY <1>1, <1>4
<1>6. lab \in Seq(LabelMutation) /\ Len(lab) = c
  BY <1>3, <1>5
<1>7. at \in [1..c -> 1..Len(ent)]
  BY <1>3
<1>8. \A i, j \in 1..c : at[i] = at[j] => i = j
  <2>1. \A i \in 1..c : at[i] \in Nat
    <3>1. \A i \in 1..c : at[i] \in 1..Len(ent)
      BY <1>7
    <3> QED BY <1>2, <3>1
  <2> QED BY <1>3, <2>1
<1>9. \A p \in 1..Len(ent) : Label(src, ent[p].id) # NoText => \E k \in 1..c : at[k] = p
  BY <1>3
<1>10. LabelsFrom(src, ent, lab, at)
  BY <1>3, <1>4, <1>6, <1>7, <1>8, <1>9 DEF LabelsFrom
<1> QED BY <1>10

(* lan names every lane once, with its leaf.                                *)
LanesFrom(lan, lanes) ==
  /\ lan \in Seq(LaneMutation) /\ Len(lan) \in Nat
  /\ \A k \in 1..Len(lan) : lan[k].kind = "lane" /\ lan[k].lane \in lanes
  /\ \A i, j \in 1..Len(lan) : lan[i].lane = lan[j].lane => i = j
  /\ \A lane \in lanes : \E k \in 1..Len(lan) : lan[k].lane = lane

(* A fork of the tree keeps the lanes and their leaves.                     *)
LEMMA TreeLanes ==
  ASSUME NEW src \in Seq(Mutation), Replays(src), NEW options, options.scope = "tree",
         NEW lan, lan = ForkLanes(src, options)
  PROVE  /\ LanesFrom(lan, Lanes(src))
         /\ \A k \in 1..Len(lan) : lan[k].leaf = Leaf(src, lan[k].lane)
<1> DEFINE q == SetToSeq(Lanes(src))
           c == Cardinality(Lanes(src))
<1>1. /\ c \in Nat /\ q \in [1..c -> Lanes(src)] /\ Len(q) = c
      /\ \A i, j \in 1..c : q[i] = q[j] => i = j
      /\ \A x \in Lanes(src) : \E k \in 1..c : q[k] = x
  BY LanesFinite, SetListed
<1>2. lan = [i \in 1..Len(q) |->
               [kind |-> "lane", seq |-> 0, lane |-> q[i], leaf |-> Leaf(src, q[i])]]
  BY DEF ForkLanes
<1> HIDE DEF q, c
<1>3. ASSUME NEW k \in 1..c
      PROVE  /\ lan[k] \in LaneMutation /\ lan[k].kind = "lane" /\ lan[k].lane = q[k]
             /\ q[k] \in Lanes(src) /\ lan[k].leaf = Leaf(src, q[k])
  <2>1. q[k] \in Lanes(src) /\ q[k] \in Lane
    BY <1>1, LanesFinite
  <2>2. Leaf(src, q[k]) \in EntryId \union {NoId}
    BY <2>1, LeafIsEntry
  <2>3. lan[k] = [kind |-> "lane", seq |-> 0, lane |-> q[k], leaf |-> Leaf(src, q[k])]
    BY <1>1, <1>2
  <2> QED BY <2>1, <2>2, <2>3 DEF LaneMutation
<1>4. lan \in [1..c -> LaneMutation]
  BY <1>1, <1>2, <1>3
<1>5. lan \in Seq(LaneMutation) /\ Len(lan) = c
  BY <1>1, <1>4
<1> QED BY <1>1, <1>3, <1>5 DEF LanesFrom

(* Where a fork of a branch ends: at an entry of the source, or nowhere.    *)
LEMMA TargetIsEntry ==
  ASSUME NEW src \in Seq(Mutation), Replays(src), NEW options \in ForkOptions,
         options.scope = "branch", ForkTargetOK(src, options), NEW t, t = ForkTarget(src, options)
  PROVE  t \in EntryId \union {NoId} /\ (t # NoId => t \in Entries(src))
<1> DEFINE s == Selected(src, options)
           e == EntryAt(src, s)
<1>1. CASE s = NoId
  BY <1>1 DEF ForkTarget
<1>2. CASE s # NoId
  <2>1. s \in Entries(src)
    BY <1>2 DEF ForkTargetOK
  <2>2. e \in 1..Len(src) /\ src[e].kind = "entry" /\ src[e].id = s
    BY <2>1, EntryAtFinds
  <2>3. t = s \/ t = src[e].parent
    BY DEF ForkTarget
  <2> HIDE DEF s, e
  <2>4. s \in EntryId /\ src[e].parent \in EntryId \union {NoId}
    BY <2>2, EntryType
  <2>5. src[e].parent # NoId => src[e].parent \in Entries(src)
    <3> SUFFICES ASSUME src[e].parent # NoId PROVE src[e].parent \in Entries(src)
      OBVIOUS
    <3>1. PICK p \in 1..Len(src) : src[p].kind = "entry" /\ src[p].id = src[e].parent
      BY <2>2, EntriesApart
    <3> QED BY <3>1 DEF Entries
  <2> QED BY <2>1, <2>3, <2>4, <2>5
<1> QED BY <1>1, <1>2

(* A fork of a branch has one lane, which ends at its target.               *)
LEMMA BranchLanes ==
  ASSUME NEW src \in Seq(Mutation), NEW options, options.scope = "branch",
         ForkTarget(src, options) \in EntryId \union {NoId},
         NEW lan, lan = ForkLanes(src, options)
  PROVE  /\ LanesFrom(lan, {Main})
         /\ \A k \in 1..Len(lan) : lan[k].leaf = ForkTarget(src, options)
<1> DEFINE t == ForkTarget(src, options)
           m == [kind |-> "lane", seq |-> 0, lane |-> Main, leaf |-> t]
<1>1. m \in LaneMutation /\ m.kind = "lane" /\ m.lane = Main /\ m.leaf = t
  BY LaneAssumption DEF LaneMutation
<1>2. lan = <<m>>
  BY DEF ForkLanes
<1> HIDE DEF m
<1>3. lan \in Seq(LaneMutation) /\ Len(lan) = 1 /\ lan[1] = m
  BY <1>1, <1>2
<1> QED BY <1>1, <1>3 DEF LanesFrom

(* A mutation keeps everything else when it gets another number.            *)
Renumber(m, i) == [m EXCEPT !.seq = i]

(* What renumbering a mutation leaves as it was.                            *)
LEMMA Renumbered ==
  ASSUME NEW m \in Mutation, NEW i \in Nat, NEW r, r = Renumber(m, i)
  PROVE  /\ r \in Mutation /\ r.seq = i /\ r.kind = m.kind
         /\ m.kind = "entry" =>
              r.id = m.id /\ r.lane = m.lane /\ r.parent = m.parent /\ r.message = m.message
         /\ m.kind = "lane" => r.lane = m.lane /\ r.leaf = m.leaf
         /\ m.kind = "name" => r.name = m.name
         /\ m.kind = "label" => r.target = m.target /\ r.label = m.label
<1>1. CASE m \in EntryMutation
  BY <1>1 DEF Renumber, EntryMutation, Mutation
<1>2. CASE m \in StartMutation
  BY <1>2 DEF Renumber, StartMutation, Mutation
<1>3. CASE m \in FinishMutation
  BY <1>3 DEF Renumber, FinishMutation, Mutation
<1>4. CASE m \in LaneMutation
  BY <1>4 DEF Renumber, LaneMutation, Mutation
<1>5. CASE m \in NameMutation
  BY <1>5 DEF Renumber, NameMutation, Mutation
<1>6. CASE m \in LabelMutation
  BY <1>6 DEF Renumber, LabelMutation, Mutation
<1> QED BY <1>1, <1>2, <1>3, <1>4, <1>5, <1>6 DEF Mutation

(* The fork f is its entries, up to a, its lanes, up to b, its name, up to  *)
(* c, and its labels, numbered in this order.                               *)
ForkParts(f, a, b, c, ent, lan, nam, lab) ==
  /\ f \in Seq(Mutation)
  /\ a \in Nat /\ b \in Nat /\ c \in Nat /\ Len(f) \in Nat /\ a <= b /\ b <= c /\ c <= Len(f)
  /\ a = Len(ent) /\ b = a + Len(lan) /\ c = b + Len(nam) /\ Len(f) = c + Len(lab)
  /\ \A j \in 1..Len(f) : f[j].seq = j
  /\ \A j \in 1..a :
       /\ f[j].kind = "entry" /\ f[j].lane = NoLane
       /\ f[j].id = ent[j].id /\ f[j].parent = ent[j].parent /\ f[j].message = ent[j].message
  /\ \A j \in (a + 1)..b :
       f[j].kind = "lane" /\ f[j].lane = lan[j - a].lane /\ f[j].leaf = lan[j - a].leaf
  /\ \A j \in (b + 1)..c : f[j].kind = "name" /\ f[j].name = nam[j - b].name
  /\ \A j \in (c + 1)..Len(f) :
       f[j].kind = "label" /\ f[j].target = lab[j - c].target /\ f[j].label = lab[j - c].label

(* Types of the parts.                                                      *)
PartTypes(ent, lan, nam, lab) ==
  /\ ent \in Seq(EntryMutation) /\ \A k \in 1..Len(ent) : ent[k].lane = NoLane
  /\ lan \in Seq(LaneMutation) /\ nam \in Seq(NameMutation) /\ lab \in Seq(LabelMutation)

(* createForkMutations puts the parts behind each other.                    *)
LEMMA PartsOfFork ==
  ASSUME NEW ent, NEW lan, NEW nam, NEW lab, PartTypes(ent, lan, nam, lab),
         NEW all, all = ent \o lan \o (nam \o lab),
         NEW f, f = [i \in 1..Len(all) |-> [all[i] EXCEPT !.seq = i]]
  PROVE  ForkParts(f, Len(ent), Len(ent) + Len(lan), Len(ent) + Len(lan) + Len(nam),
                   ent, lan, nam, lab)
<1> DEFINE a == Len(ent)
           b == a + Len(lan)
           c == b + Len(nam)
           n == c + Len(lab)
<1>1. /\ EntryMutation \subseteq Mutation /\ LaneMutation \subseteq Mutation
      /\ NameMutation \subseteq Mutation /\ LabelMutation \subseteq Mutation
  BY DEF Mutation
<1>2. /\ ent \in Seq(Mutation) /\ lan \in Seq(Mutation) /\ nam \in Seq(Mutation)
      /\ lab \in Seq(Mutation)
  BY <1>1, SeqMonotonic DEF PartTypes
<1>3. /\ Len(ent) \in Nat /\ Len(lan) \in Nat /\ Len(nam) \in Nat /\ Len(lab) \in Nat
  BY <1>2, LenProperties
<1> DEFINE x == ent \o lan
           y == nam \o lab
<1>4. /\ x \in Seq(Mutation) /\ Len(x) = Len(ent) + Len(lan)
      /\ \A i \in 1..Len(x) : x[i] = IF i <= Len(ent) THEN ent[i] ELSE lan[i - Len(ent)]
  BY <1>2, ConcatProperties
<1>5. /\ y \in Seq(Mutation) /\ Len(y) = Len(nam) + Len(lab)
      /\ \A i \in 1..Len(y) : y[i] = IF i <= Len(nam) THEN nam[i] ELSE lab[i - Len(nam)]
  BY <1>2, ConcatProperties
<1>6. /\ all \in Seq(Mutation) /\ Len(all) = Len(x) + Len(y)
      /\ \A i \in 1..Len(all) : all[i] = IF i <= Len(x) THEN x[i] ELSE y[i - Len(x)]
  <2> HIDE DEF x, y
  <2>1. all = x \o y
    BY DEF x, y
  <2> QED BY ONLY <1>4, <1>5, <2>1, ConcatProperties
<1> HIDE DEF x, y
<1>7. n \in Nat /\ Len(all) = n /\ a \in Nat /\ b \in Nat /\ c \in Nat /\ a <= b /\ b <= c /\ c <= n
  BY <1>3, <1>4, <1>5, <1>6
<1>8. /\ \A j \in 1..a : j \in 1..n /\ all[j] = ent[j]
      /\ \A j \in (a + 1)..b : j \in 1..n /\ j - a \in 1..Len(lan) /\ all[j] = lan[j - a]
      /\ \A j \in (b + 1)..c : j \in 1..n /\ j - b \in 1..Len(nam) /\ all[j] = nam[j - b]
      /\ \A j \in (c + 1)..n : j \in 1..n /\ j - c \in 1..Len(lab) /\ all[j] = lab[j - c]
  <2>1. ASSUME NEW j \in 1..a PROVE j \in 1..n /\ all[j] = ent[j]
    <3>1. j \in 1..n /\ j \in 1..Len(x) /\ j <= Len(ent) /\ j <= Len(x)
      BY <1>3, <1>4, <1>7
    <3> QED BY <1>4, <1>6, <1>7, <3>1
  <2>2. ASSUME NEW j \in (a + 1)..b
        PROVE  j \in 1..n /\ j - a \in 1..Len(lan) /\ all[j] = lan[j - a]
    <3>1. j \in 1..n /\ j \in 1..Len(x) /\ ~(j <= Len(ent)) /\ j <= Len(x) /\ j - a \in 1..Len(lan)
      BY <1>3, <1>4, <1>7
    <3> QED BY <1>4, <1>6, <1>7, <3>1
  <2>3. ASSUME NEW j \in (b + 1)..c
        PROVE  j \in 1..n /\ j - b \in 1..Len(nam) /\ all[j] = nam[j - b]
    <3>1. /\ j \in 1..n /\ ~(j <= Len(x)) /\ j - b \in 1..Len(nam) /\ j - b = j - Len(x)
          /\ j - b \in 1..Len(y) /\ j - b <= Len(nam)
      BY <1>3, <1>4, <1>5, <1>7
    <3> QED BY <1>5, <1>6, <1>7, <3>1
  <2>4. ASSUME NEW j \in (c + 1)..n
        PROVE  j \in 1..n /\ j - c \in 1..Len(lab) /\ all[j] = lab[j - c]
    <3>1. /\ j \in 1..n /\ ~(j <= Len(x)) /\ j - c \in 1..Len(lab) /\ j - b = j - Len(x)
          /\ j - b \in 1..Len(y) /\ ~(j - b <= Len(nam)) /\ j - c = (j - b) - Len(nam)
      BY <1>3, <1>4, <1>5, <1>7
    <3> QED BY <1>5, <1>6, <1>7, <3>1
  <2> QED BY <2>1, <2>2, <2>3, <2>4
<1>9. ASSUME NEW j \in 1..n
      PROVE  f[j] = Renumber(all[j], j) /\ all[j] \in Mutation /\ f[j] \in Mutation
             /\ f[j].seq = j /\ j \in Nat
  <2>1. f[j] = Renumber(all[j], j)
    BY <1>7 DEF Renumber
  <2>2. all[j] \in Mutation
    BY <1>6, <1>7, ElementOfSeq
  <2>3. j \in Nat
    BY <1>7
  <2> QED BY ONLY <2>1, <2>2, <2>3, Renumbered
<1>10. f \in Seq(Mutation) /\ Len(f) = n
  <2>1. f \in [1..n -> Mutation]
    BY <1>7, <1>9
  <2> HIDE DEF n
  <2> QED BY ONLY <1>7, <2>1
<1> HIDE DEF a, b, c, n
<1>11. ASSUME NEW j \in 1..a
       PROVE  /\ f[j].kind = "entry" /\ f[j].lane = NoLane
              /\ f[j].id = ent[j].id /\ f[j].parent = ent[j].parent /\ f[j].message = ent[j].message
  <2>1. ent[j] \in EntryMutation /\ ent[j].lane = NoLane
    BY ElementOfSeq DEF PartTypes, a
  <2>2. ent[j].kind = "entry"
    BY <2>1 DEF EntryMutation
  <2>3. j \in 1..n /\ all[j] = ent[j]
    BY <1>8
  <2>4. f[j] = Renumber(ent[j], j) /\ ent[j] \in Mutation /\ j \in Nat
    BY <1>9, <2>3
  <2> QED BY ONLY <2>1, <2>2, <2>4, Renumbered
<1>12. ASSUME NEW j \in (a + 1)..b
       PROVE  f[j].kind = "lane" /\ f[j].lane = lan[j - a].lane /\ f[j].leaf = lan[j - a].leaf
  <2>1. lan[j - a] \in LaneMutation
    BY <1>8, ElementOfSeq DEF PartTypes
  <2>2. lan[j - a].kind = "lane"
    BY <2>1 DEF LaneMutation
  <2>3. j \in 1..n /\ all[j] = lan[j - a]
    BY <1>8
  <2>4. f[j] = Renumber(lan[j - a], j) /\ lan[j - a] \in Mutation /\ j \in Nat
    BY <1>9, <2>3
  <2> QED BY ONLY <2>2, <2>4, Renumbered
<1>13. ASSUME NEW j \in (b + 1)..c
       PROVE  f[j].kind = "name" /\ f[j].name = nam[j - b].name
  <2>1. nam[j - b] \in NameMutation
    BY <1>8, ElementOfSeq DEF PartTypes
  <2>2. nam[j - b].kind = "name"
    BY <2>1 DEF NameMutation
  <2>3. j \in 1..n /\ all[j] = nam[j - b]
    BY <1>8
  <2>4. f[j] = Renumber(nam[j - b], j) /\ nam[j - b] \in Mutation /\ j \in Nat
    BY <1>9, <2>3
  <2> QED BY ONLY <2>2, <2>4, Renumbered
<1>14. ASSUME NEW j \in (c + 1)..n
       PROVE  f[j].kind = "label" /\ f[j].target = lab[j - c].target /\ f[j].label = lab[j - c].label
  <2>1. lab[j - c] \in LabelMutation
    BY <1>8, ElementOfSeq DEF PartTypes
  <2>2. lab[j - c].kind = "label"
    BY <2>1 DEF LabelMutation
  <2>3. j \in 1..n /\ all[j] = lab[j - c]
    BY <1>8
  <2>4. f[j] = Renumber(lab[j - c], j) /\ lab[j - c] \in Mutation /\ j \in Nat
    BY <1>9, <2>3
  <2> QED BY ONLY <2>2, <2>4, Renumbered
<1>15. a = Len(ent) /\ b = a + Len(lan) /\ c = b + Len(nam) /\ Len(f) = c + Len(lab)
  BY <1>10 DEF a, b, c, n
<1>16. ForkParts(f, a, b, c, ent, lan, nam, lab)
  BY ONLY <1>7, <1>9, <1>10, <1>11, <1>12, <1>13, <1>14, <1>15 DEF ForkParts
<1> QED BY <1>15, <1>16

--------------------------------------------------------------------------------
(* A fork replays and shows what the source showed *)

(* What createForkMutations sees to: f is made of the entries of src with   *)
(* these ids, which include every parent and every leaf of these lanes, of  *)
(* the lanes, the name and the labels.                                      *)
ForkOf(src, ids, lanes, f, a, b, c, ent, lan, nam, lab) ==
  /\ src \in Seq(Mutation) /\ Replays(src)
  /\ ForkParts(f, a, b, c, ent, lan, nam, lab)
  /\ \E at : CopyOf(src, ids, ent, at)
  /\ \A i \in 1..Len(src) :
       src[i].kind = "entry" /\ src[i].id \in ids /\ src[i].parent # NoId => src[i].parent \in ids
  /\ LanesFrom(lan, lanes)
  /\ \A k \in 1..Len(lan) : lan[k].leaf # NoId => lan[k].leaf \in ids \intersect Entries(src)
  /\ nam = NameFact(src)
  /\ \E at : LabelsFrom(src, ent, lab, at)

(* Which part a mutation of the fork belongs to.                            *)
LEMMA ForkKinds ==
  ASSUME NEW f, NEW a, NEW b, NEW c, NEW ent, NEW lan, NEW nam, NEW lab,
         ForkParts(f, a, b, c, ent, lan, nam, lab)
  PROVE  \A j \in 1..Len(f) :
           /\ f[j].kind \in {"entry", "lane", "name", "label"}
           /\ (f[j].kind = "entry" <=> j \in 1..a)
           /\ (f[j].kind = "lane" <=> j \in (a + 1)..b)
           /\ (f[j].kind = "name" <=> j \in (b + 1)..c)
           /\ (f[j].kind = "label" <=> j \in (c + 1)..Len(f))
<1> SUFFICES ASSUME NEW j \in 1..Len(f)
             PROVE  /\ f[j].kind \in {"entry", "lane", "name", "label"}
                    /\ (f[j].kind = "entry" <=> j \in 1..a)
                    /\ (f[j].kind = "lane" <=> j \in (a + 1)..b)
                    /\ (f[j].kind = "name" <=> j \in (b + 1)..c)
                    /\ (f[j].kind = "label" <=> j \in (c + 1)..Len(f))
  OBVIOUS
<1>1. a \in Nat /\ b \in Nat /\ c \in Nat /\ Len(f) \in Nat /\ a <= b /\ b <= c /\ c <= Len(f)
  BY DEF ForkParts
<1>2. /\ j \in 1..a => f[j].kind = "entry"
      /\ j \in (a + 1)..b => f[j].kind = "lane"
      /\ j \in (b + 1)..c => f[j].kind = "name"
      /\ j \in (c + 1)..Len(f) => f[j].kind = "label"
  BY DEF ForkParts
<1>3. /\ j \in 1..a \/ j \in (a + 1)..b \/ j \in (b + 1)..c \/ j \in (c + 1)..Len(f)
  BY <1>1
<1>4. /\ j \in 1..a => j \notin (a + 1)..b /\ j \notin (b + 1)..c /\ j \notin (c + 1)..Len(f)
      /\ j \in (a + 1)..b => j \notin (b + 1)..c /\ j \notin (c + 1)..Len(f)
      /\ j \in (b + 1)..c => j \notin (c + 1)..Len(f)
  BY <1>1
<1> QED BY <1>2, <1>3, <1>4

(* The copied entries are different, and none comes before its parent.      *)
LEMMA CopiedInOrder ==
  ASSUME NEW src, NEW ids, NEW lanes, NEW f, NEW a, NEW b, NEW c, NEW ent, NEW lan, NEW nam,
         NEW lab, ForkOf(src, ids, lanes, f, a, b, c, ent, lan, nam, lab)
  PROVE  /\ a \in Nat /\ a = Len(ent)
         /\ \A i, j \in 1..a : ent[i].id = ent[j].id => i = j
         /\ \A id \in ids \intersect Entries(src) : \E k \in 1..a : ent[k].id = id
         /\ \A k \in 1..a :
              /\ ent[k].id \in ids /\ ent[k].id \in Entries(src)
              /\ ent[k].parent = src[EntryAt(src, ent[k].id)].parent
              /\ ent[k].message = src[EntryAt(src, ent[k].id)].message
              /\ ent[k].parent # NoId => \E p \in 1..(k - 1) : ent[p].id = ent[k].parent
<1>1. src \in Seq(Mutation) /\ Replays(src) /\ Len(src) \in Nat /\ a \in Nat /\ a = Len(ent)
  BY LenProperties DEF ForkOf, ForkParts
<1>2. PICK at : CopyOf(src, ids, ent, at)
  BY DEF ForkOf
<1>3. /\ at \in [1..a -> 1..Len(src)]
      /\ \A k \in 1..a :
           /\ src[at[k]].kind = "entry" /\ src[at[k]].id \in ids
           /\ ent[k].id = src[at[k]].id /\ ent[k].parent = src[at[k]].parent
           /\ ent[k].message = src[at[k]].message
      /\ \A i, j \in 1..a : (at[i] < at[j] => i < j) /\ (i < j => at[i] < at[j])
      /\ \A p \in 1..Len(src) : src[p].kind = "entry" /\ src[p].id \in ids =>
           \E k \in 1..a : at[k] = p
  BY <1>1, <1>2 DEF CopyOf
<1>4. \A i \in 1..Len(src) :
        src[i].kind = "entry" /\ src[i].id \in ids /\ src[i].parent # NoId => src[i].parent \in ids
  BY DEF ForkOf
<1>5. \A k \in 1..a : at[k] \in 1..Len(src) /\ at[k] \in Nat
  <2>1. \A k \in 1..a : at[k] \in 1..Len(src)
    BY <1>3
  <2> QED BY <1>1, <2>1
<1>6. ASSUME NEW i \in 1..a, NEW j \in 1..a, ent[i].id = ent[j].id PROVE i = j
  <2>1. at[i] = at[j]
    BY <1>1, <1>3, <1>5, <1>6, EntriesApart
  <2> QED BY <1>1, <1>3, <1>5, <2>1
<1>7. ASSUME NEW id \in ids \intersect Entries(src) PROVE \E k \in 1..a : ent[k].id = id
  <2>1. PICK p \in 1..Len(src) : src[p].kind = "entry" /\ src[p].id = id
    BY <1>7 DEF Entries
  <2> QED BY <1>3, <1>7, <2>1
<1>8. ASSUME NEW k \in 1..a
      PROVE  /\ ent[k].id \in ids /\ ent[k].id \in Entries(src)
             /\ EntryAt(src, ent[k].id) = at[k]
             /\ ent[k].parent # NoId => \E p \in 1..(k - 1) : ent[p].id = ent[k].parent
  <2>1. ent[k].id \in ids /\ ent[k].id \in Entries(src) /\ EntryAt(src, ent[k].id) = at[k]
    BY <1>1, <1>3, <1>5, EntryAtFinds
  <2>2. ASSUME ent[k].parent # NoId PROVE \E p \in 1..(k - 1) : ent[p].id = ent[k].parent
    <3>1. PICK p \in 1..(at[k] - 1) : p \in 1..Len(src) /\ src[p].kind = "entry"
                                      /\ src[p].id = src[at[k]].parent
      BY <1>1, <1>3, <1>5, <2>2, EntriesApart
    <3>2. src[p].id \in ids
      BY <1>3, <1>4, <1>5, <2>2, <3>1
    <3>3. PICK q \in 1..a : at[q] = p
      BY <1>3, <3>1, <3>2
    <3>4. at[q] < at[k]
      BY <1>5, <3>1, <3>3
    <3>5. q < k
      BY <1>3, <3>4
    <3>6. q \in 1..(k - 1)
      BY <1>1, <3>5
    <3> QED BY <1>3, <3>1, <3>3, <3>6
  <2> QED BY <2>1, <2>2
<1>9. \A k \in 1..a : /\ ent[k].parent = src[EntryAt(src, ent[k].id)].parent
                      /\ ent[k].message = src[EntryAt(src, ent[k].id)].message
  BY <1>3, <1>8
<1> QED BY <1>1, <1>6, <1>7, <1>8, <1>9

(* Exactly the chosen entries of the source are entries of the fork.        *)
LEMMA ForkEntries ==
  ASSUME NEW src, NEW ids, NEW lanes, NEW f, NEW a, NEW b, NEW c, NEW ent, NEW lan, NEW nam,
         NEW lab, ForkOf(src, ids, lanes, f, a, b, c, ent, lan, nam, lab)
  PROVE  Entries(f) = ids \intersect Entries(src)
<1>1. /\ f \in Seq(Mutation) /\ Len(f) \in Nat /\ a \in Nat /\ a <= Len(f)
      /\ \A j \in 1..a : f[j].id = ent[j].id
  BY LenProperties DEF ForkOf, ForkParts
<1>2. \A j \in 1..Len(f) : f[j].kind = "entry" <=> j \in 1..a
  BY ForkKinds DEF ForkOf
<1>3. \A j \in 1..a : j \in 1..Len(f)
  BY <1>1
<1>4. Entries(f) = {ent[j].id : j \in 1..a}
  <2>1. {j \in 1..Len(f) : f[j].kind = "entry"} = 1..a
    BY <1>2, <1>3
  <2> QED BY <1>1, <2>1 DEF Entries
<1> QED BY <1>4, CopiedInOrder

(* The fork replays without an error.                                       *)
LEMMA ForkReplays ==
  ASSUME NEW src, NEW ids, NEW lanes, NEW f, NEW a, NEW b, NEW c, NEW ent, NEW lan, NEW nam,
         NEW lab, ForkOf(src, ids, lanes, f, a, b, c, ent, lan, nam, lab)
  PROVE  Replays(f)
<1>1. /\ f \in Seq(Mutation) /\ Len(f) \in Nat
      /\ a \in Nat /\ b \in Nat /\ c \in Nat /\ a <= b /\ b <= c /\ c <= Len(f)
      /\ a = Len(ent) /\ b = a + Len(lan) /\ c = b + Len(nam) /\ Len(f) = c + Len(lab)
      /\ \A j \in 1..Len(f) : f[j].seq = j
      /\ \A j \in 1..a : f[j].id = ent[j].id /\ f[j].parent = ent[j].parent /\ f[j].lane = NoLane
      /\ \A j \in (a + 1)..b : f[j].leaf = lan[j - a].leaf
      /\ \A j \in (c + 1)..Len(f) : f[j].target = lab[j - c].target
  <2>1. ForkParts(f, a, b, c, ent, lan, nam, lab)
    BY DEF ForkOf
  <2> QED BY ONLY <2>1 DEF ForkParts
<1>2. \A j \in 1..Len(f) :
           /\ f[j].kind \in {"entry", "lane", "name", "label"}
           /\ (f[j].kind = "entry" <=> j \in 1..a)
           /\ (f[j].kind = "lane" <=> j \in (a + 1)..b)
           /\ (f[j].kind = "label" <=> j \in (c + 1)..Len(f))
  BY ForkKinds DEF ForkOf
<1> SUFFICES ASSUME NEW j \in 1..Len(f) PROVE Applies(SubSeq(f, 1, j - 1), f[j])
  BY DEF Replays
<1> DEFINE u == SubSeq(f, 1, j - 1)
<1> SUFFICES Applies(u, f[j])
  OBVIOUS
<1>3. f[j].seq = nextSequence(u)
  <2>1. Len(u) = j - 1
    BY <1>1, PrefixEntries
  <2>2. j \in Nat
    BY <1>1
  <2> QED BY <1>1, <2>1, <2>2 DEF nextSequence
<1>4. \A k \in 1..a : k \in 1..Len(f)
  BY <1>1
<1>5. \A id : id \in Entries(u) <=> \E k \in 1..(j - 1) : k \in 1..a /\ ent[k].id = id
  <2>1. \A id : id \in Entries(u) <=>
                  \E k \in 1..(j - 1) : f[k].kind = "entry" /\ f[k].id = id
    BY <1>1, PrefixEntries
  <2>2. \A k \in 1..(j - 1) : k \in 1..Len(f)
    BY <1>1
  <2> HIDE DEF u
  <2>3. \A k \in 1..(j - 1) : (f[k].kind = "entry" <=> k \in 1..a)
    BY <1>2, <2>2
  <2>4. \A k \in 1..a : f[k].id = ent[k].id
    BY <1>1
  <2> QED BY <2>1, <2>3, <2>4
<1>6. \A id : id \in UsedIds(u) <=> id \in Entries(u)
  <2>1. \A id : id \in UsedIds(u) <=> \E k \in 1..(j - 1) :
                  (f[k].kind = "entry" \/ IsRecord(f[k])) /\ f[k].id = id
    BY <1>1, PrefixEntries
  <2>2. \A k \in 1..(j - 1) : ~IsRecord(f[k])
    <3>1. \A k \in 1..(j - 1) : k \in 1..Len(f)
      BY <1>1
    <3> QED BY <1>2, <3>1 DEF IsRecord
  <2>3. \A id : id \in Entries(u) <=>
                  \E k \in 1..(j - 1) : f[k].kind = "entry" /\ f[k].id = id
    BY <1>1, PrefixEntries
  <2> HIDE DEF u
  <2> QED BY <2>1, <2>2, <2>3
<1> HIDE DEF u
<1>7. CASE j \in 1..a
  <2>1. f[j].kind = "entry" /\ f[j].lane = NoLane /\ f[j].id = ent[j].id
        /\ f[j].parent = ent[j].parent
    BY <1>1, <1>2, <1>7
  <2>2. f[j].id \notin UsedIds(u)
    <3>1. \A k \in 1..(j - 1) : k \in 1..a /\ k # j
      BY <1>1, <1>7
    <3>2. \A k \in 1..(j - 1) : ent[k].id # ent[j].id
      BY <1>7, <3>1, CopiedInOrder
    <3> QED BY <1>5, <1>6, <2>1, <3>2
  <2>3. f[j].parent # NoId => f[j].parent \in Entries(u)
    <3>1. \A k \in 1..(j - 1) : k \in 1..a
      BY <1>1, <1>7
    <3>2. ent[j].parent # NoId => \E p \in 1..(j - 1) : ent[p].id = ent[j].parent
      BY <1>7, CopiedInOrder
    <3> QED BY <1>5, <2>1, <3>1, <3>2
  <2> QED BY <1>3, <2>1, <2>2, <2>3 DEF Applies, IsRecord
<1>8. \A id \in ids \intersect Entries(src) : j > a => id \in Entries(u)
  <2> SUFFICES ASSUME NEW id \in ids \intersect Entries(src), j > a PROVE id \in Entries(u)
    OBVIOUS
  <2>1. PICK k \in 1..a : ent[k].id = id
    BY CopiedInOrder
  <2>2. k \in 1..(j - 1)
    BY <1>1
  <2> QED BY <1>5, <2>1, <2>2
<1>9. CASE j \in (a + 1)..b
  <2>1. f[j].kind = "lane" /\ f[j].leaf = lan[j - a].leaf /\ j - a \in 1..Len(lan) /\ j > a
    BY <1>1, <1>2, <1>9
  <2>2. lan[j - a].leaf # NoId => lan[j - a].leaf \in ids \intersect Entries(src)
    BY <2>1 DEF ForkOf
  <2>3. f[j].leaf # NoId => f[j].leaf \in Entries(u)
    BY <1>8, <2>1, <2>2
  <2> QED BY <1>3, <2>1, <2>3 DEF Applies, IsRecord
<1>10. CASE j \in (b + 1)..c
  <2>1. f[j].kind = "name"
    BY <1>10 DEF ForkOf, ForkParts
  <2> QED BY <1>3, <2>1 DEF Applies, IsRecord
<1>11. CASE j \in (c + 1)..Len(f)
  <2>1. f[j].kind = "label" /\ f[j].target = lab[j - c].target /\ j - c \in 1..Len(lab) /\ j > a
    BY <1>1, <1>2, <1>11
  <2>2. PICK at : LabelsFrom(src, ent, lab, at)
    BY DEF ForkOf
  <2>3. at[j - c] \in 1..a /\ lab[j - c].target = ent[at[j - c]].id
    BY <1>1, <2>1, <2>2 DEF LabelsFrom
  <2>4. ent[at[j - c]].id \in ids \intersect Entries(src)
    BY <2>3, CopiedInOrder
  <2>5. f[j].target \in Entries(u)
    BY <1>8, <2>1, <2>3, <2>4
  <2> QED BY <1>3, <2>1, <2>5 DEF Applies, IsRecord
<1> QED BY <1>1, <1>7, <1>9, <1>10, <1>11

(* A copied entry has the parent and the kind it had.                       *)
LEMMA ForkKeepsEntries ==
  ASSUME NEW src, NEW ids, NEW lanes, NEW f, NEW a, NEW b, NEW c, NEW ent, NEW lan, NEW nam,
         NEW lab, ForkOf(src, ids, lanes, f, a, b, c, ent, lan, nam, lab), NEW id \in Entries(f)
  PROVE  /\ id \in Entries(src)
         /\ f[EntryAt(f, id)].parent = src[EntryAt(src, id)].parent
         /\ f[EntryAt(f, id)].message = src[EntryAt(src, id)].message
<1>1. ForkParts(f, a, b, c, ent, lan, nam, lab) /\ f \in Seq(Mutation) /\ Replays(f)
  <2>1. ForkParts(f, a, b, c, ent, lan, nam, lab)
    BY DEF ForkOf
  <2>2. f \in Seq(Mutation)
    BY ONLY <2>1 DEF ForkParts
  <2> QED BY <2>1, <2>2, ForkReplays
<1> DEFINE k == EntryAt(f, id)
<1>2. k \in 1..Len(f) /\ f[k].kind = "entry" /\ f[k].id = id
  BY <1>1, EntryAtFinds
<1> HIDE DEF k
<1>3. k \in 1..a
  BY <1>1, <1>2, ForkKinds
<1>4. f[k].id = ent[k].id /\ f[k].parent = ent[k].parent /\ f[k].message = ent[k].message
  BY <1>1, <1>3 DEF ForkParts
<1>5. /\ ent[k].id \in Entries(src)
      /\ ent[k].parent = src[EntryAt(src, ent[k].id)].parent
      /\ ent[k].message = src[EntryAt(src, ent[k].id)].message
  BY <1>3, CopiedInOrder
<1>6. ent[k].id = id
  BY <1>2, <1>4
<1>7. id \in Entries(src) /\ f[k].parent = src[EntryAt(src, id)].parent
      /\ f[k].message = src[EntryAt(src, id)].message
  BY <1>4, <1>5, <1>6
<1> QED BY <1>7 DEF k

(* A copied entry has the label it had.                                     *)
LEMMA ForkKeepsLabels ==
  ASSUME NEW src, NEW ids, NEW lanes, NEW f, NEW a, NEW b, NEW c, NEW ent, NEW lan, NEW nam,
         NEW lab, ForkOf(src, ids, lanes, f, a, b, c, ent, lan, nam, lab), NEW id \in Entries(f)
  PROVE  Label(f, id) = Label(src, id)
<1>1. ForkParts(f, a, b, c, ent, lan, nam, lab)
  BY DEF ForkOf
<1>2. /\ c \in Nat /\ Len(f) \in Nat /\ Len(f) = c + Len(lab) /\ a = Len(ent)
      /\ \A j \in (c + 1)..Len(f) : f[j].target = lab[j - c].target /\ f[j].label = lab[j - c].label
  BY ONLY <1>1 DEF ForkParts
<1>3. \A j \in 1..Len(f) : f[j].kind = "label" <=> j \in (c + 1)..Len(f)
  BY <1>1, ForkKinds
<1>4. PICK p \in 1..a : ent[p].id = id
  <2>1. id \in ids \intersect Entries(src)
    BY ForkEntries
  <2> QED BY <2>1, CopiedInOrder
<1>5. PICK at : LabelsFrom(src, ent, lab, at)
  BY DEF ForkOf
<1>6. /\ Len(lab) \in Nat
      /\ \A k \in 1..Len(lab) :
           /\ at[k] \in 1..a /\ lab[k].target = ent[at[k]].id
           /\ lab[k].label = Label(src, ent[at[k]].id) /\ Label(src, ent[at[k]].id) # NoText
      /\ \A i, j \in 1..Len(lab) : at[i] = at[j] => i = j
      /\ Label(src, ent[p].id) # NoText => \E k \in 1..Len(lab) : at[k] = p
  BY <1>2, <1>4, <1>5 DEF LabelsFrom
<1>7. \A j \in SetsLabel(f, id) :
        j \in Nat /\ j - c \in 1..Len(lab) /\ at[j - c] = p /\ Label(src, id) # NoText
  <2> SUFFICES ASSUME NEW j \in SetsLabel(f, id)
               PROVE  j \in Nat /\ j - c \in 1..Len(lab) /\ at[j - c] = p /\ Label(src, id) # NoText
    OBVIOUS
  <2>1. j \in 1..Len(f) /\ f[j].kind = "label" /\ f[j].target = id
    BY DEF SetsLabel
  <2>2. j \in (c + 1)..Len(f)
    BY <1>3, <2>1
  <2>3. j \in Nat /\ j - c \in 1..Len(lab)
    BY <1>2, <1>6, <2>2
  <2>4. lab[j - c].target = id
    BY <1>2, <2>1, <2>2
  <2>5. at[j - c] \in 1..a /\ ent[at[j - c]].id = ent[p].id /\ Label(src, ent[at[j - c]].id) # NoText
    BY <1>4, <1>6, <2>3, <2>4
  <2>6. at[j - c] = p
    BY <2>5, CopiedInOrder
  <2> QED BY <1>4, <2>3, <2>5, <2>6
<1>8. CASE Label(src, id) = NoText
  <2>1. SetsLabel(f, id) = {}
    BY <1>7, <1>8
  <2> QED BY <1>8, <2>1 DEF Label
<1>9. CASE Label(src, id) # NoText
  <2>1. PICK k \in 1..Len(lab) : at[k] = p
    BY <1>4, <1>6, <1>9
  <2>2. c + k \in (c + 1)..Len(f) /\ (c + k) - c = k /\ c + k \in 1..Len(f) /\ c + k \in Nat
    BY <1>2, <1>6
  <2>3. /\ f[c + k].kind = "label" /\ f[c + k].target = id /\ f[c + k].label = Label(src, id)
    <3>1. f[c + k].kind = "label"
      BY <1>3, <2>2
    <3>2. f[c + k].target = lab[k].target /\ f[c + k].label = lab[k].label
      BY <1>2, <2>2
    <3> QED BY <1>4, <1>6, <2>1, <3>1, <3>2
  <2>4. c + k \in SetsLabel(f, id)
    BY <2>2, <2>3 DEF SetsLabel
  <2>5. \A j \in SetsLabel(f, id) : j = c + k
    <3> SUFFICES ASSUME NEW j \in SetsLabel(f, id) PROVE j = c + k
      OBVIOUS
    <3>1. j \in Nat /\ j - c \in 1..Len(lab) /\ at[j - c] = at[k]
      BY <1>7, <2>1
    <3>2. j - c = k
      BY <1>6, <2>1, <3>1
    <3> QED BY <1>2, <3>1, <3>2
  <2>6. SetsLabel(f, id) = {c + k}
    BY <2>4, <2>5
  <2>7. Latest(SetsLabel(f, id)) = c + k
    BY <2>2, <2>6, LatestOfOne
  <2>8. SetsLabel(f, id) # {}
    BY <2>4
  <2> QED BY <2>3, <2>7, <2>8 DEF Label
<1> QED BY <1>8, <1>9

(* The fork has the name of the source.                                     *)
LEMMA ForkKeepsName ==
  ASSUME NEW src, NEW ids, NEW lanes, NEW f, NEW a, NEW b, NEW c, NEW ent, NEW lan, NEW nam,
         NEW lab, ForkOf(src, ids, lanes, f, a, b, c, ent, lan, nam, lab)
  PROVE  Name(f) = Name(src)
<1>1. ForkParts(f, a, b, c, ent, lan, nam, lab) /\ nam = NameFact(src)
  BY DEF ForkOf
<1>2. /\ b \in Nat /\ c \in Nat /\ Len(f) \in Nat /\ c <= Len(f) /\ c = b + Len(nam)
      /\ \A j \in (b + 1)..c : f[j].name = nam[j - b].name
  BY ONLY <1>1 DEF ForkParts
<1>3. \A j \in 1..Len(f) : f[j].kind = "name" <=> j \in (b + 1)..c
  BY <1>1, ForkKinds
<1>4. CASE Name(src) = NoText
  <2>1. Len(nam) = 0
    BY <1>1, <1>4 DEF NameFact
  <2>2. \A j \in 1..Len(f) : j \notin (b + 1)..c
    BY <1>2, <2>1
  <2>3. SetsName(f) = {}
    BY <1>3, <2>2 DEF SetsName
  <2> QED BY <1>4, <2>3 DEF Name
<1>5. CASE Name(src) # NoText
  <2>1. Len(nam) = 1 /\ nam[1].name = Name(src)
    BY <1>1, <1>5 DEF NameFact
  <2>2. b + 1 \in 1..Len(f) /\ b + 1 \in (b + 1)..c /\ (b + 1) - b = 1 /\ b + 1 \in Nat
        /\ \A j \in (b + 1)..c : j = b + 1
    BY <1>2, <2>1
  <2>3. f[b + 1].name = Name(src)
    BY <1>2, <2>1, <2>2
  <2>4. SetsName(f) = {b + 1}
    BY <1>3, <2>2 DEF SetsName
  <2>5. Latest(SetsName(f)) = b + 1 /\ SetsName(f) # {}
    BY <2>2, <2>4, LatestOfOne
  <2> QED BY <2>3, <2>5 DEF Name
<1> QED BY <1>4, <1>5

(* No operation is open in a fork.                                          *)
LEMMA ForkIsAtRest ==
  ASSUME NEW f, NEW a, NEW b, NEW c, NEW ent, NEW lan, NEW nam, NEW lab,
         ForkParts(f, a, b, c, ent, lan, nam, lab), NEW lane
  PROVE  OpenOperations(f, lane) = {}
<1>1. \A j \in 1..Len(f) : f[j].kind # "start"
  BY ForkKinds
<1> QED BY <1>1 DEF OpenOperations

(* The fork has the lanes it was given, with their leaves.                  *)
LEMMA ForkKeepsLanes ==
  ASSUME NEW src, NEW ids, NEW lanes, Main \in lanes, NEW f, NEW a, NEW b, NEW c, NEW ent,
         NEW lan, NEW nam, NEW lab, ForkOf(src, ids, lanes, f, a, b, c, ent, lan, nam, lab)
  PROVE  /\ Lanes(f) = lanes
         /\ \A k \in 1..Len(lan) : Leaf(f, lan[k].lane) = lan[k].leaf
<1>1. ForkParts(f, a, b, c, ent, lan, nam, lab) /\ LanesFrom(lan, lanes)
  BY DEF ForkOf
<1>2. /\ a \in Nat /\ b \in Nat /\ Len(f) \in Nat /\ b <= Len(f) /\ b = a + Len(lan)
      /\ \A j \in 1..a : f[j].lane = NoLane
      /\ \A j \in (a + 1)..b : f[j].lane = lan[j - a].lane /\ f[j].leaf = lan[j - a].leaf
  <2>1. ForkParts(f, a, b, c, ent, lan, nam, lab)
    BY <1>1
  <2>2. c \in Nat /\ b <= c /\ c <= Len(f) /\ Len(f) \in Nat /\ b \in Nat
    BY ONLY <2>1 DEF ForkParts
  <2>3. b <= Len(f)
    BY <2>2
  <2> QED BY ONLY <2>1, <2>3 DEF ForkParts
<1>3. \A j \in 1..Len(f) : (f[j].kind = "entry" <=> j \in 1..a)
                           /\ (f[j].kind = "lane" <=> j \in (a + 1)..b)
  BY <1>1, ForkKinds
<1>4. /\ Len(lan) \in Nat
      /\ \A k \in 1..Len(lan) : lan[k].lane \in lanes /\ lan[k].lane # NoLane
      /\ \A i, j \in 1..Len(lan) : lan[i].lane = lan[j].lane => i = j
      /\ \A lane \in lanes : \E k \in 1..Len(lan) : lan[k].lane = lane
  <2>1. \A k \in 1..Len(lan) : lan[k].lane \in Lane
    <3> SUFFICES ASSUME NEW k \in 1..Len(lan) PROVE lan[k].lane \in Lane
      OBVIOUS
    <3>1. lan[k] \in LaneMutation
      BY <1>1, ElementOfSeq DEF LanesFrom
    <3> QED BY <3>1 DEF LaneMutation
  <2> QED BY <1>1, <2>1, LaneAssumption DEF LanesFrom
<1>5. \A k \in 1..Len(lan) : a + k \in 1..Len(f) /\ a + k \in (a + 1)..b /\ (a + k) - a = k
  BY <1>2, <1>4
<1>6. \A j \in (a + 1)..b : j \in 1..Len(f) /\ j - a \in 1..Len(lan) /\ j = a + (j - a)
  BY <1>2, <1>4
<1>7. Lanes(f) = lanes
  <2> DEFINE T == {f[i].lane : i \in {j \in 1..Len(f) : f[j].kind = "lane"}}
  <2>1. T \subseteq lanes
    <3> SUFFICES ASSUME NEW i \in 1..Len(f), f[i].kind = "lane" PROVE f[i].lane \in lanes
      OBVIOUS
    <3>1. i \in (a + 1)..b
      BY <1>3
    <3> QED BY <1>2, <1>4, <1>6, <3>1
  <2>2. lanes \subseteq T
    <3> SUFFICES ASSUME NEW lane \in lanes
                 PROVE  \E i \in 1..Len(f) : f[i].kind = "lane" /\ f[i].lane = lane
      OBVIOUS
    <3>1. PICK k \in 1..Len(lan) : lan[k].lane = lane
      BY <1>4
    <3>2. a + k \in 1..Len(f) /\ f[a + k].kind = "lane" /\ f[a + k].lane = lan[k].lane
      BY <1>2, <1>3, <1>5
    <3> QED BY <3>1, <3>2
  <2>3. Lanes(f) = {Main} \union T
    BY DEF Lanes
  <2> HIDE DEF T
  <2> QED BY <2>1, <2>2, <2>3
<1>8. ASSUME NEW k \in 1..Len(lan) PROVE Leaf(f, lan[k].lane) = lan[k].leaf
  <2> DEFINE lane == lan[k].lane
  <2>1. /\ a + k \in 1..Len(f) /\ a + k \in Nat /\ f[a + k].kind = "lane"
        /\ f[a + k].lane = lane /\ f[a + k].leaf = lan[k].leaf
    BY <1>2, <1>3, <1>5
  <2>2. a + k \in SetsLeaf(f, lane)
    BY <2>1 DEF SetsLeaf
  <2>3. \A j \in SetsLeaf(f, lane) : j = a + k
    <3> SUFFICES ASSUME NEW j \in SetsLeaf(f, lane) PROVE j = a + k
      OBVIOUS
    <3>1. j \in 1..Len(f) /\ f[j].kind \in {"entry", "lane"} /\ f[j].lane = lane
      BY DEF SetsLeaf
    <3>2. j \notin 1..a
      BY <1>2, <1>4, <3>1
    <3>3. j \in (a + 1)..b
      BY <1>3, <3>1, <3>2
    <3>4. j - a \in 1..Len(lan) /\ lan[j - a].lane = lan[k].lane
      BY <1>2, <1>6, <3>1, <3>3
    <3>5. j - a = k
      BY <1>4, <3>4
    <3> QED BY <1>6, <3>3, <3>5
  <2>4. SetsLeaf(f, lane) = {a + k}
    BY <2>2, <2>3
  <2>5. Latest(SetsLeaf(f, lane)) = a + k /\ SetsLeaf(f, lane) # {}
    BY <2>1, <2>4, LatestOfOne
  <2>6. Leaf(f, lane) = LeafSetBy(f[a + k])
    BY <2>5 DEF Leaf
  <2> QED BY <2>1, <2>6 DEF LeafSetBy
<1> QED BY <1>7, <1>8

(* The fork of a branch is the branch of its leaf.                          *)
LEMMA ForkIsBranch ==
  ASSUME NEW src, NEW t, t # NoId => t \in Entries(src), NEW ids, ids = BranchOf(src, t),
         NEW lanes, NEW f, NEW a, NEW b, NEW c, NEW ent, NEW lan, NEW nam, NEW lab,
         ForkOf(src, ids, lanes, f, a, b, c, ent, lan, nam, lab)
  PROVE  Entries(f) = BranchOf(f, t)
<1>0. src \in Seq(Mutation) /\ Replays(src)
  BY DEF ForkOf
<1>1. CASE t = NoId
  <2>1. ids = {} /\ BranchOf(f, t) = {}
    BY <1>1 DEF BranchOf
  <2> QED BY <2>1, ForkEntries
<1>2. CASE t # NoId
  <2>1. ids \subseteq Entries(src)
    BY <1>0, <1>2, BranchFacts
  <2>2. Entries(f) = ids
    BY <2>1, ForkEntries
  <2>3. ids = {e \in Entries(src) :
           \A s \in SUBSET Entries(src) : t \in s /\ HasParents(src, s) => e \in s}
    BY <1>2 DEF BranchOf
  <2>4. BranchOf(f, t) = {e \in Entries(f) :
           \A s \in SUBSET Entries(f) : t \in s /\ HasParents(f, s) => e \in s}
    BY <1>2 DEF BranchOf
  <2>5. ASSUME NEW e \in Entries(f), NEW s \in SUBSET Entries(f), t \in s, HasParents(f, s)
        PROVE  e \in s
    <3>1. s \in SUBSET Entries(src)
      BY <2>1, <2>2
    <3>2. HasParents(src, s)
      <4> SUFFICES ASSUME NEW id \in s
                   PROVE  src[EntryAt(src, id)].parent \in s \union {NoId}
        BY DEF HasParents
      <4>1. f[EntryAt(f, id)].parent \in s \union {NoId}
        BY <2>5 DEF HasParents
      <4>2. id \in Entries(f)
        OBVIOUS
      <4>3. f[EntryAt(f, id)].parent = src[EntryAt(src, id)].parent
        BY <4>2, ForkKeepsEntries
      <4> QED BY <4>1, <4>3
    <3>3. e \in ids
      BY <2>2
    <3> QED BY <2>3, <2>5, <3>1, <3>2, <3>3
  <2> QED BY <2>4, <2>5
<1> QED BY <1>1, <1>2

(* What a fork promises of the log it was made from.                        *)
Faithful(src, fork, options) ==
  /\ Replays(fork)
  /\ \A id \in Entries(fork) :
       /\ id \in Entries(src)
       /\ fork[EntryAt(fork, id)].parent = src[EntryAt(src, id)].parent
       /\ fork[EntryAt(fork, id)].message = src[EntryAt(src, id)].message
       /\ Label(fork, id) = Label(src, id)
  /\ Name(fork) = Name(src)
  /\ \A lane \in Lane : OpenOperations(fork, lane) = {}
  /\ IF options.scope = "tree"
     THEN /\ Entries(fork) = Entries(src) /\ Lanes(fork) = Lanes(src)
          /\ \A lane \in Lanes(src) : Leaf(fork, lane) = Leaf(src, lane)
     ELSE /\ Lanes(fork) = {Main}
          /\ Entries(fork) = BranchOf(fork, Leaf(fork, Main))

(* The name of a session as at most one mutation.                           *)
LEMMA NameFactType ==
  ASSUME NEW src \in Seq(Mutation)
  PROVE  NameFact(src) \in Seq(NameMutation)
<1>1. CASE Name(src) = NoText
  <2>1. NameFact(src) = <<>>
    BY <1>1 DEF NameFact
  <2> QED BY <2>1, EmptySeq
<1>2. CASE Name(src) # NoText
  <2> DEFINE m == [kind |-> "name", seq |-> 0, name |-> Name(src)]
  <2>1. m \in NameMutation
    BY FactTypes DEF NameMutation
  <2>2. NameFact(src) = <<m>>
    BY <1>2 DEF NameFact
  <2> HIDE DEF m
  <2> QED BY <2>1, <2>2
<1> QED BY <1>1, <1>2

(* createForkMutations makes a fork of the entries and the lanes it chose,  *)
(* when these include all parents and leaves.                               *)
LEMMA ForkIsBuilt ==
  ASSUME NEW src \in Seq(Mutation), Replays(src), NEW options, NEW f, NEW ids, NEW lanes,
         NEW ent, NEW lan, NEW nam, NEW lab,
         f = createForkMutations(src, options), ids = CopiedIds(src, options),
         ent = CopiedEntries(src, options), lan = ForkLanes(src, options),
         nam = NameFact(src), lab = LabelsOf(src, ent),
         \A i \in 1..Len(src) :
           src[i].kind = "entry" /\ src[i].id \in ids /\ src[i].parent # NoId => src[i].parent \in ids,
         LanesFrom(lan, lanes),
         \A k \in 1..Len(lan) : lan[k].leaf # NoId => lan[k].leaf \in ids \intersect Entries(src)
  PROVE  \E a, b, c : ForkOf(src, ids, lanes, f, a, b, c, ent, lan, nam, lab)
<1>1. PICK at : CopyOf(src, ids, ent, at)
  BY EntriesCopied
<1>2. ent \in Seq(EntryMutation) /\ \A k \in 1..Len(ent) : ent[k].lane = NoLane
  BY ONLY <1>1 DEF CopyOf
<1>3. PICK lat : LabelsFrom(src, ent, lab, lat)
  BY <1>2, LabelsCopied
<1>4. lab \in Seq(LabelMutation)
  BY ONLY <1>3 DEF LabelsFrom
<1>5. lan \in Seq(LaneMutation)
  BY DEF LanesFrom
<1>6. nam \in Seq(NameMutation)
  BY NameFactType
<1>7. PartTypes(ent, lan, nam, lab)
  BY ONLY <1>2, <1>4, <1>5, <1>6 DEF PartTypes
<1> DEFINE all == ent \o lan \o (nam \o lab)
<1>8. f = [i \in 1..Len(all) |-> [all[i] EXCEPT !.seq = i]]
  BY DEF createForkMutations, ForkFacts
<1>9. ForkParts(f, Len(ent), Len(ent) + Len(lan), Len(ent) + Len(lan) + Len(nam),
                ent, lan, nam, lab)
  <2> HIDE DEF all
  <2>1. all = ent \o lan \o (nam \o lab)
    BY DEF all
  <2> QED BY ONLY <1>7, <1>8, <2>1, PartsOfFork
<1>10. ForkOf(src, ids, lanes, f, Len(ent), Len(ent) + Len(lan), Len(ent) + Len(lan) + Len(nam),
              ent, lan, nam, lab)
  BY <1>1, <1>3, <1>9 DEF ForkOf
<1> QED BY <1>10

(* The fork of a log that replays is faithful to it.                        *)
LEMMA ForkFaithful ==
  ASSUME NEW src \in Seq(Mutation), Replays(src), NEW options \in ForkOptions,
         ForkTargetOK(src, options), NEW f, f = createForkMutations(src, options)
  PROVE  Faithful(src, f, options)
<1> DEFINE ids == CopiedIds(src, options)
           ent == CopiedEntries(src, options)
           lan == ForkLanes(src, options)
           nam == NameFact(src)
           lab == LabelsOf(src, ent)
           t == ForkTarget(src, options)
           lanes == IF options.scope = "tree" THEN Lanes(src) ELSE {Main}
<1>1. options.scope \in {"tree", "branch"}
  BY DEF ForkOptions
<1>2. Main \in lanes
  BY DEF Lanes
<1>3. options.scope = "branch" => t \in EntryId \union {NoId} /\ (t # NoId => t \in Entries(src))
  BY TargetIsEntry
<1>4. /\ options.scope = "tree" => ids = Entries(src)
      /\ options.scope = "branch" => ids = BranchOf(src, t)
  BY DEF CopiedIds
<1>5. LanesFrom(lan, lanes)
      /\ (options.scope = "tree" => \A k \in 1..Len(lan) : lan[k].leaf = Leaf(src, lan[k].lane))
      /\ (options.scope = "branch" => \A k \in 1..Len(lan) : lan[k].leaf = t)
  <2>1. CASE options.scope = "tree"
    <3>1. LanesFrom(lan, Lanes(src)) /\ \A k \in 1..Len(lan) : lan[k].leaf = Leaf(src, lan[k].lane)
      BY <2>1, TreeLanes
    <3> QED BY <2>1, <3>1
  <2>2. CASE options.scope = "branch"
    <3>1. LanesFrom(lan, {Main}) /\ \A k \in 1..Len(lan) : lan[k].leaf = t
      <4>1. ForkTarget(src, options) \in EntryId \union {NoId}
        BY <1>3, <2>2
      <4> QED BY <2>2, <4>1, BranchLanes
    <3> QED BY <2>2, <3>1
  <2> QED BY <1>1, <2>1, <2>2
<1> HIDE DEF ids, ent, lan, nam, lab, t, lanes
<1>6. \A i \in 1..Len(src) :
        src[i].kind = "entry" /\ src[i].id \in ids /\ src[i].parent # NoId => src[i].parent \in ids
  <2> SUFFICES ASSUME NEW i \in 1..Len(src), src[i].kind = "entry", src[i].id \in ids,
                      src[i].parent # NoId
               PROVE  src[i].parent \in ids
    OBVIOUS
  <2>1. CASE options.scope = "tree"
    <3>1. PICK p \in 1..Len(src) : src[p].kind = "entry" /\ src[p].id = src[i].parent
      BY EntriesApart
    <3>2. src[i].parent \in Entries(src)
      BY <3>1 DEF Entries
    <3> QED BY <1>4, <2>1, <3>2
  <2>2. CASE options.scope = "branch"
    <3>1. t # NoId
      BY <1>4, <2>2 DEF BranchOf
    <3> QED BY <1>3, <1>4, <2>2, <3>1, BranchFacts
  <2> QED BY <1>1, <2>1, <2>2
<1>7. \A k \in 1..Len(lan) : lan[k].leaf # NoId => lan[k].leaf \in ids \intersect Entries(src)
  <2> SUFFICES ASSUME NEW k \in 1..Len(lan), lan[k].leaf # NoId
               PROVE  lan[k].leaf \in ids \intersect Entries(src)
    OBVIOUS
  <2>1. CASE options.scope = "tree"
    <3>1. lan[k].lane \in Lanes(src)
      BY <1>5, <2>1 DEF LanesFrom, lanes
    <3>2. lan[k].lane \in Lane
      BY <3>1, LanesFinite
    <3>3. Leaf(src, lan[k].lane) # NoId => Leaf(src, lan[k].lane) \in Entries(src)
      BY <3>2, LeafIsEntry
    <3> QED BY <1>4, <1>5, <2>1, <3>3
  <2>2. CASE options.scope = "branch"
    <3>1. t # NoId /\ t \in Entries(src)
      BY <1>3, <1>5, <2>2
    <3>2. t \in BranchOf(src, t)
      BY <3>1, BranchFacts
    <3> QED BY <1>4, <1>5, <2>2, <3>1, <3>2
  <2> QED BY <1>1, <2>1, <2>2
<1>8. PICK a, b, c : ForkOf(src, ids, lanes, f, a, b, c, ent, lan, nam, lab)
  <2>1. ids = CopiedIds(src, options) /\ ent = CopiedEntries(src, options)
        /\ lan = ForkLanes(src, options) /\ nam = NameFact(src) /\ lab = LabelsOf(src, ent)
    BY DEF ids, ent, lan, nam, lab
  <2> QED BY <1>5, <1>6, <1>7, <2>1, ForkIsBuilt
<1>9. Replays(f)
  BY <1>8, ForkReplays
<1>10. \A id \in Entries(f) :
         /\ id \in Entries(src)
         /\ f[EntryAt(f, id)].parent = src[EntryAt(src, id)].parent
         /\ f[EntryAt(f, id)].message = src[EntryAt(src, id)].message
         /\ Label(f, id) = Label(src, id)
  BY <1>8, ForkKeepsEntries, ForkKeepsLabels
<1>11. Name(f) = Name(src)
  BY <1>8, ForkKeepsName
<1>12. \A lane \in Lane : OpenOperations(f, lane) = {}
  <2>1. ForkParts(f, a, b, c, ent, lan, nam, lab)
    BY <1>8 DEF ForkOf
  <2> QED BY <2>1, ForkIsAtRest
<1>13. Lanes(f) = lanes /\ \A k \in 1..Len(lan) : Leaf(f, lan[k].lane) = lan[k].leaf
  BY ONLY <1>2, <1>8, ForkKeepsLanes
<1>14. Entries(f) = ids \intersect Entries(src)
  BY <1>8, ForkEntries
<1>15. CASE options.scope = "tree"
  <2>1. Entries(f) = Entries(src) /\ lanes = Lanes(src)
    BY <1>4, <1>14, <1>15 DEF lanes
  <2>2. ASSUME NEW lane \in Lanes(src) PROVE Leaf(f, lane) = Leaf(src, lane)
    <3>1. PICK k \in 1..Len(lan) : lan[k].lane = lane
      BY <1>5, <2>1, <2>2 DEF LanesFrom
    <3> QED BY <1>5, <1>13, <1>15, <3>1
  <2> QED BY <1>9, <1>10, <1>11, <1>12, <1>13, <1>15, <2>1, <2>2 DEF Faithful
<1>16. CASE options.scope = "branch"
  <2>1. lanes = {Main}
    BY <1>16 DEF lanes
  <2>2. PICK k \in 1..Len(lan) : lan[k].lane = Main
    BY <1>2, <1>5 DEF LanesFrom
  <2>3. Leaf(f, Main) = t
    BY <1>5, <1>13, <1>16, <2>2
  <2>4. Entries(f) = BranchOf(f, t)
    BY <1>3, <1>4, <1>8, <1>16, ForkIsBranch
  <2> QED BY <1>9, <1>10, <1>11, <1>12, <1>13, <1>16, <2>1, <2>3, <2>4 DEF Faithful
<1> QED BY <1>1, <1>15, <1>16

--------------------------------------------------------------------------------
(* Forks are faithful, whoever else writes to the file and however appends  *)
(* fail: load() takes only a log that replays.                              *)

(* A log that was read replays, and a published fork was made from one.     *)
LoaderLog ==
  /\ loader.pc \in {"stage", "publish", "newline"} =>
       /\ loader = [pc |-> loader.pc, goal |-> loader.goal, log |-> loader.log]
       /\ loader.log \in Seq(Mutation) /\ Replays(loader.log)
       /\ loader.goal = "open" => up = "down"
  /\ loader.pc = "fork" => loader.log \in Seq(Mutation) /\ Replays(loader.log)
  /\ loader.pc = "published" =>
       /\ loader.of \in Seq(Mutation) /\ Replays(loader.of)
       /\ loader.options \in ForkOptions /\ ForkTargetOK(loader.of, loader.options)
       /\ loader.log = createForkMutations(loader.of, loader.options)

(* What an append in progress is: an operation of an open storage that      *)
(* applies to what its callers know.                                        *)
WriterLog ==
  /\ Replays(state)
  /\ writing # NoMutation => up = "open" /\ Applies(state, writing)

(* Holds with a shared file and with torn failures too, when the file may   *)
(* lose what callers know.                                                  *)
LogInv == TypeOK /\ WriterLog /\ LoaderLog

FileType == [header: {"none", "torn", "ok"}, lines: Seq(Line), ended: BOOLEAN]

(* Replacing the last line leaves a sequence of lines.                      *)
LEMMA SetLastType ==
  ASSUME NEW S, NEW s \in Seq(S), NEW x \in S
  PROVE  SetLast(s, x) \in Seq(S)
<1>1. Len(s) \in Nat /\ s \in [1..Len(s) -> S]
  BY LenProperties
<1>2. [s EXCEPT ![Len(s)] = x] \in [1..Len(s) -> S]
  BY <1>1
<1>3. \A q : q \in [1..Len(s) -> S] => q \in Seq(S)
  BY <1>1
<1> QED BY <1>2, <1>3 DEF SetLast

(* Whatever an append has written so far, the file consists of lines.       *)
LEMMA AppendedType ==
  ASSUME NEW f \in FileType, NEW m \in Mutation, NEW upTo \in {"part", "json", "line"}
  PROVE  Appended(f, m, upTo) \in FileType
<1>1. f.lines \in Seq(Line) /\ m \in Line /\ Partial \in Line /\ Garbage \in Line
  BY Kinds DEF FileType
<1>2. /\ Append(f.lines, Partial) \in Seq(Line) /\ Append(f.lines, Garbage) \in Seq(Line)
      /\ SetLast(f.lines, Garbage) \in Seq(Line) /\ SetLast(f.lines, m) \in Seq(Line)
  BY <1>1, SetLastType, AppendProperties
<1>3. CASE f.ended
  <2>1. Appended(f, m, upTo) = [f EXCEPT !.lines = Append(f.lines, IF upTo = "part" THEN Partial ELSE Garbage),
                                         !.ended = (upTo = "line")]
    BY <1>3 DEF Appended
  <2> QED BY <1>2, <2>1 DEF FileType
<1>4. CASE ~f.ended
  <2>1. PICK q \in Seq(Line) : Appended(f, m, upTo) = [f EXCEPT !.lines = q, !.ended = (upTo = "line")]
    <3>1. CASE upTo = "part"
      BY <1>2, <1>4, <3>1 DEF Appended
    <3>2. CASE upTo = "json" /\ Last(f.lines) = Partial
      BY <1>2, <1>4, <3>2 DEF Appended
    <3>3. CASE upTo # "part" /\ ~(upTo = "json" /\ Last(f.lines) = Partial)
      BY <1>1, <1>4, <3>3 DEF Appended
    <3> QED BY <3>1, <3>2, <3>3
  <2> QED BY <2>1 DEF FileType
<1> QED BY <1>3, <1>4

(* The newline of a repair leaves a file of lines too.                      *)
LEMMA NewlineType ==
  ASSUME NEW f \in FileType
  PROVE  Appended(f, NoMutation, "line") \in FileType
<1>1. f.lines \in Seq(Line) /\ Append(f.lines, Garbage) \in Seq(Line)
  BY Kinds, AppendProperties DEF FileType
<1>2. CASE f.ended
  <2>1. Appended(f, NoMutation, "line") = [f EXCEPT !.lines = Append(f.lines, Garbage), !.ended = TRUE]
    BY <1>2 DEF Appended
  <2> QED BY <1>1, <2>1 DEF FileType
<1>3. CASE ~f.ended
  <2>1. Appended(f, NoMutation, "line") = [f EXCEPT !.lines = f.lines, !.ended = TRUE]
    BY <1>3 DEF Appended
  <2> QED BY <1>1, <2>1 DEF FileType
<1> QED BY <1>2, <1>3

(* What load() reads of a file it does not reject is a log that replays.    *)
LEMMA LoadableReplays ==
  ASSUME NEW f \in FileType, Loadable(f)
  PROVE  Intact(f) \in Seq(Mutation) /\ Replays(Intact(f))
<1>1. f.lines \in Seq(Line) /\ Len(f.lines) \in Nat
  BY LenProperties DEF FileType
<1>2. Intact(f) \in Seq(Line)
  <2>1. CASE TornTail(f)
    <3>1. Len(f.lines) - 1 \in 0..Len(f.lines)
      BY <1>1, <2>1, EmptySeq, LenProperties DEF TornTail
    <3>2. SubSeq(f.lines, 1, Len(f.lines) - 1) \in Seq(Line)
      BY <1>1, <3>1
    <3> QED BY <2>1, <3>2 DEF Intact, Front
  <2>2. CASE ~TornTail(f)
    BY <1>1, <2>2 DEF Intact
  <2> QED BY <2>1, <2>2
<1>3. \A i \in 1..Len(Intact(f)) : Intact(f)[i] \in Mutation
  <2>1. \A i \in 1..Len(Intact(f)) : Intact(f)[i] \in Line
    BY <1>2, ElementOfSeq
  <2> QED BY <2>1 DEF Loadable, Line
<1>4. Intact(f) \in Seq(Mutation)
  <2> DEFINE q == Intact(f)
  <2>1. q \in [1..Len(q) -> Mutation] /\ Len(q) \in Nat
    <3> HIDE DEF q
    <3>1. q \in Seq(Line) /\ \A i \in 1..Len(q) : q[i] \in Mutation
      BY <1>2, <1>3 DEF q
    <3>2. Len(q) \in Nat /\ q \in [1..Len(q) -> Line]
      BY <3>1, LenProperties
    <3> QED BY <3>1, <3>2
  <2> HIDE DEF q
  <2>2. q \in Seq(Mutation)
    BY <2>1
  <2> QED BY <2>2 DEF q
<1> QED BY <1>4 DEF Loadable

(* What load() hands on keeps the invariant.                                *)
LEMMA LoadedKeeps ==
  ASSUME LogInv, NEW goal, NEW log \in Seq(Mutation), Replays(log), Loaded(goal, log),
         goal = "open" => up = "down", file' \in FileType, UNCHANGED <<writing, written>>,
         orphan' \in BOOLEAN
  PROVE  LogInv'
<1>1. CASE goal = "open"
  <2>1. up' = "open" /\ state' = log /\ loader' = Idle
    BY <1>1 DEF Loaded
  <2>2. writing = NoMutation
    BY <1>1 DEF LogInv, WriterLog
  <2> QED BY <2>1, <2>2 DEF LogInv, TypeOK, WriterLog, LoaderLog, Idle, FileType
<1>2. CASE goal # "open"
  <2>1. loader' = [pc |-> "fork", log |-> log] /\ UNCHANGED <<up, state>>
    BY <1>2 DEF Loaded
  <2> QED BY <2>1 DEF LogInv, TypeOK, WriterLog, LoaderLog, FileType
<1> QED BY <1>1, <1>2

(* The first state.                                                         *)
LEMMA LogInit == Init => LogInv
<1> SUFFICES ASSUME Init PROVE LogInv
  OBVIOUS
<1>1. <<>> \in Seq(Line) /\ <<>> \in Seq(Mutation) /\ Len(<<>>) = 0
  BY EmptySeq
<1>2. Replays(state)
  BY <1>1 DEF Init, Replays
<1> QED BY <1>1, <1>2 DEF Init, LogInv, TypeOK, WriterLog, LoaderLog, Idle

(* Steps of the writer.                                                     *)
LEMMA WriterKeepsLog ==
  ASSUME LogInv,
         \/ Create \/ WriteHeader \/ (\E o \in Operation : Begin(o))
         \/ WriteMore \/ Acknowledge \/ RejectAppend \/ Crash
  PROVE  LogInv'
<1>0. file \in FileType /\ state \in Seq(Mutation) /\ Replays(state)
  BY DEF LogInv, TypeOK, WriterLog, FileType
<1>1. CASE Create
  BY <1>1 DEF Create, LogInv, TypeOK, WriterLog, LoaderLog, Idle, appendVars
<1>2. CASE WriteHeader
  <2>1. /\ file' \in FileType /\ up = "creating" /\ up' \in {"creating", "open"}
        /\ UNCHANGED <<state, writing, written, orphan, loader>>
    BY <1>0, <1>2 DEF WriteHeader, FileType, appendVars
  <2>2. writing = NoMutation
    BY <2>1 DEF LogInv, WriterLog
  <2> QED BY <2>1, <2>2 DEF LogInv, TypeOK, WriterLog, LoaderLog, FileType
<1>3. CASE \E o \in Operation : Begin(o)
  <2>1. PICK o \in Operation : Begin(o)
    BY <1>3
  <2>2. /\ up = "open" /\ writing' = MutationOf(state, o) /\ written' = "none" /\ orphan' = FALSE
        /\ UNCHANGED <<file, up, state, loader>> /\ Validates(state, o)
    BY <2>1 DEF Begin
  <2>3. writing' \in Mutation /\ Applies(state, writing')
    BY <1>0, <2>2, OperationApplies
  <2> QED BY <2>2, <2>3 DEF LogInv, TypeOK, WriterLog, LoaderLog
<1>4. CASE WriteMore
  <2>1. /\ writing \in Mutation /\ written \in {"none", "part", "json"}
        /\ written' = Following[written] /\ UNCHANGED <<up, state, writing, orphan, loader>>
        /\ file' = IF orphan THEN file ELSE Appended(file, writing, Following[written])
    BY <1>4 DEF WriteMore, LogInv, TypeOK
  <2>2. Following[written] \in {"part", "json", "line"}
    BY <2>1 DEF Following
  <2>3. file' \in FileType
    BY <1>0, <2>1, <2>2, AppendedType
  <2> QED BY <2>1, <2>2, <2>3 DEF LogInv, TypeOK, WriterLog, LoaderLog, FileType
<1>5. CASE Acknowledge
  <2>1. /\ writing \in Mutation /\ Applies(state, writing) /\ up = "open"
        /\ state' = Append(state, writing) /\ writing' = NoMutation /\ written' = "none"
        /\ orphan' = FALSE /\ UNCHANGED <<file, up, loader>>
    BY <1>5 DEF Acknowledge, LogInv, TypeOK, WriterLog
  <2>2. state' \in Seq(Mutation) /\ Replays(state')
    BY <1>0, <2>1, ReplaysAppend, AppendFacts
  <2> QED BY <2>1, <2>2 DEF LogInv, TypeOK, WriterLog, LoaderLog
<1>6. CASE RejectAppend
  BY <1>6 DEF RejectAppend, LogInv, TypeOK, WriterLog, LoaderLog
<1>7. CASE Crash
  BY <1>7 DEF Crash, LogInv, TypeOK, WriterLog, LoaderLog, Idle
<1> QED BY <1>1, <1>2, <1>3, <1>4, <1>5, <1>6, <1>7

(* Steps of load() and of fork().                                           *)
LEMMA LoaderKeepsLog ==
  ASSUME LogInv,
         \/ \E goal \in {"open", "fork"} : Load(goal)
         \/ StageRepair \/ PublishRepair \/ RepairNewline \/ RejectLoad
         \/ (\E options \in ForkOptions : PublishFork(options)) \/ ReturnFork
  PROVE  LogInv'
<1>0. file \in FileType
  BY DEF LogInv, TypeOK, FileType
<1>1. CASE \E goal \in {"open", "fork"} : Load(goal)
  <2>1. PICK goal \in {"open", "fork"} : Load(goal)
    BY <1>1
  <2>2. Intact(file) \in Seq(Mutation) /\ Replays(Intact(file))
    BY <1>0, <2>1, LoadableReplays DEF Load
  <2>3. UNCHANGED <<file, writing, written, orphan>> /\ (goal = "open" => up = "down")
    BY <2>1 DEF Load, appendVars
  <2>4. \/ /\ loader' = [pc |-> "stage", goal |-> goal, log |-> Intact(file)]
           /\ UNCHANGED <<up, state>>
        \/ /\ loader' = [pc |-> "newline", goal |-> goal, log |-> Intact(file)]
           /\ UNCHANGED <<up, state>>
        \/ Loaded(goal, Intact(file))
    BY <2>1 DEF Load
  <2>5. CASE Loaded(goal, Intact(file))
    <3>1. file' \in FileType /\ orphan' \in BOOLEAN
      BY <1>0, <2>3 DEF LogInv, TypeOK
    <3> QED BY <2>2, <2>3, <2>5, <3>1, LoadedKeeps
  <2>6. CASE ~Loaded(goal, Intact(file))
    <3>1. PICK pc \in {"stage", "newline"} :
            loader' = [pc |-> pc, goal |-> goal, log |-> Intact(file)] /\ UNCHANGED <<up, state>>
      BY <2>4, <2>6
    <3> QED BY <2>2, <2>3, <3>1 DEF LogInv, TypeOK, WriterLog, LoaderLog
  <2> QED BY <2>5, <2>6
<1>2. CASE StageRepair
  <2>1. /\ loader.pc = "stage" /\ loader' = [loader EXCEPT !.pc = "publish"]
        /\ UNCHANGED <<file, up, state, writing, written, orphan>>
    BY <1>2 DEF StageRepair, appendVars
  <2>2. /\ loader = [pc |-> loader.pc, goal |-> loader.goal, log |-> loader.log]
        /\ loader.log \in Seq(Mutation) /\ Replays(loader.log)
        /\ loader.goal = "open" => up = "down"
    BY <2>1 DEF LogInv, LoaderLog
  <2>3. loader' = [pc |-> "publish", goal |-> loader.goal, log |-> loader.log]
    BY <2>1, <2>2
  <2> QED BY <2>1, <2>2, <2>3 DEF LogInv, TypeOK, WriterLog, LoaderLog
<1>3. CASE PublishRepair
  <2>1. /\ loader.pc = "publish" /\ Loaded(loader.goal, loader.log) /\ UNCHANGED <<writing, written>>
        /\ file' = [header |-> "ok", lines |-> loader.log, ended |-> TRUE]
        /\ orphan' \in BOOLEAN
    BY <1>3 DEF PublishRepair, LogInv, TypeOK
  <2>2. /\ loader.log \in Seq(Mutation) /\ Replays(loader.log)
        /\ loader.goal = "open" => up = "down"
    BY <2>1 DEF LogInv, LoaderLog
  <2>3. file' \in FileType
    <3>1. loader.log \in Seq(Line)
      BY <2>2, Kinds, SeqMonotonic
    <3> QED BY <2>1, <3>1 DEF FileType
  <2> QED BY <2>1, <2>2, <2>3, LoadedKeeps
<1>4. CASE RepairNewline
  <2>1. /\ loader.pc = "newline" /\ Loaded(loader.goal, loader.log)
        /\ UNCHANGED <<writing, written, orphan>> /\ file' = Appended(file, NoMutation, "line")
    BY <1>4 DEF RepairNewline, appendVars
  <2>2. /\ loader.log \in Seq(Mutation) /\ Replays(loader.log)
        /\ loader.goal = "open" => up = "down"
    BY <2>1 DEF LogInv, LoaderLog
  <2>3. file' \in FileType /\ orphan' \in BOOLEAN
    BY <1>0, <2>1, NewlineType DEF LogInv, TypeOK
  <2> QED BY <2>1, <2>2, <2>3, LoadedKeeps
<1>5. CASE RejectLoad \/ ReturnFork
  <2>1. loader' = Idle /\ UNCHANGED <<file, up, state, writing, written, orphan>>
    BY <1>5 DEF RejectLoad, ReturnFork, appendVars
  <2> QED BY <2>1 DEF LogInv, TypeOK, WriterLog, LoaderLog, Idle
<1>6. CASE \E options \in ForkOptions : PublishFork(options)
  <2>1. PICK options \in ForkOptions : PublishFork(options)
    BY <1>6
  <2>2. /\ loader.pc = "fork" /\ ForkTargetOK(loader.log, options)
        /\ loader' = [pc |-> "published", of |-> loader.log, options |-> options,
                      log |-> createForkMutations(loader.log, options)]
        /\ UNCHANGED <<file, up, state, writing, written, orphan>>
    BY <2>1 DEF PublishFork, appendVars
  <2>3. loader.log \in Seq(Mutation) /\ Replays(loader.log)
    BY <2>2 DEF LogInv, LoaderLog
  <2> QED BY <2>2, <2>3 DEF LogInv, TypeOK, WriterLog, LoaderLog
<1> QED BY <1>1, <1>2, <1>3, <1>4, <1>5, <1>6

(* Whoever writes to the file and however an append fails, what callers     *)
(* know and what load() reads are logs that replay.                         *)
THEOREM LogInvariant == Spec => []LogInv
<1>1. LogInv /\ [Next]_vars => LogInv'
  <2> SUFFICES ASSUME LogInv, [Next]_vars PROVE LogInv'
    OBVIOUS
  <2>1. CASE Next
    BY <2>1, WriterKeepsLog, LoaderKeepsLog DEF Next
  <2>2. CASE UNCHANGED vars
    BY <2>2 DEF vars, LogInv, TypeOK, WriterLog, LoaderLog
  <2> QED BY <2>1, <2>2
<1> QED BY <1>1, LogInit, PTL DEF Spec

(* Type correctness of the storage.                                         *)
THEOREM TypeCorrect == Spec => []TypeOK
<1>1. LogInv => TypeOK
  BY DEF LogInv
<1> QED BY <1>1, LogInvariant, PTL

(* A published fork replays, keeps every copied entry with its parent and   *)
(* label, and shows the lanes, leaves and name of the source, or the one    *)
(* branch asked for, and no operation (state.ts createForkMutations).       *)
THEOREM ForksAreFaithful == Spec => []ForkIsFaithful
<1>1. LogInv => ForkIsFaithful
  <2> SUFFICES ASSUME LogInv, loader.pc = "published"
               PROVE  Faithful(loader.of, loader.log, loader.options)
    BY DEF ForkIsFaithful, Faithful
  <2>1. /\ loader.of \in Seq(Mutation) /\ Replays(loader.of)
        /\ loader.options \in ForkOptions /\ ForkTargetOK(loader.of, loader.options)
        /\ loader.log = createForkMutations(loader.of, loader.options)
    BY DEF LogInv, LoaderLog
  <2> QED BY <2>1, ForkFaithful
<1> QED BY <1>1, LogInvariant, PTL
================================================================================
