------------------------ MODULE SessionTranscriptProofs ------------------------
(***************************************************************************)
(* Proofs about the transcript and the session branch of AgentSession:     *)
(* their types and those of the compactions on them, that tool results     *)
(* stay with their calls, and that a retry sequence always ends before the *)
(* session settles (which depends on what the transcript ends with).       *)
(***************************************************************************)
EXTENDS AgentSessionProofs

(* An entry, and the kinds that Record writes.                               *)
Entries == [kind : Kind, kept : Nat]
Plain == Kind \ {"summary"}

(* A compaction keeps entries before itself, from one that is no result.     *)
WellKept(b) ==
  /\ b \in Seq(Entries)
  /\ \A i \in 1..Len(b) :
       b[i].kept < i /\ (b[i].kept # 0 => b[b[i].kept].kind # "result")

(* p is the last compaction among the first n entries of b, 0 for none.      *)
IsTop(b, p, n) ==
  /\ p # 0 => b[p].kind = "summary"
  /\ \A i \in (p + 1)..n : b[i].kind # "summary"

(* Every prefix has a last compaction.  (That a nonempty finite set of       *)
(* numbers has a highest one is an induction; here it is kept as part of the *)
(* invariant instead, one appended entry at a time.)                         *)
HasTop(b) == \A n \in 0..Len(b) : \E p \in 0..n : IsTop(b, p, n)

BranchOK(b) == WellKept(b) /\ HasTop(b)

(* Every result of s stands right behind a call.                             *)
Paired(s) == \A i \in 1..Len(s) : s[i] = "result" => i > 1 /\ s[i - 1] = "call"

--------------------------------------------------------------------------------
(* Branches *)

(* The types of an entry.                                                    *)
LEMMA EntryTypes ==
  ASSUME NEW b \in Seq(Entries), NEW i \in 1..Len(b)
  PROVE  b[i].kind \in Kind /\ b[i].kept \in Nat
<1>1. b[i] \in Entries
  OBVIOUS
<1> QED BY <1>1 DEF Entries

(* What is said of the first n entries depends on these alone.               *)
LEMMA TopAgrees ==
  ASSUME NEW b, NEW d, NEW n \in Nat, NEW p \in 0..n,
         \A i \in 1..n : d[i] = b[i], IsTop(b, p, n)
  PROVE  IsTop(d, p, n)
<1>1. p # 0 => p \in 1..n
  OBVIOUS
<1>2. p # 0 => d[p].kind = "summary"
  BY <1>1 DEF IsTop
<1>3. ASSUME NEW i \in (p + 1)..n PROVE d[i].kind # "summary"
  <2>1. i \in 1..n
    OBVIOUS
  <2> QED BY <2>1 DEF IsTop
<1> QED BY <1>2, <1>3 DEF IsTop

(* So does what a compaction keeps.                                          *)
LEMMA KeptAgrees ==
  ASSUME NEW b, WellKept(b), NEW d, NEW i \in 1..Len(b),
         \A j \in 1..i : d[j] = b[j]
  PROVE  d[i].kept < i /\ (d[i].kept # 0 => d[d[i].kept].kind # "result")
<1>1. b \in Seq(Entries) /\ Len(b) \in Nat
  BY DEF WellKept
<1>2. b[i].kept \in Nat /\ b[i].kept < i /\ (b[i].kept # 0 => b[b[i].kept].kind # "result")
  BY <1>1, EntryTypes DEF WellKept
<1>3. d[i] = b[i] /\ (b[i].kept # 0 => b[i].kept \in 1..i)
  BY <1>1, <1>2
<1>4. b[i].kept # 0 => d[b[i].kept] = b[b[i].kept]
  BY <1>3
<1> QED BY <1>2, <1>3, <1>4

(* Kinds, entry by entry.                                                    *)
LEMMA KindsOf ==
  ASSUME NEW b \in Seq(Entries)
  PROVE  /\ Kinds(b) \in Seq(Kind) /\ Len(Kinds(b)) = Len(b)
         /\ \A i \in 1..Len(b) : Kinds(b)[i] = b[i].kind
<1>1. \A i \in 1..Len(b) : b[i] \in Entries
  OBVIOUS
<1>2. \A i \in 1..Len(b) : b[i].kind \in Kind
  BY <1>1 DEF Entries
<1> QED BY <1>2 DEF Kinds

(* The entries Record appends.                                               *)
LEMMA EntriesOf ==
  ASSUME NEW ks \in Seq(Plain)
  PROVE  LET es == [i \in 1..Len(ks) |-> Entry(ks[i])]
         IN  /\ es \in Seq(Entries) /\ Len(es) = Len(ks)
             /\ \A i \in 1..Len(ks) : es[i].kind = ks[i] /\ es[i].kept = 0
<1>1. \A i \in 1..Len(ks) : ks[i] \in Plain
  OBVIOUS
<1>2. \A i \in 1..Len(ks) : Entry(ks[i]) \in Entries
  BY <1>1 DEF Entry, Entries, Plain
<1>3. \A i \in 1..Len(ks) : Entry(ks[i]).kind = ks[i] /\ Entry(ks[i]).kept = 0
  BY DEF Entry
<1> QED BY <1>2, <1>3

(* A branch stays one when messages are recorded, ...                        *)
LEMMA BranchRecords ==
  ASSUME NEW b, BranchOK(b), NEW ks \in Seq(Plain)
  PROVE  LET d == b \o [i \in 1..Len(ks) |-> Entry(ks[i])]
         IN  /\ BranchOK(d) /\ Len(d) = Len(b) + Len(ks)
             /\ \A i \in 1..Len(b) : d[i] = b[i]
             /\ \A i \in 1..Len(ks) : d[Len(b) + i].kind = ks[i]
<1> DEFINE es == [i \in 1..Len(ks) |-> Entry(ks[i])]
<1> DEFINE d == b \o es
<1>1. /\ es \in Seq(Entries) /\ Len(es) = Len(ks)
      /\ \A i \in 1..Len(ks) : es[i].kind = ks[i] /\ es[i].kept = 0
  BY EntriesOf
<1>2. b \in Seq(Entries)
  BY DEF BranchOK, WellKept
<1> HIDE DEF es
<1>3. /\ d \in Seq(Entries) /\ Len(d) = Len(b) + Len(ks)
      /\ \A i \in 1..Len(b) : d[i] = b[i]
      /\ \A i \in 1..Len(ks) : d[Len(b) + i] = es[i]
  <2>1. /\ d \in Seq(Entries) /\ Len(d) = Len(b) + Len(es)
        /\ \A i \in 1..(Len(b) + Len(es)) : d[i] = IF i <= Len(b) THEN b[i] ELSE es[i - Len(b)]
    <3>1. es \in Seq(Entries)
      BY <1>1
    <3> QED BY ONLY <1>2, <3>1, ConcatProperties
  <2>2. Len(b) \in Nat /\ Len(ks) \in Nat
    BY <1>2
  <2> HIDE DEF d
  <2>3. \A i \in 1..Len(b) : d[i] = b[i]
    BY <1>1, <2>1, <2>2
  <2>4. ASSUME NEW i \in 1..Len(ks) PROVE d[Len(b) + i] = es[i]
    <3>1. Len(b) + i \in 1..(Len(b) + Len(es)) /\ ~(Len(b) + i <= Len(b)) /\ (Len(b) + i) - Len(b) = i
      BY <1>1, <2>2
    <3> QED BY <2>1, <3>1
  <2> QED BY <1>1, <2>1, <2>3, <2>4
<1> HIDE DEF d
<1>4. \A j \in (Len(b) + 1)..Len(d) : d[j].kept = 0 /\ d[j].kind # "summary"
  <2> SUFFICES ASSUME NEW j \in (Len(b) + 1)..Len(d)
               PROVE  d[j].kept = 0 /\ d[j].kind # "summary"
    OBVIOUS
  <2>1. j - Len(b) \in 1..Len(ks) /\ j = Len(b) + (j - Len(b))
    BY <1>2, <1>3
  <2>2. d[j] = es[j - Len(b)]
    BY <1>3, <2>1
  <2>3. ks[j - Len(b)] \in Plain
    BY <2>1
  <2> QED BY <1>1, <2>1, <2>2, <2>3 DEF Plain
<1>5. WellKept(d)
  <2> SUFFICES ASSUME NEW i \in 1..Len(d)
               PROVE  d[i].kept < i /\ (d[i].kept # 0 => d[d[i].kept].kind # "result")
    BY <1>3 DEF WellKept
  <2>1. Len(b) \in Nat /\ Len(ks) \in Nat /\ WellKept(b)
    BY <1>2 DEF BranchOK
  <2>2. CASE i <= Len(b)
    <3>1. i \in 1..Len(b) /\ \A j \in 1..i : d[j] = b[j]
      BY <1>3, <2>1, <2>2, SMTT(20)
    <3> QED BY <2>1, <3>1, KeptAgrees
  <2>3. CASE i > Len(b)
    <3>1. d[i].kept = 0
      BY <1>3, <1>4, <2>1, <2>3
    <3> QED BY <3>1
  <2> QED BY <2>1, <2>2, <2>3
<1>6. HasTop(d)
  <2> SUFFICES ASSUME NEW n \in 0..Len(d) PROVE \E p \in 0..n : IsTop(d, p, n)
    BY DEF HasTop
  <2>1. CASE n <= Len(b)
    <3>1. PICK p \in 0..n : IsTop(b, p, n)
      BY <1>2, <2>1 DEF BranchOK, HasTop
    <3>2. n \in Nat /\ \A i \in 1..n : d[i] = b[i]
      BY <1>2, <1>3, <2>1
    <3>3. IsTop(d, p, n)
      BY <3>1, <3>2, TopAgrees
    <3> QED BY <3>3
  <2>2. CASE n > Len(b)
    <3>1. PICK p \in 0..Len(b) : IsTop(b, p, Len(b))
      BY <1>2 DEF BranchOK, HasTop
    <3>2. IsTop(d, p, n)
      <4>1. Len(b) \in Nat /\ Len(ks) \in Nat
        BY <1>2
      <4>2. IsTop(d, p, Len(b))
        BY <1>3, <3>1, <4>1, TopAgrees
      <4>3. ASSUME NEW i \in (p + 1)..n PROVE d[i].kind # "summary"
        <5>1. i \in (p + 1)..Len(b) \/ i \in (Len(b) + 1)..Len(d)
          BY <1>3, <4>1
        <5> QED BY <1>4, <4>2, <5>1 DEF IsTop
      <4> QED BY <4>2, <4>3 DEF IsTop
    <3> QED BY <1>2, <2>2, <3>2
  <2> QED BY <1>2, <1>3, <2>1, <2>2
<1> QED BY <1>1, <1>3, <1>5, <1>6 DEF BranchOK, d, es

(* ... when a compaction is appended, ...                                    *)
LEMMA BranchCompacts ==
  ASSUME NEW b, BranchOK(b), NEW k \in 0..Len(b), k # 0 => b[k].kind # "result"
  PROVE  LET d == Append(b, Compaction(k))
         IN  /\ BranchOK(d) /\ Len(d) = Len(b) + 1
             /\ \A i \in 1..Len(b) : d[i] = b[i]
             /\ d[Len(b) + 1].kind = "summary" /\ d[Len(b) + 1].kept = k
<1> DEFINE d == Append(b, Compaction(k))
<1>1. b \in Seq(Entries) /\ Len(b) \in Nat
  BY DEF BranchOK, WellKept
<1>2. Compaction(k) \in Entries /\ Compaction(k).kind = "summary" /\ Compaction(k).kept = k
  BY <1>1 DEF Compaction, Entries, Kind
<1>3. /\ d \in Seq(Entries) /\ Len(d) = Len(b) + 1
      /\ \A i \in 1..Len(b) : d[i] = b[i]
      /\ d[Len(b) + 1].kind = "summary" /\ d[Len(b) + 1].kept = k
  BY <1>1, <1>2
<1> HIDE DEF d
<1>4. WellKept(d)
  <2> SUFFICES ASSUME NEW i \in 1..Len(d)
               PROVE  d[i].kept < i /\ (d[i].kept # 0 => d[d[i].kept].kind # "result")
    BY <1>3 DEF WellKept
  <2>1. WellKept(b)
    BY DEF BranchOK
  <2>2. CASE i <= Len(b)
    <3>1. i \in 1..Len(b) /\ \A j \in 1..i : d[j] = b[j]
      BY <1>1, <1>3, <2>2
    <3> QED BY <2>1, <3>1, KeptAgrees
  <2>3. CASE i = Len(b) + 1
    <3>1. d[i].kept = k /\ k < i /\ (k # 0 => k \in 1..Len(b))
      BY <1>1, <1>3, <2>3
    <3>2. k # 0 => d[k] = b[k]
      BY <1>3, <3>1
    <3> QED BY <3>1, <3>2
  <2> QED BY <1>1, <1>3, <2>2, <2>3
<1>5. HasTop(d)
  <2> SUFFICES ASSUME NEW n \in 0..Len(d) PROVE \E p \in 0..n : IsTop(d, p, n)
    BY DEF HasTop
  <2>1. CASE n <= Len(b)
    <3>1. PICK p \in 0..n : IsTop(b, p, n)
      BY <1>1, <2>1 DEF BranchOK, HasTop
    <3>2. n \in Nat /\ \A i \in 1..n : d[i] = b[i]
      BY <1>1, <1>3, <2>1
    <3>3. IsTop(d, p, n)
      BY <3>1, <3>2, TopAgrees
    <3> QED BY <3>3
  <2>2. CASE n = Len(b) + 1
    BY <1>1, <1>3, <2>2 DEF IsTop
  <2> QED BY <1>1, <1>3, <2>1, <2>2
<1> QED BY <1>3, <1>4, <1>5 DEF BranchOK, d

(* ... and when its end is left.                                             *)
LEMMA BranchIsCut ==
  ASSUME NEW b, BranchOK(b), NEW n \in 0..Len(b)
  PROVE  LET d == SubSeq(b, 1, n)
         IN  BranchOK(d) /\ Len(d) = n /\ \A i \in 1..n : d[i] = b[i]
<1> DEFINE d == SubSeq(b, 1, n)
<1>1. b \in Seq(Entries) /\ Len(b) \in Nat
  BY DEF BranchOK, WellKept
<1>2. d \in Seq(Entries) /\ Len(d) = n /\ \A i \in 1..n : d[i] = b[i]
  BY <1>1
<1> HIDE DEF d
<1>3. WellKept(d)
  <2> SUFFICES ASSUME NEW i \in 1..Len(d)
               PROVE  d[i].kept < i /\ (d[i].kept # 0 => d[d[i].kept].kind # "result")
    BY <1>2 DEF WellKept
  <2>1. WellKept(b) /\ i \in 1..Len(b) /\ \A j \in 1..i : d[j] = b[j]
    BY <1>1, <1>2 DEF BranchOK
  <2> QED BY <2>1, KeptAgrees
<1>4. HasTop(d)
  <2> SUFFICES ASSUME NEW m \in 0..Len(d) PROVE \E p \in 0..m : IsTop(d, p, m)
    BY DEF HasTop
  <2>1. PICK p \in 0..m : IsTop(b, p, m)
    BY <1>1, <1>2 DEF BranchOK, HasTop
  <2>2. m \in Nat /\ \A i \in 1..m : d[i] = b[i]
    BY <1>1, <1>2
  <2>3. IsTop(d, p, m)
    BY <2>1, <2>2, TopAgrees
  <2> QED BY <2>3
<1> QED BY <1>2, <1>3, <1>4 DEF BranchOK, d

(* LastCompaction finds the last compaction.                                 *)
LEMMA LastCompactionOf ==
  ASSUME NEW b, BranchOK(b)
  PROVE  LastCompaction(b) \in 0..Len(b) /\ IsTop(b, LastCompaction(b), Len(b))
<1> DEFINE S == {0} \cup {i \in 1..Len(b) : b[i].kind = "summary"}
<1>1. Len(b) \in Nat
  BY DEF BranchOK, WellKept
<1>2. PICK p \in 0..Len(b) : IsTop(b, p, Len(b))
  BY <1>1 DEF BranchOK, HasTop
<1>3. p \in S /\ \A k \in S : k <= p
  BY <1>1, <1>2 DEF IsTop
<1>4. Highest(S) \in S /\ \A k \in S : k <= Highest(S)
  BY <1>3 DEF Highest
<1>5. Highest(S) = p
  BY <1>1, <1>3, <1>4
<1> QED BY <1>2, <1>5 DEF LastCompaction

(* buildContextEntries, message by message.                                  *)
LEMMA ContextOf ==
  ASSUME NEW b, BranchOK(b), LastCompaction(b) # 0
  PROVE  LET p == LastCompaction(b)
             m == p - FirstKept(b, p)
             n == IF m > 0 THEN m ELSE 0
             s == BuildContext(b)
         IN  /\ FirstKept(b, p) \in 1..(p + 1) /\ n \in Nat
             /\ s \in Seq(Kind) /\ Len(s) = 1 + n + (Len(b) - p)
             /\ s[1] = "summary"
             /\ \A i \in 1..n : s[1 + i] = b[FirstKept(b, p) + i - 1].kind
             /\ \A i \in 1..(Len(b) - p) : s[1 + n + i] = b[p + i].kind
<1> DEFINE p == LastCompaction(b)
           f == FirstKept(b, p)
           ks == Kinds(b)
           u == SubSeq(ks, f, p - 1)
           v == SubSeq(ks, p + 1, Len(b))
           n == IF p - f > 0 THEN p - f ELSE 0
<1>1. b \in Seq(Entries) /\ Len(b) \in Nat
  BY DEF BranchOK, WellKept
<1>2. ks \in Seq(Kind) /\ Len(ks) = Len(b) /\ \A i \in 1..Len(b) : ks[i] = b[i].kind
  BY <1>1, KindsOf
<1>3. p \in 1..Len(b)
  BY <1>1, LastCompactionOf
<1> HIDE DEF p, ks
<1>4. b[p].kept \in Nat /\ b[p].kept < p
  BY <1>1, <1>3, EntryTypes DEF BranchOK, WellKept
<1>5. f \in 1..(p + 1) /\ (f = p + 1 \/ f < p)
  BY <1>3, <1>4 DEF FirstKept
<1> HIDE DEF f
<1>6. /\ u \in Seq(Kind) /\ Len(u) = n
      /\ \A i \in 1..n : u[i] = ks[f + i - 1]
  <2>1. \A i \in f..(p - 1) : ks[i] \in Kind
    BY <1>1, <1>2, <1>3, <1>5
  <2> QED BY <1>3, <1>5, <2>1, SubSeqProperties
<1>7. /\ v \in Seq(Kind) /\ Len(v) = Len(b) - p
      /\ \A i \in 1..(Len(b) - p) : v[i] = ks[p + i]
  <2>1. \A i \in (p + 1)..Len(b) : ks[i] \in Kind
    BY <1>1, <1>2, <1>3
  <2>2. /\ v \in Seq(Kind) /\ Len(v) = IF p + 1 <= Len(b) THEN Len(b) - (p + 1) + 1 ELSE 0
        /\ \A i \in 1..(Len(b) - (p + 1) + 1) : v[i] = ks[(p + 1) + i - 1]
    BY <1>1, <1>3, <2>1, SubSeqProperties
  <2> QED BY <1>1, <1>3, <2>2
<1>8. BuildContext(b) = <<"summary">> \o u \o v
  BY <1>1, <1>3 DEF BuildContext, p, f, ks
<1>9. n \in Nat /\ "summary" \in Kind
  BY <1>3, <1>5 DEF Kind
<1> HIDE DEF u, v, n
<1> DEFINE t == <<"summary">> \o u
<1>10. /\ t \in Seq(Kind) /\ Len(t) = 1 + n /\ t[1] = "summary"
       /\ \A i \in 1..n : t[1 + i] = u[i]
  BY <1>6, <1>9
<1> HIDE DEF t
<1> DEFINE s == t \o v
<1>11. /\ s \in Seq(Kind) /\ Len(s) = 1 + n + (Len(b) - p) /\ s[1] = "summary"
       /\ \A i \in 1..n : s[1 + i] = u[i]
       /\ \A i \in 1..(Len(b) - p) : s[1 + n + i] = v[i]
  <2>1. /\ s \in Seq(Kind) /\ Len(s) = Len(t) + Len(v)
        /\ \A i \in 1..(Len(t) + Len(v)) : s[i] = IF i <= Len(t) THEN t[i] ELSE v[i - Len(t)]
    BY <1>7, <1>10, ConcatProperties
  <2> HIDE DEF s
  <2>2. Len(b) - p \in Nat
    BY <1>1, <1>3
  <2>3. s[1] = "summary" /\ \A i \in 1..n : s[1 + i] = t[1 + i]
    BY <1>7, <1>9, <1>10, <2>1, <2>2
  <2>4. ASSUME NEW i \in 1..(Len(b) - p) PROVE s[1 + n + i] = v[i]
    <3>1. /\ 1 + n + i \in 1..(Len(t) + Len(v)) /\ ~(1 + n + i <= Len(t))
          /\ (1 + n + i) - Len(t) = i
      BY <1>7, <1>9, <1>10, <2>2
    <3> QED BY <2>1, <3>1
  <2> QED BY <1>7, <1>10, <2>1, <2>3, <2>4
<1>12. s = BuildContext(b)
  BY <1>8 DEF t
<1> HIDE DEF s
<1>13. \A i \in 1..n : s[1 + i] = b[f + i - 1].kind
  <2> SUFFICES ASSUME NEW i \in 1..n PROVE s[1 + i] = b[f + i - 1].kind
    OBVIOUS
  <2>1. f + i - 1 \in 1..Len(b)
    BY <1>1, <1>3, <1>5, <1>9 DEF n
  <2> QED BY <1>2, <1>6, <1>11, <2>1
<1>14. \A i \in 1..(Len(b) - p) : s[1 + n + i] = b[p + i].kind
  <2> SUFFICES ASSUME NEW i \in 1..(Len(b) - p) PROVE s[1 + n + i] = b[p + i].kind
    OBVIOUS
  <2>1. p + i \in 1..Len(b)
    BY <1>1, <1>3
  <2> QED BY <1>2, <1>7, <1>11, <2>1
<1> QED BY <1>5, <1>9, <1>11, <1>12, <1>13, <1>14 DEF p, f, n

--------------------------------------------------------------------------------
(* Results and their calls *)

(* Pairing on a branch, said of its entries.                                 *)
LEMMA PairedKinds ==
  ASSUME NEW b \in Seq(Entries)
  PROVE  Paired(Kinds(b)) <=>
           \A i \in 1..Len(b) : b[i].kind = "result" => i > 1 /\ b[i - 1].kind = "call"
<1>1. /\ Len(Kinds(b)) = Len(b) /\ Len(b) \in Nat
      /\ \A i \in 1..Len(b) : Kinds(b)[i] = b[i].kind
  BY KindsOf
<1>2. \A i \in 1..Len(b) : i > 1 => i - 1 \in 1..Len(b)
  BY <1>1
<1>3. \A i \in 1..Len(b) : i > 1 => Kinds(b)[i - 1] = b[i - 1].kind
  BY <1>1, <1>2
<1> QED BY <1>1, <1>3 DEF Paired

(* The context of a branch whose results stand behind their calls.           *)
LEMMA ContextIsPaired ==
  ASSUME NEW b, BranchOK(b), Paired(Kinds(b))
  PROVE  BuildContext(b) \in Seq(Kind) /\ Paired(BuildContext(b))
<1>1. b \in Seq(Entries) /\ Len(b) \in Nat
  BY DEF BranchOK, WellKept
<1>2. Kinds(b) \in Seq(Kind) /\ Len(Kinds(b)) = Len(b) /\ \A i \in 1..Len(b) : Kinds(b)[i] = b[i].kind
  BY <1>1, KindsOf
<1>3. CASE LastCompaction(b) = 0
  BY <1>2, <1>3 DEF BuildContext
<1>4. CASE LastCompaction(b) # 0
  <2> DEFINE p == LastCompaction(b)
             f == FirstKept(b, p)
             n == IF p - f > 0 THEN p - f ELSE 0
             s == BuildContext(b)
  <2>1. /\ f \in 1..(p + 1) /\ n \in Nat
        /\ s \in Seq(Kind) /\ Len(s) = 1 + n + (Len(b) - p) /\ s[1] = "summary"
        /\ \A i \in 1..n : s[1 + i] = b[f + i - 1].kind
        /\ \A i \in 1..(Len(b) - p) : s[1 + n + i] = b[p + i].kind
    BY <1>4, ContextOf
  <2>2. p \in 1..Len(b) /\ b[p].kind = "summary"
    BY <1>1, <1>4, LastCompactionOf DEF IsTop
  <2>3. f < p => b[f].kind # "result"
    <3>1. WellKept(b) /\ (f # p + 1 => f = b[p].kept /\ f # 0)
      BY <2>1, <2>2 DEF BranchOK, FirstKept
    <3> QED BY <1>1, <2>2, <3>1 DEF WellKept
  <2>4. \A i \in 1..Len(b) : b[i].kind = "result" => i > 1 /\ b[i - 1].kind = "call"
    BY <1>1, PairedKinds
  <2>8. p \in Nat /\ f \in Nat /\ (n > 0 => n = p - f)
    BY <1>1, <2>1, <2>2
  <2> HIDE DEF p, f, s, n
  <2> SUFFICES ASSUME NEW i \in 1..Len(s), s[i] = "result"
               PROVE  i > 1 /\ s[i - 1] = "call"
    BY <2>1 DEF Paired, s
  <2>9. i \in Nat /\ i <= 1 + n + (Len(b) - p) /\ i >= 1
    BY <1>1, <2>1, <2>8
  <2>5. i # 1
    BY <2>1
  <2>6. CASE i \in 2..(1 + n)
    <3>1. n = p - f /\ f < p
      BY <2>1, <2>6, <2>8
    <3>2. i - 1 \in 1..n /\ 1 + (i - 1) = i
      BY <2>1, <2>6, <2>9
    <3>3. s[i] = b[f + (i - 1) - 1].kind
      BY <2>1, <3>2
    <3> DEFINE j == f + (i - 1) - 1
    <3>4. j \in 1..Len(b) /\ j >= f
      BY <1>1, <2>1, <2>2, <2>8, <2>9, <3>1, <3>2, SMTT(20)
    <3>5. b[j].kind = "result"
      BY <3>3
    <3>6. j # f
      BY <2>3, <3>1, <3>5
    <3>7. b[j - 1].kind = "call"
      BY <2>4, <3>4, <3>5
    <3>8. i - 2 \in 1..n /\ 1 + (i - 2) = i - 1 /\ f + (i - 2) - 1 = j - 1
      BY <2>1, <2>8, <2>9, <3>2, <3>4, <3>6
    <3>9. s[1 + (i - 2)] = b[f + (i - 2) - 1].kind
      BY <2>1, <3>8
    <3> QED BY <2>5, <2>9, <3>7, <3>8, <3>9
  <2>7. CASE i > 1 + n
    <3> DEFINE m == i - 1 - n
               h == p + m
    <3>1. m \in 1..(Len(b) - p) /\ 1 + n + m = i
      BY <1>1, <2>1, <2>7, <2>8, <2>9
    <3> HIDE DEF m
    <3>2. b[h].kind = "result"
      BY <2>1, <3>1
    <3>3. h \in 1..Len(b)
      BY <1>1, <2>8, <3>1
    <3>4. b[h - 1].kind = "call"
      <4> HIDE DEF h
      <4> QED BY <2>4, <3>2, <3>3
    <3>5. m # 1
      <4>1. m = 1 => h - 1 = p
        BY <2>8
      <4> QED BY <2>2, <3>4, <4>1
    <3>6. m - 1 \in 1..(Len(b) - p) /\ 1 + n + (m - 1) = i - 1 /\ p + (m - 1) = h - 1
      BY <1>1, <2>1, <2>8, <2>9, <3>1, <3>5
    <3>7. s[1 + n + (m - 1)] = b[p + (m - 1)].kind
      BY <2>1, <3>6
    <3> QED BY <2>5, <2>9, <3>4, <3>6, <3>7
  <2> QED BY <2>1, <2>5, <2>6, <2>7, <2>9
<1> QED BY <1>3, <1>4

(* Typing alone does not need the pairing.                                   *)
LEMMA ContextIsTyped ==
  ASSUME NEW b, BranchOK(b)
  PROVE  BuildContext(b) \in Seq(Kind)
<1>1. b \in Seq(Entries)
  BY DEF BranchOK, WellKept
<1>2. CASE LastCompaction(b) = 0
  BY <1>1, <1>2, KindsOf DEF BuildContext
<1>3. CASE LastCompaction(b) # 0
  BY <1>3, ContextOf
<1> QED BY <1>2, <1>3

(* Messages are appended: a result only behind a call.                       *)
LEMMA PairedConcat ==
  ASSUME NEW s \in Seq(Kind), Paired(s), NEW ks \in Seq(Plain),
         \A i \in 1..Len(ks) : ks[i] = "result" => i = 1 /\ s # <<>> /\ Last(s) = "call"
  PROVE  s \o ks \in Seq(Kind) /\ Paired(s \o ks)
<1> DEFINE t == s \o ks
<1>1. ks \in Seq(Kind) /\ Len(s) \in Nat /\ Len(ks) \in Nat
  BY SeqMonotonic DEF Plain
<1>2. /\ t \in Seq(Kind) /\ Len(t) = Len(s) + Len(ks)
      /\ \A i \in 1..(Len(s) + Len(ks)) : t[i] = IF i <= Len(s) THEN s[i] ELSE ks[i - Len(s)]
  BY ONLY <1>1, s \in Seq(Kind), ConcatProperties
<1> HIDE DEF t
<1> SUFFICES ASSUME NEW i \in 1..Len(t), t[i] = "result"
             PROVE  i > 1 /\ t[i - 1] = "call"
  BY <1>2 DEF Paired, t
<1>3. CASE i <= Len(s)
  <2>1. i \in 1..Len(s) /\ s[i] = "result"
    BY <1>1, <1>2, <1>3
  <2>2. i > 1 /\ s[i - 1] = "call"
    BY <2>1 DEF Paired
  <2> QED BY <1>1, <1>2, <1>3, <2>2
<1>4. CASE i > Len(s)
  <2>1. i - Len(s) \in 1..Len(ks) /\ ks[i - Len(s)] = "result"
    BY <1>1, <1>2, <1>4
  <2>2. i = Len(s) + 1 /\ s # <<>> /\ s[Len(s)] = "call"
    BY <1>1, <2>1 DEF Last
  <2>3. Len(s) > 0
    BY <1>1, <2>2
  <2> QED BY <1>1, <1>2, <2>2, <2>3
<1> QED BY <1>1, <1>2, <1>3, <1>4

(* DropAssistant leaves a prefix, ...                                        *)
LEMMA DropAssistantOf ==
  ASSUME NEW s \in Seq(Kind)
  PROVE  /\ DropAssistant(s) \in Seq(Kind) /\ Len(DropAssistant(s)) <= Len(s)
         /\ \A i \in 1..Len(DropAssistant(s)) : DropAssistant(s)[i] = s[i]
<1>1. CASE EndsInAssistant(s)
  <2>1. Len(s) > 0 /\ Len(s) \in Nat
    BY <1>1 DEF EndsInAssistant
  <2>2. \A i \in 1..(Len(s) - 1) : s[i] \in Kind
    BY <2>1
  <2>3. /\ SubSeq(s, 1, Len(s) - 1) \in Seq(Kind) /\ Len(SubSeq(s, 1, Len(s) - 1)) = Len(s) - 1
        /\ \A i \in 1..(Len(s) - 1) : SubSeq(s, 1, Len(s) - 1)[i] = s[i]
    <3>1. /\ SubSeq(s, 1, Len(s) - 1) \in Seq(Kind)
          /\ Len(SubSeq(s, 1, Len(s) - 1)) = IF 1 <= Len(s) - 1 THEN (Len(s) - 1) - 1 + 1 ELSE 0
          /\ \A i \in 1..((Len(s) - 1) - 1 + 1) : SubSeq(s, 1, Len(s) - 1)[i] = s[1 + i - 1]
      BY <2>1, <2>2, SubSeqProperties
    <3>2. (Len(s) - 1) - 1 + 1 = Len(s) - 1 /\ \A i \in 1..(Len(s) - 1) : 1 + i - 1 = i
      BY <2>1
    <3>3. Len(SubSeq(s, 1, Len(s) - 1)) = Len(s) - 1
      <4> DEFINE l == Len(SubSeq(s, 1, Len(s) - 1))
      <4>1. l = IF 1 <= Len(s) - 1 THEN (Len(s) - 1) - 1 + 1 ELSE 0
        BY <3>1
      <4> HIDE DEF l
      <4> DEFINE n == Len(s)
      <4>2. n \in Nat /\ n > 0 /\ l = IF 1 <= n - 1 THEN (n - 1) - 1 + 1 ELSE 0
        BY <2>1, <4>1
      <4> HIDE DEF n
      <4>3. l = n - 1
        BY ONLY <4>2
      <4> QED BY <4>3 DEF l, n
    <3>4. ASSUME NEW i \in 1..(Len(s) - 1) PROVE SubSeq(s, 1, Len(s) - 1)[i] = s[i]
      BY <3>1, <3>2
    <3> QED BY <3>1, <3>3, <3>4
  <2> QED BY <1>1, <2>1, <2>3 DEF DropAssistant
<1>2. CASE ~EndsInAssistant(s)
  BY <1>2 DEF DropAssistant
<1> QED BY <1>1, <1>2

(* ... and a prefix is paired if the whole is.                               *)
LEMMA PairedDrop ==
  ASSUME NEW s \in Seq(Kind), Paired(s)
  PROVE  Paired(DropAssistant(s))
<1> DEFINE t == DropAssistant(s)
<1>1. t \in Seq(Kind) /\ Len(t) <= Len(s) /\ \A i \in 1..Len(t) : t[i] = s[i]
  BY DropAssistantOf
<1> HIDE DEF t
<1>2. Len(t) \in Nat /\ Len(s) \in Nat
  BY <1>1
<1>3. ASSUME NEW i \in 1..Len(t), t[i] = "result" PROVE i > 1 /\ t[i - 1] = "call"
  <2>1. i \in 1..Len(s) /\ s[i] = "result"
    BY <1>1, <1>2, <1>3
  <2>2. i > 1 /\ s[i - 1] = "call" /\ i - 1 \in 1..Len(t)
    BY <1>2, <2>1 DEF Paired
  <2> QED BY <1>1, <2>2
<1> QED BY <1>3 DEF Paired, t

(* The kinds of a branch that records, compacts or is cut.                   *)
LEMMA KindsRecord ==
  ASSUME NEW b, BranchOK(b), Paired(Kinds(b)), NEW ks \in Seq(Plain),
         \A i \in 1..Len(ks) : ks[i] = "result" => i = 1 /\ b # <<>> /\ Last(b).kind = "call"
  PROVE  Paired(Kinds(b \o [i \in 1..Len(ks) |-> Entry(ks[i])]))
<1> DEFINE d == b \o [i \in 1..Len(ks) |-> Entry(ks[i])]
<1>1. /\ BranchOK(d) /\ Len(d) = Len(b) + Len(ks)
      /\ \A i \in 1..Len(b) : d[i] = b[i]
      /\ \A i \in 1..Len(ks) : d[Len(b) + i].kind = ks[i]
  BY BranchRecords
<1>2. b \in Seq(Entries) /\ d \in Seq(Entries) /\ Len(b) \in Nat /\ Len(ks) \in Nat
  BY <1>1 DEF BranchOK, WellKept
<1> HIDE DEF d
<1>3. \A i \in 1..Len(b) : b[i].kind = "result" => i > 1 /\ b[i - 1].kind = "call"
  BY <1>2, PairedKinds
<1>4. ASSUME NEW i \in 1..Len(d), d[i].kind = "result" PROVE i > 1 /\ d[i - 1].kind = "call"
  <2>1. CASE i <= Len(b)
    <3>1. i \in 1..Len(b) /\ b[i].kind = "result"
      BY <1>1, <1>2, <1>4, <2>1
    <3>2. i > 1 /\ b[i - 1].kind = "call" /\ i - 1 \in 1..Len(b)
      BY <1>2, <1>3, <3>1
    <3> QED BY <1>1, <3>2
  <2>2. CASE i > Len(b)
    <3>1. i - Len(b) \in 1..Len(ks) /\ Len(b) + (i - Len(b)) = i
      BY <1>1, <1>2, <2>2
    <3>2. ks[i - Len(b)] = "result"
      BY <1>1, <1>4, <3>1
    <3>3. i = Len(b) + 1 /\ b # <<>> /\ b[Len(b)].kind = "call"
      BY <1>2, <3>1, <3>2 DEF Last
    <3>4. Len(b) \in 1..Len(b)
      BY <1>2, <3>3
    <3> QED BY <1>1, <1>2, <3>3, <3>4
  <2> QED BY <1>1, <1>2, <2>1, <2>2
<1>5. Paired(Kinds(d))
  BY <1>2, <1>4, PairedKinds
<1> QED BY <1>5 DEF d

(* A prefix of a paired branch, with at most one other entry behind it.      *)
LEMMA KindsAgree ==
  ASSUME NEW b \in Seq(Entries), Paired(Kinds(b)), NEW d \in Seq(Entries),
         NEW n \in Nat, n <= Len(b), Len(d) \in {n, n + 1},
         \A i \in 1..n : d[i] = b[i],
         Len(d) = n + 1 => d[n + 1].kind # "result"
  PROVE  Paired(Kinds(d))
<1>1. Len(b) \in Nat
  OBVIOUS
<1>2. \A i \in 1..Len(b) : b[i].kind = "result" => i > 1 /\ b[i - 1].kind = "call"
  BY PairedKinds
<1>3. ASSUME NEW i \in 1..Len(d), d[i].kind = "result" PROVE i > 1 /\ d[i - 1].kind = "call"
  <2>1. i \in 1..n /\ i \in 1..Len(b)
    BY <1>1, <1>3
  <2>2. i > 1 /\ b[i - 1].kind = "call" /\ i - 1 \in 1..n
    BY <1>2, <1>3, <2>1
  <2> QED BY <2>2
<1> QED BY <1>3, PairedKinds

--------------------------------------------------------------------------------
(* What a step does to the transcript and the branch *)

(* The types of the log, and of the compactions and the navigation under way.*)
LogInv ==
  /\ messages \in Seq(Kind) /\ BranchOK(branch) /\ recorded \in Nat
  /\ cut \in [Caller \cup {Manual} -> 0..Len(branch)]
  /\ \A w \in Caller \cup {Manual} : cut[w] # 0 => branch[cut[w]].kind # "result"
  /\ navTo \in 0..Len(branch) /\ (navTo # 0 => branchCtl # "none")

KeepNav == navTo' = navTo /\ (branchCtl # "none" => branchCtl' # "none")

(* It records messages, ...                                                  *)
Recording ==
  /\ \E ks \in Seq(Plain) :
       /\ Record(ks)
       /\ \A i \in 1..Len(ks) : ks[i] = "result" => i = 1 /\ phase = "tools"
  /\ UNCHANGED cut /\ KeepNav

(* ... at most drops a reply from the transcript or chooses a cut, ...       *)
Trimming ==
  /\ UNCHANGED <<branch, recorded>> /\ messages' \in {messages, DropAssistant(messages)}
  /\ \/ UNCHANGED cut
     \/ \E w \in Caller \cup {Manual}, k \in {0} \cup CutPoints(branch) : cut' = [cut EXCEPT ![w] = k]
  /\ KeepNav \/ navTo' = 0 \/ (navTo' \in Targets /\ branchCtl' = "set")

(* ... appends a compaction and rebuilds the transcript, or ...              *)
Compacting ==
  \E w \in Caller \cup {Manual} :
    /\ branch' = Append(branch, Compaction(cut[w]))
    /\ messages' \in {BuildContext(branch'), DropAssistant(BuildContext(branch'))}
    /\ cut' = [cut EXCEPT ![w] = 0] /\ recorded' = recorded /\ KeepNav

(* ... moves to another leaf.                                                *)
Moving ==
  /\ \E n \in 0..Len(branch), ks \in {<<>>, <<"custom">>} : MoveTo(n, ks)
  /\ navTo' = 0 /\ recorded' = recorded

(* The messages that are recorded.                                           *)
LEMMA NotesArePlain ==
  ASSUME NEW n \in Nat
  PROVE  Notes(n) \in Seq(Plain) /\ Len(Notes(n)) = n /\ \A i \in 1..n : Notes(n)[i] = "note"
<1>1. "note" \in Plain
  BY DEF Plain, Kind
<1> QED BY <1>1 DEF Notes

(* A message by itself, ...                                                  *)
LEMMA OneIsPlain ==
  ASSUME NEW k \in Plain
  PROVE  <<k>> \in Seq(Plain) /\ Len(<<k>>) = 1 /\ <<k>>[1] = k
  OBVIOUS

(* ... and one with the notes of its turn behind it.                         *)
LEMMA BehindIsPlain ==
  ASSUME NEW k \in Plain, NEW n \in Nat
  PROVE  /\ <<k>> \o Notes(n) \in Seq(Plain) /\ Len(<<k>> \o Notes(n)) = n + 1
         /\ (<<k>> \o Notes(n))[1] = k
         /\ \A i \in 2..(n + 1) : (<<k>> \o Notes(n))[i] = "note"
<1> DEFINE t == Notes(n)
<1>1. t \in Seq(Plain) /\ Len(t) = n /\ \A i \in 1..n : t[i] = "note"
  BY NotesArePlain
<1> HIDE DEF t
<1>2. /\ <<k>> \o t \in Seq(Plain) /\ Len(<<k>> \o t) = n + 1
      /\ (<<k>> \o t)[1] = k
      /\ \A i \in 2..(n + 1) : (<<k>> \o t)[i] = "note"
  BY <1>1
<1> QED BY <1>2 DEF t

(* Recording any of them.                                                    *)
LEMMA RecordsNotes ==
  ASSUME NEW n \in Nat, Record(Notes(n)), UNCHANGED cut, KeepNav
  PROVE  Recording
  BY NotesArePlain DEF Recording

(* Recording one message that is no result.                                  *)
LEMMA RecordsOne ==
  ASSUME NEW k \in Plain \ {"result"}, Record(<<k>>), UNCHANGED cut, KeepNav
  PROVE  Recording
<1>1. \A i \in 1..Len(<<k>>) : <<k>>[i] # "result"
  BY OneIsPlain
<1> QED BY <1>1, OneIsPlain DEF Recording

(* Recording a message and notes; a result only while tools run.             *)
LEMMA RecordsBehind ==
  ASSUME NEW k \in Plain, k = "result" => phase = "tools",
         NEW n \in Nat, Record(<<k>> \o Notes(n)), UNCHANGED cut, KeepNav
  PROVE  Recording
<1> DEFINE s == <<k>> \o Notes(n)
<1>1. s \in Seq(Plain) /\ Len(s) = n + 1 /\ s[1] = k /\ \A i \in 2..(n + 1) : s[i] = "note"
  BY BehindIsPlain
<1>2. Record(s)
  OBVIOUS
<1> HIDE DEF s
<1>3. \A i \in 1..Len(s) : s[i] = "result" => i = 1 /\ phase = "tools"
  BY <1>1
<1> QED BY <1>1, <1>2, <1>3 DEF Recording

(* Every step is one of the four.                                            *)
LEMMA LogStep ==
  ASSUME ControlOK, LogInv, [Next]_vars
  PROVE  Recording \/ Trimming \/ Compacting \/ Moving
<1> USE DEF callVars, retryVars, ctlVars, pendVars, runVars, queueVars, logVars, histVars
<1>0. /\ pendingBash + pendingCustom \in Nat /\ pendingCustom \in Nat /\ pendingNextTurn \in Nat
      /\ {"custom", "user", "result"} \subseteq Plain
  BY DEF ControlOK, CountsOK, Plain, Kind
<1>1. ASSUME NEW c \in Caller, PromptRejected(c) PROVE Recording \/ Trimming \/ Compacting \/ Moving
  BY <1>1 DEF PromptRejected, At, Go, Trimming, KeepNav
<1>2. ASSUME NEW c \in Caller, PromptQueued(c) PROVE Recording \/ Trimming \/ Compacting \/ Moving
  BY <1>2 DEF PromptQueued, At, Go, Enqueue, Trimming, KeepNav
<1>3. ASSUME NEW c \in Caller, PromptPreflight(c) PROVE Recording \/ Trimming \/ Compacting \/ Moving
  BY <1>3, <1>0, RecordsNotes DEF PromptPreflight, FlushPending, KeepNav
<1>4. ASSUME NEW c \in Caller, TriggerTurn(c) PROVE Recording \/ Trimming \/ Compacting \/ Moving
  <2>1. UNCHANGED cut /\ KeepNav
    BY <1>4 DEF TriggerTurn, RunAgentPrompt, Settle, KeepNav
  <2>2. CASE Settle(c)
    BY <1>0, <2>1, <2>2, RecordsNotes DEF Settle, FlushPending
  <2>3. CASE ~Settle(c)
    <3>1. Record(<<"custom">>)
      BY <1>4, <2>3 DEF TriggerTurn, RunAgentPrompt
    <3> QED BY <1>0, <2>1, <3>1, RecordsOne
  <2> QED BY <2>2, <2>3
<1>5. CASE Steer
  BY <1>5 DEF Steer, Enqueue, Trimming, KeepNav
<1>6. CASE ClearQueue
  BY <1>6 DEF ClearQueue, Trimming, KeepNav
<1>7. CASE RecordBashResult
  <2>1. UNCHANGED logVars \/ Record(Notes(1))
    BY <1>7 DEF RecordBashResult
  <2>2. UNCHANGED cut /\ KeepNav
    BY <1>7 DEF RecordBashResult, noteRest, KeepNav
  <2>3. CASE Record(Notes(1))
    BY <2>2, <2>3, RecordsNotes
  <2>4. CASE UNCHANGED logVars
    BY <2>2, <2>4 DEF Trimming
  <2> QED BY <2>1, <2>3, <2>4
<1>8. CASE SendCustomMessage
  <2>1. UNCHANGED logVars \/ Record(Notes(1))
    BY <1>8 DEF SendCustomMessage
  <2>2. UNCHANGED cut /\ KeepNav
    BY <1>8 DEF SendCustomMessage, noteRest, KeepNav
  <2>3. CASE Record(Notes(1))
    BY <2>2, <2>3, RecordsNotes
  <2>4. CASE UNCHANGED logVars
    BY <2>2, <2>4 DEF Trimming
  <2> QED BY <2>1, <2>3, <2>4
<1>9. CASE Abort
  BY <1>9 DEF Abort, AbortAll, Aborted, Trimming, KeepNav
<1>10. CASE AbortOne
  BY <1>10 DEF AbortOne, Aborted, Trimming, KeepNav
<1>11. CASE Compact
  BY <1>11 DEF Compact, AbortAll, Aborted, manualRest, Trimming, KeepNav
<1>12. CASE NavigateTree
  <2>1. navTo = 0 /\ Targets \subseteq 0..Len(branch) /\ recorded' = recorded
    <3>1. navTo = 0 /\ recorded' = recorded
      BY <1>12 DEF NavigateTree, Idle, LogInv, navRest
    <3>2. Len(branch) \in Nat
      BY DEF LogInv, BranchOK, WellKept
    <3> QED BY <3>1, <3>2 DEF Targets
  <2> QED BY <1>12, <2>1 DEF NavigateTree, Trimming, Moving
<1>13. ASSUME NEW c \in Caller, CheckBeforePrompt(c) PROVE Recording \/ Trimming \/ Compacting \/ Moving
  BY <1>13 DEF CheckBeforePrompt, At, Go, NoCompaction, RecoverOverflow, OverThreshold, compactRest, Trimming, KeepNav
<1>14. ASSUME NEW c \in Caller, Send(c) PROVE Recording \/ Trimming \/ Compacting \/ Moving
  <2>1. UNCHANGED cut /\ KeepNav
    BY <1>14 DEF Send, RunAgentPrompt, Settle, KeepNav
  <2>2. CASE Settle(c)
    BY <1>0, <2>1, <2>2, RecordsNotes DEF Settle, FlushPending
  <2>3. CASE ~Settle(c)
    <3>1. Record(<<"user">> \o Notes(pendingNextTurn))
      BY <1>14, <2>3 DEF Send, RunAgentPrompt
    <3> QED BY <1>0, <2>1, <3>1, RecordsBehind
  <2> QED BY <2>2, <2>3
<1>15. ASSUME NEW c \in Caller, NEW k \in Replied, Reply(c, k) PROVE Recording \/ Trimming \/ Compacting \/ Moving
  <2>1. UNCHANGED cut /\ KeepNav /\ k \in Plain \ {"result"}
    BY <1>15 DEF Reply, turnRest, KeepNav, Replied, Plain, Kind
  <2>2. Record(<<k>>) \/ Record(<<k>> \o Notes(pendingCustom))
    BY <1>15 DEF Reply
  <2> QED BY <1>0, <2>1, <2>2, RecordsOne, RecordsBehind
<1>16. ASSUME NEW c \in Caller, ToolsFinish(c) PROVE Recording \/ Trimming \/ Compacting \/ Moving
  <2>1. UNCHANGED cut /\ KeepNav /\ phase = "tools"
    BY <1>16 DEF ToolsFinish, turnRest, KeepNav, Running
  <2>2. Record(<<"result">> \o Notes(pendingCustom)) \/ Record(Notes(pendingCustom))
    BY <1>16 DEF ToolsFinish
  <2> QED BY <1>0, <2>1, <2>2, RecordsNotes, RecordsBehind
<1>17. ASSUME NEW c \in Caller, NextTurn(c) PROVE Recording \/ Trimming \/ Compacting \/ Moving
  BY <1>17 DEF NextTurn, turnRest, Running, At, Go, PrepareNextTurn, Take, Trimming, KeepNav
<1>18. ASSUME NEW c \in Caller, PollQueues(c) PROVE Recording \/ Trimming \/ Compacting \/ Moving
  BY <1>18 DEF PollQueues, turnRest, Running, At, Go, PrepareNextTurn, Take, Trimming, KeepNav
<1>19. ASSUME NEW c \in Caller, Inject(c) PROVE Recording \/ Trimming \/ Compacting \/ Moving
  <2>1. UNCHANGED cut /\ KeepNav
    BY <1>19 DEF Inject, turnRest, KeepNav
  <2>2. UNCHANGED logVars \/ Record(<<"user">>) \/ Record(<<"custom">>)
    BY <1>19 DEF Inject
  <2>3. CASE UNCHANGED logVars
    BY <2>1, <2>3 DEF Trimming
  <2>4. CASE Record(<<"user">>) \/ Record(<<"custom">>)
    BY <1>0, <2>1, <2>4, RecordsOne
  <2> QED BY <2>2, <2>3, <2>4
<1>20. ASSUME NEW c \in Caller, RunEnds(c) PROVE Recording \/ Trimming \/ Compacting \/ Moving
  BY <1>20 DEF RunEnds, Running, At, Go, Trimming, KeepNav
<1>21. ASSUME NEW c \in Caller, PostRun(c) PROVE Recording \/ Trimming \/ Compacting \/ Moving
  BY <1>21 DEF PostRun, At, Go, postRest, RetriesLeft, GiveUpRetrying, Trimming, KeepNav
<1>22. ASSUME NEW c \in Caller, RetryWakes(c) PROVE Recording \/ Trimming \/ Compacting \/ Moving
  BY <1>22 DEF RetryWakes, At, Go, postRest, Trimming, KeepNav
<1>23. ASSUME NEW c \in Caller, CheckAfterRun(c) PROVE Recording \/ Trimming \/ Compacting \/ Moving
  BY <1>23 DEF CheckAfterRun, At, Go, NoCompaction, RecoverOverflow, OverThreshold, compactRest, Trimming, KeepNav
<1>24. ASSUME NEW c \in Caller, Decide(c) PROVE Recording \/ Trimming \/ Compacting \/ Moving
  BY <1>24 DEF Decide, At, Go, Trimming, KeepNav
<1>25. ASSUME NEW c \in Caller, ContinueRun(c) PROVE Recording \/ Trimming \/ Compacting \/ Moving
  BY <1>25 DEF ContinueRun, At, Go, Rejected, Take, Trimming, KeepNav
<1>26. ASSUME NEW c \in Caller, SettleRun(c) PROVE Recording \/ Trimming \/ Compacting \/ Moving
  <2>1. Record(Notes(pendingBash + pendingCustom)) /\ UNCHANGED cut /\ KeepNav
    BY <1>26 DEF SettleRun, Settle, FlushPending, KeepNav
  <2> QED BY <1>0, <2>1, RecordsNotes
<1>27. ASSUME NEW c \in Caller, AutoCompactionStart(c) PROVE Recording \/ Trimming \/ Compacting \/ Moving
  BY <1>27 DEF AutoCompactionStart, Prepare, compactRest, Trimming, KeepNav
<1>28. ASSUME NEW c \in Caller, AutoCompactionFails(c) PROVE Recording \/ Trimming \/ Compacting \/ Moving
  BY <1>28 DEF AutoCompactionFails, Forget, compactRest, Trimming, KeepNav
<1>29. ASSUME NEW c \in Caller, AutoCompactionSucceeds(c) PROVE Recording \/ Trimming \/ Compacting \/ Moving
  BY <1>29 DEF AutoCompactionSucceeds, Rebuilt, Forget, compactRest, Compacting, KeepNav
<1>30. CASE CompactStart
  BY <1>30 DEF CompactStart, manualRest, Trimming, KeepNav
<1>31. CASE CompactPrepare
  BY <1>31 DEF CompactPrepare, Prepare, ClearManualCompactionState, Forget, manualRest, Trimming, KeepNav
<1>32. CASE CompactFinish
  BY <1>32 DEF CompactFinish, ClearManualCompactionState, Forget, manualRest, Trimming, Compacting, KeepNav
<1>33. CASE NavigateFinish
  BY <1>33 DEF NavigateFinish, navRest, Trimming, Moving, LogInv
<1>34. CASE UNCHANGED vars
  BY <1>34 DEF vars, Trimming, KeepNav
<1> QED
  BY <1>1, <1>2, <1>3, <1>4, <1>5, <1>6, <1>7, <1>8, <1>9, <1>10, <1>11, <1>12,
     <1>13, <1>14, <1>15, <1>16, <1>17, <1>18, <1>19, <1>20, <1>21, <1>22, <1>23,
     <1>24, <1>25, <1>26, <1>27, <1>28, <1>29, <1>30, <1>31, <1>32, <1>33, <1>34
     DEF Next, Client, Step

(* The cuts chosen are entries that are no results.                          *)
LEMMA CutsAreKept ==
  ASSUME BranchOK(branch), NEW k \in CutPoints(branch)
  PROVE  k \in 1..Len(branch) /\ branch[k].kind # "result"
<1>1. branch \in Seq(Entries) /\ Len(branch) \in Nat
  BY DEF BranchOK, WellKept
<1> DEFINE p == LastCompaction(branch)
           start == IF p = 0 THEN 1 ELSE FirstKept(branch, p)
<1>2. k \in start..Len(branch) /\ branch[k].kind # "result"
  BY DEF CutPoints
<1>3. start \in Nat \ {0}
  <2>1. p \in 0..Len(branch)
    BY LastCompactionOf
  <2>2. p # 0 => branch[p].kept \in Nat
    BY <1>1, <2>1, EntryTypes
  <2> QED BY <1>1, <2>1, <2>2 DEF FirstKept
<1> QED BY <1>1, <1>2, <1>3

(* The invariant of the log survives when the branch grows or is cut and the *)
(* compactions under way keep their cuts or lose them.                       *)
LEMMA LogGrows ==
  ASSUME LogInv, messages' \in Seq(Kind), BranchOK(branch'), recorded' \in Nat,
         Len(branch') >= Len(branch), \A i \in 1..Len(branch) : branch'[i] = branch[i],
         UNCHANGED cut \/ \E w \in Caller \cup {Manual}, k \in {0} \cup CutPoints(branch) :
                            cut' = [cut EXCEPT ![w] = k],
         navTo' \in 0..Len(branch), navTo' # 0 => branchCtl' # "none"
  PROVE  LogInv'
<1>1. Len(branch) \in Nat /\ Len(branch') \in Nat
  BY DEF LogInv, BranchOK, WellKept
<1>2. ASSUME NEW w \in Caller \cup {Manual}
      PROVE  /\ cut'[w] \in 0..Len(branch)
             /\ cut'[w] # 0 => branch[cut'[w]].kind # "result"
  <2>1. cut'[w] = cut[w] \/ cut'[w] = 0 \/ cut'[w] \in CutPoints(branch)
    BY DEF LogInv
  <2> QED BY <1>1, <2>1, CutsAreKept DEF LogInv
<1>3. cut' \in [Caller \cup {Manual} -> 0..Len(branch')]
  <2>1. cut' = [w \in Caller \cup {Manual} |-> cut'[w]]
    BY DEF LogInv
  <2>2. \A w \in Caller \cup {Manual} : cut'[w] \in 0..Len(branch')
    BY <1>1, <1>2
  <2> QED BY <2>1, <2>2
<1>4. ASSUME NEW w \in Caller \cup {Manual}, cut'[w] # 0
      PROVE  branch'[cut'[w]].kind # "result"
  <2>1. cut'[w] \in 1..Len(branch)
    BY <1>1, <1>2, <1>4
  <2> QED BY <1>2, <1>4, <2>1
<1>5. navTo' \in 0..Len(branch')
  BY <1>1
<1> QED BY <1>3, <1>4, <1>5 DEF LogInv

(* What navigateTree appends.                                                *)
LEMMA MovesArePlain ==
  ASSUME NEW ks \in {<<>>, <<"custom">>}
  PROVE  ks \in Seq(Plain) /\ \A i \in 1..Len(ks) : ks[i] # "result"
<1>1. "custom" \in Plain
  BY DEF Plain, Kind
<1>2. CASE ks = <<>>
  BY <1>2
<1>3. CASE ks = <<"custom">>
  <2>1. <<"custom">> \in Seq(Plain) /\ Len(<<"custom">>) = 1 /\ <<"custom">>[1] = "custom"
    BY <1>1, OneIsPlain
  <2> QED BY <1>3, <2>1
<1> QED BY <1>2, <1>3

(* Every step keeps the log well-formed.                                     *)
LEMMA LogNext ==
  ASSUME ControlOK, LogInv, [Next]_vars
  PROVE  LogInv'
<1>1. branch \in Seq(Entries) /\ Len(branch) \in Nat /\ BranchOK(branch) /\ messages \in Seq(Kind)
  BY DEF LogInv, BranchOK, WellKept
<1>2. CASE Recording
  <2>1. PICK ks \in Seq(Plain) : Record(ks)
    BY <1>2 DEF Recording
  <2>2. /\ branch' = branch \o [i \in 1..Len(ks) |-> Entry(ks[i])] /\ messages' = messages \o ks
        /\ recorded' = recorded + Cardinality({i \in 1..Len(ks) : ks[i] = "note"})
    BY <2>1 DEF Record
  <2>3. /\ BranchOK(branch') /\ Len(branch') = Len(branch) + Len(ks)
        /\ \A i \in 1..Len(branch) : branch'[i] = branch[i]
    BY <1>1, <2>2, BranchRecords
  <2>4. messages' \in Seq(Kind)
    <3>1. ks \in Seq(Kind)
      BY SeqMonotonic DEF Plain
    <3> QED BY ONLY <1>1, <2>2, <3>1, ConcatProperties
  <2>5. recorded' \in Nat
    <3>1. IsFiniteSet(1..Len(ks))
      BY FS_Interval
    <3>2. Cardinality({i \in 1..Len(ks) : ks[i] = "note"}) \in Nat
      BY <3>1, FS_Subset, FS_CardinalityType
    <3> QED BY <2>2, <3>2 DEF LogInv
  <2>6. UNCHANGED cut /\ navTo' \in 0..Len(branch) /\ (navTo' # 0 => branchCtl' # "none")
    BY <1>2 DEF Recording, KeepNav, LogInv
  <2>7. Len(branch') >= Len(branch)
    BY <1>1, <2>3
  <2> QED BY <2>3, <2>4, <2>5, <2>6, <2>7, LogGrows
<1>3. CASE Trimming
  <2>1. UNCHANGED <<branch, recorded>> /\ messages' \in Seq(Kind)
    BY <1>1, <1>3, DropAssistantOf DEF Trimming
  <2>2. Targets \subseteq 0..Len(branch)
    BY <1>1 DEF Targets
  <2>3. navTo' \in 0..Len(branch) /\ (navTo' # 0 => branchCtl' # "none")
    <3>1. navTo \in 0..Len(branch) /\ (navTo # 0 => branchCtl # "none")
      BY DEF LogInv
    <3>2. KeepNav \/ navTo' = 0 \/ (navTo' \in Targets /\ branchCtl' = "set")
      BY <1>3 DEF Trimming
    <3>3. CASE KeepNav
      BY <3>1, <3>3 DEF KeepNav
    <3>4. CASE navTo' = 0
      BY <1>1, <3>4
    <3>5. CASE navTo' \in Targets /\ branchCtl' = "set"
      BY <2>2, <3>5
    <3> QED BY <3>2, <3>3, <3>4, <3>5
  <2>4. UNCHANGED cut \/ \E w \in Caller \cup {Manual}, k \in {0} \cup CutPoints(branch) :
                           cut' = [cut EXCEPT ![w] = k]
    BY <1>3 DEF Trimming
  <2>5. BranchOK(branch') /\ recorded' \in Nat /\ Len(branch') >= Len(branch)
        /\ \A i \in 1..Len(branch) : branch'[i] = branch[i]
    BY <1>1, <2>1 DEF LogInv
  <2> QED BY <2>1, <2>3, <2>4, <2>5, LogGrows
<1>4. CASE Compacting
  <2>1. PICK w \in Caller \cup {Manual} :
          /\ branch' = Append(branch, Compaction(cut[w]))
          /\ messages' \in {BuildContext(branch'), DropAssistant(BuildContext(branch'))}
          /\ cut' = [cut EXCEPT ![w] = 0] /\ recorded' = recorded /\ KeepNav
    BY <1>4 DEF Compacting
  <2>2. cut[w] \in 0..Len(branch) /\ (cut[w] # 0 => branch[cut[w]].kind # "result")
    BY DEF LogInv
  <2>3. /\ BranchOK(branch') /\ Len(branch') = Len(branch) + 1
        /\ \A i \in 1..Len(branch) : branch'[i] = branch[i]
    BY <1>1, <2>1, <2>2, BranchCompacts
  <2>4. messages' \in Seq(Kind)
    BY <2>1, <2>3, ContextIsTyped, DropAssistantOf
  <2>5. recorded' \in Nat /\ navTo' \in 0..Len(branch) /\ (navTo' # 0 => branchCtl' # "none")
    BY <2>1 DEF LogInv, KeepNav
  <2>6. Len(branch') >= Len(branch)
    BY <1>1, <2>3
  <2> QED BY <2>1, <2>3, <2>4, <2>5, <2>6, LogGrows
<1>5. CASE Moving
  <2>1. PICK n \in 0..Len(branch), ks \in {<<>>, <<"custom">>} : MoveTo(n, ks)
    BY <1>5 DEF Moving
  <2> DEFINE b == SubSeq(branch, 1, n)
  <2>2. BranchOK(b) /\ Len(b) = n /\ \A i \in 1..n : b[i] = branch[i]
    BY <1>1, BranchIsCut
  <2>3. ks \in Seq(Plain)
    BY <2>1, MovesArePlain
  <2>4. branch' = b \o [i \in 1..Len(ks) |-> Entry(ks[i])] /\ messages' = BuildContext(branch')
    BY <2>1 DEF MoveTo
  <2> HIDE DEF b
  <2>5. /\ BranchOK(branch') /\ Len(branch') = n + Len(ks)
        /\ \A i \in 1..n : branch'[i] = branch[i]
    BY <2>2, <2>3, <2>4, BranchRecords
  <2>6. messages' \in Seq(Kind)
    BY <2>4, <2>5, ContextIsTyped
  <2>7. cut' = [w \in Caller \cup {Manual} |-> IF cut[w] > n THEN 0 ELSE cut[w]]
    BY <2>1 DEF MoveTo, LogInv
  <2>8. n \in Nat /\ Len(ks) \in Nat /\ n <= Len(branch')
    BY <1>1, <2>3, <2>5
  <2>9. ASSUME NEW w \in Caller \cup {Manual}
        PROVE  cut'[w] \in 0..Len(branch') /\ (cut'[w] # 0 => branch'[cut'[w]].kind # "result")
    <3>1. cut[w] \in 0..Len(branch) /\ (cut[w] # 0 => branch[cut[w]].kind # "result")
      BY DEF LogInv
    <3>2. cut'[w] = 0 \/ (cut'[w] = cut[w] /\ cut[w] <= n)
      BY <1>1, <2>7, <2>8, <3>1
    <3>3. cut'[w] # 0 => cut'[w] \in 1..n /\ cut'[w] = cut[w]
      BY <1>1, <2>8, <3>1, <3>2
    <3> QED BY <2>5, <2>8, <3>1, <3>3
  <2>10. cut' \in [Caller \cup {Manual} -> 0..Len(branch')]
    <3>1. cut' = [w \in Caller \cup {Manual} |-> cut'[w]]
      BY <2>7
    <3> QED BY <2>9, <3>1
  <2>11. recorded' \in Nat /\ navTo' \in 0..Len(branch') /\ navTo' = 0
    BY <1>5, <2>8, <2>5 DEF Moving, LogInv
  <2> QED BY <2>5, <2>6, <2>9, <2>10, <2>11 DEF LogInv
<1> QED BY <1>2, <1>3, <1>4, <1>5, LogStep

(* Results stay with their calls, as long as tools finish behind theirs.     *)
PairInv == Paired(messages) /\ Paired(Kinds(branch))

(* While tools run, transcript and branch end in their call.                 *)
ToolsInv ==
  phase = "tools" => /\ messages # <<>> /\ Last(messages) = "call"
                     /\ branch # <<>> /\ Last(branch).kind = "call"

(* Every step keeps results behind their calls.                              *)
LEMMA PairNext ==
  ASSUME ControlOK, LogInv, ToolsInv, PairInv, [Next]_vars
  PROVE  PairInv'
<1>1. branch \in Seq(Entries) /\ Len(branch) \in Nat /\ BranchOK(branch) /\ messages \in Seq(Kind)
  BY DEF LogInv, BranchOK, WellKept
<1>2. branch' \in Seq(Entries) /\ BranchOK(branch')
  BY LogNext DEF LogInv, BranchOK, WellKept
<1>3. Paired(messages) /\ Paired(Kinds(branch))
  BY DEF PairInv
<1>4. CASE Recording
  <2>1. PICK ks \in Seq(Plain) :
          Record(ks) /\ \A i \in 1..Len(ks) : ks[i] = "result" => i = 1 /\ phase = "tools"
    BY <1>4 DEF Recording
  <2>2. branch' = branch \o [i \in 1..Len(ks) |-> Entry(ks[i])] /\ messages' = messages \o ks
    BY <2>1 DEF Record
  <2>3. Paired(messages')
    BY <1>1, <1>3, <2>1, <2>2, PairedConcat DEF ToolsInv
  <2>4. Paired(Kinds(branch'))
    BY <1>1, <1>3, <2>1, <2>2, KindsRecord DEF ToolsInv
  <2> QED BY <2>3, <2>4 DEF PairInv
<1>5. CASE Trimming
  BY <1>1, <1>3, <1>5, PairedDrop DEF Trimming, PairInv
<1>6. CASE Compacting
  <2>1. PICK w \in Caller \cup {Manual} :
          /\ branch' = Append(branch, Compaction(cut[w]))
          /\ messages' \in {BuildContext(branch'), DropAssistant(BuildContext(branch'))}
    BY <1>6 DEF Compacting
  <2>2. cut[w] \in 0..Len(branch) /\ (cut[w] # 0 => branch[cut[w]].kind # "result")
    BY DEF LogInv
  <2>3. /\ Len(branch') = Len(branch) + 1
        /\ \A i \in 1..Len(branch) : branch'[i] = branch[i]
        /\ branch'[Len(branch) + 1].kind = "summary"
    BY <1>1, <2>1, <2>2, BranchCompacts
  <2>4. Paired(Kinds(branch'))
    <3>1. branch \in Seq(Entries) /\ branch' \in Seq(Entries) /\ Paired(Kinds(branch))
      BY <1>1, <1>2, <1>3
    <3>2. /\ Len(branch) \in Nat /\ Len(branch) <= Len(branch)
          /\ Len(branch') \in {Len(branch), Len(branch) + 1}
          /\ \A i \in 1..Len(branch) : branch'[i] = branch[i]
          /\ Len(branch') = Len(branch) + 1 => branch'[Len(branch) + 1].kind # "result"
      BY <1>1, <2>3
    <3> QED BY ONLY <3>1, <3>2, KindsAgree
  <2>5. BuildContext(branch') \in Seq(Kind) /\ Paired(BuildContext(branch'))
    BY <1>2, <2>4, ContextIsPaired
  <2> QED BY <2>1, <2>4, <2>5, PairedDrop DEF PairInv
<1>7. CASE Moving
  <2>1. PICK n \in 0..Len(branch), ks \in {<<>>, <<"custom">>} : MoveTo(n, ks)
    BY <1>7 DEF Moving
  <2> DEFINE b == SubSeq(branch, 1, n)
  <2>2. BranchOK(b) /\ Len(b) = n /\ \A i \in 1..n : b[i] = branch[i]
    BY <1>1, BranchIsCut
  <2>3. ks \in Seq(Plain) /\ \A i \in 1..Len(ks) : ks[i] # "result"
    BY <2>1, MovesArePlain
  <2>4. branch' = b \o [i \in 1..Len(ks) |-> Entry(ks[i])] /\ messages' = BuildContext(branch')
    BY <2>1 DEF MoveTo
  <2> HIDE DEF b
  <2>5. Paired(Kinds(b))
    <3>1. b \in Seq(Entries) /\ n \in Nat /\ n <= Len(branch) /\ Len(b) \in {n, n + 1}
          /\ Len(b) # n + 1
      BY <1>1, <2>2 DEF BranchOK, WellKept
    <3> QED BY <1>1, <1>3, <2>2, <3>1, KindsAgree
  <2>6. Paired(Kinds(branch'))
    BY <2>2, <2>3, <2>4, <2>5, KindsRecord
  <2>7. Paired(messages')
    BY <1>2, <2>4, <2>6, ContextIsPaired
  <2> QED BY <2>6, <2>7 DEF PairInv
<1> QED BY <1>4, <1>5, <1>6, <1>7, LogStep

--------------------------------------------------------------------------------
(* What a run continues from *)

(* A transcript that the agent can continue, and a branch it is rebuilt to   *)
(* one from.                                                                 *)
Continues(s) == s # <<>> /\ ~EndsInAssistant(s)
BranchContinues == branch # <<>> /\ Last(branch).kind \notin Replied
EndsInCall == /\ messages # <<>> /\ Last(messages) = "call"
              /\ branch # <<>> /\ Last(branch).kind = "call"
CompactsInTurn(c) == pc[c] \in {"compactAuth", "compacting"} /\ job[c] = "turn"

(* A run that was not aborted asks for a reply to a transcript that goes on, *)
(* so the transcript without a failed reply goes on again, and the retry it  *)
(* was taken out for is not rejected.  Attempts are counted only then.       *)
RunsOn ==
  /\ phase = "poll" => runAborted \/ taken = 1 \/ Continues(messages)
  /\ phase = "request" => runAborted \/ Continues(messages)
  /\ phase = "tools" => EndsInCall
  /\ phase = "turn" => runAborted \/ (Continues(messages) /\ BranchContinues)
  /\ phase \in {"tools", "turn", "stopped"} => lastAssistantMessage # "error" /\ retryAttempt = 0
FailsOn ==
  /\ lastAssistantMessage = "error" => Continues(DropAssistant(messages))
  /\ retryAttempt > 0 => lastAssistantMessage \in Failed
ReadyAt(c) ==
  /\ pc[c] = "run" => RunsOn /\ (phase = "ended" => FailsOn)
  /\ pc[c] = "post" => FailsOn
  /\ pc[c] = "retry" => Continues(messages)
  /\ pc[c] = "continue" /\ retryAttempt > 0 => Continues(messages)
  /\ pc[c] \notin {"run", "post", "retry", "continue"} => retryAttempt = 0
  /\ CompactsInTurn(c) => /\ phase = "poll"
                          /\ runAborted \/ taken = 1 \/ (Continues(messages) /\ BranchContinues)
  /\ pc[c] = "compacting" => cut[c] # 0
ReadyInv ==
  /\ phase # "none" <=> activeRun
  /\ \A c \in Caller : Busy(c) => ReadyAt(c)
  /\ Unattended => retryAttempt = 0

(* What transcript and branch end with after messages are recorded.          *)
LEMMA RecordEnds ==
  ASSUME LogInv, NEW ks \in Seq(Plain), ks # <<>>, Record(ks)
  PROVE  /\ messages' # <<>> /\ Last(messages') = ks[Len(ks)]
         /\ branch' # <<>> /\ Last(branch').kind = ks[Len(ks)]
<1>1. messages \in Seq(Kind) /\ Len(messages) \in Nat /\ Len(ks) \in Nat /\ Len(ks) > 0
      /\ branch \in Seq(Entries) /\ Len(branch) \in Nat /\ BranchOK(branch)
  BY DEF LogInv, BranchOK, WellKept
<1>2. branch' = branch \o [i \in 1..Len(ks) |-> Entry(ks[i])] /\ messages' = messages \o ks
  BY DEF Record
<1>3. /\ messages' \in Seq(Kind) /\ Len(messages') = Len(messages) + Len(ks)
      /\ messages'[Len(messages) + Len(ks)] = ks[Len(ks)]
  <2>1. ks \in Seq(Kind)
    BY SeqMonotonic DEF Plain
  <2>2. /\ messages' \in Seq(Kind) /\ Len(messages') = Len(messages) + Len(ks)
        /\ \A i \in 1..(Len(messages) + Len(ks)) :
             messages'[i] = IF i <= Len(messages) THEN messages[i] ELSE ks[i - Len(messages)]
    BY ONLY <1>1, <1>2, <2>1, ConcatProperties
  <2>3. /\ Len(messages) + Len(ks) \in 1..(Len(messages) + Len(ks))
        /\ ~(Len(messages) + Len(ks) <= Len(messages))
        /\ (Len(messages) + Len(ks)) - Len(messages) = Len(ks)
    BY <1>1
  <2> QED BY <2>2, <2>3
<1>4. /\ Len(branch') = Len(branch) + Len(ks)
      /\ \A i \in 1..Len(ks) : branch'[Len(branch) + i].kind = ks[i]
      /\ BranchOK(branch')
  BY <1>1, <1>2, BranchRecords
<1>5. branch' \in Seq(Entries) /\ Len(ks) \in 1..Len(ks)
  BY <1>1, <1>4 DEF BranchOK, WellKept
<1>6. messages' # <<>> /\ branch' # <<>>
  BY <1>1, <1>3, <1>4, <1>5
<1> QED BY <1>3, <1>4, <1>5, <1>6 DEF Last

(* A message that is no reply, notes behind it or not, can be continued from. *)
LEMMA EndsWell ==
  ASSUME LogInv, NEW k \in Plain \ Replied, NEW n \in Nat,
         Record(<<k>>) \/ Record(<<k>> \o Notes(n))
  PROVE  Continues(messages') /\ BranchContinues'
<1>1. CASE Record(<<k>>)
  <2>1. <<k>> \in Seq(Plain) /\ <<k>> # <<>> /\ <<k>>[Len(<<k>>)] = k
    BY OneIsPlain
  <2>2. /\ messages' # <<>> /\ Last(messages') = k
        /\ branch' # <<>> /\ Last(branch').kind = k
    BY <1>1, <2>1, RecordEnds
  <2> QED BY <2>2 DEF Continues, EndsInAssistant, BranchContinues
<1>2. CASE Record(<<k>> \o Notes(n))
  <2> DEFINE ks == <<k>> \o Notes(n)
  <2>1. ks \in Seq(Plain) /\ Len(ks) = n + 1 /\ ks[1] = k /\ \A i \in 2..(n + 1) : ks[i] = "note"
    BY BehindIsPlain
  <2>2. Record(ks)
    BY <1>2
  <2> HIDE DEF ks
  <2>3. ks # <<>> /\ ks[Len(ks)] \in {k, "note"}
    <3>1. n = 0 \/ n + 1 \in 2..(n + 1)
      OBVIOUS
    <3> QED BY <2>1, <3>1
  <2>4. /\ messages' # <<>> /\ Last(messages') \in {k, "note"}
        /\ branch' # <<>> /\ Last(branch').kind \in {k, "note"}
    BY <2>1, <2>2, <2>3, RecordEnds
  <2>5. "note" \notin Replied
    BY DEF Replied
  <2> QED BY <2>4, <2>5 DEF Continues, EndsInAssistant, BranchContinues
<1> QED BY <1>1, <1>2

(* A call is what transcript and branch end with.                            *)
LEMMA EndsCalling ==
  ASSUME LogInv, Record(<<"call">>)
  PROVE  EndsInCall'
<1>1. "call" \in Plain
  BY DEF Plain, Kind, Replied
<1>2. <<"call">> \in Seq(Plain) /\ <<"call">> # <<>> /\ <<"call">>[Len(<<"call">>)] = "call"
  BY <1>1, OneIsPlain
<1> QED BY <1>2, RecordEnds DEF EndsInCall

(* A failed reply that is dropped again uncovers what it replied to; behind  *)
(* the notes of its turn there is nothing to drop.                           *)
LEMMA DropUncovers ==
  ASSUME LogInv, Continues(messages), NEW k \in Failed, NEW n \in Nat,
         Record(<<k>> \o Notes(n))
  PROVE  Continues(DropAssistant(messages'))
<1> DEFINE ks == <<k>> \o Notes(n)
<1>1. k \in Plain /\ k \in Replied
  BY DEF Failed, Plain, Kind, Replied
<1>2. ks \in Seq(Plain) /\ Len(ks) = n + 1 /\ ks[1] = k /\ \A i \in 2..(n + 1) : ks[i] = "note"
  BY <1>1, BehindIsPlain
<1>3. Record(ks)
  OBVIOUS
<1> HIDE DEF ks
<1>4. ks # <<>> /\ messages' # <<>> /\ Last(messages') = ks[n + 1]
  <2>1. ks # <<>>
    BY <1>2
  <2> QED BY <1>2, <1>3, <2>1, RecordEnds
<1>5. CASE n > 0
  <2>1. Last(messages') = "note"
    BY <1>2, <1>4, <1>5
  <2>2. ~EndsInAssistant(messages')
    BY <2>1 DEF EndsInAssistant, Replied
  <2> QED BY <1>4, <2>2 DEF DropAssistant, Continues
<1>6. CASE n = 0
  <2>1. messages \in Seq(Kind) /\ Len(messages) \in Nat /\ messages # <<>> /\ Len(messages) > 0
    BY DEF LogInv, Continues
  <2>2. Last(messages') \in Replied
    BY <1>1, <1>2, <1>4, <1>6
  <2>3. /\ messages' \in Seq(Kind) /\ Len(messages') = Len(messages) + 1
        /\ \A i \in 1..Len(messages) : messages'[i] = messages[i]
    <3>1. messages' = messages \o ks /\ ks \in Seq(Kind)
      BY <1>2, <1>3, SeqMonotonic DEF Record, Plain
    <3>2. /\ messages' \in Seq(Kind) /\ Len(messages') = Len(messages) + Len(ks)
          /\ \A i \in 1..(Len(messages) + Len(ks)) :
               messages'[i] = IF i <= Len(messages) THEN messages[i] ELSE ks[i - Len(messages)]
      BY ONLY <2>1, <3>1, ConcatProperties
    <3> QED BY <1>2, <1>6, <2>1, <3>2
  <2> DEFINE t == DropAssistant(messages')
  <2>4. t \in Seq(Kind) /\ \A i \in 1..Len(t) : t[i] = messages'[i]
    BY <2>3, DropAssistantOf
  <2>5. Len(t) = Len(messages)
    <3>1. t = SubSeq(messages', 1, Len(messages') - 1)
      BY <1>4, <2>2 DEF DropAssistant, EndsInAssistant
    <3>2. Len(messages') - 1 = Len(messages)
      BY <2>1, <2>3
    <3>3. \A i \in 1..Len(messages) : messages'[i] \in Kind
      BY <2>1, <2>3
    <3>4. Len(SubSeq(messages', 1, Len(messages))) = Len(messages)
      <4> DEFINE m == Len(messages)
      <4>1. m \in Nat /\ m > 0
        BY <2>1
      <4>2. Len(SubSeq(messages', 1, m)) = IF 1 <= m THEN m - 1 + 1 ELSE 0
        BY <3>3, <4>1, SubSeqProperties
      <4> HIDE DEF m
      <4>3. (IF 1 <= m THEN m - 1 + 1 ELSE 0) = m
        BY ONLY <4>1
      <4> QED BY <4>2, <4>3 DEF m
    <3> QED BY <3>1, <3>2, <3>4
  <2> HIDE DEF t
  <2>6. t # <<>> /\ Last(t) = Last(messages)
    BY <2>1, <2>3, <2>4, <2>5 DEF Last
  <2>7. Continues(t)
    BY <2>1, <2>6 DEF Continues, EndsInAssistant
  <2> QED BY <2>7 DEF t
<1> QED BY <1>5, <1>6

(* The transcript rebuilt behind a compaction ends as the branch did.        *)
LEMMA ContextContinues ==
  ASSUME NEW b, BranchOK(b), NEW k \in 1..Len(b), b[k].kind # "result",
         b # <<>>, Last(b).kind \notin Replied
  PROVE  Continues(BuildContext(Append(b, Compaction(k))))
<1> DEFINE d == Append(b, Compaction(k))
           p == LastCompaction(d)
           s == BuildContext(d)
<1>1. b \in Seq(Entries) /\ Len(b) \in Nat /\ k \in 0..Len(b)
  BY DEF BranchOK, WellKept
<1>2. /\ BranchOK(d) /\ Len(d) = Len(b) + 1
      /\ \A i \in 1..Len(b) : d[i] = b[i]
      /\ d[Len(b) + 1].kind = "summary" /\ d[Len(b) + 1].kept = k
  BY <1>1, BranchCompacts
<1> HIDE DEF d
<1>3. p = Len(b) + 1
  <2>1. p \in 0..Len(d) /\ IsTop(d, p, Len(d))
    BY <1>2, LastCompactionOf
  <2>2. p < Len(b) + 1 => Len(b) + 1 \in (p + 1)..Len(d)
    BY <1>1, <1>2, <2>1
  <2> QED BY <1>1, <1>2, <2>1, <2>2 DEF IsTop
<1>4. FirstKept(d, p) = k
  BY <1>1, <1>2, <1>3 DEF FirstKept
<1> DEFINE n == p - k
<1>5. n \in Nat /\ n > 0 /\ n = (IF p - k > 0 THEN p - k ELSE 0)
  BY <1>1, <1>3
<1>6. /\ s \in Seq(Kind) /\ Len(s) = 1 + n + (Len(d) - p)
      /\ \A i \in 1..n : s[1 + i] = d[k + i - 1].kind
  <2>1. p # 0
    BY <1>1, <1>3
  <2> QED BY <1>2, <1>4, <1>5, <2>1, ContextOf
<1> HIDE DEF s, p
<1>7. Len(s) = 1 + n /\ k + n - 1 = Len(b) /\ n \in 1..n
  BY <1>1, <1>2, <1>3, <1>5, <1>6
<1>8. s[1 + n] = d[Len(b)].kind
  BY <1>6, <1>7
<1>9. d[Len(b)] = b[Len(b)]
  BY <1>1, <1>2
<1>10. Last(s) = Last(b).kind /\ s # <<>>
  BY <1>5, <1>6, <1>7, <1>8, <1>9 DEF Last
<1> QED BY <1>10 DEF Continues, EndsInAssistant, s, d

(* The call under way moves on, or ends.                                     *)
LEMMA ReadyMoves ==
  ASSUME LoneInv, NEW c \in Caller, Busy(c), Moves(c), phase' # "none" <=> activeRun',
         Busy(c)' => ReadyAt(c)', ~Busy(c)' => retryAttempt' = 0
  PROVE  ReadyInv'
<1>1. \A d \in Caller : d # c => ~Busy(d)'
  BY DEF LoneInv, Busy, Moves
<1> QED BY <1>1 DEF ReadyInv, Unattended

(* A call begins when there is none.                                         *)
LEMMA ReadyBegins ==
  ASSUME Unattended, NEW c \in Caller, Moves(c), Busy(c)', phase' # "none" <=> activeRun',
         ReadyAt(c)'
  PROVE  ReadyInv'
<1>1. \A d \in Caller : d # c => ~Busy(d)'
  BY DEF Unattended, Busy, Moves
<1> QED BY <1>1 DEF ReadyInv, Unattended

(* Nothing changes that it says, but for the run being aborted.              *)
LEMMA ReadySame ==
  ASSUME ReadyInv,
         UNCHANGED <<messages, branch, phase, activeRun, taken, lastAssistantMessage, retryAttempt>>,
         runAborted => runAborted',
         \A c \in Caller : /\ Busy(c)' => Busy(c) /\ pc'[c] = pc[c] /\ job'[c] = job[c] /\ cut'[c] = cut[c]
                           /\ Busy(c) => Busy(c)'
  PROVE  ReadyInv'
<1>1. ASSUME NEW c \in Caller, Busy(c)' PROVE ReadyAt(c)'
  <2>1. Busy(c) /\ ReadyAt(c) /\ pc'[c] = pc[c] /\ job'[c] = job[c] /\ cut'[c] = cut[c]
    BY <1>1 DEF ReadyInv
  <2> QED BY <2>1 DEF ReadyAt, RunsOn, FailsOn, CompactsInTurn, EndsInCall, BranchContinues
<1>2. Unattended' => Unattended
  BY DEF Unattended
<1> QED BY <1>1, <1>2 DEF ReadyInv

(* The session is not in a run: all that counts is that there is no retry.   *)
LEMMA ReadyIdle ==
  ASSUME LoneInv, ReadyInv, ~isAgentRunActive,
         UNCHANGED <<pc, job, phase, activeRun, retryAttempt>>,
         \A c \in Caller : Busy(c) => cut'[c] = cut[c]
  PROVE  ReadyInv'
<1>1. ASSUME NEW c \in Caller, Busy(c)' PROVE ReadyAt(c)'
  <2>1. Busy(c) /\ ReadyAt(c) /\ InPreflight(c)
    BY <1>1 DEF ReadyInv, LoneInv, Busy
  <2>2. cut'[c] = cut[c]
    BY <2>1
  <2> QED BY <2>1, <2>2 DEF ReadyAt, CompactsInTurn, InPreflight
<1>2. Unattended' => Unattended
  BY DEF Unattended, Busy
<1> QED BY <1>1, <1>2 DEF ReadyInv

(* Every step leaves the call under way ready for what it does next.         *)
LEMMA ReadyNext ==
  ASSUME Patient, ControlOK, RunInv, LoneInv, LogInv, ReadyInv, [Next]_vars
  PROVE  ReadyInv'
<1> USE DEF callVars, retryVars, ctlVars, pendVars, runVars, queueVars, logVars, histVars
<1>0. /\ pc \in [Caller -> Pcs] /\ pc' \in [Caller -> Pcs]
      /\ job \in [Caller -> {"pre", "preRetry", "turn", "retry", "threshold"}]
      /\ pendingCustom \in Nat /\ pendingNextTurn \in Nat /\ 0 \in Nat /\ retryAttempt \in Nat
      /\ {"custom", "user", "result"} \subseteq Plain \ Replied
  BY CallsNext, ConstantsAssumption DEF ControlOK, CallsOK, CountsOK, Plain, Kind, Replied
<1>1. ASSUME NEW c \in Caller, PromptRejected(c) PROVE ReadyInv'
  BY <1>1, <1>0, ReadySame DEF PromptRejected, At, Go, Busy
<1>2. ASSUME NEW c \in Caller, PromptQueued(c) PROVE ReadyInv'
  BY <1>2, <1>0, ReadySame DEF PromptQueued, At, Go, Enqueue, Busy
<1>3. ASSUME NEW c \in Caller, PromptPreflight(c) PROVE ReadyInv'
  <2>1. Moves(c) /\ Busy(c)'
    BY <1>3, <1>0 DEF PromptPreflight, At, Go, Moves, Busy
  <2>2. Unattended /\ retryAttempt = 0
    BY <1>3, QuietIsUnattended DEF PromptPreflight, ReadyInv
  <2>3. ReadyAt(c)' /\ (phase' # "none" <=> activeRun')
    BY <1>3, <1>0, <2>2 DEF PromptPreflight, Go, ReadyInv, ReadyAt, CompactsInTurn
  <2> QED BY <2>1, <2>2, <2>3, ReadyBegins
<1>4. ASSUME NEW c \in Caller, TriggerTurn(c) PROVE ReadyInv'
  <2>1. Unattended /\ retryAttempt = 0
    BY <1>4, QuietIsUnattended DEF TriggerTurn, Alone, ReadyInv
  <2>2. ~activeRun
    BY <2>1, AgentIsFree
  <2>3. Moves(c) /\ Busy(c)' /\ Record(<<"custom">>)
    BY <1>4, <1>0, <2>2 DEF TriggerTurn, RunAgentPrompt, At, Go, Moves, Busy
  <2>4. Continues(messages')
    BY <1>0, <2>3, EndsWell
  <2>5. ReadyAt(c)' /\ (phase' # "none" <=> activeRun')
    BY <1>4, <1>0, <2>1, <2>2, <2>4 DEF TriggerTurn, RunAgentPrompt, Go, ReadyAt, RunsOn, CompactsInTurn
  <2> QED BY <2>1, <2>3, <2>5, ReadyBegins
<1>5. CASE Steer
  BY <1>5, <1>0, ReadySame DEF Steer, Enqueue, Busy
<1>6. CASE ClearQueue
  BY <1>6, <1>0, ReadySame DEF ClearQueue, Busy
<1>7. CASE RecordBashResult
  <2>1. CASE isAgentRunActive
    <3>1. UNCHANGED logVars
      BY <1>7, <2>1 DEF RecordBashResult
    <3> QED BY <1>7, <2>1, <3>1, ReadySame DEF RecordBashResult, noteRest, Busy
  <2>2. CASE ~isAgentRunActive
    BY <1>7, <2>2, ReadyIdle DEF RecordBashResult, noteRest
  <2> QED BY <2>1, <2>2
<1>8. CASE SendCustomMessage
  <2>1. CASE isAgentRunActive
    <3>1. UNCHANGED logVars
      BY <1>8, <2>1 DEF SendCustomMessage
    <3> QED BY <1>8, <2>1, <3>1, ReadySame DEF SendCustomMessage, noteRest, Busy
  <2>2. CASE ~isAgentRunActive
    BY <1>8, <2>2, ReadyIdle DEF SendCustomMessage, noteRest
  <2> QED BY <2>1, <2>2
<1>9. CASE Abort
  BY <1>9, ReadySame DEF Abort, AbortAll, Aborted, Busy
<1>10. CASE AbortOne
  BY <1>10, ReadySame DEF AbortOne, Aborted, Busy
<1>11. CASE Compact
  BY <1>11, ReadySame DEF Compact, AbortAll, Aborted, manualRest, Busy
<1>12. CASE NavigateTree
  <2>1. Unattended /\ ~isAgentRunActive
    BY <1>12, QuietIsUnattended DEF NavigateTree, Alone, Idle
  <2> QED BY <1>12, <2>1, ReadyIdle DEF NavigateTree, navRest, Unattended
<1>13. ASSUME NEW c \in Caller, CheckBeforePrompt(c) PROVE ReadyInv'
  <2>1. Moves(c)
    BY <1>13, <1>0 DEF CheckBeforePrompt, At, Go, NoCompaction, RecoverOverflow, OverThreshold, compactRest, Moves
  <2>2. Busy(c) /\ ReadyAt(c) /\ retryAttempt = 0
    BY <1>13, <1>0 DEF CheckBeforePrompt, At, Busy, ReadyInv, ReadyAt
  <2>8. phase' # "none" <=> activeRun'
    BY <1>13, <1>0 DEF CheckBeforePrompt, At, Go, NoCompaction, RecoverOverflow, OverThreshold, compactRest, ReadyInv
  <2>9. /\ Busy(c)' => ReadyAt(c)'
        /\ ~Busy(c)' => retryAttempt' = 0
    BY <1>13, <1>0, <2>2 DEF CheckBeforePrompt, At, Go, NoCompaction, RecoverOverflow, OverThreshold, compactRest, ReadyAt, CompactsInTurn
  <2> QED BY <2>1, <2>2, <2>8, <2>9, ReadyMoves
<1>14. ASSUME NEW c \in Caller, Send(c) PROVE ReadyInv'
  <2>1. ~activeRun
    BY <1>14, AgentIsFree DEF Send, At
  <2>2. Busy(c) /\ ReadyAt(c) /\ retryAttempt = 0
    BY <1>14 DEF Send, At, Busy, ReadyInv, ReadyAt
  <2>3. Moves(c) /\ Record(<<"user">> \o Notes(pendingNextTurn))
    BY <1>14, <1>0, <2>1 DEF Send, RunAgentPrompt, At, Go, Moves
  <2>4. Continues(messages')
    BY <1>0, <2>3, EndsWell
  <2>5. /\ Busy(c)' => ReadyAt(c)'
        /\ Busy(c)' /\ (phase' # "none" <=> activeRun')
    BY <1>14, <1>0, <2>1, <2>2, <2>4 DEF Send, RunAgentPrompt, Go, Busy, ReadyAt, RunsOn, CompactsInTurn
  <2> QED BY <2>2, <2>3, <2>5, ReadyMoves
<1>15. ASSUME NEW c \in Caller, NEW k \in Replied, Reply(c, k) PROVE ReadyInv'
  <2>1. Moves(c)
    BY <1>15, <1>0 DEF Reply, turnRest, Running, At, Moves
  <2>2. Busy(c) /\ ReadyAt(c) /\ pc[c] = "run" /\ phase = "request" /\ (runAborted \/ Continues(messages))
    BY <1>15, <1>0 DEF Reply, Running, At, Busy, ReadyInv, ReadyAt, RunsOn
  <2>3. k = "call" => EndsInCall'
    BY <1>15, EndsCalling DEF Reply
  <2>4. k = "error" => Continues(DropAssistant(messages'))
    BY <1>15, <1>0, <2>2, DropUncovers DEF Reply, Failed
  <2>8. phase' # "none" <=> activeRun'
    BY <1>15, <1>0 DEF Reply, turnRest, Running, At, ReadyInv
  <2>9. /\ Busy(c)' => ReadyAt(c)'
        /\ ~Busy(c)' => retryAttempt' = 0
    BY <1>15, <1>0, <2>2, <2>3, <2>4 DEF Reply, Running, At, turnRest, ReadyAt, RunsOn, FailsOn, CompactsInTurn, Busy, Failed
  <2> QED BY <2>1, <2>2, <2>8, <2>9, ReadyMoves
<1>16. ASSUME NEW c \in Caller, ToolsFinish(c) PROVE ReadyInv'
  <2>1. Moves(c)
    BY <1>16, <1>0 DEF ToolsFinish, turnRest, Running, At, Moves
  <2>2. Busy(c) /\ ReadyAt(c) /\ pc[c] = "run" /\ phase = "tools" /\ lastAssistantMessage # "error" /\ retryAttempt = 0
    BY <1>16, <1>0 DEF ToolsFinish, Running, At, Busy, ReadyInv, ReadyAt, RunsOn
  <2>3. runAborted \/ (Continues(messages') /\ BranchContinues')
    BY <1>16, <1>0, EndsWell DEF ToolsFinish
  <2>8. phase' # "none" <=> activeRun'
    BY <1>16, <1>0 DEF ToolsFinish, turnRest, Running, At, ReadyInv
  <2>9. /\ Busy(c)' => ReadyAt(c)'
        /\ ~Busy(c)' => retryAttempt' = 0
    BY <1>16, <1>0, <2>2, <2>3 DEF ToolsFinish, Running, At, turnRest, ReadyAt, RunsOn, FailsOn, CompactsInTurn, Busy
  <2> QED BY <2>1, <2>2, <2>8, <2>9, ReadyMoves
<1>17. ASSUME NEW c \in Caller, NextTurn(c) PROVE ReadyInv'
  <2>1. Moves(c)
    BY <1>17, <1>0 DEF NextTurn, turnRest, Running, At, Go, PrepareNextTurn, Take, Moves
  <2>2. Busy(c) /\ ReadyAt(c) /\ pc[c] = "run" /\ phase = "turn" /\ lastAssistantMessage # "error" /\ retryAttempt = 0 /\ (runAborted \/ (Continues(messages) /\ BranchContinues))
    BY <1>17, <1>0 DEF NextTurn, Running, At, Busy, ReadyInv, ReadyAt, RunsOn
  <2>8. phase' # "none" <=> activeRun'
    BY <1>17, <1>0 DEF NextTurn, turnRest, Running, At, Go, PrepareNextTurn, Take, ReadyInv
  <2>9. /\ Busy(c)' => ReadyAt(c)'
        /\ ~Busy(c)' => retryAttempt' = 0
    BY <1>17, <1>0, <2>2 DEF NextTurn, turnRest, Running, At, Go, PrepareNextTurn, Take, ReadyAt, RunsOn, FailsOn, CompactsInTurn, Busy, BranchContinues
  <2> QED BY <2>1, <2>2, <2>8, <2>9, ReadyMoves
<1>18. ASSUME NEW c \in Caller, PollQueues(c) PROVE ReadyInv'
  <2>1. Moves(c)
    BY <1>18, <1>0 DEF PollQueues, turnRest, Running, At, Go, PrepareNextTurn, Take, Moves
  <2>2. Busy(c) /\ ReadyAt(c) /\ pc[c] = "run" /\ phase = "stopped" /\ lastAssistantMessage # "error" /\ retryAttempt = 0
    BY <1>18, <1>0 DEF PollQueues, Running, At, Busy, ReadyInv, ReadyAt, RunsOn
  <2>8. phase' # "none" <=> activeRun'
    BY <1>18, <1>0 DEF PollQueues, turnRest, Running, At, Go, PrepareNextTurn, Take, ReadyInv
  <2>9. /\ Busy(c)' => ReadyAt(c)'
        /\ ~Busy(c)' => retryAttempt' = 0
    BY <1>18, <1>0, <2>2 DEF PollQueues, turnRest, Running, At, Go, PrepareNextTurn, Take, ReadyAt, RunsOn, FailsOn, CompactsInTurn, Busy
  <2> QED BY <2>1, <2>2, <2>8, <2>9, ReadyMoves
<1>19. ASSUME NEW c \in Caller, Inject(c) PROVE ReadyInv'
  <2>1. Moves(c)
    BY <1>19, <1>0 DEF Inject, turnRest, Running, At, Moves
  <2>2. Busy(c) /\ ReadyAt(c) /\ pc[c] = "run" /\ phase = "poll" /\ (runAborted \/ taken = 1 \/ Continues(messages))
    BY <1>19, <1>0 DEF Inject, Running, At, Busy, ReadyInv, ReadyAt, RunsOn
  <2>3. Continues(messages') \/ (taken = 0 /\ messages' = messages)
    BY <1>19, <1>0, EndsWell DEF Inject
  <2>8. phase' # "none" <=> activeRun'
    BY <1>19, <1>0 DEF Inject, turnRest, Running, At, ReadyInv
  <2>9. /\ Busy(c)' => ReadyAt(c)'
        /\ ~Busy(c)' => retryAttempt' = 0
    BY <1>19, <1>0, <2>2, <2>3 DEF Inject, Running, At, turnRest, ReadyAt, RunsOn, FailsOn, CompactsInTurn, Busy
  <2> QED BY <2>1, <2>2, <2>8, <2>9, ReadyMoves
<1>20. ASSUME NEW c \in Caller, RunEnds(c) PROVE ReadyInv'
  <2>1. Moves(c)
    BY <1>20, <1>0 DEF RunEnds, Running, At, Go, Moves
  <2>2. Busy(c) /\ ReadyAt(c) /\ pc[c] = "run" /\ phase = "ended" /\ FailsOn
    BY <1>20, <1>0 DEF RunEnds, Running, At, Busy, ReadyInv, ReadyAt
  <2>8. phase' # "none" <=> activeRun'
    BY <1>20, <1>0 DEF RunEnds, Running, At, Go, ReadyInv
  <2>9. /\ Busy(c)' => ReadyAt(c)'
        /\ ~Busy(c)' => retryAttempt' = 0
    BY <1>20, <1>0, <2>2 DEF RunEnds, Running, At, Go, ReadyAt, FailsOn, CompactsInTurn, Busy
  <2> QED BY <2>1, <2>2, <2>8, <2>9, ReadyMoves
<1>21. ASSUME NEW c \in Caller, PostRun(c) PROVE ReadyInv'
  <2>1. Moves(c)
    BY <1>21, <1>0 DEF PostRun, At, Go, postRest, RetriesLeft, GiveUpRetrying, Moves
  <2>2. Busy(c) /\ ReadyAt(c) /\ pc[c] = "post" /\ FailsOn
    BY <1>21, <1>0 DEF PostRun, At, Busy, ReadyInv, ReadyAt
  <2>8. phase' # "none" <=> activeRun'
    BY <1>21, <1>0 DEF PostRun, At, Go, postRest, RetriesLeft, GiveUpRetrying, ReadyInv
  <2>9. /\ Busy(c)' => ReadyAt(c)'
        /\ ~Busy(c)' => retryAttempt' = 0
    BY <1>21, <1>0, <2>2 DEF PostRun, At, Go, postRest, RetriesLeft, GiveUpRetrying, ReadyAt, FailsOn, Failed, CompactsInTurn, Busy
  <2> QED BY <2>1, <2>2, <2>8, <2>9, ReadyMoves
<1>22. ASSUME NEW c \in Caller, RetryWakes(c) PROVE ReadyInv'
  <2>1. Moves(c)
    BY <1>22, <1>0 DEF RetryWakes, At, Go, postRest, Moves
  <2>2. Busy(c) /\ ReadyAt(c) /\ pc[c] = "retry" /\ Continues(messages)
    BY <1>22, <1>0 DEF RetryWakes, At, Busy, ReadyInv, ReadyAt
  <2>8. phase' # "none" <=> activeRun'
    BY <1>22, <1>0 DEF RetryWakes, At, Go, postRest, ReadyInv
  <2>9. /\ Busy(c)' => ReadyAt(c)'
        /\ ~Busy(c)' => retryAttempt' = 0
    BY <1>22, <1>0, <2>2 DEF RetryWakes, At, Go, postRest, ReadyAt, CompactsInTurn, Busy
  <2> QED BY <2>1, <2>2, <2>8, <2>9, ReadyMoves
<1>23. ASSUME NEW c \in Caller, CheckAfterRun(c) PROVE ReadyInv'
  <2>1. Moves(c)
    BY <1>23, <1>0 DEF CheckAfterRun, At, Go, NoCompaction, RecoverOverflow, OverThreshold, compactRest, Moves
  <2>2. Busy(c) /\ ReadyAt(c) /\ pc[c] = "check" /\ retryAttempt = 0
    BY <1>23, <1>0 DEF CheckAfterRun, At, Busy, ReadyInv, ReadyAt
  <2>8. phase' # "none" <=> activeRun'
    BY <1>23, <1>0 DEF CheckAfterRun, At, Go, NoCompaction, RecoverOverflow, OverThreshold, compactRest, ReadyInv
  <2>9. /\ Busy(c)' => ReadyAt(c)'
        /\ ~Busy(c)' => retryAttempt' = 0
    BY <1>23, <1>0, <2>2 DEF CheckAfterRun, At, Go, NoCompaction, RecoverOverflow, OverThreshold, compactRest, ReadyAt, CompactsInTurn, Busy
  <2> QED BY <2>1, <2>2, <2>8, <2>9, ReadyMoves
<1>24. ASSUME NEW c \in Caller, Decide(c) PROVE ReadyInv'
  <2>1. Moves(c)
    BY <1>24, <1>0 DEF Decide, At, Go, Moves
  <2>2. Busy(c) /\ ReadyAt(c) /\ pc[c] = "decide" /\ retryAttempt = 0
    BY <1>24, <1>0 DEF Decide, At, Busy, ReadyInv, ReadyAt
  <2>8. phase' # "none" <=> activeRun'
    BY <1>24, <1>0 DEF Decide, At, Go, ReadyInv
  <2>9. /\ Busy(c)' => ReadyAt(c)'
        /\ ~Busy(c)' => retryAttempt' = 0
    BY <1>24, <1>0, <2>2 DEF Decide, At, Go, ReadyAt, CompactsInTurn, Busy
  <2> QED BY <2>1, <2>2, <2>8, <2>9, ReadyMoves
<1>25. ASSUME NEW c \in Caller, ContinueRun(c) PROVE ReadyInv'
  <2>1. Moves(c)
    BY <1>25, <1>0 DEF ContinueRun, At, Go, Rejected, Take, Moves
  <2>2. Busy(c) /\ ReadyAt(c) /\ pc[c] = "continue"
    BY <1>25, <1>0 DEF ContinueRun, At, Busy, ReadyInv, ReadyAt
  <2>3. EndsInAssistant(messages) \/ Continues(messages)
    BY <1>25 DEF ContinueRun, Rejected, Continues
  <2>8. phase' # "none" <=> activeRun'
    BY <1>25, <1>0 DEF ContinueRun, At, Go, Rejected, Take, ReadyInv
  <2>9. /\ Busy(c)' => ReadyAt(c)'
        /\ ~Busy(c)' => retryAttempt' = 0
    BY <1>25, <1>0, <2>2, <2>3 DEF ContinueRun, At, Go, Rejected, Take, ReadyAt, RunsOn, FailsOn, CompactsInTurn, Busy
  <2> QED BY <2>1, <2>2, <2>8, <2>9, ReadyMoves
<1>26. ASSUME NEW c \in Caller, SettleRun(c) PROVE ReadyInv'
  <2>1. Moves(c)
    BY <1>26, <1>0 DEF SettleRun, At, Go, Settle, FlushPending, Moves
  <2>2. Busy(c) /\ ReadyAt(c) /\ pc[c] \in {"settle", "continue"}
    BY <1>26, <1>0 DEF SettleRun, At, Busy, ReadyInv
  <2>3. retryAttempt = 0
    <3>1. CASE pc[c] = "settle"
      BY <2>2, <3>1 DEF ReadyAt
    <3>2. CASE pc[c] = "continue"
      <4>1. ~activeRun
        BY <2>2, <3>2 DEF LoneInv, RunInv, Runner, Busy
      <4>2. Rejected
        BY <1>26, <3>2 DEF SettleRun, At
      <4>3. ~Continues(messages)
        BY <4>1, <4>2 DEF Rejected, Continues
      <4> QED BY <1>0, <2>2, <3>2, <4>3 DEF ReadyAt
    <3> QED BY <2>2, <3>1, <3>2
  <2>8. phase' # "none" <=> activeRun'
    BY <1>26, <1>0 DEF SettleRun, At, Go, Settle, FlushPending, ReadyInv
  <2>9. /\ Busy(c)' => ReadyAt(c)'
        /\ ~Busy(c)' => retryAttempt' = 0
    BY <1>26, <1>0, <2>2, <2>3 DEF SettleRun, At, Go, Settle, FlushPending, Busy
  <2> QED BY <2>1, <2>2, <2>8, <2>9, ReadyMoves
<1>27. ASSUME NEW c \in Caller, AutoCompactionStart(c) PROVE ReadyInv'
  <2>1. Moves(c)
    BY <1>27, <1>0 DEF AutoCompactionStart, At, Go, Return, ClearAutoCompaction, compactRest, Moves
  <2>2. Busy(c) /\ ReadyAt(c) /\ pc[c] = "compactAuth" /\ retryAttempt = 0
    BY <1>27, <1>0 DEF AutoCompactionStart, At, Busy, ReadyInv, ReadyAt
  <2>3. job[c] = "turn" => /\ phase = "poll"
                           /\ runAborted \/ taken = 1 \/ (Continues(messages) /\ BranchContinues)
    BY <2>2 DEF ReadyAt, CompactsInTurn
  <2>4. pc'[c] = "compacting" => cut'[c] # 0
    <3>1. CASE Prepare(c)
      <4>1. PICK k \in CutPoints(branch) : cut' = [cut EXCEPT ![c] = k]
        BY <3>1 DEF Prepare
      <4>2. k # 0 /\ cut'[c] = k
        BY <1>0, <4>1, CutsAreKept DEF LogInv
      <4> QED BY <4>2
    <3>2. CASE ~Prepare(c)
      BY <1>27, <1>0, <3>2 DEF AutoCompactionStart, Go, Return
    <3> QED BY <3>1, <3>2
  <2>8. phase' # "none" <=> activeRun'
    BY <1>27, <1>0 DEF AutoCompactionStart, At, Go, Return, ClearAutoCompaction, compactRest, ReadyInv
  <2>9. /\ Busy(c)' => ReadyAt(c)'
        /\ ~Busy(c)' => retryAttempt' = 0
    BY <1>27, <1>0, <2>2, <2>3, <2>4 DEF AutoCompactionStart, At, Go, Return, ClearAutoCompaction, compactRest, ReadyAt, RunsOn, CompactsInTurn, Busy, BranchContinues
  <2> QED BY <2>1, <2>2, <2>8, <2>9, ReadyMoves
<1>28. ASSUME NEW c \in Caller, AutoCompactionFails(c) PROVE ReadyInv'
  <2>1. Moves(c)
    BY <1>28, <1>0 DEF AutoCompactionFails, At, Go, Return, ClearAutoCompaction, compactRest, Moves
  <2>2. Busy(c) /\ ReadyAt(c) /\ pc[c] = "compacting" /\ retryAttempt = 0
    BY <1>28, <1>0 DEF AutoCompactionFails, At, Busy, ReadyInv, ReadyAt
  <2>3. job[c] = "turn" => /\ phase = "poll"
                           /\ runAborted \/ taken = 1 \/ (Continues(messages) /\ BranchContinues)
    BY <2>2 DEF ReadyAt, CompactsInTurn
  <2>8. phase' # "none" <=> activeRun'
    BY <1>28, <1>0 DEF AutoCompactionFails, At, Go, Return, ClearAutoCompaction, compactRest, ReadyInv
  <2>9. /\ Busy(c)' => ReadyAt(c)'
        /\ ~Busy(c)' => retryAttempt' = 0
    BY <1>28, <1>0, <2>2, <2>3 DEF AutoCompactionFails, At, Go, Return, ClearAutoCompaction, compactRest, ReadyAt, RunsOn, CompactsInTurn, Busy
  <2> QED BY <2>1, <2>2, <2>8, <2>9, ReadyMoves
<1>29. ASSUME NEW c \in Caller, AutoCompactionSucceeds(c) PROVE ReadyInv'
  <2>1. Moves(c)
    BY <1>29, <1>0 DEF AutoCompactionSucceeds, At, Go, Return, ClearAutoCompaction, compactRest, Moves
  <2>2. Busy(c) /\ ReadyAt(c) /\ pc[c] = "compacting" /\ retryAttempt = 0 /\ cut[c] # 0
    BY <1>29, <1>0 DEF AutoCompactionSucceeds, At, Busy, ReadyInv, ReadyAt
  <2>3. job[c] = "turn" => /\ phase = "poll"
                           /\ runAborted \/ taken = 1 \/ (Continues(messages) /\ BranchContinues)
    BY <2>2 DEF ReadyAt, CompactsInTurn
  <2>4. job[c] = "turn" => runAborted \/ taken = 1 \/ Continues(messages')
    <3> SUFFICES ASSUME job[c] = "turn", BranchContinues PROVE Continues(messages')
      BY <2>3
    <3>1. messages' = BuildContext(Append(branch, Compaction(cut[c])))
      BY <1>29 DEF AutoCompactionSucceeds, Rebuilt
    <3>2. BranchOK(branch) /\ cut[c] \in 1..Len(branch) /\ branch[cut[c]].kind # "result"
      BY <2>2 DEF LogInv
    <3> QED BY <3>1, <3>2, ContextContinues DEF BranchContinues
  <2>8. phase' # "none" <=> activeRun'
    BY <1>29, <1>0 DEF AutoCompactionSucceeds, At, Go, Return, ClearAutoCompaction, compactRest, ReadyInv
  <2>9. /\ Busy(c)' => ReadyAt(c)'
        /\ ~Busy(c)' => retryAttempt' = 0
    BY <1>29, <1>0, <2>2, <2>3, <2>4 DEF AutoCompactionSucceeds, At, Go, Return, ClearAutoCompaction, compactRest, ReadyAt, RunsOn, CompactsInTurn, Busy
  <2> QED BY <2>1, <2>2, <2>8, <2>9, ReadyMoves
<1>30. CASE CompactStart
  BY <1>30, <1>0, ReadySame DEF CompactStart, manualRest, Busy
<1>31. CASE CompactPrepare
  <2>1. Unattended /\ ~isAgentRunActive
    BY <1>31 DEF CompactPrepare, LoneInv
  <2> QED BY <1>31, <2>1, ReadyIdle DEF CompactPrepare, manualRest, Unattended
<1>32. CASE CompactFinish
  <2>1. Unattended /\ ~isAgentRunActive
    BY <1>32 DEF CompactFinish, LoneInv
  <2> QED BY <1>32, <2>1, ReadyIdle DEF CompactFinish, manualRest, Unattended
<1>33. CASE NavigateFinish
  <2>1. Unattended /\ ~isAgentRunActive
    BY <1>33 DEF NavigateFinish, LoneInv
  <2> QED BY <1>33, <2>1, ReadyIdle DEF NavigateFinish, navRest, Unattended
<1>34. CASE UNCHANGED vars
  BY <1>34, ReadySame DEF vars, Busy
<1> QED
  BY <1>1, <1>2, <1>3, <1>4, <1>5, <1>6, <1>7, <1>8, <1>9, <1>10, <1>11, <1>12,
     <1>13, <1>14, <1>15, <1>16, <1>17, <1>18, <1>19, <1>20, <1>21, <1>22, <1>23,
     <1>24, <1>25, <1>26, <1>27, <1>28, <1>29, <1>30, <1>31, <1>32, <1>33, <1>34
     DEF Next, Client, Step

--------------------------------------------------------------------------------
(* Theorems *)

(* The log whoever calls, and all of it for a patient client.                *)
AnyLogInv == AnyInv /\ LogInv
TranscriptInv == PatientInv /\ LogInv /\ PairInv /\ ReadyInv

(* The log is empty at first, ...                                            *)
LEMMA LogInit == Init => LogInv /\ PairInv
<1> SUFFICES ASSUME Init PROVE LogInv /\ PairInv
  OBVIOUS
<1>1. messages = <<>> /\ branch = <<>> /\ Len(branch) = 0 /\ branch \in Seq(Entries)
  BY DEF Init
<1>2. BranchOK(branch)
  BY <1>1 DEF BranchOK, WellKept, HasTop, IsTop
<1>3. LogInv
  BY <1>1, <1>2 DEF Init, LogInv
<1>4. Paired(messages)
  BY <1>1 DEF Paired
<1>5. Paired(Kinds(branch))
  <2>1. \A i \in 1..Len(branch) : FALSE
    BY <1>1
  <2> QED BY <1>1, <2>1, PairedKinds
<1> QED BY <1>3, <1>4, <1>5 DEF PairInv

(* ... and no call is under way.                                             *)
LEMMA ReadyInit == Init => ReadyInv
  BY DEF Init, ReadyInv, Busy, Unattended

(* A run that waits for its tools ends in their call.                        *)
LEMMA ToolsAreCalled ==
  ASSUME RunInv, ReadyInv
  PROVE  ToolsInv
<1> SUFFICES ASSUME phase = "tools" PROVE EndsInCall
  BY DEF ToolsInv, EndsInCall
<1>1. PICK c \in Caller : Runner(c)
  BY DEF ReadyInv, RunInv
<1>2. ReadyAt(c)
  BY <1>1 DEF ReadyInv, Runner, Busy
<1> QED BY <1>1, <1>2 DEF ReadyAt, RunsOn, Runner, CompactsInTurn

(* Every step keeps the invariants.                                          *)
LEMMA AnyLogNext == AnyLogInv /\ [Next]_vars => AnyLogInv'
<1> SUFFICES ASSUME AnyLogInv, [Next]_vars PROVE AnyLogInv'
  OBVIOUS
<1>1. AnyInv /\ ControlOK /\ LogInv
  BY DEF AnyLogInv, AnyInv
<1>2. AnyInv' /\ LogInv'
  BY <1>1, AnyNext, LogNext
<1> QED BY <1>2 DEF AnyLogInv

(* Every step of a session with a patient client keeps all of them.          *)
LEMMA TranscriptNext ==
  ASSUME Patient
  PROVE  TranscriptInv /\ [Next]_vars => TranscriptInv'
<1> SUFFICES ASSUME TranscriptInv, [Next]_vars PROVE TranscriptInv'
  OBVIOUS
<1>1. /\ PatientInv /\ ControlOK /\ RunInv /\ LoneInv /\ LogInv /\ PairInv /\ ReadyInv
      /\ ToolsInv
  BY ToolsAreCalled DEF TranscriptInv, PatientInv, AnyInv
<1>2. PatientInv' /\ LogInv'
  BY <1>1, PatientNext, LogNext
<1>3. PairInv' /\ ReadyInv'
  BY <1>1, PairNext, ReadyNext
<1> QED BY <1>2, <1>3 DEF TranscriptInv

(* The inductive invariant of the log, whoever calls.                        *)
THEOREM LogInvariance == Spec => []AnyLogInv
<1>1. Init => AnyLogInv
  BY AnyInit, LogInit DEF AnyLogInv
<1> QED BY <1>1, AnyLogNext, PTL DEF Spec

(* The inductive invariant of transcript, branch and retries for a client    *)
(* that awaits its calls.                                                    *)
THEOREM TranscriptInvariance ==
  ASSUME Patient
  PROVE  Spec => []TranscriptInv
<1>1. Init => TranscriptInv
  BY PatientInit, LogInit, ReadyInit DEF TranscriptInv
<1> QED BY <1>1, TranscriptNext, PTL DEF Spec

(* Type correctness, whoever calls: attempts stay within maxRetries, a       *)
(* compaction on the branch keeps entries before itself, and one under way   *)
(* has its cut on the branch, also when the branch was left meanwhile.       *)
THEOREM TypeCorrect == Spec => []TypeOK
<1>1. ASSUME AnyLogInv PROVE TypeOK
  <2>1. ControlOK /\ LogInv
    BY <1>1 DEF AnyLogInv, AnyInv
  <2>2. branch \in Seq(Entries) /\ Len(branch) \in Nat /\ WellKept(branch)
    BY <2>1 DEF LogInv, BranchOK, WellKept
  <2>3. ASSUME NEW i \in 1..Len(branch)
        PROVE  branch[i].kind \in Kind /\ branch[i].kept \in 0..(i - 1)
    <3>1. branch[i].kind \in Kind /\ branch[i].kept \in Nat /\ branch[i].kept < i
      BY <2>2, EntryTypes DEF WellKept
    <3> QED BY <2>2, <3>1
  <2>4. /\ messages \in Seq(Kind) /\ recorded \in Nat /\ navTo \in Nat
        /\ cut \in [Caller \cup {Manual} -> 0..Len(branch)]
    BY <2>1, <2>2 DEF LogInv
  <2>5. CallsOK /\ FlagsOK /\ SwitchesOK /\ CountsOK
    BY <2>1 DEF ControlOK
  <2>6. {retryCtl, autoCtl, compactionCtl, branchCtl} \subseteq Ctl
    BY <2>5 DEF SwitchesOK
  <2> QED BY <2>3, <2>4, <2>5, <2>6 DEF CallsOK, FlagsOK, SwitchesOK, CountsOK, TypeOK
<1> QED BY <1>1, LogInvariance, PTL

(* A tool result stands right behind its call, in the transcript and on the  *)
(* branch (_handleAgentEvent, _flushPendingBashMessages, findCutPoint,       *)
(* buildContextEntries, navigateTree).                                       *)
THEOREM ResultsAreKept ==
  ASSUME Patient
  PROVE  Spec => []ResultsStayWithCalls
<1>1. TranscriptInv => ResultsStayWithCalls
  BY DEF TranscriptInv, PairInv, Paired, ResultsStayWithCalls
<1> QED BY <1>1, TranscriptInvariance, PTL

(* A retry sequence is over when the session settles: the retry it is        *)
(* waiting for is never rejected (_prepareRetry, _runAgentPrompt).           *)
THEOREM RetriesAreOver ==
  ASSUME Patient
  PROVE  Spec => []RetriesAreClosed
<1>1. ASSUME TranscriptInv PROVE RetriesAreClosed
  <2> SUFFICES ASSUME ~isAgentRunActive PROVE retryAttempt = 0 /\ retryCtl = "none"
    BY DEF RetriesAreClosed
  <2>1. LoneInv /\ ControllerInv /\ ReadyInv
    BY <1>1 DEF TranscriptInv, PatientInv
  <2>2. \A c \in Caller : Busy(c) => InPreflight(c) /\ ReadyAt(c)
    BY <2>1 DEF LoneInv, ReadyInv
  <2>3. retryAttempt = 0
    <3>1. CASE Unattended
      BY <2>1, <3>1 DEF ReadyInv
    <3>2. CASE ~Unattended
      BY <2>2, <3>2 DEF Unattended, InPreflight, ReadyAt
    <3> QED BY <3>1, <3>2
  <2>4. \A c \in Caller : pc[c] # "retry"
    BY <2>2 DEF Busy, InPreflight
  <2> QED BY <2>1, <2>3, <2>4 DEF ControllerInv
<1> QED BY <1>1, TranscriptInvariance, PTL
================================================================================
