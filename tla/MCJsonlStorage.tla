---------------------------- MODULE MCJsonlStorage -----------------------------
(* Small instances of JsonlStorage for TLC. *)
EXTENDS JsonlStorage

CONSTANTS e1, e2, r1, r2

IdSymmetry == Permutations(EntryId) \union Permutations(RecordId)
================================================================================
