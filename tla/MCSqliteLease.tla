----------------------------- MODULE MCSqliteLease -----------------------------
(* Small instances of SqliteLease for TLC. *)
EXTENDS SqliteLease, TLC

CONSTANTS p, q

RepoSymmetry == Permutations(Repo)
================================================================================
