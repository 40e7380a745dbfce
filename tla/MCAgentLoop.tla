------------------------------ MODULE MCAgentLoop ------------------------------
(* Small instances of AgentLoop for TLC. *)
EXTENDS AgentLoop, TLC

CONSTANTS m1, m2, m3

MsgSymmetry == Permutations(Msg)
================================================================================
