---------------------------- MODULE MCLiveSessions -----------------------------
(* Two connections with two requests in flight, for TLC. *)
EXTENDS LiveSessions

CONSTANTS a, b, q1, q2
================================================================================
