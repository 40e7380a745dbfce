---------------------------- MODULE MCModelRequest -----------------------------
(* A small instance of ModelRequest for TLC: the id x of another API has    *)
(* the normalized form nx, y is fine everywhere; requests go to a plain     *)
(* model, and to one with vision that needs bridges and gets its thinking   *)
(* as text.                                                                 *)
EXTENDS ModelRequest

MCNormalize == [c \in CallId |-> IF c = "x" THEN "nx" ELSE c]

MCTargets == {[vision |-> FALSE, bridge |-> FALSE, thinkingAsText |-> FALSE],
              [vision |-> TRUE, bridge |-> TRUE, thinkingAsText |-> TRUE]}

Said(same, stop, body, calls) ==
  [role |-> "assistant", same |-> same, stop |-> stop, body |-> body, calls |-> calls]

MCMessage ==
  User \union
  {[role |-> "toolResult", id |-> "x", image |-> FALSE, real |-> TRUE],
   [role |-> "toolResult", id |-> "y", image |-> TRUE, real |-> TRUE],
   Said(FALSE, "ok", "sealed", <<"x", "y">>),
   Said(TRUE, "ok", "thinking", <<"y">>),
   Said(FALSE, "ok", "sealed", <<>>),
   Said(FALSE, "ok", "thinking", <<>>),
   Said(TRUE, "ok", "thinking", <<>>),
   Said(FALSE, "bad", "text", <<"x">>)}
================================================================================
