----------------------------- MODULE MCExecutor -----------------------------
(* The instance of Executor for TLC: a tool that may be called with three  *)
(* arguments or with broken ones, and a high-risk tool.                    *)
EXTENDS Executor

CONSTANTS search, email, x, y, z, bad, send

ToolOfCall == [c \in {x, y, z, bad, send} |-> IF c = send THEN email ELSE search]
=============================================================================
