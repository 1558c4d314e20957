--------------------------- MODULE MCAuthResolver ---------------------------
(* The instance of AuthResolver for TLC: two attempts in one process, and  *)
(* one in another that shares the ledger.                                  *)
EXTENDS AuthResolver

CONSTANTS a1, a2, b1, proc1, proc2

TwoProcesses == [a \in {a1, a2, b1} |-> IF a = b1 THEN proc2 ELSE proc1]
=============================================================================
