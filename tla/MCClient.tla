------------------------------ MODULE MCClient ------------------------------
(* Constants for model checking Client *)
EXTENDS Client

Calls(m, c, r, s) == [t \in Callers |-> CASE t = "main" -> m [] t = "cbk" -> c [] t = "r1" -> r [] OTHER -> s]

(* A program that triggers twice, one that triggers and joins again, both  *)
(* with the event loop, and a program of two threads without one           *)
Separate == {Calls(2, 0, 0, 0), Calls(1, 1, 0, 0), Calls(0, 0, 2, 1)}
=============================================================================
