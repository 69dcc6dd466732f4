---------------------------- MODULE MCServerSide ----------------------------
(* Constants for model checking ServerSide *)
EXTENDS ServerSide

(* A plugin twice in the configuration, three in one bucket, which is full *)
FourPlugins == << "chat", "bang", "chat", "base" >>
TwoBuckets == [n \in {"chat", "bang", "base"} |-> IF n = "bang" THEN 2 ELSE 1]

(* One-shots next to each other, at both ends, before and behind repeated  *)
(* timers, and one that is never due                                       *)
T(timeout, repeat) == [timeout |-> timeout, repeat |-> repeat]
SomeTimers ==
  [n \in {"chat", "bang", "base"} |->
     CASE n = "chat" -> << T(3, TRUE), T(2, FALSE), T(1, FALSE) >>
       [] n = "bang" -> << T(2, TRUE), T(0, TRUE), T(1, FALSE), T(2, TRUE), T(3, FALSE), T(2, FALSE) >>
       [] OTHER -> << >>]
Clock == {-1, 0, 1, 2}
=============================================================================
