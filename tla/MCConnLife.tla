----------------------------- MODULE MCConnLife -----------------------------
(* Small instances of ConnLife for TLC. *)
EXTENDS ConnLife

CONSTANTS c1, c2, u1, u2

Req(c, cmd, u) == [conn |-> c, cmd |-> cmd, uid |-> u]

(* Each connection joins as a user of its own and nobody quits. *)
OwnJoins == {Req(c1, "op", u1), Req(c1, "stat", u1), Req(c1, "join", u1),
             Req(c2, "op", u2), Req(c2, "join", u2)}

(* Requests that do not touch the users. *)
OpsOnly == {Req(c, "op", u1) : c \in Conns}

(* A connection joins and quits. *)
JoinQuit == {Req(c1, "join", u1), Req(c1, "quit", u1)}
=============================================================================
