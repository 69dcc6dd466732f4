----------------------------- MODULE ServerSide -----------------------------
(***************************************************************************)
(* Three parts of the server that share no state: its start-up, clock and  *)
(* shutdown; what it writes to clients; the tables of the bang plugin.  A  *)
(* behaviour is one of one part, the others stay as they begin.            *)
(***************************************************************************)
EXTENDS Server, Chat, Bang

VARIABLE part

Init == ServerInit /\ ChatInit /\ BangInit /\ part \in {"server", "chat", "bang"}

Next ==
  /\ \/ part = "server" /\ ServerNext /\ UNCHANGED << chatVars, bangVars >>
     \/ part = "chat" /\ ChatNext /\ UNCHANGED << serverVars, bangVars >>
     \/ part = "bang" /\ BangNext /\ UNCHANGED << serverVars, chatVars >>
  /\ UNCHANGED part

Spec == Init /\ [][Next]_<< serverVars, chatVars, bangVars, part >>
=============================================================================
