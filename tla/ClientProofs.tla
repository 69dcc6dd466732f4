----------------------------- MODULE ClientProofs -----------------------------
(***************************************************************************)
(* Theorems about the client library, for every number of threads,         *)
(* triggers, pushes and faults.                                            *)
(***************************************************************************)
EXTENDS Client, SequenceTheorems, TLAPS

Msg     == [kind : {"reply", "push"}, n : Nat]
Unit    == [m : Msg, part : {1, 2}]
Request == [id : Nat, sync : BOOLEAN]
Event   == [kind : {"push", "_reconnect", "_connectlost"}, n : Nat]

(* The event loop has taken a chunk and is not through with it *)
Parsing == el \in {"parse", "unpack", "signal", "overrun"}

ConnTyped ==
  /\ fd \in [Conns -> BOOLEAN] /\ eof \in [Conns -> BOOLEAN] /\ lostStep \in [Conns -> BOOLEAN]
  /\ sent \in [Conns -> Seq(Request)] /\ in \in [Conns -> Seq(Unit)] /\ crossed \in BOOLEAN
CallTyped ==
  /\ g_reqid \in Nat /\ id \in [Callers -> Nat] /\ tmp \in [Callers -> Nat] /\ flags \in [Callers -> BOOLEAN]
  /\ pc \in [Callers -> {"start", "idle", "nomodule", "end", "store", "pack", "send", "sleep", "clear", "lock",
                         "wait", "recv", "rest", "check", "joinel", "joincb"}]
  /\ \A t \in Callers : pc[t] \in {"recv", "rest", "check"} => t \in Reentrant
LoopTyped ==
  /\ chunk \in Seq(Unit) /\ buf \in Seq(Unit) /\ cq \in Seq(Event) /\ called \in Seq(Nat)
  /\ npush \in Nat /\ nclose \in Nat
  /\ IF Parsing THEN buf = << >> ELSE chunk = << >>
ClientTyped == ConnTyped /\ CallTyped /\ LoopTyped

(* The order in which moc_init() starts the two threads and moc_destroy()  *)
(* stops them: nothing is queued before the start, and once the callback   *)
(* thread has been told to stop nobody is left who could queue an entry.   *)
Phases ==
  /\ pc["main"] = "start" => el = "none"
  /\ el = "none" => cb = "none" /\ cq = << >> /\ pc["main"] \in {"start", "end"}
  /\ pc["main"] = "joincb" => el = "done"
  /\ cbStop => el = "done" /\ pc["main"] \in {"joincb", "end"}
  /\ cb = "done" => cbStop /\ cq = << >>
  /\ pc["main"] = "end" => cb = "done" \/ el = "none"
  /\ pc["cbk"] # "idle" => cb = "joining"

USE DEF Callers, Conns, Conn

LEMMA UnitsTyped ==
  ASSUME NEW m \in Msg
  PROVE  /\ Units(m) \in Seq(Unit) /\ Len(Units(m)) = 2
         /\ Units(m)[1] = [m |-> m, part |-> 1] /\ Units(m)[2] = [m |-> m, part |-> 2]
  BY DEF Units, Unit

LEMMA InitTyped == Init => ClientTyped
  <1> SUFFICES ASSUME Init PROVE ClientTyped
    OBVIOUS
  <1>1. ConnTyped
    <2>1. fd \in [Conns -> BOOLEAN] /\ eof \in [Conns -> BOOLEAN] /\ lostStep \in [Conns -> BOOLEAN]
      BY Zenon DEF Init
    <2>2. sent \in [Conns -> Seq(Request)] /\ in \in [Conns -> Seq(Unit)]
      BY DEF Init
    <2>3. crossed \in BOOLEAN
      BY DEF Init
    <2> QED BY <2>1, <2>2, <2>3 DEF ConnTyped
  <1>2. CallTyped
    BY DEF Init, CallTyped
  <1>3. LoopTyped
    BY DEF Init, LoopTyped, Parsing
  <1> QED BY <1>1, <1>2, <1>3 DEF ClientTyped

(* Return() and Go() keep the types. *)
LEMMA ReturnTyped ==
  ASSUME CallTyped, NEW t \in Callers, Return(t), UNCHANGED g_reqid
  PROVE  CallTyped'
  BY DEF CallTyped, Return, Go

LEMMA NextTyped == ClientTyped /\ Phases /\ [Next]_vars => ClientTyped'
  <1> SUFFICES ASSUME ClientTyped, Phases, [Next]_vars PROVE ClientTyped'
    OBVIOUS
  <1> USE ThreadsAssumption DEF ClientTyped
  <1>1. CASE moc_init
    <2>1. PICK ok \in BOOLEAN : fd' = [fd EXCEPT !["m"] = ok] /\ pc' = [pc EXCEPT !["main"] = IF ok THEN "idle" ELSE "nomodule"]
      BY <1>1 DEF moc_init, moc_load_fromhdf, Go
    <2>2. ConnTyped' /\ CallTyped'
      BY <1>1, <2>1 DEF moc_init, ConnTyped, CallTyped
    <2>3. LoopTyped'
      <3>1. el' = "loop" /\ UNCHANGED << chunk, buf, cq, called, npush, nclose >>
        BY <1>1 DEF moc_init, eloop_start, envVars
      <3>2. el = "none"
        BY <1>1 DEF moc_init, Phases
      <3> QED BY <3>1, <3>2 DEF LoopTyped, Parsing
    <2> QED BY <2>2, <2>3
  <1>22. CASE eloop_stop \/ mcbk_stop
    <2>1. PICK l \in {"joinel", "joincb"} : pc' = [pc EXCEPT !["main"] = l]
      BY <1>22 DEF eloop_stop, mcbk_stop, Go
    <2>2. UNCHANGED << g_reqid, connVars, id, tmp, flags, elVars, cbVars, envVars >>
      BY <1>22 DEF eloop_stop, mcbk_stop
    <2> QED BY <2>1, <2>2 DEF ConnTyped, CallTyped, LoopTyped, Parsing, elVars, cbVars, envVars, connVars
  <1>23. CASE moc_destroy
    BY <1>23 DEF moc_destroy, mevt_destroy, Go, ConnTyped, CallTyped, LoopTyped, Parsing, elVars, cbVars, envVars
  <1>2. ASSUME NEW t \in Reentrant, moc_init_r(t) \/ moc_destroy_r(t) PROVE ClientTyped'
    <2>1. PICK ok \in BOOLEAN, l \in {"idle", "nomodule", "end"} :
            fd' = [fd EXCEPT ![t] = ok] /\ pc' = [pc EXCEPT ![t] = l]
      BY <1>2 DEF moc_init_r, moc_load_fromhdf, moc_destroy_r, mevt_destroy, Go
    <2> QED BY <1>2, <2>1 DEF moc_init_r, moc_destroy_r, ConnTyped, CallTyped, LoopTyped, Parsing, elVars, cbVars, envVars, runVars
  <1>3. ASSUME NEW t \in Callers, ReqidLoad(t) PROVE ClientTyped'
    BY <1>3, BoundsAssumption DEF ReqidLoad, Go, ConnTyped, CallTyped, LoopTyped, Parsing, connVars, elVars, envVars, runVars
  <1>4. ASSUME NEW t \in Callers, ReqidStore(t) \/ PackHeader(t) \/ StartWait(t) PROVE ClientTyped'
    <2>1. CallTyped'
      <3>1. NextReqid(tmp[t]) \in Nat
        BY DEF NextReqid, CallTyped
      <3>2. CASE ReqidStore(t)
        BY <3>1, <3>2 DEF ReqidStore, Go, CallTyped
      <3>3. CASE PackHeader(t)
        BY <3>3 DEF PackHeader, Go, CallTyped
      <3>4. CASE StartWait(t)
        BY <3>4 DEF StartWait, Go, CallTyped
      <3> QED BY <1>4, <3>2, <3>3, <3>4
    <2> QED BY <1>4, <2>1 DEF ReqidStore, PackHeader, StartWait, ConnTyped, LoopTyped, Parsing, connVars,
       elVars, cbVars, envVars, runVars
  <1>5. ASSUME NEW t \in Callers, tcp_srv_send(t) PROVE ClientTyped'
    <2>1. CASE UNCHANGED << fd, sent >> /\ Return(t)
      BY <1>5, <2>1, ReturnTyped DEF tcp_srv_send, ConnTyped, LoopTyped, Parsing, elVars, cbVars, envVars, runVars
    <2>2. CASE fd' = [fd EXCEPT ![Conn(t)] = FALSE] /\ Return(t) /\ UNCHANGED sent
      BY <1>5, <2>2, ReturnTyped DEF tcp_srv_send, ConnTyped, LoopTyped, Parsing, elVars, cbVars, envVars, runVars
    <2>3. CASE Transmit(t) /\ Go(t, "clear") /\ UNCHANGED << fd, id, tmp, flags >>
      <3>1. [id |-> id[t], sync |-> flags[t]] \in Request
        BY DEF CallTyped, Request
      <3>2. sent' \in [Conns -> Seq(Request)]
        BY <2>3, <3>1 DEF Transmit, ConnTyped
      <3> QED BY <1>5, <2>3, <3>2 DEF tcp_srv_send, Go, ConnTyped, CallTyped, LoopTyped, Parsing, elVars, cbVars, envVars, runVars
    <2> QED BY <1>5, <2>1, <2>2, <2>3 DEF tcp_srv_send
  <1>6. ASSUME NEW t \in Callers, Reconnect(t) PROVE ClientTyped'
    <2>1. cq' \in Seq(Event)
      <3>1. Entry("_reconnect", 1) \in Event /\ Entry("_reconnect", 0) \in Event
        BY DEF Entry, Event
      <3>2. cq' = cq \/ \E e \in Event : cq' = Append(cq, e)
        BY <1>6, <3>1 DEF Reconnect, msqueue_put
      <3>3. cq \in Seq(Event)
        BY DEF LoopTyped
      <3>4. ASSUME NEW e \in Event PROVE Append(cq, e) \in Seq(Event)
        BY <3>3
      <3> QED BY <3>2, <3>3, <3>4
    <2>2. ConnTyped' /\ buf' \in {buf, << >>} /\ chunk' \in {chunk, << >>}
      <3>1. PICK k \in Conns : k = Conn(t)
        OBVIOUS
      <3>2. CASE tcp_server_reconnect(k)
        <4>1. fd' \in [Conns -> BOOLEAN] /\ eof' \in [Conns -> BOOLEAN] /\ buf' \in {buf, << >>}
              /\ chunk' \in {chunk, << >>}
          BY <3>2 DEF tcp_server_reconnect, ConnTyped
        <4>3. crossed' \in BOOLEAN
          BY <3>2 DEF tcp_server_reconnect, ConnTyped
        <4>2. sent' \in [Conns -> Seq(Request)] /\ in' \in [Conns -> Seq(Unit)]
          BY <3>2 DEF tcp_server_reconnect, ConnTyped
        <4> QED BY <1>6, <4>1, <4>2, <4>3 DEF Reconnect, ConnTyped
      <3>3. CASE UNCHANGED << fd, sent, in, eof, buf, chunk, crossed >>
        BY <1>6, <3>3 DEF Reconnect, ConnTyped
      <3> QED BY <1>6, <3>1, <3>2, <3>3 DEF Reconnect
    <2>3. CallTyped'
      BY <1>6, ReturnTyped DEF Reconnect, Go, CallTyped
    <2> QED BY <1>6, <2>1, <2>2, <2>3 DEF Reconnect, LoopTyped, Parsing, envVars, runVars
  <1>7. ASSUME NEW t \in Callers, ClearData(t) PROVE ClientTyped'
    <2>1. CallTyped'
      BY <1>7, ReturnTyped DEF ClearData, Go, CallTyped
    <2> QED BY <1>7, <2>1 DEF ClearData, ConnTyped, LoopTyped, Parsing, elVars, cbVars, envVars, runVars
  <1>8. ASSUME NEW t \in Callers, EndWait(t) PROVE ClientTyped'
    BY <1>8, ReturnTyped DEF EndWait, ConnTyped, LoopTyped, Parsing, connVars, elVars, cbVars, envVars, runVars
  <1>9. ASSUME NEW t \in Callers, recv_msg(t) PROVE ClientTyped'
    <2>1. t \in Reentrant /\ in[t] \in Seq(Unit) /\ in[t] # << >>
      BY <1>9 DEF recv_msg, CallTyped, ConnTyped
    <2>2. in[t][1].m.n \in Nat
      <3>1. in[t][1] \in Unit
        BY <2>1
      <3>2. in[t][1].m \in Msg
        BY <3>1 DEF Unit
      <3> QED BY <3>2 DEF Msg
    <2>3. in' \in [Conns -> Seq(Unit)]
      <3>1. PICK n \in 1 .. Len(in[t]) : in' = [in EXCEPT ![t] = SubSeq(@, n + 1, Len(@))]
        BY <1>9 DEF recv_msg
      <3>2. SubSeq(in[t], n + 1, Len(in[t])) \in Seq(Unit)
        BY <2>1
      <3> QED BY <3>1, <3>2 DEF ConnTyped
    <2>4. CallTyped' /\ lostStep' \in [Conns -> BOOLEAN]
      <3>1. PICK l \in {"rest", "check"} : pc' = [pc EXCEPT ![t] = l]
        BY <1>9 DEF recv_msg, Go
      <3>2. tmp' \in [Callers -> Nat] /\ lostStep' \in [Conns -> BOOLEAN]
        <4>1. CASE in[t][1].part = 1
          <5>1. tmp' = [tmp EXCEPT ![t] = in[t][1].m.n] /\ lostStep' = lostStep
            BY <1>9, <4>1 DEF recv_msg
          <5> QED BY <2>2, <5>1 DEF CallTyped, ConnTyped
        <4>2. CASE in[t][1].part # 1
          <5>1. lostStep' = [lostStep EXCEPT ![t] = TRUE] /\ tmp' = tmp
            BY <1>9, <4>2 DEF recv_msg
          <5> QED BY <5>1 DEF CallTyped, ConnTyped
        <4> QED BY <4>1, <4>2
      <3> QED BY <1>9, <2>1, <3>1, <3>2 DEF recv_msg, CallTyped
    <2> QED BY <1>9, <2>3, <2>4 DEF recv_msg, ConnTyped, LoopTyped, Parsing, elVars, cbVars, envVars, runVars
  <1>10. ASSUME NEW t \in Callers, srecv(t) PROVE ClientTyped'
    <2>1. t \in Reentrant /\ in[t] \in Seq(Unit) /\ in[t] # << >>
      BY <1>10 DEF srecv, CallTyped, ConnTyped
    <2>2. Tail(in[t]) \in Seq(Unit)
      BY <2>1
    <2> QED BY <1>10, <2>1, <2>2 DEF srecv, Go, ConnTyped, CallTyped, LoopTyped, Parsing, elVars, cbVars, envVars, runVars
  <1>11. ASSUME NEW t \in Callers, RecvFails(t) PROVE ClientTyped'
    BY <1>11, ReturnTyped DEF RecvFails, ConnTyped, LoopTyped, Parsing, elVars, cbVars, envVars, runVars
  <1>12. ASSUME NEW t \in Callers, tcp_get_rep(t) PROVE ClientTyped'
    <2>1. CallTyped'
      BY <1>12, ReturnTyped DEF tcp_get_rep, Go, CallTyped
    <2> QED BY <1>12, <2>1 DEF tcp_get_rep, ConnTyped, LoopTyped, Parsing, elVars, cbVars, envVars, runVars
  <1>13. CASE ElRecv
    <2>1. in["m"] \in Seq(Unit) /\ chunk = << >>
      BY <1>13 DEF ElRecv, ConnTyped, LoopTyped, Parsing
    <2>2. CASE /\ \E n \in 1 .. Len(in["m"]) : /\ chunk' = buf \o SubSeq(in["m"], 1, n)
                                               /\ in' = [in EXCEPT !["m"] = SubSeq(@, n + 1, Len(@))]
               /\ buf' = << >> /\ el' \in {"parse", "overrun"}
      <3>1. PICK n \in 1 .. Len(in["m"]) : /\ chunk' = buf \o SubSeq(in["m"], 1, n)
                                           /\ in' = [in EXCEPT !["m"] = SubSeq(@, n + 1, Len(@))]
        BY <2>2
      <3>2. SubSeq(in["m"], 1, n) \in Seq(Unit) /\ SubSeq(in["m"], n + 1, Len(in["m"])) \in Seq(Unit)
        BY <2>1
      <3>3. chunk' \in Seq(Unit) /\ in' \in [Conns -> Seq(Unit)]
        BY <3>1, <3>2 DEF ConnTyped, LoopTyped
      <3> QED BY <1>13, <2>2, <3>3 DEF ElRecv, ConnTyped, CallTyped, LoopTyped, Parsing, callVars, cbVars, envVars, runVars
    <2>3. CASE el' = "close" /\ UNCHANGED << chunk, buf, in >>
      BY <1>13, <2>1, <2>3 DEF ElRecv, ConnTyped, CallTyped, LoopTyped, Parsing, callVars, cbVars, envVars, runVars
    <2> QED BY <1>13, <2>2, <2>3 DEF ElRecv
  <1>14. CASE ElLost
    <2>1. Entry("_connectlost", 0) \in Event
      BY DEF Entry, Event
    <2> QED BY <1>14, <2>1 DEF ElLost, msqueue_put, ConnTyped, CallTyped, LoopTyped, Parsing, connVars, callVars, elVars, runVars
  <1>15. CASE mssrv_close \/ GiveUp \/ KeepRest \/ Unpack \/ Signal \/ ElStop
    BY <1>15 DEF mssrv_close, GiveUp, KeepRest, Unpack, Signal, ElStop, ConnTyped, CallTyped, LoopTyped, Parsing, connVars,
       callVars, cbVars, envVars, runVars
  <1>16. CASE msparse_msg
    <2>1. chunk \in Seq(Unit) /\ Len(chunk) >= 2 /\ buf = << >> /\ chunk[1].m \in Msg
      <3>1. chunk \in Seq(Unit) /\ Len(chunk) >= 2 /\ buf = << >>
        BY <1>16 DEF msparse_msg, LoopTyped, Parsing
      <3>2. chunk[1] \in Unit
        BY <3>1
      <3> QED BY <3>1, <3>2 DEF Unit
    <2>2. Excess(chunk) \in Seq(Unit)
      BY <2>1 DEF Excess
    <2>3. Entry("push", chunk[1].m.n) \in Event
      BY <2>1 DEF Entry, Event, Msg
    <2>4. cq' \in Seq(Event) /\ chunk' \in Seq(Unit) /\ el' \in {"parse", "unpack"} /\ lostStep' \in [Conns -> BOOLEAN]
      <3>1. CASE Whole(chunk)
        <4>1. chunk' = Excess(chunk) /\ lostStep' = lostStep /\ el' \in {"parse", "unpack"}
              /\ cq' \in {cq, Append(cq, Entry("push", chunk[1].m.n))}
          BY <1>16, <3>1 DEF msparse_msg, msqueue_put
        <4>2. cq \in Seq(Event) /\ Append(cq, Entry("push", chunk[1].m.n)) \in Seq(Event)
          BY <2>3 DEF LoopTyped
        <4> QED BY <2>2, <4>1, <4>2 DEF ConnTyped
      <3>2. CASE ~Whole(chunk)
        <4>1. chunk' = << >> /\ lostStep' = [lostStep EXCEPT !["m"] = TRUE] /\ el' = "parse" /\ cq' = cq
          BY <1>16, <3>2 DEF msparse_msg
        <4> QED BY <4>1 DEF LoopTyped, ConnTyped
      <3> QED BY <3>1, <3>2
    <2> QED BY <1>16, <2>1, <2>4 DEF msparse_msg, ConnTyped, CallTyped, LoopTyped, Parsing, callVars, envVars, runVars
  <1>17. CASE CbGet
    <2>1. Head(cq) \in Event /\ Tail(cq) \in Seq(Event) /\ Head(cq).n \in Nat
      <3>1. Head(cq) \in Event /\ Tail(cq) \in Seq(Event)
        BY <1>17 DEF CbGet, LoopTyped
      <3> QED BY <3>1 DEF Event
    <2>2. called' \in Seq(Nat) /\ cq' \in Seq(Event)
      BY <1>17, <2>1 DEF CbGet, LoopTyped
    <2> QED BY <1>17, <2>2 DEF CbGet, ConnTyped, CallTyped, LoopTyped, Parsing, connVars, callVars, elVars, envVars, runVars
  <1>18. CASE CbJoined \/ CbStop \/ UNCHANGED vars
    BY <1>18 DEF CbJoined, CbStop, ConnTyped, CallTyped, LoopTyped, Parsing, connVars, callVars, elVars, cbVars,
       envVars, runVars, vars
  <1>19. ASSUME NEW k \in Conns, Serve(k) PROVE ClientTyped'
    <2>1. sent[k] \in Seq(Request) /\ sent[k] # << >> /\ in[k] \in Seq(Unit)
      BY <1>19 DEF Serve, ConnTyped
    <2>2. Head(sent[k]) \in Request /\ Tail(sent[k]) \in Seq(Request)
      BY <2>1
    <2>3. Units(Reply(Head(sent[k]).id)) \in Seq(Unit)
      BY <2>2, UnitsTyped DEF Request, Reply, Msg
    <2>4. in[k] \o Units(Reply(Head(sent[k]).id)) \in Seq(Unit)
      BY <2>1, <2>3
    <2>5. in' \in [Conns -> Seq(Unit)] /\ sent' \in [Conns -> Seq(Request)]
      BY <1>19, <2>2, <2>4 DEF Serve, ConnTyped
    <2> QED BY <1>19, <2>5 DEF Serve, ConnTyped, CallTyped, LoopTyped, Parsing, callVars, elVars, cbVars, envVars, runVars
  <1>20. ASSUME NEW k \in Conns, ServerClose(k) PROVE ClientTyped'
    <2>1. PICK n \in 0 .. Len(in[k]) : in' = [in EXCEPT ![k] = SubSeq(@, 1, n)]
      BY <1>20 DEF ServerClose
    <2>2. SubSeq(in[k], 1, n) \in Seq(Unit)
      BY DEF ConnTyped
    <2>3. sent' \in [Conns -> Seq(Request)] /\ eof' \in [Conns -> BOOLEAN] /\ in' \in [Conns -> Seq(Unit)]
      BY <1>20, <2>1, <2>2 DEF ServerClose, ConnTyped
    <2> QED BY <1>20, <2>3 DEF ServerClose, ConnTyped, CallTyped, LoopTyped, Parsing, callVars, elVars, cbVars, runVars
  <1>21. CASE ServerPush
    <2>1. Units(Push(npush + 1)) \in Seq(Unit)
      <3>1. Push(npush + 1) \in Msg
        BY DEF Push, Msg, LoopTyped
      <3> QED BY <3>1, UnitsTyped
    <2>2. in["m"] \o Units(Push(npush + 1)) \in Seq(Unit)
      BY <2>1 DEF ConnTyped
    <2> QED BY <1>21, <2>2 DEF ServerPush, ConnTyped, CallTyped, LoopTyped, Parsing, callVars, elVars, cbVars, runVars
  <1> QED
    BY <1>1, <1>2, <1>3, <1>4, <1>5, <1>6, <1>7, <1>8, <1>9, <1>10, <1>11, <1>12, <1>13, <1>14, <1>15, <1>16, <1>17,
       <1>18, <1>19, <1>20, <1>21, <1>22, <1>23
    DEF Next, StopStep, CallerStep, ElStep, CbStep, Finished

LEMMA InitPhases == Init => Phases
  <1> SUFFICES ASSUME Init PROVE Phases
    OBVIOUS
  <1>1. pc["cbk"] = "idle" /\ pc["main"] \in {"start", "end"}
    BY DEF Init
  <1> QED BY <1>1 DEF Init, Phases

LEMMA NextPhases == ClientTyped /\ Phases /\ [Next]_vars => Phases'
  <1> SUFFICES ASSUME ClientTyped, Phases, [Next]_vars PROVE Phases'
    OBVIOUS
  <1> USE ThreadsAssumption
  <1>0. PICK L : pc \in [Callers -> L]
    BY DEF ClientTyped, CallTyped
  <1>1. CASE moc_init
    BY <1>0, <1>1 DEF moc_init, moc_load_fromhdf, Go, eloop_start, mcbk_start, Phases
  <1>2. CASE eloop_stop \/ mcbk_stop \/ moc_destroy
    BY <1>0, <1>2 DEF eloop_stop, mcbk_stop, moc_destroy, Go, Phases, elVars, cbVars
  <1>3. ASSUME NEW t \in Reentrant, moc_init_r(t) \/ moc_destroy_r(t) PROVE Phases'
    <2>1. pc'["main"] = pc["main"] /\ pc'["cbk"] = pc["cbk"]
      BY <1>0, <1>3 DEF moc_init_r, moc_destroy_r, moc_load_fromhdf, Go
    <2> QED BY <1>3, <2>1 DEF moc_init_r, moc_destroy_r, Phases, elVars, cbVars, runVars
  <1>4. ASSUME NEW t \in Callers, ReqidLoad(t) PROVE Phases'
    BY <1>0, <1>4 DEF ReqidLoad, MayTrigger, Go, Phases, elVars, runVars
  <1> DEFINE Busy == {"store", "pack", "send", "sleep", "clear", "lock", "wait", "recv", "rest", "check"}
             Late == {"start", "joincb", "end"}
  <1>5. ASSUME NEW t \in Callers, NEW l, pc' = [pc EXCEPT ![t] = l],
               pc[t] \in Busy, l \notin Late,
               el' = el, cb' = cb, cbStop' = cbStop, cq' = cq \/ (t \notin Reentrant /\ pc[t] = "send")
        PROVE  Phases'
    <2>1. CASE t = "main"
      BY <1>0, <1>5, <2>1 DEF Phases
    <2>2. CASE t = "cbk"
      BY <1>0, <1>5, <2>2 DEF Phases
    <2>3. CASE t \in Reentrant
      BY <1>0, <1>5, <2>3 DEF Phases
    <2> QED BY <2>1, <2>2, <2>3
  <1>6. ASSUME NEW t \in Callers, CallerStep(t) PROVE Phases'
    <2>1. CASE ReqidStore(t) \/ PackHeader(t) \/ StartWait(t) \/ srecv(t)
      <3>1. PICK l \in {"pack", "send", "wait", "check"} : pc' = [pc EXCEPT ![t] = l]
        BY <2>1 DEF ReqidStore, PackHeader, StartWait, srecv, Go
      <3>2. pc[t] \in {"store", "pack", "lock", "rest"} /\ el' = el /\ cb' = cb /\ cbStop' = cbStop /\ cq' = cq
        BY <2>1 DEF ReqidStore, PackHeader, StartWait, srecv, elVars, cbVars, runVars
      <3> QED BY <1>5, <3>1, <3>2
    <2>2. CASE recv_msg(t) \/ RecvFails(t) \/ tcp_get_rep(t) \/ EndWait(t)
      <3>1. PICK l \in {"rest", "check", "recv", "idle"} : pc' = [pc EXCEPT ![t] = l]
        BY <2>2 DEF recv_msg, RecvFails, tcp_get_rep, EndWait, Return, Go
      <3>2. pc[t] \in {"recv", "rest", "check", "wait"} /\ el' = el /\ cb' = cb /\ cbStop' = cbStop /\ cq' = cq
        BY <2>2 DEF recv_msg, RecvFails, tcp_get_rep, EndWait, elVars, cbVars, runVars
      <3> QED BY <1>5, <3>1, <3>2
    <2>3. CASE tcp_srv_send(t) \/ ClearData(t)
      <3>1. PICK l \in {"clear", "lock", "recv", "idle"} : pc' = [pc EXCEPT ![t] = l]
        BY <2>3 DEF tcp_srv_send, ClearData, Return, Go
      <3>2. pc[t] \in {"send", "sleep", "clear"} /\ el' = el /\ cb' = cb /\ cbStop' = cbStop /\ cq' = cq
        BY <2>3 DEF tcp_srv_send, ClearData, elVars, cbVars, runVars
      <3> QED BY <1>5, <3>1, <3>2
    <2>4. CASE Reconnect(t)
      <3>1. PICK l \in {"sleep", "idle"} : pc' = [pc EXCEPT ![t] = l]
        BY <2>4 DEF Reconnect, Return, Go
      <3>2. pc[t] = "send" /\ el' = el /\ cb' = cb /\ cbStop' = cbStop /\ (t \in Reentrant => cq' = cq)
        BY <2>4 DEF Reconnect, runVars
      <3> QED BY <1>5, <3>1, <3>2
    <2> QED BY <1>6, <2>1, <2>2, <2>3, <2>4 DEF CallerStep
  <1>7. CASE ElStep \/ ElLost
    <2>1. pc' = pc /\ cb' = cb /\ cbStop' = cbStop
      BY <1>7 DEF ElStep, ElLost, ElRecv, mssrv_close, GiveUp, KeepRest, msparse_msg, Unpack, Signal, ElStop, callVars, cbVars, runVars
    <2>2. el \notin {"none", "done"} /\ el' # "none"
      BY <1>7 DEF ElStep, ElLost, ElRecv, mssrv_close, GiveUp, KeepRest, msparse_msg, Unpack, Signal, ElStop, elVars
    <2> QED BY <2>1, <2>2 DEF Phases
  <1>8. CASE CbGet \/ CbJoined \/ CbStop
    <2>1. UNCHANGED << pc, el, cbStop >>
      BY <1>8 DEF CbGet, CbJoined, CbStop, callVars, elVars, runVars
    <2> QED BY <1>8, <2>1 DEF CbGet, CbJoined, CbStop, Phases
  <1>9. CASE (\E k \in Conns : Serve(k) \/ ServerClose(k)) \/ ServerPush \/ UNCHANGED vars
    <2>1. UNCHANGED << pc, el, cb, cq, cbStop >>
      BY <1>9 DEF Serve, ServerClose, ServerPush, vars, callVars, elVars, cbVars, runVars
    <2> QED BY <2>1 DEF Phases
  <1> QED
    BY <1>1, <1>2, <1>3, <1>4, <1>6, <1>7, <1>8, <1>9 DEF Next, StopStep, CbStep, Finished

(* moc_destroy() finds the callback queue empty, for any number of pushed  *)
(* messages, reconnections and triggers: the event loop is joined before   *)
(* the callback thread is told to stop (client/moc.c:237).                 *)
THEOREM CallbacksAllRun == Spec => []AllCallbacksRun
  <1>1. Init => ClientTyped /\ Phases
    BY InitTyped, InitPhases
  <1>2. ClientTyped /\ Phases /\ [Next]_vars => (ClientTyped /\ Phases)'
    BY NextTyped, NextPhases
  <1>3. ClientTyped /\ Phases => AllCallbacksRun
    BY DEF Phases, AllCallbacksRun
  <1> QED BY <1>1, <1>2, <1>3, PTL DEF Spec

(***************************************************************************)
(* The stream                                                              *)
(***************************************************************************)

(* What has arrived or is on its way to the event loop, oldest first *)
Stream == chunk \o buf \o in["m"]

(* Heads and tails alternate, beginning with a head, and a tail follows    *)
(* the head of its own message                                             *)
Aligned(u) ==
  /\ u # << >> => u[1].part = 1
  /\ \A i \in 1 .. Len(u) - 1 : IF u[i].part = 1 THEN u[i + 1] = [u[i] EXCEPT !.part = 2] ELSE u[i + 1].part = 1
Complete(u) == u # << >> => u[Len(u)].part = 2

(* What nobody has seen while no connection has been closed *)
Working == {"idle", "store", "pack", "send", "sleep", "clear", "lock", "wait"}
NoClose ==
  /\ \A k \in Conns : eof[k] => nclose > 0
  /\ el = "close" => nclose > 0
  /\ crossed => nclose > 0
  /\ nclose = 0 => /\ pc["main"] \in Working => fd["m"]
                   /\ Parsing => fd["m"]
                   /\ cb \notin {"join", "joining"}
                   /\ \A i \in 1 .. Len(cq) : cq[i].kind # "_reconnect"

(* The event loop reads from the connection, or has not begun to *)
Open == fd["m"] \/ el = "none"

(* While no data in hand has outlived its connection, a message begins     *)
(* wherever the event loop reads; what a closed connection has left in     *)
(* srv->buf and in["m"] is never read.                                     *)
InStep ==
  ~crossed => /\ ~lostStep["m"]
              /\ Open => Aligned(Stream) /\ (~eof["m"] => Complete(Stream))

(* u is what is left of s without its first d units and some of its last,  *)
(* or s with the two units of a message behind it                          *)
Slice(u, s, d) == Len(u) + d <= Len(s) /\ \A i \in 1 .. Len(u) : u[i] = s[i + d]
Grown(u, s, m) ==
  /\ Len(u) = Len(s) + 2 /\ \A i \in 1 .. Len(s) : u[i] = s[i]
  /\ u[Len(s) + 1] = [m |-> m, part |-> 1] /\ u[Len(s) + 2] = [m |-> m, part |-> 2]

LEMMA OneEmpty ==
  ASSUME NEW S, NEW a \in Seq(S), NEW b \in Seq(S), NEW c
  PROVE  /\ b = << >> => a \o b \o c = a \o c
         /\ a = << >> => a \o b \o c = b \o c
  <1>1. b = << >> => a \o b = a
    BY ConcatEmptySeq
  <1>2. a = << >> => a \o b = b
    BY ConcatEmptySeq
  <1> QED BY <1>1, <1>2

Joins(x, a, b) ==
  /\ x = a \o b /\ Len(x) = Len(a) + Len(b)
  /\ \A i \in 1 .. Len(a) : x[i] = a[i]
  /\ \A i \in 1 .. Len(b) : x[Len(a) + i] = b[i]

LEMMA Join ==
  ASSUME NEW S, NEW a \in Seq(S), NEW b \in Seq(S)
  PROVE  \E x \in Seq(S) : Joins(x, a, b)
  <1>1. /\ a \o b \in Seq(S) /\ Len(a \o b) = Len(a) + Len(b)
        /\ \A i \in 1 .. Len(a) : (a \o b)[i] = a[i]
        /\ \A i \in 1 .. Len(b) : (a \o b)[Len(a) + i] = b[i]
    OBVIOUS
  <1>2. Joins(a \o b, a, b)
    BY <1>1 DEF Joins
  <1> QED BY <1>1, <1>2

(* The front loses its first d units. *)
LEMMA DropFront ==
  ASSUME NEW S, NEW f \in Seq(S), NEW c \in Seq(S), NEW d \in 0 .. Len(f), NEW e, e = SubSeq(f, d + 1, Len(f))
  PROVE  Slice(e \o c, f \o c, d) /\ Len(e \o c) = Len(f \o c) - d
  <1>0. PICK lf \in Nat, lc \in Nat : lf = Len(f) /\ lc = Len(c)
    OBVIOUS
  <1>1. e \in Seq(S) /\ Len(e) = lf - d /\ \A i \in 1 .. lf - d : e[i] = f[i + d]
    <2>1. \A i \in d + 1 .. lf : f[i] \in S
      BY <1>0
    <2>2. e \in Seq(S) /\ Len(e) = (IF d + 1 <= lf THEN lf - (d + 1) + 1 ELSE 0)
          /\ \A i \in 1 .. lf - (d + 1) + 1 : e[i] = f[(d + 1) + i - 1]
      BY <1>0, <2>1, SubSeqProperties
    <2>3. Len(e) = lf - d
      BY <1>0, <2>2
    <2>4. ASSUME NEW i \in 1 .. lf - d PROVE e[i] = f[i + d]
      <3>1. i \in 1 .. lf - (d + 1) + 1 /\ (d + 1) + i - 1 = i + d
        BY <1>0
      <3> QED BY <2>2, <3>1
    <2> QED BY <2>2, <2>3, <2>4
  <1>2. PICK x \in Seq(S) : Joins(x, e, c)
    BY <1>1, Join
  <1>3. PICK y \in Seq(S) : Joins(y, f, c)
    BY Join
  <1>12. Len(x) = lf - d + lc /\ (\A i \in 1 .. lf - d : x[i] = e[i]) /\ \A i \in 1 .. lc : x[lf - d + i] = c[i]
    BY <1>0, <1>1, <1>2 DEF Joins
  <1>13. Len(y) = lf + lc /\ (\A i \in 1 .. lf : y[i] = f[i]) /\ \A i \in 1 .. lc : y[lf + i] = c[i]
    BY <1>0, <1>3 DEF Joins
  <1>4. ASSUME NEW i \in 1 .. lf - d + lc PROVE x[i] = y[i + d]
    <2>2. CASE i <= lf - d
      <3>1. i \in 1 .. lf - d /\ i + d \in 1 .. lf
        BY <1>0, <2>2
      <3> QED BY <1>1, <1>12, <1>13, <3>1
    <2>3. CASE ~(i <= lf - d)
      <3>1. i - (lf - d) \in 1 .. lc
        BY <1>0, <2>3
      <3>2. PICK j \in 1 .. lc : j = i - (lf - d)
        BY <3>1
      <3>3. i = lf - d + j /\ i + d = lf + j
        BY <1>0, <3>2
      <3> QED BY <1>12, <1>13, <3>3
    <2> QED BY <2>2, <2>3
  <1>5. Slice(x, y, d) /\ Len(x) = Len(y) - d
    BY <1>0, <1>12, <1>13, <1>4 DEF Slice
  <1> QED BY <1>2, <1>3, <1>5 DEF Joins

(* The back is cut to its first n units. *)
LEMMA CutBack ==
  ASSUME NEW S, NEW f \in Seq(S), NEW c \in Seq(S), NEW n \in 0 .. Len(c), NEW e, e = SubSeq(c, 1, n)
  PROVE  Slice(f \o e, f \o c, 0)
  <1>1. e \in Seq(S) /\ Len(e) = n /\ \A i \in 1 .. n : e[i] = c[i]
    <2>1. \A i \in 1 .. n : c[i] \in S
      OBVIOUS
    <2>2. e \in Seq(S) /\ Len(e) = (IF 1 <= n THEN n - 1 + 1 ELSE 0) /\ \A i \in 1 .. n - 1 + 1 : e[i] = c[1 + i - 1]
      BY <2>1, SubSeqProperties
    <2> QED BY <2>2
  <1>2. PICK x \in Seq(S) : Joins(x, f, e)
    BY <1>1, Join
  <1>3. PICK y \in Seq(S) : Joins(y, f, c)
    BY Join
  <1>4. PICK lf \in Nat, lc \in Nat : lf = Len(f) /\ lc = Len(c) /\ n \in 0 .. lc
    OBVIOUS
  <1>5. Len(x) = lf + n /\ (\A i \in 1 .. lf : x[i] = f[i]) /\ \A i \in 1 .. n : x[lf + i] = e[i]
    BY <1>1, <1>2, <1>4 DEF Joins
  <1>6. Len(y) = lf + lc /\ (\A i \in 1 .. lf : y[i] = f[i]) /\ \A i \in 1 .. lc : y[lf + i] = c[i]
    BY <1>3, <1>4 DEF Joins
  <1>7. ASSUME NEW i \in 1 .. lf + n PROVE x[i] = y[i + 0]
    <2>0. i + 0 = i
      OBVIOUS
    <2>1. CASE i <= lf
      BY <1>4, <1>5, <1>6, <2>0, <2>1
    <2>2. CASE i > lf
      <3>1. i - lf \in 1 .. n /\ i - lf \in 1 .. lc
        BY <1>4, <2>2
      <3>2. PICK j \in 1 .. n : j = i - lf /\ j \in 1 .. lc
        BY <3>1
      <3>3. lf + j = i
        BY <1>4, <3>2
      <3>4. x[lf + j] = e[j] /\ y[lf + j] = c[j] /\ e[j] = c[j]
        BY <1>1, <1>5, <1>6, <3>2
      <3> QED BY <2>0, <3>3, <3>4
    <2> QED BY <1>4, <2>1, <2>2
  <1>8. Slice(x, y, 0)
    BY <1>4, <1>5, <1>6, <1>7 DEF Slice
  <1> QED BY <1>2, <1>3, <1>8 DEF Joins

(* A message comes in at the back. *)
LEMMA GrowBack ==
  ASSUME NEW m \in Msg, NEW f \in Seq(Unit), NEW c \in Seq(Unit)
  PROVE  Grown(f \o (c \o Units(m)), f \o c, m)
  <1>1. Units(m) \in Seq(Unit) /\ Len(Units(m)) = 2
        /\ Units(m)[1] = [m |-> m, part |-> 1] /\ Units(m)[2] = [m |-> m, part |-> 2]
    BY UnitsTyped
  <1>2. PICK x \in Seq(Unit) : x = f \o c
    BY ConcatProperties
  <1>3. PICK y \in Seq(Unit) : y = Units(m) /\ Len(y) = 2
    BY <1>1
  <1>4. f \o (c \o Units(m)) = x \o y
    <2>1. (f \o c) \o y = f \o (c \o y)
      BY ONLY f \in Seq(Unit), c \in Seq(Unit), y \in Seq(Unit), ConcatAssociative
    <2> QED BY <1>2, <1>3, <2>1
  <1>5. PICK z \in Seq(Unit) : Joins(z, x, y)
    BY Join
  <1>6. Len(z) = Len(x) + 2 /\ (\A i \in 1 .. Len(x) : z[i] = x[i])
    BY <1>1, <1>3, <1>5 DEF Joins
  <1>7. z[Len(x) + 1] = y[1] /\ z[Len(x) + 2] = y[2]
    <2>1. 1 \in 1 .. Len(y) /\ 2 \in 1 .. Len(y)
      BY <1>3
    <2> QED BY <1>5, <2>1 DEF Joins
  <1>8. Grown(z, x, m)
    BY <1>1, <1>3, <1>6, <1>7 DEF Grown
  <1> QED BY <1>2, <1>4, <1>5, <1>8 DEF Joins

(* Receiving moves units along the stream and changes nothing in it.       *)
LEMMA ReceivingKeeps ==
  ASSUME ClientTyped, ElRecv \/ KeepRest
  PROVE  Stream' = Stream
  <1>0. chunk \in Seq(Unit) /\ buf \in Seq(Unit) /\ in["m"] \in Seq(Unit) /\ (IF Parsing THEN buf = << >> ELSE chunk = << >>)
    BY DEF ClientTyped, LoopTyped, ConnTyped
  <1>1. CASE KeepRest
    <2>1. buf' = chunk /\ chunk' = << >> /\ in' = in /\ buf = << >>
      BY <1>0, <1>1 DEF KeepRest, connVars, Parsing
    <2>2. Stream = chunk \o in["m"] /\ Stream' = chunk \o in["m"]
      BY <1>0, <2>1, OneEmpty DEF Stream
    <2> QED BY <2>2
  <1>2. CASE el' = "close" /\ UNCHANGED << chunk, buf, in >>
    BY <1>2 DEF Stream
  <1>3. CASE ElRecv /\ el' # "close"
    <2>1. PICK n \in 1 .. Len(in["m"]) : /\ chunk' = buf \o SubSeq(in["m"], 1, n)
                                         /\ in' = [in EXCEPT !["m"] = SubSeq(@, n + 1, Len(@))]
      BY <1>3 DEF ElRecv
    <2>2. chunk = << >> /\ buf' = << >>
      BY <1>0, <1>3 DEF ElRecv, Parsing
    <2>3. PICK c \in Seq(Unit) : c = in["m"]
      BY <1>0
    <2>4. PICK p \in Seq(Unit), q \in Seq(Unit) : p = SubSeq(c, 1, n) /\ q = SubSeq(c, n + 1, Len(c))
      <3>1. SubSeq(c, 1, n) \in Seq(Unit) /\ SubSeq(c, n + 1, Len(c)) \in Seq(Unit)
        BY <2>1, <2>3
      <3> QED BY <3>1
    <2>5. p \o q = c
      <3>1. SubSeq(c, 1, n) \o SubSeq(c, n + 1, Len(c)) = SubSeq(c, 1, Len(c))
        BY <2>1, <2>3, ConcatAdjacentSubSeq
      <3> QED BY <2>4, <3>1, SubSeqFull
    <2>6. in'["m"] = q /\ chunk' = buf \o p
      BY <2>1, <2>3, <2>4 DEF ClientTyped, ConnTyped
    <2>7. Stream' = (buf \o p) \o q
      <3>1. buf \o p \in Seq(Unit)
        BY <1>0
      <3> QED BY <2>2, <2>6, <3>1, OneEmpty DEF Stream
    <2>8. Stream' = buf \o c
      <3>1. PICK b \in Seq(Unit) : b = buf
        BY <1>0
      <3>2. (b \o p) \o q = b \o (p \o q)
        BY ONLY b \in Seq(Unit), p \in Seq(Unit), q \in Seq(Unit), ConcatAssociative
      <3> QED BY <2>5, <2>7, <3>1, <3>2
    <2>9. Stream = buf \o c
      BY <1>0, <2>2, <2>3, OneEmpty DEF Stream
    <2> QED BY <2>8, <2>9
  <1> QED BY <1>1, <1>2, <1>3 DEF ElRecv

LEMMA StreamTyped ==
  ASSUME ClientTyped
  PROVE  Stream \in Seq(Unit)
  <1>1. chunk \in Seq(Unit) /\ buf \in Seq(Unit) /\ in["m"] \in Seq(Unit)
    BY DEF ClientTyped, LoopTyped, ConnTyped
  <1>2. chunk \o buf \in Seq(Unit)
    BY <1>1, ConcatProperties
  <1> QED BY <1>1, <1>2, ConcatProperties DEF Stream

(* msparse_msg() takes the first two units, or all it has. *)
LEMMA ParseStep ==
  ASSUME ClientTyped, msparse_msg
  PROVE  /\ Len(Stream) >= 2 /\ Stream[1] = chunk[1] /\ Stream[2] = chunk[2]
         /\ Whole(chunk) => Slice(Stream', Stream, 2) /\ Len(Stream') = Len(Stream) - 2
         /\ ~Whole(chunk) => Slice(Stream', Stream, Len(chunk))
  <1>1. chunk \in Seq(Unit) /\ buf = << >> /\ in["m"] \in Seq(Unit) /\ Len(chunk) >= 2
    BY DEF ClientTyped, LoopTyped, ConnTyped, msparse_msg, Parsing
  <1>2. PICK f \in Seq(Unit), c \in Seq(Unit) : f = chunk /\ c = in["m"] /\ Len(f) >= 2
    BY <1>1
  <1>3. buf' = << >> /\ in'["m"] = c /\ (Whole(chunk) => chunk' = Excess(chunk)) /\ (~Whole(chunk) => chunk' = << >>)
    BY <1>1, <1>2 DEF msparse_msg
  <1>4. << >> \in Seq(Unit)
    OBVIOUS
  <1>5. Stream = f \o c
    BY <1>1, <1>2, <1>4, OneEmpty DEF Stream
  <1>6. PICK x \in Seq(Unit) : Joins(x, f, c)
    BY Join
  <1>7. Len(Stream) >= 2 /\ Stream[1] = chunk[1] /\ Stream[2] = chunk[2]
    <2>1. 1 \in 1 .. Len(f) /\ 2 \in 1 .. Len(f) /\ Len(f) + Len(c) >= 2
      BY <1>2
    <2>2. x = Stream /\ Len(x) = Len(f) + Len(c) /\ x[1] = f[1] /\ x[2] = f[2]
      BY <1>5, <1>6, <2>1 DEF Joins
    <2> QED BY <1>2, <2>1, <2>2
  <1>8. ASSUME NEW d \in 0 .. Len(f), chunk' = SubSeq(f, d + 1, Len(f))
        PROVE  Slice(Stream', Stream, d) /\ Len(Stream') = Len(Stream) - d
    <2>1. PICK e \in Seq(Unit) : e = SubSeq(f, d + 1, Len(f))
      <3>1. SubSeq(f, d + 1, Len(f)) \in Seq(Unit)
        OBVIOUS
      <3> QED BY <3>1
    <2>2. Stream' = e \o c
      BY <1>3, <1>4, <1>8, <2>1, OneEmpty DEF Stream
    <2>3. Slice(e \o c, f \o c, d) /\ Len(e \o c) = Len(f \o c) - d
      BY ONLY f \in Seq(Unit), c \in Seq(Unit), d \in 0 .. Len(f), e = SubSeq(f, d + 1, Len(f)), DropFront
    <2> QED BY <1>5, <2>2, <2>3
  <1>9. CASE Whole(chunk)
    <2>1. 2 \in 0 .. Len(f) /\ chunk' = SubSeq(f, 2 + 1, Len(f))
      BY <1>2, <1>3, <1>9 DEF Excess
    <2> QED BY <1>7, <1>8, <1>9, <2>1
  <1>10. CASE ~Whole(chunk)
    <2>1. Len(f) \in 0 .. Len(f) /\ chunk' = SubSeq(f, Len(f) + 1, Len(f))
      BY <1>2, <1>3, <1>10, SubSeqEmpty
    <2> QED BY <1>2, <1>7, <1>8, <1>10, <2>1
  <1> QED BY <1>9, <1>10

(* A reconnection drops all of the stream, or crosses it. *)
LEMMA RejoinStep ==
  ASSUME ClientTyped, NEW t \in {"main", "cbk"}, Reconnect(t)
  PROVE  /\ Slice(Stream', Stream, 0)
         /\ \/ Stream' = << >> /\ crossed' = crossed
            \/ crossed'
            \/ Stream' = Stream /\ UNCHANGED << eof, fd, crossed >>
  <1>1. chunk \in Seq(Unit) /\ buf \in Seq(Unit) /\ in["m"] \in Seq(Unit) /\ << >> \in Seq(Unit)
    BY DEF ClientTyped, LoopTyped, ConnTyped
  <1>2. t \notin Reentrant
    BY ThreadsAssumption
  <1>3. CASE UNCHANGED << fd, sent, in, eof, buf, chunk, crossed >>
    <2>1. Stream' = Stream
      BY <1>3 DEF Stream
    <2>2. Slice(Stream, Stream, 0)
      BY StreamTyped DEF Slice
    <2> QED BY <1>3, <2>1, <2>2
  <1>4. CASE tcp_server_reconnect(Conn(t))
    <2>1. in'["m"] = << >> /\ buf' = << >> /\ chunk' \in {chunk, << >>}
      BY <1>2, <1>4 DEF tcp_server_reconnect, ClientTyped, ConnTyped
    <2>2. PICK e \in Seq(Unit) : e = chunk'
      BY <1>1, <2>1
    <2>3. Stream' = e
      <3>1. Stream' = e \o << >>
        BY <1>1, <2>1, <2>2, OneEmpty DEF Stream
      <3> QED BY <3>1, ConcatEmptySeq
    <2>4. Slice(e, Stream, 0)
      <3>1. PICK x \in Seq(Unit) : Joins(x, chunk, buf)
        BY <1>1, Join
      <3>2. PICK y \in Seq(Unit) : Joins(y, x, in["m"])
        BY <1>1, Join
      <3>3. y = Stream /\ Len(y) >= Len(chunk) /\ \A i \in 1 .. Len(chunk) : y[i] = chunk[i]
        <4>1. y = Stream
          BY <3>1, <3>2 DEF Joins, Stream
        <4>2. Len(x) = Len(chunk) + Len(buf) /\ Len(y) = Len(x) + Len(in["m"])
          BY <3>1, <3>2 DEF Joins
        <4>3. \A i \in 1 .. Len(chunk) : i \in 1 .. Len(x) /\ x[i] = chunk[i]
          BY <1>1, <3>1, <4>2 DEF Joins
        <4>4. \A i \in 1 .. Len(x) : y[i] = x[i]
          BY <3>2 DEF Joins
        <4>5. PICK p \in Nat, q \in Nat, r \in Nat : p = Len(chunk) /\ q = Len(buf) /\ r = Len(in["m"])
          BY <1>1
        <4>8. Len(y) = p + q + r
          BY <4>2, <4>5
        <4>6. Len(y) >= Len(chunk)
          <5>1. p + q + r >= p
            OBVIOUS
          <5> QED BY <4>5, <4>8, <5>1
        <4>7. \A i \in 1 .. Len(chunk) : y[i] = chunk[i]
          BY <4>3, <4>4, Zenon
        <4> QED BY <4>1, <4>6, <4>7
      <3>4. e = chunk \/ Len(e) = 0
        BY <2>1, <2>2
      <3> QED BY <1>1, <3>2, <3>3, <3>4 DEF Slice
    <2>5. crossed' = (crossed \/ chunk' # << >>)
      BY <1>2, <1>4 DEF tcp_server_reconnect
    <2> QED BY <2>2, <2>3, <2>4, <2>5 DEF ClientTyped, ConnTyped
  <1> QED BY <1>3, <1>4 DEF Reconnect

(* What is given up is the front of the stream. *)
LEMMA GiveUpStep ==
  ASSUME ClientTyped, GiveUp
  PROVE  Slice(Stream', Stream, Len(chunk))
  <1>1. chunk \in Seq(Unit) /\ buf = << >> /\ in["m"] \in Seq(Unit) /\ << >> \in Seq(Unit)
    BY DEF ClientTyped, LoopTyped, ConnTyped, GiveUp, Parsing
  <1>2. PICK f \in Seq(Unit), c \in Seq(Unit) : f = chunk /\ c = in["m"]
    BY <1>1
  <1>3. Stream = f \o c
    BY <1>1, <1>2, OneEmpty DEF Stream
  <1>4. Stream' = c
    <2>1. chunk' = << >> /\ buf' = << >> /\ in' = in
      BY <1>1 DEF GiveUp, connVars
    <2>2. Stream' = << >> \o c
      BY <1>1, <1>2, <2>1, OneEmpty DEF Stream
    <2> QED BY <2>2, ConcatEmptySeq
  <1>5. PICK x \in Seq(Unit) : Joins(x, f, c)
    BY Join
  <1>6. \A i \in 1 .. Len(c) : x[i + Len(f)] = c[i]
    BY <1>5 DEF Joins
  <1>7. Slice(c, x, Len(f))
    BY <1>5, <1>6 DEF Slice, Joins
  <1> QED BY <1>2, <1>3, <1>4, <1>5, <1>7 DEF Joins

LEMMA CloseStep ==
  ASSUME ClientTyped, ServerClose("m")
  PROVE  Slice(Stream', Stream, 0)
  <1>1. chunk \in Seq(Unit) /\ buf \in Seq(Unit) /\ in["m"] \in Seq(Unit)
    BY DEF ClientTyped, LoopTyped, ConnTyped
  <1>2. PICK f \in Seq(Unit), c \in Seq(Unit) : f = chunk \o buf /\ c = in["m"]
    BY <1>1, ConcatProperties
  <1>3. PICK n \in 0 .. Len(in["m"]) : in' = [in EXCEPT !["m"] = SubSeq(@, 1, n)]
    BY DEF ServerClose
  <1>4. PICK e : e = SubSeq(c, 1, n)
    OBVIOUS
  <1>5. in'["m"] = e /\ chunk' = chunk /\ buf' = buf
    BY <1>2, <1>3, <1>4 DEF ServerClose, elVars, ClientTyped, ConnTyped
  <1>6. n \in 0 .. Len(c)
    BY <1>2
  <1>7. Slice(f \o e, f \o c, 0)
    BY ONLY f \in Seq(Unit), c \in Seq(Unit), n \in 0 .. Len(c), e = SubSeq(c, 1, n), CutBack, <1>4, <1>6
  <1> QED BY <1>2, <1>5, <1>7 DEF Stream

LEMMA ArriveStep ==
  ASSUME ClientTyped, NEW m \in Msg, in'["m"] = in["m"] \o Units(m), chunk' = chunk, buf' = buf
  PROVE  Grown(Stream', Stream, m)
  <1>1. chunk \in Seq(Unit) /\ buf \in Seq(Unit) /\ in["m"] \in Seq(Unit)
    BY DEF ClientTyped, LoopTyped, ConnTyped
  <1>2. PICK f \in Seq(Unit), c \in Seq(Unit) : f = chunk \o buf /\ c = in["m"]
    BY <1>1, ConcatProperties
  <1>3. Grown(f \o (c \o Units(m)), f \o c, m)
    BY GrowBack
  <1> QED BY <1>2, <1>3 DEF Stream

-----------------------------------------------------------------------------
(* While no connection has been closed *)

LEMMA InitNoClose == Init => NoClose
  <1> SUFFICES ASSUME Init PROVE NoClose
    OBVIOUS
  <1>1. pc["main"] \in {"start", "end"}
    BY DEF Init
  <1> QED BY <1>1 DEF Init, NoClose, Working, Parsing

(* Steps that close nothing and queue nothing *)
LEMMA NoCloseSame ==
  ASSUME NoClose, eof' = eof, el' = "close" => el = "close" \/ nclose > 0, nclose' = nclose, cq' = cq,
         fd'["m"] = fd["m"], pc'["main"] \in Working => pc["main"] \in Working,
         crossed' = crossed, Parsing' => Parsing,
         cb' \in {"join", "joining"} => cb \in {"join", "joining"}
  PROVE  NoClose'
  BY DEF NoClose

LEMMA NextNoClose == ClientTyped /\ Phases /\ NoClose /\ [Next]_vars => NoClose'
  <1> SUFFICES ASSUME ClientTyped, Phases, NoClose, [Next]_vars PROVE NoClose'
    OBVIOUS
  <1> USE ThreadsAssumption
  <1>0. PICK L : pc \in [Callers -> L] /\ fd \in [Conns -> BOOLEAN] /\ eof \in [Conns -> BOOLEAN] /\ nclose \in Nat /\ cq \in Seq(Event)
    BY DEF ClientTyped, CallTyped, ConnTyped, LoopTyped
  <1>1. CASE moc_init
    BY <1>0, <1>1 DEF moc_init, moc_load_fromhdf, Go, eloop_start, mcbk_start, NoClose, Working, Parsing, envVars
  <1>2. CASE eloop_stop \/ mcbk_stop
    <2>1. pc'["main"] \notin Working
      BY <1>0, <1>2 DEF eloop_stop, mcbk_stop, Go, Working
    <2> QED BY <1>2, <2>1, NoCloseSame DEF eloop_stop, mcbk_stop, connVars, elVars, cbVars, envVars, Parsing
  <1>3. CASE moc_destroy
    <2>1. ~Parsing'
      BY <1>3 DEF moc_destroy, elVars, Phases, Parsing
    <2> QED BY <1>0, <1>3, <2>1 DEF moc_destroy, mevt_destroy, Go, NoClose, Working, elVars, cbVars, envVars
  <1>4. ASSUME NEW t \in Reentrant, moc_init_r(t) \/ moc_destroy_r(t) PROVE NoClose'
    <2>1. pc'["main"] = pc["main"] /\ fd'["m"] = fd["m"]
      BY <1>0, <1>4 DEF moc_init_r, moc_destroy_r, moc_load_fromhdf, mevt_destroy, Go
    <2> QED BY <1>4, <2>1, NoCloseSame DEF moc_init_r, moc_destroy_r, elVars, cbVars, envVars, Parsing
  <1>5. ASSUME NEW t \in Callers, ReqidLoad(t) PROVE NoClose'
    <2>1. pc'["main"] \in Working => pc["main"] \in Working
      BY <1>0, <1>5 DEF ReqidLoad, MayTrigger, Go, Working
    <2>2. cb' \in {"join", "joining"} => cb \in {"join", "joining"}
      BY <1>5 DEF ReqidLoad, MayTrigger
    <2> QED BY <1>5, <2>1, <2>2, NoCloseSame DEF ReqidLoad, connVars, elVars, envVars, Parsing
  <1>6. ASSUME NEW t \in Callers, CallerStep(t) PROVE NoClose'
    <2>1. pc'["main"] \in Working => pc["main"] \in Working
      <3>1. CASE ReqidStore(t) \/ PackHeader(t) \/ StartWait(t) \/ srecv(t) \/ recv_msg(t)
        BY <1>0, <3>1 DEF ReqidStore, PackHeader, StartWait, srecv, recv_msg, Go, Working, ClientTyped, CallTyped
      <3>2. CASE RecvFails(t) \/ tcp_get_rep(t) \/ EndWait(t)
        BY <1>0, <3>2 DEF RecvFails, tcp_get_rep, EndWait, Return, Go, Working, ClientTyped, CallTyped
      <3>3. CASE tcp_srv_send(t) \/ ClearData(t) \/ Reconnect(t)
        BY <1>0, <3>3 DEF tcp_srv_send, ClearData, Reconnect, Return, Go, Working, ClientTyped, CallTyped
      <3> QED BY <1>6, <3>1, <3>2, <3>3 DEF CallerStep
    <2>2. CASE ReqidStore(t) \/ PackHeader(t) \/ StartWait(t) \/ srecv(t) \/ recv_msg(t) \/ tcp_get_rep(t) \/ EndWait(t) \/ ClearData(t)
      <3>1. eof' = eof /\ el' = el /\ nclose' = nclose /\ cq' = cq /\ fd' = fd /\ cb' = cb /\ crossed' = crossed
        BY <2>2 DEF ReqidStore, PackHeader, StartWait, srecv, recv_msg, tcp_get_rep, EndWait, ClearData, connVars, elVars, cbVars, envVars
      <3> QED BY <2>1, <3>1, NoCloseSame DEF Parsing
    <2>3. CASE RecvFails(t)
      <3>1. t \in Reentrant
        BY <2>3 DEF RecvFails, ClientTyped, CallTyped
      <3>2. fd'["m"] = fd["m"]
        BY <1>0, <2>3, <3>1 DEF RecvFails
      <3>3. eof' = eof /\ el' = el /\ nclose' = nclose /\ cq' = cq /\ cb' = cb /\ crossed' = crossed
        BY <2>3 DEF RecvFails, elVars, cbVars, envVars
      <3> QED BY <2>1, <3>2, <3>3, NoCloseSame DEF Parsing
    <2>4. CASE tcp_srv_send(t)
      <3>1. eof' = eof /\ el' = el /\ nclose' = nclose /\ cq' = cq /\ cb' = cb /\ crossed' = crossed
        BY <2>4 DEF tcp_srv_send, elVars, cbVars, envVars
      <3>2. fd'["m"] = fd["m"] \/ eof[Conn(t)]
        BY <1>0, <2>4 DEF tcp_srv_send
      <3>3. CASE eof[Conn(t)]
        <4>1. nclose > 0
          BY <3>3 DEF NoClose
        <4> QED BY <1>0, <3>1, <4>1 DEF NoClose
      <3> QED BY <2>1, <3>1, <3>2, <3>3, NoCloseSame DEF Parsing
    <2>5. CASE Reconnect(t)
      <3>1. CASE t \in Reentrant
        <4>1. fd'["m"] = fd["m"] /\ crossed' = crossed /\ (\A k \in Conns : eof'[k] => eof[k])
          BY <1>0, <2>5, <3>1 DEF Reconnect, tcp_server_reconnect, ClientTyped, ConnTyped
        <4>2. el' = el /\ nclose' = nclose /\ cq' = cq /\ cb' = cb
          BY <2>5, <3>1 DEF Reconnect, envVars
        <4> QED BY <2>1, <4>1, <4>2 DEF NoClose, Parsing
      <3>2. CASE t \notin Reentrant
        <4>1. nclose > 0
          BY <1>0, <2>5, <3>2 DEF Reconnect, NoClose, Phases, Working
        <4>2. nclose' = nclose
          BY <2>5 DEF Reconnect, envVars
        <4> QED BY <1>0, <4>1, <4>2 DEF NoClose
      <3> QED BY <3>1, <3>2
    <2> QED BY <1>6, <2>2, <2>3, <2>4, <2>5 DEF CallerStep
  <1>7. CASE ElStep
    <2>1. pc' = pc /\ cb' = cb /\ eof' = eof /\ nclose' = nclose /\ crossed' = crossed
      BY <1>7 DEF ElStep, ElRecv, mssrv_close, GiveUp, KeepRest, msparse_msg, Unpack, Signal, ElStop, callVars, connVars, cbVars, envVars
    <2>2. el' = "close" => nclose > 0
      BY <1>7 DEF ElStep, ElRecv, mssrv_close, GiveUp, KeepRest, msparse_msg, Unpack, Signal, ElStop, NoClose
    <2>3. fd' = fd \/ nclose > 0
      BY <1>7 DEF ElStep, ElRecv, mssrv_close, GiveUp, KeepRest, msparse_msg, Unpack, Signal, ElStop, connVars, NoClose
    <2>6. nclose = 0 /\ Parsing' => fd'["m"]
      <3>1. CASE ElRecv \/ KeepRest \/ GiveUp \/ ElStop
        BY <2>3, <3>1 DEF ElRecv, KeepRest, GiveUp, ElStop, Parsing, connVars
      <3>2. CASE mssrv_close \/ msparse_msg \/ Unpack \/ Signal
        BY <2>3, <3>2 DEF mssrv_close, msparse_msg, Unpack, Signal, Parsing, NoClose
      <3> QED BY <1>7, <3>1, <3>2 DEF ElStep
    <2>4. CASE cq' = cq
      <3>1. fd'["m"] = fd["m"] \/ nclose > 0
        BY <2>3
      <3>2. ASSUME nclose = 0
            PROVE  /\ pc'["main"] \in Working => fd'["m"]
                   /\ cb' \notin {"join", "joining"}
                   /\ \A i \in 1 .. Len(cq') : cq'[i].kind # "_reconnect"
        BY <2>1, <2>4, <3>1, <3>2 DEF NoClose
      <3>3. \A k \in Conns : eof'[k] => nclose' > 0
        BY <2>1 DEF NoClose
      <3>4. (el' = "close" => nclose' > 0) /\ (crossed' => nclose' > 0)
        BY <2>1, <2>2 DEF NoClose
      <3> QED BY <2>1, <2>6, <3>2, <3>3, <3>4 DEF NoClose
    <2>5. CASE cq' # cq
      <3>1. cq' = Append(cq, Entry("push", chunk[1].m.n)) /\ chunk[1].m.n \in Nat
        <4>1. msparse_msg
          BY <1>7, <2>5 DEF ElStep, ElRecv, mssrv_close, GiveUp, KeepRest, Unpack, Signal, ElStop, cbVars
        <4>2. cq' = Append(cq, Entry("push", chunk[1].m.n)) /\ Len(chunk) >= 2
          BY <2>5, <4>1 DEF msparse_msg, msqueue_put
        <4>3. chunk[1] \in Unit
          BY <4>2 DEF ClientTyped, LoopTyped
        <4> QED BY <4>2, <4>3 DEF Unit, Msg
      <3>2. Entry("push", chunk[1].m.n) \in Event /\ Entry("push", chunk[1].m.n).kind # "_reconnect"
        BY <3>1 DEF Entry, Event
      <3>3. ASSUME nclose = 0, NEW i \in 1 .. Len(cq') PROVE cq'[i].kind # "_reconnect"
        <4>1. i = Len(cq) + 1 \/ i \in 1 .. Len(cq)
          BY <1>0, <3>1, <3>2, <3>3
        <4> QED BY <1>0, <3>1, <3>2, <3>3, <4>1 DEF NoClose
      <3> QED BY <1>0, <2>1, <2>2, <2>3, <2>6, <3>3 DEF NoClose
    <2> QED BY <2>4, <2>5
  <1>8. CASE ElLost
    <2>1. /\ pc' = pc /\ cb' = cb /\ eof' = eof /\ fd' = fd /\ el' = el /\ nclose' = nclose /\ crossed' = crossed
          /\ cq' = Append(cq, Entry("_connectlost", 0))
      BY <1>8 DEF ElLost, msqueue_put, callVars, connVars, elVars
    <2>2. Entry("_connectlost", 0) \in Event /\ Entry("_connectlost", 0).kind # "_reconnect"
      BY DEF Entry, Event
    <2>3. ASSUME nclose = 0, NEW i \in 1 .. Len(cq') PROVE cq'[i].kind # "_reconnect"
      <3>1. i = Len(cq) + 1 \/ i \in 1 .. Len(cq)
        BY <1>0, <2>1, <2>2, <2>3
      <3> QED BY <1>0, <2>1, <2>2, <2>3, <3>1 DEF NoClose
    <2> QED BY <1>0, <2>1, <2>3 DEF NoClose, Parsing
  <1>9. CASE CbGet
    <2>1. /\ pc' = pc /\ eof' = eof /\ fd' = fd /\ el' = el /\ nclose' = nclose /\ cq' = Tail(cq) /\ cq # << >>
          /\ crossed' = crossed
      BY <1>9 DEF CbGet, callVars, connVars, elVars, envVars
    <2>2. Len(cq) \in Nat /\ Len(cq) > 0 /\ Len(cq') = Len(cq) - 1 /\ \A i \in 1 .. Len(cq) - 1 : cq'[i] = cq[i + 1]
      BY <1>0, <2>1
    <2>3. nclose = 0 => cb' = "wait"
      <3>1. cq[1].kind = "_reconnect" \/ cb' = "wait"
        BY <1>9 DEF CbGet, Entry
      <3> QED BY <2>2, <3>1 DEF NoClose
    <2> QED BY <2>1, <2>2, <2>3 DEF NoClose, Parsing
  <1>10. CASE CbJoined \/ CbStop
    <2>1. /\ cb' \in {"wait", "done"} /\ pc' = pc /\ eof' = eof /\ fd' = fd /\ el' = el /\ nclose' = nclose
          /\ cq' = cq /\ crossed' = crossed
      BY <1>10 DEF CbJoined, CbStop, callVars, connVars, elVars, envVars
    <2> QED BY <2>1, NoCloseSame DEF Parsing
  <1>11. ASSUME NEW k \in Conns, Serve(k) PROVE NoClose'
    BY <1>11, NoCloseSame DEF Serve, callVars, elVars, cbVars, envVars, Parsing
  <1>12. ASSUME NEW k \in Conns, ServerClose(k) PROVE NoClose'
    <2>1. nclose' > 0
      BY <1>0, <1>12 DEF ServerClose
    <2> QED BY <1>12, <2>1 DEF NoClose, ClientTyped, LoopTyped
  <1>13. CASE ServerPush
    BY <1>13, NoCloseSame DEF ServerPush, callVars, elVars, cbVars, Parsing
  <1>14. CASE UNCHANGED vars
    BY <1>14, NoCloseSame DEF vars, connVars, callVars, elVars, cbVars, envVars, Parsing
  <1> QED
    BY <1>1, <1>2, <1>3, <1>4, <1>5, <1>6, <1>7, <1>8, <1>9, <1>10, <1>11, <1>12, <1>13, <1>14
    DEF Next, StopStep, CbStep, Finished

-----------------------------------------------------------------------------
(* The event loop keeps in step with the stream *)

Quiet ==
  /\ Stream' = Stream /\ lostStep'["m"] = lostStep["m"] /\ eof'["m"] = eof["m"] /\ nclose' >= nclose
  /\ crossed' = crossed /\ (Open' => Open)

(* The steps that change the stream; each of the others leaves it alone.   *)
LEMMA StreamMoves ==
  ASSUME ClientTyped, Phases, [Next]_vars
  PROVE  \/ Quiet
         \/ msparse_msg
         \/ GiveUp
         \/ \E t \in {"main", "cbk"} : Reconnect(t)
         \/ \E m \in Msg : Grown(Stream', Stream, m) /\ Serve("m") /\ m.kind = "reply"
         \/ Grown(Stream', Stream, Push(npush + 1)) /\ ServerPush
         \/ ServerClose("m")
  <1> USE ThreadsAssumption
  <1>0. /\ lostStep \in [Conns -> BOOLEAN] /\ eof \in [Conns -> BOOLEAN] /\ in \in [Conns -> Seq(Unit)]
        /\ nclose \in Nat /\ npush \in Nat /\ sent \in [Conns -> Seq(Request)] /\ fd \in [Conns -> BOOLEAN]
    BY DEF ClientTyped, ConnTyped, LoopTyped
  <1>1. ASSUME chunk' = chunk, buf' = buf, in'["m"] = in["m"], lostStep'["m"] = lostStep["m"], eof'["m"] = eof["m"], nclose' = nclose,
               crossed' = crossed, Open' => Open
        PROVE  Quiet
    BY <1>0, <1>1 DEF Quiet, Stream
  <1>2. CASE moc_init \/ eloop_stop \/ mcbk_stop \/ moc_destroy
    <2>1. Open' => Open
      BY <1>0, <1>2 DEF moc_init, eloop_stop, mcbk_stop, moc_destroy, mevt_destroy, connVars, elVars, Phases, Open
    <2> QED BY <1>1, <1>2, <2>1 DEF moc_init, eloop_stop, mcbk_stop, moc_destroy, connVars, elVars, envVars
  <1>3. ASSUME NEW t \in Callers, CallerStep(t), ~Reconnect(t) PROVE Quiet
    <2>1. CASE ReqidStore(t) \/ PackHeader(t) \/ StartWait(t) \/ EndWait(t) \/ tcp_srv_send(t) \/ ClearData(t)
               \/ tcp_get_rep(t) \/ RecvFails(t)
      <3>3. Open' => Open
        <4>1. el' = el /\ (fd'["m"] => fd["m"])
          BY <1>0, <2>1 DEF ReqidStore, PackHeader, StartWait, EndWait, tcp_srv_send, ClearData, tcp_get_rep, RecvFails, connVars, elVars,
             ClientTyped, CallTyped
        <4> QED BY <4>1 DEF Open
      <3>1. in' = in /\ lostStep' = lostStep /\ eof' = eof /\ crossed' = crossed
        BY <2>1 DEF ReqidStore, PackHeader, StartWait, EndWait, tcp_srv_send, ClearData, tcp_get_rep, RecvFails, connVars
      <3>2. chunk' = chunk /\ buf' = buf /\ nclose' = nclose
        BY <2>1 DEF ReqidStore, PackHeader, StartWait, EndWait, tcp_srv_send, ClearData, tcp_get_rep, RecvFails, elVars, envVars
      <3> QED BY <1>1, <3>1, <3>2, <3>3
    <2>2. CASE recv_msg(t) \/ srecv(t)
      <3>1. t \in Reentrant
        BY <2>2 DEF recv_msg, srecv, ClientTyped, CallTyped
      <3>2. in'["m"] = in["m"] /\ lostStep'["m"] = lostStep["m"]
        BY <1>0, <2>2, <3>1 DEF recv_msg, srecv
      <3>3. eof' = eof /\ chunk' = chunk /\ buf' = buf /\ nclose' = nclose /\ crossed' = crossed
            /\ fd' = fd /\ el' = el
        BY <2>2 DEF recv_msg, srecv, elVars, envVars
      <3> QED BY <1>1, <3>2, <3>3 DEF Open
    <2> QED BY <1>3, <2>1, <2>2 DEF CallerStep
  <1>4. ASSUME NEW t \in Reentrant, Reconnect(t) PROVE Quiet
    <2>1. /\ in'["m"] = in["m"] /\ eof'["m"] = eof["m"] /\ buf' = buf /\ chunk' = chunk /\ crossed' = crossed
          /\ fd'["m"] = fd["m"]
      BY <1>0, <1>4 DEF Reconnect, tcp_server_reconnect, ClientTyped, ConnTyped
    <2> QED BY <1>1, <1>4, <2>1 DEF Reconnect, envVars, Open
  <1>5. ASSUME NEW t \in Callers, (t \in Reentrant /\ (moc_init_r(t) \/ moc_destroy_r(t))) \/ ReqidLoad(t) PROVE Quiet
    <2>1. fd'["m"] = fd["m"] /\ el' = el
      BY <1>0, <1>5 DEF moc_init_r, moc_load_fromhdf, moc_destroy_r, mevt_destroy, ReqidLoad, connVars, elVars
    <2> QED BY <1>1, <1>5, <2>1 DEF moc_init_r, moc_destroy_r, ReqidLoad, connVars, elVars, envVars, Open
  <1>6. CASE ElRecv \/ KeepRest
    <2>1. lostStep' = lostStep /\ eof' = eof /\ nclose' = nclose /\ crossed' = crossed /\ fd' = fd /\ el' # "none"
      BY <1>6 DEF ElRecv, KeepRest, connVars, envVars
    <2> QED BY <1>0, <1>6, <2>1, ReceivingKeeps DEF Quiet, Open
  <1>7. CASE mssrv_close \/ Unpack \/ Signal \/ ElStop \/ ElLost
    <2>1. Open' => Open
      BY <1>0, <1>7 DEF mssrv_close, Unpack, Signal, ElStop, ElLost, connVars, elVars, Open
    <2> QED BY <1>1, <1>7, <2>1 DEF mssrv_close, Unpack, Signal, ElStop, ElLost, connVars, elVars, envVars
  <1>8. CASE CbGet \/ CbJoined \/ CbStop \/ UNCHANGED vars
    BY <1>1, <1>8 DEF CbGet, CbJoined, CbStop, connVars, elVars, envVars, vars, Open
  <1>9. ASSUME NEW k \in Conns, Serve(k) \/ ServerClose(k), k # "m" PROVE Quiet
    <2>1. in'["m"] = in["m"] /\ eof'["m"] = eof["m"]
      BY <1>0, <1>9 DEF Serve, ServerClose
    <2>2. chunk' = chunk /\ buf' = buf /\ lostStep' = lostStep /\ crossed' = crossed /\ fd' = fd /\ el' = el
      BY <1>9 DEF Serve, ServerClose, elVars
    <2>3. nclose' = nclose \/ nclose' = nclose + 1
      BY <1>9 DEF Serve, ServerClose, envVars
    <2> QED BY <1>0, <2>1, <2>2, <2>3 DEF Quiet, Stream, Open
  <1>10. CASE Serve("m")
    <2>1. Head(sent["m"]).id \in Nat
      <3>1. sent["m"] \in Seq(Request) /\ sent["m"] # << >>
        BY <1>0, <1>10 DEF Serve
      <3>2. Head(sent["m"]) \in Request
        BY <3>1
      <3> QED BY <3>2 DEF Request
    <2>2. PICK m \in Msg : m = Reply(Head(sent["m"]).id) /\ m.kind = "reply"
      <3>1. PICK n \in Nat : n = Head(sent["m"]).id
        BY <2>1
      <3>2. Reply(n) \in Msg /\ Reply(n).kind = "reply"
        BY DEF Reply, Msg
      <3> QED BY <3>1, <3>2
    <2>3. /\ chunk' = chunk /\ buf' = buf /\ lostStep' = lostStep /\ eof' = eof /\ nclose' = nclose
          /\ crossed' = crossed /\ fd' = fd /\ el' = el
      BY <1>10 DEF Serve, elVars, envVars
    <2>4. in'["m"] = in["m"] \/ in'["m"] = in["m"] \o Units(m)
      BY <1>0, <1>10, <2>2 DEF Serve
    <2>5. CASE in'["m"] = in["m"]
      BY <1>1, <2>3, <2>5 DEF Open
    <2>6. CASE in'["m"] = in["m"] \o Units(m)
      <3>1. Grown(Stream', Stream, m)
        BY <2>3, <2>6, ArriveStep
      <3> QED BY <1>10, <2>2, <3>1
    <2> QED BY <2>4, <2>5, <2>6
  <1>11. CASE ServerPush
    <2>1. Push(npush + 1) \in Msg
      BY <1>0 DEF Push, Msg
    <2>2. in'["m"] = in["m"] \o Units(Push(npush + 1)) /\ chunk' = chunk /\ buf' = buf
      BY <1>0, <1>11 DEF ServerPush, elVars
    <2>3. Grown(Stream', Stream, Push(npush + 1))
      BY <2>1, <2>2, ArriveStep
    <2> QED BY <1>11, <2>3
  <1>12. CASE \E t \in Callers : CallerStep(t)
    <2>1. PICK t \in Callers : CallerStep(t)
      BY <1>12
    <2>2. CASE Reconnect(t) /\ t \notin Reentrant
      BY <2>2
    <2> QED BY <1>3, <1>4, <2>1, <2>2
  <1>13. CASE \E k \in Conns : Serve(k) \/ ServerClose(k)
    BY <1>9, <1>10, <1>13
  <1>14. CASE (\E t \in Reentrant : moc_init_r(t) \/ moc_destroy_r(t)) \/ (\E t \in Callers : ReqidLoad(t))
    BY <1>5, <1>14
  <1> QED
    BY <1>2, <1>6, <1>7, <1>8, <1>11, <1>12, <1>13, <1>14 DEF Next, StopStep, ElStep, CbStep, Finished

LEMMA SliceAligned ==
  ASSUME NEW s \in Seq(Unit), NEW u \in Seq(Unit), Aligned(s), Slice(u, s, 0)
  PROVE  Aligned(u)
  <1>1. Len(u) <= Len(s) /\ \A i \in 1 .. Len(u) : u[i] = s[i]
    BY DEF Slice
  <1>2. u # << >> => s # << >> /\ u[1] = s[1]
    BY <1>1
  <1>3. ASSUME NEW i \in 1 .. Len(u) - 1
        PROVE  IF u[i].part = 1 THEN u[i + 1] = [u[i] EXCEPT !.part = 2] ELSE u[i + 1].part = 1
    <2>1. i \in 1 .. Len(s) - 1 /\ u[i] = s[i] /\ u[i + 1] = s[i + 1]
      BY <1>1
    <2> QED BY <2>1 DEF Aligned
  <1> QED BY <1>2, <1>3 DEF Aligned

LEMMA TwoDropped ==
  ASSUME NEW s \in Seq(Unit), NEW u \in Seq(Unit), Aligned(s), Slice(u, s, 2), Len(u) = Len(s) - 2
  PROVE  Aligned(u) /\ (Complete(s) => Complete(u))
  <1>1. Complete(s) => Complete(u)
    BY DEF Slice, Complete
  <1>2. \A i \in 1 .. Len(u) - 1 : IF u[i].part = 1 THEN u[i + 1] = [u[i] EXCEPT !.part = 2] ELSE u[i + 1].part = 1
    <2> SUFFICES ASSUME NEW i \in 1 .. Len(u) - 1
                 PROVE  IF u[i].part = 1 THEN u[i + 1] = [u[i] EXCEPT !.part = 2] ELSE u[i + 1].part = 1
      OBVIOUS
    <2>1. u[i] = s[i + 2] /\ u[i + 1] = s[(i + 2) + 1] /\ i + 2 \in 1 .. Len(s) - 1
      BY DEF Slice
    <2> QED BY <2>1 DEF Aligned
  <1>3. ASSUME u # << >> PROVE u[1].part = 1
    <2>1. Len(s) >= 3 /\ u[1] = s[3]
      BY <1>3 DEF Slice
    <2>2. s # << >> /\ 1 \in 1 .. Len(s) - 1 /\ 2 \in 1 .. Len(s) - 1 /\ 1 + 1 = 2 /\ 2 + 1 = 3
      BY <2>1
    <2>3. s[1] \in Unit /\ s[1].part = 1
      BY <2>2 DEF Aligned
    <2>4. s[2] = [s[1] EXCEPT !.part = 2]
      BY <2>2, <2>3 DEF Aligned
    <2>5. s[2].part = 2
      BY <2>3, <2>4 DEF Unit
    <2>6. s[3].part = 1
      BY <2>2, <2>5 DEF Aligned
    <2> QED BY <2>1, <2>6
  <1> QED BY <1>1, <1>2, <1>3 DEF Aligned

LEMMA GrownAligned ==
  ASSUME NEW m \in Msg, NEW s \in Seq(Unit), NEW u \in Seq(Unit), Aligned(s), Complete(s), Grown(u, s, m)
  PROVE  Aligned(u) /\ Complete(u)
  <1>0. PICK n \in Nat : n = Len(s) /\ Len(u) = n + 2
    BY DEF Grown
  <1>1. u[n + 1] = [m |-> m, part |-> 1] /\ u[n + 2] = [m |-> m, part |-> 2] /\ \A i \in 1 .. n : u[i] = s[i]
    BY <1>0 DEF Grown
  <1>2. u[n + 1].part = 1 /\ u[n + 2].part = 2 /\ u[n + 2] = [u[n + 1] EXCEPT !.part = 2]
    BY <1>1
  <1>3. Complete(u)
    BY <1>0, <1>2 DEF Complete
  <1>4. ASSUME NEW i \in 1 .. Len(u) - 1
        PROVE  IF u[i].part = 1 THEN u[i + 1] = [u[i] EXCEPT !.part = 2] ELSE u[i + 1].part = 1
    <2>1. CASE i <= n - 1
      <3>1. i \in 1 .. Len(s) - 1 /\ u[i] = s[i] /\ u[i + 1] = s[i + 1]
        BY <1>0, <1>1, <2>1
      <3> QED BY <3>1 DEF Aligned
    <2>2. CASE i = n
      <3>1. s # << >> /\ u[i] = s[Len(s)]
        BY <1>0, <1>1, <2>2
      <3>2. u[i].part = 2
        BY <3>1 DEF Complete
      <3> QED BY <1>2, <2>2, <3>2
    <2>3. CASE i = n + 1
      <3>1. i + 1 = n + 2
        BY <2>3
      <3> QED BY <1>2, <2>3, <3>1
    <2> QED BY <1>0, <2>1, <2>2, <2>3
  <1>5. u[1].part = 1
    <2>1. CASE n = 0
      BY <1>2, <2>1
    <2>2. CASE n > 0
      BY <1>0, <1>1, <2>2 DEF Aligned
    <2> QED BY <2>1, <2>2
  <1> QED BY <1>3, <1>4, <1>5 DEF Aligned

LEMMA InitInStep == Init => InStep
  <1> SUFFICES ASSUME Init PROVE InStep
    OBVIOUS
  <1>1. Stream = << >>
    <2>1. << >> \in Seq(Unit) /\ chunk = << >> /\ buf = << >> /\ in["m"] = << >>
      BY DEF Init
    <2> QED BY <2>1 DEF Stream
  <1>2. Aligned(<< >>) /\ Complete(<< >>)
    BY DEF Aligned, Complete
  <1>3. ~lostStep["m"]
    BY DEF Init
  <1> QED BY <1>1, <1>2, <1>3 DEF InStep

LEMMA NextInStep ==
  ASSUME ClientTyped, ClientTyped', Phases, InStep, [Next]_vars
  PROVE  InStep'
  <1> DEFINE Goal == /\ ~lostStep["m"]
                     /\ Open => Aligned(Stream) /\ (~eof["m"] => Complete(Stream))
  <1> SUFFICES ASSUME ~crossed' PROVE Goal'
    BY DEF InStep
  <1>0. lostStep \in [Conns -> BOOLEAN] /\ eof \in [Conns -> BOOLEAN] /\ fd \in [Conns -> BOOLEAN]
    BY DEF ClientTyped, ConnTyped
  <1>1. PICK s \in Seq(Unit), u \in Seq(Unit) : s = Stream /\ u = Stream'
    <2>1. Stream' \in Seq(Unit)
      <3>1. chunk' \in Seq(Unit) /\ buf' \in Seq(Unit) /\ in'["m"] \in Seq(Unit)
        BY DEF ClientTyped, LoopTyped, ConnTyped
      <3>2. chunk' \o buf' \in Seq(Unit)
        BY <3>1, ConcatProperties
      <3> QED BY <3>1, <3>2, ConcatProperties DEF Stream
    <2> QED BY <2>1, StreamTyped
  <1>2. CASE msparse_msg
    <2>1. crossed' = crossed /\ eof' = eof /\ fd["m"]
      BY <1>2 DEF msparse_msg
    <2>3. Aligned(s) /\ (~eof["m"] => Complete(s)) /\ ~lostStep["m"]
      BY <1>1, <2>1 DEF InStep, Open
    <2>4. Whole(chunk)
      <3>1. s # << >> /\ 1 \in 1 .. Len(s) - 1 /\ 1 + 1 = 2
        BY <1>1, <1>2, ParseStep
      <3>2. s[1].part = 1 /\ s[2] = [s[1] EXCEPT !.part = 2]
        BY <2>3, <3>1 DEF Aligned
      <3> QED BY <1>1, <1>2, <3>2, ParseStep DEF Whole, msparse_msg
    <2>5. Slice(u, s, 2) /\ Len(u) = Len(s) - 2 /\ lostStep' = lostStep
      <3>1. lostStep' = lostStep
        BY <1>2, <2>4 DEF msparse_msg
      <3> QED BY <1>1, <1>2, <2>4, <3>1, ParseStep
    <2>6. Aligned(u) /\ (Complete(s) => Complete(u))
      BY <2>3, <2>5, TwoDropped
    <2> QED BY <1>1, <2>1, <2>3, <2>5, <2>6
  <1>3. CASE \E t \in {"main", "cbk"} : Reconnect(t)
    <2>1. PICK t \in {"main", "cbk"} : Reconnect(t)
      BY <1>3
    <2>2. lostStep' = lostStep /\ el' = el
      BY <2>1 DEF Reconnect
    <2>3. CASE Stream' = << >> /\ crossed' = crossed
      <3>1. Aligned(<< >>) /\ Complete(<< >>)
        BY DEF Aligned, Complete
      <3> QED BY <2>2, <2>3, <3>1 DEF InStep
    <2>4. CASE Stream' = Stream /\ UNCHANGED << eof, fd, crossed >>
      BY <2>2, <2>4 DEF InStep, Open
    <2> QED BY <2>1, <2>3, <2>4, RejoinStep
  <1>4. CASE ServerClose("m")
    <2>1. lostStep' = lostStep /\ eof'["m"] /\ UNCHANGED << crossed, fd, el >>
      BY <1>0, <1>4 DEF ServerClose, elVars
    <2>2. ASSUME Open' PROVE Aligned(u)
      <3>1. Aligned(s)
        BY <1>1, <2>1, <2>2 DEF InStep, Open
      <3> QED BY <1>1, <1>4, <3>1, CloseStep, SliceAligned
    <2> QED BY <1>1, <2>1, <2>2 DEF InStep
  <1>5. CASE Quiet
    <2>1. Stream' = Stream /\ lostStep'["m"] = lostStep["m"] /\ eof'["m"] = eof["m"] /\ crossed' = crossed /\ (Open' => Open)
      BY <1>5 DEF Quiet
    <2> QED BY <2>1 DEF InStep
  <1>6. ASSUME NEW m \in Msg, Grown(Stream', Stream, m), Serve("m") \/ ServerPush PROVE Goal'
    <2>1. lostStep' = lostStep /\ eof' = eof /\ ~eof["m"] /\ UNCHANGED << crossed, fd, el >>
      BY <1>6 DEF Serve, ServerPush, elVars
    <2>2. ASSUME Open' PROVE Aligned(u) /\ Complete(u)
      <3>1. Aligned(s) /\ Complete(s)
        BY <1>1, <2>1, <2>2 DEF InStep, Open
      <3> QED BY <1>1, <1>6, <3>1, GrownAligned
    <2> QED BY <1>1, <2>1, <2>2 DEF InStep
  <1>7. CASE GiveUp
    <2>1. lostStep' = lostStep /\ crossed' = crossed /\ ~fd'["m"] /\ el' = "loop"
      BY <1>7 DEF GiveUp, connVars
    <2> QED BY <2>1 DEF InStep, Open
  <1>8. Push(npush + 1) \in Msg
    BY DEF Push, Msg, ClientTyped, LoopTyped
  <1> QED BY <1>2, <1>3, <1>4, <1>5, <1>6, <1>7, <1>8, StreamMoves

(* msparse_buf() finds the head of a message wherever it looks for one,    *)
(* for every cut of the stream by recv(), every size of the buffers and    *)
(* any number of connections closed within a message, by the event loop or *)
(* by EPIPE in a trigger, and made again (client/tcp.c:110), unless one is *)
(* closed and made again between two looks of msparse_buf() at srv->fd.    *)
THEOREM LoopKeepsInStep == Spec => []EventLoopInStep
  <1> DEFINE Inv == ClientTyped /\ Phases /\ InStep
  <1>1. Init => Inv
    BY InitTyped, InitPhases, InitInStep
  <1>2. Inv /\ [Next]_vars => Inv'
    <2> SUFFICES ASSUME Inv, [Next]_vars PROVE Inv'
      OBVIOUS
    <2>1. ClientTyped' /\ Phases'
      BY NextTyped, NextPhases
    <2>2. InStep'
      BY <2>1, NextInStep
    <2> QED BY <2>1, <2>2
  <1>3. Inv => EventLoopInStep
    BY DEF InStep, EventLoopInStep
  <1> QED BY <1>1, <1>2, <1>3, PTL DEF Spec

-----------------------------------------------------------------------------
(* The pushed messages, in the three places of Line *)

EntryNos(q) == [i \in 1 .. Len(q) |-> EntryNo(q[i])]
UnitNos(s)  == [i \in 1 .. Len(s) |-> UnitNo(s[i])]

Rising(s)   == \A i, j \in DOMAIN s : i < j /\ s[i] > 0 /\ s[j] > 0 => s[i] < s[j]
Below(s, u) == \A i \in DOMAIN s, j \in DOMAIN u : s[i] > 0 /\ u[j] > 0 => s[i] < u[j]
UpTo(s, b)  == \A i \in DOMAIN s : s[i] <= b
Has(s, v)   == \E i \in DOMAIN s : s[i] = v

(* c has been called, q is queued and n under way, of b messages pushed *)
Ordered(c, q, n, b) ==
  /\ Rising(c) /\ Rising(q) /\ Rising(n)
  /\ Below(c, q) /\ Below(c, n) /\ Below(q, n)
  /\ UpTo(c, b) /\ UpTo(q, b) /\ UpTo(n, b)
Covered(c, q, n, b) == \A v \in 1 .. b : Has(c, v) \/ Has(q, v) \/ Has(n, v)

InOrder ==
  /\ Ordered(called, EntryNos(cq), UnitNos(Stream), npush)
  /\ nclose = 0 => Covered(called, EntryNos(cq), UnitNos(Stream), npush)

Nats(k) == [1 .. k -> Nat]

(* u is s, of length k, with v behind it; u is s without its first d *)
Longer(u, s, k, v) == DOMAIN u = 1 .. k + 1 /\ u[k + 1] = v /\ \A i \in 1 .. k : u[i] = s[i]
Rest(u, s, d)      == \A i \in DOMAIN u : i + d \in DOMAIN s /\ u[i] = s[i + d]

(* The first of the units under way is queued and its second half dropped; *)
(* the first of the queue is called, or nothing; v and 0 arrive.  The      *)
(* lists after the step are p, m and e, the lengths lc, lq, ... .          *)
Queued(lc, c, lq, q, ln, n, b, lp, p, lm, m) ==
  /\ lc \in Nat /\ c \in Nats(lc) /\ lq \in Nat /\ q \in Nats(lq) /\ ln \in Nat /\ n \in Nats(ln) /\ b \in Nat
  /\ lp \in Nat /\ p \in Nats(lp) /\ lm \in Nat /\ m \in Nats(lm) /\ Ordered(c, q, n, b)
  /\ ln >= 2 /\ Longer(p, q, lq, n[1]) /\ Rest(m, n, 2) /\ lm = ln - 2
Called(lc, c, lq, q, ln, n, b, lp, p, le, e) ==
  /\ lc \in Nat /\ c \in Nats(lc) /\ lq \in Nat /\ q \in Nats(lq) /\ ln \in Nat /\ n \in Nats(ln) /\ b \in Nat
  /\ lp \in Nat /\ p \in Nats(lp) /\ le \in Nat /\ e \in Nats(le) /\ Ordered(c, q, n, b)
  /\ lq >= 1 /\ Rest(p, q, 1) /\ lp = lq - 1 /\ (Longer(e, c, lc, q[1]) \/ (e = c /\ q[1] = 0))
Arrived(lc, c, lq, q, ln, n, b, d, v, lm, m) ==
  /\ lc \in Nat /\ c \in Nats(lc) /\ lq \in Nat /\ q \in Nats(lq) /\ ln \in Nat /\ n \in Nats(ln) /\ b \in Nat
  /\ d \in Nat /\ v \in Nat /\ lm \in Nat /\ m \in Nats(lm) /\ Ordered(c, q, n, b)
  /\ (v = 0 /\ d = b) \/ (v = b + 1 /\ d = b + 1)
  /\ lm = ln + 2 /\ (\A i \in 1 .. ln : m[i] = n[i]) /\ m[ln + 1] = v /\ m[ln + 2] = 0

LEMMA RestOrdered ==
  ASSUME NEW lc \in Nat, NEW c \in Nats(lc), NEW lq \in Nat, NEW q \in Nats(lq), NEW ln \in Nat, NEW n \in Nats(ln), NEW b \in Nat, Ordered(c, q, n, b),
         NEW lm \in Nat, NEW m \in Nats(lm), NEW d \in Nat, Rest(m, n, d)
  PROVE  Ordered(c, q, m, b)
  <1> USE DEF Nats
  <1>1. \A i \in 1 .. lm : i + d \in 1 .. ln /\ m[i] = n[i + d] /\ m[i] \in Nat
    BY DEF Rest
  <1>2. Rising(m)
    <2> SUFFICES ASSUME NEW i \in 1 .. lm, NEW j \in 1 .. lm, i < j, m[i] > 0, m[j] > 0 PROVE m[i] < m[j]
      BY DEF Rising
    <2>1. i + d \in 1 .. ln /\ j + d \in 1 .. ln /\ i + d < j + d
      BY <1>1
    <2> QED BY <1>1, <2>1 DEF Ordered, Rising
  <1>3. Below(c, m) /\ Below(q, m)
    BY <1>1 DEF Ordered, Below
  <1>4. UpTo(m, b)
    BY <1>1 DEF Ordered, UpTo
  <1> QED BY <1>2, <1>3, <1>4 DEF Ordered

LEMMA NothingQueued ==
  ASSUME NEW lc \in Nat, NEW c \in Nats(lc), NEW lq \in Nat, NEW q \in Nats(lq), NEW ln \in Nat, NEW n \in Nats(ln), NEW b \in Nat, Ordered(c, q, n, b),
         NEW lp \in Nat, NEW p \in Nats(lp), Longer(p, q, lq, 0)
  PROVE  Ordered(c, p, n, b) /\ (Covered(c, q, n, b) => Covered(c, p, n, b))
  <1> USE DEF Nats
  <1>1. \A i \in 1 .. lp : p[i] = 0 \/ (i \in 1 .. lq /\ p[i] = q[i])
    BY DEF Longer
  <1>2. Rising(p)
    <2> SUFFICES ASSUME NEW i \in 1 .. lp, NEW j \in 1 .. lp, i < j, p[i] > 0, p[j] > 0 PROVE p[i] < p[j]
      BY DEF Rising
    <2>1. i \in 1 .. lq /\ j \in 1 .. lq /\ p[i] = q[i] /\ p[j] = q[j]
      BY <1>1
    <2> QED BY <2>1 DEF Ordered, Rising
  <1>3. UpTo(p, b)
    <2> SUFFICES ASSUME NEW i \in 1 .. lp PROVE p[i] <= b
      BY DEF UpTo
    <2> QED BY <1>1 DEF Ordered, UpTo
  <1>5. Below(c, p)
    <2> SUFFICES ASSUME NEW i \in 1 .. lc, NEW j \in 1 .. lp, c[i] > 0, p[j] > 0 PROVE c[i] < p[j]
      BY DEF Below
    <2>1. j \in 1 .. lq /\ p[j] = q[j]
      BY <1>1
    <2> QED BY <2>1 DEF Ordered, Below
  <1>6. Below(p, n)
    <2> SUFFICES ASSUME NEW i \in 1 .. lp, NEW j \in 1 .. ln, p[i] > 0, n[j] > 0 PROVE p[i] < n[j]
      BY DEF Below
    <2>1. i \in 1 .. lq /\ p[i] = q[i]
      BY <1>1
    <2> QED BY <2>1 DEF Ordered, Below
  <1>4. \A v : Has(q, v) => Has(p, v)
    BY DEF Has, Longer
  <1> QED BY <1>2, <1>3, <1>4, <1>5, <1>6 DEF Ordered, Covered

LEMMA FirstQueued ==
  ASSUME NEW lc, NEW c, NEW lq, NEW q, NEW ln, NEW n, NEW b, NEW lp, NEW p, NEW lm, NEW m,
         Queued(lc, c, lq, q, ln, n, b, lp, p, lm, m)
  PROVE  /\ Ordered(c, p, m, b)
         /\ n[2] = 0 /\ Covered(c, q, n, b) => Covered(c, p, m, b)
  <1> USE DEF Nats
  <1>h. /\ lc \in Nat /\ c \in Nats(lc) /\ lq \in Nat /\ q \in Nats(lq) /\ ln \in Nat /\ n \in Nats(ln) /\ b \in Nat
        /\ lp \in Nat /\ p \in Nats(lp) /\ lm \in Nat /\ m \in Nats(lm) /\ Ordered(c, q, n, b)
        /\ ln >= 2 /\ Longer(p, q, lq, n[1]) /\ Rest(m, n, 2) /\ lm = ln - 2
    BY DEF Queued
  <1> USE <1>h
  <1>0. Ordered(c, q, m, b)
    BY RestOrdered
  <1>1. \A i \in 1 .. lm : i + 2 \in 1 .. ln /\ m[i] = n[i + 2] /\ m[i] \in Nat
    BY DEF Rest
  <1>2. 1 \in 1 .. ln /\ n[1] \in Nat
    OBVIOUS
  <1>3. ASSUME NEW i \in 1 .. lp PROVE (i = lq + 1 /\ p[i] = n[1]) \/ (i \in 1 .. lq /\ p[i] = q[i])
    <2>1. i \in 1 .. lq + 1
      BY DEF Longer
    <2>2. i = lq + 1 \/ i \in 1 .. lq
      BY <2>1
    <2> QED BY <2>2 DEF Longer
  <1>4. Rising(p)
    <2> SUFFICES ASSUME NEW i \in 1 .. lp, NEW j \in 1 .. lp, i < j, p[i] > 0, p[j] > 0 PROVE p[i] < p[j]
      BY DEF Rising
    <2>1. i \in 1 .. lq /\ p[i] = q[i]
      BY <1>3 DEF Longer
    <2> QED BY <1>2, <1>3, <2>1 DEF Ordered, Rising, Below
  <1>5. Below(c, p) /\ UpTo(p, b)
    BY <1>2, <1>3 DEF Ordered, Below, UpTo
  <1>6. Below(p, m)
    <2> SUFFICES ASSUME NEW i \in 1 .. lp, NEW j \in 1 .. lm, p[i] > 0, m[j] > 0 PROVE p[i] < m[j]
      BY DEF Below
    <2>1. j + 2 \in 1 .. ln /\ m[j] = n[j + 2] /\ 1 < j + 2
      BY <1>1
    <2> QED BY <1>2, <1>3, <2>1 DEF Ordered, Rising, Below
  <1>7. ASSUME n[2] = 0, NEW v \in 1 .. b, Has(n, v) PROVE Has(p, v) \/ Has(m, v)
    <2>1. PICK i \in 1 .. ln : n[i] = v
      BY <1>7 DEF Has
    <2>2. CASE i = 1
      BY <2>1, <2>2 DEF Has, Longer
    <2>3. CASE i > 2
      <3>1. i - 2 \in 1 .. lm /\ (i - 2) + 2 = i
        BY <2>3
      <3> QED BY <1>1, <2>1, <3>1 DEF Has
    <2> QED BY <1>7, <2>1, <2>2, <2>3
  <1>8. \A v : Has(q, v) => Has(p, v)
    BY DEF Has, Longer
  <1> QED BY <1>0, <1>4, <1>5, <1>6, <1>7, <1>8 DEF Ordered, Covered

(* Two units without a number are taken. *)
LEMMA NothingTaken ==
  ASSUME NEW c, NEW q, NEW ln \in Nat, NEW n \in Nats(ln), NEW b \in Nat, Covered(c, q, n, b), ln >= 2, n[1] = 0, n[2] = 0,
         NEW lm \in Nat, NEW m \in Nats(lm), Rest(m, n, 2), lm = ln - 2
  PROVE  Covered(c, q, m, b)
  <1> USE DEF Nats
  <1>1. ASSUME NEW v \in 1 .. b, Has(n, v) PROVE Has(m, v)
    <2>1. PICK i \in 1 .. ln : n[i] = v
      BY <1>1 DEF Has
    <2>2. i - 2 \in 1 .. lm /\ (i - 2) + 2 = i
      BY <2>1
    <2> QED BY <2>1, <2>2 DEF Has, Rest
  <1> QED BY <1>1 DEF Covered

(* The first entry of the queue is called, or has no number. *)
LEMMA FirstCalled ==
  ASSUME NEW lc, NEW c, NEW lq, NEW q, NEW ln, NEW n, NEW b, NEW lp, NEW p, NEW le, NEW e,
         Called(lc, c, lq, q, ln, n, b, lp, p, le, e)
  PROVE  Ordered(e, p, n, b) /\ (Covered(c, q, n, b) => Covered(e, p, n, b))
  <1> USE DEF Nats
  <1>h. /\ lc \in Nat /\ c \in Nats(lc) /\ lq \in Nat /\ q \in Nats(lq) /\ ln \in Nat /\ n \in Nats(ln) /\ b \in Nat
        /\ lp \in Nat /\ p \in Nats(lp) /\ le \in Nat /\ e \in Nats(le) /\ Ordered(c, q, n, b)
        /\ lq >= 1 /\ Rest(p, q, 1) /\ lp = lq - 1 /\ (Longer(e, c, lc, q[1]) \/ (e = c /\ q[1] = 0))
    BY DEF Called
  <1> USE <1>h
  <1>1. \A i \in 1 .. lp : i + 1 \in 1 .. lq /\ p[i] = q[i + 1] /\ p[i] \in Nat
    BY DEF Rest
  <1>2. 1 \in 1 .. lq /\ q[1] \in Nat
    OBVIOUS
  <1>3. \A i \in 1 .. le : (i = lc + 1 /\ e[i] = q[1]) \/ (i \in 1 .. lc /\ e[i] = c[i])
    BY DEF Longer
  <1>4. Rising(p) /\ UpTo(p, b)
    <2>1. ASSUME NEW i \in 1 .. lp, NEW j \in 1 .. lp, i < j, p[i] > 0, p[j] > 0 PROVE p[i] < p[j]
      <3>1. i + 1 \in 1 .. lq /\ j + 1 \in 1 .. lq /\ i + 1 < j + 1
        BY <1>1, <2>1
      <3> QED BY <1>1, <2>1, <3>1 DEF Ordered, Rising
    <2> QED BY <1>1, <2>1 DEF Ordered, Rising, UpTo
  <1>5. Rising(e)
    <2> SUFFICES ASSUME NEW i \in 1 .. le, NEW j \in 1 .. le, i < j, e[i] > 0, e[j] > 0 PROVE e[i] < e[j]
      BY DEF Rising
    <2>1. i \in 1 .. lc /\ e[i] = c[i]
      BY <1>3 DEF Longer
    <2> QED BY <1>2, <1>3, <2>1 DEF Ordered, Rising, Below
  <1>6. Below(p, n) /\ Below(e, n) /\ UpTo(e, b)
    BY <1>1, <1>2, <1>3 DEF Ordered, Below, UpTo
  <1>7. Below(e, p)
    <2> SUFFICES ASSUME NEW i \in 1 .. le, NEW j \in 1 .. lp, e[i] > 0, p[j] > 0 PROVE e[i] < p[j]
      BY DEF Below
    <2>1. j + 1 \in 1 .. lq /\ p[j] = q[j + 1] /\ 1 < j + 1
      BY <1>1
    <2> QED BY <1>2, <1>3, <2>1 DEF Ordered, Rising, Below
  <1>8. \A v : Has(c, v) => Has(e, v)
    BY DEF Has, Longer
  <1>9. ASSUME NEW v \in 1 .. b, Has(q, v) PROVE Has(e, v) \/ Has(p, v)
    <2>1. PICK i \in 1 .. lq : q[i] = v
      BY <1>9 DEF Has
    <2>2. CASE i = 1
      <3>1. Longer(e, c, lc, q[1])
        BY <2>1, <2>2
      <3> QED BY <2>1, <2>2, <3>1 DEF Has, Longer
    <2>3. CASE i > 1
      <3>1. i - 1 \in 1 .. lp /\ (i - 1) + 1 = i
        BY <2>3
      <3> QED BY <1>1, <2>1, <3>1 DEF Has
    <2> QED BY <2>2, <2>3
  <1> QED BY <1>4, <1>5, <1>6, <1>7, <1>8, <1>9 DEF Ordered, Covered

(* A message comes in, an answer or the next push. *)
LEMMA OneArrives ==
  ASSUME NEW lc, NEW c, NEW lq, NEW q, NEW ln, NEW n, NEW b, NEW d, NEW v, NEW lm, NEW m,
         Arrived(lc, c, lq, q, ln, n, b, d, v, lm, m)
  PROVE  Ordered(c, q, m, d) /\ (Covered(c, q, n, b) => Covered(c, q, m, d))
  <1> USE DEF Nats
  <1>h. /\ lc \in Nat /\ c \in Nats(lc) /\ lq \in Nat /\ q \in Nats(lq) /\ ln \in Nat /\ n \in Nats(ln) /\ b \in Nat
        /\ d \in Nat /\ v \in Nat /\ lm \in Nat /\ m \in Nats(lm) /\ Ordered(c, q, n, b)
        /\ (v = 0 /\ d = b) \/ (v = b + 1 /\ d = b + 1)
        /\ lm = ln + 2 /\ (\A i \in 1 .. ln : m[i] = n[i]) /\ m[ln + 1] = v /\ m[ln + 2] = 0
    BY DEF Arrived
  <1> USE <1>h
  <1>1. ASSUME NEW i \in 1 .. lm PROVE (i \in 1 .. ln /\ m[i] = n[i]) \/ (i = ln + 1 /\ m[i] = v) \/ (i = ln + 2 /\ m[i] = 0)
    <2>1. i \in 1 .. ln \/ i = ln + 1 \/ i = ln + 2
      OBVIOUS
    <2> QED BY <2>1
  <1>6. /\ \A i \in 1 .. lc : c[i] <= b /\ c[i] <= d
        /\ \A i \in 1 .. lq : q[i] <= b /\ q[i] <= d
        /\ \A i \in 1 .. ln : n[i] <= b /\ n[i] <= d
    <2>1. (\A i \in 1 .. lc : c[i] <= b) /\ (\A i \in 1 .. lq : q[i] <= b) /\ (\A i \in 1 .. ln : n[i] <= b)
      BY DEF Ordered, UpTo
    <2>2. b <= d
      OBVIOUS
    <2>3. \A x \in Nat : x <= b => x <= d
      BY <2>2
    <2> QED BY <2>1, <2>3
  <1>2. UpTo(c, d) /\ UpTo(q, d) /\ UpTo(m, d)
    <2>1. ASSUME NEW i \in 1 .. lm PROVE m[i] <= d
      <3>1. v <= d /\ 0 <= d
        OBVIOUS
      <3> QED BY <1>1, <1>6, <3>1
    <2> QED BY <1>6, <2>1 DEF UpTo
  <1>3. Below(c, m) /\ Below(q, m)
    <2>1. ASSUME NEW i \in 1 .. lc, NEW j \in 1 .. lm, c[i] > 0, m[j] > 0 PROVE c[i] < m[j]
      <3>1. CASE j \in 1 .. ln /\ m[j] = n[j]
        BY <2>1, <3>1 DEF Ordered, Below
      <3>2. CASE m[j] = b + 1
        BY <1>6, <3>2
      <3> QED BY <1>1, <2>1, <3>1, <3>2
    <2>2. ASSUME NEW i \in 1 .. lq, NEW j \in 1 .. lm, q[i] > 0, m[j] > 0 PROVE q[i] < m[j]
      <3>1. CASE j \in 1 .. ln /\ m[j] = n[j]
        BY <2>2, <3>1 DEF Ordered, Below
      <3>2. CASE m[j] = b + 1
        BY <1>6, <3>2
      <3> QED BY <1>1, <2>2, <3>1, <3>2
    <2> QED BY <2>1, <2>2 DEF Below
  <1>4. Rising(m)
    <2> SUFFICES ASSUME NEW i \in 1 .. lm, NEW j \in 1 .. lm, i < j, m[i] > 0, m[j] > 0 PROVE m[i] < m[j]
      BY DEF Rising
    <2>1. i \in 1 .. ln /\ m[i] = n[i]
      <3>1. i = ln + 1 => j = ln + 2
        OBVIOUS
      <3>2. i # ln + 2
        OBVIOUS
      <3> QED BY <1>1, <3>1, <3>2
    <2>2. CASE j \in 1 .. ln /\ m[j] = n[j]
      BY <2>1, <2>2 DEF Ordered, Rising
    <2>3. CASE m[j] = b + 1
      BY <1>6, <2>1, <2>3
    <2> QED BY <1>1, <2>2, <2>3
  <1>5. ASSUME Covered(c, q, n, b), NEW w \in 1 .. d PROVE Has(c, w) \/ Has(q, w) \/ Has(m, w)
    <2>1. CASE w = v
      <3>1. ln + 1 \in 1 .. lm
        OBVIOUS
      <3> QED BY <2>1, <3>1 DEF Has
    <2>2. CASE w # v
      <3>1. w \in 1 .. b
        BY <2>2
      <3>2. Has(n, w) => Has(m, w)
        BY DEF Has
      <3> QED BY <1>5, <3>1, <3>2 DEF Covered
    <2> QED BY <2>1, <2>2
  <1> QED BY <1>2, <1>3, <1>4, <1>5 DEF Ordered, Covered

(* Numbers of units and of entries *)
LEMMA UnitNumbers ==
  ASSUME NEW s \in Seq(Unit)
  PROVE  /\ UnitNos(s) \in Nats(Len(s)) /\ Len(s) \in Nat /\ DOMAIN UnitNos(s) = 1 .. Len(s)
         /\ \A i \in 1 .. Len(s) : UnitNos(s)[i] = UnitNo(s[i])
  <1>1. ASSUME NEW i \in 1 .. Len(s) PROVE UnitNo(s[i]) \in Nat
    <2>1. s[i] \in Unit
      OBVIOUS
    <2>2. s[i].m \in Msg
      BY <2>1 DEF Unit
    <2>3. s[i].m.n \in Nat
      BY <2>2 DEF Msg
    <2> QED BY <2>3 DEF UnitNo
  <1> QED BY <1>1 DEF UnitNos, Nats

LEMMA EntryNumbers ==
  ASSUME NEW q \in Seq(Event)
  PROVE  /\ EntryNos(q) \in Nats(Len(q)) /\ Len(q) \in Nat /\ DOMAIN EntryNos(q) = 1 .. Len(q)
         /\ \A i \in 1 .. Len(q) : EntryNos(q)[i] = EntryNo(q[i])
  <1>1. ASSUME NEW i \in 1 .. Len(q) PROVE EntryNo(q[i]) \in Nat
    <2>1. q[i] \in Event
      OBVIOUS
    <2> QED BY <2>1 DEF EntryNo, Event
  <1> QED BY <1>1 DEF EntryNos, Nats

LEMMA SliceNumbers ==
  ASSUME NEW s \in Seq(Unit), NEW u \in Seq(Unit), NEW d \in Nat, Slice(u, s, d)
  PROVE  Rest(UnitNos(u), UnitNos(s), d)
  <1>1. DOMAIN UnitNos(s) = 1 .. Len(s) /\ DOMAIN UnitNos(u) = 1 .. Len(u) /\ Len(s) \in Nat /\ Len(u) \in Nat
        /\ (\A i \in 1 .. Len(s) : UnitNos(s)[i] = UnitNo(s[i])) /\ (\A i \in 1 .. Len(u) : UnitNos(u)[i] = UnitNo(u[i]))
    BY UnitNumbers
  <1>2. ASSUME NEW i \in 1 .. Len(u) PROVE i + d \in 1 .. Len(s) /\ u[i] = s[i + d]
    <2>1. i + d \in 1 .. Len(s)
      BY <1>1 DEF Slice
    <2> QED BY <2>1 DEF Slice
  <1> QED BY <1>1, <1>2 DEF Rest

LEMMA AppendedNumber ==
  ASSUME NEW q \in Seq(Event), NEW e \in Event, NEW p, p = Append(q, e)
  PROVE  p \in Seq(Event) /\ Longer(EntryNos(p), EntryNos(q), Len(q), EntryNo(e))
  <1>1. p \in Seq(Event) /\ Len(p) = Len(q) + 1 /\ p[Len(q) + 1] = e /\ \A i \in 1 .. Len(q) : p[i] = q[i]
    BY AppendProperties
  <1>2. Len(q) \in Nat /\ DOMAIN EntryNos(p) = 1 .. Len(q) + 1
        /\ (\A i \in 1 .. Len(q) : EntryNos(q)[i] = EntryNo(q[i])) /\ (\A i \in 1 .. Len(q) + 1 : EntryNos(p)[i] = EntryNo(p[i]))
    BY <1>1, EntryNumbers
  <1>3. Len(q) + 1 \in 1 .. Len(q) + 1 /\ \A i \in 1 .. Len(q) : i \in 1 .. Len(q) + 1
    BY <1>2
  <1> QED BY <1>1, <1>2, <1>3 DEF Longer

LEMMA InitInOrder == Init => InOrder
  <1> SUFFICES ASSUME Init PROVE InOrder
    OBVIOUS
  <1>1. Stream = << >> /\ cq = << >> /\ called = << >> /\ npush = 0
    <2>1. << >> \in Seq(Unit) /\ chunk = << >> /\ buf = << >> /\ in["m"] = << >>
      BY DEF Init
    <2> QED BY <2>1 DEF Stream, Init
  <1>2. DOMAIN called = {} /\ DOMAIN EntryNos(cq) = {} /\ DOMAIN UnitNos(Stream) = {}
    <2>1. << >> \in Seq(Unit) /\ << >> \in Seq(Event) /\ << >> \in Seq(Nat) /\ Len(<< >>) = 0
      OBVIOUS
    <2>2. DOMAIN EntryNos(<< >>) = {} /\ DOMAIN UnitNos(<< >>) = {}
      BY <2>1 DEF EntryNos, UnitNos
    <2> QED BY <1>1, <2>1, <2>2
  <1>3. Ordered(called, EntryNos(cq), UnitNos(Stream), npush)
    BY <1>2 DEF Ordered, Rising, Below, UpTo
  <1>4. Covered(called, EntryNos(cq), UnitNos(Stream), 0)
    BY DEF Covered
  <1> QED BY <1>1, <1>3, <1>4 DEF InOrder

(* The steps that change the queue or what has been called, and those that *)
(* push.                                                                   *)
LEMMA QueueMoves ==
  ASSUME ClientTyped, [Next]_vars
  PROVE  /\ \/ cq' = cq /\ called' = called
            \/ msparse_msg
            \/ \E t \in {"main", "cbk"} : Reconnect(t)
            \/ ElLost
            \/ CbGet
         /\ npush' = npush \/ ServerPush
  <1>1. ASSUME NEW t \in Callers, CallerStep(t)
        PROVE  npush' = npush /\ ((cq' = cq /\ called' = called) \/ (Reconnect(t) /\ t \notin Reentrant))
    <2>1. CASE Reconnect(t)
      BY <2>1 DEF Reconnect, envVars
    <2> QED BY <1>1, <2>1 DEF CallerStep, ReqidStore, PackHeader, tcp_srv_send, ClearData, StartWait, EndWait, recv_msg,
               srecv, RecvFails, tcp_get_rep, cbVars, envVars
  <1>2. ASSUME NEW t \in Callers, moc_init_r(t) \/ moc_destroy_r(t) \/ ReqidLoad(t)
        PROVE  npush' = npush /\ cq' = cq /\ called' = called
    BY <1>2 DEF moc_init_r, moc_destroy_r, ReqidLoad, cbVars, envVars
  <1>3. ASSUME NEW k \in Conns, Serve(k) \/ ServerClose(k) PROVE npush' = npush /\ cq' = cq /\ called' = called
    BY <1>3 DEF Serve, ServerClose, cbVars, envVars
  <1>4. CASE ElStep
    BY <1>4 DEF ElStep, ElRecv, mssrv_close, GiveUp, KeepRest, msparse_msg, Unpack, Signal, ElStop, cbVars, envVars
  <1>5. CASE moc_init \/ eloop_stop \/ mcbk_stop \/ moc_destroy \/ CbJoined \/ CbStop \/ UNCHANGED vars
    BY <1>5 DEF moc_init, eloop_stop, mcbk_stop, moc_destroy, CbJoined, CbStop, vars, cbVars, envVars
  <1>6. CASE ElLost \/ CbGet \/ ServerPush
    BY <1>6 DEF ElLost, CbGet, ServerPush, cbVars, envVars
  <1>7. CASE \E t \in Callers : CallerStep(t)
    BY <1>1, <1>7
  <1>8. CASE (\E t \in Reentrant : moc_init_r(t) \/ moc_destroy_r(t)) \/ (\E t \in Callers : ReqidLoad(t))
    BY <1>2, <1>8
  <1>9. CASE \E k \in Conns : Serve(k) \/ ServerClose(k)
    BY <1>3, <1>9
  <1> QED BY <1>4, <1>5, <1>6, <1>7, <1>8, <1>9 DEF Next, StopStep, CbStep, Finished

LEMMA NextInOrder ==
  ASSUME ClientTyped, ClientTyped', Phases, NoClose, NoClose', InStep', InOrder, [Next]_vars
  PROVE  InOrder'
  <1>0. /\ npush \in Nat /\ nclose \in Nat /\ nclose' \in Nat /\ cq \in Seq(Event) /\ cq' \in Seq(Event)
        /\ called \in Seq(Nat) /\ called' \in Seq(Nat)
    BY DEF ClientTyped, LoopTyped
  <1>1. PICK s \in Seq(Unit), u \in Seq(Unit) : s = Stream /\ u = Stream'
    <2>1. Stream' \in Seq(Unit)
      <3>1. chunk' \in Seq(Unit) /\ buf' \in Seq(Unit) /\ in'["m"] \in Seq(Unit)
        BY DEF ClientTyped, LoopTyped, ConnTyped
      <3>2. chunk' \o buf' \in Seq(Unit)
        BY <3>1, ConcatProperties
      <3> QED BY <3>1, <3>2, ConcatProperties DEF Stream
    <2> QED BY <2>1, StreamTyped
  <1>2a. PICK lc \in Nat : lc = Len(called) /\ called \in Nats(lc)
    BY <1>0, LenProperties DEF Nats
  <1>2. PICK c \in Nats(lc) : c = called /\ lc = Len(called)
    BY <1>2a
  <1>3a. PICK lq \in Nat : lq = Len(cq) /\ EntryNos(cq) \in Nats(lq)
    BY <1>0, EntryNumbers
  <1>3. PICK q \in Nats(lq) : q = EntryNos(cq) /\ lq = Len(cq)
    BY <1>3a
  <1>4a. PICK ln \in Nat : ln = Len(s) /\ UnitNos(s) \in Nats(ln)
    BY UnitNumbers
  <1>4. PICK n \in Nats(ln) : n = UnitNos(s) /\ ln = Len(s)
    BY <1>4a
  <1>5a. PICK lp \in Nat : lp = Len(cq') /\ EntryNos(cq') \in Nats(lp)
    BY <1>0, EntryNumbers
  <1>5. PICK p \in Nats(lp) : p = EntryNos(cq') /\ lp = Len(cq')
    BY <1>5a
  <1>6a. PICK lm \in Nat : lm = Len(u) /\ UnitNos(u) \in Nats(lm)
    BY UnitNumbers
  <1>6. PICK m \in Nats(lm) : m = UnitNos(u) /\ lm = Len(u)
    BY <1>6a
  <1>7. Ordered(c, q, n, npush) /\ (nclose = 0 => Covered(c, q, n, npush))
    BY <1>1, <1>2, <1>3, <1>4 DEF InOrder
  <1>8. (\A i \in 1 .. ln : n[i] = UnitNo(s[i])) /\ (\A i \in 1 .. lm : m[i] = UnitNo(u[i]))
    BY <1>4, <1>6, UnitNumbers
  <1>9. CASE msparse_msg
    <2>1. called' = called /\ npush' = npush /\ nclose' = nclose
      BY <1>9 DEF msparse_msg, envVars
    <2>2. ln >= 2 /\ s[1] = chunk[1] /\ s[2] = chunk[2] /\ chunk[1] \in Unit
      <3>1. ln >= 2 /\ s[1] = chunk[1] /\ s[2] = chunk[2]
        BY <1>1, <1>4, <1>9, ParseStep
      <3> QED BY <1>4, <3>1
    <2>3. CASE Whole(chunk)
      <3>1. Rest(m, n, 2) /\ lm = ln - 2
        <4>1. Slice(u, s, 2) /\ Len(u) = Len(s) - 2
          BY <1>1, <1>9, <2>3, ParseStep
        <4> QED BY <1>4, <1>6, <4>1, SliceNumbers
      <3>2. n[2] = 0 /\ n[1] = UnitNo(chunk[1]) /\ chunk[1].part = 1
        <4>1. chunk[1].part = 1 /\ chunk[2] = [chunk[1] EXCEPT !.part = 2]
          BY <2>3 DEF Whole
        <4>2. chunk[2].part = 2
          BY <2>2, <4>1 DEF Unit
        <4>3. UnitNo(s[2]) = 0
          BY <2>2, <4>2 DEF UnitNo
        <4> QED BY <1>8, <2>2, <4>1, <4>3
      <3>3. CASE chunk[1].m.kind = "push"
        <4>1. cq' = Append(cq, Entry("push", chunk[1].m.n))
          BY <1>9, <2>3, <3>3 DEF msparse_msg, msqueue_put
        <4>2. chunk[1].m \in Msg
          BY <2>2 DEF Unit
        <4>3. PICK e \in Event : e = Entry("push", chunk[1].m.n) /\ EntryNo(e) = n[1]
          <5>1. chunk[1].m.n \in Nat
            BY <4>2 DEF Msg
          <5>2. Entry("push", chunk[1].m.n) \in Event /\ EntryNo(Entry("push", chunk[1].m.n)) = chunk[1].m.n
            BY <5>1 DEF Entry, Event, EntryNo
          <5> QED BY <3>2, <3>3, <5>2 DEF UnitNo
        <4>4. Longer(p, q, lq, n[1])
          BY <1>0, <1>3, <1>5, <4>1, <4>3, AppendedNumber
        <4>5. Ordered(c, p, m, npush) /\ (n[2] = 0 /\ Covered(c, q, n, npush) => Covered(c, p, m, npush))
          <5>1. Queued(lc, c, lq, q, ln, n, npush, lp, p, lm, m)
            BY <1>0, <1>7, <2>2, <3>1, <4>4 DEF Queued
          <5> QED BY <5>1, FirstQueued
        <4> QED BY <1>1, <1>2, <1>5, <1>6, <1>7, <2>1, <3>2, <4>5 DEF InOrder
      <3>4. CASE chunk[1].m.kind # "push"
        <4>1. cq' = cq
          BY <1>9, <2>3, <3>4 DEF msparse_msg
        <4>2. n[1] = 0
          BY <3>2, <3>4 DEF UnitNo
        <4>3. Ordered(c, q, m, npush)
          BY <1>0, <1>7, <3>1, RestOrdered
        <4>4. Covered(c, q, n, npush) => Covered(c, q, m, npush)
          BY <1>0, <2>2, <3>1, <3>2, <4>2, NothingTaken
        <4> QED BY <1>1, <1>2, <1>3, <1>6, <1>7, <2>1, <4>1, <4>3, <4>4 DEF InOrder
      <3> QED BY <3>3, <3>4
    <2>4. CASE ~Whole(chunk)
      <3>1. cq' = cq /\ lostStep' = [lostStep EXCEPT !["m"] = TRUE]
        BY <1>9, <2>4 DEF msparse_msg
      <3>2. nclose' # 0
        <4>1. lostStep'["m"]
          BY <3>1 DEF ClientTyped, ConnTyped
        <4> QED BY <1>0, <4>1 DEF InStep, NoClose
      <3>3. PICK d \in Nat : Rest(m, n, d)
        <4>1. Len(chunk) \in Nat
          BY DEF ClientTyped, LoopTyped
        <4> QED BY <1>1, <1>4, <1>6, <1>9, <2>4, <4>1, ParseStep, SliceNumbers
      <3>4. Ordered(c, q, m, npush)
        BY <1>0, <1>7, <3>3, RestOrdered
      <3> QED BY <1>1, <1>2, <1>3, <1>6, <2>1, <3>1, <3>2, <3>4 DEF InOrder
    <2> QED BY <2>3, <2>4
  <1>10. CASE \E t \in {"main", "cbk"} : Reconnect(t)
    <2>1. PICK t \in {"main", "cbk"} : Reconnect(t)
      BY <1>10
    <2>2. called' = called /\ npush' = npush /\ nclose' = nclose /\ t \notin Reentrant
      BY <2>1, ThreadsAssumption DEF Reconnect, envVars
    <2>3. nclose # 0
      BY <1>0, <2>1, <2>2 DEF Reconnect, NoClose, Phases, Working
    <2>4. PICK e \in Event : cq' = Append(cq, e) /\ EntryNo(e) = 0
      <3>1. Entry("_reconnect", 1) \in Event /\ Entry("_reconnect", 0) \in Event
            /\ EntryNo(Entry("_reconnect", 1)) = 0 /\ EntryNo(Entry("_reconnect", 0)) = 0
        BY DEF Entry, Event, EntryNo
      <3> QED BY <2>1, <2>2, <3>1 DEF Reconnect, msqueue_put
    <2>5. Longer(p, q, lq, 0)
      BY <1>0, <1>3, <1>5, <2>4, AppendedNumber
    <2>6. Rest(m, n, 0)
      BY <1>1, <1>4, <1>6, <2>1, RejoinStep, SliceNumbers
    <2>7. Ordered(c, q, m, npush)
      BY <1>0, <1>7, <2>6, RestOrdered
    <2>8. Ordered(c, p, m, npush)
      BY <1>0, <2>5, <2>7, NothingQueued
    <2> QED BY <1>1, <1>2, <1>5, <1>6, <2>2, <2>3, <2>8 DEF InOrder
  <1>11. ASSUME NEW x \in Msg, Grown(Stream', Stream, x), cq' = cq, called' = called, nclose' = nclose,
                NEW d \in Nat, d = npush', (x.kind = "reply" /\ d = npush) \/ (x = Push(npush + 1) /\ d = npush + 1)
         PROVE  InOrder'
    <2>1. lm = ln + 2 /\ u[ln + 1] = [m |-> x, part |-> 1] /\ u[ln + 2] = [m |-> x, part |-> 2] /\ \A i \in 1 .. ln : u[i] = s[i]
      BY <1>1, <1>4, <1>6, <1>11 DEF Grown
    <2>2. PICK v \in Nat : v = UnitNo(u[ln + 1]) /\ ((v = 0 /\ d = npush) \/ (v = npush + 1 /\ d = npush + 1))
      <3>1. CASE x.kind = "reply" /\ d = npush
        <4>1. UnitNo(u[ln + 1]) = 0
          BY <2>1, <3>1 DEF UnitNo
        <4> QED BY <3>1, <4>1
      <3>2. CASE x = Push(npush + 1) /\ d = npush + 1
        <4>1. UnitNo(u[ln + 1]) = npush + 1
          BY <2>1, <3>2 DEF UnitNo, Push
        <4> QED BY <1>0, <3>2, <4>1
      <3> QED BY <1>11, <3>1, <3>2
    <2>3. UnitNo(u[ln + 2]) = 0
      BY <2>1 DEF UnitNo
    <2>4. m[ln + 1] = v /\ m[ln + 2] = 0
      <3>1. ln + 1 \in 1 .. lm /\ ln + 2 \in 1 .. lm
        BY <2>1
      <3> QED BY <1>8, <2>2, <2>3, <3>1
    <2>5. \A i \in 1 .. ln : m[i] = n[i]
      <3>1. \A i \in 1 .. ln : i \in 1 .. lm
        BY <2>1
      <3> QED BY <1>8, <2>1, <3>1
    <2>6. Ordered(c, q, m, d) /\ (Covered(c, q, n, npush) => Covered(c, q, m, d))
      <3>1. Arrived(lc, c, lq, q, ln, n, npush, d, v, lm, m)
        BY <1>0, <1>7, <2>1, <2>2, <2>4, <2>5 DEF Arrived
      <3> QED BY <3>1, OneArrives
    <2> QED BY <1>1, <1>2, <1>3, <1>6, <1>7, <1>11, <2>6 DEF InOrder
  <1>12. CASE ServerClose("m")
    <2>1. cq' = cq /\ called' = called /\ npush' = npush /\ nclose' # 0
      BY <1>0, <1>12 DEF ServerClose, cbVars
    <2>2. Rest(m, n, 0)
      BY <1>1, <1>4, <1>6, <1>12, CloseStep, SliceNumbers
    <2>3. Ordered(c, q, m, npush)
      BY <1>0, <1>7, <2>2, RestOrdered
    <2> QED BY <1>1, <1>2, <1>3, <1>6, <2>1, <2>3 DEF InOrder
  <1>13. CASE ServerPush /\ Grown(Stream', Stream, Push(npush + 1))
    <2>1. Push(npush + 1) \in Msg
      BY <1>0 DEF Push, Msg
    <2>2. cq' = cq /\ called' = called /\ npush' = npush + 1 /\ nclose' = nclose
      BY <1>13 DEF ServerPush, cbVars
    <2> QED BY <1>0, <1>11, <1>13, <2>1, <2>2
  <1>14. CASE \E x \in Msg : Grown(Stream', Stream, x) /\ Serve("m") /\ x.kind = "reply"
    <2>1. PICK x \in Msg : Grown(Stream', Stream, x) /\ Serve("m") /\ x.kind = "reply"
      BY <1>14
    <2>2. cq' = cq /\ called' = called /\ npush' = npush /\ nclose' = nclose
      BY <2>1 DEF Serve, cbVars, envVars
    <2> QED BY <1>0, <1>11, <2>1, <2>2
  <1>15. CASE Quiet /\ npush' = npush
    <2>1. u = s /\ (nclose' = 0 => nclose = 0)
      BY <1>0, <1>1, <1>15 DEF Quiet
    <2>2. CASE cq' = cq /\ called' = called
      BY <1>1, <1>2, <1>3, <1>4, <1>7, <1>15, <2>1, <2>2 DEF InOrder
    <2>3. CASE ElLost
      <3>1. cq' = Append(cq, Entry("_connectlost", 0)) /\ called' = called
        BY <2>3 DEF ElLost, msqueue_put
      <3>2. PICK e \in Event : e = Entry("_connectlost", 0) /\ EntryNo(e) = 0
        <4>1. Entry("_connectlost", 0) \in Event /\ EntryNo(Entry("_connectlost", 0)) = 0
          BY DEF Entry, Event, EntryNo
        <4> QED BY <4>1
      <3>3. Longer(p, q, lq, 0)
        BY <1>0, <1>3, <1>5, <3>1, <3>2, AppendedNumber
      <3>4. Ordered(c, p, n, npush) /\ (Covered(c, q, n, npush) => Covered(c, p, n, npush))
        BY <1>0, <1>7, <3>3, NothingQueued
      <3> QED BY <1>1, <1>2, <1>4, <1>5, <1>7, <1>15, <2>1, <3>1, <3>4 DEF InOrder
    <2>4. CASE CbGet
      <3>1. cq # << >> /\ cq' = Tail(cq) /\ called' = IF cq[1].kind = "push" THEN Append(called, cq[1].n) ELSE called
        BY <2>4 DEF CbGet
      <3>2. lq >= 1 /\ lp = lq - 1 /\ (\A i \in 1 .. lp : cq'[i] = cq[i + 1]) /\ cq[1] \in Event
        BY <1>0, <1>3, <1>5, <3>1
      <3>3. (\A i \in 1 .. lq : q[i] = EntryNo(cq[i])) /\ (\A i \in 1 .. lp : p[i] = EntryNo(cq'[i]))
        BY <1>0, <1>3, <1>5, EntryNumbers
      <3>4. Rest(p, q, 1)
        <4>1. ASSUME NEW i \in 1 .. lp PROVE i + 1 \in 1 .. lq /\ p[i] = q[i + 1]
          <5>1. i + 1 \in 1 .. lq
            BY <3>2
          <5> QED BY <3>2, <3>3, <5>1
        <4>2. DOMAIN p = 1 .. lp /\ DOMAIN q = 1 .. lq
          BY DEF Nats
        <4> QED BY <4>1, <4>2 DEF Rest
      <3>5. PICK le \in Nat, e \in {called'} : e \in Nats(le) /\ e = called' /\ (Longer(e, c, lc, q[1]) \/ (e = c /\ q[1] = 0))
        <4>1. q[1] = EntryNo(cq[1])
          BY <3>2, <3>3
        <4>2. CASE cq[1].kind = "push"
          <5>1. PICK w \in Nat : w = cq[1].n /\ w = q[1]
            BY <3>2, <4>1, <4>2 DEF EntryNo, Event
          <5>2. called' = Append(called, w)
            BY <3>1, <4>2, <5>1
          <5>3. called' \in Nats(lc + 1) /\ called'[lc + 1] = w /\ (\A i \in 1 .. lc : called'[i] = called[i])
            <6>1. called' \in Seq(Nat) /\ Len(called') = lc + 1 /\ called'[lc + 1] = w /\ \A i \in 1 .. lc : called'[i] = called[i]
              BY <1>0, <1>2, <5>2, AppendProperties
            <6> QED BY <6>1, LenProperties DEF Nats
          <5>4. Longer(called', c, lc, q[1])
            BY <1>2, <5>1, <5>3 DEF Longer, Nats
          <5> QED BY <5>3, <5>4
        <4>3. CASE cq[1].kind # "push"
          BY <1>2, <3>1, <4>1, <4>3 DEF EntryNo
        <4> QED BY <4>2, <4>3
      <3>6. Ordered(e, p, n, npush) /\ (Covered(c, q, n, npush) => Covered(e, p, n, npush))
        <4>1. Called(lc, c, lq, q, ln, n, npush, lp, p, le, e)
          BY <1>0, <1>7, <3>2, <3>4, <3>5 DEF Called
        <4> QED BY <4>1, FirstCalled
      <3> QED BY <1>1, <1>4, <1>5, <1>7, <1>15, <2>1, <3>5, <3>6 DEF InOrder
    <2> QED BY <1>9, <1>10, <2>2, <2>3, <2>4, QueueMoves
  <1>17. CASE GiveUp
    <2>1. cq' = cq /\ called' = called /\ npush' = npush /\ nclose' = nclose
      BY <1>17 DEF GiveUp, cbVars, envVars
    <2>2. nclose # 0
      BY <1>0, <1>17 DEF GiveUp, NoClose, Parsing
    <2>3. PICK d \in Nat : Rest(m, n, d)
      <3>1. Len(chunk) \in Nat
        BY DEF ClientTyped, LoopTyped
      <3> QED BY <1>1, <1>4, <1>6, <1>17, <3>1, GiveUpStep, SliceNumbers
    <2>4. Ordered(c, q, m, npush)
      BY <1>0, <1>7, <2>3, RestOrdered
    <2> QED BY <1>1, <1>2, <1>3, <1>6, <2>1, <2>2, <2>4 DEF InOrder
  <1>16. CASE ServerPush /\ Quiet
    <2>1. Len(Stream') = Len(Stream) + 2
      <3>1. Push(npush + 1) \in Msg
        BY <1>0 DEF Push, Msg
      <3>2. in'["m"] = in["m"] \o Units(Push(npush + 1)) /\ chunk' = chunk /\ buf' = buf
        BY <1>16 DEF ServerPush, elVars, ClientTyped, ConnTyped
      <3>3. Grown(Stream', Stream, Push(npush + 1))
        BY <3>1, <3>2, ArriveStep
      <3> QED BY <3>3 DEF Grown
    <2> QED BY <1>1, <1>16, <2>1 DEF Quiet
  <1> QED BY <1>9, <1>10, <1>12, <1>13, <1>14, <1>15, <1>16, <1>17, QueueMoves, StreamMoves

(* Two lists, one behind the other *)
LEMMA BehindEachOther ==
  ASSUME NEW a \in Seq(Nat), NEW b \in Seq(Nat), Rising(a), Rising(b), Below(a, b), NEW x \in Seq(Nat), Joins(x, a, b)
  PROVE  /\ Rising(x)
         /\ \A c : Below(a, c) /\ Below(b, c) => Below(x, c)
         /\ \A v : Has(x, v) <=> Has(a, v) \/ Has(b, v)
  <1>0. PICK la \in Nat, lb \in Nat : la = Len(a) /\ lb = Len(b)
    OBVIOUS
  <1>1. /\ DOMAIN a = 1 .. la /\ DOMAIN b = 1 .. lb /\ DOMAIN x = 1 .. la + lb
        /\ \A i \in 1 .. la : x[i] = a[i] /\ a[i] \in Nat
        /\ \A i \in 1 .. lb : x[la + i] = b[i] /\ b[i] \in Nat
    <2>1. Len(x) = la + lb /\ (\A i \in 1 .. la : x[i] = a[i]) /\ (\A i \in 1 .. lb : x[la + i] = b[i])
      BY <1>0 DEF Joins
    <2>2. DOMAIN a = 1 .. la /\ DOMAIN b = 1 .. lb /\ DOMAIN x = 1 .. la + lb
      BY <1>0, <2>1, LenProperties
    <2>3. (\A i \in 1 .. la : a[i] \in Nat) /\ (\A i \in 1 .. lb : b[i] \in Nat)
      BY <1>0
    <2> QED BY <2>1, <2>2, <2>3
  <1>2. ASSUME NEW i \in 1 .. la + lb PROVE (i \in 1 .. la /\ x[i] = a[i]) \/ (i - la \in 1 .. lb /\ x[i] = b[i - la] /\ i > la)
    <2>1. CASE i <= la
      BY <1>1, <2>1
    <2>2. CASE i > la
      <3>1. i - la \in 1 .. lb /\ la + (i - la) = i
        BY <2>2
      <3> QED BY <1>1, <2>2, <3>1
    <2> QED BY <2>1, <2>2
  <1>3. Rising(x)
    <2> SUFFICES ASSUME NEW i \in 1 .. la + lb, NEW j \in 1 .. la + lb, i < j, x[i] > 0, x[j] > 0 PROVE x[i] < x[j]
      BY <1>1 DEF Rising
    <2>1. CASE i \in 1 .. la /\ j \in 1 .. la
      BY <1>1, <2>1 DEF Rising
    <2>2. CASE i \in 1 .. la /\ j > la
      <3>1. j - la \in 1 .. lb /\ x[j] = b[j - la] /\ x[i] = a[i]
        BY <1>1, <1>2, <2>2
      <3> QED BY <1>1, <2>2, <3>1 DEF Below
    <2>3. CASE i > la
      <3>1. i - la \in 1 .. lb /\ j - la \in 1 .. lb /\ i - la < j - la /\ x[i] = b[i - la] /\ x[j] = b[j - la]
        BY <1>2, <2>3
      <3> QED BY <1>1, <3>1 DEF Rising
    <2> QED BY <2>1, <2>2, <2>3
  <1>4. ASSUME NEW c, Below(a, c), Below(b, c) PROVE Below(x, c)
    <2> SUFFICES ASSUME NEW i \in 1 .. la + lb, NEW j \in DOMAIN c, x[i] > 0, c[j] > 0 PROVE x[i] < c[j]
      BY <1>1 DEF Below
    <2> QED BY <1>1, <1>2, <1>4 DEF Below
  <1>5. ASSUME NEW v PROVE Has(x, v) <=> Has(a, v) \/ Has(b, v)
    <2>1. ASSUME Has(x, v) PROVE Has(a, v) \/ Has(b, v)
      <3>1. PICK i \in 1 .. la + lb : x[i] = v
        BY <1>1, <2>1 DEF Has
      <3> QED BY <1>1, <1>2, <3>1 DEF Has
    <2>2. ASSUME Has(a, v) PROVE Has(x, v)
      <3>1. PICK i \in 1 .. la : a[i] = v
        BY <1>1, <2>2 DEF Has
      <3>2. i \in 1 .. la + lb
        OBVIOUS
      <3> QED BY <1>1, <3>1, <3>2 DEF Has
    <2>3. ASSUME Has(b, v) PROVE Has(x, v)
      <3>1. PICK i \in 1 .. lb : b[i] = v
        BY <1>1, <2>3 DEF Has
      <3>2. la + i \in 1 .. la + lb
        OBVIOUS
      <3> QED BY <1>1, <3>1, <3>2 DEF Has
    <2> QED BY <2>1, <2>2, <2>3
  <1> QED BY <1>3, <1>4, <1>5

LEMMA OrderOfLine ==
  ASSUME ClientTyped, InOrder
  PROVE  PushesInOrder
  <1>0. called \in Seq(Nat) /\ cq \in Seq(Event) /\ npush \in Nat /\ nclose \in Nat /\ Stream \in Seq(Unit)
    BY StreamTyped DEF ClientTyped, LoopTyped
  <1>1. PICK c \in Seq(Nat), q \in Seq(Nat), n \in Seq(Nat) : c = called /\ q = EntryNos(cq) /\ n = UnitNos(Stream)
    <2>1. \A k \in Nat : \A f \in Nats(k) : f \in Seq(Nat)
      BY DEF Nats
    <2> QED BY <1>0, <2>1, EntryNumbers, UnitNumbers
  <1>2. PICK x \in Seq(Nat) : Joins(x, c, q)
    BY Join
  <1>3. PICK y \in Seq(Nat) : Joins(y, x, n)
    BY Join
  <1>4. Line = y
    <2>1. Line = called \o EntryNos(cq) \o UnitNos(Stream)
      BY DEF Line, EntryNos, UnitNos, Stream
    <2> QED BY <1>1, <1>2, <1>3, <2>1 DEF Joins
  <1>5. Ordered(c, q, n, npush) /\ (nclose = 0 => Covered(c, q, n, npush))
    BY <1>1 DEF InOrder
  <1>6. Rising(x) /\ Below(x, n) /\ \A v : Has(x, v) <=> Has(c, v) \/ Has(q, v)
    BY <1>2, <1>5, BehindEachOther DEF Ordered
  <1>7. Rising(y) /\ \A v : Has(y, v) <=> Has(x, v) \/ Has(n, v)
    BY <1>3, <1>5, <1>6, BehindEachOther DEF Ordered
  <1>8. DOMAIN y \subseteq Nat /\ \A i \in DOMAIN y : y[i] \in Nat
    BY LenProperties
  <1>9. ASSUME nclose = 0 PROVE {y[i] : i \in DOMAIN y} \ {0} = 1 .. npush
    <2>1. ASSUME NEW v \in 1 .. npush PROVE v \in {y[i] : i \in DOMAIN y}
      <3>1. Has(y, v)
        BY <1>5, <1>6, <1>7, <1>9 DEF Covered
      <3> QED BY <3>1 DEF Has
    <2>2. ASSUME NEW i \in DOMAIN y, y[i] # 0 PROVE y[i] \in 1 .. npush
      <3>1. Has(y, y[i])
        BY DEF Has
      <3>2. Has(c, y[i]) \/ Has(q, y[i]) \/ Has(n, y[i])
        BY <1>6, <1>7, <3>1
      <3>3. y[i] <= npush
        BY <1>5, <3>2 DEF Has, Ordered, UpTo
      <3> QED BY <1>0, <1>8, <2>2, <3>3
    <2>3. 0 \notin 1 .. npush
      BY <1>0
    <2> QED BY <2>1, <2>2, <2>3
  <1> QED BY <1>4, <1>7, <1>9 DEF PushesInOrder, Rising

(* For any number of threads, triggers, pushes and faults, EPIPE and       *)
(* overruns of srv->buf that go unnoticed included,                        *)
(* the callbacks run in the order in which the server has pushed and none  *)
(* of them twice, and while no connection is closed no message is missing  *)
(* between recv() and the callback (client/mscli.c).                       *)
THEOREM PushesKeepOrder == Spec => []PushesInOrder
  <1> DEFINE Inv == ClientTyped /\ Phases /\ NoClose /\ InStep /\ InOrder
  <1>1. Init => Inv
    BY InitTyped, InitPhases, InitNoClose, InitInStep, InitInOrder
  <1>2. Inv /\ [Next]_vars => Inv'
    <2> SUFFICES ASSUME Inv, [Next]_vars PROVE Inv'
      OBVIOUS
    <2>1. ClientTyped' /\ Phases' /\ NoClose'
      BY NextTyped, NextPhases, NextNoClose
    <2>2. InStep'
      BY <2>1, NextInStep
    <2>3. InOrder'
      BY <2>1, <2>2, NextInOrder
    <2> QED BY <2>1, <2>2, <2>3
  <1>3. Inv => PushesInOrder
    BY OrderOfLine
  <1> QED BY <1>1, <1>2, <1>3, PTL DEF Spec
===============================================================================
