-------------------------------- MODULE Client --------------------------------
(***************************************************************************)
(* The client library: moc_trigger() called by the application's thread    *)
(* ("main") and by the callback thread ("cbk"), which share one connection *)
(* served by the event loop thread, and moc_trigger_r() called by threads  *)
(* that own a connection each.  All of them share g_reqid.                 *)
(*                                                                         *)
(* A message from the server is two units, its head (which holds the       *)
(* length) and its tail, so that recv() can cut a stream inside a message. *)
(* A connection that is made again gets the descriptor number of the one   *)
(* before: the kernel hands out the lowest, and the client has one         *)
(* server per connection here.                                             *)
(***************************************************************************)
EXTENDS Naturals, Sequences

CONSTANTS Reentrant,    \* the threads that call moc_trigger_r()
          Programs,     \* bound: how many triggers each thread has, a function;
                        \* a thread that has none is not started
          SyncFlags,    \* the values of FLAGS_SYNC that triggers use
          MaxPush,      \* bound: messages the server pushes
          MaxFaults,    \* bound: connections closed by the server, and recv()
                        \* calls that fail with ETIMEDOUT
          EpipeOn,      \* the threads whose send() may fail with EPIPE
          TimeoutOn,    \* the reentrant threads whose server has a timeout
          SBSIZE,       \* the size of a receive buffer, in units
          MaxReqid      \* the largest request id, 0x0FFFFFFD in the code

ASSUME BoundsAssumption ==
  /\ {MaxPush, MaxFaults, MaxReqid, SBSIZE} \subseteq Nat
  /\ SyncFlags \subseteq BOOLEAN
ASSUME ThreadsAssumption ==
  /\ {"main", "cbk", "m"} \cap Reentrant = {}
  /\ EpipeOn \subseteq {"main", "cbk"} \cup Reentrant
  /\ TimeoutOn \subseteq Reentrant
  /\ Programs \subseteq [{"main", "cbk"} \cup Reentrant -> Nat]

Callers == {"main", "cbk"} \cup Reentrant
Conns   == {"m"} \cup Reentrant
Conn(t) == IF t \in Reentrant THEN t ELSE "m"

VARIABLES
  g_reqid,
  fd,        \* fd[k]: srv->fd > 0
  sent,      \* sent[k]: requests on their way to the server
  in,        \* in[k]: units on their way to the client
  eof,       \* eof[k]: the server has closed the connection
  hdfrcv,    \* hdfrcv[k]: the id of the reply it holds, 0 if it is empty
  lostStep,  \* lostStep[k]: a read began inside a message
  crossed,   \* history: "m" was made again with data of the old one in hand
  pc, id, tmp, flags,  \* per caller: place, request id, loaded g_reqid, sync
  left,      \* left[t]: triggers still to come
  waiting,   \* the callers that wait on mainsync.cond
  el, chunk, buf, rep,  \* event loop: place, its input, srv->buf, the reply in hand
  cq,        \* callbackqueue
  cb,        \* callback thread: place
  called,    \* the pushed messages whose callback has run, in order
  npush, nclose, nlost,
  m_arg, elStop, cbStop  \* moc_init() done; the two m_stop flags

connVars == << fd, sent, in, eof, hdfrcv, lostStep, crossed >>
callVars == << pc, id, tmp, flags, left, waiting >>
elVars   == << el, chunk, buf, rep >>
cbVars   == << cq, cb, called >>
envVars  == << npush, nclose, nlost >>
runVars  == << m_arg, elStop, cbStop >>
vars == << g_reqid, connVars, callVars, elVars, cbVars, envVars, runVars >>

-----------------------------------------------------------------------------
(* Messages and the entries of the callback queue *)

Reply(n) == [kind |-> "reply", n |-> n]
Push(n)  == [kind |-> "push", n |-> n]
Units(m) == << [m |-> m, part |-> 1], [m |-> m, part |-> 2] >>

(* The first two units are the head and the tail of one message *)
Whole(u) == Len(u) >= 2 /\ u[1].part = 1 /\ u[2] = [u[1] EXCEPT !.part = 2]

(* struct msqueue_entry: a pushed command, "_reconnect" or "_connectlost" *)
Entry(kind, n) == [kind |-> kind, n |-> n]

msqueue_put(e) == cq' = Append(cq, e)

Go(t, l) == pc' = [pc EXCEPT ![t] = l]

(* The trigger of t ends *)
Return(t) ==
  /\ Go(t, "idle")
  /\ id' = [id EXCEPT ![t] = 0]
  /\ tmp' = [tmp EXCEPT ![t] = 0]
  /\ flags' = [flags EXCEPT ![t] = FALSE]

-----------------------------------------------------------------------------
Init ==
  /\ g_reqid = 0
  /\ fd = [k \in Conns |-> FALSE]
  /\ sent = [k \in Conns |-> << >>]
  /\ in = [k \in Conns |-> << >>]
  /\ eof = [k \in Conns |-> FALSE]
  /\ hdfrcv = [k \in Conns |-> 0]
  /\ lostStep = [k \in Conns |-> FALSE]
  /\ crossed = FALSE
  /\ left \in Programs
  /\ pc = [t \in Callers |-> IF t = "cbk" THEN "idle" ELSE IF left[t] > 0 THEN "start" ELSE "end"]
  /\ id = [t \in Callers |-> 0]
  /\ tmp = [t \in Callers |-> 0]
  /\ flags = [t \in Callers |-> FALSE]
  /\ waiting = {}
  /\ el = "none" /\ chunk = << >> /\ buf = << >> /\ rep = 0
  /\ cq = << >> /\ cb = "none" /\ called = << >>
  /\ npush = 0 /\ nclose = 0 /\ nlost = 0
  /\ m_arg = FALSE /\ elStop = FALSE /\ cbStop = FALSE

(* _moc_load_fromhdf(): the server of the configuration is connected.  One *)
(* that cannot be reached is not added; its module is then not entered in  *)
(* evth, and no trigger finds it.                                          *)
moc_load_fromhdf(t, ok) ==
  /\ fd' = [fd EXCEPT ![Conn(t)] = ok]
  /\ Go(t, IF ok THEN "idle" ELSE "nomodule")

eloop_start == el' = "loop" /\ elStop' = FALSE

mcbk_start == cb' = "wait" /\ cbStop' = FALSE

moc_init ==
  /\ pc["main"] = "start" /\ ~m_arg
  /\ \E ok \in BOOLEAN : moc_load_fromhdf("main", ok)
  /\ m_arg' = TRUE
  /\ eloop_start /\ mcbk_start
  /\ UNCHANGED << g_reqid, sent, in, eof, hdfrcv, lostStep, crossed, id, tmp, flags, left,
                  waiting, chunk, buf, rep, cq, called, envVars >>

(* A moc_arg of its own, without threads *)
moc_init_r(t) ==
  /\ pc[t] = "start"
  /\ \E ok \in BOOLEAN : moc_load_fromhdf(t, ok)
  /\ UNCHANGED << g_reqid, sent, in, eof, hdfrcv, lostStep, crossed, id, tmp, flags, left,
                  waiting, elVars, cbVars, envVars, runVars >>

-----------------------------------------------------------------------------
(* _mevt_trigger() *)

(* The application calls in turn: main when it pleases, the callback       *)
(* thread only to join again from the "_reconnect" callback.               *)
MayTrigger(t) ==
  /\ pc[t] = "idle" /\ left[t] > 0
  /\ t = "cbk" => cb = "join"

(* g_reqid++, compiled to a load and a store *)
ReqidLoad(t) ==
  /\ MayTrigger(t)
  /\ \E s \in SyncFlags : flags' = [flags EXCEPT ![t] = s]
  /\ left' = [left EXCEPT ![t] = @ - 1]
  /\ tmp' = [tmp EXCEPT ![t] = g_reqid]
  /\ Go(t, "store")
  /\ cb' = IF t = "cbk" THEN "joining" ELSE cb
  /\ UNCHANGED << g_reqid, connVars, id, waiting, elVars, cq, called, envVars,
                  runVars >>

(* Past 0x0FFFFFFC the ids begin again at 1 *)
NextReqid(g) == IF g >= MaxReqid THEN 1 ELSE g + 1

ReqidStore(t) ==
  /\ pc[t] = "store"
  /\ g_reqid' = NextReqid(tmp[t])
  /\ tmp' = [tmp EXCEPT ![t] = 0]
  /\ Go(t, "pack")
  /\ UNCHANGED << connVars, id, flags, left, waiting, elVars, cbVars, envVars,
                  runVars >>

(* The header is written from g_reqid, read again *)
PackHeader(t) ==
  /\ pc[t] = "pack"
  /\ id' = [id EXCEPT ![t] = g_reqid]
  /\ Go(t, "send")
  /\ UNCHANGED << g_reqid, connVars, tmp, flags, left, waiting, elVars, cbVars,
                  envVars, runVars >>

Transmit(t) ==
  sent' = [sent EXCEPT ![Conn(t)] =
             IF eof[Conn(t)] THEN @ ELSE Append(@, [id |-> id[t], sync |-> flags[t]])]

(* tcp_srv_send() on an open connection, and after the pause of a          *)
(* reconnection, when fd is not looked at again.  send() may fail, on a    *)
(* descriptor of -1 always.  What is sent after the server has closed is   *)
(* lost; EPIPE closes the connection, also under an event loop that is     *)
(* reading from it.                                                        *)
tcp_srv_send(t) ==
  LET k == Conn(t)
  IN  /\ \/ pc[t] = "send" /\ fd[k]
         \/ pc[t] = "sleep"
      /\ \/ /\ fd[k]
            /\ Transmit(t)
            /\ Go(t, "clear")
            /\ UNCHANGED << fd, id, tmp, flags >>
         \/ /\ Return(t)
            /\ UNCHANGED << fd, sent >>
         \/ /\ pc[t] = "send" /\ eof[k] /\ t \in EpipeOn
            /\ fd' = [fd EXCEPT ![k] = FALSE]
            /\ Return(t)
            /\ UNCHANGED sent
  /\ UNCHANGED << g_reqid, in, eof, hdfrcv, lostStep, crossed, left,
                  waiting, elVars, cbVars, envVars, runVars >>

(* Mutant: the rest of the old stream stays in srv->buf. *)
ReconnectKeepsBuf(k) ==
  /\ fd' = [fd EXCEPT ![k] = TRUE]
  /\ sent' = [sent EXCEPT ![k] = << >>]
  /\ in' = [in EXCEPT ![k] = << >>]
  /\ eof' = [eof EXCEPT ![k] = FALSE]
  /\ buf' = buf
  /\ chunk' = IF k = "m" /\ el \in {"unpack", "signal"} THEN << >> ELSE chunk
  /\ crossed' = (crossed \/ (k = "m" /\ chunk' # << >>))

(* tcp_server_reconnect(): a fresh stream, and what was left of the old    *)
(* one in srv->buf is dropped.  So is what follows the answer that         *)
(* msparse_msg() has in work, for srv->excess is set to 0; but what        *)
(* msparse_buf() is about to look at it keeps, as the number is the same.  *)
tcp_server_reconnect(k) ==
  /\ fd' = [fd EXCEPT ![k] = TRUE]
  /\ sent' = [sent EXCEPT ![k] = << >>]
  /\ in' = [in EXCEPT ![k] = << >>]
  /\ eof' = [eof EXCEPT ![k] = FALSE]
  /\ buf' = IF k = "m" THEN << >> ELSE buf
  /\ chunk' = IF k = "m" /\ el \in {"unpack", "signal"} THEN << >> ELSE chunk
  /\ crossed' = (crossed \/ (k = "m" /\ chunk' # << >>))

(* tcp_srv_send() on a closed one.  Either way the application is told     *)
(* through "_reconnect"; after a success the caller pauses, to let it      *)
(* join.  A reentrant caller's queue has no reader.                        *)
Reconnect(t) ==
  /\ pc[t] = "send" /\ ~fd[Conn(t)]
  /\ \/ /\ tcp_server_reconnect(Conn(t))
        /\ Go(t, "sleep")
        /\ IF t \in Reentrant THEN UNCHANGED cq ELSE msqueue_put(Entry("_reconnect", 1))
        /\ UNCHANGED << id, tmp, flags >>
     \/ /\ Return(t)
        /\ IF t \in Reentrant THEN UNCHANGED cq ELSE msqueue_put(Entry("_reconnect", 0))
        /\ UNCHANGED << fd, sent, in, eof, buf, chunk, crossed >>
  /\ UNCHANGED << g_reqid, hdfrcv, lostStep, left, waiting, el,
                  rep, cb, called, envVars, runVars >>

(* hdfsnd and hdfrcv are emptied after the request has been sent *)
ClearData(t) ==
  /\ pc[t] = "clear"
  /\ hdfrcv' = [hdfrcv EXCEPT ![Conn(t)] = 0]
  /\ \/ flags[t] /\ Go(t, IF t \in Reentrant THEN "recv" ELSE "lock") /\ UNCHANGED << id, tmp, flags >>
     \/ ~flags[t] /\ Return(t)
  /\ UNCHANGED << g_reqid, fd, sent, in, eof, lostStep, crossed, left, waiting, elVars,
                  cbVars, envVars, runVars >>

(* mssync_lock(), mssync_timedwait(): no condition is tested before or after *)
StartWait(t) ==
  /\ pc[t] = "lock"
  /\ waiting' = waiting \cup {t}
  /\ Go(t, "wait")
  /\ UNCHANGED << g_reqid, connVars, id, tmp, flags, left, elVars, cbVars,
                  envVars, runVars >>

(* Mutant: the wait has no timeout. *)
EndWaitUntimed(t) ==
  /\ pc[t] = "wait" /\ t \notin waiting
  /\ Return(t)
  /\ UNCHANGED << g_reqid, connVars, left, waiting, elVars, cbVars, envVars, runVars >>

EndWait(t) ==
  /\ pc[t] = "wait"
  /\ \/ t \notin waiting /\ UNCHANGED waiting
     \/ t \in waiting /\ waiting' = waiting \ {t}
  /\ Return(t)
  /\ UNCHANGED << g_reqid, connVars, left, elVars, cbVars, envVars, runVars >>

-----------------------------------------------------------------------------
(* tcp_get_rep() and recv_msg(), by a reentrant caller *)

(* recv() takes any part of what has arrived.  What follows the first      *)
(* message in it is dropped; what the first one lacks is read next.        *)
recv_msg(t) ==
  /\ pc[t] = "recv" /\ in[t] # << >>
  /\ \E n \in 1 .. Len(in[t]) :
       /\ in' = [in EXCEPT ![t] = SubSeq(@, n + 1, Len(@))]
       /\ Go(t, IF n = 1 THEN "rest" ELSE "check")
  /\ IF in[t][1].part = 1
     THEN tmp' = [tmp EXCEPT ![t] = in[t][1].m.n] /\ UNCHANGED lostStep
     ELSE lostStep' = [lostStep EXCEPT ![t] = TRUE] /\ UNCHANGED tmp
  /\ UNCHANGED << g_reqid, fd, sent, eof, hdfrcv, crossed, id, flags, left, waiting,
                  elVars, cbVars, envVars, runVars >>

(* srecv() of the rest of the message *)
srecv(t) ==
  /\ pc[t] = "rest" /\ in[t] # << >>
  /\ in' = [in EXCEPT ![t] = Tail(@)]
  /\ Go(t, "check")
  /\ UNCHANGED << g_reqid, fd, sent, eof, hdfrcv, lostStep, crossed, id, tmp, flags, left,
                  waiting, elVars, cbVars, envVars, runVars >>

(* SO_RCVTIMEO, set if the configuration has a timeout, ends a recv() with *)
(* EAGAIN: the connection stays, with its position in the stream.  The end *)
(* of the stream closes it, unless errno, which recv() does not set then,  *)
(* still is EAGAIN.  Otherwise recv() blocks.                              *)
RecvFails(t) ==
  /\ pc[t] \in {"recv", "rest"} /\ in[t] = << >>
  /\ \/ (t \in TimeoutOn \/ eof[t]) /\ UNCHANGED fd
     \/ eof[t] /\ fd' = [fd EXCEPT ![t] = FALSE]
  /\ Return(t)
  /\ UNCHANGED << g_reqid, sent, in, eof, hdfrcv, lostStep, crossed, left, waiting,
                  elVars, cbVars, envVars, runVars >>

(* An answer to an earlier request is skipped: "if (id < g_reqid) goto rerecv" *)
Stale(n) == n < g_reqid

tcp_get_rep(t) ==
  /\ pc[t] = "check"
  /\ \/ Stale(tmp[t]) /\ Go(t, "recv") /\ UNCHANGED << hdfrcv, id, tmp, flags >>
     \/ ~Stale(tmp[t]) /\ Return(t) /\ hdfrcv' = [hdfrcv EXCEPT ![t] = tmp[t]]
  /\ UNCHANGED << g_reqid, fd, sent, in, eof, lostStep, crossed, left, waiting, elVars,
                  cbVars, envVars, runVars >>

-----------------------------------------------------------------------------
(* The event loop thread: el_routine() *)

(* select() has found the descriptor readable.  As much as static_buf      *)
(* holds is taken, and goes behind what srv->buf has of an incomplete      *)
(* message, whose SBSIZE bytes may not have room for it: what lies behind  *)
(* them is overwritten, which goes unnoticed or is the end of the thread.  *)
Overruns(n) == buf # << >> /\ Len(buf) + n > SBSIZE

ElRecv ==
  /\ el = "loop" /\ ~elStop /\ fd["m"]
  /\ \/ /\ in["m"] # << >>
        /\ \E n \in 1 .. Len(in["m"]) :
             /\ n <= SBSIZE
             /\ chunk' = buf \o SubSeq(in["m"], 1, n)
             /\ in' = [in EXCEPT !["m"] = SubSeq(@, n + 1, Len(@))]
             /\ el' \in (IF Overruns(n) THEN {"parse", "overrun"} ELSE {"parse"})
        /\ buf' = << >>
     \/ /\ in["m"] = << >> /\ eof["m"]
        /\ el' = "close"
        /\ UNCHANGED << chunk, buf, in >>
  /\ UNCHANGED << g_reqid, fd, sent, eof, hdfrcv, lostStep, crossed, callVars, rep,
                  cbVars, envVars, runVars >>

(* recv() fails with ETIMEDOUT: the application is told *)
ElLost ==
  /\ el = "loop" /\ ~elStop /\ fd["m"] /\ nclose + nlost < MaxFaults
  /\ nlost' = nlost + 1
  /\ msqueue_put(Entry("_connectlost", 0))
  /\ UNCHANGED << g_reqid, connVars, callVars, elVars, cb, called, npush, nclose,
                  runVars >>

(* mssrv_close(): srv->fd is compared with the number that was read from *)
mssrv_close ==
  /\ el = "close"
  /\ fd' = [fd EXCEPT !["m"] = FALSE]
  /\ el' = "loop"
  /\ UNCHANGED << g_reqid, sent, in, eof, hdfrcv, lostStep, crossed, callVars, chunk, buf,
                  rep, cbVars, envVars, runVars >>

(* msparse_buf() finds the connection closed: what it has in hand is lost, *)
(* srv->buf too when the connection is made again.                         *)
GiveUp ==
  /\ el = "parse" /\ ~fd["m"]
  /\ chunk' = << >>
  /\ el' = "loop"
  /\ UNCHANGED << g_reqid, connVars, callVars, buf, rep, cbVars, envVars, runVars >>

(* msparse_buf(): a message that is not complete waits in srv->buf *)
KeepRest ==
  /\ el = "parse" /\ fd["m"] /\ Len(chunk) < 2
  /\ buf' = chunk
  /\ chunk' = << >>
  /\ el' = "loop"
  /\ UNCHANGED << g_reqid, connVars, callVars, rep, cbVars, envVars, runVars >>

(* Mutant: what follows the first message is dropped. *)
ExcessDropped(u) == << >>

(* What follows the first message is moved to the front and parsed next *)
Excess(u) == SubSeq(u, 3, Len(u))

(* msparse_buf() and msparse_msg(): the first message is cut off; a push   *)
(* goes to the callback thread, an answer that is not stale to the caller. *)
(* The signal that follows the put finds a thread that will look at the    *)
(* queue before it waits, so the two are one step.                         *)
msparse_msg ==
  /\ el = "parse" /\ fd["m"] /\ Len(chunk) >= 2
  /\ LET m == chunk[1].m
     IN  IF ~Whole(chunk)
         THEN /\ lostStep' = [lostStep EXCEPT !["m"] = TRUE]
              /\ chunk' = << >>
              /\ UNCHANGED << el, cq, rep >>
         ELSE /\ IF m.kind = "push"
                 THEN msqueue_put(Entry("push", m.n)) /\ UNCHANGED << el, rep >>
                 ELSE /\ IF Stale(m.n) THEN UNCHANGED << el, rep >>
                         ELSE el' = "unpack" /\ rep' = m.n
                      /\ UNCHANGED cq
              /\ chunk' = Excess(chunk)
              /\ UNCHANGED lostStep
  /\ UNCHANGED << g_reqid, fd, sent, in, eof, hdfrcv, crossed, callVars, buf, cb, called,
                  envVars, runVars >>

(* Under mainsync the answer is unpacked into hdfrcv ... *)
Unpack ==
  /\ el = "unpack"
  /\ hdfrcv' = [hdfrcv EXCEPT !["m"] = rep]
  /\ rep' = 0
  /\ el' = "signal"
  /\ UNCHANGED << g_reqid, fd, sent, in, eof, lostStep, crossed, callVars, chunk, buf,
                  cbVars, envVars, runVars >>

(* ... and after the unlock one waiting caller is woken, if there is one *)
Signal ==
  /\ el = "signal"
  /\ IF waiting = {} THEN UNCHANGED waiting
     ELSE \E t \in waiting : waiting' = waiting \ {t}
  /\ el' = "parse"
  /\ UNCHANGED << g_reqid, connVars, pc, id, tmp, flags, left, chunk, buf, rep, cbVars,
                  envVars, runVars >>

ElStop ==
  /\ el = "loop" /\ elStop
  /\ el' = "done"
  /\ UNCHANGED << g_reqid, connVars, callVars, chunk, buf, rep, cbVars, envVars, runVars >>

-----------------------------------------------------------------------------
(* The callback thread: callback_routine() *)

(* An entry is taken and its callback run.  The application's callback of  *)
(* "_reconnect" joins again.                                               *)
CbGet ==
  /\ cb = "wait" /\ cq # << >>
  /\ LET e == Head(cq)
     IN  /\ called' = IF e.kind = "push" THEN Append(called, e.n) ELSE called
         /\ cb' = IF e = Entry("_reconnect", 1) /\ left["cbk"] > 0
                  THEN "join" ELSE "wait"
  /\ cq' = Tail(cq)
  /\ UNCHANGED << g_reqid, connVars, callVars, elVars, envVars, runVars >>

CbJoined ==
  /\ cb = "joining" /\ pc["cbk"] = "idle"
  /\ cb' = "wait"
  /\ UNCHANGED << g_reqid, connVars, callVars, elVars, cq, called, envVars, runVars >>

(* Mutant: m_stop is obeyed before the queue is empty. *)
CbStopAtOnce ==
  /\ cb = "wait" /\ cbStop
  /\ cb' = "done"
  /\ UNCHANGED << g_reqid, connVars, callVars, elVars, cq, called, envVars, runVars >>

(* The timeout finds nothing to do and m_stop set *)
CbStop ==
  /\ cb = "wait" /\ cq = << >> /\ cbStop
  /\ cb' = "done"
  /\ UNCHANGED << g_reqid, connVars, callVars, elVars, cq, called, envVars, runVars >>

-----------------------------------------------------------------------------
(* moc_destroy(): eloop_stop(), mcbk_stop(), then everything is freed *)

eloop_stop ==
  /\ pc["main"] \in {"idle", "nomodule"}
  /\ elStop' = TRUE
  /\ Go("main", "joinel")
  /\ UNCHANGED << g_reqid, connVars, id, tmp, flags, left, waiting, elVars,
                  cbVars, envVars, m_arg, cbStop >>

mcbk_stop ==
  /\ pc["main"] = "joinel" /\ el = "done"
  /\ cbStop' = TRUE
  /\ Go("main", "joincb")
  /\ UNCHANGED << g_reqid, connVars, id, tmp, flags, left, waiting, elVars,
                  cbVars, envVars, m_arg, elStop >>

mevt_destroy(k) == fd' = [fd EXCEPT ![k] = FALSE]

(* What is still queued is freed, its callbacks have not run *)
moc_destroy ==
  /\ pc["main"] = "joincb" /\ cb = "done"
  /\ mevt_destroy("m")
  /\ m_arg' = FALSE
  /\ Go("main", "end")
  /\ UNCHANGED << g_reqid, sent, in, eof, hdfrcv, lostStep, crossed, id, tmp, flags, left,
                  waiting, elVars, cbVars, envVars, elStop, cbStop >>

moc_destroy_r(t) ==
  /\ pc[t] \in {"idle", "nomodule"}
  /\ mevt_destroy(t)
  /\ Go(t, "end")
  /\ UNCHANGED << g_reqid, sent, in, eof, hdfrcv, lostStep, crossed, id, tmp, flags, left,
                  waiting, elVars, cbVars, envVars, runVars >>

-----------------------------------------------------------------------------
(* The server *)

Serve(k) ==
  /\ sent[k] # << >> /\ ~eof[k]
  /\ sent' = [sent EXCEPT ![k] = Tail(@)]
  /\ in' = [in EXCEPT ![k] =
              IF Head(sent[k]).sync THEN @ \o Units(Reply(Head(sent[k]).id)) ELSE @]
  /\ UNCHANGED << g_reqid, fd, eof, hdfrcv, lostStep, crossed, callVars, elVars, cbVars,
                  envVars, runVars >>

ServerPush ==
  /\ npush < MaxPush /\ fd["m"] /\ ~eof["m"]
  /\ npush' = npush + 1
  /\ in' = [in EXCEPT !["m"] = @ \o Units(Push(npush + 1))]
  /\ UNCHANGED << g_reqid, fd, sent, eof, hdfrcv, lostStep, crossed, callVars, elVars,
                  cbVars, nclose, nlost, runVars >>

(* The last of what was under way may be lost, even within a message *)
ServerClose(k) ==
  /\ nclose + nlost < MaxFaults /\ fd[k] /\ ~eof[k]
  /\ nclose' = nclose + 1
  /\ eof' = [eof EXCEPT ![k] = TRUE]
  /\ sent' = [sent EXCEPT ![k] = << >>]
  /\ \E n \in 0 .. Len(in[k]) : in' = [in EXCEPT ![k] = SubSeq(@, 1, n)]
  /\ UNCHANGED << g_reqid, fd, hdfrcv, lostStep, crossed, callVars, elVars, cbVars, npush,
                  nlost, runVars >>

(* In recv() without a timeout, on a connection that stays open and silent *)
Blocked(t) ==
  /\ t \in Reentrant \ TimeoutOn /\ pc[t] \in {"recv", "rest"}
  /\ in[t] = << >> /\ ~eof[t]

(* In pthread_join() for an event loop that has died of an overrun *)
JoinsDead(t) == t = "main" /\ pc[t] = "joinel" /\ el = "overrun"

Finished ==
  /\ \A t \in Reentrant \cup {"main"} : pc[t] = "end" \/ Blocked(t) \/ JoinsDead(t)
  /\ UNCHANGED vars

-----------------------------------------------------------------------------
CallerStep(t) ==
  \/ ReqidStore(t) \/ PackHeader(t) \/ tcp_srv_send(t) \/ Reconnect(t) \/ ClearData(t)
  \/ StartWait(t) \/ EndWait(t)
  \/ recv_msg(t) \/ srecv(t) \/ RecvFails(t) \/ tcp_get_rep(t)
ElStep == ElRecv \/ mssrv_close \/ GiveUp \/ KeepRest \/ msparse_msg \/ Unpack \/ Signal \/ ElStop
CbStep == CbGet \/ CbJoined \/ CbStop \/ ReqidLoad("cbk")
StopStep == mcbk_stop \/ moc_destroy

Next ==
  \/ moc_init \/ eloop_stop \/ StopStep
  \/ \E t \in Callers : CallerStep(t)
  \/ \E t \in Reentrant : moc_init_r(t) \/ moc_destroy_r(t)
  \/ \E t \in Callers \ {"cbk"} : ReqidLoad(t)
  \/ ElStep \/ ElLost \/ CbStep
  \/ \E k \in Conns : Serve(k) \/ ServerClose(k)
  \/ ServerPush
  \/ Finished

Spec == Init /\ [][Next]_vars

(* Every thread keeps running: a wait ends with its timeout, select() and  *)
(* the callback thread's wait return within a tenth of a second.  Nothing  *)
(* is asked of the server or of the application.                           *)
FairSpec ==
  /\ Spec
  /\ \A t \in Callers : WF_vars(CallerStep(t))
  /\ WF_vars(ElStep) /\ WF_vars(CbStep) /\ WF_vars(StopStep)

-----------------------------------------------------------------------------
(* msparse_buf() always finds the head of a message where it looks for     *)
(* one, however recv() cuts the stream and although a connection that was  *)
(* closed within a message is made again: tcp_server_reconnect() drops     *)
(* what the event loop had kept of it (client/tcp.c:110).  The only way    *)
(* out of step is what it cannot drop: the connection was closed, by a     *)
(* trigger's EPIPE, and made again between two looks at srv->fd.           *)
EventLoopInStep == lostStep["m"] => crossed

(* The number of a pushed message, 0 for anything else *)
EntryNo(e) == IF e.kind = "push" THEN e.n ELSE 0
UnitNo(u)  == IF u.part = 1 /\ u.m.kind = "push" THEN u.m.n ELSE 0

(* What has been called, is queued for it and is on its way, oldest first *)
Line ==
  LET units == chunk \o buf \o in["m"]
  IN  called \o [i \in 1 .. Len(cq) |-> EntryNo(cq[i])] \o [i \in 1 .. Len(units) |-> UnitNo(units[i])]

(* Callbacks run in the order in which the server has pushed, each once,   *)
(* and while no connection is lost none is missing: nothing is dropped or  *)
(* repeated on the way through recv(), srv->buf, the recursion of          *)
(* msparse_buf() and the callback queue (client/mscli.c).                  *)
PushesInOrder ==
  /\ \A i, j \in DOMAIN Line : i < j /\ Line[i] > 0 /\ Line[j] > 0 => Line[i] < Line[j]
  /\ nclose = 0 => {Line[i] : i \in DOMAIN Line} \ {0} = 1 .. npush

(* moc_destroy() frees the callback queue only when it is empty: the event *)
(* loop is stopped first, and the callback thread leaves only when nothing *)
(* is queued (client/moc.c:237, client/mcbk.c:48).                         *)
AllCallbacksRun == pc["main"] = "end" => cq = << >>

(* Every trigger returns, by an answer, an error or a timeout, and so does *)
(* moc_destroy(), even when the callback thread is in a trigger and the    *)
(* event loop that would wake it has been stopped: there are finitely many *)
(* calls, and in the end none is under way (client/moc.c:84,               *)
(* client/tcp.c:264, client/moc.c:237).  Two calls do not: a reentrant one *)
(* that has no timeout, which is the default, when nothing arrives or only *)
(* a stale answer did (client/tcp.c:289), and moc_destroy() after an       *)
(* overrun.                                                                *)
CallsReturn ==
  <>[](\A t \in Callers : \/ pc[t] \in {"start", "idle", "nomodule", "end"}
                          \/ Blocked(t) \/ JoinsDead(t))
=============================================================================
