------------------------------- MODULE ConnLife -------------------------------
(***************************************************************************)
(* The life of a connection: struct tcp_socket of server/tcp.c with its    *)
(* reference count, the queue entries that parse.c makes from requests and *)
(* that keep a reference to it, and the users that the base plugin         *)
(* attaches to it (plugin/private/base_internal.c).                        *)
(*                                                                         *)
(* Two threads share these objects.  The main thread runs the libevent     *)
(* callbacks: it accepts, receives, queues, and closes.  The application   *)
(* thread of the plugin takes requests, runs them and frees them.  Neither *)
(* takes a lock for the reference count, the sockets or the users, so each *)
(* of their accesses is a step of its own; closing and freeing a socket is *)
(* a sequence of steps, of whichever thread drops the last reference.      *)
(*                                                                         *)
(* Spec has refcount++ and refcount-- as single steps; in RacingSpec the   *)
(* two threads' updates may also overlap.                                  *)
(*                                                                         *)
(* A heap cell is not reused for a second connection here, so a use after  *)
(* free shows as a pointer to a cell that is no longer live; descriptors   *)
(* are reused as the kernel does, the lowest free one first.               *)
(***************************************************************************)
EXTENDS Integers, Sequences, FiniteSets

CONSTANTS Conns,      \* the connections clients may open
          Uids,       \* the user ids they may claim
          Fds,        \* the descriptors of the process, positive
          NULL,
          Requests,   \* the requests sent: records [conn, cmd, uid]
          MaxReq,     \* bound: how many requests a connection carries
          SyncFlags   \* the FLAGS_SYNC values requests carry

(* A plugin's operation, a reserved one that the main thread serves itself *)
(* (parse_stats(), parse_clientmod()), and the base plugin's JOIN and QUIT *)
Cmds == {"op", "stat", "join", "quit"}

ASSUME FdsAssumption == Fds \subseteq Nat \ {0}
ASSUME NullAssumption == NULL \notin Conns \cup Uids \cup Fds
ASSUME RequestsAssumption ==
  Requests \subseteq [conn : Conns, cmd : Cmds, uid : Uids]
ASSUME BoundsAssumption ==
  /\ MaxReq \in Nat
  /\ SyncFlags \subseteq BOOLEAN

Threads == {"main", "app"}

VARIABLES
  st,        \* st[c]: the tcp_socket of c is "none" yet, "live" or "freed"
  refcount, fd, evt,    \* its fields; fd is NULL for -1, evt is a flag
  appdata,   \* the user whose on_close is set, or NULL
  fdtab,     \* the kernel's table: the connection behind each descriptor
  queue,     \* the plugin's op_queue
  users,     \* userh: the base_user of each uid, or NULL
  nreq,      \* how many requests each connection has sent
  pc,        \* where each thread is ...
  cur,       \* ... the request it is working on ...
  tgt,       \* ... the socket that it is closing or dereferencing ...
  num,       \* ... the descriptor that it has tested or been called with ...
  then,      \* ... where it continues after closing the socket ...
  tmp,       \* ... the refcount it has loaded ...
  ret,       \* ... and where it continues after tcp_socket_remove_ref()
  user       \* the user that the application thread has looked up

sockVars == << st, refcount, fd, evt, appdata, fdtab, users >>
closeVars == << num, then >>
vars == << sockVars, closeVars, queue, nreq, pc, cur, tgt, tmp, ret, user >>

(* queue_entry: the request, its socket and the descriptor it was copied with *)
Entry == [conn : Conns, fd : Fds \cup {NULL}, cmd : Cmds, uid : Uids]
NoReq == [conn |-> NULL, fd |-> NULL, cmd |-> "none", uid |-> NULL]

Init ==
  /\ st = [c \in Conns |-> "none"]
  /\ refcount = [c \in Conns |-> 0]
  /\ fd = [c \in Conns |-> NULL]
  /\ evt = [c \in Conns |-> FALSE]
  /\ appdata = [c \in Conns |-> NULL]
  /\ fdtab = [f \in Fds |-> NULL]
  /\ queue = << >>
  /\ users = [u \in Uids |-> NULL]
  /\ nreq = [c \in Conns |-> 0]
  /\ pc = [t \in Threads |-> "idle"]
  /\ cur = [t \in Threads |-> NoReq]
  /\ tgt = [t \in Threads |-> NULL]
  /\ num = [t \in Threads |-> NULL]
  /\ then = [t \in Threads |-> "remove"]
  /\ tmp = [t \in Threads |-> 0]
  /\ ret = [t \in Threads |-> "idle"]
  /\ user = NULL

------------------------------------------------------------------------------
(* Reference counting: tcp_socket_add_ref(), tcp_socket_remove_ref().      *)

Goto(t, l) == pc' = [pc EXCEPT ![t] = l]

(* Mutant: the entry takes no reference. *)
AddRef_None ==
  /\ pc["main"] = "add"
  /\ Goto("main", "put")
  /\ UNCHANGED << sockVars, closeVars, queue, nreq, cur, tgt, tmp, ret, user >>

(* The main thread's refcount++ for a new entry. *)
AddRef ==
  /\ pc["main"] = "add"
  /\ refcount' = [refcount EXCEPT ![cur["main"].conn] = @ + 1]
  /\ Goto("main", "put")
  /\ UNCHANGED << st, fd, evt, appdata, fdtab, users, closeVars, queue, nreq, cur,
                  tgt, tmp, ret, user >>

(* Mutant: off by one, the last owner but one frees the socket. *)
RemoveRef_Early(t) ==
  /\ pc[t] = "remove"
  /\ LET c == tgt[t] IN
       /\ refcount' = [refcount EXCEPT ![c] = IF @ > 0 THEN @ - 1 ELSE @]
       /\ Goto(t, IF refcount[c] \in 1..2 THEN "free" ELSE ret[t])
  /\ then' = [then EXCEPT ![t] = "onclose"]
  /\ UNCHANGED << st, fd, evt, appdata, fdtab, users, num, queue, nreq, cur, tgt,
                  tmp, ret, user >>

(* refcount-- and, at zero, tcp_socket_free(). *)
RemoveRef(t) ==
  /\ pc[t] = "remove"
  /\ LET c == tgt[t] IN
       /\ refcount' = [refcount EXCEPT ![c] = IF @ > 0 THEN @ - 1 ELSE @]
       /\ Goto(t, IF refcount[c] = 1 THEN "free" ELSE ret[t])
  /\ then' = [then EXCEPT ![t] = "onclose"]
  /\ UNCHANGED << st, fd, evt, appdata, fdtab, users, num, queue, nreq, cur, tgt,
                  tmp, ret, user >>

------------------------------------------------------------------------------
(* tcp_socket_free(c) and error_exit close the socket in the same order:   *)
(* close(fd), fd = -1, event_del(), evt = NULL.  Either thread may be at   *)
(* any of these steps.                                                     *)

(* tcp_socket_free(): if (tcpsock->fd > 0) *)
FreeTest(t) ==
  /\ pc[t] = "free"
  /\ num' = [num EXCEPT ![t] = fd[tgt[t]]]
  /\ Goto(t, IF fd[tgt[t]] = NULL THEN "event" ELSE "close")
  /\ UNCHANGED << sockVars, then, queue, nreq, cur, tgt, tmp, ret, user >>

(* What close() is called with: the number that was tested, or the field   *)
(* read again.                                                             *)
Closing(t) == {num[t], fd[tgt[t]]}

Close(t) ==
  /\ pc[t] = "close"
  /\ \E n \in Closing(t) :
       fdtab' = IF n = NULL THEN fdtab ELSE [fdtab EXCEPT ![n] = NULL]
  /\ Goto(t, "clear")
  /\ UNCHANGED << st, refcount, fd, evt, appdata, users, closeVars, queue, nreq,
                  cur, tgt, tmp, ret, user >>

(* Mutant: the closed descriptor stays in the socket. *)
ClearFd_Not(t) ==
  /\ pc[t] = "clear"
  /\ Goto(t, "event")
  /\ UNCHANGED << sockVars, closeVars, queue, nreq, cur, tgt, tmp, ret, user >>

ClearFd(t) ==
  /\ pc[t] = "clear"
  /\ fd' = [fd EXCEPT ![tgt[t]] = NULL]
  /\ Goto(t, "event")
  /\ UNCHANGED << st, refcount, evt, appdata, fdtab, users, closeVars, queue, nreq,
                  cur, tgt, tmp, ret, user >>

(* Mutant: error_exit leaves the event to tcp_socket_free(). *)
DeleteEvent_OnFree(t) ==
  /\ pc[t] = "event"
  /\ evt' = [evt EXCEPT ![tgt[t]] = @ /\ then[t] = "remove"]
  /\ Goto(t, then[t])
  /\ UNCHANGED << st, refcount, fd, appdata, fdtab, users, closeVars, queue, nreq,
                  cur, tgt, tmp, ret, user >>

DeleteEvent(t) ==
  /\ pc[t] = "event"
  /\ evt' = [evt EXCEPT ![tgt[t]] = FALSE]
  /\ Goto(t, then[t])
  /\ UNCHANGED << st, refcount, fd, appdata, fdtab, users, closeVars, queue, nreq,
                  cur, tgt, tmp, ret, user >>

(* Mutant: the user outlives its socket. *)
on_close_None(c) == UNCHANGED users

(* base_user_destroy() takes the user out of userh. *)
on_close(c) ==
  users' = IF appdata[c] = NULL THEN users
                                ELSE [users EXCEPT ![appdata[c]] = NULL]

(* The rest of tcp_socket_free(): on_close(appdata), and free(). *)
CallOnClose(t) ==
  /\ pc[t] = "onclose"
  /\ on_close(tgt[t])
  /\ appdata' = [appdata EXCEPT ![tgt[t]] = NULL]
  /\ Goto(t, "freemem")
  /\ UNCHANGED << st, refcount, fd, evt, fdtab, closeVars, queue, nreq, cur, tgt, tmp,
                  ret, user >>

FreeSocket(t) ==
  /\ pc[t] = "freemem"
  /\ st' = [st EXCEPT ![tgt[t]] = "freed"]
  /\ Goto(t, ret[t])
  /\ UNCHANGED << refcount, fd, evt, appdata, fdtab, users, closeVars, queue, nreq,
                  cur, tgt, tmp, ret, user >>

tcp_socket_free(t) == \/ FreeTest(t) \/ Close(t) \/ ClearFd(t) \/ DeleteEvent(t)
                      \/ CallOnClose(t) \/ FreeSocket(t)

(* A call of tcp_socket_remove_ref(c) by thread t that returns to l. *)
CallRemoveRef(t, c, l) ==
  /\ tgt' = [tgt EXCEPT ![t] = c]
  /\ ret' = [ret EXCEPT ![t] = l]
  /\ Goto(t, "remove")

------------------------------------------------------------------------------
(* The main thread *)

FreeFds == {f \in Fds : fdtab[f] = NULL}

tcp_newconnection(c) ==
  /\ pc["main"] = "idle"
  /\ st[c] = "none"
  /\ \E f \in FreeFds :
       /\ \A g \in FreeFds : f <= g
       /\ fdtab' = [fdtab EXCEPT ![f] = c]
       /\ fd' = [fd EXCEPT ![c] = f]
  /\ st' = [st EXCEPT ![c] = "live"]
  /\ evt' = [evt EXCEPT ![c] = TRUE]
  /\ appdata' = [appdata EXCEPT ![c] = NULL]
  /\ refcount' = [refcount EXCEPT ![c] = 1]
  /\ UNCHANGED << users, closeVars, queue, nreq, pc, cur, tgt, tmp, ret, user >>

(* Mutant: init_req() does not set req.tcpsock. *)
tcp_recv_NoSock(c, r) ==
  /\ pc["main"] = "idle"
  /\ evt[c] /\ r.conn = c /\ nreq[c] < MaxReq
  /\ nreq' = [nreq EXCEPT ![c] = @ + 1]
  /\ cur' = [cur EXCEPT !["main"] =
               [conn |-> NULL, fd |-> fd[c], cmd |-> r.cmd, uid |-> r.uid]]
  /\ Goto("main", "add")
  /\ UNCHANGED << sockVars, closeVars, queue, tgt, tmp, ret, user >>

(* tcp_recv() gets a whole request: init_req() and parse_message(). *)
tcp_recv(c, r) ==
  /\ pc["main"] = "idle"
  /\ evt[c] /\ r.conn = c /\ nreq[c] < MaxReq
  /\ nreq' = [nreq EXCEPT ![c] = @ + 1]
  /\ cur' = [cur EXCEPT !["main"] =
               [conn |-> c, fd |-> fd[c], cmd |-> r.cmd, uid |-> r.uid]]
  /\ Goto("main", "add")
  /\ UNCHANGED << sockVars, closeVars, queue, tgt, tmp, ret, user >>

(* queue_put() or queue_cas(), inside the queue's lock.  (A request for a  *)
(* plugin that is busy or unknown leaves nothing behind.)                  *)
PutInQueue ==
  /\ pc["main"] = "put" /\ cur["main"].cmd # "stat"
  /\ \E sync \in SyncFlags :
       queue' = IF sync THEN << cur["main"] >> \o queue
                        ELSE Append(queue, cur["main"])
  /\ Goto("main", "exit")
  /\ UNCHANGED << sockVars, closeVars, nreq, cur, tgt, tmp, ret, user >>

(* A reserved operation is answered on the spot and its entry freed. *)
ServeReserved ==
  /\ pc["main"] = "put" /\ cur["main"].cmd = "stat"
  /\ CallRemoveRef("main", cur["main"].conn, "exit")
  /\ UNCHANGED << sockVars, closeVars, queue, nreq, cur, tmp, user >>

(* The end of process_buf(), which reads and writes the tcp_socket. *)
Exit ==
  /\ pc["main"] = "exit"
  /\ cur' = [cur EXCEPT !["main"] = NoReq]
  /\ Goto("main", "idle")
  /\ UNCHANGED << sockVars, closeVars, queue, nreq, tgt, tmp, ret, user >>

(* End of file, an error or a malformed message: error_exit of tcp_recv()  *)
(* and process_buf(), which closes the socket and then drops its reference.*)
ErrorExit(c) ==
  /\ pc["main"] = "idle"
  /\ evt[c]
  /\ tgt' = [tgt EXCEPT !["main"] = c]
  /\ num' = [num EXCEPT !["main"] = fd[c]]
  /\ then' = [then EXCEPT !["main"] = "remove"]
  /\ ret' = [ret EXCEPT !["main"] = "idle"]
  /\ Goto("main", "close")
  /\ UNCHANGED << sockVars, queue, nreq, cur, tmp, user >>

------------------------------------------------------------------------------
(* The application thread *)

GetEntry ==
  /\ pc["app"] = "idle"
  /\ queue # << >>
  /\ cur' = [cur EXCEPT !["app"] = Head(queue)]
  /\ queue' = Tail(queue)
  /\ Goto("app", IF Head(queue).cmd = "op" THEN "reply" ELSE "find")
  /\ UNCHANGED << sockVars, closeVars, nreq, tgt, tmp, ret, user >>

(* base_user_quit() looks the user up ... *)
FindUser ==
  /\ pc["app"] = "find"
  /\ user' = IF users[cur["app"].uid] = NULL THEN NULL ELSE cur["app"].uid
  /\ Goto("app", "quit")
  /\ UNCHANGED << sockVars, closeVars, queue, nreq, cur, tgt, tmp, ret >>

(* ... and then drops a reference of the user's socket, unless it is a     *)
(* JOIN that comes from that very connection.                              *)
QuitUser ==
  /\ pc["app"] = "quit"
  /\ LET r == cur["app"]
         next == IF r.cmd = "join" THEN "new" ELSE "reply"
     IN  IF \/ user = NULL
            \/ users[user] = NULL
            \/ /\ r.cmd = "join"
               /\ users[user] = [sock |-> r.conn, fd |-> r.fd]
         THEN Goto("app", next) /\ UNCHANGED << tgt, ret >>
         ELSE CallRemoveRef("app", users[user].sock, next)
  /\ user' = NULL
  /\ UNCHANGED << sockVars, closeVars, queue, nreq, cur, tmp >>

(* base_user_new(): a user that exists already is left as it is. *)
NewUser ==
  /\ pc["app"] = "new"
  /\ LET r == cur["app"] IN
       IF users[r.uid] # NULL
       THEN UNCHANGED << users, appdata >>
       ELSE /\ users' = [users EXCEPT ![r.uid] = [sock |-> r.conn, fd |-> r.fd]]
            /\ appdata' = [appdata EXCEPT ![r.conn] = r.uid]
  /\ Goto("app", "reply")
  /\ UNCHANGED << st, refcount, fd, evt, fdtab, closeVars, queue, nreq, cur, tgt, tmp,
                  ret, user >>

(* Mutant: queue_entry_free() keeps the entry's reference. *)
Reply_KeepsRef ==
  /\ pc["app"] = "reply"
  /\ Goto("app", "done")
  /\ UNCHANGED << sockVars, closeVars, queue, nreq, cur, tgt, tmp, ret, user >>

(* The answer goes to the descriptor that the request was copied with. *)
Reply ==
  /\ pc["app"] = "reply"
  /\ CallRemoveRef("app", cur["app"].conn, "done")
  /\ UNCHANGED << sockVars, closeVars, queue, nreq, cur, tmp, user >>

(* The rest of queue_entry_free(). *)
FreeEntry ==
  /\ pc["app"] = "done"
  /\ cur' = [cur EXCEPT !["app"] = NoReq]
  /\ Goto("app", "idle")
  /\ UNCHANGED << sockVars, closeVars, queue, nreq, tgt, tmp, ret, user >>

------------------------------------------------------------------------------
Refs(t) == RemoveRef(t) \/ tcp_socket_free(t)

(* What the main thread does within a callback, and what it does when a    *)
(* client makes it.                                                        *)
MainStep == AddRef \/ PutInQueue \/ ServeReserved \/ Exit \/ Refs("main")
ClientStep == \E c \in Conns : \/ tcp_newconnection(c)
                               \/ \E r \in Requests : tcp_recv(c, r)
                               \/ ErrorExit(c)
AppStep == GetEntry \/ FindUser \/ QuitUser \/ NewUser \/ Reply \/ FreeEntry
           \/ Refs("app")

(* Every connection is over and every request done: the clients are gone. *)
Terminated ==
  /\ \A c \in Conns : st[c] # "none" /\ ~evt[c]
  /\ queue = << >> /\ pc = [t \in Threads |-> "idle"]
  /\ UNCHANGED vars

Next == MainStep \/ ClientStep \/ AppStep \/ Terminated

Spec == Init /\ [][Next]_vars /\ WF_vars(MainStep) /\ WF_vars(AppStep)

------------------------------------------------------------------------------
(* Nothing keeps the two threads from updating one refcount at the same    *)
(* time: each update is a load and a store, and the test for zero may use  *)
(* the value just computed or read it again.                               *)

AddRefLoad ==
  /\ pc["main"] = "add"
  /\ tmp' = [tmp EXCEPT !["main"] = refcount[cur["main"].conn]]
  /\ Goto("main", "addstore")
  /\ UNCHANGED << sockVars, closeVars, queue, nreq, cur, tgt, ret, user >>

AddRefStore ==
  /\ pc["main"] = "addstore"
  /\ refcount' = [refcount EXCEPT ![cur["main"].conn] = tmp["main"] + 1]
  /\ Goto("main", "put")
  /\ UNCHANGED << st, fd, evt, appdata, fdtab, users, closeVars, queue, nreq, cur,
                  tgt, tmp, ret, user >>

RemoveRefLoad(t) ==
  /\ pc[t] = "remove"
  /\ tmp' = [tmp EXCEPT ![t] = refcount[tgt[t]]]
  /\ Goto(t, IF refcount[tgt[t]] <= 0 THEN ret[t] ELSE "removestore")
  /\ UNCHANGED << sockVars, closeVars, queue, nreq, cur, tgt, ret, user >>

RemoveRefStore(t) ==
  /\ pc[t] = "removestore"
  /\ refcount' = [refcount EXCEPT ![tgt[t]] = tmp[t] - 1]
  /\ Goto(t, "removetest")
  /\ UNCHANGED << st, fd, evt, appdata, fdtab, users, closeVars, queue, nreq, cur,
                  tgt, tmp, ret, user >>

RemoveRefTest(t) ==
  /\ pc[t] = "removetest"
  /\ \E v \in {tmp[t] - 1, refcount[tgt[t]]} : Goto(t, IF v = 0 THEN "free" ELSE ret[t])
  /\ then' = [then EXCEPT ![t] = "onclose"]
  /\ UNCHANGED << sockVars, num, queue, nreq, cur, tgt, tmp, ret, user >>

RacingStep ==
  \/ AddRefLoad \/ AddRefStore
  \/ \E t \in Threads : RemoveRefLoad(t) \/ RemoveRefStore(t) \/ RemoveRefTest(t)

RacingSpec == Init /\ [][Next \/ RacingStep]_vars

------------------------------------------------------------------------------
(* Properties *)

(* Where a thread closes a socket, and where it drops a reference and      *)
(* perhaps frees it.                                                       *)
Ending == {"free", "close", "clear", "event", "onclose", "freemem"}
Dropping == {"remove", "removestore", "removetest"} \cup Ending

(* Every variable has its type. *)
TypeOK ==
  /\ st \in [Conns -> {"none", "live", "freed"}]
  /\ refcount \in [Conns -> Int]
  /\ fd \in [Conns -> Fds \cup {NULL}]
  /\ evt \in [Conns -> BOOLEAN]
  /\ appdata \in [Conns -> Uids \cup {NULL}]
  /\ fdtab \in [Fds -> Conns \cup {NULL}]
  /\ queue \in Seq(Entry)
  /\ users \in [Uids -> [sock : Conns, fd : Fds \cup {NULL}] \cup {NULL}]
  /\ nreq \in [Conns -> 0..MaxReq]
  /\ pc \in [Threads -> {"idle", "add", "addstore", "put", "exit", "find", "quit", "new",
                         "reply", "done"} \cup Dropping]
  /\ cur \in [Threads -> Entry \cup {NoReq}]
  /\ tgt \in [Threads -> Conns \cup {NULL}]
  /\ num \in [Threads -> Fds \cup {NULL}]
  /\ then \in [Threads -> {"remove", "onclose"}]
  /\ tmp \in [Threads -> Int]
  /\ ret \in [Threads -> {"idle", "exit", "new", "reply", "done"}]
  /\ user \in Uids \cup {NULL}

(* The threads' entries that own a reference to the socket of c: the main  *)
(* thread's from add_ref to the queue (or to its end, if the main thread   *)
(* serves it), the application thread's until queue_entry_free() has       *)
(* dropped it.                                                             *)
Owning(c) ==
  {t \in Threads :
     /\ cur[t].conn = c
     /\ \/ t = "main" /\ pc[t] \in {"put", "remove"}
        \/ t = "app" /\ pc[t] \notin {"idle", "done"} \cup Ending}

QueuedFor(c) == {i \in 1..Len(queue) : queue[i].conn = c}

(* The connection itself owns one reference while its event is registered, *)
(* until error_exit has dropped it.                                        *)
OwnRef(c) == \/ evt[c]
             \/ pc["main"] = "remove" /\ tgt["main"] = c /\ cur["main"] = NoReq

(* refcount is exactly the number of owners: the registered event, the     *)
(* queued requests and those in work (tcp.c:467-487).                      *)
RefcountExact ==
  \A c \in Conns :
    st[c] = "live" =>
      refcount[c] = Cardinality(Owning(c)) + Cardinality(QueuedFor(c))
                    + (IF OwnRef(c) THEN 1 ELSE 0)

(* "we need a method to make sure tcpsock don't go away suddenly. I pick   *)
(* reference couting here" (queue.h:40): a socket that is still to be      *)
(* dereferenced, for a request that is queued or in work, by a callback    *)
(* that has not returned or by a pending remove_ref, has not been freed,   *)
(* and nobody frees it a second time.                                      *)
SocketHeld ==
  /\ \A i \in 1..Len(queue) : st[queue[i].conn] = "live"
  /\ \A t \in Threads :
       /\ cur[t].conn # NULL /\ pc[t] # "done" => st[cur[t].conn] = "live"
       /\ pc[t] \in Dropping => st[tgt[t]] = "live"

(* tcpsock is kept in the user "so that the main thread can destroy the    *)
(* user when the client drops" (moc_base.h:18, translated): a user exists  *)
(* only while the socket that it joined from does.                         *)
UserDiesWithSocket ==
  \A u \in Uids : users[u] # NULL => st[users[u].sock] = "live"

(* No close() hits a descriptor that is no longer the socket's own: one    *)
(* that error_exit has closed and that the kernel may have handed to       *)
(* another connection is not closed again, by either thread, although the  *)
(* test, the close() and the assignment of -1 are apart (tcp.c:24, 458).   *)
FdOwned ==
  \A t \in Threads : pc[t] = "close" =>
    \A n \in Closing(t) : n # NULL => fdtab[n] = tgt[t]

(* "I can make sure the server's event just used by the main thread only"  *)
(* (net.c:76): no step of the application thread deletes an event.         *)
EventsMainThreadOnly ==
  [][\A c \in Conns : evt'[c] # evt[c] => pc'["app"] = pc["app"]]_vars

(* A reply reaches the connection that sent the request, or nobody: the    *)
(* client waits "for trustable response" (moc.h:35).                       *)
RepliesToRequester ==
  pc["app"] = "reply" /\ cur["app"].fd # NULL =>
    fdtab[cur["app"].fd] \in {NULL, cur["app"].conn}

(* The socket of a connection that is over is freed once its requests are  *)
(* done: the reference counting does not leak.                             *)
ClosedFreed ==
  \A c \in Conns : (st[c] = "live" /\ ~evt[c]) ~> (st[c] = "freed")
==============================================================================
