---------------------------- MODULE ConnLifeProofs ----------------------------
(***************************************************************************)
(* Theorems about the life of a connection, for every set of connections,  *)
(* names, descriptors and requests.                                        *)
(***************************************************************************)
EXTENDS ConnLife, FiniteSetTheorems, SequenceTheorems, TLAPS

Removing == {"remove", "removestore", "removetest"}

(* Where each thread can be, and what it holds there *)
Control ==
  /\ pc["main"] \in {"idle", "add", "addstore", "put", "exit"} \cup Dropping
  /\ pc["app"] \in {"idle", "find", "quit", "new", "reply", "done"} \cup Dropping
  /\ \A t \in Threads : pc[t] \in Dropping => tgt[t] \in Conns
  /\ pc["main"] \in Dropping => ret["main"] \in {"idle", "exit"}
  /\ pc["app"] \in Dropping => ret["app"] \in {"new", "reply", "done"}
  /\ pc["main"] = "idle" => cur["main"] = NoReq
  /\ pc["main"] \in {"add", "addstore", "put", "exit"} => cur["main"] \in Entry
  /\ pc["main"] \in Dropping =>
       IF ret["main"] = "idle" THEN cur["main"] = NoReq ELSE cur["main"] \in Entry
  /\ pc["app"] = "idle" => cur["app"] = NoReq
  /\ pc["app"] # "idle" => cur["app"] \in Entry

TypeInv == TypeOK /\ Control

USE DEF Threads, Removing, Ending, Dropping

LEMMA EntryFacts ==
  ASSUME NEW e \in Entry
  PROVE  /\ e # NoReq /\ e.conn \in Conns /\ e.conn # NULL /\ e.fd \in Fds \cup {NULL}
         /\ e.cmd \in Cmds /\ e.uid \in Uids
  BY NullAssumption DEF Entry, NoReq

LEMMA NoReqFacts == NoReq.conn = NULL /\ NoReq \notin Entry
  BY NullAssumption DEF Entry, NoReq

LEMMA InitTyped == Init => TypeInv
  <1> SUFFICES ASSUME Init PROVE TypeInv
    OBVIOUS
  <1>1. TypeOK
    BY BoundsAssumption DEF Init, TypeOK
  <1>2. Control
    BY DEF Init, Control
  <1> QED BY <1>1, <1>2 DEF TypeInv

(* Closing and freeing a socket, step by step *)
LEMMA FreeTyped ==
  ASSUME TypeInv, NEW t \in Threads, tcp_socket_free(t)
  PROVE  TypeInv'
  <1> USE DEF TypeInv
  <1>1. pc[t] \in Dropping /\ tgt[t] \in Conns
    BY DEF tcp_socket_free, FreeTest, Close, ClearFd, DeleteEvent, CallOnClose, FreeSocket, Control
  <1>2. CASE FreeTest(t)
    BY <1>1, <1>2 DEF TypeOK, Control, FreeTest, Goto, sockVars
  <1>3. CASE Close(t)
    <2>1. PICK n \in Closing(t) : fdtab' = IF n = NULL THEN fdtab ELSE [fdtab EXCEPT ![n] = NULL]
      BY <1>3 DEF Close
    <2>2. fdtab' \in [Fds -> Conns \cup {NULL}]
      BY <1>1, <2>1 DEF Closing, TypeOK
    <2> QED BY <1>1, <1>3, <2>2 DEF TypeOK, Control, Close, Goto, closeVars
  <1>4. CASE ClearFd(t)
    BY <1>1, <1>4 DEF TypeOK, Control, ClearFd, Goto, closeVars
  <1>5. CASE DeleteEvent(t)
    BY <1>1, <1>5 DEF TypeOK, Control, DeleteEvent, Goto, closeVars
  <1>6. CASE CallOnClose(t)
    BY <1>1, <1>6 DEF TypeOK, Control, CallOnClose, on_close, Goto, closeVars
  <1>7. CASE FreeSocket(t)
    BY <1>1, <1>7 DEF TypeOK, Control, FreeSocket, Goto, closeVars
  <1> QED BY <1>2, <1>3, <1>4, <1>5, <1>6, <1>7 DEF tcp_socket_free

LEMMA RacingTyped == TypeInv /\ RacingStep => TypeInv'
  <1> SUFFICES ASSUME TypeInv, RacingStep PROVE TypeInv'
    OBVIOUS
  <1> USE DEF TypeInv
  <1>1. CASE AddRefLoad
    BY <1>1, EntryFacts DEF TypeOK, Control, AddRefLoad, Goto, sockVars, closeVars
  <1>2. CASE AddRefStore
    BY <1>2, EntryFacts DEF TypeOK, Control, AddRefStore, Goto, closeVars
  <1>3. ASSUME NEW t \in Threads, RemoveRefLoad(t) PROVE TypeInv'
    BY <1>3 DEF TypeOK, Control, RemoveRefLoad, Goto, sockVars, closeVars
  <1>4. ASSUME NEW t \in Threads, RemoveRefStore(t) PROVE TypeInv'
    BY <1>4 DEF TypeOK, Control, RemoveRefStore, Goto, closeVars
  <1>5. ASSUME NEW t \in Threads, RemoveRefTest(t) PROVE TypeInv'
    BY <1>5 DEF TypeOK, Control, RemoveRefTest, Goto, sockVars
  <1> QED BY <1>1, <1>2, <1>3, <1>4, <1>5 DEF RacingStep

LEMMA NextTyped == TypeInv /\ [Next]_vars => TypeInv'
  <1> SUFFICES ASSUME TypeInv, [Next]_vars PROVE TypeInv'
    OBVIOUS
  <1> USE DEF TypeInv
  <1>1. CASE AddRef
    BY <1>1, EntryFacts DEF TypeOK, Control, AddRef, Goto, closeVars
  <1>2. CASE PutInQueue
    BY <1>2, EntryFacts DEF TypeOK, Control, PutInQueue, Goto, sockVars, closeVars
  <1>3. CASE ServeReserved
    BY <1>3, EntryFacts DEF TypeOK, Control, ServeReserved, CallRemoveRef, Goto, sockVars, closeVars
  <1>4. CASE Exit
    BY <1>4 DEF TypeOK, Control, Exit, Goto, sockVars, closeVars
  <1>5. ASSUME NEW t \in Threads, Refs(t) PROVE TypeInv'
    <2>1. CASE RemoveRef(t)
      BY <2>1 DEF TypeOK, Control, RemoveRef, Goto
    <2> QED BY <1>5, <2>1, FreeTyped DEF Refs
  <1>6. ASSUME NEW c \in Conns, tcp_newconnection(c) PROVE TypeInv'
    BY <1>6, NullAssumption DEF TypeOK, Control, tcp_newconnection, FreeFds, closeVars
  <1>7. ASSUME NEW c \in Conns, NEW r \in Requests, tcp_recv(c, r) PROVE TypeInv'
    <2>1. cur'["main"] \in Entry
      BY <1>7, RequestsAssumption DEF TypeOK, tcp_recv, Entry
    <2> QED BY <1>7, <2>1, BoundsAssumption DEF TypeOK, Control, tcp_recv, Goto, sockVars, closeVars
  <1>8. ASSUME NEW c \in Conns, ErrorExit(c) PROVE TypeInv'
    BY <1>8 DEF TypeOK, Control, ErrorExit, Goto, sockVars
  <1>9. CASE GetEntry
    <2>1. Head(queue) \in Entry /\ Tail(queue) \in Seq(Entry)
      BY <1>9 DEF GetEntry, TypeOK
    <2> QED BY <1>9, <2>1 DEF TypeOK, Control, GetEntry, Goto, sockVars, closeVars
  <1>10. CASE FindUser
    BY <1>10, EntryFacts DEF TypeOK, Control, FindUser, Goto, sockVars, closeVars
  <1>11. CASE QuitUser
    <2>1. user # NULL /\ users[user] # NULL => users[user].sock \in Conns
      BY DEF TypeOK
    <2>2. CASE pc' = [pc EXCEPT !["app"] = IF cur["app"].cmd = "join" THEN "new" ELSE "reply"] /\ UNCHANGED << tgt, ret >>
      BY <1>11, <2>2 DEF TypeOK, Control, QuitUser, sockVars, closeVars
    <2>3. CASE /\ user # NULL /\ users[user] # NULL
               /\ CallRemoveRef("app", users[user].sock, IF cur["app"].cmd = "join" THEN "new" ELSE "reply")
      BY <1>11, <2>1, <2>3 DEF TypeOK, Control, QuitUser, CallRemoveRef, Goto, sockVars, closeVars
    <2> QED BY <1>11, <2>2, <2>3 DEF QuitUser, Goto
  <1>12. CASE NewUser
    <2>1. cur["app"] \in Entry
      BY <1>12 DEF NewUser, Control
    <2>2. [sock |-> cur["app"].conn, fd |-> cur["app"].fd] \in [sock : Conns, fd : Fds \cup {NULL}]
      BY <2>1, EntryFacts
    <2>3. /\ users' \in [Uids -> [sock : Conns, fd : Fds \cup {NULL}] \cup {NULL}]
          /\ appdata' \in [Conns -> Uids \cup {NULL}]
      BY <1>12, <2>1, <2>2, EntryFacts DEF TypeOK, NewUser
    <2> QED BY <1>12, <2>3 DEF TypeOK, Control, NewUser, Goto, closeVars
  <1>13. CASE Reply
    BY <1>13, EntryFacts DEF TypeOK, Control, Reply, CallRemoveRef, Goto, sockVars, closeVars
  <1>14. CASE FreeEntry
    BY <1>14 DEF TypeOK, Control, FreeEntry, Goto, sockVars, closeVars
  <1>15. CASE UNCHANGED vars
    BY <1>15 DEF TypeOK, Control, vars, sockVars, closeVars
  <1> QED
    BY <1>1, <1>2, <1>3, <1>4, <1>5, <1>6, <1>7, <1>8, <1>9, <1>10, <1>11, <1>12,
       <1>13, <1>14, <1>15
    DEF Next, MainStep, ClientStep, AppStep, Terminated

(* Whatever the two threads interleave, QUITs, freed sockets and updates   *)
(* of refcount that overlap included, every variable of the connections,   *)
(* queue and users keeps its type (tcp.c, base_internal.c).                *)
THEOREM TypeCorrect == (Spec => []TypeOK) /\ (RacingSpec => []TypeOK)
  <1>1. TypeInv => TypeOK
    BY DEF TypeInv
  <1>2. TypeInv /\ [Next \/ RacingStep]_vars => TypeInv'
    BY NextTyped, RacingTyped
  <1>3. Spec => []TypeOK
    BY <1>1, InitTyped, NextTyped, PTL DEF Spec
  <1>4. RacingSpec => []TypeOK
    BY <1>1, <1>2, InitTyped, PTL DEF RacingSpec
  <1> QED BY <1>3, <1>4

-------------------------------------------------------------------------------
(* Reference counts, under the conditions of the run conn_life: the        *)
(* updates do not overlap (Spec), nobody sends QUIT and no two connections *)
(* join under one name.  Each is needed: an overlapping update loses a     *)
(* count, and a QUIT and a JOIN under a name that is in use drop a         *)
(* reference that was never taken.                                         *)

NobodyQuits == \A r \in Requests : r.cmd # "quit"
Joins(c, u) == \E r \in Requests : r.cmd = "join" /\ r.conn = c /\ r.uid = u
OneConnPerName == \A c, d \in Conns, u \in Uids : Joins(c, u) /\ Joins(d, u) => c = d
OneNamePerConn == \A c \in Conns, u, v \in Uids : Joins(c, u) /\ Joins(c, v) => u = v

(* An entry is one of the requests; one of the plugin's is no "stat" *)
Sent(e) == e.cmd # "quit" /\ (e.cmd = "join" => Joins(e.conn, e.uid))
ForPlugin(e) == Sent(e) /\ e.cmd # "stat"

Provenance ==
  /\ \A i \in 1..Len(queue) : ForPlugin(queue[i])
  /\ pc["main"] # "idle" => Sent(cur["main"])
  /\ pc["app"] # "idle" => ForPlugin(cur["app"])
  /\ pc["app"] \in {"find", "quit", "new"} => cur["app"].cmd = "join"
  /\ pc["app"] = "quit" => user \in {NULL, cur["app"].uid}
  /\ \A u \in Uids : users[u] # NULL => Joins(users[u].sock, u)
  /\ \A c \in Conns : appdata[c] # NULL => Joins(c, appdata[c])

(* The event loop is in error_exit and has not forgotten the event yet *)
LoopCloses == \/ pc["main"] \in {"close", "clear"}
              \/ pc["main"] = "event" /\ then["main"] = "remove"

(* Each reference is dropped by its owner, and the event loop's only after *)
(* it has closed the socket.                                               *)
OwnersDrop ==
  /\ \A t \in Threads : pc[t] \notin {"addstore", "removestore", "removetest"}
  /\ pc["main"] \in {"close", "clear"} => then["main"] = "remove"
  /\ pc["app"] \notin {"close", "clear"}
  /\ pc["app"] = "event" => then["app"] = "onclose"
  /\ \A t \in Threads : pc[t] \in {"free", "onclose", "freemem"} => then[t] = "onclose"
  /\ pc["main"] \in Dropping =>
       IF cur["main"] = NoReq THEN evt[tgt["main"]] <=> LoopCloses
                              ELSE pc["main"] = "remove" /\ tgt["main"] = cur["main"].conn
  /\ pc["app"] \in Dropping => tgt["app"] = cur["app"].conn /\ ret["app"] = "done"
  /\ cur["main"] # NoReq => evt[cur["main"].conn]

(* t is in tcp_socket_free(c), which has no descriptor and no event left,  *)
(* and no other thread is.                                                 *)
Freeing(t, c) ==
  /\ tgt[t] = c /\ then[t] = "onclose"
  /\ pc[t] \in {"free", "event", "onclose", "freemem"}
FreedOnce ==
  /\ \A t \in Threads, c \in Conns : Freeing(t, c) =>
       /\ st[c] = "live" /\ refcount[c] = 0 /\ ~evt[c] /\ fd[c] = NULL
       /\ pc[t] = "freemem" => appdata[c] = NULL
  /\ \A c \in Conns : ~(Freeing("main", c) /\ Freeing("app", c))

(* A socket has a descriptor, its own, as long as its event is registered, *)
(* but for the steps of error_exit.                                        *)
Descriptors ==
  /\ \A c \in Conns : evt[c] => fd[c] # NULL \/ (pc["main"] = "event" /\ tgt["main"] = c)
  /\ \A c \in Conns : ~evt[c] => fd[c] = NULL
  /\ \A c \in Conns : fd[c] # NULL => fdtab[fd[c]] = c \/ (pc["main"] = "clear" /\ tgt["main"] = c)
  /\ pc["main"] = "close" => num["main"] = fd[tgt["main"]]
  /\ pc["main"] = "event" => fd[tgt["main"]] = NULL

(* The references to the socket of c, and who owns them *)
One(b) == IF b THEN 1 ELSE 0
MainOwns(c) == cur["main"].conn = c /\ pc["main"] \in {"put", "remove"}
AppOwns(c) == cur["app"].conn = c /\ pc["app"] \notin {"idle", "done"} \cup Ending
Ledger(c) == One(MainOwns(c)) + One(AppOwns(c)) + Cardinality(QueuedFor(c)) + One(OwnRef(c))

(* refcount counts the owners, and a socket that is not there has none *)
Balanced ==
  \A c \in Conns : IF st[c] = "live" THEN refcount[c] = Ledger(c) ELSE Ledger(c) = 0

(* The descriptors by which entries, users and the socket itself know the  *)
(* connection: one for its whole life                                      *)
KnownBy(c, f) ==
  \/ \E i \in 1..Len(queue) : queue[i].conn = c /\ queue[i].fd = f
  \/ \E t \in Threads : cur[t].conn = c /\ cur[t].fd = f
  \/ \E u \in Uids : users[u] # NULL /\ users[u].sock = c /\ users[u].fd = f
  \/ fd[c] = f /\ f # NULL
MaybeFd == Fds \cup {NULL}
OneFd ==
  \A c \in Conns, f \in MaybeFd :
     KnownBy(c, f) => st[c] # "none" /\ \A g \in MaybeFd : KnownBy(c, g) => f = g

RefInv == /\ TypeInv /\ Provenance /\ OwnersDrop /\ Balanced /\ OneFd
          /\ FreedOnce /\ Descriptors

LEMMA OwningCount ==
  ASSUME NEW c \in Conns
  PROVE  Cardinality(Owning(c)) = One(MainOwns(c)) + One(AppOwns(c))
  <1>1. Owning(c) = (IF MainOwns(c) THEN {"main"} ELSE {}) \cup (IF AppOwns(c) THEN {"app"} ELSE {})
    BY DEF Owning, MainOwns, AppOwns
  <1>2. Cardinality({}) = 0 /\ Cardinality({"main"}) = 1 /\ Cardinality({"app"}) = 1
        /\ Cardinality({"main", "app"}) = 2
    <2>1. Cardinality({}) = 0 /\ Cardinality({"main"}) = 1 /\ Cardinality({"app"}) = 1 /\ IsFiniteSet({"main"})
      BY FS_EmptySet, FS_Singleton
    <2>2. Cardinality({"main"} \cup {"app"}) = 2
      <3>1. "app" \notin {"main"}
        OBVIOUS
      <3> DEFINE S == {"main"}
      <3>2. IsFiniteSet(S) /\ Cardinality(S) = 1 /\ "app" \notin S
        BY <2>1, <3>1
      <3> HIDE DEF S
      <3>3. Cardinality(S \cup {"app"}) = 1 + 1
        BY <3>2, FS_AddElement
      <3> QED BY <3>3 DEF S
    <2>3. {"main"} \cup {"app"} = {"main", "app"}
      OBVIOUS
    <2> QED BY <2>1, <2>2, <2>3
  <1>3. CASE MainOwns(c) /\ AppOwns(c)
    <2>1. Owning(c) = {"main", "app"}
      BY <1>1, <1>3
    <2> QED BY <1>2, <1>3, <2>1 DEF One
  <1>4. CASE ~(MainOwns(c) /\ AppOwns(c))
    BY <1>1, <1>2, <1>4 DEF One
  <1> QED BY <1>3, <1>4

LEMMA BalancedExact == Balanced => RefcountExact
  BY OwningCount DEF Balanced, RefcountExact, Ledger, One

(* The queue's share of the references, as the queue grows and shrinks *)
Positions(q, c) == {i \in 1..Len(q) : q[i].conn = c}

LEMMA PositionsFinite ==
  ASSUME NEW q \in Seq(Entry), NEW c
  PROVE  IsFiniteSet(Positions(q, c)) /\ Cardinality(Positions(q, c)) \in Nat
  <1>1. IsFiniteSet(1..Len(q))
    BY FS_Interval
  <1>2. Positions(q, c) \subseteq 1..Len(q)
    BY DEF Positions
  <1> QED BY <1>1, <1>2, FS_Subset, FS_CardinalityType

LEMMA PositionsAppend ==
  ASSUME NEW q \in Seq(Entry), NEW e \in Entry, NEW c
  PROVE  Cardinality(Positions(Append(q, e), c)) = Cardinality(Positions(q, c)) + One(e.conn = c)
  <1>1. Len(q) \in Nat /\ Len(Append(q, e)) = Len(q) + 1 /\ Append(q, e)[Len(q) + 1] = e
        /\ \A i \in 1..Len(q) : Append(q, e)[i] = q[i]
    BY AppendProperties
  <1>2. Positions(Append(q, e), c) = Positions(q, c) \cup (IF e.conn = c THEN {Len(q) + 1} ELSE {})
    BY <1>1 DEF Positions
  <1>3. Len(q) + 1 \notin Positions(q, c)
    BY <1>1 DEF Positions
  <1>4. IsFiniteSet(Positions(q, c)) /\ Cardinality(Positions(q, c)) \in Nat
    BY PositionsFinite
  <1>5. CASE e.conn = c
    <2>1. Cardinality(Positions(q, c) \cup {Len(q) + 1}) = Cardinality(Positions(q, c)) + 1
      BY <1>3, <1>4, FS_AddElement
    <2> QED BY <1>2, <1>5, <2>1 DEF One
  <1>6. CASE e.conn # c
    <2>1. Positions(Append(q, e), c) = Positions(q, c)
      BY <1>2, <1>6
    <2> QED BY <2>1, <1>4, <1>6 DEF One
  <1> QED BY <1>5, <1>6

LEMMA PositionsPrepend ==
  ASSUME NEW q \in Seq(Entry), NEW e \in Entry, NEW c
  PROVE  Cardinality(Positions(<< e >> \o q, c)) = Cardinality(Positions(q, c)) + One(e.conn = c)
  <1> DEFINE p == << e >> \o q
             Later == {i \in 2..Len(p) : p[i].conn = c}
  <1>1. /\ Len(q) \in Nat /\ Len(p) = Len(q) + 1 /\ p[1] = e
        /\ \A i \in 1..Len(q) : p[i + 1] = q[i]
    <2>1. << e >> \in Seq(Entry) /\ Len(<< e >>) = 1 /\ << e >>[1] = e
      OBVIOUS
    <2> QED BY <2>1, ConcatProperties
  <1>2. IsFiniteSet(Positions(q, c)) /\ Cardinality(Positions(q, c)) \in Nat
    BY PositionsFinite
  <1>3. IsFiniteSet(Later) /\ Cardinality(Later) = Cardinality(Positions(q, c))
    <2> DEFINE shift == [i \in Positions(q, c) |-> i + 1]
    <2>1. ASSUME NEW j \in Later PROVE \E i \in Positions(q, c) : shift[i] = j
      <3>1. j - 1 \in 1..Len(q) /\ (j - 1) + 1 = j
        BY <1>1
      <3>2. p[j] = q[j - 1]
        BY <3>1, <1>1
      <3> QED BY <3>1, <3>2 DEF Positions
    <2>2. ASSUME NEW i \in Positions(q, c) PROVE shift[i] \in Later
      <3>1. i \in 1..Len(q) /\ q[i].conn = c
        BY DEF Positions
      <3>2. i + 1 \in 2..Len(p) /\ p[i + 1] = q[i]
        BY <1>1, <3>1
      <3> QED BY <3>1, <3>2
    <2>3. ASSUME NEW i \in Positions(q, c), NEW j \in Positions(q, c), shift[i] = shift[j] PROVE i = j
      BY <2>3 DEF Positions
    <2>4. ExistsBijection(Positions(q, c), Later)
      <3>1. shift \in Bijection(Positions(q, c), Later)
        BY <2>1, <2>2, <2>3 DEF Bijection, Injection, Surjection, IsInjective
      <3> QED BY <3>1 DEF ExistsBijection
    <2> QED BY <1>2, <2>4, FS_Bijection
  <1>4. Positions(p, c) = Later \cup (IF e.conn = c THEN {1} ELSE {}) /\ 1 \notin Later
    BY <1>1 DEF Positions
  <1>5. CASE e.conn = c
    <2>1. Cardinality(Later \cup {1}) = Cardinality(Later) + 1
      BY <1>3, <1>4, FS_AddElement
    <2> QED BY <1>3, <1>4, <1>5, <2>1 DEF One
  <1>6. CASE e.conn # c
    <2>1. Positions(p, c) = Later
      BY <1>4, <1>6
    <2>2. Cardinality(Positions(p, c)) = Cardinality(Positions(q, c))
      BY <2>1, <1>3
    <2>3. One(e.conn = c) = 0
      BY <1>6 DEF One
    <2> HIDE DEF p
    <2> QED BY <2>2, <2>3, <1>2 DEF p
  <1> QED BY <1>5, <1>6

LEMMA PositionsTail ==
  ASSUME NEW q \in Seq(Entry), q # << >>, NEW c
  PROVE  Cardinality(Positions(q, c)) = Cardinality(Positions(Tail(q), c)) + One(Head(q).conn = c)
  <1>1. PICK h \in Entry, r \in Seq(Entry) : h = Head(q) /\ r = Tail(q) /\ q = << h >> \o r
    <2>1. Head(q) \in Entry /\ Tail(q) \in Seq(Entry) /\ q = << Head(q) >> \o Tail(q)
      OBVIOUS
    <2> QED BY <2>1
  <1>2. Cardinality(Positions(<< h >> \o r, c)) = Cardinality(Positions(r, c)) + One(h.conn = c)
    BY PositionsPrepend
  <1>3. Positions(q, c) = Positions(<< h >> \o r, c) /\ Positions(Tail(q), c) = Positions(r, c)
    BY <1>1
  <1>4. One(Head(q).conn = c) = One(h.conn = c)
    BY <1>1
  <1> QED BY <1>2, <1>3, <1>4

LEMMA LedgerTyped ==
  ASSUME TypeOK, NEW c \in Conns
  PROVE  /\ Cardinality(QueuedFor(c)) \in Nat /\ Ledger(c) \in Nat
         /\ evt[c] => OwnRef(c)
         /\ MainOwns(c) \/ AppOwns(c) \/ OwnRef(c) => Ledger(c) > 0
         /\ OwnRef(c) /\ (MainOwns(c) \/ AppOwns(c)) => Ledger(c) > 1
  <1>1. QueuedFor(c) = Positions(queue, c)
    BY DEF QueuedFor, Positions
  <1>2. Cardinality(QueuedFor(c)) \in Nat
    BY <1>1, PositionsFinite DEF TypeOK
  <1> QED BY <1>2 DEF Ledger, One, OwnRef

(* Who owns a reference is alive; an event that is registered keeps its    *)
(* socket alive whoever else drops a reference.                            *)
LEMMA OwnersLive ==
  ASSUME TypeOK, Balanced, NEW c \in Conns
  PROVE  /\ evt[c] \/ MainOwns(c) \/ AppOwns(c) \/ OwnRef(c) => st[c] = "live"
         /\ st[c] = "live" => refcount[c] = Ledger(c)
  BY LedgerTyped DEF Balanced

(* base_user_quit() of a JOIN finds the user of the same connection and    *)
(* drops nothing.                                                          *)
LEMMA QuitDropsNothing ==
  ASSUME RefInv, OneConnPerName, QuitUser
  PROVE  pc' = [pc EXCEPT !["app"] = "new"] /\ UNCHANGED << tgt, ret >>
  <1> DEFINE r == cur["app"]
  <1>1. r \in Entry /\ r.cmd = "join" /\ user \in {NULL, r.uid} /\ Joins(r.conn, r.uid)
    BY DEF RefInv, TypeInv, Control, Provenance, ForPlugin, Sent, QuitUser
  <1>2. ASSUME user # NULL, users[user] # NULL
        PROVE  users[user] = [sock |-> r.conn, fd |-> r.fd]
    <2>1. user = r.uid /\ user \in Uids /\ users[user] \in [sock : Conns, fd : MaybeFd]
      BY <1>1, <1>2 DEF RefInv, TypeInv, TypeOK, MaybeFd
    <2>2. users[user].sock = r.conn
      BY <1>1, <1>2, <2>1, EntryFacts DEF RefInv, Provenance, OneConnPerName
    <2>3. KnownBy(r.conn, users[user].fd) /\ KnownBy(r.conn, r.fd)
      BY <1>2, <2>1, <2>2 DEF KnownBy
    <2>4. users[user].fd = r.fd
      BY <1>1, <2>1, <2>3, EntryFacts DEF RefInv, OneFd, MaybeFd
    <2> QED BY <2>1, <2>2, <2>4
  <1> QED BY <1>1, <1>2 DEF QuitUser, Goto

(* tcp_socket_free() belongs to the last owner, and the steps that close a *)
(* descriptor and delete an event to the event loop's error_exit.          *)
LEMMA FreeSteps ==
  ASSUME RefInv, NEW t \in Threads, tcp_socket_free(t)
  PROVE  /\ pc[t] \in Ending /\ tgt[t] \in Conns
         /\ Close(t) \/ ClearFd(t) => t = "main" /\ LoopCloses
         /\ FreeTest(t) => Freeing(t, tgt[t]) /\ pc' = [pc EXCEPT ![t] = "event"]
         /\ CallOnClose(t) \/ FreeSocket(t) => Freeing(t, tgt[t])
         /\ DeleteEvent(t) => Freeing(t, tgt[t]) \/ (t = "main" /\ LoopCloses)
         /\ UNCHANGED << refcount, queue, nreq, cur, tgt, then, tmp, ret, user >>
  <1> USE DEF RefInv, TypeInv
  <1>1. pc[t] \in Ending /\ tgt[t] \in Conns
    BY DEF tcp_socket_free, FreeTest, Close, ClearFd, DeleteEvent, CallOnClose, FreeSocket, Control
  <1>2. UNCHANGED << refcount, queue, nreq, cur, tgt, then, tmp, ret, user >>
    BY DEF tcp_socket_free, FreeTest, Close, ClearFd, DeleteEvent, CallOnClose, FreeSocket, sockVars, closeVars
  <1>3. Close(t) \/ ClearFd(t) => t = "main" /\ LoopCloses
    BY DEF Close, ClearFd, OwnersDrop, LoopCloses
  <1>4. ASSUME FreeTest(t) PROVE Freeing(t, tgt[t]) /\ pc' = [pc EXCEPT ![t] = "event"]
    <2>1. Freeing(t, tgt[t])
      BY <1>4 DEF FreeTest, Freeing, OwnersDrop
    <2>2. fd[tgt[t]] = NULL
      BY <1>1, <2>1 DEF FreedOnce
    <2> QED BY <1>4, <2>1, <2>2 DEF FreeTest, Goto
  <1>5. CallOnClose(t) \/ FreeSocket(t) => Freeing(t, tgt[t])
    BY DEF CallOnClose, FreeSocket, Freeing, OwnersDrop
  <1>6. DeleteEvent(t) => Freeing(t, tgt[t]) \/ (t = "main" /\ LoopCloses)
    BY DEF DeleteEvent, Freeing, OwnersDrop, LoopCloses, TypeOK
  <1> QED BY <1>1, <1>2, <1>3, <1>4, <1>5, <1>6

(* What dropping a reference, closing and freeing may change *)
LEMMA RefsEffect ==
  ASSUME RefInv, NEW t \in Threads, Refs(t)
  PROVE  /\ pc[t] \in Dropping /\ tgt[t] \in Conns
         /\ \E l \in Ending \cup {"remove", ret[t]} : pc' = [pc EXCEPT ![t] = l]
         /\ \A u \in Uids : users'[u] \in {NULL, users[u]}
         /\ \A c \in Conns : /\ appdata'[c] \in {NULL, appdata[c]} /\ fd'[c] \in {NULL, fd[c]}
                             /\ st'[c] \in {"freed", st[c]} /\ (evt'[c] => evt[c])
         /\ UNCHANGED << queue, nreq, cur, tgt, tmp, ret, user >>
  <1> USE DEF RefInv, TypeInv, TypeOK, Goto
  <1>1. CASE RemoveRef(t)
    BY <1>1 DEF RemoveRef, Control
  <1>2. CASE FreeTest(t)
    BY <1>2, FreeSteps DEF tcp_socket_free, FreeTest, sockVars
  <1>3. CASE Close(t)
    BY <1>3, FreeSteps DEF tcp_socket_free, Close
  <1>4. CASE ClearFd(t)
    BY <1>4, FreeSteps DEF tcp_socket_free, ClearFd
  <1>5. CASE DeleteEvent(t)
    BY <1>5, FreeSteps DEF tcp_socket_free, DeleteEvent
  <1>6. CASE CallOnClose(t)
    BY <1>6, FreeSteps DEF tcp_socket_free, CallOnClose, on_close
  <1>7. CASE FreeSocket(t)
    BY <1>7, FreeSteps DEF tcp_socket_free, FreeSocket
  <1> QED BY <1>1, <1>2, <1>3, <1>4, <1>5, <1>6, <1>7 DEF Refs, tcp_socket_free

(* The event of a socket that has requests in work stays registered *)
LEMMA EventsStay ==
  ASSUME RefInv, NEW t \in Threads, Refs(t)
  PROVE  /\ \A c \in Conns : evt'[c] # evt[c] => t = "main" /\ pc[t] = "event" /\ LoopCloses /\ c = tgt["main"]
         /\ cur["main"] # NoReq => evt' = evt
  <1> USE DEF RefInv, TypeInv
  <1>1. CASE DeleteEvent(t) /\ Freeing(t, tgt[t])
    <2>1. tgt[t] \in Conns /\ ~evt[tgt[t]]
      BY <1>1, FreeSteps DEF FreedOnce, tcp_socket_free
    <2>2. evt' = evt
      BY <1>1, <2>1 DEF DeleteEvent, TypeOK
    <2> QED BY <2>2
  <1>2. CASE DeleteEvent(t) /\ t = "main" /\ LoopCloses
    BY <1>2, FreeSteps DEF DeleteEvent, TypeOK, OwnersDrop, tcp_socket_free
  <1>3. CASE ~DeleteEvent(t)
    BY <1>3 DEF Refs, tcp_socket_free, RemoveRef, FreeTest, Close, ClearFd, CallOnClose, FreeSocket, sockVars
  <1> QED BY <1>1, <1>2, <1>3, FreeSteps DEF tcp_socket_free

LEMMA NextProvenance ==
  ASSUME RefInv, [Next]_vars, NobodyQuits, OneConnPerName
  PROVE  Provenance'
  <1> USE DEF RefInv
  <1>1. CASE AddRef \/ ServeReserved \/ Exit
    BY <1>1 DEF Provenance, AddRef, ServeReserved, Exit, CallRemoveRef, Goto, sockVars, ForPlugin, Sent, TypeInv, TypeOK, NoReq
  <1>2. CASE PutInQueue
    BY <1>2 DEF Provenance, PutInQueue, Goto, sockVars, ForPlugin, Sent, TypeInv, TypeOK
  <1>3. ASSUME NEW t \in Threads, Refs(t) PROVE Provenance'
    <2>1. pc'["main"] # "idle" => pc["main"] # "idle"
      BY <1>3, RefsEffect DEF TypeInv, TypeOK
    <2>2. /\ pc'["app"] # "idle" => pc["app"] # "idle"
          /\ pc'["app"] \in {"find", "quit", "new"} => pc'["app"] = pc["app"]
      BY <1>3, RefsEffect DEF TypeInv, TypeOK, OwnersDrop
    <2>3. UNCHANGED << queue, cur, user >>
      BY <1>3, RefsEffect
    <2>4. /\ \A u \in Uids : users'[u] # NULL => Joins(users'[u].sock, u)
          /\ \A c \in Conns : appdata'[c] # NULL => Joins(c, appdata'[c])
      BY <1>3, RefsEffect DEF Provenance
    <2> QED BY <2>1, <2>2, <2>3, <2>4 DEF Provenance, ForPlugin, Sent
  <1>4. ASSUME NEW c \in Conns, tcp_newconnection(c) \/ ErrorExit(c) PROVE Provenance'
    <2>1. UNCHANGED << queue, cur, user, users >> /\ pc'["app"] = pc["app"] /\ cur["main"] = NoReq
      BY <1>4 DEF tcp_newconnection, ErrorExit, Goto, TypeInv, TypeOK, Control, sockVars
    <2>2. \A d \in Conns : appdata'[d] \in {NULL, appdata[d]}
      BY <1>4 DEF tcp_newconnection, ErrorExit, TypeInv, TypeOK, sockVars
    <2>3. Sent(NoReq)
      BY DEF Sent, NoReq
    <2> QED BY <2>1, <2>2, <2>3 DEF Provenance, ForPlugin, Sent
  <1>5. ASSUME NEW c \in Conns, NEW r \in Requests, tcp_recv(c, r) PROVE Provenance'
    <2>1. Sent(cur["main"])'
      BY <1>5 DEF tcp_recv, Sent, Joins, NobodyQuits, TypeInv, TypeOK
    <2> QED BY <1>5, <2>1 DEF Provenance, tcp_recv, Goto, ForPlugin, Sent, TypeInv, TypeOK, sockVars
  <1>6. CASE GetEntry
    <2>1. queue \in Seq(Entry) /\ queue # << >>
      BY <1>6 DEF GetEntry, TypeInv, TypeOK
    <2>2. /\ Head(queue) = queue[1] /\ 1 \in 1..Len(queue) /\ Len(Tail(queue)) = Len(queue) - 1
          /\ \A i \in 1..Len(Tail(queue)) : Tail(queue)[i] = queue[i + 1] /\ i + 1 \in 1..Len(queue)
      BY <2>1
    <2>3. \A i \in 1..Len(queue') : ForPlugin(queue'[i])
      BY <1>6, <2>2 DEF GetEntry, Provenance
    <2>4. ForPlugin(Head(queue)) /\ Head(queue) \in Entry
      BY <2>1, <2>2 DEF Provenance
    <2>5. Head(queue).cmd \in {"op", "join"}
      BY <2>4, EntryFacts DEF ForPlugin, Sent, Cmds
    <2>6. /\ cur'["app"] = Head(queue) /\ cur'["main"] = cur["main"] /\ pc'["main"] = pc["main"]
          /\ pc'["app"] = IF Head(queue).cmd = "op" THEN "reply" ELSE "find"
          /\ UNCHANGED << users, appdata >>
      BY <1>6 DEF GetEntry, Goto, TypeInv, TypeOK, sockVars
    <2> QED BY <2>3, <2>4, <2>5, <2>6 DEF Provenance, ForPlugin, Sent
  <1>7. CASE FindUser
    BY <1>7 DEF Provenance, FindUser, Goto, sockVars, ForPlugin, Sent, TypeInv, TypeOK, Control
  <1>8. CASE QuitUser
    BY <1>8, QuitDropsNothing DEF Provenance, QuitUser, sockVars, ForPlugin, Sent, TypeInv, TypeOK, Control
  <1>9. CASE NewUser
    <2>1. cur["app"] \in Entry /\ Joins(cur["app"].conn, cur["app"].uid)
      BY <1>9 DEF NewUser, Provenance, ForPlugin, Sent, TypeInv, Control
    <2>2. PICK b : b = [sock |-> cur["app"].conn, fd |-> cur["app"].fd]
      OBVIOUS
    <2>3. /\ users' \in {users, [users EXCEPT ![cur["app"].uid] = b]}
          /\ appdata' \in {appdata, [appdata EXCEPT ![cur["app"].conn] = cur["app"].uid]}
      BY <1>9, <2>2 DEF NewUser
    <2>5. b.sock = cur["app"].conn
      BY <2>2
    <2>6. \A u \in Uids : users'[u] # NULL => Joins(users'[u].sock, u)
      BY <2>1, <2>3, <2>5 DEF Provenance, TypeInv, TypeOK
    <2>7. \A c \in Conns : appdata'[c] # NULL => Joins(c, appdata'[c])
      BY <2>1, <2>3 DEF Provenance, TypeInv, TypeOK
    <2>4. UNCHANGED << queue, cur, user >> /\ pc'["main"] = pc["main"] /\ pc'["app"] = "reply" /\ pc["app"] = "new"
      BY <1>9 DEF NewUser, Goto, TypeInv, TypeOK
    <2> QED BY <2>4, <2>6, <2>7 DEF Provenance, ForPlugin, Sent
  <1>10. CASE Reply \/ FreeEntry
    BY <1>10 DEF Provenance, Reply, FreeEntry, CallRemoveRef, Goto, sockVars, ForPlugin, Sent, TypeInv, TypeOK
  <1>11. CASE UNCHANGED vars
    BY <1>11 DEF Provenance, vars, sockVars, ForPlugin, Sent
  <1> QED
    BY <1>1, <1>2, <1>3, <1>4, <1>5, <1>6, <1>7, <1>8, <1>9, <1>10, <1>11
    DEF Next, MainStep, ClientStep, AppStep, Terminated

LEMMA NextOwnersDrop ==
  ASSUME RefInv, [Next]_vars, NobodyQuits, OneConnPerName
  PROVE  OwnersDrop'
  <1> USE DEF RefInv, TypeInv, LoopCloses
  <1>1. CASE AddRef
    BY <1>1 DEF OwnersDrop, AddRef, Goto, TypeOK, closeVars
  <1>2. CASE PutInQueue
    BY <1>2 DEF OwnersDrop, PutInQueue, Goto, TypeOK, sockVars, closeVars
  <1>3. CASE ServeReserved
    BY <1>3, NoReqFacts DEF OwnersDrop, ServeReserved, CallRemoveRef, Goto, TypeOK, sockVars, closeVars, Control
  <1>4. CASE Exit
    BY <1>4 DEF OwnersDrop, Exit, Goto, TypeOK, sockVars, closeVars
  <1>5. ASSUME NEW t \in Threads, RemoveRef(t) PROVE OwnersDrop'
    <2>1. CASE t = "main" /\ cur["main"] = NoReq
      <3>1. ~evt[tgt["main"]] /\ ret["main"] = "idle"
        BY <1>5, <2>1, NoReqFacts DEF RemoveRef, OwnersDrop, Control
      <3> QED BY <1>5, <2>1, <3>1 DEF RemoveRef, OwnersDrop, TypeOK, Goto
    <2>2. CASE t = "main" /\ cur["main"] # NoReq
      <3> DEFINE c == cur["main"].conn
      <3>1. c \in Conns /\ evt[c] /\ OwnRef(c) /\ st[c] = "live" /\ tgt["main"] = c /\ MainOwns(c) /\ ret["main"] = "exit"
        BY <1>5, <2>2, EntryFacts, NoReqFacts, OwnersLive DEF RemoveRef, OwnersDrop, TypeOK, OwnRef, MainOwns, Control
      <3>2. refcount[c] > 1
        BY <3>1, LedgerTyped, OwnersLive
      <3> QED BY <1>5, <2>2, <3>1, <3>2 DEF RemoveRef, OwnersDrop, TypeOK, Goto
    <2>3. CASE t = "app"
      BY <1>5, <2>3 DEF RemoveRef, OwnersDrop, TypeOK, Goto
    <2> QED BY <2>1, <2>2, <2>3
  <1>6. ASSUME NEW t \in Threads, tcp_socket_free(t) PROVE OwnersDrop'
    <2>0. cur["main"] # NoReq => evt' = evt /\ t # "main"
      BY <1>6, EventsStay, FreeSteps DEF Refs, OwnersDrop
    <2>1. CASE FreeTest(t)
      <3>1. Freeing(t, tgt[t]) /\ pc' = [pc EXCEPT ![t] = "event"] /\ pc[t] = "free" /\ tgt[t] \in Conns
        BY <1>6, <2>1, FreeSteps DEF FreeTest
      <3>2. then[t] = "onclose"
        BY <3>1 DEF Freeing
      <3> QED BY <2>1, <3>1, <3>2 DEF FreeTest, OwnersDrop, TypeOK, sockVars
    <2>2. CASE Close(t)
      BY <1>6, <2>2, FreeSteps DEF Close, OwnersDrop, TypeOK, Goto, closeVars
    <2>3. CASE ClearFd(t)
      BY <1>6, <2>3, FreeSteps DEF ClearFd, OwnersDrop, TypeOK, Goto, closeVars
    <2>4. CASE DeleteEvent(t) /\ Freeing(t, tgt[t])
      <3>1. tgt[t] \in Conns /\ ~evt[tgt[t]] /\ then[t] = "onclose"
        BY <1>6, <2>4, FreeSteps DEF FreedOnce, Freeing, DeleteEvent
      <3>2. evt' = evt /\ pc' = [pc EXCEPT ![t] = "onclose"] /\ pc[t] = "event"
        BY <2>4, <3>1 DEF DeleteEvent, TypeOK, Goto
      <3> QED BY <2>4, <3>1, <3>2 DEF DeleteEvent, OwnersDrop, TypeOK, closeVars
    <2>5. CASE DeleteEvent(t) /\ t = "main" /\ LoopCloses
      BY <1>6, <2>0, <2>5, FreeSteps DEF DeleteEvent, OwnersDrop, TypeOK, Goto, closeVars
    <2>6. CASE CallOnClose(t)
      BY <1>6, <2>6, FreeSteps DEF CallOnClose, OwnersDrop, TypeOK, Goto, closeVars
    <2>7. CASE FreeSocket(t)
      BY <1>6, <2>7, FreeSteps DEF FreeSocket, OwnersDrop, TypeOK, Goto, closeVars, Control
    <2> QED BY <1>6, <2>1, <2>2, <2>3, <2>4, <2>5, <2>6, <2>7, FreeSteps DEF tcp_socket_free
  <1>7. ASSUME NEW c \in Conns, tcp_newconnection(c) PROVE OwnersDrop'
    <2>1. cur["main"] = NoReq /\ pc["main"] = "idle" /\ pc' = pc /\ UNCHANGED << cur, tgt, ret, closeVars >>
      BY <1>7 DEF tcp_newconnection, Control
    <2> QED BY <2>1 DEF OwnersDrop, closeVars
  <1>8. ASSUME NEW c \in Conns, NEW r \in Requests, tcp_recv(c, r) PROVE OwnersDrop'
    BY <1>8 DEF OwnersDrop, tcp_recv, Goto, TypeOK, sockVars, closeVars
  <1>9. ASSUME NEW c \in Conns, ErrorExit(c) PROVE OwnersDrop'
    BY <1>9 DEF OwnersDrop, ErrorExit, Goto, TypeOK, Control, sockVars
  <1>10. CASE GetEntry \/ FindUser \/ NewUser \/ FreeEntry
    BY <1>10 DEF OwnersDrop, GetEntry, FindUser, NewUser, FreeEntry, Goto, TypeOK, sockVars, closeVars
  <1>11. CASE QuitUser
    BY <1>11, QuitDropsNothing DEF OwnersDrop, QuitUser, TypeOK, sockVars, closeVars
  <1>12. CASE Reply
    BY <1>12 DEF OwnersDrop, Reply, CallRemoveRef, Goto, TypeOK, sockVars, closeVars
  <1>13. CASE UNCHANGED vars
    BY <1>13 DEF OwnersDrop, vars, sockVars, closeVars
  <1> QED
    BY <1>1, <1>2, <1>3, <1>4, <1>5, <1>6, <1>7, <1>8, <1>9, <1>10, <1>11, <1>12, <1>13
    DEF Next, MainStep, ClientStep, AppStep, Terminated, Refs

(* No reference is taken or dropped, and no owner comes or goes. *)
LEMMA SameLedger ==
  ASSUME TypeOK, Balanced, UNCHANGED << st, refcount, queue >>,
         \A c \in Conns : /\ MainOwns(c)' <=> MainOwns(c)
                          /\ AppOwns(c)' <=> AppOwns(c)
                          /\ OwnRef(c)' <=> OwnRef(c)
  PROVE  Balanced'
  <1>1. ASSUME NEW c \in Conns PROVE Ledger(c)' = Ledger(c)
    <2>1. QueuedFor(c)' = QueuedFor(c)
      BY DEF QueuedFor
    <2> QED BY <2>1 DEF Ledger, One
  <1> QED BY <1>1 DEF Balanced

LEMMA NextBalanced ==
  ASSUME RefInv, [Next]_vars, NobodyQuits, OneConnPerName
  PROVE  Balanced'
  <1> USE DEF RefInv, TypeInv
  <1>1. CASE AddRef
    <2>1. PICK d \in Conns : d = cur["main"].conn /\ cur["main"] \in Entry
      BY <1>1, EntryFacts DEF AddRef, Control
    <2>2. st[d] = "live"
      BY <2>1, OwnersLive, EntryFacts DEF OwnersDrop
    <2>3. UNCHANGED << st, evt, queue, cur, tgt >> /\ pc' = [pc EXCEPT !["main"] = "put"]
          /\ refcount' = [refcount EXCEPT ![d] = @ + 1]
      BY <1>1, <2>1 DEF AddRef, Goto
    <2>4. ASSUME NEW c \in Conns
          PROVE  IF st'[c] = "live" THEN refcount'[c] = Ledger(c)' ELSE Ledger(c)' = 0
      <3>1. QueuedFor(c)' = QueuedFor(c)
        BY <2>3 DEF QueuedFor
      <3>2. /\ MainOwns(c)' <=> c = d
            /\ ~MainOwns(c)
            /\ AppOwns(c)' <=> AppOwns(c)
            /\ OwnRef(c)' <=> OwnRef(c)
        BY <1>1, <2>1, <2>3 DEF AddRef, MainOwns, AppOwns, OwnRef, TypeOK
      <3>3. Ledger(c)' = Ledger(c) + One(c = d)
        BY <3>1, <3>2, LedgerTyped DEF Ledger, One
      <3> QED BY <2>2, <2>3, <3>3, LedgerTyped DEF Balanced, One, TypeOK
    <2> QED BY <2>4 DEF Balanced
  <1>2. CASE PutInQueue
    <2>1. cur["main"] \in Entry
      BY <1>2 DEF PutInQueue, Control
    <2>2. UNCHANGED << st, evt, refcount, cur, tgt >> /\ pc' = [pc EXCEPT !["main"] = "exit"]
      BY <1>2 DEF PutInQueue, Goto, sockVars
    <2>3. queue' = Append(queue, cur["main"]) \/ queue' = << cur["main"] >> \o queue
      BY <1>2 DEF PutInQueue
    <2>4. ASSUME NEW c \in Conns PROVE Ledger(c)' = Ledger(c)
      <3>1. Cardinality(Positions(queue', c)) = Cardinality(Positions(queue, c)) + One(cur["main"].conn = c)
        <4>1. CASE queue' = Append(queue, cur["main"])
          BY <2>1, <4>1, PositionsAppend DEF TypeOK
        <4>2. CASE queue' = << cur["main"] >> \o queue
          BY <2>1, <4>2, PositionsPrepend DEF TypeOK
        <4> QED BY <2>3, <4>1, <4>2
      <3>2. QueuedFor(c)' = Positions(queue', c) /\ QueuedFor(c) = Positions(queue, c)
        BY DEF QueuedFor, Positions
      <3>3. /\ MainOwns(c) <=> cur["main"].conn = c
            /\ ~MainOwns(c)'
            /\ AppOwns(c)' <=> AppOwns(c)
            /\ OwnRef(c)' <=> OwnRef(c)
        BY <1>2, <2>1, <2>2 DEF PutInQueue, MainOwns, AppOwns, OwnRef, TypeOK
      <3> QED BY <3>1, <3>2, <3>3, LedgerTyped DEF Ledger, One
    <2> QED BY <2>2, <2>4 DEF Balanced
  <1>3. CASE ServeReserved
    BY <1>3, SameLedger, NoReqFacts
    DEF ServeReserved, CallRemoveRef, Goto, sockVars, MainOwns, AppOwns, OwnRef, TypeOK, Control
  <1>4. CASE Exit
    BY <1>4, SameLedger DEF Exit, Goto, sockVars, MainOwns, AppOwns, OwnRef, TypeOK
  <1>5. ASSUME NEW t \in Threads, RemoveRef(t) PROVE Balanced'
    <2>1. /\ tgt[t] \in Conns /\ UNCHANGED << st, evt, queue, cur, tgt, ret >> /\ pc[t] = "remove"
          /\ pc' = [pc EXCEPT ![t] = IF refcount[tgt[t]] = 1 THEN "free" ELSE ret[t]]
      BY <1>5 DEF RemoveRef, Goto, Control
    <2>2. PICK d \in Conns : d = tgt[t]
      BY <2>1
    <2>3. st[d] = "live" /\ refcount[d] = Ledger(d) /\ Ledger(d) \in Nat \ {0}
      <3>1. MainOwns(d) \/ AppOwns(d) \/ OwnRef(d)
        BY <2>1, <2>2 DEF OwnersDrop, MainOwns, AppOwns, OwnRef
      <3> QED BY <3>1, OwnersLive, LedgerTyped
    <2>4. ASSUME NEW c \in Conns PROVE Ledger(c)' = Ledger(c) - One(c = d)
      <3>1. QueuedFor(c)' = QueuedFor(c)
        BY <2>1 DEF QueuedFor
      <3>3. CASE t = "app"
        <4>1. ret["app"] = "done" /\ d = cur["app"].conn /\ pc["app"] = "remove"
          BY <2>1, <2>2, <3>3 DEF OwnersDrop
        <4>2. /\ MainOwns(c)' <=> MainOwns(c)
              /\ OwnRef(c)' <=> OwnRef(c)
              /\ AppOwns(c) <=> c = d
              /\ ~AppOwns(c)'
          BY <2>1, <3>3, <4>1 DEF MainOwns, AppOwns, OwnRef, TypeOK
        <4> QED BY <3>1, <4>2, LedgerTyped DEF Ledger, One
      <3>4. CASE t = "main" /\ cur["main"] # NoReq
        <4>1. ret["main"] = "exit" /\ d = cur["main"].conn /\ pc["main"] = "remove"
          BY <2>1, <2>2, <3>4 DEF OwnersDrop, Control
        <4>2. /\ MainOwns(c) <=> c = d
              /\ ~MainOwns(c)'
              /\ OwnRef(c)' <=> OwnRef(c)
              /\ AppOwns(c)' <=> AppOwns(c)
          BY <2>1, <3>4, <4>1 DEF MainOwns, AppOwns, OwnRef, TypeOK
        <4> QED BY <3>1, <4>2, LedgerTyped DEF Ledger, One
      <3>5. CASE t = "main" /\ cur["main"] = NoReq
        <4>1. ret["main"] = "idle" /\ pc["main"] = "remove" /\ ~evt[d]
          BY <2>1, <2>2, <3>5, NoReqFacts DEF OwnersDrop, LoopCloses, Control
        <4>2. /\ MainOwns(c)' <=> MainOwns(c)
              /\ AppOwns(c)' <=> AppOwns(c)
              /\ OwnRef(c) <=> evt[c] \/ c = d
              /\ OwnRef(c)' <=> evt[c]
          BY <2>1, <2>2, <3>5, <4>1, NoReqFacts, NullAssumption DEF MainOwns, AppOwns, OwnRef, TypeOK
        <4> QED BY <3>1, <4>1, <4>2, LedgerTyped DEF Ledger, One
      <3> QED BY <3>3, <3>4, <3>5
    <2>5. refcount' = [refcount EXCEPT ![d] = refcount[d] - 1]
      <3>1. refcount[d] > 0
        BY <2>3
      <3> QED BY <1>5, <2>2, <3>1 DEF RemoveRef
    <2>6. ASSUME NEW c \in Conns
          PROVE  IF st'[c] = "live" THEN refcount'[c] = Ledger(c)' ELSE Ledger(c)' = 0
      <3>1. CASE c # d
        <4>1. Ledger(c)' = Ledger(c)
          BY <2>4, <3>1, LedgerTyped DEF One
        <4> QED BY <2>1, <2>5, <3>1, <4>1 DEF Balanced, TypeOK
      <3>2. CASE c = d
        <4>1. Ledger(d)' = Ledger(d) - 1
          BY <2>4 DEF One
        <4> QED BY <2>1, <2>3, <2>5, <3>2, <4>1 DEF TypeOK
      <3> QED BY <3>1, <3>2
    <2> QED BY <2>6 DEF Balanced
  <1>15. ASSUME NEW t \in Threads, tcp_socket_free(t) PROVE Balanced'
    <2>1. /\ pc[t] \in Ending /\ tgt[t] \in Conns /\ UNCHANGED << refcount, queue, cur, tgt, ret >>
          /\ \E l \in Ending \cup {"remove", ret[t]} : pc' = [pc EXCEPT ![t] = l]
      BY <1>15, FreeSteps, RefsEffect DEF Refs
    <2>2. CASE DeleteEvent(t) /\ t = "main" /\ LoopCloses
      <3>1. cur["main"] = NoReq /\ then["main"] = "remove" /\ evt[tgt["main"]]
        BY <2>1, <2>2 DEF OwnersDrop, DeleteEvent, LoopCloses
      <3> QED BY <2>1, <2>2, <3>1, SameLedger, NoReqFacts, NullAssumption
              DEF DeleteEvent, MainOwns, AppOwns, OwnRef, TypeOK, Goto
    <2>3. CASE ~FreeSocket(t) /\ ~(DeleteEvent(t) /\ t = "main" /\ LoopCloses)
      <3>0. ASSUME DeleteEvent(t) PROVE evt' = evt
        <4>1. ~evt[tgt[t]]
          BY <1>15, <2>1, <2>3, <3>0, FreeSteps DEF FreedOnce
        <4> QED BY <3>0, <4>1 DEF DeleteEvent, TypeOK
      <3>1. evt' = evt /\ UNCHANGED st
        BY <1>15, <2>3, <3>0
        DEF tcp_socket_free, FreeTest, Close, ClearFd, DeleteEvent, CallOnClose, sockVars
      <3>2. pc'[t] \in Ending
        BY <1>15, <2>3, FreeSteps
        DEF tcp_socket_free, FreeTest, Close, ClearFd, DeleteEvent, CallOnClose, Freeing, Goto, TypeOK
      <3> QED BY <2>1, <3>1, <3>2, SameLedger DEF MainOwns, AppOwns, OwnRef, TypeOK
    <2>4. CASE FreeSocket(t)
      <3>1. PICK d \in Conns : d = tgt[t]
        BY <2>1
      <3>2. Freeing(t, d) /\ st[d] = "live" /\ refcount[d] = 0 /\ Ledger(d) = 0
        BY <1>15, <2>4, <3>1, FreeSteps, OwnersLive DEF FreedOnce
      <3>3. /\ st' = [st EXCEPT ![d] = "freed"] /\ UNCHANGED evt
            /\ pc' = [pc EXCEPT ![t] = ret[t]] /\ pc[t] = "freemem"
        BY <2>4, <3>1 DEF FreeSocket, Goto
      <3>4. ASSUME NEW c \in Conns PROVE Ledger(c)' = Ledger(c)
        <4>1. QueuedFor(c)' = QueuedFor(c)
          BY <2>1 DEF QueuedFor
        <4>2. ret["app"] = "done" \/ t = "main"
          BY <2>1 DEF OwnersDrop
        <4>3. /\ MainOwns(c)' <=> MainOwns(c)
              /\ AppOwns(c)' <=> AppOwns(c)
              /\ OwnRef(c)' <=> OwnRef(c)
          BY <2>1, <3>3, <4>2 DEF MainOwns, AppOwns, OwnRef, TypeOK, Control
        <4> QED BY <4>1, <4>3 DEF Ledger, One
      <3> QED BY <2>1, <3>2, <3>3, <3>4 DEF Balanced, TypeOK
    <2> QED BY <2>2, <2>3, <2>4
  <1>6. ASSUME NEW d \in Conns, tcp_newconnection(d) PROVE Balanced'
    <2>1. ASSUME NEW c \in Conns PROVE Ledger(c)' = Ledger(c) + One(c = d)
      <3>1. QueuedFor(c)' = QueuedFor(c)
        BY <1>6 DEF tcp_newconnection, QueuedFor
      <3>2. ~OwnRef(d)
        BY <1>6, OwnersLive DEF tcp_newconnection
      <3>3. /\ MainOwns(c)' <=> MainOwns(c)
            /\ AppOwns(c)' <=> AppOwns(c)
            /\ OwnRef(c)' <=> OwnRef(c) \/ c = d
        BY <1>6 DEF tcp_newconnection, MainOwns, AppOwns, OwnRef, TypeOK
      <3> QED BY <3>1, <3>2, <3>3, LedgerTyped DEF Ledger, One
    <2>2. Ledger(d) = 0
      BY <1>6 DEF tcp_newconnection, Balanced
    <2>3. /\ st' = [st EXCEPT ![d] = "live"]
          /\ refcount' = [refcount EXCEPT ![d] = 1]
      BY <1>6 DEF tcp_newconnection
    <2>4. ASSUME NEW c \in Conns
          PROVE  IF st'[c] = "live" THEN refcount'[c] = Ledger(c)' ELSE Ledger(c)' = 0
      <3>1. CASE c = d
        BY <2>1, <2>2, <2>3, <3>1 DEF One, TypeOK
      <3>2. CASE c # d
        <4>1. Ledger(c)' = Ledger(c)
          BY <2>1, <3>2, LedgerTyped DEF One
        <4> QED BY <2>3, <3>2, <4>1 DEF Balanced, TypeOK
      <3> QED BY <3>1, <3>2
    <2> QED BY <2>4 DEF Balanced
  <1>7. ASSUME NEW d \in Conns, NEW r \in Requests, tcp_recv(d, r) PROVE Balanced'
    BY <1>7, SameLedger DEF tcp_recv, Goto, sockVars, MainOwns, AppOwns, OwnRef, TypeOK
  <1>8. ASSUME NEW d \in Conns, ErrorExit(d) PROVE Balanced'
    BY <1>8, SameLedger, NoReqFacts, NullAssumption
    DEF ErrorExit, Goto, MainOwns, AppOwns, OwnRef, TypeOK, Control, sockVars
  <1>9. CASE GetEntry
    <2>1. queue \in Seq(Entry) /\ queue # << >>
      BY <1>9 DEF GetEntry, TypeOK
    <2>2. /\ UNCHANGED << st, evt, refcount, tgt >> /\ queue' = Tail(queue)
          /\ cur' = [cur EXCEPT !["app"] = Head(queue)] /\ pc["app"] = "idle"
          /\ pc' = [pc EXCEPT !["app"] = IF Head(queue).cmd = "op" THEN "reply" ELSE "find"]
      BY <1>9 DEF GetEntry, Goto, sockVars
    <2>3. ASSUME NEW c \in Conns PROVE Ledger(c)' = Ledger(c)
      <3>1. Cardinality(Positions(queue, c)) = Cardinality(Positions(queue', c)) + One(Head(queue).conn = c)
        BY <2>1, <2>2, PositionsTail
      <3>2. QueuedFor(c)' = Positions(queue', c) /\ QueuedFor(c) = Positions(queue, c)
        BY DEF QueuedFor, Positions
      <3>3. queue' \in Seq(Entry) /\ Cardinality(Positions(queue', c)) \in Nat
        <4>1. Tail(queue) \in Seq(Entry)
          BY <2>1
        <4> QED BY <2>2, <4>1, PositionsFinite
      <3>4. /\ MainOwns(c)' <=> MainOwns(c)
            /\ OwnRef(c)' <=> OwnRef(c)
            /\ ~AppOwns(c)
            /\ AppOwns(c)' <=> Head(queue).conn = c
        BY <2>2 DEF MainOwns, AppOwns, OwnRef, TypeOK
      <3> QED BY <3>1, <3>2, <3>3, <3>4, LedgerTyped DEF Ledger, One
    <2> QED BY <2>2, <2>3 DEF Balanced
  <1>10. CASE FindUser \/ NewUser
    BY <1>10, SameLedger DEF FindUser, NewUser, Goto, sockVars, MainOwns, AppOwns, OwnRef, TypeOK
  <1>11. CASE QuitUser
    BY <1>11, SameLedger, QuitDropsNothing DEF QuitUser, sockVars, MainOwns, AppOwns, OwnRef, TypeOK
  <1>12. CASE Reply
    BY <1>12, SameLedger DEF Reply, CallRemoveRef, Goto, sockVars, MainOwns, AppOwns, OwnRef, TypeOK
  <1>13. CASE FreeEntry
    BY <1>13, SameLedger, NoReqFacts, NullAssumption DEF FreeEntry, Goto, sockVars, MainOwns, AppOwns, OwnRef, TypeOK
  <1>14. CASE UNCHANGED vars
    BY <1>14, SameLedger DEF vars, sockVars, MainOwns, AppOwns, OwnRef
  <1> QED
    BY <1>1, <1>2, <1>3, <1>4, <1>5, <1>6, <1>7, <1>8, <1>9, <1>10, <1>11, <1>12, <1>13, <1>14, <1>15
    DEF Next, MainStep, ClientStep, AppStep, Terminated, Refs

LEMMA SameFds ==
  ASSUME OneFd, \A c \in Conns, f \in MaybeFd : KnownBy(c, f)' => KnownBy(c, f),
         \A c \in Conns : st'[c] = "none" => st[c] = "none"
  PROVE  OneFd'
  BY DEF OneFd

LEMMA NextOneFd ==
  ASSUME RefInv, [Next]_vars, NobodyQuits, OneConnPerName
  PROVE  OneFd'
  <1> USE DEF RefInv, TypeInv
  <1>1. CASE UNCHANGED << st, fd, queue, cur, users >>
    BY <1>1, SameFds DEF KnownBy
  <1>2. CASE PutInQueue
    <2>1. cur["main"] \in Entry /\ UNCHANGED << st, fd, cur, users >>
      BY <1>2 DEF PutInQueue, Control, sockVars
    <2>2. \A i \in 1..Len(queue') : queue'[i] = cur["main"] \/ \E j \in 1..Len(queue) : queue'[i] = queue[j]
      <3>1. CASE queue' = Append(queue, cur["main"])
        BY <2>1, <3>1 DEF TypeOK
      <3>2. CASE queue' = << cur["main"] >> \o queue
        <4>1. /\ Len(queue') = Len(queue) + 1 /\ Len(queue) \in Nat /\ queue'[1] = cur["main"]
              /\ \A i \in 1..Len(queue') : i > 1 => queue'[i] = queue[i - 1] /\ i - 1 \in 1..Len(queue)
          <5>1. << cur["main"] >> \in Seq(Entry) /\ Len(<< cur["main"] >>) = 1 /\ << cur["main"] >>[1] = cur["main"]
            BY <2>1
          <5> QED BY <3>2, <5>1, ConcatProperties DEF TypeOK
        <4> QED BY <4>1
      <3> QED BY <1>2, <3>1, <3>2 DEF PutInQueue
    <2> QED BY <2>1, <2>2, SameFds DEF KnownBy
  <1>3. CASE Exit \/ FreeEntry
    <2>1. /\ UNCHANGED << st, fd, queue, users >>
          /\ \A t \in Threads : cur'[t] = NoReq \/ cur'[t] = cur[t]
      BY <1>3 DEF Exit, FreeEntry, sockVars, TypeOK
    <2> QED BY <2>1, SameFds, NoReqFacts, NullAssumption DEF KnownBy
  <1>4. ASSUME NEW t \in Threads, Refs(t) PROVE OneFd'
    <2>1. /\ UNCHANGED << queue, cur >>
          /\ \A u \in Uids : users'[u] \in {NULL, users[u]}
          /\ \A c \in Conns : fd'[c] \in {NULL, fd[c]} /\ st'[c] \in {"freed", st[c]}
      BY <1>4, RefsEffect
    <2>2. ASSUME NEW c \in Conns, NEW f \in MaybeFd, KnownBy(c, f)' PROVE KnownBy(c, f)
      BY <2>1, <2>2, NullAssumption DEF KnownBy
    <2> QED BY <2>1, <2>2, SameFds
  <1>5. ASSUME NEW d \in Conns, tcp_newconnection(d) PROVE OneFd'
    <2>1. PICK g \in Fds : fd' = [fd EXCEPT ![d] = g]
      BY <1>5 DEF tcp_newconnection, FreeFds
    <2>2. UNCHANGED << queue, cur, users >> /\ st' = [st EXCEPT ![d] = "live"] /\ st[d] = "none"
      BY <1>5 DEF tcp_newconnection
    <2>3. ASSUME NEW c \in Conns, NEW f \in MaybeFd
          PROVE  KnownBy(c, f)' => KnownBy(c, f) \/ (c = d /\ f = g)
      BY <2>1, <2>2 DEF KnownBy, TypeOK
    <2>4. \A f \in MaybeFd : ~KnownBy(d, f)
      BY <2>2 DEF OneFd
    <2> QED BY <2>2, <2>3, <2>4 DEF OneFd, TypeOK
  <1>6. ASSUME NEW d \in Conns, NEW r \in Requests, tcp_recv(d, r) PROVE OneFd'
    <2>1. /\ UNCHANGED << st, fd, queue, users >> /\ cur'["app"] = cur["app"]
          /\ cur'["main"].conn = d /\ cur'["main"].fd = fd[d] /\ fd[d] # NULL
      BY <1>6 DEF tcp_recv, sockVars, TypeOK, Descriptors
    <2> QED BY <2>1, SameFds DEF KnownBy
  <1>7. ASSUME NEW d \in Conns, ErrorExit(d) PROVE OneFd'
    <2>1. UNCHANGED << st, queue, cur, users >> /\ \A c \in Conns : fd'[c] \in {NULL, fd[c]}
      BY <1>7 DEF ErrorExit, TypeOK, sockVars
    <2> QED BY <2>1, SameFds, NullAssumption DEF KnownBy
  <1>8. CASE GetEntry
    <2>1. queue \in Seq(Entry) /\ queue # << >> /\ UNCHANGED << st, fd, users >>
          /\ cur'["main"] = cur["main"] /\ cur'["app"] = Head(queue) /\ queue' = Tail(queue)
      BY <1>8 DEF GetEntry, TypeOK, sockVars
    <2>2. /\ \E j \in 1..Len(queue) : Head(queue) = queue[j]
          /\ \A i \in 1..Len(Tail(queue)) : \E j \in 1..Len(queue) : Tail(queue)[i] = queue[j]
      <3>1. /\ Head(queue) = queue[1] /\ 1 \in 1..Len(queue) /\ Len(Tail(queue)) = Len(queue) - 1
            /\ \A i \in 1..Len(Tail(queue)) : Tail(queue)[i] = queue[i + 1] /\ i + 1 \in 1..Len(queue)
        BY <2>1
      <3> QED BY <3>1
    <2>3. ASSUME NEW c \in Conns, NEW f \in MaybeFd, KnownBy(c, f)' PROVE KnownBy(c, f)
      BY <2>1, <2>2, <2>3 DEF KnownBy
    <2> QED BY <2>1, <2>3, SameFds
  <1>9. CASE NewUser
    <2>1. PICK b : b = [sock |-> cur["app"].conn, fd |-> cur["app"].fd]
      OBVIOUS
    <2>2. b.sock = cur["app"].conn /\ b.fd = cur["app"].fd
      BY <2>1
    <2>3. UNCHANGED << st, fd, queue, cur >> /\ users' \in {users, [users EXCEPT ![cur["app"].uid] = b]}
      BY <1>9, <2>1 DEF NewUser
    <2>4. \A u \in Uids : users'[u] \in {users[u], b}
      BY <2>3 DEF TypeOK
    <2>5. ASSUME NEW c \in Conns, NEW f \in MaybeFd, KnownBy(c, f)' PROVE KnownBy(c, f)
      BY <2>2, <2>3, <2>4, <2>5 DEF KnownBy
    <2> QED BY <2>3, <2>5, SameFds
  <1> QED
    BY <1>1, <1>2, <1>3, <1>4, <1>5, <1>6, <1>7, <1>8, <1>9
    DEF Next, MainStep, ClientStep, AppStep, Terminated, vars, sockVars, AddRef, ServeReserved, FindUser,
        QuitUser, Reply

LEMMA NextFreedOnce ==
  ASSUME RefInv, [Next]_vars, NobodyQuits, OneConnPerName
  PROVE  FreedOnce'
  <1> USE DEF RefInv, TypeInv
  <1>1. ASSUME UNCHANGED << st, refcount, evt, fd, appdata >>,
               \A t \in Threads, c \in Conns : Freeing(t, c)' => Freeing(t, c) /\ pc'[t] = pc[t]
        PROVE  FreedOnce'
    BY <1>1 DEF FreedOnce
  <1>2. CASE AddRef
    <2>1. cur["main"].conn \in Conns /\ evt[cur["main"].conn]
      BY <1>2, EntryFacts DEF AddRef, Control, OwnersDrop
    <2>2. /\ UNCHANGED << st, evt, fd, appdata, tgt, then >>
          /\ \A c \in Conns : ~evt[c] => refcount'[c] = refcount[c]
      BY <1>2, <2>1 DEF AddRef, TypeOK, closeVars
    <2>3. \A t \in Threads, c \in Conns : Freeing(t, c)' => Freeing(t, c) /\ pc'[t] = pc[t]
      BY <1>2, <2>2 DEF AddRef, Goto, Freeing, TypeOK
    <2> QED BY <2>2, <2>3 DEF FreedOnce
  <1>3. CASE PutInQueue \/ ServeReserved \/ Exit
    BY <1>1, <1>3 DEF PutInQueue, ServeReserved, Exit, CallRemoveRef, Goto, Freeing, TypeOK, sockVars, closeVars
  <1>4. ASSUME NEW t \in Threads, RemoveRef(t) PROVE FreedOnce'
    <2>1. PICK d \in Conns : d = tgt[t]
      BY <1>4 DEF RemoveRef, Control
    <2>2. st[d] = "live" /\ refcount[d] = Ledger(d) /\ Ledger(d) \in Nat \ {0}
      <3>1. MainOwns(d) \/ AppOwns(d) \/ OwnRef(d)
        BY <1>4, <2>1 DEF RemoveRef, OwnersDrop, MainOwns, AppOwns, OwnRef
      <3> QED BY <3>1, OwnersLive, LedgerTyped
    <2>3. refcount[d] = 1 => ~evt[d]
      <3>1. evt[d] => OwnRef(d) /\ (MainOwns(d) \/ AppOwns(d))
        <4>1. CASE t = "app"
          BY <1>4, <2>1, <4>1 DEF RemoveRef, OwnersDrop, AppOwns, OwnRef
        <4>2. CASE t = "main"
          BY <1>4, <2>1, <4>2 DEF RemoveRef, OwnersDrop, MainOwns, OwnRef, LoopCloses
        <4> QED BY <4>1, <4>2
      <3>2. evt[d] => Ledger(d) > 1
        BY <3>1, LedgerTyped
      <3> QED BY <3>2, <2>2
    <2>4. /\ UNCHANGED << st, evt, fd, appdata, tgt >> /\ pc[t] = "remove"
          /\ refcount' = [refcount EXCEPT ![d] = refcount[d] - 1]
          /\ pc' = [pc EXCEPT ![t] = IF refcount[d] = 1 THEN "free" ELSE ret[t]]
          /\ then' = [then EXCEPT ![t] = "onclose"]
      <3>1. refcount[d] > 0
        BY <2>2
      <3> QED BY <1>4, <2>1, <3>1 DEF RemoveRef, Goto
    <2>5. ASSUME NEW s \in Threads, NEW c \in Conns, Freeing(s, c)'
          PROVE  \/ Freeing(s, c) /\ s # t /\ c # d /\ pc'[s] = pc[s]
                 \/ s = t /\ c = d /\ refcount[d] = 1
      <3>1. CASE s = t
        BY <2>1, <2>4, <2>5, <3>1 DEF Freeing, TypeOK, Control
      <3>2. CASE s # t
        <4>1. Freeing(s, c) /\ pc'[s] = pc[s]
          BY <2>4, <2>5, <3>2 DEF Freeing, TypeOK
        <4> QED BY <2>2, <3>2, <4>1 DEF FreedOnce
      <3> QED BY <3>1, <3>2
    <2>6. \A s \in Threads, c \in Conns : Freeing(s, c)' =>
            /\ st'[c] = "live" /\ refcount'[c] = 0 /\ ~evt'[c] /\ fd'[c] = NULL
            /\ pc'[s] = "freemem" => appdata'[c] = NULL
      BY <2>2, <2>3, <2>4, <2>5 DEF FreedOnce, Descriptors, TypeOK
    <2>7. \A c \in Conns : ~(Freeing("main", c)' /\ Freeing("app", c)')
      BY <2>5 DEF FreedOnce
    <2> QED BY <2>6, <2>7 DEF FreedOnce
  <1>5. ASSUME NEW t \in Threads, tcp_socket_free(t) PROVE FreedOnce'
    <2>0. PICK d \in Conns : d = tgt[t]
      BY <1>5, FreeSteps
    <2>1. UNCHANGED << refcount, tgt, then >> /\ \A s \in Threads : s # t => pc'[s] = pc[s]
      BY <1>5, FreeSteps, RefsEffect DEF Refs, TypeOK
    <2>2. \A s \in Threads, c \in Conns : Freeing(s, c)' => Freeing(s, c)
      <3>1. ASSUME NEW s \in Threads, NEW c \in Conns, Freeing(s, c)' PROVE Freeing(s, c)
        <4>1. CASE s # t
          BY <2>1, <3>1, <4>1 DEF Freeing
        <4>2. CASE s = t /\ (Close(t) \/ ClearFd(t))
          BY <1>5, <2>1, <3>1, <4>2, FreeSteps DEF Freeing, OwnersDrop, LoopCloses, Close, ClearFd
        <4>3. CASE s = t /\ (FreeTest(t) \/ CallOnClose(t) \/ FreeSocket(t) \/ DeleteEvent(t))
          BY <2>1, <3>1, <4>3 DEF Freeing, FreeTest, CallOnClose, FreeSocket, DeleteEvent
        <4> QED BY <1>5, <4>1, <4>2, <4>3 DEF tcp_socket_free
      <3> QED BY <3>1
    <2>3. \A c \in Conns : ~evt[c] => ~evt'[c]
      BY <1>5, RefsEffect DEF Refs
    <2>4. \A c \in Conns : (fd[c] = NULL => fd'[c] = NULL) /\ (appdata[c] = NULL => appdata'[c] = NULL)
      BY <1>5, RefsEffect DEF Refs
    <2>5. ASSUME NEW s \in Threads, NEW c \in Conns, Freeing(s, c)'
          PROVE  st'[c] = "live" /\ (pc'[s] = "freemem" => appdata'[c] = NULL)
      <3>1. Freeing(s, c) /\ st[c] = "live"
        BY <2>2, <2>5 DEF FreedOnce
      <3>2. CASE FreeSocket(t)
        <4>1. Freeing(t, d) /\ ~Freeing(t, d)'
          BY <1>5, <2>0, <3>2, FreeSteps DEF FreeSocket, Goto, Freeing, TypeOK, Control
        <4>2. c # d
          BY <2>5, <3>1, <4>1 DEF FreedOnce
        <4> QED BY <2>0, <2>1, <2>5, <3>1, <3>2, <4>1, <4>2 DEF FreeSocket, TypeOK, FreedOnce, Freeing
      <3>3. CASE CallOnClose(t)
        BY <2>0, <2>1, <2>4, <2>5, <3>1, <3>3 DEF CallOnClose, TypeOK, FreedOnce, Freeing
      <3>4. CASE ~FreeSocket(t) /\ ~CallOnClose(t)
        <4>1. UNCHANGED << st, appdata >>
          BY <1>5, <3>4 DEF tcp_socket_free, FreeTest, Close, ClearFd, DeleteEvent, sockVars
        <4>2. pc'[t] # "freemem"
          BY <1>5, <3>4, FreeSteps
          DEF tcp_socket_free, FreeTest, Close, ClearFd, DeleteEvent, Goto, TypeOK
        <4> QED BY <2>1, <3>1, <4>1, <4>2 DEF FreedOnce
      <3> QED BY <3>2, <3>3, <3>4
    <2> QED BY <2>1, <2>2, <2>3, <2>4, <2>5 DEF FreedOnce
  <1>6. ASSUME NEW d \in Conns, tcp_newconnection(d) PROVE FreedOnce'
    <2>1. /\ st[d] = "none" /\ UNCHANGED << pc, tgt, then >>
          /\ \A c \in Conns : c # d => /\ st'[c] = st[c] /\ refcount'[c] = refcount[c] /\ evt'[c] = evt[c]
                                       /\ fd'[c] = fd[c] /\ appdata'[c] = appdata[c]
      BY <1>6 DEF tcp_newconnection, TypeOK, closeVars
    <2>2. \A t \in Threads : ~Freeing(t, d)
      BY <2>1 DEF FreedOnce
    <2>3. \A t \in Threads, c \in Conns : Freeing(t, c)' <=> Freeing(t, c)
      BY <2>1 DEF Freeing
    <2> QED BY <2>1, <2>2, <2>3 DEF FreedOnce
  <1>7. ASSUME NEW d \in Conns, NEW r \in Requests, tcp_recv(d, r) PROVE FreedOnce'
    BY <1>1, <1>7 DEF tcp_recv, Goto, Freeing, TypeOK, sockVars, closeVars
  <1>8. ASSUME NEW d \in Conns, ErrorExit(d) PROVE FreedOnce'
    BY <1>1, <1>8 DEF ErrorExit, Goto, Freeing, TypeOK, sockVars
  <1>9. CASE GetEntry \/ FindUser \/ Reply \/ FreeEntry
    BY <1>1, <1>9 DEF GetEntry, FindUser, Reply, FreeEntry, CallRemoveRef, Goto, Freeing, TypeOK, sockVars, closeVars
  <1>10. CASE QuitUser
    BY <1>1, <1>10, QuitDropsNothing DEF QuitUser, Freeing, TypeOK, sockVars, closeVars
  <1>11. CASE NewUser
    <2>1. cur["app"].conn \in Conns /\ st[cur["app"].conn] = "live" /\ refcount[cur["app"].conn] > 0
      <3>1. cur["app"] \in Entry /\ AppOwns(cur["app"].conn)
        BY <1>11 DEF NewUser, Control, AppOwns
      <3> QED BY <3>1, EntryFacts, OwnersLive, LedgerTyped
    <2>2. /\ UNCHANGED << st, refcount, evt, fd, tgt, then >>
          /\ \A c \in Conns : c # cur["app"].conn => appdata'[c] = appdata[c]
      BY <1>11, <2>1 DEF NewUser, TypeOK, closeVars
    <2>3. \A t \in Threads, c \in Conns : Freeing(t, c)' => Freeing(t, c) /\ pc'[t] = pc[t]
      BY <1>11, <2>2 DEF NewUser, Goto, Freeing, TypeOK
    <2>4. \A t \in Threads, c \in Conns : Freeing(t, c) => c # cur["app"].conn
      BY <2>1 DEF FreedOnce
    <2> QED BY <2>2, <2>3, <2>4 DEF FreedOnce
  <1>12. CASE UNCHANGED vars
    BY <1>1, <1>12 DEF vars, sockVars, closeVars, Freeing
  <1> QED
    BY <1>2, <1>3, <1>4, <1>5, <1>6, <1>7, <1>8, <1>9, <1>10, <1>11, <1>12
    DEF Next, MainStep, ClientStep, AppStep, Terminated, Refs

LEMMA NextDescriptors ==
  ASSUME RefInv, [Next]_vars, NobodyQuits, OneConnPerName
  PROVE  Descriptors'
  <1> USE DEF RefInv, TypeInv
  <1>1. ASSUME UNCHANGED << fd, evt, fdtab >>,
               pc'["main"] \in {"close", "clear", "event"} \/ pc["main"] \in {"close", "clear", "event"} =>
                 UNCHANGED << num, tgt >> /\ pc'["main"] = pc["main"]
        PROVE  Descriptors'
    BY <1>1 DEF Descriptors
  <1>2. CASE AddRef \/ PutInQueue \/ ServeReserved \/ Exit
    BY <1>1, <1>2 DEF AddRef, PutInQueue, ServeReserved, Exit, CallRemoveRef, Goto, TypeOK, sockVars, closeVars
  <1>3. ASSUME NEW t \in Threads, RemoveRef(t) PROVE Descriptors'
    BY <1>1, <1>3 DEF RemoveRef, Goto, TypeOK, Control
  <1>4. ASSUME NEW t \in Threads, tcp_socket_free(t) PROVE Descriptors'
    <2>1. tgt[t] \in Conns /\ tgt' = tgt
      BY <1>4, FreeSteps
    <2>2. CASE FreeTest(t)
      <3>1. Freeing(t, tgt[t]) /\ pc' = [pc EXCEPT ![t] = "event"] /\ pc[t] = "free" /\ fd[tgt[t]] = NULL
        BY <1>4, <2>1, <2>2, FreeSteps DEF FreeTest, FreedOnce
      <3>2. UNCHANGED << fd, evt, fdtab >> /\ num' = [num EXCEPT ![t] = fd[tgt[t]]]
        BY <2>2 DEF FreeTest, sockVars
      <3> QED BY <2>1, <3>1, <3>2 DEF Descriptors, TypeOK
    <2>3. CASE Close(t)
      <3>1. t = "main" /\ pc["main"] = "close" /\ pc' = [pc EXCEPT !["main"] = "clear"] /\ UNCHANGED << fd, evt, num >>
        BY <1>4, <2>3, FreeSteps DEF Close, Goto, closeVars
      <3>2. PICK f : f = fd[tgt["main"]]
        OBVIOUS
      <3>3. f # NULL /\ f \in Fds /\ fdtab[f] = tgt["main"]
        <4>1. evt[tgt["main"]]
          BY <3>1 DEF OwnersDrop, LoopCloses
        <4> QED BY <2>1, <3>1, <3>2, <4>1 DEF Descriptors, TypeOK
      <3>4. fdtab' = [fdtab EXCEPT ![f] = NULL]
        <4>1. Closing(t) = {f}
          BY <3>1, <3>2 DEF Closing, Descriptors
        <4> QED BY <2>3, <3>3, <4>1 DEF Close
      <3> QED BY <2>1, <3>1, <3>2, <3>3, <3>4 DEF Descriptors, TypeOK
    <2>4. CASE ClearFd(t)
      <3>1. t = "main" /\ pc["main"] = "clear" /\ evt[tgt["main"]]
        BY <1>4, <2>4, FreeSteps DEF ClearFd, OwnersDrop, LoopCloses
      <3> QED BY <2>1, <2>4, <3>1 DEF ClearFd, Descriptors, TypeOK, Goto, closeVars
    <2>5. CASE DeleteEvent(t)
      <3>1. CASE t = "main"
        BY <2>1, <2>5, <3>1 DEF DeleteEvent, Descriptors, TypeOK, Goto, closeVars
      <3>2. CASE t = "app"
        <4>1. ~evt[tgt[t]]
          BY <1>4, <2>1, <2>5, <3>2, FreeSteps DEF FreedOnce
        <4>2. evt' = evt
          BY <2>5, <4>1 DEF DeleteEvent, TypeOK
        <4> QED BY <1>1, <2>5, <3>2, <4>2, <2>1 DEF DeleteEvent, Goto, TypeOK, closeVars
      <3> QED BY <3>1, <3>2
    <2>6. CASE CallOnClose(t)
      BY <1>1, <2>1, <2>6 DEF CallOnClose, Goto, TypeOK, closeVars
    <2>7. CASE FreeSocket(t)
      BY <1>1, <2>1, <2>7 DEF FreeSocket, Goto, TypeOK, Control, closeVars
    <2> QED BY <1>4, <2>2, <2>3, <2>4, <2>5, <2>6, <2>7 DEF tcp_socket_free
  <1>5. ASSUME NEW d \in Conns, tcp_newconnection(d) PROVE Descriptors'
    <2>1. PICK g \in Fds : /\ fdtab[g] = NULL
                           /\ fdtab' = [fdtab EXCEPT ![g] = d] /\ fd' = [fd EXCEPT ![d] = g]
      BY <1>5 DEF tcp_newconnection, FreeFds
    <2>2. pc["main"] = "idle" /\ UNCHANGED pc /\ evt' = [evt EXCEPT ![d] = TRUE]
      BY <1>5 DEF tcp_newconnection
    <2> QED BY <2>1, <2>2, NullAssumption DEF Descriptors, TypeOK
  <1>6. ASSUME NEW d \in Conns, NEW r \in Requests, tcp_recv(d, r) PROVE Descriptors'
    BY <1>1, <1>6 DEF tcp_recv, Goto, TypeOK, sockVars, closeVars
  <1>7. ASSUME NEW d \in Conns, ErrorExit(d) PROVE Descriptors'
    BY <1>7 DEF ErrorExit, Descriptors, Goto, TypeOK, sockVars
  <1>8. CASE GetEntry \/ FindUser \/ NewUser \/ FreeEntry
    BY <1>1, <1>8 DEF GetEntry, FindUser, NewUser, FreeEntry, Goto, TypeOK, sockVars, closeVars
  <1>9. CASE QuitUser
    BY <1>1, <1>9, QuitDropsNothing DEF QuitUser, TypeOK, sockVars, closeVars
  <1>10. CASE Reply
    <2>1. /\ UNCHANGED << fd, evt, fdtab, num >> /\ pc'["main"] = pc["main"] /\ tgt'["main"] = tgt["main"]
      BY <1>10 DEF Reply, CallRemoveRef, Goto, TypeOK, sockVars, closeVars
    <2> QED BY <2>1 DEF Descriptors
  <1>11. CASE UNCHANGED vars
    BY <1>1, <1>11 DEF vars, sockVars, closeVars
  <1> QED
    BY <1>2, <1>3, <1>4, <1>5, <1>6, <1>7, <1>8, <1>9, <1>10, <1>11
    DEF Next, MainStep, ClientStep, AppStep, Terminated, Refs

LEMMA InitRef == Init => RefInv
  <1> SUFFICES ASSUME Init PROVE RefInv
    OBVIOUS
  <1>1. TypeInv
    BY InitTyped
  <1>2. Provenance
    BY DEF Init, Provenance
  <1>3. OwnersDrop
    BY DEF Init, OwnersDrop
  <1>4. Balanced
    <2>1. ASSUME NEW c \in Conns PROVE Ledger(c) = 0 /\ st[c] # "live"
      <3>1. QueuedFor(c) = {}
        BY DEF Init, QueuedFor
      <3>2. ~MainOwns(c) /\ ~AppOwns(c) /\ ~OwnRef(c)
        BY DEF Init, MainOwns, AppOwns, OwnRef
      <3>3. Cardinality({}) = 0
        BY FS_EmptySet
      <3> QED BY <3>1, <3>2, <3>3 DEF Ledger, One, Init
    <2> QED BY <2>1 DEF Balanced
  <1>5. OneFd
    BY NullAssumption DEF Init, OneFd, KnownBy, NoReq
  <1>6. FreedOnce
    BY DEF Init, FreedOnce, Freeing
  <1>7. Descriptors
    BY DEF Init, Descriptors
  <1> QED BY <1>1, <1>2, <1>3, <1>4, <1>5, <1>6, <1>7 DEF RefInv

LEMMA NextRef ==
  ASSUME NobodyQuits, OneConnPerName
  PROVE  RefInv /\ [Next]_vars => RefInv'
  <1>1. RefInv /\ [Next]_vars => TypeInv'
    BY NextTyped DEF RefInv
  <1> QED BY <1>1, NextProvenance, NextOwnersDrop, NextBalanced, NextOneFd, NextFreedOnce, NextDescriptors DEF RefInv

(* refcount is at every moment the number of those who still hold the      *)
(* socket: the registered event, the queued entries and those in work      *)
(* (tcp.c:467-487, queue.c:106), as long as updates do not overlap, nobody *)
(* quits and names are not shared.                                         *)
THEOREM CountsExact ==
  ASSUME NobodyQuits, OneConnPerName
  PROVE  Spec => []RefcountExact
  <1>1. RefInv => RefcountExact
    BY BalancedExact DEF RefInv
  <1> QED BY <1>1, InitRef, NextRef, PTL DEF Spec

(* A socket that a queued request, one in work or a pending remove_ref     *)
(* still has to dereference is not freed: what the reference count is for  *)
(* (queue.h:40).                                                           *)
THEOREM SocketsHeld ==
  ASSUME NobodyQuits, OneConnPerName
  PROVE  Spec => []SocketHeld
  <1>1. RefInv => SocketHeld
    <2> SUFFICES ASSUME RefInv PROVE SocketHeld
      OBVIOUS
    <2> USE DEF RefInv, TypeInv
    <2>1. ASSUME NEW i \in 1..Len(queue) PROVE st[queue[i].conn] = "live"
      <3>1. PICK c \in Conns : c = queue[i].conn
        BY EntryFacts DEF TypeOK
      <3>2. i \in QueuedFor(c) /\ QueuedFor(c) = Positions(queue, c)
        BY <3>1 DEF QueuedFor, Positions
      <3>3. IsFiniteSet(QueuedFor(c)) /\ Cardinality(QueuedFor(c)) \in Nat
        BY <3>2, PositionsFinite DEF TypeOK
      <3>4. Cardinality(QueuedFor(c)) # 0
        BY <3>2, <3>3, FS_EmptySet
      <3>5. Ledger(c) # 0
        BY <3>3, <3>4 DEF Ledger, One
      <3> QED BY <3>1, <3>5 DEF Balanced
    <2>2. cur["main"].conn # NULL => st[cur["main"].conn] = "live"
      BY EntryFacts, NoReqFacts, OwnersLive DEF TypeOK, OwnersDrop
    <2>3. cur["app"].conn # NULL /\ pc["app"] # "done" => st[cur["app"].conn] = "live"
      <3>1. SUFFICES ASSUME cur["app"].conn # NULL, pc["app"] # "done" PROVE st[cur["app"].conn] = "live"
        OBVIOUS
      <3>2. PICK c \in Conns : c = cur["app"].conn
        BY <3>1, EntryFacts, NoReqFacts DEF TypeOK
      <3>3. AppOwns(c) \/ Freeing("app", c)
        BY <3>1, <3>2, NoReqFacts DEF Control, AppOwns, Freeing, OwnersDrop
      <3> QED BY <3>2, <3>3, OwnersLive DEF FreedOnce
    <2>4. ASSUME NEW t \in Threads, pc[t] \in Dropping PROVE st[tgt[t]] = "live"
      <3>1. PICK c \in Conns : c = tgt[t]
        BY <2>4 DEF Control
      <3>2. MainOwns(c) \/ AppOwns(c) \/ OwnRef(c) \/ evt[c] \/ Freeing(t, c)
        BY <2>4, <3>1 DEF OwnersDrop, MainOwns, AppOwns, OwnRef, Freeing, LoopCloses, TypeOK
      <3> QED BY <3>1, <3>2, OwnersLive DEF FreedOnce
    <2> QED BY <2>1, <2>2, <2>3, <2>4 DEF SocketHeld
  <1> QED BY <1>1, InitRef, NextRef, PTL DEF Spec

(* "I can make sure the server's event just used by the main thread only"  *)
(* (net.c:76): the application thread, when it drops the last reference,   *)
(* never frees a socket whose event is still registered.                   *)
THEOREM EventsByMainOnly ==
  ASSUME NobodyQuits, OneConnPerName
  PROVE  Spec => EventsMainThreadOnly
  <1> DEFINE Kept == \A c \in Conns : evt'[c] # evt[c] => pc'["app"] = pc["app"]
  <1>1. RefInv /\ [Next]_vars => [Kept]_vars
    <2> SUFFICES ASSUME RefInv, Next PROVE Kept
      OBVIOUS
    <2> USE DEF RefInv, TypeInv
    <2>1. CASE UNCHANGED evt
      BY <2>1
    <2>2. CASE pc'["app"] = pc["app"]
      BY <2>2
    <2>3. ASSUME Refs("app") PROVE Kept
      BY <2>3, EventsStay
    <2>4. ASSUME NEW c \in Conns, tcp_newconnection(c) \/ ErrorExit(c) PROVE pc'["app"] = pc["app"]
      BY <2>4 DEF tcp_newconnection, ErrorExit, Goto, TypeOK
    <2>5. ASSUME Refs("main") PROVE pc'["app"] = pc["app"]
      BY <2>5, RefsEffect DEF TypeOK
    <2> QED
      BY <2>1, <2>2, <2>3, <2>4, <2>5
      DEF Next, MainStep, ClientStep, AppStep, Terminated, vars, sockVars, AddRef,
          PutInQueue, ServeReserved, Exit, tcp_recv, GetEntry, FindUser, QuitUser, NewUser, Reply, FreeEntry
  <1> QED BY <1>1, InitRef, NextRef, PTL DEF Spec, EventsMainThreadOnly

(* No close() hits a descriptor that the kernel has handed to another      *)
(* connection, or closes one twice: between close() and fd = -1 of         *)
(* error_exit (tcp.c:458, 359) the event loop still holds its reference,   *)
(* so that no thread is in tcp_socket_free() (tcp.c:24), and afterwards    *)
(* the field is -1.                                                        *)
THEOREM DescriptorsOwned ==
  ASSUME NobodyQuits, OneConnPerName
  PROVE  Spec => []FdOwned
  <1>1. RefInv => FdOwned
    <2> SUFFICES ASSUME RefInv, NEW t \in Threads, pc[t] = "close", NEW n \in Closing(t), n # NULL
                 PROVE  fdtab[n] = tgt[t]
      BY DEF FdOwned
    <2> USE DEF RefInv, TypeInv
    <2>1. t = "main" /\ tgt[t] \in Conns
      BY DEF OwnersDrop, Control
    <2> QED BY <2>1 DEF Closing, Descriptors
  <1> QED BY <1>1, InitRef, NextRef, PTL DEF Spec

-------------------------------------------------------------------------------
(* Users *)

(* A user is the on_close data of a live socket, the one it joined from *)
UserAttached ==
  \A u \in Uids : users[u] # NULL => st[users[u].sock] = "live" /\ appdata[users[u].sock] = u

(* A user never outlives the socket that it joined from, whichever thread  *)
(* drops the last reference: on_close finds it (moc_base.h:18, tcp.c:36).  *)
(* Besides the conditions above, a connection must not join under a second *)
(* name, since on_close then forgets the first.                            *)
THEOREM UsersDieWithSockets ==
  ASSUME NobodyQuits, OneConnPerName, OneNamePerConn
  PROVE  Spec => []UserDiesWithSocket
  <1>1. Init => UserAttached
    BY DEF Init, UserAttached
  <1>2. RefInv /\ UserAttached /\ [Next]_vars => UserAttached'
    <2> SUFFICES ASSUME RefInv, UserAttached, [Next]_vars PROVE UserAttached'
      OBVIOUS
    <2> USE DEF RefInv, TypeInv
    <2>1. CASE UNCHANGED << st, users, appdata >>
      BY <2>1 DEF UserAttached
    <2>2. ASSUME NEW t \in Threads, Refs(t) PROVE UserAttached'
      <3>1. PICK d \in Conns : d = tgt[t]
        BY <2>2, RefsEffect
      <3>2. CASE CallOnClose(t)
        <4>1. ASSUME NEW u \in Uids, users'[u] # NULL
              PROVE  st'[users'[u].sock] = "live" /\ appdata'[users'[u].sock] = u
          <5>1. users'[u] = users[u] /\ appdata[d] # u
            BY <3>1, <3>2, <4>1, NullAssumption DEF CallOnClose, on_close, TypeOK
          <5>2. users[u].sock \in Conns /\ users[u].sock # d
            BY <4>1, <5>1 DEF UserAttached, TypeOK
          <5> QED BY <3>1, <3>2, <4>1, <5>1, <5>2 DEF UserAttached, CallOnClose, TypeOK
        <4> QED BY <4>1 DEF UserAttached
      <3>3. CASE FreeSocket(t)
        <4>1. appdata[d] = NULL
          BY <3>1, <3>3, FreeSteps DEF FreeSocket, FreedOnce, tcp_socket_free
        <4>2. UNCHANGED << users, appdata >> /\ st' = [st EXCEPT ![d] = "freed"]
          BY <3>1, <3>3 DEF FreeSocket
        <4>3. ASSUME NEW u \in Uids, users[u] # NULL PROVE users[u].sock \in Conns /\ users[u].sock # d
          BY <4>1, <4>3, NullAssumption DEF UserAttached, TypeOK
        <4> QED BY <4>2, <4>3 DEF UserAttached, TypeOK
      <3>4. CASE ~CallOnClose(t) /\ ~FreeSocket(t)
        BY <2>1, <2>2, <3>4 DEF Refs, tcp_socket_free, RemoveRef, FreeTest, Close, ClearFd, DeleteEvent, sockVars
      <3> QED BY <3>2, <3>3, <3>4
    <2>3. ASSUME NEW d \in Conns, tcp_newconnection(d) PROVE UserAttached'
      BY <2>3 DEF UserAttached, tcp_newconnection, TypeOK
    <2>4. CASE NewUser
      <3>1. cur["app"] \in Entry /\ Joins(cur["app"].conn, cur["app"].uid) /\ AppOwns(cur["app"].conn)
        BY <2>4 DEF NewUser, Provenance, ForPlugin, Sent, Control, AppOwns
      <3>2. PICK c \in Conns, n \in Uids : c = cur["app"].conn /\ n = cur["app"].uid
        BY <3>1, EntryFacts
      <3>3. st[c] = "live" /\ UNCHANGED st
        BY <2>4, <3>1, <3>2, OwnersLive DEF NewUser
      <3>4. CASE users[n] # NULL
        BY <2>1, <2>4, <3>2, <3>4 DEF NewUser
      <3>5. CASE users[n] = NULL
        <4>1. PICK b : b = [sock |-> c, fd |-> cur["app"].fd]
          OBVIOUS
        <4>2. users' = [users EXCEPT ![n] = b] /\ appdata' = [appdata EXCEPT ![c] = n] /\ b.sock = c
          BY <2>4, <3>2, <3>5, <4>1 DEF NewUser
        <4>3. ASSUME NEW u \in Uids, users'[u] # NULL
              PROVE  st'[users'[u].sock] = "live" /\ appdata'[users'[u].sock] = u
          <5>1. CASE u = n
            BY <3>3, <4>2, <5>1 DEF TypeOK
          <5>2. CASE u # n
            <6>1. users'[u] = users[u] /\ users[u].sock \in Conns /\ users[u] # NULL
              BY <4>2, <4>3, <5>2 DEF TypeOK
            <6>2. users[u].sock # c
              BY <3>1, <3>2, <5>2, <6>1 DEF Provenance, OneNamePerConn
            <6> QED BY <3>3, <4>2, <6>1, <6>2 DEF UserAttached, TypeOK
          <5> QED BY <5>1, <5>2
        <4> QED BY <4>3 DEF UserAttached
      <3> QED BY <3>4, <3>5
    <2> QED
      BY <2>1, <2>2, <2>3, <2>4
      DEF Next, MainStep, ClientStep, AppStep, Terminated, vars, sockVars, AddRef,
          PutInQueue, ServeReserved, Exit, tcp_recv, ErrorExit, GetEntry, FindUser, QuitUser, Reply, FreeEntry
  <1>3. UserAttached => UserDiesWithSocket
    BY DEF UserAttached, UserDiesWithSocket
  <1> QED BY <1>1, <1>2, <1>3, InitRef, NextRef, PTL DEF Spec
===============================================================================
