-------------------------------- MODULE Chat --------------------------------
(***************************************************************************)
(* What the server writes to its clients: the chat plugin's commands with  *)
(* their pushes (moc_chat.c, base_internal.c), the reply that ends a       *)
(* request (syscmd.c) and the two loops around send() (tcp.c).  The        *)
(* plugin's thread writes one message at a time; sockets are non-blocking  *)
(* and take what there is room for.  A client has one user, itself; how    *)
(* connections and users end is in ConnLife.                               *)
(***************************************************************************)
EXTENDS Integers, Sequences, SequencesExt, FiniteSets

CONSTANTS Clients,
          Askers,      \* clients that send requests to the plugin
          Joiners,     \* those of them that join, and are pushed to
          Strangers,   \* clients that send what is no request
          Slow,        \* clients that do not always read
          Room,        \* what the socket of a slow client holds
          MaxRequests  \* bound: requests of a behaviour

ASSUME ChatAssumption ==
  /\ Askers \subseteq Clients /\ Joiners \subseteq Askers /\ Strangers \subseteq Clients /\ Slow \subseteq Clients
  /\ Room \in Nat \ {0} /\ MaxRequests \in Nat

VARIABLES chatters, \* m_base->userh; their sockets have them as appdata
          asked,    \* requests so far, which name the messages
          jobs,     \* messages that the request at hand has still to write
          c,        \* bytes of the first one that are written
          stream,   \* bytes that the socket of a client took
          room,     \* what it has still room for
          broken,   \* clients whose connection is broken
          sent      \* messages that the senders reported as sent

chatVars == << chatters, asked, jobs, c, stream, room, broken, sent >>

ChatInit ==
  /\ chatters = {} /\ asked = 0 /\ jobs = << >> /\ c = 0
  /\ stream = [u \in Clients |-> << >>] /\ room = [u \in Clients |-> Room]
  /\ broken = {} /\ sent = [u \in Clients |-> << >>]

-----------------------------------------------------------------------------
(* Messages: who gets it, the request it belongs to, its length and the    *)
(* loop that writes it.  A mini reply or an error is one unit of 12 or 16  *)
(* bytes, which send() takes whole or not; a value makes it longer.        *)
Message(to, how, len) == [to |-> to, id |-> asked + 1, how |-> how, len |-> len]

(* base_msg_new(), tcp_reply_mini(), tcp_reply_long() *)
base_msg_new(to) == Message(to, "base_msg_send", 3)
tcp_reply_mini(to) == Message(to, "rep_send", 1)
tcp_reply_long(to) == Message(to, "rep_send", 3)

(* reply_trigger(): mini without data, without memory and when the data    *)
(* cannot be packed                                                        *)
reply_trigger(u, data) ==
  {tcp_reply_mini(u)} \cup IF data THEN {tcp_reply_long(u)} ELSE {}

(* The loop over the users, without the one the message is about *)
Pushes(about, users) ==
  LET others == SetToSeq(users \ {about}) IN [i \in DOMAIN others |-> base_msg_new(others[i])]

(* A request's pushes, then the reply if it is synchronous, else what the  *)
(* plugin has for that case                                                *)
Answer(u, pushes, async, data) ==
  /\ u \in Askers /\ jobs = << >> /\ asked < MaxRequests
  /\ asked' = asked + 1
  /\ c' = 0
  /\ \/ jobs' = pushes \o async
     \/ \E r \in reply_trigger(u, data) : jobs' = Append(pushes, r)
  /\ UNCHANGED << stream, room, broken, sent >>

(* chat_process_driver() *)
Process(u, pushes, data) == Answer(u, pushes, << >>, data)

cmd_join(u) ==
  /\ u \in Joiners
  /\ Process(u, Pushes(u, chatters), FALSE)
  /\ chatters' = chatters \cup {u}

(* of any user; who quits is destroyed when the connection is, see Leave() *)
cmd_quit(u, who) == Process(u, Pushes(who, chatters), FALSE) /\ UNCHANGED chatters

(* BASE_GET_UID() refuses who has not joined *)
cmd_bcst(u) == u \in chatters /\ Process(u, Pushes(u, chatters), FALSE) /\ UNCHANGED chatters

(* cmd_pm(), what is refused, unknown commands *)
cmd_pm(u) == Process(u, << >>, FALSE) /\ UNCHANGED chatters

(* The plugins base and skeleton push the answer to a request that is not  *)
(* synchronous to who asked                                                *)
base_msg_touser(u) == << base_msg_new(u) >>
base_cmd(u) ==
  /\ u \in Joiners
  /\ Answer(u, << >>, base_msg_touser(u), TRUE)
  /\ UNCHANGED chatters

(* REQ_CMD_STATS, and what a system command finds *)
stats(u) == Process(u, << >>, TRUE) /\ UNCHANGED chatters

-----------------------------------------------------------------------------
(* What send() may take of n bytes; nothing is EAGAIN *)
Takes(u, n) == IF u \in Slow THEN 1 .. (IF n < room[u] THEN n ELSE room[u]) ELSE {n}

(* Mutant: after a partial send() the message is sent from its start again. *)
BytesAgain(m, from, k) == [i \in 1 .. k |-> << m.id, i >>]

Bytes(m, from, k) == [i \in 1 .. k |-> << m.id, from + i >>]

Finish(m, ok) ==
  /\ jobs' = Tail(jobs) /\ c' = 0
  /\ sent' = IF ok THEN [sent EXCEPT ![m.to] = Append(@, m)] ELSE sent

(* A send() of either loop that takes something *)
SendSome ==
  /\ jobs # << >> /\ Head(jobs).to \notin broken
  /\ LET m == Head(jobs)
     IN  \E k \in Takes(m.to, m.len - c) :
           /\ stream' = [stream EXCEPT ![m.to] = @ \o Bytes(m, c, k)]
           /\ room' = IF m.to \in Slow THEN [room EXCEPT ![m.to] = @ - k] ELSE room
           /\ IF c + k = m.len THEN Finish(m, TRUE) ELSE c' = c + k /\ UNCHANGED << jobs, sent >>
  /\ UNCHANGED << chatters, asked, broken >>

(* rep_send() goes round when there is no room.  Another error ends it,    *)
(* and rep_send_error() fails as it did.                                   *)
rep_send ==
  /\ jobs # << >> /\ Head(jobs).how = "rep_send" /\ Head(jobs).to \in broken
  /\ Finish(Head(jobs), FALSE)
  /\ UNCHANGED << chatters, asked, stream, room, broken >>

(* base_msg_send() holds the -1 of any error in a size_t: adding it takes  *)
(* one from c, below 0 the loop ends as if all were sent                   *)
base_msg_send ==
  /\ jobs # << >> /\ Head(jobs).how = "base_msg_send"
  /\ LET m == Head(jobs)
     IN  /\ m.to \in broken \/ Takes(m.to, m.len - c) = {}
         /\ IF c = 0 THEN Finish(m, TRUE) ELSE c' = c - 1 /\ UNCHANGED << jobs, sent >>
  /\ UNCHANGED << chatters, asked, stream, room, broken >>

(* The main thread answers what is no request: one send(), not repeated *)
tcp_reply_err(u) ==
  LET m == Message(u, "rep_send_error", 1)
  IN  /\ u \in Strangers /\ asked < MaxRequests
      /\ asked' = asked + 1
      /\ IF u \notin broken /\ Takes(u, 1) # {}
           THEN /\ stream' = [stream EXCEPT ![u] = @ \o Bytes(m, 0, 1)]
                /\ room' = IF u \in Slow THEN [room EXCEPT ![u] = @ - 1] ELSE room
                /\ sent' = [sent EXCEPT ![u] = Append(@, m)]
           ELSE UNCHANGED << stream, room, sent >>
      /\ UNCHANGED << chatters, jobs, c, broken >>

-----------------------------------------------------------------------------
(* The client reads, or is gone *)
Read(u) ==
  /\ u \in Slow /\ room[u] < Room
  /\ room' = [room EXCEPT ![u] = @ + 1]
  /\ UNCHANGED << chatters, asked, jobs, c, stream, broken, sent >>

Break(u) ==
  /\ u \notin broken
  /\ broken' = broken \cup {u}
  /\ UNCHANGED << chatters, asked, jobs, c, stream, room, sent >>

(* The connection is freed and on_close destroys the user; while a command *)
(* runs over the users that is the race of ConnLife                        *)
Leave(u) ==
  /\ u \in broken \cap chatters /\ jobs = << >>
  /\ chatters' = chatters \ {u}
  /\ UNCHANGED << asked, jobs, c, stream, room, broken, sent >>

ChatNext ==
  \/ \E u \in Clients : \/ cmd_join(u) \/ cmd_bcst(u) \/ cmd_pm(u) \/ stats(u) \/ base_cmd(u) \/ tcp_reply_err(u)
                        \/ Read(u) \/ Break(u) \/ Leave(u)
                        \/ \E who \in Clients : cmd_quit(u, who)
  \/ SendSome \/ rep_send \/ base_msg_send

ChatSpec == ChatInit /\ [][ChatNext]_chatVars

-----------------------------------------------------------------------------
(* The bytes of the messages s, one message after the other *)
Written(s) ==
  LET f[n \in 0 .. Len(s)] == IF n = 0 THEN << >> ELSE f[n - 1] \o Bytes(s[n], 0, s[n].len)
  IN  f[Len(s)]

(* A client can always tell where a message ends: what its socket took is  *)
(* the messages that were reported as sent, each once, whole and in order, *)
(* then the part of the one being written, as long as the connection       *)
(* lasts.  The lengths at the front of messages allow no other stream      *)
(* (tcp.c:94, base_internal.c:212).                                        *)
StreamsWhole ==
  \A u \in Clients \ broken :
    LET begun == IF jobs # << >> /\ Head(jobs).to = u THEN Bytes(Head(jobs), 0, c) ELSE << >>
    IN  stream[u] = Written(sent[u]) \o begun
=============================================================================
