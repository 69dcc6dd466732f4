------------------------------- MODULE Framing -------------------------------
(***************************************************************************)
(* How the server cuts a connection's byte stream into messages:           *)
(* tcp_recv() and process_buf() of server/tcp.c.  recv() may return any    *)
(* part of what has arrived, so a message may come in pieces and several   *)
(* may come at once.                                                       *)
(*                                                                         *)
(* A byte is its position in the stream.  The bytes in a buffer are always *)
(* consecutive, so a buffer is the position of its first byte and a        *)
(* length; memcpy() keeps the first position and memmove() advances it.    *)
(* The stream is given by the positions where its messages begin and the   *)
(* length each of them declares.                                           *)
(***************************************************************************)
EXTENDS Integers, Sequences

CONSTANTS
  HDR,          \* the length field: 4
  MINPKT,       \* a message must declare more than this: 8
  MAXPKT,       \* and at most this: 64 * 1024
  SBSIZE,       \* the size of both receive buffers: 68 * 1024
  MINBODY,      \* parse_message() refuses less than this: 17
  Streams,      \* the streams clients may send
  Garbage       \* what four bytes that are no length field may read as

ASSUME SizesAssumption ==
  /\ HDR \in Nat \ {0} /\ MINPKT \in Nat /\ MAXPKT \in Nat /\ SBSIZE \in Nat
  /\ MINBODY \in Nat
  /\ HDR <= MINPKT /\ MAXPKT <= SBSIZE /\ HDR <= SBSIZE

ASSUME GarbageAssumption == Garbage \subseteq Nat

LegalLength(n) == n > MINPKT /\ n <= MAXPKT

(* Message k of stream s lies at s.mark[k], declares s.len[k] bytes and    *)
(* has the server's protocol version iff s.ver[k]; a message of illegal    *)
(* length ends the stream, for the server reads no further.                *)
ASSUME StreamsAssumption ==
  \A s \in Streams :
    /\ s.mark \in Seq(Nat) /\ s.len \in Seq(Nat) /\ s.ver \in Seq(BOOLEAN)
    /\ Len(s.mark) = Len(s.len) + 1 /\ Len(s.ver) = Len(s.len)
    /\ s.mark[1] = 0
    /\ \A i, j \in 1..Len(s.mark) : i < j => s.mark[i] < s.mark[j]
    /\ \A k \in 1..Len(s.len) :
         IF LegalLength(s.len[k])
           THEN s.mark[k + 1] = s.mark[k] + s.len[k]
           ELSE k = Len(s.len) /\ s.mark[k + 1] >= s.mark[k] + HDR

VARIABLES
  stream,       \* what the client sends
  arrived,      \* how many bytes of it have reached the server's kernel
  rpos,         \* how many of these recv() has returned
  open,         \* the connection
  part,         \* tcpsock->buf is not NULL
  len, pktsize, excess, \* fields of tcp_socket
  base, blen,   \* process_buf(): the bytes buf holds, and its len argument
  total,        \* process_buf(): totaltoget of a complete message
  pc,           \* "recv": in the event loop
  out           \* history: the messages handed to parse_message()

fields == << part, len, pktsize, excess >>
vars == << stream, arrived, rpos, open, fields, base, blen, total, pc, out >>

Messages == Len(stream.len)
StreamEnd == stream.mark[Messages + 1]

Init ==
  /\ stream \in Streams
  /\ arrived = 0 /\ rpos = 0 /\ open = TRUE
  /\ part = FALSE /\ len = 0 /\ pktsize = 0 /\ excess = 0
  /\ base = 0 /\ blen = 0 /\ total = 0
  /\ pc = "recv" /\ out = << >>

(* The network delivers some more bytes, in order. *)
Arrive ==
  /\ open
  /\ arrived' \in (arrived + 1)..StreamEnd
  /\ UNCHANGED << stream, rpos, open, fields, base, blen, total, pc, out >>

(* tcp_recv(), no incomplete message: recv() into static_buf. *)
RecvNew ==
  /\ open /\ pc = "recv" /\ ~part
  /\ \E n \in 1..(arrived - rpos) :
       /\ n <= SBSIZE
       /\ base' = rpos /\ blen' = n /\ rpos' = rpos + n
  /\ pc' = "process"
  /\ UNCHANGED << stream, arrived, open, fields, total, out >>

(* Mutant: recv() is asked for a whole message again. *)
RecvMore_Whole ==
  /\ open /\ pc = "recv" /\ part
  /\ \E n \in 1..(arrived - rpos) :
       /\ n <= pktsize
       /\ len' = len + n /\ blen' = len + n /\ rpos' = rpos + n
  /\ pc' = "process"
  /\ UNCHANGED << stream, arrived, open, part, pktsize, excess, base, total,
                  out >>

(* tcp_recv(), an incomplete message: recv() what it misses. *)
RecvMore ==
  /\ open /\ pc = "recv" /\ part
  /\ \E n \in 1..(arrived - rpos) :
       /\ n <= pktsize - len
       /\ len' = len + n /\ blen' = len + n /\ rpos' = rpos + n
  /\ pc' = "process"
  /\ UNCHANGED << stream, arrived, open, part, pktsize, excess, base, total,
                  out >>

(* error_exit, with everything that the connection has received so far. *)
Close ==
  /\ open' = FALSE /\ pc' = "closed"
  /\ UNCHANGED << stream, arrived, rpos, fields, base, blen, total, out >>

(* recv() fails or returns 0, the end of the stream.  (With no incomplete  *)
(* message ETIMEDOUT, and always EAGAIN, are ignored.)                     *)
RecvFails == open /\ pc = "recv" /\ Close

(* The length field at position p of the stream. *)
LengthsAt(p) ==
  IF \E k \in 1..Messages : stream.mark[k] = p
    THEN {stream.len[k] : k \in {j \in 1..Messages : stream.mark[j] = p}}
    ELSE Garbage

(* What process_buf() finds it must get, from the bytes it has. *)
ToGet == IF blen >= HDR THEN LengthsAt(base) ELSE {HDR}

BadLength ==
  /\ pc = "process"
  /\ blen >= HDR
  /\ \E n \in ToGet : ~LegalLength(n)
  /\ Close

(* Too few bytes yet: keep them in tcpsock->buf. *)
Incomplete ==
  /\ pc = "process"
  /\ \E n \in ToGet :
       /\ blen >= HDR => LegalLength(n)
       /\ n > blen
       /\ pktsize' = n
  /\ part' = TRUE /\ len' = blen
  /\ pc' = "recv"
  /\ UNCHANGED << stream, arrived, rpos, open, excess, base, blen, total, out >>

(* malloc() of tcpsock->buf fails. *)
IncompleteFails ==
  /\ pc = "process" /\ ~part
  /\ \E n \in ToGet : (blen >= HDR => LegalLength(n)) /\ n > blen
  /\ Close

(* Mutant: the operands of the difference are swapped. *)
Complete_Negative ==
  /\ pc = "process"
  /\ \E n \in ToGet :
       /\ blen >= HDR => LegalLength(n)
       /\ n <= blen
       /\ total' = n
       /\ excess' = IF n < blen THEN n - blen ELSE excess
       /\ out' = Append(out, [at |-> base, size |-> n])
  /\ pc' = "parse"
  /\ UNCHANGED << stream, arrived, rpos, open, part, len, pktsize, base, blen >>

(* A whole message: note what exceeds it and call parse_message(). *)
Complete ==
  /\ pc = "process"
  /\ \E n \in ToGet :
       /\ blen >= HDR => LegalLength(n)
       /\ n <= blen
       /\ total' = n
       /\ excess' = IF n < blen THEN blen - n ELSE excess
       /\ out' = Append(out, [at |-> base, size |-> n])
  /\ pc' = "parse"
  /\ UNCHANGED << stream, arrived, rpos, open, part, len, pktsize, base, blen >>

(* parse_message() refuses a short message or another protocol version,    *)
(* and the connection is closed, or queues the request.                    *)
Refused == \/ total - HDR < MINBODY
           \/ \E k \in 1..Messages : stream.mark[k] = base /\ ~stream.ver[k]

ParseFails == pc = "parse" /\ Refused /\ Close

(* Mutants: no memmove(); the leftovers wait for the next recv(). *)
ParseExcess_NoMove ==
  /\ pc = "parse" /\ ~Refused
  /\ excess # 0
  /\ len' = excess /\ blen' = excess /\ excess' = 0
  /\ pc' = "process"
  /\ UNCHANGED << stream, arrived, rpos, open, part, pktsize, base, total, out >>

ParseExcess_Later ==
  /\ pc = "parse" /\ ~Refused
  /\ excess # 0
  /\ base' = base + total
  /\ len' = excess /\ blen' = excess /\ excess' = 0
  /\ part' = TRUE /\ pktsize' = SBSIZE
  /\ pc' = "recv"
  /\ UNCHANGED << stream, arrived, rpos, open, total, out >>

(* The leftovers are moved to the front and processed like a new recv().   *)
ParseExcess ==
  /\ pc = "parse" /\ ~Refused
  /\ excess # 0
  /\ base' = base + total
  /\ len' = excess /\ blen' = excess /\ excess' = 0
  /\ pc' = "process"
  /\ UNCHANGED << stream, arrived, rpos, open, part, pktsize, total, out >>

ParseDone ==
  /\ pc = "parse" /\ ~Refused
  /\ excess = 0
  /\ IF part THEN part' = FALSE /\ len' = 0 /\ pktsize' = 0
             ELSE UNCHANGED << part, len, pktsize >>
  /\ pc' = "recv"
  /\ UNCHANGED << stream, arrived, rpos, open, excess, base, blen, total, out >>

(* The server's own steps; a failing recv() or malloc() is not among them. *)
ServerStep == \/ RecvNew \/ RecvMore \/ BadLength \/ Incomplete \/ Complete
              \/ ParseFails \/ ParseExcess \/ ParseDone

Closed == pc = "closed" /\ UNCHANGED vars

Next == Arrive \/ ServerStep \/ RecvFails \/ IncompleteFails \/ Closed

Spec == Init /\ [][Next]_vars

(* libevent calls tcp_recv() as long as there is something to read. *)
FairSpec == Spec /\ WF_vars(ServerStep)

------------------------------------------------------------------------------
(* Properties *)

(* Every variable has its type. *)
TypeOK ==
  /\ stream \in Streams
  /\ arrived \in Nat /\ rpos \in Nat /\ open \in BOOLEAN
  /\ part \in BOOLEAN /\ len \in Nat /\ pktsize \in Nat /\ excess \in Nat
  /\ base \in Nat /\ blen \in Nat /\ total \in Nat
  /\ pc \in {"recv", "process", "parse", "closed"}
  /\ out \in Seq([at : Nat, size : Nat])

(* However the network splits and joins the stream, parse_message() gets   *)
(* exactly its messages: the first, the second, and so on, each from its   *)
(* first to its last byte.                                                 *)
MessagesIntact ==
  /\ Len(out) <= Messages
  /\ \A i \in 1..Len(out) :
       out[i] = [at |-> stream.mark[i], size |-> stream.len[i]]

(* Neither buffer overflows: recv() is never asked for more than the room  *)
(* that is left in the 68k buffer, nor for no bytes at all, which it would *)
(* report as the end of the connection ("we know it will be big enough to  *)
(* hold an entire message anyway", tcp.c:432).                             *)
BuffersFit ==
  /\ blen <= SBSIZE
  /\ part => pktsize <= SBSIZE
  /\ part /\ pc = "recv" => len < pktsize

(* recv() is never called for a message that has already arrived whole: in *)
(* the event loop the server holds less than the next message.             *)
NothingHeldBack ==
  pc = "recv" /\ Len(out) < Messages =>
    rpos < stream.mark[Len(out) + 1] + HDR
    \/ rpos < stream.mark[Len(out) + 1] + stream.len[Len(out) + 1]

(* Every message that arrives whole and whose predecessors were accepted   *)
(* is eventually parsed, unless the connection is closed.                  *)
EveryMessageParsed ==
  \A k \in UNION {1..Len(s.len) : s \in Streams} :
    (k <= Messages /\ arrived >= stream.mark[k + 1]) ~>
      (Len(out) >= k \/ ~open)
==============================================================================
