---------------------------- MODULE FramingProofs ----------------------------
(***************************************************************************)
(* Proofs about Framing, for every set of streams and every choice of the  *)
(* sizes that satisfies SizesAssumption.                                   *)
(***************************************************************************)
EXTENDS Framing, TLAPS

------------------------------------------------------------------------------
(* The inductive invariant *)

(* Where the next message, the one after those parsed, begins. *)
NextAt == stream.mark[Len(out) + 1]

(* In the event loop with an incomplete message: tcpsock->buf holds its    *)
(* first len bytes, which are all that recv() has returned, and pktsize is *)
(* what must be there before more can be said.                             *)
Partial ==
  /\ Len(out) < Messages
  /\ base = NextAt /\ base + len = rpos /\ len < pktsize
  /\ pktsize <= SBSIZE
  /\ pktsize = IF len >= HDR THEN stream.len[Len(out) + 1] ELSE HDR

(* process_buf() has the beginning of the next message, and maybe more. *)
Processing ==
  /\ Len(out) < Messages
  /\ base = NextAt /\ base + blen = rpos /\ blen > 0

(* parse_message() has the message just appended to out. *)
Parsing ==
  /\ Len(out) > 0
  /\ base = stream.mark[Len(out)] /\ base + blen = rpos
  /\ total = stream.len[Len(out)] /\ LegalLength(total)
  /\ blen = total + excess

Position ==
  /\ rpos <= arrived /\ arrived <= StreamEnd
  /\ pc \in {"recv", "process"} => excess = 0
  /\ pc = "recv" /\ ~part => rpos = NextAt
  /\ pc = "recv" /\ part => Partial
  /\ pc = "process" => Processing
  /\ pc = "parse" => Parsing

Fit == blen <= SBSIZE /\ (part => pktsize <= SBSIZE)

IInv == TypeOK /\ MessagesIntact /\ Fit /\ Position

------------------------------------------------------------------------------
(* The stream *)

(* What StreamsAssumption says of the stream at hand. *)
LEMMA StreamFacts ==
  ASSUME stream \in Streams
  PROVE  /\ Messages \in Nat /\ StreamEnd \in Nat
         /\ stream.mark[1] = 0
         /\ \A k \in 1..(Messages + 1) : stream.mark[k] \in Nat
         /\ \A k \in 1..Messages : stream.len[k] \in Nat
         /\ \A k \in 1..Messages :
              LegalLength(stream.len[k]) =>
                stream.mark[k + 1] = stream.mark[k] + stream.len[k]
         /\ \A i, j \in 1..(Messages + 1) :
              i < j => stream.mark[i] < stream.mark[j]
<1> DEFINE s == stream
<1>1. /\ s.mark \in Seq(Nat) /\ s.len \in Seq(Nat)
      /\ Len(s.mark) = Len(s.len) + 1
      /\ s.mark[1] = 0
      /\ \A i, j \in 1..Len(s.mark) : i < j => s.mark[i] < s.mark[j]
      /\ \A k \in 1..Len(s.len) :
           LegalLength(s.len[k]) => s.mark[k + 1] = s.mark[k] + s.len[k]
  BY StreamsAssumption
<1> HIDE DEF s
<1>2. /\ Len(s.len) \in Nat
      /\ \A k \in 1..(Len(s.len) + 1) : s.mark[k] \in Nat
      /\ \A k \in 1..Len(s.len) : s.len[k] \in Nat
  <2>1. ASSUME NEW f, f \in Seq(Nat)
        PROVE  Len(f) \in Nat /\ \A k \in 1..Len(f) : f[k] \in Nat
    BY <2>1
  <2>2. s.mark \in Seq(Nat) /\ s.len \in Seq(Nat) /\ Len(s.mark) = Len(s.len) + 1
    BY <1>1
  <2>3. Len(s.len) \in Nat /\ \A k \in 1..Len(s.len) : s.len[k] \in Nat
    BY <2>1, <2>2
  <2>4. \A k \in 1..Len(s.mark) : s.mark[k] \in Nat
    BY <2>1, <2>2
  <2> QED BY <2>2, <2>3, <2>4
<1>3. Messages = Len(s.len) /\ StreamEnd = s.mark[Len(s.len) + 1]
  BY DEF s, Messages, StreamEnd
<1>4. s.mark[Len(s.len) + 1] \in Nat
  BY <1>2
<1> QED BY <1>1, <1>2, <1>3, <1>4 DEF s

(* Different messages begin at different positions, so that the length     *)
(* field process_buf() reads is the next message's own.                    *)
LEMMA LengthRead ==
  ASSUME stream \in Streams, out \in Seq([at : Nat, size : Nat]),
         Len(out) < Messages, base = NextAt
  PROVE  LengthsAt(base) = {stream.len[Len(out) + 1]}
<1> DEFINE k == Len(out) + 1
<1>1. k \in 1..Messages /\ stream.mark[k] = base
  BY StreamFacts DEF NextAt
<1> HIDE DEF k
<1>2. \A j \in 1..Messages : stream.mark[j] = base => j = k
  <2> TAKE j \in 1..Messages
  <2>1. j \in 1..(Messages + 1) /\ k \in 1..(Messages + 1) /\ j \in Int /\ k \in Int
    BY <1>1, StreamFacts
  <2>2. stream.mark[j] \in Nat /\ stream.mark[k] \in Nat
    BY <2>1, StreamFacts
  <2>3. /\ j < k => stream.mark[j] < stream.mark[k]
        /\ k < j => stream.mark[k] < stream.mark[j]
    BY <2>1, StreamFacts
  <2> QED BY <1>1, <2>1, <2>2, <2>3
<1>3. {j \in 1..Messages : stream.mark[j] = base} = {k}
  BY <1>1, <1>2
<1>4. LengthsAt(base) = {stream.len[i] : i \in {k}}
  BY <1>1, <1>3 DEF LengthsAt
<1> QED BY <1>4 DEF k

(* What process_buf() must get, and what it knows of it. *)
LEMMA ToGetFacts ==
  ASSUME IInv, pc = "process", NEW n \in ToGet
  PROVE  /\ n = IF blen >= HDR THEN stream.len[Len(out) + 1] ELSE HDR
         /\ n \in Nat
<1>1. /\ stream \in Streams /\ out \in Seq([at : Nat, size : Nat])
      /\ Len(out) < Messages /\ base = NextAt /\ Len(out) \in Nat
  BY DEF IInv, TypeOK, Position, Processing
<1>2. LengthsAt(base) = {stream.len[Len(out) + 1]}
  BY <1>1, LengthRead
<1>3. Len(out) + 1 \in 1..Messages
  BY <1>1, StreamFacts
<1>4. stream.len[Len(out) + 1] \in Nat
  BY <1>1, <1>3, StreamFacts
<1> QED BY <1>2, <1>4, SizesAssumption DEF ToGet

------------------------------------------------------------------------------
(* Induction *)

LEMMA InitIInv == Init => IInv
<1> SUFFICES ASSUME Init PROVE IInv
  OBVIOUS
<1>1. stream \in Streams
  BY DEF Init
<1>2. /\ Messages \in Nat /\ StreamEnd \in Nat /\ stream.mark[1] = 0
  BY <1>1, StreamFacts
<1>3. out = << >> /\ Len(out) = 0
  BY DEF Init
<1>4. TypeOK
  <2>1. << >> \in Seq([at : Nat, size : Nat])
    OBVIOUS
  <2> QED BY <2>1 DEF Init, TypeOK
<1>5. MessagesIntact
  BY <1>2, <1>3 DEF MessagesIntact
<1>6. Fit
  BY SizesAssumption DEF Init, Fit
<1>7. Position
  BY <1>2, <1>3 DEF Init, Position, NextAt
<1> QED BY <1>4, <1>5, <1>6, <1>7 DEF IInv

(* Steps that close the connection. *)
LEMMA CloseIInv == ASSUME IInv, Close PROVE IInv'
<1>1. TypeOK' /\ MessagesIntact' /\ Fit'
  BY DEF IInv, Close, fields, TypeOK, MessagesIntact, Fit, Messages
<1>2. Position'
  BY DEF IInv, Position, Close, fields, StreamEnd, Messages
<1> QED BY <1>1, <1>2 DEF IInv

LEMMA ArriveIInv == ASSUME IInv, Arrive PROVE IInv'
<1>1. stream \in Streams /\ arrived \in Nat /\ StreamEnd \in Nat
  BY StreamFacts DEF IInv, TypeOK
<1>2. /\ arrived' \in Nat /\ arrived < arrived' /\ arrived' <= StreamEnd
  BY <1>1 DEF Arrive
<1>3. TypeOK' /\ MessagesIntact' /\ Fit'
  BY <1>2 DEF IInv, Arrive, fields, TypeOK, MessagesIntact, Fit, Messages
<1>4. rpos' <= arrived' /\ arrived' <= StreamEnd'
  BY <1>1, <1>2 DEF IInv, Arrive, Position, TypeOK, StreamEnd, Messages
<1>5. Position'
  BY <1>4 DEF IInv, Arrive, fields, Position, NextAt, Partial, Processing,
              Parsing, Messages
<1> QED BY <1>3, <1>5 DEF IInv

(* A recv() that returns something leaves process_buf() at the next        *)
(* message, which exists because the bytes do.                             *)
LEMMA NextExists ==
  ASSUME stream \in Streams, out \in Seq([at : Nat, size : Nat]),
         MessagesIntact, NextAt < StreamEnd
  PROVE  Len(out) < Messages
<1>1. Len(out) \in Nat /\ Messages \in Nat /\ Len(out) <= Messages
  BY StreamFacts DEF MessagesIntact
<1>2. CASE Len(out) = Messages
  <2>1. NextAt = StreamEnd
    BY <1>2 DEF NextAt, StreamEnd
  <2>2. StreamEnd \in Nat
    BY StreamFacts
  <2> QED BY <2>1, <2>2
<1> QED BY <1>1, <1>2

LEMMA RecvNewIInv == ASSUME IInv, RecvNew PROVE IInv'
<1>1. PICK n \in 1..(arrived - rpos) :
        n <= SBSIZE /\ base' = rpos /\ blen' = n /\ rpos' = rpos + n
  BY DEF RecvNew
<1>2. /\ stream \in Streams /\ rpos \in Nat /\ arrived \in Nat
      /\ out \in Seq([at : Nat, size : Nat])
      /\ StreamEnd \in Nat /\ arrived <= StreamEnd
      /\ rpos = NextAt
  BY StreamFacts DEF IInv, TypeOK, Position, RecvNew
<1>3. n \in Nat /\ n > 0 /\ rpos + n <= arrived
  BY <1>1, <1>2
<1>4. TypeOK' /\ MessagesIntact' /\ Fit'
  BY <1>1, <1>2, <1>3
     DEF IInv, RecvNew, fields, TypeOK, MessagesIntact, Fit, Messages
<1>5. Len(out) < Messages
  BY <1>2, <1>3, NextExists DEF IInv
<1>6. Position'
  BY <1>1, <1>2, <1>3, <1>5
     DEF IInv, RecvNew, fields, Position, Processing, NextAt, StreamEnd, Messages
<1> QED BY <1>4, <1>6 DEF IInv

LEMMA RecvMoreIInv == ASSUME IInv, RecvMore PROVE IInv'
<1>1. PICK n \in 1..(arrived - rpos) :
        /\ n <= pktsize - len
        /\ len' = len + n /\ blen' = len + n /\ rpos' = rpos + n
  BY DEF RecvMore
<1>2. /\ rpos \in Nat /\ arrived \in Nat /\ len \in Nat /\ pktsize \in Nat
      /\ base \in Nat /\ Partial
  BY DEF IInv, TypeOK, Position, RecvMore
<1>3. n \in Nat /\ n > 0 /\ rpos + n <= arrived /\ len + n <= pktsize
  BY <1>1, <1>2
<1>4. len + n <= SBSIZE
  BY <1>2, <1>3, SizesAssumption DEF Partial
<1>5. TypeOK' /\ MessagesIntact' /\ Fit'
  BY <1>1, <1>2, <1>3, <1>4
     DEF IInv, RecvMore, TypeOK, MessagesIntact, Fit, Messages
<1>6. base + (len + n) = rpos + n
  BY <1>2, <1>3 DEF Partial
<1>7. Position'
  <2>1. Processing'
    <3>1. Len(out') < Messages' /\ base' = NextAt'
      BY <1>2 DEF RecvMore, Partial, NextAt, Messages
    <3>2. base' + blen' = rpos'
      BY <1>1, <1>6 DEF RecvMore
    <3>3. blen' > 0
      BY <1>1, <1>2, <1>3
    <3> QED BY <3>1, <3>2, <3>3 DEF Processing
  <2>2. rpos' <= arrived' /\ arrived' <= StreamEnd'
    BY <1>1, <1>3 DEF IInv, RecvMore, Position, StreamEnd, Messages
  <2>3. excess' = 0 /\ pc' = "process"
    BY DEF IInv, RecvMore, Position
  <2> QED BY <2>1, <2>2, <2>3 DEF Position
<1> QED BY <1>5, <1>7 DEF IInv

LEMMA IncompleteIInv == ASSUME IInv, Incomplete PROVE IInv'
<1>1. PICK n \in ToGet :
        (blen >= HDR => LegalLength(n)) /\ n > blen /\ pktsize' = n
  BY DEF Incomplete
<1>2. /\ n = IF blen >= HDR THEN stream.len[Len(out) + 1] ELSE HDR
      /\ n \in Nat
  BY ToGetFacts DEF Incomplete
<1>3. n <= SBSIZE
  BY <1>1, <1>2, SizesAssumption DEF LegalLength
<1>4. TypeOK' /\ MessagesIntact' /\ Fit'
  BY <1>1, <1>2, <1>3
     DEF IInv, Incomplete, TypeOK, MessagesIntact, Fit, Messages
<1>5. Partial'
  BY <1>1, <1>2, <1>3
     DEF IInv, Incomplete, Position, Processing, Partial, NextAt, Messages
<1>6. Position'
  BY <1>5 DEF IInv, Incomplete, Position, StreamEnd, Messages
<1> QED BY <1>4, <1>6 DEF IInv

LEMMA CompleteIInv == ASSUME IInv, Complete PROVE IInv'
<1> DEFINE k == Len(out) + 1
<1>1. PICK n \in ToGet :
        /\ blen >= HDR => LegalLength(n)
        /\ n <= blen
        /\ total' = n
        /\ excess' = IF n < blen THEN blen - n ELSE excess
        /\ out' = Append(out, [at |-> base, size |-> n])
  BY DEF Complete
<1>2. n \in Nat /\ n = IF blen >= HDR THEN stream.len[k] ELSE HDR
  BY ToGetFacts DEF Complete
<1>3. /\ base \in Nat /\ blen \in Nat /\ excess = 0
      /\ out \in Seq([at : Nat, size : Nat])
      /\ k \in 1..Messages /\ base = stream.mark[k] /\ base + blen = rpos
  BY StreamFacts
     DEF IInv, TypeOK, Position, Processing, NextAt, Complete
<1>4. blen >= HDR /\ n = stream.len[k] /\ LegalLength(n)
  BY <1>1, <1>2, <1>3, SizesAssumption
<1>5. excess' \in Nat /\ blen = n + excess'
  BY <1>1, <1>2, <1>3
<1>6. /\ out' \in Seq([at : Nat, size : Nat]) /\ Len(out') = k
      /\ \A i \in 1..Len(out) : out'[i] = out[i]
      /\ out'[k] = [at |-> base, size |-> n]
  BY <1>1, <1>2, <1>3
<1> HIDE DEF k
<1>7. TypeOK' /\ Fit'
  BY <1>1, <1>2, <1>5, <1>6 DEF IInv, Complete, TypeOK, Fit
<1>8. MessagesIntact'
  <2>1. Len(out') <= Messages'
    BY <1>3, <1>6 DEF Complete, Messages
  <2>2. ASSUME NEW i \in 1..Len(out')
        PROVE  out'[i] = [at |-> stream.mark[i], size |-> stream.len[i]]
    <3>1. CASE i = k
      BY <1>3, <1>4, <1>6, <3>1
    <3>2. CASE i \in 1..Len(out)
      BY <1>6, <3>2 DEF IInv, MessagesIntact
    <3>3. i = k \/ i \in 1..Len(out)
      BY <1>3, <1>6, <2>2 DEF k
    <3> QED BY <3>1, <3>2, <3>3
  <2> QED BY <2>1, <2>2 DEF Complete, MessagesIntact
<1>9. Parsing'
  BY <1>1, <1>3, <1>4, <1>5, <1>6 DEF Complete, Parsing, LegalLength
<1>10. Position'
  BY <1>9 DEF IInv, Complete, Position, StreamEnd, Messages
<1> QED BY <1>7, <1>8, <1>10 DEF IInv

(* After a message comes the next: where parse_message()'s message ends. *)
LEMMA MessageEnd ==
  ASSUME IInv, pc = "parse"
  PROVE  NextAt = base + total /\ NextAt \in Nat
<1>1. /\ stream \in Streams /\ Len(out) \in 1..Messages
      /\ base = stream.mark[Len(out)] /\ total = stream.len[Len(out)]
      /\ LegalLength(stream.len[Len(out)])
  BY StreamFacts DEF IInv, TypeOK, MessagesIntact, Position, Parsing
<1>2. /\ stream.mark[Len(out) + 1]
           = stream.mark[Len(out)] + stream.len[Len(out)]
      /\ Len(out) + 1 \in 1..(Messages + 1)
  BY <1>1, StreamFacts
<1>3. stream.mark[Len(out) + 1] \in Nat
  BY <1>1, <1>2, StreamFacts
<1> QED BY <1>1, <1>2, <1>3 DEF NextAt

LEMMA ParseExcessIInv == ASSUME IInv, ParseExcess PROVE IInv'
<1>1. /\ base' = base + total
      /\ len' = excess /\ blen' = excess /\ excess' = 0
  BY DEF ParseExcess
<1>2. /\ NextAt = base + total /\ NextAt \in Nat
  BY MessageEnd DEF ParseExcess
<1>3. /\ base \in Nat /\ total \in Nat /\ excess \in Nat /\ blen \in Nat
      /\ rpos \in Nat /\ arrived \in Nat
      /\ stream \in Streams /\ out \in Seq([at : Nat, size : Nat])
      /\ base + blen = rpos /\ blen = total + excess /\ excess # 0
      /\ rpos <= arrived /\ arrived <= StreamEnd /\ StreamEnd \in Nat
      /\ blen <= SBSIZE
  BY StreamFacts DEF IInv, TypeOK, Fit, Position, Parsing, ParseExcess
<1>4. excess <= SBSIZE
  BY <1>3, SizesAssumption
<1>5. TypeOK' /\ MessagesIntact' /\ Fit'
  BY <1>1, <1>3, <1>4
     DEF IInv, ParseExcess, TypeOK, MessagesIntact, Fit, Messages
<1>6. Len(out) < Messages
  <2>1. NextAt < StreamEnd
    BY <1>2, <1>3
  <2> QED BY <1>3, <2>1, NextExists DEF IInv
<1>7. (base + total) + excess = rpos /\ excess > 0
  BY <1>3
<1>8. Position'
  BY <1>1, <1>2, <1>3, <1>6, <1>7
     DEF IInv, ParseExcess, Position, Processing, NextAt, StreamEnd, Messages
<1> QED BY <1>5, <1>8 DEF IInv

LEMMA ParseDoneIInv == ASSUME IInv, ParseDone PROVE IInv'
<1>1. NextAt = base + total
  BY MessageEnd DEF ParseDone
<1>2. /\ base \in Nat /\ total \in Nat
      /\ base + blen = rpos /\ blen = total + excess /\ excess = 0
  BY DEF IInv, TypeOK, Position, Parsing, ParseDone
<1>3. rpos = NextAt
  BY <1>1, <1>2
<1>4. part' = FALSE
  BY DEF IInv, TypeOK, ParseDone
<1>5. TypeOK' /\ MessagesIntact' /\ Fit'
  BY <1>4 DEF IInv, ParseDone, TypeOK, MessagesIntact, Fit, Messages
<1>6. Position'
  BY <1>2, <1>3, <1>4
     DEF IInv, ParseDone, Position, NextAt, StreamEnd, Messages
<1> QED BY <1>5, <1>6 DEF IInv

LEMMA NextIInv == IInv /\ [Next]_vars => IInv'
<1> SUFFICES ASSUME IInv, [Next]_vars PROVE IInv'
  OBVIOUS
<1>1. CASE Arrive
  BY <1>1, ArriveIInv
<1>2. CASE RecvNew
  BY <1>2, RecvNewIInv
<1>3. CASE RecvMore
  BY <1>3, RecvMoreIInv
<1>4. CASE Incomplete
  BY <1>4, IncompleteIInv
<1>5. CASE Complete
  BY <1>5, CompleteIInv
<1>6. CASE ParseExcess
  BY <1>6, ParseExcessIInv
<1>7. CASE ParseDone
  BY <1>7, ParseDoneIInv
<1>8. CASE BadLength \/ ParseFails \/ RecvFails \/ IncompleteFails
  BY <1>8, CloseIInv DEF BadLength, ParseFails, RecvFails, IncompleteFails
<1>9. CASE Closed \/ UNCHANGED vars
  <2>1. UNCHANGED << stream, arrived, rpos, open, part, len, pktsize, excess,
                     base, blen, total, pc, out >>
    BY <1>9 DEF Closed, vars, fields
  <2>2. TypeOK' /\ MessagesIntact' /\ Fit'
    BY <2>1 DEF IInv, TypeOK, MessagesIntact, Fit, Messages
  <2>3. Position'
    BY <2>1 DEF IInv, Position, NextAt, Partial, Processing, Parsing, StreamEnd,
                Messages, LegalLength
  <2> QED BY <2>2, <2>3 DEF IInv
<1> QED BY <1>1, <1>2, <1>3, <1>4, <1>5, <1>6, <1>7, <1>8, <1>9
        DEF Next, ServerStep

LEMMA AlwaysIInv == Spec => []IInv
<1> QED BY InitIInv, NextIInv, PTL DEF Spec

------------------------------------------------------------------------------
(* Theorems *)

(* The type invariant: in particular none of the unsigned lengths of       *)
(* tcp_recv() and process_buf() wraps.                                     *)
THEOREM TypeCorrect == Spec => []TypeOK
<1>1. IInv => TypeOK
  BY DEF IInv
<1> QED BY <1>1, AlwaysIInv, PTL

(* parse_message() gets exactly the messages of the stream, in order and   *)
(* from their first to their last byte, however recv() returns them.       *)
THEOREM MessagesAreIntact == Spec => []MessagesIntact
<1>1. IInv => MessagesIntact
  BY DEF IInv
<1> QED BY <1>1, AlwaysIInv, PTL

(* The receive buffers never overflow and recv() is never asked for no     *)
(* bytes.                                                                  *)
THEOREM BuffersAlwaysFit == Spec => []BuffersFit
<1>1. IInv => BuffersFit
  BY DEF IInv, Fit, Position, Partial, BuffersFit
<1> QED BY <1>1, AlwaysIInv, PTL

(* The server returns to the event loop only when the next message has not *)
(* arrived whole.                                                          *)
THEOREM NothingIsHeldBack == Spec => []NothingHeldBack
<1>1. IInv => NothingHeldBack
  <2> SUFFICES ASSUME IInv, pc = "recv", Len(out) < Messages
               PROVE  \/ rpos < stream.mark[Len(out) + 1] + HDR
                      \/ rpos < stream.mark[Len(out) + 1]
                                + stream.len[Len(out) + 1]
    BY DEF NothingHeldBack
  <2>1. /\ rpos \in Nat /\ base \in Nat /\ len \in Nat /\ pktsize \in Nat
    BY DEF IInv, TypeOK
  <2>2. CASE part
    BY <2>1, <2>2, SizesAssumption DEF IInv, Position, Partial, NextAt
  <2>3. CASE ~part
    BY <2>1, <2>3, SizesAssumption DEF IInv, Position, NextAt
  <2> QED BY <2>2, <2>3
<1> QED BY <1>1, AlwaysIInv, PTL
==============================================================================
