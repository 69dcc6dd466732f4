----------------------------- MODULE MCFraming -----------------------------
(* Small instances of Framing for TLC. *)
EXTENDS Framing, FiniteSets

CONSTANTS MaxMessages   \* the longest stream

(* Where the messages of the given lengths begin; a message of illegal     *)
(* length is a bare length field.                                          *)
Marks(ls) ==
  LET m[k \in 1..(Len(ls) + 1)] ==
        IF k = 1 THEN 0
        ELSE m[k - 1] + (IF LegalLength(ls[k - 1]) THEN ls[k - 1] ELSE HDR)
  IN  m

(* All streams of up to MaxMessages messages in which only the last one    *)
(* may be refused for its length or its version.                           *)
Lengths == 0..(MAXPKT + 1)
Accepted(n) == LegalLength(n) /\ n - HDR >= MINBODY
AllStreams ==
  LET Sent(n) == {ls \in [1..n -> Lengths] :
                    \A i \in 1..(n - 1) : Accepted(ls[i])}
  IN  {[len |-> ls, mark |-> Marks(ls),
        ver |-> [i \in 1..Len(ls) |-> i < Len(ls) \/ v]] :
         ls \in UNION {Sent(n) : n \in 1..MaxMessages}, v \in BOOLEAN}
=============================================================================
