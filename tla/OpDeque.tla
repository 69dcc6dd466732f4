------------------------------- MODULE OpDeque -------------------------------
(***************************************************************************)
(* What a plugin's operation queue promises to the two threads that share  *)
(* it, with no lock, pointer or counter in sight: a bounded double-ended   *)
(* queue.  Asynchronous requests go to its back, synchronous requests to   *)
(* its front, the application thread takes from the front, and after the   *)
(* queue has been destroyed it is empty and stays so.                      *)
(***************************************************************************)
EXTENDS Integers, Sequences

CONSTANTS Entries,      \* the queue entries that may be in the queue
          Capacity      \* the largest number of entries it ever holds

VARIABLES deque,        \* the waiting entries, the next one to serve first
          destroyed     \* the queue is no more

Init == /\ deque = << >>
        /\ destroyed = FALSE

Insertable(x) == /\ ~destroyed
                 /\ Len(deque) < Capacity
                 /\ \A i \in 1..Len(deque) : deque[i] # x

Put(x) == /\ Insertable(x)
          /\ deque' = Append(deque, x)
          /\ UNCHANGED destroyed

Cas(x) == /\ Insertable(x)
          /\ deque' = << x >> \o deque
          /\ UNCHANGED destroyed

Get == /\ deque # << >>
       /\ deque' = Tail(deque)
       /\ UNCHANGED destroyed

Destroy == /\ deque = << >>
           /\ destroyed' = TRUE
           /\ UNCHANGED deque

Next == (\E x \in Entries : Put(x) \/ Cas(x)) \/ Get \/ Destroy

Spec == Init /\ [][Next]_<<deque, destroyed>>
==============================================================================
