--------------------------- MODULE OpQueueProofs ---------------------------
(***************************************************************************)
(* Proofs about OpQueue, for every number of heap cells, every             *)
(* MAX_QUEUE_ENTRY and every step of the busy test.                        *)
(***************************************************************************)
EXTENDS OpQueue, ListLemmas, TLAPS

------------------------------------------------------------------------------
(* Arithmetic of the busy test *)

(* The bound of the queue is a multiple of the step of parse.c:130 and lies *)
(* above MAX_QUEUE_ENTRY.                                                   *)
LEMMA QueueCapFacts ==
  /\ QueueCap \in Nat
  /\ MAX_QUEUE_ENTRY < QueueCap
  /\ QueueCap % BusyStep = 0
<1> DEFINE k == MAX_QUEUE_ENTRY \div BusyStep
<1>1. /\ MAX_QUEUE_ENTRY \in Nat /\ BusyStep \in Nat /\ BusyStep > 0
  BY MaxAssumption, StepAssumption
<1>2. /\ k \in Nat
      /\ MAX_QUEUE_ENTRY = BusyStep * k + (MAX_QUEUE_ENTRY % BusyStep)
      /\ MAX_QUEUE_ENTRY % BusyStep \in 0..(BusyStep - 1)
  BY <1>1, Z3
<1> HIDE DEF k
<1>3. (k + 1) * BusyStep = BusyStep * k + BusyStep
  BY <1>1, <1>2, Z3
<1>4. (k + 1) * BusyStep \in Nat
  BY <1>1, <1>2, Z3
<1>5. ((k + 1) * BusyStep) % BusyStep = 0
  BY <1>1, <1>2, Z3
<1>6. QueueCap = (k + 1) * BusyStep
  BY DEF QueueCap, k
<1> QED BY <1>1, <1>2, <1>3, <1>4, <1>5, <1>6

------------------------------------------------------------------------------
(* The operations of queue.c on a well-formed list *)

(* queue_put() links a new entry behind the others. *)
LEMMA PutShape ==
  ASSUME TypeOK, QueueShape, NEW x \in Entries, x \notin Queued,
         prev[x] = NULL, queue_put(x)
  PROVE  /\ QueueShape'
         /\ Queued' = Queued \cup {x}
         /\ order' = Append(order, x)
         /\ order' \in Seq(Entries)
         /\ prev' \in [Entries -> Entries \cup {NULL}]
         /\ size' = size + 1 /\ size' \in Nat
         /\ top' \in Entries /\ bottom' \in Entries
<1> USE NullAssumption
<1>1. order' = Append(order, x) /\ top' = x /\ size' = size + 1
  BY DEF queue_put
<1>2. /\ order' \in Seq(Entries) /\ Len(order') = Len(order) + 1
      /\ \A i \in 1..Len(order) : order'[i] = order[i]
      /\ order'[Len(order) + 1] = x
      /\ order' # << >>
  BY <1>1 DEF TypeOK
<1>3. \A i \in 1..Len(order) : order[i] \in Entries /\ order[i] # x
  BY DEF TypeOK, Queued
<1>4. Queued' = Queued \cup {x}
  <2>1. \A i \in 1..Len(order') : i \in 1..Len(order) \/ i = Len(order) + 1
    BY <1>2 DEF TypeOK
  <2>2. ASSUME NEW y \in Queued' PROVE y \in Queued \cup {x}
    BY <1>2, <2>1 DEF Queued
  <2>3. ASSUME NEW y \in Queued PROVE y \in Queued'
    <3>1. PICK i \in 1..Len(order) : y = order[i]
      BY <2>3 DEF Queued
    <3>2. i \in 1..Len(order') /\ order'[i] = y
      BY <1>2, <3>1 DEF TypeOK
    <3> QED BY <3>2 DEF Queued
  <2>4. x \in Queued'
    <3>1. Len(order) + 1 \in 1..Len(order')
      BY <1>2 DEF TypeOK
    <3> QED BY <1>2, <3>1 DEF Queued
  <2> QED BY <2>2, <2>3, <2>4
<1>5. \A i, j \in 1..Len(order') : order'[i] = order'[j] => i = j
  BY <1>2, <1>3 DEF QueueShape, TypeOK
<1>6. CASE order = << >>
  BY <1>1, <1>2, <1>4, <1>5, <1>6 DEF queue_put, QueueShape, TypeOK
<1>7. CASE order # << >>
  <2>1. /\ Len(order) \in Nat /\ Len(order) > 0
        /\ top = order[Len(order)] /\ top \in Entries /\ top # NULL
    BY <1>3, <1>7 DEF QueueShape, TypeOK
  <2>2. prev' = [prev EXCEPT ![top] = x] /\ bottom' = bottom
    BY <2>1 DEF queue_put
  <2>3. \A i \in 1..(Len(order) - 1) : prev'[order'[i]] = order'[i + 1]
    <3> TAKE i \in 1..(Len(order) - 1)
    <3>1. order[i] # top /\ order[i] \in Entries
      BY <1>3, <2>1 DEF QueueShape
    <3>2. prev'[order[i]] = prev[order[i]]
      BY <2>2, <3>1 DEF TypeOK
    <3> QED BY <1>2, <2>1, <3>2 DEF QueueShape
  <2>4. prev'[order'[Len(order)]] = order'[Len(order) + 1]
    BY <1>2, <2>1, <2>2 DEF TypeOK
  <2>5. \A i \in 1..(Len(order') - 1) : prev'[order'[i]] = order'[i + 1]
    BY <1>2, <2>1, <2>3, <2>4
  <2>6. prev'[x] = NULL
    BY <1>3, <2>1, <2>2 DEF TypeOK
  <2> QED BY <1>1, <1>2, <1>4, <1>5, <2>1, <2>2, <2>5, <2>6
          DEF QueueShape, TypeOK
<1> QED BY <1>6, <1>7

(* queue_cas() links a new entry before the others. *)
LEMMA CasShape ==
  ASSUME TypeOK, QueueShape, NEW x \in Entries, x \notin Queued,
         prev[x] = NULL, queue_cas(x)
  PROVE  /\ QueueShape'
         /\ Queued' = Queued \cup {x}
         /\ order' = << x >> \o order
         /\ order' \in Seq(Entries)
         /\ prev' \in [Entries -> Entries \cup {NULL}]
         /\ size' = size + 1 /\ size' \in Nat
         /\ top' \in Entries /\ bottom' \in Entries
<1> USE NullAssumption
<1>1. order' = << x >> \o order /\ bottom' = x /\ size' = size + 1
  BY DEF queue_cas
<1>2. /\ order' \in Seq(Entries) /\ Len(order') = Len(order) + 1
      /\ \A i \in 1..Len(order) : order'[i + 1] = order[i]
      /\ \A i \in 2..Len(order') : order'[i] = order[i - 1]
      /\ order'[1] = x
      /\ order' # << >>
  BY <1>1 DEF TypeOK
<1>3. \A i \in 1..Len(order) : order[i] \in Entries /\ order[i] # x
  BY DEF TypeOK, Queued
<1>4. Queued' = Queued \cup {x}
  <2>1. ASSUME NEW y \in Queued' PROVE y \in Queued \cup {x}
    BY <1>2 DEF Queued, TypeOK
  <2>2. ASSUME NEW y \in Queued \cup {x} PROVE y \in Queued'
    <3>1. CASE y = x
      BY <1>2, <3>1 DEF Queued, TypeOK
    <3>2. CASE y \in Queued
      <4>1. PICK i \in 1..Len(order) : y = order[i]
        BY <3>2 DEF Queued
      <4>2. i + 1 \in 1..Len(order') /\ order'[i + 1] = y
        BY <1>2, <4>1 DEF TypeOK
      <4> QED BY <4>2 DEF Queued
    <3> QED BY <2>2, <3>1, <3>2
  <2> QED BY <2>1, <2>2
<1>5. \A i, j \in 1..Len(order') : order'[i] = order'[j] => i = j
  <2> TAKE i, j \in 1..Len(order')
  <2> HAVE order'[i] = order'[j]
  <2>1. CASE i = 1 /\ j = 1
    BY <2>1
  <2>2. CASE i = 1 /\ j # 1
    <3>1. j \in 2..Len(order') /\ j - 1 \in 1..Len(order)
      BY <1>2, <2>2 DEF TypeOK
    <3> QED BY <1>2, <1>3, <2>2, <3>1
  <2>3. CASE i # 1 /\ j = 1
    <3>1. i \in 2..Len(order') /\ i - 1 \in 1..Len(order)
      BY <1>2, <2>3 DEF TypeOK
    <3> QED BY <1>2, <1>3, <2>3, <3>1
  <2>4. CASE i # 1 /\ j # 1
    <3>1. /\ i \in 2..Len(order') /\ i - 1 \in 1..Len(order)
          /\ j \in 2..Len(order') /\ j - 1 \in 1..Len(order)
      BY <1>2, <2>4 DEF TypeOK
    <3>2. order[i - 1] = order[j - 1]
      BY <1>2, <3>1
    <3>3. i - 1 = j - 1
      BY <3>1, <3>2 DEF QueueShape
    <3> QED BY <3>1, <3>3
  <2> QED BY <2>1, <2>2, <2>3, <2>4
<1>6. CASE order = << >>
  BY <1>1, <1>2, <1>4, <1>5, <1>6 DEF queue_cas, QueueShape, TypeOK
<1>7. CASE order # << >>
  <2>1. /\ Len(order) \in Nat /\ Len(order) > 0
        /\ top = order[Len(order)] /\ top \in Entries /\ top # NULL
        /\ top # x /\ bottom = order[1] /\ bottom \in Entries
    BY <1>3, <1>7 DEF QueueShape, TypeOK
  <2>2. prev' = [prev EXCEPT ![x] = bottom] /\ top' = top
    BY <2>1 DEF queue_cas
  <2>3. \A i \in 2..Len(order) : prev'[order'[i]] = order'[i + 1]
    <3> TAKE i \in 2..Len(order)
    <3>1. /\ i - 1 \in 1..(Len(order) - 1) /\ i \in 1..Len(order)
          /\ i \in 2..Len(order')
      BY <1>2, <2>1
    <3>2. order'[i] = order[i - 1] /\ order'[i + 1] = order[i]
      BY <1>2, <3>1
    <3>3. prev'[order[i - 1]] = prev[order[i - 1]]
      BY <1>3, <2>1, <2>2, <3>1 DEF TypeOK
    <3>4. prev[order[i - 1]] = order[i]
      BY <3>1 DEF QueueShape
    <3> QED BY <3>2, <3>3, <3>4
  <2>4. prev'[order'[1]] = order'[2]
    BY <1>2, <2>1, <2>2 DEF TypeOK
  <2>5. \A i \in 1..(Len(order') - 1) : prev'[order'[i]] = order'[i + 1]
    <3> TAKE i \in 1..(Len(order') - 1)
    <3>1. i = 1 \/ i \in 2..Len(order)
      BY <1>2, <2>1
    <3> QED BY <2>3, <2>4, <3>1
  <2>6. prev'[top'] = NULL
    BY <1>3, <1>7, <2>1, <2>2 DEF TypeOK, QueueShape
  <2>7. top' = order'[Len(order')]
    BY <1>2, <2>1, <2>2
  <2> QED BY <1>1, <1>2, <1>4, <1>5, <2>1, <2>2, <2>5, <2>6, <2>7
          DEF QueueShape, TypeOK
<1> QED BY <1>6, <1>7

(* queue_get() unlinks the entry at the bottom. *)
LEMMA GetShape ==
  ASSUME TypeOK, QueueShape, bottom # NULL, queue_get
  PROVE  /\ QueueShape'
         /\ bottom \in Queued /\ Queued' = Queued \ {bottom}
         /\ order # << >> /\ order' = Tail(order)
         /\ order' \in Seq(Entries)
         /\ prev' = prev
         /\ size > 0 /\ size' = size - 1 /\ size' \in Nat
         /\ top' \in Entries \cup {NULL} /\ bottom' \in Entries \cup {NULL}
<1> USE NullAssumption
<1>1. order # << >>
  BY DEF QueueShape
<1>2. /\ Len(order) \in Nat /\ Len(order) > 0 /\ size = Len(order)
      /\ bottom = order[1] /\ top = order[Len(order)]
  BY <1>1 DEF QueueShape, TypeOK
<1>3. /\ order' = Tail(order) /\ order' \in Seq(Entries)
      /\ Len(order') = Len(order) - 1
      /\ \A i \in 1..Len(order') : order'[i] = order[i + 1]
      /\ prev' = prev /\ size' = size - 1
  BY <1>1, <1>2 DEF queue_get, TypeOK
<1>4. \A i \in 1..Len(order) : order[i] \in Entries
  BY DEF TypeOK
<1>5. bottom \in Queued
  BY <1>2 DEF Queued
<1>6. Queued' = Queued \ {bottom}
  <2>1. ASSUME NEW y \in Queued' PROVE y \in Queued /\ y # bottom
    <3>1. PICK i \in 1..Len(order') : y = order'[i]
      BY <2>1 DEF Queued
    <3>2. y = order[i + 1] /\ i + 1 \in 1..Len(order) /\ i + 1 # 1
      BY <1>2, <1>3, <3>1
    <3> QED BY <1>2, <3>2 DEF Queued, QueueShape
  <2>2. ASSUME NEW y \in Queued, y # bottom PROVE y \in Queued'
    <3>1. PICK i \in 1..Len(order) : y = order[i]
      BY <2>2 DEF Queued
    <3>2. i - 1 \in 1..Len(order') /\ y = order'[i - 1]
      BY <1>2, <1>3, <2>2, <3>1
    <3> QED BY <3>2 DEF Queued
  <2> QED BY <2>1, <2>2
<1>7. \A i, j \in 1..Len(order') : order'[i] = order'[j] => i = j
  BY <1>2, <1>3 DEF QueueShape
<1>8. \A i \in 1..(Len(order') - 1) : prev'[order'[i]] = order'[i + 1]
  <2> TAKE i \in 1..(Len(order') - 1)
  <2>1. /\ i + 1 \in 1..(Len(order) - 1) /\ i \in 1..Len(order')
        /\ i + 1 \in 1..Len(order')
    BY <1>2, <1>3
  <2> QED BY <1>3, <2>1 DEF QueueShape
<1>9. CASE Len(order) = 1
  <2>1. order' = << >>
    BY <1>3, <1>9
  <2>2. prev[bottom] = NULL
    BY <1>1, <1>2, <1>9 DEF QueueShape
  <2> QED BY <1>2, <1>3, <1>5, <1>6, <1>7, <1>8, <1>9, <2>1, <2>2
          DEF queue_get, QueueShape
<1>10. CASE Len(order) > 1
  <2>1. order' # << >> /\ Len(order') > 0
    <3>1. Len(order') > 0 /\ Len(<< >>) = 0
      BY <1>2, <1>3, <1>10
    <3> QED BY <3>1
  <2>2. prev[bottom] = order[2] /\ order[2] = order'[1] /\ order[2] \in Entries
    BY <1>2, <1>3, <1>4, <1>10 DEF QueueShape
  <2>3. /\ bottom' = order'[1] /\ top' = top
        /\ top = order'[Len(order')] /\ prev[top] = NULL
    BY <1>1, <1>2, <1>3, <2>1, <2>2 DEF queue_get, QueueShape
  <2> QED BY <1>1, <1>2, <1>3, <1>4, <1>5, <1>6, <1>7, <1>8, <2>1, <2>2, <2>3
          DEF QueueShape
<1> QED BY <1>2, <1>9, <1>10

------------------------------------------------------------------------------
(* The inductive invariant *)

(* Who holds the lock, and what the two threads' pointers are, as far as    *)
(* their program counters tell.                                             *)
Control ==
  /\ lock = "main" <=> mpc \in {"insert", "unlock"}
  /\ lock = "app" <=> apc \in {"test", "get", "unlock"}
  /\ e # NULL <=> mpc \in {"lock", "insert"}
  /\ e # NULL => prev[e] = NULL
  /\ q # NULL => apc \in {"unlock", "process"}
  /\ apc = "process" => q # NULL
  /\ mpc \in {"drain", "stopped"} => apc = "exited"
  /\ freed <=> mpc = "stopped"
  /\ freed => bottom = NULL

(* What the main thread has learnt from its unlocked reads of size: the    *)
(* application thread can only have taken entries since.                   *)
Bound ==
  /\ size <= QueueCap
  /\ mpc = "busy" => size <= rsize /\ rsize <= QueueCap
  /\ mpc \in {"make", "lock", "insert"} => size < QueueCap

IInv == /\ TypeOK /\ Control /\ QueueShape
        /\ EntryOwned /\ Bound /\ NoLostWakeup

(* The invariant holds when the plugin starts. *)
LEMMA InitIInv == Init => IInv
<1> SUFFICES ASSUME Init PROVE IInv
  OBVIOUS
<1> USE NullAssumption, QueueCapFacts DEF Init
<1>1. TypeOK
  <2>1. prev \in [Entries -> Entries \cup {NULL}] /\ order \in Seq(Entries)
    OBVIOUS
  <2> QED BY <2>1 DEF TypeOK
<1>2. order = << >> /\ Len(order) = 0 /\ Queued = {}
  BY DEF Queued
<1>3. QueueShape
  BY <1>2 DEF QueueShape
<1>4. EntryOwned
  BY <1>2 DEF EntryOwned
<1> QED BY <1>1, <1>3, <1>4 DEF IInv, Control, Bound, NoLostWakeup, queue_isempty

(* A step that leaves the list alone leaves it well formed. *)
LEMMA SameQueue ==
  ASSUME QueueShape, UNCHANGED queueVars
  PROVE  QueueShape' /\ Queued' = Queued
BY DEF QueueShape, Queued, queueVars

(* Every step of either thread preserves the invariant. *)
LEMMA NextIInv == IInv /\ [Next]_vars => IInv'
<1> SUFFICES ASSUME IInv, [Next]_vars PROVE IInv'
  OBVIOUS
<1> USE NullAssumption
<1>a. /\ TypeOK /\ Control /\ QueueShape /\ EntryOwned /\ Bound /\ NoLostWakeup
  BY DEF IInv
<1>b. QueueCap \in Nat /\ MAX_QUEUE_ENTRY < QueueCap
      /\ MAX_QUEUE_ENTRY \in Nat
  BY QueueCapFacts, MaxAssumption
<1>c. ASSUME TypeOK', Control', QueueShape', EntryOwned', Bound', NoLostWakeup'
      PROVE  IInv'
  BY <1>c DEF IInv
<1>1. ASSUME NEW f \in SyncFlags, Request(f) PROVE IInv'
  <2>1. QueueShape' /\ Queued' = Queued
    BY <1>a, <1>1, SameQueue DEF Request
  <2>2. TypeOK'
    BY <1>a, <1>1, SyncAssumption DEF Request, TypeOK, queueVars, appVars
  <2>3. Control' /\ Bound' /\ NoLostWakeup'
    BY <1>a, <1>1 DEF Request, queueVars, appVars, Control, Bound,
       NoLostWakeup, queue_isempty
  <2>4. EntryOwned'
    BY <1>a, <1>1, <2>1 DEF Request, EntryOwned, appVars
  <2> QED BY <1>c, <2>1, <2>2, <2>3, <2>4
<1>2. CASE ReadSize
  <2>1. QueueShape' /\ Queued' = Queued
    BY <1>a, <1>2, SameQueue DEF ReadSize
  <2>2. TypeOK'
    BY <1>a, <1>2 DEF ReadSize, TypeOK, queueVars, mainVars, appVars
  <2>3. Control'
    BY <1>a, <1>2 DEF ReadSize, TypeOK, Control, queueVars, mainVars, appVars
  <2>4. Bound'
    BY <1>a, <1>b, <1>2 DEF ReadSize, TypeOK, Bound, queueVars, mainVars, appVars
  <2>5. NoLostWakeup'
    BY <1>a, <1>2 DEF ReadSize, TypeOK, Control, NoLostWakeup, queue_isempty,
       queueVars, mainVars, appVars
  <2>6. EntryOwned'
    BY <1>a, <1>2, <2>1 DEF ReadSize, EntryOwned, TypeOK, Control, mainVars, appVars
  <2> QED BY <1>c, <2>1, <2>2, <2>3, <2>4, <2>5, <2>6
<1>3. CASE TestBusy
  <2>1. QueueShape' /\ Queued' = Queued
    BY <1>a, <1>3, SameQueue DEF TestBusy
  <2>2. TypeOK'
    BY <1>a, <1>3 DEF TestBusy, TypeOK, queueVars, mainVars, appVars
  <2>3. Control'
    BY <1>a, <1>3 DEF TestBusy, TypeOK, Control, queueVars, mainVars, appVars
  <2>4. Bound'
    <3>1. PICK s \in {rsize, size} :
            mpc' = IF s % BusyStep = 0 THEN "idle" ELSE "make"
      BY <1>3 DEF TestBusy
    <3>2. /\ mpc = "busy" /\ size' = size /\ rsize' = rsize
          /\ size <= rsize /\ rsize <= QueueCap
          /\ size \in Nat /\ rsize \in Nat /\ size <= QueueCap
      BY <1>a, <1>3 DEF TestBusy, Bound, TypeOK, queueVars
    <3>3. CASE s % BusyStep = 0
      BY <1>b, <3>1, <3>2, <3>3 DEF Bound
    <3>4. CASE s % BusyStep # 0
      <4>1. s # QueueCap
        BY <3>4, QueueCapFacts
      <4>2. size < QueueCap
        BY <1>b, <3>1, <3>2, <4>1
      <4> QED BY <1>b, <3>1, <3>2, <3>4, <4>2 DEF Bound
    <3> QED BY <3>3, <3>4
  <2>5. NoLostWakeup'
    BY <1>a, <1>3 DEF TestBusy, TypeOK, Control, NoLostWakeup, queue_isempty,
       queueVars, mainVars, appVars
  <2>6. EntryOwned'
    BY <1>a, <1>3, <2>1 DEF TestBusy, EntryOwned, TypeOK, Control, mainVars, appVars
  <2> QED BY <1>c, <2>1, <2>2, <2>3, <2>4, <2>5, <2>6
<1>4. CASE MakeEntryFails
  <2>1. QueueShape' /\ Queued' = Queued
    BY <1>a, <1>4, SameQueue DEF MakeEntryFails
  <2>2. TypeOK'
    BY <1>a, <1>4 DEF MakeEntryFails, TypeOK, queueVars, mainVars, appVars
  <2>3. Control'
    BY <1>a, <1>4 DEF MakeEntryFails, TypeOK, Control, queueVars, mainVars, appVars
  <2>4. Bound'
    BY <1>a, <1>b, <1>4 DEF MakeEntryFails, TypeOK, Bound, queueVars, mainVars, appVars
  <2>5. NoLostWakeup'
    BY <1>a, <1>4 DEF MakeEntryFails, TypeOK, Control, NoLostWakeup, queue_isempty,
       queueVars, mainVars, appVars
  <2>6. EntryOwned'
    BY <1>a, <1>4, <2>1 DEF MakeEntryFails, EntryOwned, TypeOK, Control, mainVars, appVars
  <2> QED BY <1>c, <2>1, <2>2, <2>3, <2>4, <2>5, <2>6
<1>5. CASE MainLock
  <2>1. QueueShape' /\ Queued' = Queued
    BY <1>a, <1>5, SameQueue DEF MainLock
  <2>2. TypeOK'
    BY <1>a, <1>5 DEF MainLock, TypeOK, queueVars, mainVars, appVars
  <2>3. Control'
    BY <1>a, <1>5 DEF MainLock, TypeOK, Control, queueVars, mainVars, appVars
  <2>4. Bound'
    BY <1>a, <1>b, <1>5 DEF MainLock, TypeOK, Bound, queueVars, mainVars, appVars
  <2>5. NoLostWakeup'
    BY <1>a, <1>5 DEF MainLock, TypeOK, Control, NoLostWakeup, queue_isempty,
       queueVars, mainVars, appVars
  <2>6. EntryOwned'
    BY <1>a, <1>5, <2>1 DEF MainLock, EntryOwned, TypeOK, Control, mainVars, appVars
  <2> QED BY <1>c, <2>1, <2>2, <2>3, <2>4, <2>5, <2>6
<1>6. CASE MainUnlock
  <2>1. QueueShape' /\ Queued' = Queued
    BY <1>a, <1>6, SameQueue DEF MainUnlock
  <2>2. TypeOK'
    BY <1>a, <1>6 DEF MainUnlock, TypeOK, queueVars, mainVars, appVars
  <2>3. Control'
    BY <1>a, <1>6 DEF MainUnlock, TypeOK, Control, queueVars, mainVars, appVars
  <2>4. Bound'
    BY <1>a, <1>b, <1>6 DEF MainUnlock, TypeOK, Bound, queueVars, mainVars, appVars
  <2>5. NoLostWakeup'
    BY <1>a, <1>6 DEF MainUnlock, TypeOK, Control, NoLostWakeup, queue_isempty,
       queueVars, mainVars, appVars
  <2>6. EntryOwned'
    BY <1>a, <1>6, <2>1 DEF MainUnlock, EntryOwned, TypeOK, Control, mainVars, appVars
  <2> QED BY <1>c, <2>1, <2>2, <2>3, <2>4, <2>5, <2>6
<1>7. CASE Signal
  <2>1. QueueShape' /\ Queued' = Queued
    BY <1>a, <1>7, SameQueue DEF Signal
  <2>2. TypeOK'
    BY <1>a, <1>7 DEF Signal, TypeOK, queueVars, mainVars, appVars
  <2>3. Control'
    BY <1>a, <1>7 DEF Signal, TypeOK, Control, queueVars, mainVars, appVars
  <2>4. Bound'
    BY <1>a, <1>b, <1>7 DEF Signal, TypeOK, Bound, queueVars, mainVars, appVars
  <2>5. NoLostWakeup'
    BY <1>a, <1>7 DEF Signal, TypeOK, Control, NoLostWakeup, queue_isempty,
       queueVars, mainVars, appVars
  <2>6. EntryOwned'
    BY <1>a, <1>7, <2>1 DEF Signal, EntryOwned, TypeOK, Control, mainVars, appVars
  <2> QED BY <1>c, <2>1, <2>2, <2>3, <2>4, <2>5, <2>6
<1>8. CASE Stop
  <2>1. QueueShape' /\ Queued' = Queued
    BY <1>a, <1>8, SameQueue DEF Stop
  <2>2. TypeOK'
    BY <1>a, <1>8 DEF Stop, TypeOK, queueVars, mainVars, appVars
  <2>3. Control'
    BY <1>a, <1>8 DEF Stop, TypeOK, Control, queueVars, mainVars, appVars
  <2>4. Bound'
    BY <1>a, <1>b, <1>8 DEF Stop, TypeOK, Bound, queueVars, mainVars, appVars
  <2>5. NoLostWakeup'
    BY <1>a, <1>8 DEF Stop, TypeOK, Control, NoLostWakeup, queue_isempty,
       queueVars, mainVars, appVars
  <2>6. EntryOwned'
    BY <1>a, <1>8, <2>1 DEF Stop, EntryOwned, TypeOK, Control, mainVars, appVars
  <2> QED BY <1>c, <2>1, <2>2, <2>3, <2>4, <2>5, <2>6
<1>9. CASE Join
  <2>1. QueueShape' /\ Queued' = Queued
    BY <1>a, <1>9, SameQueue DEF Join
  <2>2. TypeOK'
    BY <1>a, <1>9 DEF Join, TypeOK, queueVars, mainVars, appVars
  <2>3. Control'
    BY <1>a, <1>9 DEF Join, TypeOK, Control, queueVars, mainVars, appVars
  <2>4. Bound'
    BY <1>a, <1>b, <1>9 DEF Join, TypeOK, Bound, queueVars, mainVars, appVars
  <2>5. NoLostWakeup'
    BY <1>a, <1>9 DEF Join, TypeOK, Control, NoLostWakeup, queue_isempty,
       queueVars, mainVars, appVars
  <2>6. EntryOwned'
    BY <1>a, <1>9, <2>1 DEF Join, EntryOwned, TypeOK, Control, mainVars, appVars
  <2> QED BY <1>c, <2>1, <2>2, <2>3, <2>4, <2>5, <2>6
<1>10. CASE QueueFree
  <2>1. QueueShape' /\ Queued' = Queued
    BY <1>a, <1>10, SameQueue DEF QueueFree
  <2>2. TypeOK'
    BY <1>a, <1>10 DEF QueueFree, TypeOK, queueVars, mainVars, appVars
  <2>3. Control'
    BY <1>a, <1>10 DEF QueueFree, TypeOK, Control, queueVars, mainVars, appVars
  <2>4. Bound'
    BY <1>a, <1>b, <1>10 DEF QueueFree, TypeOK, Bound, queueVars, mainVars, appVars
  <2>5. NoLostWakeup'
    BY <1>a, <1>10 DEF QueueFree, TypeOK, Control, NoLostWakeup, queue_isempty,
       queueVars, mainVars, appVars
  <2>6. EntryOwned'
    BY <1>a, <1>10, <2>1 DEF QueueFree, EntryOwned, TypeOK, Control, mainVars, appVars
  <2> QED BY <1>c, <2>1, <2>2, <2>3, <2>4, <2>5, <2>6
<1>11. CASE AppLock
  <2>1. QueueShape' /\ Queued' = Queued
    BY <1>a, <1>11, SameQueue DEF AppLock
  <2>2. TypeOK'
    BY <1>a, <1>11 DEF AppLock, TypeOK, queueVars, mainVars, appVars
  <2>3. Control'
    BY <1>a, <1>11 DEF AppLock, TypeOK, Control, queueVars, mainVars, appVars
  <2>4. Bound'
    BY <1>a, <1>b, <1>11 DEF AppLock, TypeOK, Bound, queueVars, mainVars, appVars
  <2>5. NoLostWakeup'
    BY <1>a, <1>11 DEF AppLock, TypeOK, Control, NoLostWakeup, queue_isempty,
       queueVars, mainVars, appVars
  <2>6. EntryOwned'
    BY <1>a, <1>11, <2>1 DEF AppLock, EntryOwned, TypeOK, Control, mainVars, appVars
  <2> QED BY <1>c, <2>1, <2>2, <2>3, <2>4, <2>5, <2>6
<1>12. CASE TestEmpty
  <2>1. QueueShape' /\ Queued' = Queued
    BY <1>a, <1>12, SameQueue DEF TestEmpty
  <2>2. TypeOK'
    BY <1>a, <1>12 DEF TestEmpty, TypeOK, queueVars, mainVars, appVars
  <2>3. Control'
    BY <1>a, <1>12 DEF TestEmpty, TypeOK, Control, queueVars, mainVars, appVars
  <2>4. Bound'
    BY <1>a, <1>b, <1>12 DEF TestEmpty, TypeOK, Bound, queueVars, mainVars, appVars
  <2>5. NoLostWakeup'
    BY <1>a, <1>12 DEF TestEmpty, TypeOK, Control, NoLostWakeup, queue_isempty,
       queueVars, mainVars, appVars
  <2>6. EntryOwned'
    BY <1>a, <1>12, <2>1 DEF TestEmpty, EntryOwned, TypeOK, Control, mainVars, appVars
  <2> QED BY <1>c, <2>1, <2>2, <2>3, <2>4, <2>5, <2>6
<1>13. CASE WakeUp
  <2>1. QueueShape' /\ Queued' = Queued
    BY <1>a, <1>13, SameQueue DEF WakeUp
  <2>2. TypeOK'
    BY <1>a, <1>13 DEF WakeUp, TypeOK, queueVars, mainVars, appVars
  <2>3. Control'
    BY <1>a, <1>13 DEF WakeUp, TypeOK, Control, queueVars, mainVars, appVars
  <2>4. Bound'
    BY <1>a, <1>b, <1>13 DEF WakeUp, TypeOK, Bound, queueVars, mainVars, appVars
  <2>5. NoLostWakeup'
    BY <1>a, <1>13 DEF WakeUp, TypeOK, Control, NoLostWakeup, queue_isempty,
       queueVars, mainVars, appVars
  <2>6. EntryOwned'
    BY <1>a, <1>13, <2>1 DEF WakeUp, EntryOwned, TypeOK, Control, mainVars, appVars
  <2> QED BY <1>c, <2>1, <2>2, <2>3, <2>4, <2>5, <2>6
<1>14. CASE Relock
  <2>1. QueueShape' /\ Queued' = Queued
    BY <1>a, <1>14, SameQueue DEF Relock
  <2>2. TypeOK'
    BY <1>a, <1>14 DEF Relock, TypeOK, queueVars, mainVars, appVars
  <2>3. Control'
    BY <1>a, <1>14 DEF Relock, TypeOK, Control, queueVars, mainVars, appVars
  <2>4. Bound'
    BY <1>a, <1>b, <1>14 DEF Relock, TypeOK, Bound, queueVars, mainVars, appVars
  <2>5. NoLostWakeup'
    BY <1>a, <1>14 DEF Relock, TypeOK, Control, NoLostWakeup, queue_isempty,
       queueVars, mainVars, appVars
  <2>6. EntryOwned'
    BY <1>a, <1>14, <2>1 DEF Relock, EntryOwned, TypeOK, Control, mainVars, appVars
  <2> QED BY <1>c, <2>1, <2>2, <2>3, <2>4, <2>5, <2>6
<1>15. CASE AppUnlock
  <2>1. QueueShape' /\ Queued' = Queued
    BY <1>a, <1>15, SameQueue DEF AppUnlock
  <2>2. TypeOK'
    BY <1>a, <1>15 DEF AppUnlock, TypeOK, queueVars, mainVars, appVars
  <2>3. Control'
    BY <1>a, <1>15 DEF AppUnlock, TypeOK, Control, queueVars, mainVars, appVars
  <2>4. Bound'
    BY <1>a, <1>b, <1>15 DEF AppUnlock, TypeOK, Bound, queueVars, mainVars, appVars
  <2>5. NoLostWakeup'
    BY <1>a, <1>15 DEF AppUnlock, TypeOK, Control, NoLostWakeup, queue_isempty,
       queueVars, mainVars, appVars
  <2>6. EntryOwned'
    BY <1>a, <1>15, <2>1 DEF AppUnlock, EntryOwned, TypeOK, Control, mainVars, appVars
  <2> QED BY <1>c, <2>1, <2>2, <2>3, <2>4, <2>5, <2>6
<1>16. CASE CheckStop
  <2>1. QueueShape' /\ Queued' = Queued
    BY <1>a, <1>16, SameQueue DEF CheckStop
  <2>2. TypeOK'
    BY <1>a, <1>16 DEF CheckStop, TypeOK, queueVars, mainVars, appVars
  <2>3. Control'
    BY <1>a, <1>16 DEF CheckStop, TypeOK, Control, queueVars, mainVars, appVars
  <2>4. Bound'
    BY <1>a, <1>b, <1>16 DEF CheckStop, TypeOK, Bound, queueVars, mainVars, appVars
  <2>5. NoLostWakeup'
    BY <1>a, <1>16 DEF CheckStop, TypeOK, Control, NoLostWakeup, queue_isempty,
       queueVars, mainVars, appVars
  <2>6. EntryOwned'
    BY <1>a, <1>16, <2>1 DEF CheckStop, EntryOwned, TypeOK, Control, mainVars, appVars
  <2> QED BY <1>c, <2>1, <2>2, <2>3, <2>4, <2>5, <2>6
<1>17. CASE Process
  <2>1. QueueShape' /\ Queued' = Queued
    BY <1>a, <1>17, SameQueue DEF Process
  <2>2. TypeOK'
    BY <1>a, <1>17 DEF Process, TypeOK, queueVars, mainVars, appVars
  <2>3. Control'
    BY <1>a, <1>17 DEF Process, TypeOK, Control, queueVars, mainVars, appVars
  <2>4. Bound'
    BY <1>a, <1>b, <1>17 DEF Process, TypeOK, Bound, queueVars, mainVars, appVars
  <2>5. NoLostWakeup'
    BY <1>a, <1>17 DEF Process, TypeOK, Control, NoLostWakeup, queue_isempty,
       queueVars, mainVars, appVars
  <2>6. EntryOwned'
    BY <1>a, <1>17, <2>1 DEF Process, EntryOwned, TypeOK, Control, mainVars, appVars
  <2> QED BY <1>c, <2>1, <2>2, <2>3, <2>4, <2>5, <2>6
<1>18. CASE MakeEntry
  <2>1. PICK x \in Entries \ heap :
          /\ heap' = heap \cup {x}
          /\ prev' = [prev EXCEPT ![x] = NULL]
          /\ e' = x
    BY <1>18 DEF MakeEntry
  <2>2. /\ mpc = "make" /\ mpc' = "lock"
        /\ UNCHANGED << size, top, bottom, order, lock, freed, sync, rsize,
                        appVars, loop_should_stop >>
    BY <1>18 DEF MakeEntry
  <2>3. x \notin Queued /\ x # q
    BY <1>a, <2>1 DEF EntryOwned
  <2>4. Queued' = Queued
    BY <2>2 DEF Queued
  <2>5. \A i \in 1..Len(order) : prev'[order[i]] = prev[order[i]]
    BY <1>a, <2>1, <2>3 DEF Queued, TypeOK
  <2>6. QueueShape'
    BY <1>a, <2>1, <2>2, <2>5 DEF QueueShape, TypeOK
  <2>7. TypeOK'
    BY <1>a, <2>1, <2>2 DEF TypeOK, appVars
  <2>8. Control'
    BY <1>a, <2>1, <2>2 DEF Control, TypeOK, appVars
  <2>9. Bound' /\ NoLostWakeup'
    BY <1>a, <2>2 DEF Bound, NoLostWakeup, queue_isempty, appVars
  <2>10. EntryOwned'
    BY <1>a, <2>1, <2>2, <2>3, <2>4 DEF EntryOwned, Control, appVars
  <2> QED BY <1>c, <2>6, <2>7, <2>8, <2>9, <2>10
<1>19. CASE Insert
  <2>1. /\ mpc = "insert" /\ mpc' = "unlock" /\ e' = NULL
        /\ IF sync THEN queue_cas(e) ELSE queue_put(e)
        /\ UNCHANGED << lock, freed, heap, sync, rsize, apc, rv, q,
                        loop_should_stop >>
    BY <1>19 DEF Insert, appVars
  <2>2. e # NULL /\ e \in Entries /\ prev[e] = NULL /\ e \notin Queued /\ e # q
    BY <1>a, <2>1 DEF Control, EntryOwned, TypeOK
  <2>3. /\ QueueShape' /\ Queued' = Queued \cup {e}
        /\ order' \in Seq(Entries)
        /\ prev' \in [Entries -> Entries \cup {NULL}]
        /\ size' = size + 1 /\ size' \in Nat
        /\ top' \in Entries /\ bottom' \in Entries
    <3>1. CASE sync
      BY <1>a, <2>1, <2>2, <3>1, CasShape
    <3>2. CASE ~sync
      BY <1>a, <2>1, <2>2, <3>2, PutShape
    <3> QED BY <3>1, <3>2
  <2>4. TypeOK'
    BY <1>a, <2>1, <2>3 DEF TypeOK
  <2>5. Control'
    BY <1>a, <2>1, <2>3 DEF Control, TypeOK
  <2>6. Bound' /\ NoLostWakeup'
    BY <1>a, <1>b, <2>1, <2>3 DEF Bound, NoLostWakeup, TypeOK
  <2>7. EntryOwned'
    BY <1>a, <2>1, <2>2, <2>3 DEF EntryOwned
  <2> QED BY <1>c, <2>3, <2>4, <2>5, <2>6, <2>7
<1>20. CASE Drain
  <2>1. /\ mpc = "drain" /\ bottom # NULL /\ queue_get
        /\ heap' = heap \ {bottom}
        /\ UNCHANGED << lock, freed, mpc, sync, rsize, e, apc, rv, q,
                        loop_should_stop >>
    BY <1>20 DEF Drain, mainVars, appVars
  <2>2. /\ QueueShape' /\ bottom \in Queued /\ Queued' = Queued \ {bottom}
        /\ order' \in Seq(Entries) /\ prev' = prev
        /\ size' = size - 1 /\ size' \in Nat
        /\ top' \in Entries \cup {NULL} /\ bottom' \in Entries \cup {NULL}
    BY <1>a, <2>1, GetShape
  <2>3. TypeOK'
    BY <1>a, <2>1, <2>2 DEF TypeOK
  <2>4. Control'
    BY <1>a, <2>1, <2>2 DEF Control
  <2>5. Bound' /\ NoLostWakeup'
    BY <1>a, <1>b, <2>1, <2>2 DEF Bound, NoLostWakeup, TypeOK, Control
  <2>6. EntryOwned'
    BY <1>a, <2>1, <2>2 DEF EntryOwned, Control
  <2> QED BY <1>c, <2>2, <2>3, <2>4, <2>5, <2>6
<1>21. CASE GetEntry
  <2>1. /\ apc = "get" /\ apc' = "unlock" /\ q' = bottom
        /\ IF bottom = NULL THEN UNCHANGED queueVars ELSE queue_get
        /\ UNCHANGED << lock, freed, heap, mpc, sync, rsize, e, rv,
                        loop_should_stop >>
    BY <1>21 DEF GetEntry, mainVars
  <2>2. q = NULL /\ lock = "app" /\ mpc \notin {"insert", "unlock", "drain", "stopped"}
    BY <1>a, <2>1 DEF Control
  <2>3. CASE bottom = NULL
    <3>1. /\ QueueShape' /\ Queued' = Queued /\ q' = NULL
          /\ UNCHANGED << size, top, bottom, prev, order >>
      BY <1>a, <2>1, <2>3, SameQueue DEF queueVars
    <3>2. TypeOK'
      <4>1. /\ UNCHANGED << lock, freed, heap, mpc, sync, rsize, e, rv,
                            loop_should_stop >>
            /\ apc' = "unlock" /\ q' = NULL
        BY <2>1, <3>1
      <4> QED BY <1>a, <3>1, <4>1 DEF TypeOK
    <3>3. Control'
      BY <1>a, <2>1, <3>1 DEF Control
    <3>4. Bound' /\ NoLostWakeup'
      BY <1>a, <2>1, <3>1 DEF Bound, NoLostWakeup
    <3>5. EntryOwned'
      BY <1>a, <2>1, <2>2, <3>1 DEF EntryOwned
    <3> QED BY <1>c, <3>1, <3>2, <3>3, <3>4, <3>5
  <2>4. CASE bottom # NULL
    <3>1. /\ QueueShape' /\ bottom \in Queued /\ Queued' = Queued \ {bottom}
          /\ order' \in Seq(Entries) /\ prev' = prev
          /\ size' = size - 1 /\ size' \in Nat
          /\ top' \in Entries \cup {NULL} /\ bottom' \in Entries \cup {NULL}
      BY <1>a, <2>1, <2>4, GetShape
    <3>2. TypeOK'
      BY <1>a, <2>1, <3>1 DEF TypeOK
    <3>3. Control'
      BY <1>a, <2>1, <2>2, <3>1 DEF Control
    <3>4. Bound' /\ NoLostWakeup'
      BY <1>a, <1>b, <2>1, <3>1 DEF Bound, NoLostWakeup, TypeOK
    <3>5. EntryOwned'
      BY <1>a, <2>1, <2>2, <2>4, <3>1 DEF EntryOwned
    <3> QED BY <1>c, <3>1, <3>2, <3>3, <3>4, <3>5
  <2> QED BY <2>3, <2>4
<1>22. CASE UNCHANGED vars
  <2>1. QueueShape' /\ Queued' = Queued
    BY <1>a, <1>22, SameQueue DEF vars
  <2>2. TypeOK' /\ Control' /\ Bound' /\ NoLostWakeup'
    BY <1>a, <1>22 DEF vars, queueVars, mainVars, appVars, TypeOK, Control,
       Bound, NoLostWakeup, queue_isempty
  <2>3. EntryOwned'
    BY <1>a, <1>22, <2>1 DEF vars, mainVars, appVars, EntryOwned
  <2> QED BY <1>c, <2>1, <2>2, <2>3
<1> QED
  BY <1>1, <1>2, <1>3, <1>4, <1>5, <1>6, <1>7, <1>8, <1>9, <1>10, <1>11,
     <1>12, <1>13, <1>14, <1>15, <1>16, <1>17, <1>18, <1>19, <1>20, <1>21, <1>22
  DEF Next, MainStep, AppStep, Terminated

(* The invariant holds for ever. *)
LEMMA AlwaysIInv == Spec => []IInv
BY InitIInv, NextIInv, PTL DEF Spec

------------------------------------------------------------------------------
(* Safety *)

(* Type correctness: in particular size never wraps below zero. *)
THEOREM TypeCorrect == Spec => []TypeOK
<1>1. IInv => TypeOK
  BY DEF IInv
<1> QED BY <1>1, AlwaysIInv, PTL

(* queue_put(), queue_cas() and queue_get(), interleaved in any way that the *)
(* mutex allows, keep the linked list well formed.                           *)
THEOREM QueueWellFormed == Spec => []QueueShape
<1>1. IInv => QueueShape
  BY DEF IInv
<1> QED BY <1>1, AlwaysIInv, PTL

(* No queue entry leaks and none has two owners. *)
THEOREM EntriesOwned == Spec => []EntryOwned
<1>1. IInv => EntryOwned
  BY DEF IInv
<1> QED BY <1>1, AlwaysIInv, PTL

(* The unlocked busy test of put_in_queue_long() bounds the queue. *)
THEOREM QueueIsBounded == Spec => []QueueBounded
<1>1. IInv => QueueBounded
  BY DEF IInv, Bound, QueueBounded
<1> QED BY <1>1, AlwaysIInv, PTL

(* The application thread never sleeps through a request. *)
THEOREM WakeupNeverLost == Spec => []NoLostWakeup
<1>1. IInv => NoLostWakeup
  BY DEF IInv
<1> QED BY <1>1, AlwaysIInv, PTL

(* queue_free() is never concurrent with a user of the queue and frees *)
(* every entry that is left.                                           *)
THEOREM FreedWhenUnused == Spec => []FreeWhenUnused
<1>1. ASSUME IInv PROVE FreeWhenUnused
  <2>1. TypeOK /\ Control /\ QueueShape /\ EntryOwned
    BY <1>1 DEF IInv
  <2>2. mpc \in {"drain", "stopped"} => apc = "exited" /\ lock = "free"
    BY <2>1 DEF Control, TypeOK
  <2>3. ASSUME freed PROVE heap = {}
    <3>1. mpc = "stopped" /\ apc = "exited" /\ bottom = NULL
      BY <2>1, <2>3 DEF Control
    <3>2. e = NULL /\ q = NULL
      BY <2>1, <3>1 DEF Control
    <3>3. order = << >>
      <4> SUFFICES ASSUME order # << >> PROVE FALSE
        OBVIOUS
      <4>1. Len(order) > 0 /\ order[1] \in Entries
        BY <2>1 DEF TypeOK
      <4> QED BY <2>1, <3>1, <4>1, NullAssumption DEF QueueShape
    <3>4. Queued = {}
      BY <3>3 DEF Queued
    <3> QED BY <2>1, <3>2, <3>4 DEF EntryOwned
  <2> QED BY <2>2, <2>3 DEF FreeWhenUnused
<1> QED BY <1>1, AlwaysIInv, PTL

------------------------------------------------------------------------------
(* Refinement *)

(* Following the links from bottom finds the queue's contents in service *)
(* order ...                                                            *)
LEMMA WalkIsOrder ==
  ASSUME TypeOK, QueueShape
  PROVE  Walk = order
<1> USE NullAssumption
<1>1. size = Len(order) /\ Len(order) \in Nat
  BY DEF QueueShape, TypeOK
<1>2. order = [i \in 1..size |-> order[i]]
  BY <1>1 DEF TypeOK
<1>3. ASSUME NEW i \in 1..size
      PROVE order[i] = IF i = 1 THEN bottom ELSE prev[order[i - 1]]
  <2>1. CASE i = 1
    BY <1>1, <2>1 DEF QueueShape
  <2>2. CASE i # 1
    <3>1. i - 1 \in 1..(Len(order) - 1) /\ (i - 1) + 1 = i
      BY <1>1, <2>2
    <3> QED BY <2>2, <3>1 DEF QueueShape
  <2> QED BY <2>1, <2>2
<1>4. order = [i \in 1..size |-> IF i = 1 THEN bottom ELSE prev[order[i - 1]]]
  BY <1>2, <1>3
<1>5. Chain(size, bottom, prev, order) /\ Chain(size, bottom, prev, Walk)
  BY <1>4 DEF Walk, Chain
<1> QED BY <1>1, <1>5, ChainUnique

(* ... in the next state as well. *)
LEMMA WalkIsOrderNext ==
  ASSUME TypeOK', QueueShape'
  PROVE  Walk' = order'
<1> USE NullAssumption
<1>1. size' = Len(order') /\ Len(order') \in Nat
  BY DEF QueueShape, TypeOK
<1>2. order' = [i \in 1..size' |-> order'[i]]
  BY <1>1 DEF TypeOK
<1>3. ASSUME NEW i \in 1..size'
      PROVE order'[i] = IF i = 1 THEN bottom' ELSE prev'[order'[i - 1]]
  <2>1. CASE i = 1
    BY <1>1, <2>1 DEF QueueShape
  <2>2. CASE i # 1
    <3>1. i - 1 \in 1..(Len(order') - 1) /\ (i - 1) + 1 = i
      BY <1>1, <2>2
    <3> QED BY <2>2, <3>1 DEF QueueShape
  <2> QED BY <2>1, <2>2
<1>4. order' = [i \in 1..size' |-> IF i = 1 THEN bottom' ELSE prev'[order'[i - 1]]]
  BY <1>2, <1>3
<1>5. Chain(size', bottom', prev', order') /\ Chain(size', bottom', prev', Walk')
  BY <1>4 DEF Walk, Chain
<1> QED BY <1>1, <1>5, ChainUnique

(* A newly started queue is an empty deque. *)
LEMMA InitRefines == Init => Deque!Init
<1> SUFFICES ASSUME Init PROVE Walk = << >> /\ freed = FALSE
  BY DEF Deque!Init
<1>1. TypeOK /\ QueueShape
  BY InitIInv DEF IInv
<1> QED BY <1>1, WalkIsOrder DEF Init

(* Every step of a thread is one operation on the deque, or none. *)
LEMMA NextRefines ==
  ASSUME IInv, IInv', [Next]_vars
  PROVE  [Deque!Next]_<< Walk, freed >>
<1> USE NullAssumption
<1>1. TypeOK /\ QueueShape /\ Control /\ EntryOwned /\ Bound
  BY DEF IInv
<1>2. Walk = order /\ Walk' = order'
  <2>1. TypeOK' /\ QueueShape'
    BY DEF IInv
  <2> QED BY <1>1, <2>1, WalkIsOrder, WalkIsOrderNext
<1>3. CASE Insert
  <2>1. /\ mpc = "insert" /\ freed' = freed
        /\ IF sync THEN queue_cas(e) ELSE queue_put(e)
    BY <1>3 DEF Insert
  <2>2. e # NULL /\ e \in Entries /\ e \notin Queued /\ ~freed
    BY <1>1, <2>1 DEF Control, EntryOwned, TypeOK
  <2>3. Len(order) < QueueCap
    BY <1>1, <2>1 DEF Bound, QueueShape
  <2>4. Deque!Insertable(e)
    BY <1>2, <2>2, <2>3 DEF Deque!Insertable, Queued
  <2>5. CASE sync
    BY <1>2, <2>1, <2>2, <2>4, <2>5 DEF queue_cas, Deque!Cas, Deque!Next
  <2>6. CASE ~sync
    BY <1>2, <2>1, <2>2, <2>4, <2>6 DEF queue_put, Deque!Put, Deque!Next
  <2> QED BY <2>5, <2>6
<1>4. CASE GetEntry
  <2>1. CASE bottom = NULL
    BY <1>2, <1>4, <2>1 DEF GetEntry, queueVars
  <2>2. CASE bottom # NULL
    <3>1. queue_get /\ freed' = freed
      BY <1>4, <2>2 DEF GetEntry
    <3>2. order # << >> /\ order' = Tail(order)
      BY <1>1, <2>2, <3>1, GetShape
    <3> QED BY <1>2, <3>1, <3>2 DEF Deque!Get, Deque!Next
  <2> QED BY <2>1, <2>2
<1>5. CASE Drain
  <2>1. bottom # NULL /\ queue_get /\ freed' = freed
    BY <1>5 DEF Drain
  <2>2. order # << >> /\ order' = Tail(order)
    BY <1>1, <2>1, GetShape
  <2> QED BY <1>2, <2>1, <2>2 DEF Deque!Get, Deque!Next
<1>6. CASE QueueFree
  <2>1. bottom = NULL /\ freed' = TRUE /\ order' = order
    BY <1>6 DEF QueueFree, queueVars
  <2>2. order = << >>
    <3> SUFFICES ASSUME order # << >> PROVE FALSE
      OBVIOUS
    <3>1. Len(order) > 0 /\ order[1] \in Entries
      BY <1>1 DEF TypeOK
    <3> QED BY <1>1, <2>1, <3>1 DEF QueueShape
  <2> QED BY <1>2, <2>1, <2>2 DEF Deque!Destroy, Deque!Next
<1>7. CASE \/ \E s \in SyncFlags : Request(s)
           \/ ReadSize \/ TestBusy \/ MakeEntry \/ MakeEntryFails
           \/ MainLock \/ MainUnlock \/ Signal \/ Stop \/ Join
  <2>1. order' = order /\ freed' = freed
    BY <1>7 DEF Request, ReadSize, TestBusy, MakeEntry, MakeEntryFails,
       MainLock, MainUnlock, Signal, Stop, Join, queueVars
  <2> QED BY <1>2, <2>1
<1>8. CASE \/ AppLock \/ TestEmpty \/ WakeUp \/ Relock \/ AppUnlock
           \/ CheckStop \/ Process
  <2>1. order' = order /\ freed' = freed
    BY <1>8 DEF AppLock, TestEmpty, WakeUp, Relock, AppUnlock, CheckStop,
       Process, queueVars
  <2> QED BY <1>2, <2>1
<1>9. CASE UNCHANGED vars
  BY <1>2, <1>9 DEF vars, queueVars
<1> QED BY <1>3, <1>4, <1>5, <1>6, <1>7, <1>8, <1>9
        DEF Next, MainStep, AppStep, Terminated

(* The operation queue of a plugin implements the bounded deque. *)
THEOREM QueueImplementsDeque == Spec => ImplementsDeque
<1>1. IInv /\ IInv' /\ [Next]_vars => [Deque!Next]_<< Walk, freed >>
  BY NextRefines
<1> QED
  BY <1>1, InitRefines, AlwaysIInv, PTL DEF Spec, ImplementsDeque, Deque!Spec
=============================================================================
