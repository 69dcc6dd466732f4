------------------------------- MODULE OpQueue -------------------------------
(***************************************************************************)
(* One plugin's operation queue: server/queue.c, the producer              *)
(* put_in_queue_long() of server/parse.c run by the main thread, and the   *)
(* consumer loop moc_start_base_entry() of server/mocd.c run by the        *)
(* plugin's own thread, with the shutdown moc_stop_driver().               *)
(*                                                                         *)
(* Every access the code makes under queue_lock() is one step; every       *)
(* access it makes outside the lock (the two reads of size in the busy     *)
(* test, the read of loop_should_stop) is a step of its own.               *)
(***************************************************************************)
EXTENDS Integers, Sequences, FiniteSets

CONSTANTS Entries,          \* the heap cells malloc() can return for an entry
          NULL,             \* the null pointer
          MAX_QUEUE_ENTRY,  \* server/queue.h:6
          BusyStep,         \* the 100 of parse.c:130
          SyncFlags         \* the FLAGS_SYNC values requests carry

ASSUME NullAssumption == NULL \notin Entries
ASSUME MaxAssumption  == MAX_QUEUE_ENTRY \in Nat
ASSUME StepAssumption == BusyStep \in Nat \ {0}
ASSUME SyncAssumption == SyncFlags \subseteq BOOLEAN

VARIABLES
  \* struct queue
  size, top, bottom, lock, freed,
  \* the prev field of each entry, and the entries malloc()ed and not free()d
  prev, heap,
  \* history: the queue's contents in service order
  order,
  \* the main thread: program counter and locals
  mpc, sync, rsize, e,
  \* the application thread: program counter and locals
  apc, rv, q,
  \* struct event_entry
  loop_should_stop

queueVars == << size, top, bottom, prev, order >>
mainVars  == << mpc, sync, rsize, e >>
appVars   == << apc, rv, q >>
vars == << queueVars, lock, freed, heap, mainVars, appVars, loop_should_stop >>

------------------------------------------------------------------------------
(* queue_create() and pthread_create() in moc_start_driver(). *)
Init ==
  /\ size = 0 /\ top = NULL /\ bottom = NULL
  /\ lock = "free" /\ freed = FALSE
  /\ prev = [x \in Entries |-> NULL] /\ heap = {} /\ order = << >>
  /\ mpc = "idle" /\ sync = FALSE /\ rsize = 0 /\ e = NULL
  /\ apc = "lock" /\ rv = "ok" /\ q = NULL
  /\ loop_should_stop = FALSE

------------------------------------------------------------------------------
(* Mutant: size++ is left out for the first entry. *)
queue_put_SizeInElse(x) ==
  /\ IF top = NULL
       THEN bottom' = x /\ UNCHANGED << prev, size >>
       ELSE prev' = [prev EXCEPT ![top] = x] /\ size' = size + 1
            /\ UNCHANGED bottom
  /\ top' = x
  /\ order' = Append(order, x)

(* server/queue.c *)
queue_put(x) ==
  /\ IF top = NULL
       THEN bottom' = x /\ UNCHANGED prev
       ELSE prev' = [prev EXCEPT ![top] = x] /\ UNCHANGED bottom
  /\ top' = x
  /\ size' = size + 1
  /\ order' = Append(order, x)

(* Mutant: the new entry is not linked to the old bottom. *)
queue_cas_NoLink(x) ==
  /\ top' = IF top = NULL THEN x ELSE top
  /\ bottom' = x
  /\ size' = size + 1
  /\ order' = << x >> \o order
  /\ UNCHANGED prev

queue_cas(x) ==
  /\ IF top = NULL
       THEN top' = x /\ UNCHANGED prev
       ELSE prev' = [prev EXCEPT ![x] = bottom] /\ UNCHANGED top
  /\ bottom' = x
  /\ size' = size + 1
  /\ order' = << x >> \o order

(* Mutant: top is not reset when the last entry is taken. *)
queue_get_KeepsTop ==
  /\ bottom' = prev[bottom]
  /\ size' = size - 1
  /\ order' = Tail(order)
  /\ UNCHANGED << top, prev >>

(* The branch of queue_get() that returns an entry. *)
queue_get ==
  /\ bottom' = prev[bottom]
  /\ top' = IF prev[bottom] = NULL THEN NULL ELSE top
  /\ size' = size - 1
  /\ order' = Tail(order)
  /\ UNCHANGED prev

queue_isempty == size = 0

------------------------------------------------------------------------------
(* The main thread: put_in_queue_long(), once the plugin has been found. *)
Request(s) ==
  /\ mpc = "idle"
  /\ mpc' = "size" /\ sync' = s
  /\ UNCHANGED << queueVars, lock, freed, heap, rsize, e, appVars,
                  loop_should_stop >>

(* op_queue->size > MAX_QUEUE_ENTRY, read without the lock. *)
ReadSize ==
  /\ mpc = "size"
  /\ rsize' = size
  /\ mpc' = IF size > MAX_QUEUE_ENTRY THEN "busy" ELSE "make"
  /\ UNCHANGED << queueVars, lock, freed, heap, sync, e, appVars,
                  loop_should_stop >>

(* Mutant: the busy plugin's request is queued all the same. *)
TestBusy_Never ==
  /\ mpc = "busy"
  /\ mpc' = "make"
  /\ UNCHANGED << queueVars, lock, freed, heap, sync, rsize, e, appVars,
                  loop_should_stop >>

(* op_queue->size % 100 == 0: the compiler may reuse the value it has just *)
(* read or read size again.  A busy plugin's request is dropped (and, if   *)
(* synchronous, answered REP_ERR_BUSY).                                    *)
TestBusy ==
  /\ mpc = "busy"
  /\ \E s \in {rsize, size} :
       mpc' = IF s % BusyStep = 0 THEN "idle" ELSE "make"
  /\ UNCHANGED << queueVars, lock, freed, heap, sync, rsize, e, appVars,
                  loop_should_stop >>

MakeEntry ==
  /\ mpc = "make"
  /\ \E x \in Entries \ heap :
       /\ heap' = heap \cup {x}
       /\ prev' = [prev EXCEPT ![x] = NULL]
       /\ e' = x
  /\ mpc' = "lock"
  /\ UNCHANGED << size, top, bottom, order, lock, freed, sync, rsize, appVars,
                  loop_should_stop >>

(* malloc() fails: parse_event() gives up (and answers REP_ERR_MEM). *)
MakeEntryFails ==
  /\ mpc = "make"
  /\ mpc' = "idle"
  /\ UNCHANGED << queueVars, lock, freed, heap, sync, rsize, e, appVars,
                  loop_should_stop >>

MainLock ==
  /\ mpc = "lock" /\ lock = "free"
  /\ lock' = "main" /\ mpc' = "insert"
  /\ UNCHANGED << queueVars, freed, heap, sync, rsize, e, appVars,
                  loop_should_stop >>

(* Mutant: queue_put() and queue_cas() are swapped. *)
Insert_Swapped ==
  /\ mpc = "insert"
  /\ IF sync THEN queue_put(e) ELSE queue_cas(e)
  /\ e' = NULL
  /\ mpc' = "unlock"
  /\ UNCHANGED << lock, freed, heap, sync, rsize, appVars, loop_should_stop >>

Insert ==
  /\ mpc = "insert"
  /\ IF sync THEN queue_cas(e) ELSE queue_put(e)
  /\ e' = NULL
  /\ mpc' = "unlock"
  /\ UNCHANGED << lock, freed, heap, sync, rsize, appVars, loop_should_stop >>

MainUnlock ==
  /\ mpc = "unlock"
  /\ lock' = "free" /\ mpc' = "signal"
  /\ UNCHANGED << queueVars, freed, heap, sync, rsize, e, appVars,
                  loop_should_stop >>

(* Mutant: only synchronous requests wake the thread. *)
Signal_SyncOnly ==
  /\ mpc = "signal"
  /\ mpc' = "idle"
  /\ apc' = IF apc = "wait" /\ sync THEN "relock" ELSE apc
  /\ UNCHANGED << queueVars, lock, freed, heap, sync, rsize, e, rv, q,
                  loop_should_stop >>

(* queue_signal() wakes the application thread if it is waiting, and is    *)
(* lost otherwise.                                                         *)
Signal ==
  /\ mpc = "signal"
  /\ mpc' = "idle"
  /\ apc' = IF apc = "wait" THEN "relock" ELSE apc
  /\ UNCHANGED << queueVars, lock, freed, heap, sync, rsize, e, rv, q,
                  loop_should_stop >>

(* moc_stop_driver(), once event_dispatch() has returned. *)
Stop ==
  /\ mpc = "idle"
  /\ loop_should_stop' = TRUE /\ mpc' = "join"
  /\ UNCHANGED << queueVars, lock, freed, heap, sync, rsize, e, appVars >>

(* Mutant: no pthread_join(). *)
Join_NoWait ==
  /\ mpc = "join"
  /\ mpc' = "drain"
  /\ UNCHANGED << queueVars, lock, freed, heap, sync, rsize, e, appVars,
                  loop_should_stop >>

Join ==
  /\ mpc = "join" /\ apc = "exited"
  /\ mpc' = "drain"
  /\ UNCHANGED << queueVars, lock, freed, heap, sync, rsize, e, appVars,
                  loop_should_stop >>

(* Mutant: the entries left in the queue are not freed. *)
Drain_NoFree ==
  /\ mpc = "drain" /\ bottom # NULL
  /\ queue_get
  /\ UNCHANGED << heap, lock, freed, mainVars, appVars, loop_should_stop >>

(* queue_free(): get and free every entry that is left ... *)
Drain ==
  /\ mpc = "drain" /\ bottom # NULL
  /\ queue_get
  /\ heap' = heap \ {bottom}
  /\ UNCHANGED << lock, freed, mainVars, appVars, loop_should_stop >>

(* ... and then the queue itself. *)
QueueFree ==
  /\ mpc = "drain" /\ bottom = NULL
  /\ freed' = TRUE /\ mpc' = "stopped"
  /\ UNCHANGED << queueVars, lock, heap, sync, rsize, e, appVars,
                  loop_should_stop >>

------------------------------------------------------------------------------
(* The application thread: moc_start_base_entry(). *)
AppLock ==
  /\ apc = "lock" /\ lock = "free"
  /\ lock' = "app" /\ rv' = "ok" /\ apc' = "test"
  /\ UNCHANGED << queueVars, freed, heap, mainVars, q, loop_should_stop >>

(* Mutant: the loop waits on after a timeout. *)
TestEmpty_IgnoresRv ==
  /\ apc = "test"
  /\ IF queue_isempty
       THEN apc' = "wait" /\ lock' = "free"
       ELSE apc' = "get" /\ UNCHANGED lock
  /\ UNCHANGED << queueVars, freed, heap, mainVars, rv, q, loop_should_stop >>

(* The loop's test; queue_timedwait() releases the lock as it starts to    *)
(* wait.                                                                   *)
TestEmpty ==
  /\ apc = "test"
  /\ IF queue_isempty /\ rv = "ok"
       THEN apc' = "wait" /\ lock' = "free"
       ELSE apc' = "get" /\ UNCHANGED lock
  /\ UNCHANGED << queueVars, freed, heap, mainVars, rv, q, loop_should_stop >>

(* The one-second timeout, or a spurious wakeup. *)
WakeUp ==
  /\ apc = "wait"
  /\ rv' \in {"ok", "ETIMEDOUT"}
  /\ apc' = "relock"
  /\ UNCHANGED << queueVars, lock, freed, heap, mainVars, q, loop_should_stop >>

Relock ==
  /\ apc = "relock" /\ lock = "free"
  /\ lock' = "app" /\ apc' = "test"
  /\ UNCHANGED << queueVars, freed, heap, mainVars, rv, q, loop_should_stop >>

GetEntry ==
  /\ apc = "get"
  /\ q' = bottom
  /\ IF bottom = NULL THEN UNCHANGED queueVars ELSE queue_get
  /\ apc' = "unlock"
  /\ UNCHANGED << lock, freed, heap, mainVars, rv, loop_should_stop >>

AppUnlock ==
  /\ apc = "unlock"
  /\ lock' = "free"
  /\ apc' = IF q = NULL THEN "check" ELSE "process"
  /\ UNCHANGED << queueVars, freed, heap, mainVars, rv, q, loop_should_stop >>

(* loop_should_stop is read after the lock has been released. *)
CheckStop ==
  /\ apc = "check"
  /\ apc' = IF loop_should_stop THEN "exited" ELSE "lock"
  /\ UNCHANGED << queueVars, lock, freed, heap, mainVars, rv, q,
                  loop_should_stop >>

(* Mutant: no queue_entry_free(). *)
Process_NoFree ==
  /\ apc = "process"
  /\ q' = NULL
  /\ apc' = "lock"
  /\ UNCHANGED << heap, queueVars, lock, freed, mainVars, rv,
                  loop_should_stop >>

(* process_driver() and then queue_entry_free(). *)
Process ==
  /\ apc = "process"
  /\ heap' = heap \ {q} /\ q' = NULL
  /\ apc' = "lock"
  /\ UNCHANGED << queueVars, lock, freed, mainVars, rv, loop_should_stop >>

------------------------------------------------------------------------------
Terminated ==
  /\ mpc = "stopped"
  /\ UNCHANGED vars

MainStep ==
  \/ ReadSize \/ TestBusy \/ MakeEntry \/ MakeEntryFails
  \/ MainLock \/ Insert \/ MainUnlock \/ Signal
  \/ Join \/ Drain \/ QueueFree

AppStep ==
  \/ AppLock \/ TestEmpty \/ WakeUp \/ Relock
  \/ GetEntry \/ AppUnlock \/ CheckStop \/ Process

Next == \/ (\E s \in SyncFlags : Request(s))
        \/ MainStep
        \/ Stop
        \/ AppStep
        \/ Terminated

Spec == Init /\ [][Next]_vars

(***************************************************************************)
(* Each thread keeps running, a thread that asks for the mutex again and   *)
(* again while it is released in between gets it, and the one-second       *)
(* deadline, absolute and not renewed by a spurious wakeup, expires.       *)
(* Nothing makes a client send and nothing makes the server stop.          *)
(***************************************************************************)
Fairness ==
  /\ WF_vars(MainStep)
  /\ WF_vars(AppStep)
  /\ SF_vars(WakeUp /\ rv' = "ETIMEDOUT")
  /\ SF_vars(MainLock)
  /\ SF_vars(AppLock \/ Relock)

FairSpec == Spec /\ Fairness
------------------------------------------------------------------------------
(* Properties *)

(* Every variable has its type: the size_t size never wraps below zero, and *)
(* the pointers are null or point to entries.                               *)
TypeOK ==
  /\ size \in Nat
  /\ top \in Entries \cup {NULL} /\ bottom \in Entries \cup {NULL}
  /\ lock \in {"free", "main", "app"} /\ freed \in BOOLEAN
  /\ prev \in [Entries -> Entries \cup {NULL}]
  /\ heap \in SUBSET Entries
  /\ order \in Seq(Entries)
  /\ mpc \in {"idle", "size", "busy", "make", "lock", "insert", "unlock",
              "signal", "join", "drain", "stopped"}
  /\ sync \in BOOLEAN /\ rsize \in Nat /\ e \in Entries \cup {NULL}
  /\ apc \in {"lock", "test", "wait", "relock", "get", "unlock", "check",
              "process", "exited"}
  /\ rv \in {"ok", "ETIMEDOUT"} /\ q \in Entries \cup {NULL}
  /\ loop_should_stop \in BOOLEAN

Queued == {order[i] : i \in 1..Len(order)}

(* The linked list of queue.c represents the queue's contents: bottom is   *)
(* the next entry to serve, each prev leads to the one served after it,    *)
(* top is the last one and ends the list, size counts them, and no entry   *)
(* is linked twice, whatever mix of queue_put(), queue_cas() and           *)
(* queue_get() the two threads have run.                                   *)
QueueShape ==
  /\ size = Len(order)
  /\ IF order = << >>
       THEN top = NULL /\ bottom = NULL
       ELSE /\ bottom = order[1]
            /\ top = order[Len(order)]
            /\ prev[top] = NULL
  /\ \A i \in 1..(Len(order) - 1) : prev[order[i]] = order[i + 1]
  /\ \A i, j \in 1..Len(order) : order[i] = order[j] => i = j

(* Every malloc()ed entry has exactly one owner, the queue, the main       *)
(* thread's e or the application thread's q, so that no entry leaks and    *)
(* none is freed while another part still links to it (the ownership that  *)
(* the comment of queue.h:30 describes).                                   *)
EntryOwned ==
  /\ heap = Queued \cup ({e, q} \ {NULL})
  /\ e # NULL => e \notin Queued /\ e # q
  /\ q # NULL => q \notin Queued

(* The busy test of parse.c:129 refuses a request only when size is above  *)
(* MAX_QUEUE_ENTRY and a multiple of 100, and reads size twice without the *)
(* lock; even so the queue never grows past the first multiple of 100      *)
(* above MAX_QUEUE_ENTRY.                                                  *)
QueueCap == (MAX_QUEUE_ENTRY \div BusyStep + 1) * BusyStep
QueueBounded == size <= QueueCap

(* A request is never left in the queue with its thread asleep and nobody  *)
(* about to wake it: put_in_queue_long() signals after it has released the *)
(* lock, and the thread tests the queue and starts to wait in one critical *)
(* section.  (The one-second timeout only bounds the time to stop.)        *)
NoLostWakeup ==
  apc = "wait" /\ ~queue_isempty => mpc \in {"unlock", "signal"}

(* "We know when we're called there is no other possible queue user"       *)
(* (queue.c:31): queue_free() runs only after the application thread has   *)
(* ended, and leaves no entry behind.                                      *)
FreeWhenUnused ==
  /\ mpc \in {"drain", "stopped"} => apc = "exited" /\ lock = "free"
  /\ freed => heap = {}

(* The contents of the queue as a reader of the list finds them, from      *)
(* bottom along the prev links.                                            *)
Walk[i \in 1..size] == IF i = 1 THEN bottom ELSE prev[Walk[i - 1]]

(* The queue implements the bounded deque: each critical section is one    *)
(* Put, Cas or Get, and everything else leaves the contents alone.         *)
Deque == INSTANCE OpDeque WITH deque <- Walk, destroyed <- freed,
                               Capacity <- QueueCap
ImplementsDeque == Deque!Spec

(* If requests stop coming for good, every accepted one is processed and   *)
(* freed, synchronous or not.                                              *)
Drained == <>[](mpc = "idle") => <>[](heap = {})

(* Once moc_stop_driver() has set loop_should_stop, the application thread *)
(* ends, pthread_join() returns and the queue is freed: the timeout makes  *)
(* up for the signal that moc_stop_driver() does not send.                 *)
StopCompletes == (mpc = "join") ~> freed

(* Once synchronous requests stop overtaking the others, the queue is      *)
(* first in, first out and no request waits for ever, however many follow  *)
(* it.                                                                     *)
AsyncServed ==
  <>[](mpc = "insert" => ~sync) =>
    \A x \in Entries : (x \in Queued) ~> (x \notin Queued)
==============================================================================
