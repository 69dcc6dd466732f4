------------------------------- MODULE Server -------------------------------
(***************************************************************************)
(* The server around its plugins (main.c, mocd.c, net.c): start-up loads   *)
(* the configured plugins into a hash table, the event loop's clock runs   *)
(* their timers, and moc_stop() ends them.  A plugin's entry is named by   *)
(* its place in the configuration: a plugin configured twice has two.      *)
(***************************************************************************)
EXTENDS Integers, Sequences, SequencesExt, FiniteSets

CONSTANTS Config,     \* names of the configured plugins, in order
          HASHLEN,    \* hashlen, 16 in the code
          Bucket,     \* hash(name) % hashlen of each name, plus 1
          CHAINLEN,   \* chainlen, 1000000 in the code
          TimersOf,   \* timers that the init_driver of a name adds, in order
          ClockSteps, \* seconds by which the wall clock moves between two calls
          Epoch,      \* the wall clock when the event loop starts
          MaxUpsec    \* bound: the event loop is watched up to here

ASSUME ServerAssumption ==
  /\ HASHLEN \in Nat \ {0} /\ CHAINLEN \in Nat \ {0} /\ Epoch \in Nat \ {0} /\ ClockSteps \subseteq Int
  /\ Config \in Seq(DOMAIN Bucket \cap DOMAIN TimersOf)
  /\ \A n \in DOMAIN Bucket : Bucket[n] \in 1 .. HASHLEN
  /\ \A n \in DOMAIN TimersOf : TimersOf[n] \in Seq([timeout : Int, repeat : BOOLEAN])

VARIABLES phase,    \* "starting", "serving", "stopping", "ended"
          res,      \* place in the configuration
          chains,   \* table: the entries of each bucket
          numevts,
          threads,  \* entries whose thread runs
          joined,   \* entries in the order in which their threads were joined
          todo,     \* what is left of the walk of moc_stop()
          lists,    \* the timers of each entry
          ctime,    \* g_ctime
          upsec,
          seen      \* the values of upsec at which timers were looked at

serverVars == << phase, res, chains, numevts, threads, joined, todo, lists, ctime, upsec, seen >>

Entries  == DOMAIN Config
Timer(e, k) == TimersOf[Config[e]][k]

(* A list of timers: nodes are numbered in the order they were added, 0 is NULL *)
NoTimers == [head |-> 0, next |-> << >>, fired |-> << >>, freed |-> {}]

moc_add_timer(list) ==
  [list EXCEPT !.next = Append(@, list.head), !.head = Len(list.next) + 1, !.fired = Append(@, 0)]

(* init_driver() is where a plugin adds its timers, one call for each; the *)
(* repository's own have the call commented out                            *)
AddTimers(e) ==
  LET n == Len(TimersOf[Config[e]])
      list[i \in 0 .. n] == IF i = 0 THEN NoTimers ELSE moc_add_timer(list[i - 1])
  IN  list[n]

ServerInit ==
  /\ phase = "starting" /\ res = 1
  /\ chains = [b \in 1 .. HASHLEN |-> << >>]
  /\ numevts = 0 /\ threads = {} /\ joined = << >> /\ todo = << >>
  /\ lists = [e \in Entries |-> NoTimers]
  /\ ctime = 0 /\ upsec = 0 /\ seen = {}

-----------------------------------------------------------------------------
(* moc_start() *)

Loading == phase = "starting" /\ res \in Entries

(* dlopen() or dlsym() fails: the plugin is skipped *)
SkipPlugin ==
  /\ Loading
  /\ res' = res + 1
  /\ UNCHANGED << phase, chains, numevts, threads, joined, todo, lists, ctime, upsec, seen >>

(* init_driver() finds no memory and takes back what it had got *)
init_driver_fails == SkipPlugin

(* Mutant: the new entry is not linked to the chain behind it. *)
InsertUnlinked(c, e) == << e >>

InsertFirst(c, e) == << e >> \o c

moc_start_driver ==
  LET b == Bucket[Config[res]]
      c == chains[b]
  IN  /\ Loading
      /\ res' = res + 1
      /\ lists' = [lists EXCEPT ![res] = AddTimers(res)]
      /\ IF Len(c) <= CHAINLEN
           THEN /\ chains' = [chains EXCEPT ![b] = InsertFirst(c, res)]
                /\ numevts' = numevts + 1
                /\ threads' = threads \cup {res}
                /\ UNCHANGED joined
           ELSE /\ joined' = Append(joined, res)  \* started, and stopped at once
                /\ UNCHANGED << chains, numevts, threads >>
      /\ UNCHANGED << phase, todo, ctime, upsec, seen >>

find_in_chain(c, name) ==
  LET at == {i \in DOMAIN c : Config[c[i]] = name}
  IN  IF at = {} THEN 0 ELSE c[CHOOSE i \in at : \A j \in at : i <= j]

find_entry_in_table(name) == find_in_chain(chains[Bucket[name]], name)

-----------------------------------------------------------------------------
(* net_go() *)

(* Any of the calls of tcp_init() can fail *)
tcp_init == {"serving", "stopping"}

(* Without a socket the server goes straight to moc_stop().  The           *)
(* event loop itself ends only by an error of event_dispatch().            *)
net_go(to) ==
  /\ \/ phase = "starting" /\ res \notin Entries /\ to \in tcp_init
     \/ phase = "serving" /\ to = "stopping"
  /\ phase' = to
  /\ todo' = IF to = "stopping" THEN FlattenSeq(chains) ELSE todo
  /\ UNCHANGED << res, chains, numevts, threads, joined, lists, ctime, upsec, seen >>

(* One pass of time_up() over a list.  s has the list and the cursors t    *)
(* and p; who is freed is no longer in the list.                           *)
Fired(s) == [s EXCEPT !.fired[s.t] = @ + 1]

(* Mutant: the predecessor is taken for the one that is dropped. *)
DropAfterHead(s) ==
  [s EXCEPT !.head = s.next[s.t], !.freed = @ \cup {s.t}, !.t = s.next[s.t]]

Drop(s) ==
  IF s.t = s.head
    THEN [s EXCEPT !.head = s.next[s.t], !.freed = @ \cup {s.t}, !.t = s.next[s.t]]
    ELSE [s EXCEPT !.next[s.p] = s.next[s.t], !.freed = @ \cup {s.t}, !.t = s.next[s.t]]

Step(s) == [s EXCEPT !.p = s.t, !.t = s.next[s.t]]

(* A turn of the loop.  It is over at the end of the list, or at a timer   *)
(* whose timeout is not positive.                                          *)
Over(e, s) == s.t = 0 \/ Timer(e, s.t).timeout <= 0
Turn(e, up, s) ==
  IF Over(e, s) THEN s
  ELSE IF up % Timer(e, s.t).timeout # 0 THEN Step(s)
  ELSE IF Timer(e, s.t).repeat THEN Step(Fired(s)) ELSE Drop(Fired(s))

(* There are at most as many turns as timers: each leaves one behind *)
RunTimers(e, up) ==
  LET l == lists[e]
      n == Len(l.next)
      start == [head |-> l.head, next |-> l.next, fired |-> l.fired, freed |-> l.freed, t |-> l.head, p |-> l.head]
      walk[i \in 0 .. n] == IF i = 0 THEN start ELSE Turn(e, up, walk[i - 1])
  IN  [head |-> walk[n].head, next |-> walk[n].next, fired |-> walk[n].fired, freed |-> walk[n].freed]

(* The callback of the 100 ms event.  Between two calls the wall clock may *)
(* stand still, jump, or be set back.                                      *)
time_up(d) ==
  LET now  == IF ctime = 0 THEN Epoch ELSE ctime + d
      step == now - ctime >= 1
      up   == upsec + (now - ctime)
  IN  /\ phase = "serving"
      /\ now > 0
      /\ step => up <= MaxUpsec
      /\ ctime' = now
      /\ upsec' = IF step THEN up ELSE upsec
      /\ seen' = IF step THEN seen \cup {up} ELSE seen
      /\ lists' = [e \in Entries |->
                     IF step /\ \E b \in DOMAIN chains : Contains(chains[b], e) THEN RunTimers(e, up) ELSE lists[e]]
      /\ UNCHANGED << phase, res, chains, numevts, threads, joined, todo >>

-----------------------------------------------------------------------------
(* moc_stop(): one moc_stop_driver() after the other *)
moc_stop ==
  /\ phase = "stopping"
  /\ IF todo # << >>
       THEN /\ threads' = threads \ {Head(todo)}
            /\ joined' = Append(joined, Head(todo))
            /\ todo' = Tail(todo)
            /\ UNCHANGED << phase, chains >>
       ELSE /\ phase' = "ended"
            /\ chains' = [b \in DOMAIN chains |-> << >>]
            /\ UNCHANGED << threads, joined, todo >>
  /\ UNCHANGED << res, numevts, lists, ctime, upsec, seen >>

ServerNext ==
  \/ SkipPlugin \/ init_driver_fails \/ moc_start_driver
  \/ \E to \in tcp_init : net_go(to)
  \/ \E d \in ClockSteps : time_up(d)
  \/ moc_stop

ServerSpec == ServerInit /\ [][ServerNext]_serverVars

-----------------------------------------------------------------------------
Linked(e) == \E b \in DOMAIN chains : Contains(chains[b], e)
Started == {e \in Entries : lists[e] # NoTimers \/ Linked(e) \/ Contains(joined, e)}
Times(e) == Cardinality({i \in DOMAIN joined : joined[i] = e})

(* Plugins are neither lost nor ended twice: while the server is up, every *)
(* thread that runs is that of one entry of the table, numevts counts      *)
(* them, a lookup finds the entry of a name that was started last (a       *)
(* plugin can be configured twice), and whoever is not in the table was    *)
(* joined exactly once; at the end all were (mocd.c:116, 206).             *)
PluginsKept ==
  /\ phase \in {"starting", "serving"} =>
       /\ \A e \in Entries : e \in threads <=> Linked(e)
       /\ numevts = Cardinality(threads)
       /\ \A n \in DOMAIN Bucket :
            LET mine == {e \in threads : Config[e] = n}
            IN  find_entry_in_table(n) = IF mine = {} THEN 0 ELSE CHOOSE e \in mine : \A o \in mine : o <= e
  /\ \A e \in Started : Times(e) = IF e \in threads THEN 0 ELSE 1
  /\ phase = "ended" => threads = {}

(* Timers run when they are due, whatever was dropped before them in the   *)
(* same pass: a repeated one once for every multiple of its timeout that   *)
(* upsec came to, a one-shot once, after which it is not in the list, and  *)
(* the list has every other one.  Behind a timer whose timeout is not      *)
(* positive none runs (net.c:39, 46).                                      *)
TimersExact ==
  \A e \in threads :
    LET l == lists[e]
        blocked(k) == \E j \in k .. Len(l.next) : Timer(e, j).timeout <= 0
        due(k) == IF blocked(k) THEN 0 ELSE Cardinality({u \in seen : u % Timer(e, k).timeout = 0})
        once(k) == ~ Timer(e, k).repeat
        inList == {k \in DOMAIN l.next : k = l.head \/ \E j \in DOMAIN l.next \ l.freed : l.next[j] = k}
    IN  /\ \A k \in DOMAIN l.next :
             /\ l.fired[k] = IF once(k) /\ due(k) > 1 THEN 1 ELSE due(k)
             /\ k \in l.freed <=> once(k) /\ due(k) >= 1
        /\ inList = DOMAIN l.next \ l.freed
=============================================================================
