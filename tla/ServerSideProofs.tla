-------------------------- MODULE ServerSideProofs --------------------------
(***************************************************************************)
(* The parts that ServerSide puts next to each other, for every value of   *)
(* their constants.                                                        *)
(*                                                                         *)
(* Server: plugins are neither lost nor ended twice, and timers run        *)
(* exactly when they are due.  Its table and its lists of timers are       *)
(* walked by recursive functions; what they return is shown by induction   *)
(* on the number of steps (ListLemmas).                                    *)
(*                                                                         *)
(* Chat: what a client receives is whole messages, if those who are pushed *)
(* to read in time.  Written() is a recursive function over the messages   *)
(* of a client.  The invariant says that its equation has a solution; a    *)
(* message that is reported as sent extends the solution by one place.     *)
(*                                                                         *)
(* Bang: the tables of the bang plugin are sound.                          *)
(***************************************************************************)
EXTENDS ServerSide, ListLemmas, FiniteSetTheorems, SequenceTheorems, TLAPS

-----------------------------------------------------------------------------
(* Walking the table *)

(* What the first i sequences of cs hold, one after the other *)
Joint(S, cs, i) ==
  {x \in Seq(S) : /\ Different(x)
                  /\ \A y \in S : Contains(x, y) <=> \E b \in 1 .. i : Contains(cs[b], y)}

Apart(S, n, cs) ==
  /\ \A b \in 1 .. n : Different(cs[b])
  /\ \A b, d \in 1 .. n : \A y \in S : Contains(cs[b], y) /\ Contains(cs[d], y) => b = d

LEMMA JointNext ==
  ASSUME NEW S, NEW n \in Nat, NEW cs \in [1 .. n -> Seq(S)], Apart(S, n, cs),
         NEW i \in 1 .. (n - 1), NEW x \in Joint(S, cs, i)
  PROVE  x \o cs[i + 1] \in Joint(S, cs, i + 1)
<1>0. i + 1 \in 1 .. n
  OBVIOUS
<1>1. PICK t : t = cs[i + 1]
  OBVIOUS
<1>2. x \in Seq(S) /\ t \in Seq(S) /\ Different(x) /\ Different(t)
  BY <1>0, <1>1 DEF Joint, Apart
<1>3. \A y \in S : Contains(x, y) <=> \E b \in 1 .. i : Contains(cs[b], y)
  BY DEF Joint
<1>4. ASSUME NEW y \in S PROVE ~(Contains(x, y) /\ Contains(t, y))
  <2> SUFFICES ASSUME Contains(x, y), Contains(t, y) PROVE FALSE
    OBVIOUS
  <2>1. PICK b \in 1 .. i : Contains(cs[b], y)
    BY <1>3
  <2>2. b \in 1 .. n /\ b # i + 1
    BY <1>0
  <2> QED BY <2>1, <2>2, <1>0, <1>1 DEF Apart
<1>5. Different(x \o t)
  BY <1>2, <1>4, ConcatDifferent
<1>6. ASSUME NEW y \in S
      PROVE  Contains(x \o t, y) <=> \E b \in 1 .. (i + 1) : Contains(cs[b], y)
  <2>1. Contains(x \o t, y) <=> Contains(x, y) \/ Contains(t, y)
    BY <1>2, ConcatContains
  <2>2. \A b : b \in 1 .. (i + 1) <=> b \in 1 .. i \/ b = i + 1
    OBVIOUS
  <2> QED BY <2>1, <2>2, <1>1, <1>3
<1>7. x \o t \in Seq(S)
  BY <1>2
<1> QED BY <1>1, <1>5, <1>6, <1>7 DEF Joint

LEMMA Flattened ==
  ASSUME NEW S, NEW n \in Nat \ {0}, NEW cs \in [1 .. n -> Seq(S)], Apart(S, n, cs)
  PROVE  FlattenSeq(cs) \in Joint(S, cs, n)
<1> DEFINE m == n - 1
           J == [i \in 0 .. m |-> Joint(S, cs, i + 1)]
           g == [i \in 1 .. m |-> [x \in J[i - 1] |-> x \o cs[i + 1]]]
<1>0. m \in Nat /\ 0 \in 0 .. m /\ m \in 0 .. m /\ m + 1 = n
  OBVIOUS
<1>1. cs[1] \in J[0]
  <2>1. 1 \in 1 .. n /\ \A b : b \in 1 .. (0 + 1) <=> b = 1
    OBVIOUS
  <2>2. cs[1] \in Seq(S) /\ Different(cs[1])
    BY <2>1 DEF Apart
  <2>3. cs[1] \in Joint(S, cs, 0 + 1)
    BY <2>1, <2>2 DEF Joint
  <2> QED BY <2>3, <1>0
<1>2. ASSUME NEW i \in 1 .. m, NEW x \in J[i - 1]
      PROVE  g[i][x] = x \o cs[i + 1] /\ g[i][x] \in J[i]
  <2>1. i \in 1 .. (n - 1) /\ i - 1 \in 0 .. m /\ i \in 0 .. m /\ (i - 1) + 1 = i
    OBVIOUS
  <2>2. x \in Joint(S, cs, i)
    BY <2>1, <1>2
  <2>3. x \o cs[i + 1] \in Joint(S, cs, i + 1)
    BY <2>1, <2>2, JointNext
  <2>4. g[i][x] = x \o cs[i + 1]
    BY <2>1
  <2> QED BY <2>1, <2>3, <2>4
<1> HIDE DEF m, J, g
<1>3. PICK f : Iterates(cs[1], g, m, f) /\ \A i \in 0 .. m : f[i] \in J[i]
  BY <1>0, <1>1, <1>2, IterationExists
<1> DEFINE Step1(h) == [i \in 1 .. n |-> IF i = 1 THEN cs[i] ELSE h[i - 1] \o cs[i]]
           k == CHOOSE h : h = Step1(h)
<1>4. PICK e : e = [i \in 1 .. n |-> f[i - 1]]
  OBVIOUS
<1>5. e = Step1(e)
  <2>1. ASSUME NEW i \in 1 .. n PROVE e[i] = IF i = 1 THEN cs[i] ELSE e[i - 1] \o cs[i]
    <3>1. CASE i = 1
      BY <3>1, <1>3, <1>4 DEF Iterates
    <3>2. CASE i # 1
      <4>1. PICK j \in 1 .. m : j = i - 1
        BY <3>2 DEF m
      <4>2. f[j] = g[j][f[j - 1]]
        BY <1>3 DEF Iterates
      <4>3. j - 1 \in 0 .. m
        BY <1>0
      <4>4. f[j] = f[j - 1] \o cs[j + 1]
        BY <4>2, <4>3, <1>2, <1>3
      <4>5. j \in 1 .. n /\ j + 1 = i
        BY <4>1 DEF m
      <4>6. e[i] = f[j] /\ e[j] = f[j - 1]
        BY <4>1, <4>5, <1>4
      <4> QED BY <4>1, <4>4, <4>5, <4>6, <3>2
    <3> QED BY <3>1, <3>2
  <2>2. e = [i \in 1 .. n |-> e[i]]
    BY <1>4
  <2> QED BY <2>1, <2>2
<1>6. k = Step1(k)
  <2> HIDE DEF Step1
  <2> QED BY <1>5
<1>7. FlattenSeq(cs) = k[n]
  <2>1. Len(cs) = n
    OBVIOUS
  <2> QED BY <2>1 DEF FlattenSeq
<1> HIDE DEF k
<1>8. \A i \in 1 .. n : k[i] = IF i = 1 THEN cs[i] ELSE k[i - 1] \o cs[i]
  BY <1>6
<1> HIDE DEF Step1
<1>9. PICK T : T = {i \in 0 .. m : k[i + 1] \in J[i]}
  OBVIOUS
<1>10. 0 \in T
  <2>1. 1 \in 1 .. n /\ k[1] = cs[1] /\ 0 + 1 = 1
    BY <1>8
  <2> QED BY <2>1, <1>0, <1>1, <1>9
<1>11. ASSUME NEW i \in 1 .. m, i - 1 \in T PROVE i \in T
  <2>1. i + 1 \in 1 .. n /\ i + 1 # 1 /\ (i + 1) - 1 = i /\ i \in 0 .. m /\ (i - 1) + 1 = i
    BY DEF m
  <2>2. k[i + 1] = k[i] \o cs[i + 1]
    BY <2>1, <1>8
  <2>3. k[i] \in J[i - 1]
    BY <2>1, <1>9, <1>11
  <2>4. k[i] \o cs[i + 1] \in J[i]
    BY <2>3, <1>2
  <2> QED BY <2>1, <2>2, <2>4, <1>9
<1>12. \A i \in 0 .. m : i \in T
  BY <1>0, <1>10, <1>11, Reaches
<1>13. k[n] \in J[m]
  BY <1>0, <1>9, <1>12
<1>14. J[m] = Joint(S, cs, n)
  BY <1>0 DEF J
<1> QED BY <1>7, <1>13, <1>14

-----------------------------------------------------------------------------
(* The invariant *)

ServerTyped ==
  /\ phase \in {"starting", "serving", "stopping", "ended"}
  /\ res \in 1 .. Len(Config) + 1
  /\ chains \in [1 .. HASHLEN -> Seq(Entries)]
  /\ numevts \in Nat
  /\ threads \subseteq Entries
  /\ joined \in Seq(Entries) /\ todo \in Seq(Entries)
  /\ lists = [e \in Entries |-> lists[e]]
  /\ ctime \in Nat /\ upsec \in Nat
  /\ seen \subseteq 1 .. upsec

(* A chain has entries of its bucket, the one started last in front. *)
Descending(ch) == \A i, j \in 1 .. Len(ch) : i < j => ch[j] < ch[i]
Placed ==
  \A b \in 1 .. HASHLEN :
    /\ Descending(chains[b])
    /\ \A e \in Entries : Contains(chains[b], e) => Bucket[Config[e]] = b

(* While the server is up, the table has the plugins that run. *)
Up ==
  phase \in {"starting", "serving"} =>
    /\ \A e \in Entries : e \in threads <=> Linked(e)
    /\ numevts = Cardinality(threads)

(* Nothing is known of the plugins that are still to be loaded. *)
Unknown ==
  \A e \in Entries : e >= res => e \notin threads /\ ~Contains(joined, e) /\ ~Linked(e) /\ lists[e] = NoTimers
AllLoaded == phase # "starting" => res = Len(Config) + 1

(* What was started runs or was joined, once. *)
RunOrJoined ==
  /\ Different(joined)
  /\ \A e \in threads : ~Contains(joined, e)
  /\ \A e \in Entries : lists[e] # NoTimers \/ Linked(e) => e \in threads \/ Contains(joined, e)

(* moc_stop() has the plugins that run still before it. *)
Stopping ==
  /\ phase = "stopping" => Different(todo) /\ \A e \in Entries : e \in threads <=> Contains(todo, e)
  /\ phase = "ended" => threads = {}

PluginInv == ServerTyped /\ Placed /\ Up /\ Unknown /\ AllLoaded /\ RunOrJoined /\ Stopping

(* Timers *)
Many(e) == Len(TimersOf[Config[e]])
Blocked(e, k) == \E j \in k .. Many(e) : Timer(e, j).timeout <= 0
Due(e, k, V) == IF Blocked(e, k) THEN 0 ELSE Cardinality({u \in V : u % Timer(e, k).timeout = 0})
Once(e, k) == ~Timer(e, k).repeat

(* Timer k was run, and dropped, as the seconds V ask for. *)
Counted(e, l, k, V) ==
  /\ l.fired[k] = IF Once(e, k) /\ Due(e, k, V) > 1 THEN 1 ELSE Due(e, k, V)
  /\ k \in l.freed <=> Once(e, k) /\ Due(e, k, V) >= 1

(* The list leads through all timers that are left, the one added last     *)
(* first.                                                                  *)
Left(e, l) == (1 .. Many(e)) \ l.freed
Leads(e, l, k, j) ==
  /\ j \in 0 .. Many(e) /\ (j # 0 => j \in Left(e, l)) /\ j < k
  /\ \A i \in Left(e, l) : i < k => i <= j
Ordered(e, l) ==
  /\ l.next \in [1 .. Many(e) -> 0 .. Many(e)] /\ l.fired \in [1 .. Many(e) -> Nat] /\ l.freed \subseteq 1 .. Many(e)
  /\ Leads(e, l, Many(e) + 1, l.head)
  /\ \A k \in Left(e, l) : Leads(e, l, k, l.next[k])

TimerInv == \A e \in threads : Ordered(e, lists[e]) /\ \A k \in 1 .. Many(e) : Counted(e, lists[e], k, seen)

-----------------------------------------------------------------------------
(* Plugins are kept *)

LEMMA ConfigFacts ==
  /\ Len(Config) \in Nat /\ Entries = 1 .. Len(Config)
  /\ \A e \in Entries : Config[e] \in DOMAIN Bucket /\ Config[e] \in DOMAIN TimersOf /\ Bucket[Config[e]] \in 1 .. HASHLEN
  /\ HASHLEN \in Nat \ {0}
  BY ServerAssumption DEF ServerAssumption, Entries

LEMMA EntriesFinite == IsFiniteSet(Entries)
<1>1. IsFiniteSet(1 .. Len(Config))
  BY ConfigFacts, FS_Interval
<1> QED BY <1>1, ConfigFacts

LEMMA EmptyContains == \A x : ~Contains(<< >>, x)
  BY DEF Contains

LEMMA InsertContains ==
  ASSUME NEW ch \in Seq(Entries), NEW e \in Entries, NEW x
  PROVE  Contains(InsertFirst(ch, e), x) <=> x = e \/ Contains(ch, x)
<1>1. << e >> \in Seq(Entries) /\ Len(<< e >>) = 1 /\ << e >>[1] = e
  OBVIOUS
<1>2. Contains(<< e >>, x) <=> x = e
  BY <1>1 DEF Contains
<1>3. Contains(<< e >> \o ch, x) <=> Contains(<< e >>, x) \/ Contains(ch, x)
  BY <1>1, ConcatContains
<1> QED BY <1>2, <1>3 DEF InsertFirst

LEMMA InsertDescending ==
  ASSUME NEW ch \in Seq(Entries), NEW e \in Entries, Descending(ch), \A x \in Entries : Contains(ch, x) => x < e
  PROVE  InsertFirst(ch, e) \in Seq(Entries) /\ Descending(InsertFirst(ch, e))
<1> DEFINE r == << e >> \o ch
<1>1. /\ << e >> \in Seq(Entries) /\ Len(<< e >>) = 1 /\ << e >>[1] = e
      /\ Len(ch) \in Nat /\ \A i \in 1 .. Len(ch) : ch[i] \in Entries
  OBVIOUS
<1>2. /\ r \in Seq(Entries) /\ Len(r) = 1 + Len(ch)
      /\ \A i \in 1 .. 1 + Len(ch) : r[i] = IF i <= 1 THEN << e >>[i] ELSE ch[i - 1]
  BY <1>1, ConcatProperties
<1> HIDE DEF r
<1>3. r[1] = e /\ \A i \in 2 .. Len(r) : i - 1 \in 1 .. Len(ch) /\ r[i] = ch[i - 1]
  BY <1>1, <1>2
<1>4. \A i \in 1 .. Len(ch) : ch[i] < e
  BY <1>1 DEF Contains
<1>5. ASSUME NEW i \in 1 .. Len(r), NEW j \in 1 .. Len(r), i < j PROVE r[j] < r[i]
  <2>1. j \in 2 .. Len(r)
    BY <1>5, <1>2, <1>1
  <2>2. CASE i = 1
    BY <2>1, <2>2, <1>3, <1>4
  <2>3. CASE i # 1
    <3>1. i \in 2 .. Len(r)
      BY <2>3, <1>2, <1>1
    <3>2. i - 1 \in 1 .. Len(ch) /\ j - 1 \in 1 .. Len(ch) /\ i - 1 < j - 1 /\ r[i] = ch[i - 1] /\ r[j] = ch[j - 1]
      BY <3>1, <2>1, <1>3, <1>5
    <3> QED BY <3>2 DEF Descending
  <2> QED BY <2>2, <2>3
<1> QED BY <1>2, <1>5 DEF Descending, InsertFirst, r

LEMMA DescendingDifferent ==
  ASSUME NEW ch \in Seq(Entries), Descending(ch)
  PROVE  Different(ch)
<1>1. Len(ch) \in Nat /\ \A i \in 1 .. Len(ch) : ch[i] \in Nat
  BY ConfigFacts
<1>2. ASSUME NEW i \in 1 .. Len(ch), NEW j \in 1 .. Len(ch), ch[i] = ch[j] PROVE i = j
  <2>1. ~(i < j)
    BY <1>1, <1>2 DEF Descending
  <2>2. ~(j < i)
    BY <1>1, <1>2 DEF Descending
  <2> QED BY <2>1, <2>2, <1>1
<1> QED BY <1>2 DEF Different

LEMMA PluginInit == ServerInit => PluginInv
<1> SUFFICES ASSUME ServerInit PROVE PluginInv
  OBVIOUS
<1>1. /\ phase = "starting" /\ res = 1 /\ chains = [b \in 1 .. HASHLEN |-> << >>]
      /\ numevts = 0 /\ threads = {} /\ joined = << >> /\ todo = << >>
      /\ lists = [e \in Entries |-> NoTimers] /\ ctime = 0 /\ upsec = 0 /\ seen = {}
  BY DEF ServerInit
<1>2. \A b \in 1 .. HASHLEN : chains[b] = << >> /\ Len(chains[b]) = 0
  BY <1>1
<1>3. \A e \in Entries : ~Linked(e)
  BY <1>1, <1>2, EmptyContains DEF Linked
<1>4. << >> \in Seq(Entries)
  OBVIOUS
<1>5. ServerTyped
  BY <1>1, <1>4, ConfigFacts DEF ServerTyped
<1>6. Placed
  BY <1>2, EmptyContains DEF Placed, Descending
<1>7. Up
  BY <1>1, <1>3, FS_EmptySet DEF Up
<1>8. Unknown
  BY <1>1, <1>3, EmptyContains DEF Unknown
<1>9. RunOrJoined
  BY <1>1, <1>3, EmptyContains DEF RunOrJoined, Different
<1> QED BY <1>1, <1>5, <1>6, <1>7, <1>8, <1>9 DEF PluginInv, AllLoaded, Stopping

LEMMA PluginSkip == PluginInv /\ SkipPlugin => PluginInv'
<1> SUFFICES ASSUME PluginInv, SkipPlugin PROVE PluginInv'
  OBVIOUS
<1>1. /\ phase = "starting" /\ res \in Entries /\ res' = res + 1
      /\ UNCHANGED << phase, chains, numevts, threads, joined, todo, lists, ctime, upsec, seen >>
  BY DEF SkipPlugin, Loading
<1>2. res' \in 1 .. Len(Config) + 1 /\ \A e \in Entries : e >= res' => e >= res
  BY <1>1, ConfigFacts
<1>3. \A e \in Entries : Linked(e)' <=> Linked(e)
  BY <1>1 DEF Linked
<1>4. ServerTyped'
  BY <1>1, <1>2 DEF PluginInv, ServerTyped
<1>5. Placed'
  BY <1>1 DEF PluginInv, Placed
<1>6. Up'
  BY <1>1, <1>3 DEF PluginInv, Up
<1>7. Unknown'
  BY <1>1, <1>2, <1>3 DEF PluginInv, Unknown
<1>8. RunOrJoined'
  BY <1>1, <1>3 DEF PluginInv, RunOrJoined
<1>9. Stopping'
  BY <1>1 DEF PluginInv, Stopping
<1> QED BY <1>1, <1>4, <1>5, <1>6, <1>7, <1>8, <1>9 DEF PluginInv, AllLoaded

LEMMA PluginStart == PluginInv /\ moc_start_driver => PluginInv'
<1> SUFFICES ASSUME PluginInv, moc_start_driver PROVE PluginInv'
  OBVIOUS
<1>0. PICK b : b = Bucket[Config[res]]
  OBVIOUS
<1>1. /\ phase = "starting" /\ res \in Entries /\ res' = res + 1
      /\ lists' = [lists EXCEPT ![res] = AddTimers(res)]
      /\ UNCHANGED << phase, todo, ctime, upsec, seen >>
  BY DEF moc_start_driver, Loading
<1>2. b \in 1 .. HASHLEN
  BY <1>0, <1>1, ConfigFacts
<1>3. res' \in 1 .. Len(Config) + 1 /\ \A e \in Entries : e >= res' => e >= res /\ e # res
  BY <1>1, ConfigFacts
<1>4. /\ res \in Nat /\ \A e \in Entries : e \in Nat
      /\ res \notin threads /\ ~Contains(joined, res) /\ ~Linked(res)
  BY <1>1, ConfigFacts DEF PluginInv, Unknown
<1>5. /\ lists' = [e \in Entries |-> lists'[e]]
      /\ \A e \in Entries : e # res => lists'[e] = lists[e]
  BY <1>1 DEF PluginInv, ServerTyped
<1>6. chains \in [1 .. HASHLEN -> Seq(Entries)] /\ threads \subseteq Entries /\ joined \in Seq(Entries) /\ numevts \in Nat
  BY DEF PluginInv, ServerTyped
<1>7. CASE Len(chains[b]) <= CHAINLEN
  <2>1. /\ chains' = [chains EXCEPT ![b] = InsertFirst(chains[b], res)]
        /\ numevts' = numevts + 1 /\ threads' = threads \cup {res} /\ joined' = joined
    BY <1>0, <1>7 DEF moc_start_driver
  <2>2. PICK ch : ch = InsertFirst(chains[b], res)
    OBVIOUS
  <2>3. chains[b] \in Seq(Entries) /\ Descending(chains[b])
    BY <1>2, <1>6 DEF PluginInv, Placed
  <2>4. ASSUME NEW x \in Entries, Contains(chains[b], x) PROVE x < res
    <3>1. Linked(x)
      BY <2>4, <1>2, <1>6 DEF Linked
    <3>2. ~(x >= res)
      BY <3>1 DEF PluginInv, Unknown
    <3> QED BY <3>2, <1>4
  <2>5. ch \in Seq(Entries) /\ Descending(ch)
    BY <2>2, <2>3, <2>4, <1>1, InsertDescending
  <2>6. \A x : Contains(ch, x) <=> x = res \/ Contains(chains[b], x)
    BY <2>2, <2>3, <1>1, InsertContains
  <2>7. /\ chains' \in [1 .. HASHLEN -> Seq(Entries)] /\ chains'[b] = ch
        /\ \A d \in 1 .. HASHLEN : d # b => chains'[d] = chains[d]
    BY <2>1, <2>2, <2>5, <1>2, <1>6
  <2>8. ASSUME NEW e \in Entries PROVE Linked(e)' <=> e = res \/ Linked(e)
    <3>1. DOMAIN chains' = 1 .. HASHLEN /\ DOMAIN chains = 1 .. HASHLEN
      BY <2>7, <1>6
    <3>2. ASSUME NEW d \in 1 .. HASHLEN
          PROVE  Contains(chains'[d], e) <=> Contains(chains[d], e) \/ (d = b /\ e = res)
      BY <2>6, <2>7
    <3> QED BY <3>1, <3>2, <1>2 DEF Linked
  <2>9. ServerTyped'
    BY <2>1, <2>7, <1>1, <1>3, <1>5 DEF PluginInv, ServerTyped
  <2>10. Placed'
    <3>1. ASSUME NEW d \in 1 .. HASHLEN
          PROVE  /\ Descending(chains'[d])
                 /\ \A e \in Entries : Contains(chains'[d], e) => Bucket[Config[e]] = d
      <4>1. CASE d = b
        BY <4>1, <2>5, <2>6, <2>7, <1>0, <1>2 DEF PluginInv, Placed
      <4>2. CASE d # b
        BY <4>2, <2>7 DEF PluginInv, Placed
      <4> QED BY <4>1, <4>2
    <3> QED BY <3>1 DEF Placed
  <2>11. Up'
    <3>1. IsFiniteSet(threads)
      BY <1>6, EntriesFinite, FS_Subset
    <3>2. Cardinality(threads') = Cardinality(threads) + 1
      BY <3>1, <2>1, <1>4, FS_AddElement
    <3>3. numevts = Cardinality(threads) /\ \A e \in Entries : e \in threads <=> Linked(e)
      BY <1>1 DEF PluginInv, Up
    <3>4. \A e \in Entries : e \in threads' <=> Linked(e)'
      BY <3>3, <2>1, <2>8
    <3> QED BY <3>2, <3>3, <3>4, <2>1, <1>1 DEF Up
  <2>12. Unknown'
    BY <2>1, <2>8, <1>3, <1>5 DEF PluginInv, Unknown
  <2>13. RunOrJoined'
    <3>1. \A e \in threads' : ~Contains(joined', e)
      BY <2>1, <1>4 DEF PluginInv, RunOrJoined
    <3>2. ASSUME NEW e \in Entries, lists'[e] # NoTimers \/ Linked(e)' PROVE e \in threads' \/ Contains(joined', e)
      BY <3>2, <2>1, <2>8, <1>5 DEF PluginInv, RunOrJoined
    <3>3. Different(joined')
      BY <2>1 DEF PluginInv, RunOrJoined
    <3> QED BY <3>1, <3>2, <3>3 DEF RunOrJoined
  <2> QED BY <2>9, <2>10, <2>11, <2>12, <2>13, <1>1 DEF PluginInv, AllLoaded, Stopping
<1>8. CASE ~(Len(chains[b]) <= CHAINLEN)
  <2>1. joined' = Append(joined, res) /\ UNCHANGED << chains, numevts, threads >>
    BY <1>0, <1>8 DEF moc_start_driver
  <2>2. joined' \in Seq(Entries) /\ Different(joined')
    BY <2>1, <1>1, <1>4, <1>6, AppendDifferent DEF PluginInv, RunOrJoined
  <2>3. \A x : Contains(joined', x) <=> Contains(joined, x) \/ x = res
    BY <2>1, <1>1, <1>6, AppendContains
  <2>4. \A e \in Entries : Linked(e)' <=> Linked(e)
    BY <2>1 DEF Linked
  <2>5. ServerTyped'
    BY <2>1, <2>2, <1>1, <1>3, <1>5 DEF PluginInv, ServerTyped
  <2>6. Placed'
    BY <2>1 DEF PluginInv, Placed
  <2>7. Up'
    BY <2>1, <2>4, <1>1 DEF PluginInv, Up
  <2>8. Unknown'
    BY <2>1, <2>3, <2>4, <1>3, <1>5 DEF PluginInv, Unknown
  <2>9. RunOrJoined'
    <3>1. \A e \in threads' : ~Contains(joined', e)
      BY <2>1, <2>3, <1>4 DEF PluginInv, RunOrJoined
    <3>2. ASSUME NEW e \in Entries, lists'[e] # NoTimers \/ Linked(e)' PROVE e \in threads' \/ Contains(joined', e)
      BY <3>2, <2>1, <2>3, <2>4, <1>5 DEF PluginInv, RunOrJoined
    <3> QED BY <3>1, <3>2, <2>2 DEF RunOrJoined
  <2> QED BY <2>5, <2>6, <2>7, <2>8, <2>9, <1>1 DEF PluginInv, AllLoaded, Stopping
<1> QED BY <1>7, <1>8

LEMMA PluginTime == ASSUME NEW d \in ClockSteps PROVE PluginInv /\ time_up(d) => PluginInv'
<1> SUFFICES ASSUME PluginInv, time_up(d) PROVE PluginInv'
  OBVIOUS
<1>1. PICK now : now = IF ctime = 0 THEN Epoch ELSE ctime + d
  OBVIOUS
<1>2. PICK up : up = upsec + (now - ctime)
  OBVIOUS
<1>3. /\ now > 0 /\ ctime' = now
      /\ upsec' = IF now - ctime >= 1 THEN up ELSE upsec
      /\ seen' = IF now - ctime >= 1 THEN seen \cup {up} ELSE seen
      /\ lists' = [e \in Entries |->
                     IF now - ctime >= 1 /\ \E b \in DOMAIN chains : Contains(chains[b], e)
                       THEN RunTimers(e, up) ELSE lists[e]]
      /\ UNCHANGED << phase, res, chains, numevts, threads, joined, todo >>
  BY <1>1, <1>2 DEF time_up
<1>4. \A e \in Entries : Linked(e)' <=> Linked(e)
  BY <1>3 DEF Linked
<1>5. /\ lists' = [e \in Entries |-> lists'[e]]
      /\ \A e \in Entries : ~Linked(e) => lists'[e] = lists[e]
  BY <1>3 DEF Linked
<1>6. ctime \in Nat /\ upsec \in Nat /\ now \in Nat /\ seen \subseteq 1 .. upsec
  BY <1>1, <1>3, ServerAssumption DEF PluginInv, ServerTyped, ServerAssumption
<1>7. upsec' \in Nat /\ seen' \subseteq 1 .. upsec'
  <2>1. CASE now - ctime >= 1
    <3>1. up \in Nat /\ up > upsec /\ upsec' = up /\ seen' = seen \cup {up}
      BY <2>1, <1>2, <1>3, <1>6
    <3>2. ASSUME NEW u \in seen' PROVE u \in 1 .. up
      BY <3>1, <1>6
    <3> QED BY <3>1, <3>2
  <2>2. CASE ~(now - ctime >= 1)
    BY <2>2, <1>3, <1>6
  <2> QED BY <2>1, <2>2
<1>8. ServerTyped'
  BY <1>3, <1>5, <1>6, <1>7 DEF PluginInv, ServerTyped
<1>9. Placed'
  BY <1>3 DEF PluginInv, Placed
<1>10. Up'
  BY <1>3, <1>4 DEF PluginInv, Up
<1>11. Unknown'
  BY <1>3, <1>4, <1>5 DEF PluginInv, Unknown
<1>12. RunOrJoined'
  BY <1>3, <1>4, <1>5 DEF PluginInv, RunOrJoined
<1>13. Stopping' /\ AllLoaded'
  BY <1>3 DEF PluginInv, Stopping, AllLoaded
<1> QED BY <1>8, <1>9, <1>10, <1>11, <1>12, <1>13 DEF PluginInv

LEMMA PluginGo == ASSUME NEW to \in tcp_init PROVE PluginInv /\ net_go(to) => PluginInv'
<1> SUFFICES ASSUME PluginInv, net_go(to) PROVE PluginInv'
  OBVIOUS
<1>1. /\ phase \in {"starting", "serving"} /\ (phase = "starting" => res \notin Entries)
      /\ phase' = to /\ to \in {"serving", "stopping"}
      /\ todo' = IF to = "stopping" THEN FlattenSeq(chains) ELSE todo
      /\ UNCHANGED << res, chains, numevts, threads, joined, lists, ctime, upsec, seen >>
  BY DEF net_go, tcp_init
<1>2. \A e \in Entries : Linked(e)' <=> Linked(e)
  BY <1>1 DEF Linked
<1>3. chains \in [1 .. HASHLEN -> Seq(Entries)] /\ DOMAIN chains = 1 .. HASHLEN
  BY DEF PluginInv, ServerTyped
<1>4. Apart(Entries, HASHLEN, chains)
  <2>1. \A b \in 1 .. HASHLEN : chains[b] \in Seq(Entries) /\ Descending(chains[b])
    BY <1>3 DEF PluginInv, Placed
  <2>2. \A b \in 1 .. HASHLEN : Different(chains[b])
    BY <2>1, DescendingDifferent
  <2>3. \A b, d \in 1 .. HASHLEN : \A y \in Entries : Contains(chains[b], y) /\ Contains(chains[d], y) => b = d
    BY DEF PluginInv, Placed
  <2> QED BY <2>2, <2>3 DEF Apart
<1>5. FlattenSeq(chains) \in Joint(Entries, chains, HASHLEN)
  BY <1>3, <1>4, ConfigFacts, Flattened
<1>6. PICK s : s = FlattenSeq(chains)
  OBVIOUS
<1>7. s \in Seq(Entries) /\ Different(s) /\ \A e \in Entries : Contains(s, e) <=> Linked(e)
  BY <1>3, <1>5, <1>6 DEF Joint, Linked
<1>8. res = Len(Config) + 1
  <2>1. res \in 1 .. Len(Config) + 1 /\ (phase = "serving" => res = Len(Config) + 1)
    BY DEF PluginInv, AllLoaded, ServerTyped
  <2>2. res \notin 1 .. Len(Config) \/ res = Len(Config) + 1
    BY <2>1, <1>1, ConfigFacts
  <2> QED BY <2>1, <2>2, ConfigFacts
<1>9. ServerTyped'
  BY <1>1, <1>6, <1>7 DEF PluginInv, ServerTyped
<1>10. Stopping'
  <2>1. \A e \in Entries : e \in threads <=> Linked(e)
    BY <1>1 DEF PluginInv, Up
  <2> QED BY <2>1, <1>1, <1>6, <1>7 DEF Stopping
<1>11. Placed'
  BY <1>1 DEF PluginInv, Placed
<1>12. Up'
  BY <1>1, <1>2 DEF PluginInv, Up
<1>13. Unknown'
  BY <1>1, <1>2 DEF PluginInv, Unknown
<1>14. RunOrJoined'
  BY <1>1, <1>2 DEF PluginInv, RunOrJoined
<1>15. AllLoaded'
  BY <1>1, <1>8 DEF AllLoaded
<1> QED BY <1>9, <1>10, <1>11, <1>12, <1>13, <1>14, <1>15 DEF PluginInv

LEMMA PluginStop == PluginInv /\ moc_stop => PluginInv'
<1> SUFFICES ASSUME PluginInv, moc_stop PROVE PluginInv'
  OBVIOUS
<1>1. phase = "stopping" /\ UNCHANGED << res, numevts, lists, ctime, upsec, seen >>
  BY DEF moc_stop
<1>2. /\ chains \in [1 .. HASHLEN -> Seq(Entries)] /\ DOMAIN chains = 1 .. HASHLEN
      /\ threads \subseteq Entries /\ joined \in Seq(Entries) /\ todo \in Seq(Entries)
  BY DEF PluginInv, ServerTyped
<1>3. Different(todo) /\ (\A e \in Entries : e \in threads <=> Contains(todo, e)) /\ res = Len(Config) + 1
  BY <1>1 DEF PluginInv, Stopping, AllLoaded
<1>6. \A e \in Entries : ~(e >= res)
  BY <1>3, ConfigFacts
<1>4. CASE todo # << >>
  <2>1. PICK x : x = Head(todo)
    OBVIOUS
  <2>2. PICK r : r = Tail(todo)
    OBVIOUS
  <2>3. threads' = threads \ {x} /\ joined' = Append(joined, x) /\ todo' = r /\ phase' = phase /\ chains' = chains
    BY <1>4, <2>1, <2>2 DEF moc_stop
  <2>4. x \in Entries /\ r \in Seq(Entries)
    BY <1>2, <1>4, <2>1, <2>2
  <2>5. \A y : Contains(todo, y) <=> y = x \/ Contains(r, y)
    BY <1>2, <1>4, <2>1, <2>2, HeadContains
  <2>6. Different(r) /\ ~Contains(r, x)
    BY <1>2, <1>3, <1>4, <2>1, <2>2, TailDifferent
  <2>7. x \in threads /\ ~Contains(joined, x)
    BY <1>3, <2>4, <2>5 DEF PluginInv, RunOrJoined
  <2>8. Different(joined') /\ joined' \in Seq(Entries)
    BY <1>2, <2>3, <2>4, <2>7, AppendDifferent DEF PluginInv, RunOrJoined
  <2>9. \A y : Contains(joined', y) <=> Contains(joined, y) \/ y = x
    BY <1>2, <2>3, <2>4, AppendContains
  <2>10. \A e \in Entries : Linked(e)' <=> Linked(e)
    BY <2>3 DEF Linked
  <2>11. ServerTyped'
    BY <1>1, <2>3, <2>4, <2>8 DEF PluginInv, ServerTyped
  <2>12. Stopping'
    BY <1>1, <1>3, <2>3, <2>5, <2>6 DEF Stopping
  <2>13. Placed'
    BY <2>3 DEF PluginInv, Placed
  <2>14. Up' /\ AllLoaded'
    BY <1>1, <1>3, <2>3 DEF Up, AllLoaded
  <2>15. Unknown'
    BY <1>6, <1>1 DEF Unknown
  <2>16. RunOrJoined'
    <3>1. \A e \in threads' : ~Contains(joined', e)
      BY <2>3, <2>9 DEF PluginInv, RunOrJoined
    <3>2. ASSUME NEW e \in Entries, lists'[e] # NoTimers \/ Linked(e)' PROVE e \in threads' \/ Contains(joined', e)
      BY <3>2, <1>1, <2>3, <2>9, <2>10 DEF PluginInv, RunOrJoined
    <3> QED BY <3>1, <3>2, <2>8 DEF RunOrJoined
  <2> QED BY <2>11, <2>12, <2>13, <2>14, <2>15, <2>16 DEF PluginInv
<1>5. CASE todo = << >>
  <2>1. phase' = "ended" /\ chains' = [b \in DOMAIN chains |-> << >>] /\ UNCHANGED << threads, joined, todo >>
    BY <1>5 DEF moc_stop
  <2>2. chains' \in [1 .. HASHLEN -> Seq(Entries)] /\ \A b \in 1 .. HASHLEN : chains'[b] = << >>
    BY <1>2, <2>1
  <2>3. \A e \in Entries : ~Linked(e)'
    BY <2>2, EmptyContains DEF Linked
  <2>4. threads = {}
    BY <1>2, <1>3, <1>5, EmptyContains
  <2>5. ServerTyped'
    BY <1>1, <2>1, <2>2 DEF PluginInv, ServerTyped
  <2>6. Placed'
    <3>1. Len(<< >>) = 0
      OBVIOUS
    <3> QED BY <3>1, <2>2, EmptyContains DEF Placed, Descending
  <2>7. Up' /\ Stopping' /\ AllLoaded'
    BY <2>1, <2>4, <1>1, <1>3 DEF Up, Stopping, AllLoaded
  <2>8. Unknown'
    BY <1>6, <1>1 DEF Unknown
  <2>9. RunOrJoined'
    BY <1>1, <2>1, <2>3 DEF PluginInv, RunOrJoined
  <2> QED BY <2>5, <2>6, <2>7, <2>8, <2>9 DEF PluginInv
<1> QED BY <1>4, <1>5

LEMMA PluginNext == PluginInv /\ [ServerNext]_serverVars => PluginInv'
<1> SUFFICES ASSUME PluginInv, [ServerNext]_serverVars PROVE PluginInv'
  OBVIOUS
<1>1. CASE SkipPlugin \/ init_driver_fails
  BY <1>1, PluginSkip DEF init_driver_fails
<1>2. CASE moc_start_driver
  BY <1>2, PluginStart
<1>3. ASSUME NEW to \in tcp_init, net_go(to) PROVE PluginInv'
  BY <1>3, PluginGo
<1>4. ASSUME NEW d \in ClockSteps, time_up(d) PROVE PluginInv'
  BY <1>4, PluginTime
<1>5. CASE moc_stop
  BY <1>5, PluginStop
<1>6. CASE UNCHANGED serverVars
  BY <1>6 DEF serverVars, PluginInv, ServerTyped, Placed, Up, Unknown, AllLoaded, RunOrJoined, Stopping, Linked
<1> QED BY <1>1, <1>2, <1>3, <1>4, <1>5, <1>6 DEF ServerNext

Latest(M) == IF M = {} THEN 0 ELSE CHOOSE e \in M : \A o \in M : o <= e

(* A lookup goes along a chain from its front, where the entry is that was *)
(* started last.                                                           *)
LEMMA LookupLast ==
  ASSUME NEW ch \in Seq(Entries), Descending(ch), NEW n,
         NEW mine, mine = {e \in Entries : Contains(ch, e) /\ Config[e] = n}
  PROVE  find_in_chain(ch, n) = Latest(mine)
<1> DEFINE places == {i \in DOMAIN ch : Config[ch[i]] = n}
<1>1. /\ Len(ch) \in Nat /\ DOMAIN ch = 1 .. Len(ch)
      /\ \A i \in 1 .. Len(ch) : ch[i] \in Entries /\ ch[i] \in Nat
  BY ConfigFacts
<1>2. \A i \in places : ch[i] \in mine
  BY <1>1 DEF Contains
<1>3. ASSUME NEW e \in mine PROVE \E i \in places : ch[i] = e
  BY <1>1 DEF Contains
<1>4. places \subseteq Nat
  BY <1>1
<1>5. CASE places = {}
  <2>1. mine = {}
    BY <1>3, <1>5
  <2> QED BY <2>1, <1>5 DEF find_in_chain, Latest
<1>6. CASE places # {}
  <2>1. find_in_chain(ch, n) = ch[CHOOSE i \in places : \A j \in places : i <= j]
    BY <1>6 DEF find_in_chain
  <2>2. places \subseteq 1 .. Len(ch)
    BY <1>1
  <2> HIDE DEF places
  <2>3. \E i \in places : \A j \in places : i <= j
    BY <1>4, <1>6, LeastElement
  <2>4. PICK i : i = CHOOSE x \in places : \A j \in places : x <= j
    OBVIOUS
  <2>5. i \in places /\ \A j \in places : i <= j
    BY <2>3, <2>4
  <2>6. ch[i] \in mine
    BY <2>5, <1>2
  <2>7. ASSUME NEW o \in mine PROVE o <= ch[i]
    <3>1. PICK j \in places : ch[j] = o
      BY <1>3
    <3>2. i \in 1 .. Len(ch) /\ j \in 1 .. Len(ch) /\ i <= j /\ ch[i] \in Nat /\ ch[j] \in Nat
      BY <2>2, <2>5, <3>1, <1>1
    <3>3. i < j => ch[j] < ch[i]
      BY <3>2 DEF Descending
    <3>4. CASE i = j
      BY <3>1, <3>2, <3>4
    <3>5. CASE i # j
      BY <3>1, <3>2, <3>3, <3>5, <1>1
    <3> QED BY <3>4, <3>5
  <2>8. mine \subseteq Nat
    BY ConfigFacts
  <2>9. PICK m : m = CHOOSE e \in mine : \A o \in mine : o <= e
    OBVIOUS
  <2>10. m \in mine /\ \A o \in mine : o <= m
    BY <2>6, <2>7, <2>9
  <2>11. m = ch[i]
    <3>1. m <= ch[i] /\ ch[i] <= m /\ m \in Nat /\ ch[i] \in Nat
      BY <2>6, <2>7, <2>8, <2>10
    <3> QED BY <3>1
  <2> QED BY <2>1, <2>4, <2>6, <2>9, <2>11 DEF Latest
<1> QED BY <1>5, <1>6

LEMMA TimesOnce ==
  ASSUME NEW e \in Entries, joined \in Seq(Entries), Different(joined)
  PROVE  Times(e) = IF Contains(joined, e) THEN 1 ELSE 0
<1>1. Len(joined) \in Nat /\ DOMAIN joined = 1 .. Len(joined)
  OBVIOUS
<1>2. PICK D : D = {i \in DOMAIN joined : joined[i] = e}
  OBVIOUS
<1>3. CASE Contains(joined, e)
  <2>1. PICK i \in 1 .. Len(joined) : joined[i] = e
    BY <1>3 DEF Contains
  <2>2. D = {i}
    BY <2>1, <1>1, <1>2 DEF Different
  <2>3. Cardinality({i}) = 1
    BY FS_Singleton
  <2> QED BY <2>2, <2>3, <1>2, <1>3 DEF Times
<1>4. CASE ~Contains(joined, e)
  <2>1. D = {}
    BY <1>1, <1>2, <1>4 DEF Contains
  <2> QED BY <2>1, <1>2, <1>4, FS_EmptySet DEF Times
<1> QED BY <1>3, <1>4

LEMMA PluginInvKeeps == PluginInv => PluginsKept
<1> SUFFICES ASSUME PluginInv PROVE PluginsKept
  OBVIOUS
<1>1. /\ chains \in [1 .. HASHLEN -> Seq(Entries)] /\ DOMAIN chains = 1 .. HASHLEN
      /\ threads \subseteq Entries /\ joined \in Seq(Entries)
  BY DEF PluginInv, ServerTyped
<1>2. ASSUME phase \in {"starting", "serving"}, NEW n \in DOMAIN Bucket,
             NEW mine, mine = {e \in threads : Config[e] = n}
      PROVE  find_entry_in_table(n) = IF mine = {} THEN 0 ELSE CHOOSE e \in mine : \A o \in mine : o <= e
  <2>1. PICK b \in 1 .. HASHLEN : b = Bucket[n]
    BY ServerAssumption DEF ServerAssumption
  <2>2. chains[b] \in Seq(Entries) /\ Descending(chains[b])
    BY <1>1 DEF PluginInv, Placed
  <2>3. ASSUME NEW e \in Entries, Config[e] = n PROVE e \in threads <=> Contains(chains[b], e)
    <3>1. e \in threads <=> Linked(e)
      BY <1>2 DEF PluginInv, Up
    <3>2. \A d \in 1 .. HASHLEN : Contains(chains[d], e) => d = b
      BY <2>1, <2>3 DEF PluginInv, Placed
    <3> QED BY <3>1, <3>2, <1>1 DEF Linked
  <2>4. mine = {e \in Entries : Contains(chains[b], e) /\ Config[e] = n}
    BY <2>3, <1>1, <1>2
  <2>5. find_in_chain(chains[b], n) = Latest(mine)
    <3>1. PICK ch : ch = chains[b]
      OBVIOUS
    <3>2. ch \in Seq(Entries) /\ Descending(ch) /\ mine = {e \in Entries : Contains(ch, e) /\ Config[e] = n}
      BY <2>2, <2>4, <3>1
    <3>3. find_in_chain(ch, n) = Latest(mine)
      BY <3>2, LookupLast
    <3> QED BY <3>1, <3>3
  <2> QED BY <2>1, <2>5 DEF find_entry_in_table, Latest
<1>3. ASSUME NEW e \in Started PROVE Times(e) = IF e \in threads THEN 0 ELSE 1
  <2>1. e \in Entries /\ (e \in threads \/ Contains(joined, e))
    BY DEF Started, PluginInv, RunOrJoined
  <2>2. Times(e) = IF Contains(joined, e) THEN 1 ELSE 0
    BY <2>1, <1>1, TimesOnce DEF PluginInv, RunOrJoined
  <2> QED BY <2>1, <2>2 DEF PluginInv, RunOrJoined
<1>4. ASSUME phase \in {"starting", "serving"}
      PROVE  (\A e \in Entries : e \in threads <=> Linked(e)) /\ numevts = Cardinality(threads)
  BY <1>4 DEF PluginInv, Up
<1>5. phase = "ended" => threads = {}
  BY DEF PluginInv, Stopping
<1> QED BY <1>2, <1>3, <1>4, <1>5 DEF PluginsKept

(* Whatever is configured, however plugins fail to load and whenever the   *)
(* server stops, no plugin is lost and none is ended twice (mocd.ch:116,    *)
(* 206).                                                                   *)
THEOREM PluginsStayKept == ServerSpec => []PluginsKept
<1>1. PluginInv /\ [ServerNext]_serverVars => PluginInv'
  BY PluginNext
<1>2. PluginInv => PluginsKept
  BY PluginInvKeeps
<1>3. ServerInit => PluginInv
  BY PluginInit
<1> QED BY <1>1, <1>2, <1>3, PTL DEF ServerSpec

-----------------------------------------------------------------------------
(* Timers run when they are due *)

LEMMA TimerFacts ==
  ASSUME NEW e \in Entries
  PROVE  /\ Many(e) \in Nat
         /\ \A k \in 1 .. Many(e) : Timer(e, k).timeout \in Int /\ Timer(e, k).repeat \in BOOLEAN
<1>1. TimersOf[Config[e]] \in Seq([timeout : Int, repeat : BOOLEAN])
  BY ConfigFacts, ServerAssumption DEF ServerAssumption
<1>2. \A k \in 1 .. Many(e) : Timer(e, k) \in [timeout : Int, repeat : BOOLEAN]
  <2>1. PICK q : q = TimersOf[Config[e]]
    OBVIOUS
  <2>2. PICK R : R = [timeout : Int, repeat : BOOLEAN]
    OBVIOUS
  <2>3. q \in Seq(R)
    BY <1>1, <2>1, <2>2
  <2>4. \A k \in 1 .. Len(q) : q[k] \in R
    BY <2>3
  <2> QED BY <2>1, <2>2, <2>4 DEF Many, Timer
<1>3. Many(e) \in Nat
  BY <1>1 DEF Many
<1> QED BY <1>2, <1>3

(* A second that passes makes a timer due once more, or leaves it. *)
LEMMA DueGrows ==
  ASSUME NEW e \in Entries, NEW k \in 1 .. Many(e), ~Blocked(e, k),
         NEW V, IsFiniteSet(V), NEW up, up \notin V
  PROVE  /\ Due(e, k, V) \in Nat
         /\ Due(e, k, V \cup {up}) = IF up % Timer(e, k).timeout = 0 THEN Due(e, k, V) + 1 ELSE Due(e, k, V)
<1>1. PICK to : to = Timer(e, k).timeout
  OBVIOUS
<1>2. PICK D : D = {u \in V : u % to = 0}
  OBVIOUS
<1>3. PICK D2 : D2 = {u \in V \cup {up} : u % to = 0}
  OBVIOUS
<1>4. Due(e, k, V) = Cardinality(D) /\ Due(e, k, V \cup {up}) = Cardinality(D2)
  BY <1>1, <1>2, <1>3 DEF Due
<1>5. IsFiniteSet(D) /\ up \notin D
  <2>1. D \subseteq V
    BY <1>2
  <2> QED BY <2>1, FS_Subset
<1>6. Cardinality(D) \in Nat
  BY <1>5, FS_CardinalityType
<1>7. CASE up % to = 0
  <2>1. D2 = D \cup {up}
    BY <1>2, <1>3, <1>7
  <2>2. Cardinality(D \cup {up}) = Cardinality(D) + 1
    BY <1>5, FS_AddElement
  <2> QED BY <2>1, <2>2, <1>1, <1>4, <1>6, <1>7
<1>8. CASE up % to # 0
  <2>1. D2 = D
    BY <1>2, <1>3, <1>8
  <2> QED BY <2>1, <1>1, <1>4, <1>6, <1>8
<1> QED BY <1>7, <1>8

LEMMA DueNever == ASSUME NEW e, NEW k PROVE Due(e, k, {}) = 0
<1>1. {u \in {} : u % Timer(e, k).timeout = 0} = {}
  OBVIOUS
<1> QED BY <1>1, FS_EmptySet DEF Due

(* Seconds change nothing for a timer that was dropped, and for one behind *)
(* a timer whose timeout is not positive.                                  *)
LEMMA CountedStill ==
  ASSUME NEW e \in Entries, NEW l, NEW k \in 1 .. Many(e), NEW V, IsFiniteSet(V), NEW up, up \notin V,
         Counted(e, l, k, V), k \in l.freed \/ Blocked(e, k)
  PROVE  Counted(e, l, k, V \cup {up}) /\ (k \in l.freed => ~Blocked(e, k))
<1>1. CASE Blocked(e, k)
  <2>1. Due(e, k, V) = 0 /\ Due(e, k, V \cup {up}) = 0
    BY <1>1 DEF Due
  <2> QED BY <2>1 DEF Counted
<1>2. CASE ~Blocked(e, k)
  <2>1. PICK a : a = Due(e, k, V)
    OBVIOUS
  <2>2. PICK b : b = Due(e, k, V \cup {up})
    OBVIOUS
  <2>3. a \in Nat /\ (b = a + 1 \/ b = a)
    BY <2>1, <2>2, <1>2, DueGrows
  <2>4. Once(e, k) /\ a >= 1 /\ l.fired[k] = 1 /\ k \in l.freed
    BY <1>2, <2>1, <2>3 DEF Counted
  <2>5. b >= 1 /\ (b > 1 \/ b = 1)
    BY <2>3, <2>4
  <2> QED BY <2>2, <2>4, <2>5, <1>2 DEF Counted
<1> QED BY <1>1, <1>2

(* A pass over a list: the timers behind the cursor t were run for the     *)
(* second up, those from t on were not.                                    *)
Walker(n) ==
  [head : 0 .. n, next : [1 .. n -> 0 .. n], fired : [1 .. n -> Nat], freed : SUBSET (1 .. n), t : 0 .. n, p : 0 .. n]

WalkAt(e, V, up, s) ==
  /\ Ordered(e, s)
  /\ s.t # 0 => s.t \in Left(e, s)
  /\ s.t # s.head => s.p \in Left(e, s) /\ s.next[s.p] = s.t
  /\ \A k \in 1 .. Many(e) :
       IF k > s.t THEN Timer(e, k).timeout > 0 /\ Counted(e, s, k, V \cup {up}) ELSE Counted(e, s, k, V)

(* Counted() looks at one timer of a list. *)
LEMMA CountedSame ==
  ASSUME NEW e, NEW k, NEW V, NEW s, NEW r, Counted(e, s, k, V),
         r.fired[k] = s.fired[k], k \in r.freed <=> k \in s.freed
  PROVE  Counted(e, r, k, V)
  BY DEF Counted

(* The timer at the cursor was run if it was due; the cursor goes on. *)
LEMMA WalkMoves ==
  ASSUME NEW e \in Entries, NEW V, IsFiniteSet(V), NEW up, up \notin V,
         NEW s \in Walker(Many(e)), NEW r \in Walker(Many(e)), WalkAt(e, V, up, s),
         s.t # 0, Timer(e, s.t).timeout > 0,
         r.t = s.next[s.t],
         \A k \in 1 .. Many(e) : k # s.t => r.fired[k] = s.fired[k] /\ (k \in r.freed <=> k \in s.freed),
         Counted(e, r, s.t, V \cup {up})
  PROVE  /\ r.t < s.t
         /\ \A k \in 1 .. Many(e) :
              IF k > r.t THEN Timer(e, k).timeout > 0 /\ Counted(e, r, k, V \cup {up}) ELSE Counted(e, r, k, V)
<1>1. PICK n \in Nat : n = Many(e)
  BY TimerFacts
<1>2. s.t \in 1 .. n /\ s.t \in Left(e, s) /\ s.t \notin s.freed
  BY <1>1 DEF WalkAt, Left, Walker
<1>3. PICK j : j = s.next[s.t]
  OBVIOUS
<1>4. j \in 0 .. n /\ j < s.t /\ \A i \in Left(e, s) : i < s.t => i <= j
  BY <1>1, <1>2, <1>3 DEF WalkAt, Ordered, Leads
<1>5. ASSUME NEW k \in 1 .. n
      PROVE  IF k > j THEN Timer(e, k).timeout > 0 /\ Counted(e, r, k, V \cup {up}) ELSE Counted(e, r, k, V)
  <2>1. CASE k > s.t
    <3>1. Timer(e, k).timeout > 0 /\ Counted(e, s, k, V \cup {up}) /\ k # s.t /\ k > j
      BY <2>1, <1>1, <1>2, <1>4 DEF WalkAt
    <3>2. Counted(e, r, k, V \cup {up})
      BY <3>1, <1>1, CountedSame
    <3> QED BY <3>1, <3>2
  <2>2. CASE k = s.t
    BY <2>2, <1>4
  <2>3. CASE k < s.t
    <3>1. Counted(e, s, k, V) /\ k # s.t
      BY <2>3, <1>1, <1>2 DEF WalkAt
    <3>2. Counted(e, r, k, V)
      BY <3>1, <1>1, CountedSame
    <3>3. ASSUME k > j PROVE Timer(e, k).timeout > 0 /\ Counted(e, r, k, V \cup {up})
      <4>1. k \notin Left(e, s)
        BY <3>3, <2>3, <1>2, <1>4
      <4>2. k \in s.freed /\ k \in r.freed
        BY <4>1, <3>1, <1>1 DEF Left
      <4>3. Counted(e, r, k, V \cup {up}) /\ ~Blocked(e, k)
        BY <3>2, <4>2, <1>1, CountedStill
      <4>4. k \in k .. n
        OBVIOUS
      <4>5. Timer(e, k).timeout \in Int
        BY <1>1, TimerFacts
      <4> QED BY <4>3, <4>4, <4>5, <1>1 DEF Blocked
    <3> QED BY <3>2, <3>3
  <2> QED BY <2>1, <2>2, <2>3, <1>2
<1> QED BY <1>1, <1>3, <1>4, <1>5

(* Step(): the timer stays in the list. *)
LEMMA WalkKeeps ==
  ASSUME NEW e \in Entries, NEW V, IsFiniteSet(V), NEW up, up \notin V,
         NEW s \in Walker(Many(e)), NEW r \in Walker(Many(e)), WalkAt(e, V, up, s),
         s.t # 0, Timer(e, s.t).timeout > 0,
         r.t = s.next[s.t], r.p = s.t, r.head = s.head, r.next = s.next, r.freed = s.freed,
         \A k \in 1 .. Many(e) : k # s.t => r.fired[k] = s.fired[k],
         Counted(e, r, s.t, V \cup {up})
  PROVE  WalkAt(e, V, up, r) /\ r.t < s.t
<1>1. /\ r.t < s.t
      /\ \A k \in 1 .. Many(e) :
           IF k > r.t THEN Timer(e, k).timeout > 0 /\ Counted(e, r, k, V \cup {up}) ELSE Counted(e, r, k, V)
  BY WalkMoves
<1>2. Left(e, r) = Left(e, s)
  BY DEF Left
<1>3. s.t \in Left(e, s)
  BY DEF WalkAt
<1>4. Leads(e, s, Many(e) + 1, s.head) /\ \A k \in Left(e, s) : Leads(e, s, k, s.next[k])
  BY DEF WalkAt, Ordered
<1>5. \A k, j : Leads(e, r, k, j) <=> Leads(e, s, k, j)
  BY <1>2 DEF Leads
<1>6. Ordered(e, r)
  <2>1. Leads(e, r, Many(e) + 1, r.head) /\ \A k \in Left(e, r) : Leads(e, r, k, r.next[k])
    BY <1>2, <1>4, <1>5
  <2> QED BY <2>1 DEF Ordered, Walker
<1>7. r.t # 0 => r.t \in Left(e, r)
  BY <1>2, <1>3, <1>4 DEF Leads
<1> QED BY <1>1, <1>2, <1>3, <1>6, <1>7 DEF WalkAt

(* Drop(): the timer leaves the list, and who led to it leads to the next. *)
LEMMA WalkDrops ==
  ASSUME NEW e \in Entries, NEW V, IsFiniteSet(V), NEW up, up \notin V,
         NEW s \in Walker(Many(e)), NEW r \in Walker(Many(e)), WalkAt(e, V, up, s),
         s.t # 0, Timer(e, s.t).timeout > 0,
         r.t = s.next[s.t], r.p = s.p, r.freed = s.freed \cup {s.t},
         s.t = s.head => r.head = s.next[s.t] /\ r.next = s.next,
         s.t # s.head => r.head = s.head /\ r.next = [s.next EXCEPT ![s.p] = s.next[s.t]],
         \A k \in 1 .. Many(e) : k # s.t => r.fired[k] = s.fired[k],
         Counted(e, r, s.t, V \cup {up})
  PROVE  WalkAt(e, V, up, r) /\ r.t < s.t
<1>1. /\ r.t < s.t
      /\ \A k \in 1 .. Many(e) :
           IF k > r.t THEN Timer(e, k).timeout > 0 /\ Counted(e, r, k, V \cup {up}) ELSE Counted(e, r, k, V)
  BY WalkMoves
<1>2. PICK n \in Nat : n = Many(e)
  BY TimerFacts
<1>3. PICK L : L = Left(e, s)
  OBVIOUS
<1>4. L \subseteq 1 .. n /\ s.t \in L /\ Left(e, r) = L \ {s.t}
  BY <1>2, <1>3 DEF WalkAt, Left
<1>5. Leads(e, s, n + 1, s.head) /\ \A k \in L : Leads(e, s, k, s.next[k])
  BY <1>2, <1>3 DEF WalkAt, Ordered
<1>6. ASSUME NEW k, NEW j
      PROVE  /\ Leads(e, s, k, j) <=> j \in 0 .. n /\ (j # 0 => j \in L) /\ j < k /\ \A i \in L : i < k => i <= j
             /\ Leads(e, r, k, j) <=>
                  j \in 0 .. n /\ (j # 0 => j \in L \ {s.t}) /\ j < k /\ \A i \in L \ {s.t} : i < k => i <= j
  BY <1>2, <1>3, <1>4 DEF Leads
<1>7. \A k, j : Leads(e, s, k, j) /\ j # s.t => Leads(e, r, k, j)
  BY <1>6
<1>8. Leads(e, s, s.t, s.next[s.t]) /\ s.t \in 1 .. n
  BY <1>4, <1>5
<1>9. ASSUME NEW k \in 1 .. n + 1, Leads(e, s, k, s.t) PROVE Leads(e, r, k, s.next[s.t])
  <2>1. PICK t \in 1 .. n : t = s.t
    BY <1>8
  <2>2. PICK j \in 0 .. n : j = s.next[t]
    BY <2>1, <1>6, <1>8
  <2>3. (j # 0 => j \in L) /\ j < t /\ \A i \in L : i < t => i <= j
    BY <2>1, <2>2, <1>6, <1>8
  <2>4. t < k /\ \A i \in L : i < k => i <= t
    BY <2>1, <1>6, <1>9
  <2>5. \A i \in L \ {t} : i < k => i <= j
    BY <2>3, <2>4, <1>4
  <2>6. j < k /\ j # t
    BY <2>3, <2>4
  <2> QED BY <2>1, <2>2, <2>3, <2>5, <2>6, <1>6
<1>10. Leads(e, r, n + 1, r.head)
  <2>1. CASE s.t = s.head
    BY <2>1, <1>5, <1>9
  <2>2. CASE s.t # s.head
    BY <2>2, <1>5, <1>7
  <2> QED BY <2>1, <2>2
<1>11. ASSUME NEW k \in L \ {s.t} PROVE Leads(e, r, k, r.next[k])
  <2>1. k \in 1 .. n /\ Leads(e, s, k, s.next[k]) /\ k \in 1 .. n + 1
    BY <1>4, <1>5
  <2>2. CASE s.t = s.head
    <3>1. k <= s.t
      BY <2>1, <2>2, <1>5, <1>6
    <3>2. s.next[k] < k /\ s.next[k] \in 0 .. n
      BY <2>1, <1>6
    <3>3. s.next[k] # s.t
      BY <3>1, <3>2, <2>1, <1>8
    <3> QED BY <3>3, <2>1, <2>2, <1>7
  <2>3. CASE s.t # s.head
    <3>1. s.p \in L /\ s.next[s.p] = s.t /\ s.p \in 1 .. n
      BY <2>3, <1>3, <1>4 DEF WalkAt
    <3>2. s.next \in [1 .. n -> 0 .. n]
      BY <1>2 DEF Walker
    <3>3. CASE k = s.p
      <4>1. r.next[k] = s.next[s.t]
        BY <3>1, <3>2, <3>3, <2>3
      <4> QED BY <4>1, <3>1, <3>3, <2>1, <1>9
    <3>4. CASE k # s.p
      <4>1. r.next[k] = s.next[k]
        BY <3>1, <3>2, <3>4, <2>1, <2>3
      <4>2. ASSUME s.next[k] = s.t PROVE FALSE
        <5>1. Leads(e, s, k, s.t) /\ Leads(e, s, s.p, s.t)
          BY <4>2, <2>1, <3>1, <1>5
        <5>2. s.t < k /\ s.t < s.p /\ (s.p < k => s.p <= s.t) /\ (k < s.p => k <= s.t)
          BY <5>1, <3>1, <1>6
        <5> QED BY <5>2, <3>1, <3>4, <2>1, <1>8
      <4> QED BY <4>1, <4>2, <2>1, <1>7
    <3> QED BY <3>3, <3>4
  <2> QED BY <2>2, <2>3
<1>12. Ordered(e, r)
  <2>1. \A k \in Left(e, r) : Leads(e, r, k, r.next[k])
    BY <1>4, <1>11
  <2>2. Leads(e, r, Many(e) + 1, r.head)
    BY <1>2, <1>10
  <2> QED BY <2>1, <2>2 DEF Ordered, Walker
<1>13. r.t # 0 => r.t \in Left(e, r)
  BY <1>1, <1>4, <1>6, <1>8
<1>14. ASSUME r.t # r.head PROVE r.p \in Left(e, r) /\ r.next[r.p] = r.t
  <2>1. s.t # s.head
    BY <1>14
  <2>2. s.p \in L /\ s.next[s.p] = s.t /\ s.p \in 1 .. n
    BY <2>1, <1>3, <1>4 DEF WalkAt
  <2>3. s.next \in [1 .. n -> 0 .. n]
    BY <1>2 DEF Walker
  <2>4. Leads(e, s, s.p, s.t)
    BY <2>2, <1>5
  <2>5. s.p # s.t
    BY <2>2, <2>4, <1>6, <1>8
  <2>6. r.next[s.p] = s.next[s.t]
    BY <2>1, <2>2, <2>3
  <2> QED BY <2>2, <2>5, <2>6, <1>4
<1> QED BY <1>1, <1>12, <1>13, <1>14 DEF WalkAt

(* The assignments of the loop, one field at a time *)
LEMMA StepFields ==
  ASSUME NEW n \in Nat, NEW s \in Walker(n), s.t # 0
  PROVE  /\ Step(s) \in Walker(n)
         /\ Step(s).t = s.next[s.t] /\ Step(s).p = s.t /\ Step(s).head = s.head
         /\ Step(s).next = s.next /\ Step(s).fired = s.fired /\ Step(s).freed = s.freed
<1>1. s.next[s.t] \in 0 .. n
  BY DEF Walker
<1>2. Step(s) \in Walker(n)
  BY <1>1 DEF Step, Walker
<1>3. /\ Step(s).t = s.next[s.t] /\ Step(s).p = s.t /\ Step(s).head = s.head
      /\ Step(s).next = s.next /\ Step(s).fired = s.fired /\ Step(s).freed = s.freed
  BY DEF Step, Walker
<1> QED BY <1>2, <1>3

LEMMA FiredFields ==
  ASSUME NEW n \in Nat, NEW s \in Walker(n), s.t # 0
  PROVE  /\ Fired(s) \in Walker(n)
         /\ Fired(s).t = s.t /\ Fired(s).p = s.p /\ Fired(s).head = s.head /\ Fired(s).next = s.next
         /\ Fired(s).freed = s.freed /\ Fired(s).fired[s.t] = s.fired[s.t] + 1
         /\ \A k \in 1 .. n : k # s.t => Fired(s).fired[k] = s.fired[k]
<1>1. s.t \in 1 .. n /\ s.fired \in [1 .. n -> Nat]
  BY DEF Walker
<1>2. PICK f : f = [s.fired EXCEPT ![s.t] = @ + 1]
  OBVIOUS
<1>3. f \in [1 .. n -> Nat] /\ f[s.t] = s.fired[s.t] + 1 /\ \A k \in 1 .. n : k # s.t => f[k] = s.fired[k]
  BY <1>1, <1>2
<1>4. Fired(s) \in Walker(n)
  BY <1>2, <1>3 DEF Fired, Walker
<1>5. /\ Fired(s).t = s.t /\ Fired(s).p = s.p /\ Fired(s).head = s.head /\ Fired(s).next = s.next
      /\ Fired(s).freed = s.freed /\ Fired(s).fired = f
  BY <1>2 DEF Fired, Walker
<1> QED BY <1>3, <1>4, <1>5

LEMMA DropFields ==
  ASSUME NEW n \in Nat, NEW s \in Walker(n), s.t # 0, s.p # 0 \/ s.t = s.head
  PROVE  /\ Drop(s) \in Walker(n)
         /\ Drop(s).t = s.next[s.t] /\ Drop(s).p = s.p /\ Drop(s).fired = s.fired
         /\ Drop(s).freed = s.freed \cup {s.t}
         /\ s.t = s.head => Drop(s).head = s.next[s.t] /\ Drop(s).next = s.next
         /\ s.t # s.head => Drop(s).head = s.head /\ Drop(s).next = [s.next EXCEPT ![s.p] = s.next[s.t]]
<1>1. /\ s.t \in 1 .. n /\ s.p \in 0 .. n /\ s.next \in [1 .. n -> 0 .. n] /\ s.next[s.t] \in 0 .. n
      /\ s.freed \cup {s.t} \in SUBSET (1 .. n)
  BY DEF Walker
<1>2. CASE s.t = s.head
  <2>1. PICK r : r = [s EXCEPT !.head = s.next[s.t], !.freed = @ \cup {s.t}, !.t = s.next[s.t]]
    OBVIOUS
  <2>2. r \in Walker(n)
    BY <2>1, <1>1 DEF Walker
  <2>3. /\ r.t = s.next[s.t] /\ r.p = s.p /\ r.fired = s.fired /\ r.freed = s.freed \cup {s.t}
        /\ r.head = s.next[s.t] /\ r.next = s.next
    BY <2>1 DEF Walker
  <2> QED BY <2>1, <2>2, <2>3, <1>2 DEF Drop
<1>3. CASE s.t # s.head
  <2>1. PICK r : r = [s EXCEPT !.next[s.p] = s.next[s.t], !.freed = @ \cup {s.t}, !.t = s.next[s.t]]
    OBVIOUS
  <2>2. PICK x : x = [s.next EXCEPT ![s.p] = s.next[s.t]]
    OBVIOUS
  <2>3. x \in [1 .. n -> 0 .. n]
    BY <2>2, <1>1
  <2>4. r \in Walker(n)
    BY <2>1, <2>2, <2>3, <1>1 DEF Walker
  <2>5. /\ r.t = s.next[s.t] /\ r.p = s.p /\ r.fired = s.fired /\ r.freed = s.freed \cup {s.t}
        /\ r.head = s.head /\ r.next = x
    BY <2>1, <2>2 DEF Walker
  <2> QED BY <2>1, <2>2, <2>4, <2>5, <1>3 DEF Drop
<1> QED BY <1>2, <1>3

(* A turn of the loop goes on with the pass. *)
LEMMA WalkTurn ==
  ASSUME NEW e \in Entries, NEW V, IsFiniteSet(V), NEW up, up \notin V,
         NEW s \in Walker(Many(e)), WalkAt(e, V, up, s), ~Over(e, s)
  PROVE  /\ Turn(e, up, s) \in Walker(Many(e))
         /\ WalkAt(e, V, up, Turn(e, up, s))
         /\ Turn(e, up, s).t < s.t
<1>1. PICK n \in Nat : n = Many(e)
  BY TimerFacts
<1>2. /\ s.head \in 0 .. n /\ s.next \in [1 .. n -> 0 .. n] /\ s.fired \in [1 .. n -> Nat]
      /\ s.freed \in SUBSET (1 .. n) /\ s.t \in 0 .. n /\ s.p \in 0 .. n
  BY <1>1 DEF Walker
<1>3. PICK t \in 1 .. n : t = s.t
  BY <1>2 DEF Over
<1>4. PICK to \in Int : to = Timer(e, t).timeout
  BY <1>1, TimerFacts
<1>5. to > 0 /\ s.t # 0
  BY <1>3, <1>4 DEF Over
<1>6. Counted(e, s, t, V) /\ t \notin s.freed
  BY <1>1, <1>3 DEF WalkAt, Left
<1>7. ~Blocked(e, t)
  <2>1. ASSUME NEW j \in t .. n PROVE Timer(e, j).timeout > 0 /\ Timer(e, j).timeout \in Int
    <3>1. j = t \/ (j > t /\ j \in 1 .. n)
      OBVIOUS
    <3> QED BY <3>1, <1>1, <1>3, <1>4, <1>5, TimerFacts DEF WalkAt
  <2> QED BY <2>1, <1>1 DEF Blocked
<1>8. PICK a : a = Due(e, t, V)
  OBVIOUS
<1>9. PICK b : b = Due(e, t, V \cup {up})
  OBVIOUS
<1>10. a \in Nat /\ b = IF up % to = 0 THEN a + 1 ELSE a
  BY <1>1, <1>4, <1>7, <1>8, <1>9, DueGrows
<1>11. s.fired[t] = (IF Once(e, t) /\ a > 1 THEN 1 ELSE a) /\ ~(Once(e, t) /\ a >= 1)
  BY <1>6, <1>8 DEF Counted
<1>12. s.t = t /\ s.t # 0 /\ (s.p # 0 \/ s.t = s.head)
  BY <1>1, <1>3, <1>5 DEF WalkAt, Left
<1>13. PICK w : w = Fired(s)
  OBVIOUS
<1>14. /\ w \in Walker(n) /\ w.t = s.t /\ w.p = s.p /\ w.head = s.head /\ w.next = s.next
       /\ w.freed = s.freed /\ w.fired[t] = s.fired[t] + 1
       /\ \A k \in 1 .. n : k # t => w.fired[k] = s.fired[k]
  BY <1>1, <1>12, <1>13, FiredFields
<1>15. CASE up % to # 0
  <2>1. PICK r : r = Step(s)
    OBVIOUS
  <2>2. Turn(e, up, s) = r
    BY <2>1, <1>3, <1>4, <1>15 DEF Turn
  <2>3. /\ r \in Walker(n) /\ r.t = s.next[s.t] /\ r.p = s.t /\ r.head = s.head
        /\ r.next = s.next /\ r.fired = s.fired /\ r.freed = s.freed
    BY <2>1, <1>1, <1>12, StepFields
  <2>4. Counted(e, r, s.t, V \cup {up})
    BY <2>3, <1>3, <1>6, <1>8, <1>9, <1>10, <1>15 DEF Counted
  <2>5. Timer(e, s.t).timeout > 0 /\ \A k \in 1 .. Many(e) : k # s.t => r.fired[k] = s.fired[k]
    BY <2>3, <1>3, <1>4, <1>5
  <2>6. WalkAt(e, V, up, r) /\ r.t < s.t
    BY <2>3, <2>4, <2>5, <1>1, <1>12, WalkKeeps
  <2> QED BY <2>2, <2>3, <2>6, <1>1
<1>16. CASE up % to = 0 /\ Timer(e, t).repeat
  <2>1. PICK r : r = Step(w)
    OBVIOUS
  <2>2. Turn(e, up, s) = r
    BY <2>1, <1>3, <1>4, <1>13, <1>16 DEF Turn
  <2>3. /\ r \in Walker(n) /\ r.t = s.next[s.t] /\ r.p = s.t /\ r.head = s.head
        /\ r.next = s.next /\ r.fired = w.fired /\ r.freed = s.freed
    BY <2>1, <1>1, <1>12, <1>14, StepFields
  <2>4. Counted(e, r, s.t, V \cup {up})
    <3>1. ~Once(e, t) /\ r.fired[t] = b /\ t \notin r.freed
      BY <2>3, <1>6, <1>10, <1>11, <1>14, <1>16 DEF Once
    <3> QED BY <3>1, <1>9, <1>12 DEF Counted
  <2>5. Timer(e, s.t).timeout > 0 /\ \A k \in 1 .. Many(e) : k # s.t => r.fired[k] = s.fired[k]
    BY <2>3, <1>1, <1>3, <1>4, <1>5, <1>14
  <2>6. WalkAt(e, V, up, r) /\ r.t < s.t
    BY <2>3, <2>4, <2>5, <1>1, <1>12, WalkKeeps
  <2> QED BY <2>2, <2>3, <2>6, <1>1
<1>17. CASE up % to = 0 /\ ~Timer(e, t).repeat
  <2>1. PICK r : r = Drop(w)
    OBVIOUS
  <2>2. Turn(e, up, s) = r
    BY <2>1, <1>3, <1>4, <1>13, <1>17 DEF Turn
  <2>3. /\ r \in Walker(n) /\ r.t = s.next[s.t] /\ r.p = s.p /\ r.fired = w.fired
        /\ r.freed = s.freed \cup {s.t}
        /\ s.t = s.head => r.head = s.next[s.t] /\ r.next = s.next
        /\ s.t # s.head => r.head = s.head /\ r.next = [s.next EXCEPT ![s.p] = s.next[s.t]]
    <3>1. w.t # 0 /\ (w.p # 0 \/ w.t = w.head)
      BY <1>12, <1>14
    <3>2. /\ r \in Walker(n) /\ r.t = w.next[w.t] /\ r.p = w.p /\ r.fired = w.fired
          /\ r.freed = w.freed \cup {w.t}
          /\ w.t = w.head => r.head = w.next[w.t] /\ r.next = w.next
          /\ w.t # w.head => r.head = w.head /\ r.next = [w.next EXCEPT ![w.p] = w.next[w.t]]
      BY <2>1, <3>1, <1>1, <1>14, DropFields
    <3> QED BY <3>2, <1>14
  <2>4. Counted(e, r, s.t, V \cup {up})
    <3>1. Once(e, t) /\ a = 0 /\ b = 1
      BY <1>10, <1>11, <1>17 DEF Once
    <3>2. r.fired[t] = 1 /\ t \in r.freed
      BY <3>1, <2>3, <1>11, <1>12, <1>14
    <3> QED BY <3>1, <3>2, <1>9, <1>12 DEF Counted
  <2>5. Timer(e, s.t).timeout > 0 /\ \A k \in 1 .. Many(e) : k # s.t => r.fired[k] = s.fired[k]
    BY <2>3, <1>1, <1>3, <1>4, <1>5, <1>14
  <2>6. WalkAt(e, V, up, r) /\ r.t < s.t
    BY <2>3, <2>4, <2>5, <1>1, <1>12, WalkDrops
  <2> QED BY <2>2, <2>3, <2>6, <1>1
<1> QED BY <1>15, <1>16, <1>17

(* The pass begins at the head, before which nothing is left. *)
LEMMA WalkBegins ==
  ASSUME NEW e \in Entries, NEW V, IsFiniteSet(V), NEW up, up \notin V, NEW l,
         Ordered(e, l), \A k \in 1 .. Many(e) : Counted(e, l, k, V),
         NEW s, s = [head |-> l.head, next |-> l.next, fired |-> l.fired, freed |-> l.freed, t |-> l.head, p |-> l.head]
  PROVE  s \in Walker(Many(e)) /\ WalkAt(e, V, up, s)
<1>1. PICK n \in Nat : n = Many(e)
  BY TimerFacts
<1>2. /\ l.next \in [1 .. n -> 0 .. n] /\ l.fired \in [1 .. n -> Nat] /\ l.freed \subseteq 1 .. n
      /\ Leads(e, l, n + 1, l.head) /\ \A k \in Left(e, l) : Leads(e, l, k, l.next[k])
  BY <1>1 DEF Ordered
<1>3. s.head = l.head /\ s.next = l.next /\ s.fired = l.fired /\ s.freed = l.freed /\ s.t = l.head /\ s.p = l.head
  OBVIOUS
<1>4. Left(e, s) = Left(e, l) /\ \A k, j : Leads(e, s, k, j) <=> Leads(e, l, k, j)
  BY <1>3 DEF Left, Leads
<1>5. l.head \in 0 .. n /\ (l.head # 0 => l.head \in Left(e, l)) /\ \A i \in Left(e, l) : i < n + 1 => i <= l.head
  BY <1>1, <1>2 DEF Leads
<1>6. s \in Walker(n)
  BY <1>2, <1>5 DEF Walker
<1>7. Ordered(e, s)
  BY <1>1, <1>2, <1>3, <1>4 DEF Ordered
<1>8. ASSUME NEW k \in 1 .. n
      PROVE  IF k > s.t THEN Timer(e, k).timeout > 0 /\ Counted(e, s, k, V \cup {up}) ELSE Counted(e, s, k, V)
  <2>1. Counted(e, s, k, V)
    BY <1>1, <1>3, CountedSame
  <2>2. ASSUME k > s.t PROVE Timer(e, k).timeout > 0 /\ Counted(e, s, k, V \cup {up})
    <3>1. k \notin Left(e, l)
      BY <2>2, <1>3, <1>5
    <3>2. k \in s.freed
      BY <3>1, <1>1, <1>3 DEF Left
    <3>3. Counted(e, s, k, V \cup {up}) /\ ~Blocked(e, k)
      BY <2>1, <3>2, <1>1, CountedStill
    <3>4. k \in k .. n /\ Timer(e, k).timeout \in Int
      BY <1>1, TimerFacts
    <3> QED BY <3>3, <3>4, <1>1 DEF Blocked
  <2> QED BY <2>1, <2>2
<1> QED BY <1>1, <1>3, <1>4, <1>5, <1>6, <1>7, <1>8 DEF WalkAt

LEMMA WalkEnds ==
  ASSUME NEW e \in Entries, NEW V, IsFiniteSet(V), NEW up, up \notin V,
         NEW s \in Walker(Many(e)), WalkAt(e, V, up, s), Over(e, s), NEW k \in 1 .. Many(e)
  PROVE  Counted(e, s, k, V \cup {up})
<1>1. PICK n \in Nat : n = Many(e)
  BY TimerFacts
<1>2. s.t \in 0 .. n
  BY <1>1 DEF Walker
<1>3. CASE k > s.t
  BY <1>3 DEF WalkAt
<1>4. CASE ~(k > s.t)
  <2>1. Counted(e, s, k, V)
    BY <1>4 DEF WalkAt
  <2>2. s.t \in k .. n /\ s.t # 0
    BY <1>1, <1>2, <1>4
  <2>3. Blocked(e, k)
    BY <2>2, <1>1 DEF Over, Blocked
  <2> QED BY <2>1, <2>3, CountedStill
<1> QED BY <1>3, <1>4

(* RunTimers() runs every timer of a list that is due. *)
LEMMA RunExact ==
  ASSUME NEW e \in Entries, NEW V, IsFiniteSet(V), NEW up, up \notin V,
         Ordered(e, lists[e]), \A k \in 1 .. Many(e) : Counted(e, lists[e], k, V)
  PROVE  /\ Ordered(e, RunTimers(e, up))
         /\ \A k \in 1 .. Many(e) : Counted(e, RunTimers(e, up), k, V \cup {up})
<1>1. PICK n \in Nat : n = Many(e)
  BY TimerFacts
<1>2. PICK l : l = lists[e]
  OBVIOUS
<1>3. l.next \in [1 .. n -> 0 .. n] /\ Len(l.next) = n
  <2>1. l.next \in [1 .. n -> 0 .. n]
    BY <1>1, <1>2 DEF Ordered
  <2> QED BY <2>1
<1>4. PICK b : b = [head |-> l.head, next |-> l.next, fired |-> l.fired, freed |-> l.freed, t |-> l.head, p |-> l.head]
  OBVIOUS
<1>5. b \in Walker(n) /\ WalkAt(e, V, up, b)
  BY <1>1, <1>2, <1>4, WalkBegins
<1> DEFINE S == [i \in 0 .. n |-> {s \in Walker(n) : WalkAt(e, V, up, s) /\ (Over(e, s) \/ s.t <= n - i)}]
           g == [i \in 1 .. n |-> [s \in Walker(n) |-> Turn(e, up, s)]]
<1>6. b \in S[0]
  <2>1. b.t \in 0 .. n /\ 0 \in 0 .. n /\ b.t <= n - 0
    BY <1>5 DEF Walker
  <2> QED BY <2>1, <1>5
<1>7. ASSUME NEW i \in 1 .. n, NEW s \in S[i - 1]
      PROVE  g[i][s] = Turn(e, up, s) /\ Turn(e, up, s) \in S[i]
  <2>1. i - 1 \in 0 .. n /\ i \in 0 .. n
    OBVIOUS
  <2>2. s \in Walker(n) /\ WalkAt(e, V, up, s) /\ (Over(e, s) \/ s.t <= n - (i - 1))
    BY <2>1, <1>7
  <2>3. g[i][s] = Turn(e, up, s)
    BY <2>2
  <2>4. CASE Over(e, s)
    <3>1. Turn(e, up, s) = s
      BY <2>4 DEF Turn
    <3> QED BY <3>1, <2>1, <2>2, <2>3, <2>4
  <2>5. CASE ~Over(e, s)
    <3>1. PICK r : r = Turn(e, up, s)
      OBVIOUS
    <3>2. r \in Walker(n) /\ WalkAt(e, V, up, r) /\ r.t < s.t
      BY <2>2, <2>5, <3>1, <1>1, WalkTurn
    <3>3. r.t \in 0 .. n /\ s.t \in 0 .. n
      BY <2>2, <3>2 DEF Walker
    <3>4. r.t <= n - i
      BY <2>2, <2>5, <3>2, <3>3
    <3> QED BY <3>1, <3>2, <3>4, <2>1, <2>3
  <2> QED BY <2>4, <2>5
<1>8. ASSUME NEW s \in S[n] PROVE s \in Walker(n) /\ WalkAt(e, V, up, s) /\ Over(e, s)
  <2>1. s \in Walker(n) /\ WalkAt(e, V, up, s) /\ (Over(e, s) \/ s.t <= n - n)
    BY <1>8
  <2>2. s.t \in 0 .. n
    BY <2>1 DEF Walker
  <2>3. s.t <= n - n => s.t = 0
    BY <2>2
  <2> QED BY <2>1, <2>3 DEF Over
<1> HIDE DEF S, g
<1>9. PICK f : Iterates(b, g, n, f) /\ \A i \in 0 .. n : f[i] \in S[i]
  <2>1. \A i \in 1 .. n : \A s \in S[i - 1] : g[i][s] \in S[i]
    BY <1>7
  <2> QED BY <2>1, <1>6, IterationExists
<1> DEFINE W(h) == [i \in 0 .. n |-> IF i = 0 THEN b ELSE Turn(e, up, h[i - 1])]
           walk == CHOOSE h : h = W(h)
<1>10. f = W(f)
  <2>1. ASSUME NEW i \in 0 .. n PROVE f[i] = IF i = 0 THEN b ELSE Turn(e, up, f[i - 1])
    <3>1. CASE i = 0
      BY <3>1, <1>9 DEF Iterates
    <3>2. CASE i # 0
      <4>1. i \in 1 .. n /\ i - 1 \in 0 .. n
        BY <3>2
      <4>2. f[i] = g[i][f[i - 1]] /\ f[i - 1] \in S[i - 1]
        BY <4>1, <1>9 DEF Iterates
      <4> QED BY <4>1, <4>2, <3>2, <1>7
    <3> QED BY <3>1, <3>2
  <2>2. f = [i \in 0 .. n |-> f[i]]
    BY <1>9 DEF Iterates
  <2> QED BY <2>1, <2>2
<1>11. walk = W(walk)
  <2> HIDE DEF W
  <2> QED BY <1>10
<1>12. RunTimers(e, up) = [head |-> walk[n].head, next |-> walk[n].next, fired |-> walk[n].fired, freed |-> walk[n].freed]
  BY <1>2, <1>3, <1>4 DEF RunTimers
<1> HIDE DEF walk
<1>13. \A i \in 0 .. n : walk[i] = IF i = 0 THEN b ELSE Turn(e, up, walk[i - 1])
  BY <1>11
<1> HIDE DEF W
<1>14. PICK T : T = {i \in 0 .. n : walk[i] \in S[i]}
  OBVIOUS
<1>15. 0 \in T
  BY <1>6, <1>13, <1>14
<1>16. ASSUME NEW i \in 1 .. n, i - 1 \in T PROVE i \in T
  <2>1. walk[i - 1] \in S[i - 1] /\ i \in 0 .. n /\ i # 0
    BY <1>14, <1>16
  <2>2. walk[i] = Turn(e, up, walk[i - 1])
    BY <2>1, <1>13
  <2> QED BY <2>1, <2>2, <1>7, <1>14
<1>17. \A i \in 0 .. n : i \in T
  BY <1>15, <1>16, Reaches
<1>18. PICK s : s = walk[n]
  OBVIOUS
<1>19. s \in Walker(n) /\ WalkAt(e, V, up, s) /\ Over(e, s)
  BY <1>8, <1>14, <1>17, <1>18
<1>20. PICK r : r = RunTimers(e, up)
  OBVIOUS
<1>21. r.head = s.head /\ r.next = s.next /\ r.fired = s.fired /\ r.freed = s.freed
  BY <1>12, <1>18, <1>20
<1>22. ASSUME NEW k \in 1 .. Many(e) PROVE Counted(e, r, k, V \cup {up})
  <2>1. Counted(e, s, k, V \cup {up})
    BY <1>1, <1>19, WalkEnds
  <2> QED BY <2>1, <1>21, CountedSame
<1>23. Ordered(e, r)
  <2>1. Ordered(e, s)
    BY <1>19 DEF WalkAt
  <2>2. Left(e, r) = Left(e, s)
    BY <1>21 DEF Left
  <2>3. \A k, j : Leads(e, r, k, j) <=> Leads(e, s, k, j)
    BY <2>2 DEF Leads
  <2> QED BY <2>1, <2>2, <2>3, <1>21 DEF Ordered
<1> QED BY <1>20, <1>22, <1>23

(* moc_add_timer() puts each timer in front of the earlier ones. *)
Added(i) == [head |-> i, next |-> [j \in 1 .. i |-> j - 1], fired |-> [j \in 1 .. i |-> 0], freed |-> {}]

LEMMA AddedNone == Added(0) = NoTimers
<1>1. \A j : j \notin 1 .. 0
  OBVIOUS
<1>2. [j \in 1 .. 0 |-> j - 1] = << >> /\ [j \in 1 .. 0 |-> 0] = << >>
  BY <1>1
<1> QED BY <1>2 DEF Added, NoTimers

LEMMA AddedOne ==
  ASSUME NEW i \in Nat \ {0}
  PROVE  moc_add_timer(Added(i - 1)) = Added(i)
<1>1. PICK x : x = [j \in 1 .. (i - 1) |-> j - 1]
  OBVIOUS
<1>2. PICK y : y = [j \in 1 .. (i - 1) |-> 0]
  OBVIOUS
<1>3. i - 1 \in Nat
  OBVIOUS
<1>4. x \in Seq(Int) /\ Len(x) = i - 1 /\ y \in Seq(Int) /\ Len(y) = i - 1
  BY <1>1, <1>2, <1>3
<1>5. Append(x, i - 1) = [j \in 1 .. i |-> j - 1]
  <2>1. PICK r : r = Append(x, i - 1)
    OBVIOUS
  <2>2. r \in Seq(Int) /\ Len(r) = i /\ r[i] = i - 1 /\ \A j \in 1 .. (i - 1) : r[j] = x[j]
    BY <2>1, <1>3, <1>4, AppendProperties
  <2>3. r = [j \in 1 .. i |-> r[j]]
    BY <2>2
  <2>4. \A j \in 1 .. i : r[j] = j - 1
    BY <2>2, <1>1
  <2> QED BY <2>1, <2>3, <2>4
<1>6. Append(y, 0) = [j \in 1 .. i |-> 0]
  <2>1. PICK r : r = Append(y, 0)
    OBVIOUS
  <2>2. r \in Seq(Int) /\ Len(r) = i /\ r[i] = 0 /\ \A j \in 1 .. (i - 1) : r[j] = y[j]
    BY <2>1, <1>3, <1>4, AppendProperties
  <2>3. r = [j \in 1 .. i |-> r[j]]
    BY <2>2
  <2>4. \A j \in 1 .. i : r[j] = 0
    BY <2>2, <1>2
  <2> QED BY <2>1, <2>3, <2>4
<1>7. PICK a : a = [head |-> i - 1, next |-> x, fired |-> y, freed |-> {}]
  OBVIOUS
<1>8. Added(i - 1) = a
  BY <1>1, <1>2, <1>7 DEF Added
<1>9. moc_add_timer(a) = [head |-> i, next |-> Append(x, i - 1), fired |-> Append(y, 0), freed |-> {}]
  <2>1. a.head = i - 1 /\ a.next = x /\ a.fired = y /\ (i - 1) + 1 = i
    BY <1>7
  <2>2. moc_add_timer(a) = [a EXCEPT !.next = Append(x, i - 1), !.head = i, !.fired = Append(y, 0)]
    BY <2>1, <1>4 DEF moc_add_timer
  <2> QED BY <2>2, <1>7
<1> QED BY <1>5, <1>6, <1>8, <1>9 DEF Added

LEMMA TimersAdded == ASSUME NEW e \in Entries PROVE AddTimers(e) = Added(Many(e))
<1>1. PICK n \in Nat : n = Many(e)
  BY TimerFacts
<1> DEFINE W(h) == [i \in 0 .. n |-> IF i = 0 THEN NoTimers ELSE moc_add_timer(h[i - 1])]
           list == CHOOSE h : h = W(h)
<1>2. PICK f : f = [i \in 0 .. n |-> Added(i)]
  OBVIOUS
<1>3. f = W(f)
  <2>1. ASSUME NEW i \in 0 .. n PROVE f[i] = IF i = 0 THEN NoTimers ELSE moc_add_timer(f[i - 1])
    <3>1. CASE i = 0
      BY <3>1, <1>2, AddedNone
    <3>2. CASE i # 0
      <4>1. i \in Nat \ {0} /\ i - 1 \in 0 .. n
        BY <3>2
      <4>2. f[i] = Added(i) /\ f[i - 1] = Added(i - 1)
        BY <4>1, <1>2
      <4> QED BY <4>1, <4>2, <3>2, AddedOne
    <3> QED BY <3>1, <3>2
  <2>2. f = [i \in 0 .. n |-> f[i]]
    BY <1>2
  <2> QED BY <2>1, <2>2
<1>4. list = W(list)
  <2> HIDE DEF W
  <2> QED BY <1>3
<1>5. AddTimers(e) = list[n]
  BY <1>1 DEF AddTimers, Many
<1> HIDE DEF list
<1>6. \A i \in 0 .. n : list[i] = IF i = 0 THEN NoTimers ELSE moc_add_timer(list[i - 1])
  BY <1>4
<1> HIDE DEF W
<1>7. PICK T : T = {i \in 0 .. n : list[i] = Added(i)}
  OBVIOUS
<1>8. 0 \in T
  BY <1>6, <1>7, AddedNone
<1>9. ASSUME NEW i \in 1 .. n, i - 1 \in T PROVE i \in T
  <2>1. list[i - 1] = Added(i - 1) /\ i \in 0 .. n /\ i # 0 /\ i \in Nat \ {0}
    BY <1>7, <1>9
  <2>2. list[i] = moc_add_timer(Added(i - 1))
    BY <2>1, <1>6
  <2> QED BY <2>1, <2>2, <1>7, AddedOne
<1>10. \A i \in 0 .. n : i \in T
  BY <1>8, <1>9, Reaches
<1> QED BY <1>1, <1>5, <1>7, <1>10

LEMMA AddedOrdered ==
  ASSUME NEW e \in Entries
  PROVE  Ordered(e, AddTimers(e)) /\ \A k \in 1 .. Many(e) : Counted(e, AddTimers(e), k, {})
<1>1. PICK n \in Nat : n = Many(e)
  BY TimerFacts
<1>2. PICK l : l = AddTimers(e)
  OBVIOUS
<1>3. l.head = n /\ l.next = [j \in 1 .. n |-> j - 1] /\ l.fired = [j \in 1 .. n |-> 0] /\ l.freed = {}
  <2>1. l = Added(n)
    BY <1>1, <1>2, TimersAdded
  <2> QED BY <2>1 DEF Added
<1>4. Left(e, l) = 1 .. n
  BY <1>1, <1>3 DEF Left
<1>5. Leads(e, l, n + 1, l.head)
  BY <1>1, <1>3, <1>4 DEF Leads
<1>6. \A k \in 1 .. n : Leads(e, l, k, l.next[k])
  BY <1>1, <1>3, <1>4 DEF Leads
<1>7. l.next \in [1 .. n -> 0 .. n] /\ l.fired \in [1 .. n -> Nat]
  BY <1>3
<1>8. ASSUME NEW k \in 1 .. n PROVE Counted(e, l, k, {})
  BY <1>3, DueNever DEF Counted
<1> QED BY <1>1, <1>2, <1>3, <1>4, <1>5, <1>6, <1>7, <1>8 DEF Ordered

(* The timers that a list leads to are those that were not dropped. *)
LEMMA OrderedLeads ==
  ASSUME NEW e \in Entries, NEW l, Ordered(e, l), NEW k \in 1 .. Many(e)
  PROVE  (k = l.head \/ \E j \in (1 .. Many(e)) \ l.freed : l.next[j] = k) <=> k \notin l.freed
<1>1. PICK n \in Nat : n = Many(e)
  BY TimerFacts
<1>2. PICK L : L = Left(e, l)
  OBVIOUS
<1>3. L = (1 .. n) \ l.freed
  BY <1>1, <1>2 DEF Left
<1>4. /\ l.head \in 0 .. n /\ (l.head # 0 => l.head \in L) /\ \A i \in L : i < n + 1 => i <= l.head
      /\ \A j \in L : /\ l.next[j] \in 0 .. n /\ (l.next[j] # 0 => l.next[j] \in L) /\ l.next[j] < j
                      /\ \A i \in L : i < j => i <= l.next[j]
  BY <1>1, <1>2 DEF Ordered, Leads
<1>5. k = l.head => k \in L
  BY <1>1, <1>4
<1>6. \A j \in L : l.next[j] = k => k \in L
  BY <1>1, <1>4
<1>7. ASSUME k \in L, k # l.head PROVE \E j \in L : l.next[j] = k
  <2>1. PICK D : D = {j \in L : j > k}
    OBVIOUS
  <2>2. D \subseteq Nat
    BY <2>1, <1>3
  <2>3. l.head \in D
    <3>1. k <= l.head /\ k \in 1 .. n
      BY <1>1, <1>3, <1>4, <1>7
    <3> QED BY <3>1, <2>1, <1>4, <1>7
  <2>4. PICK j \in D : \A i \in D : j <= i
    BY <2>2, <2>3, LeastElement
  <2>5. j \in L /\ j > k /\ j \in Nat
    BY <2>1, <2>2, <2>4
  <2>6. PICK i \in 0 .. n : i = l.next[j]
    BY <2>5, <1>4
  <2>7. k <= i /\ i < j /\ (i # 0 => i \in L)
    BY <2>5, <2>6, <1>3, <1>4, <1>7
  <2>8. i \notin D
    BY <2>2, <2>4, <2>5, <2>6, <2>7
  <2>9. i = k
    BY <2>1, <2>6, <2>7, <2>8, <1>1
  <2> QED BY <2>5, <2>6, <2>9
<1> QED BY <1>1, <1>3, <1>5, <1>6, <1>7

LEMMA TimerInvExact == ServerTyped /\ TimerInv => TimersExact
<1> SUFFICES ASSUME ServerTyped, TimerInv, NEW e \in threads
             PROVE  LET l == lists[e]
                        blocked(k) == \E j \in k .. Len(l.next) : Timer(e, j).timeout <= 0
                        due(k) == IF blocked(k) THEN 0 ELSE Cardinality({u \in seen : u % Timer(e, k).timeout = 0})
                        once(k) == ~ Timer(e, k).repeat
                        inList == {k \in DOMAIN l.next : k = l.head \/ \E j \in DOMAIN l.next \ l.freed : l.next[j] = k}
                    IN  /\ \A k \in DOMAIN l.next :
                             /\ l.fired[k] = IF once(k) /\ due(k) > 1 THEN 1 ELSE due(k)
                             /\ k \in l.freed <=> once(k) /\ due(k) >= 1
                        /\ inList = DOMAIN l.next \ l.freed
  BY DEF TimersExact
<1>1. e \in Entries
  BY DEF ServerTyped
<1>2. PICK n \in Nat : n = Many(e)
  BY <1>1, TimerFacts
<1> DEFINE l == lists[e]
<1> HIDE DEF l
<1>3. Ordered(e, l) /\ \A k \in 1 .. n : Counted(e, l, k, seen)
  BY <1>2 DEF TimerInv, l
<1>4. l.next \in [1 .. n -> 0 .. n]
  BY <1>2, <1>3 DEF Ordered
<1>5. Len(l.next) = n /\ DOMAIN l.next = 1 .. n
  BY <1>4
<1>6. {k \in DOMAIN l.next : k = l.head \/ \E j \in DOMAIN l.next \ l.freed : l.next[j] = k} = DOMAIN l.next \ l.freed
  <2>1. ASSUME NEW k \in 1 .. n
        PROVE  (k = l.head \/ \E j \in (1 .. n) \ l.freed : l.next[j] = k) <=> k \notin l.freed
    BY <1>1, <1>2, <1>3, OrderedLeads
  <2> QED BY <2>1, <1>5
<1> DEFINE Exact(k) ==
             LET blocked == \E j \in k .. Len(l.next) : Timer(e, j).timeout <= 0
                 due == IF blocked THEN 0 ELSE Cardinality({u \in seen : u % Timer(e, k).timeout = 0})
             IN  /\ l.fired[k] = IF ~ Timer(e, k).repeat /\ due > 1 THEN 1 ELSE due
                 /\ k \in l.freed <=> ~ Timer(e, k).repeat /\ due >= 1
<1>7. ASSUME NEW k \in DOMAIN l.next PROVE Exact(k)
  <2>1. Counted(e, l, k, seen)
    BY <1>3, <1>5
  <2>2. Blocked(e, k) <=> \E j \in k .. Len(l.next) : Timer(e, j).timeout <= 0
    BY <1>2, <1>5 DEF Blocked
  <2>3. PICK a : a = Due(e, k, seen)
    OBVIOUS
  <2>4. /\ l.fired[k] = IF ~ Timer(e, k).repeat /\ a > 1 THEN 1 ELSE a
        /\ k \in l.freed <=> ~ Timer(e, k).repeat /\ a >= 1
    BY <2>1, <2>3 DEF Counted, Once
  <2>5. CASE Blocked(e, k)
    <3>1. a = 0
      BY <2>3, <2>5 DEF Due
    <3> QED BY <2>2, <2>4, <2>5, <3>1
  <2>6. CASE ~Blocked(e, k)
    <3>1. a = Cardinality({u \in seen : u % Timer(e, k).timeout = 0})
      BY <2>3, <2>6 DEF Due
    <3>2. ~ \E j \in k .. Len(l.next) : Timer(e, j).timeout <= 0
      BY <2>2, <2>6
    <3> QED BY <2>4, <3>1, <3>2
  <2> HIDE DEF Exact
  <2> QED BY <2>5, <2>6
<1> USE DEF l
<1> QED BY <1>6, <1>7, Zenon

(* Before the event loop runs no second has passed. *)
ServerInv == PluginInv /\ TimerInv /\ (phase = "starting" => seen = {})

LEMMA TimerStart == ServerInv /\ moc_start_driver => TimerInv'
<1> SUFFICES ASSUME ServerInv, moc_start_driver PROVE TimerInv'
  OBVIOUS
<1>1. /\ phase = "starting" /\ res \in Entries /\ lists' = [lists EXCEPT ![res] = AddTimers(res)]
      /\ threads' \subseteq threads \cup {res} /\ seen' = seen
  BY DEF moc_start_driver, Loading
<1>2. seen = {} /\ res \notin threads /\ threads \subseteq Entries
  BY <1>1, ConfigFacts DEF ServerInv, PluginInv, ServerTyped, Unknown
<1>3. lists'[res] = AddTimers(res) /\ \A e \in Entries : e # res => lists'[e] = lists[e]
  BY <1>1 DEF ServerInv, PluginInv, ServerTyped
<1>4. ASSUME NEW e \in threads'
      PROVE  Ordered(e, lists'[e]) /\ \A k \in 1 .. Many(e) : Counted(e, lists'[e], k, seen')
  <2>1. CASE e = res
    <3>1. Ordered(res, AddTimers(res)) /\ \A k \in 1 .. Many(res) : Counted(res, AddTimers(res), k, {})
      BY <1>1, AddedOrdered
    <3> QED BY <2>1, <3>1, <1>1, <1>2, <1>3
  <2>2. CASE e # res
    <3>1. e \in threads /\ lists'[e] = lists[e]
      BY <2>2, <1>1, <1>2, <1>3
    <3> QED BY <3>1, <1>1 DEF ServerInv, TimerInv
  <2> QED BY <2>1, <2>2
<1> QED BY <1>4 DEF TimerInv

LEMMA TimerTime == ASSUME NEW d \in ClockSteps PROVE ServerInv /\ time_up(d) => TimerInv'
<1> SUFFICES ASSUME ServerInv, time_up(d) PROVE TimerInv'
  OBVIOUS
<1>1. PICK now : now = IF ctime = 0 THEN Epoch ELSE ctime + d
  OBVIOUS
<1>2. PICK up : up = upsec + (now - ctime)
  OBVIOUS
<1>3. /\ phase = "serving" /\ now > 0
      /\ seen' = IF now - ctime >= 1 THEN seen \cup {up} ELSE seen
      /\ lists' = [e \in Entries |->
                     IF now - ctime >= 1 /\ \E b \in DOMAIN chains : Contains(chains[b], e)
                       THEN RunTimers(e, up) ELSE lists[e]]
      /\ threads' = threads
  BY <1>1, <1>2 DEF time_up
<1>4. ctime \in Nat /\ upsec \in Nat /\ now \in Nat /\ seen \subseteq 1 .. upsec /\ threads \subseteq Entries
  BY <1>1, <1>3, ServerAssumption DEF ServerInv, PluginInv, ServerTyped, ServerAssumption
<1>5. ASSUME NEW e \in threads
      PROVE  Ordered(e, lists'[e]) /\ \A k \in 1 .. Many(e) : Counted(e, lists'[e], k, seen')
  <2>1. e \in Entries /\ Ordered(e, lists[e]) /\ \A k \in 1 .. Many(e) : Counted(e, lists[e], k, seen)
    BY <1>4 DEF ServerInv, TimerInv
  <2>2. CASE now - ctime >= 1
    <3>1. Linked(e)
      BY <2>1, <1>3 DEF ServerInv, PluginInv, Up
    <3>2. lists'[e] = RunTimers(e, up) /\ seen' = seen \cup {up}
      BY <2>1, <2>2, <3>1, <1>3 DEF Linked
    <3>3. up \in Nat /\ up > upsec /\ up \notin seen
      BY <2>2, <1>2, <1>4
    <3>4. IsFiniteSet(seen)
      <4>1. IsFiniteSet(1 .. upsec)
        BY <1>4, FS_Interval
      <4> QED BY <4>1, <1>4, FS_Subset
    <3>5. PICK V : V = seen
      OBVIOUS
    <3>6. /\ Ordered(e, RunTimers(e, up))
          /\ \A k \in 1 .. Many(e) : Counted(e, RunTimers(e, up), k, V \cup {up})
      BY <2>1, <3>3, <3>4, <3>5, RunExact
    <3> QED BY <3>2, <3>5, <3>6
  <2>3. CASE ~(now - ctime >= 1)
    <3>1. lists'[e] = lists[e] /\ seen' = seen
      BY <2>1, <2>3, <1>3
    <3> QED BY <2>1, <3>1
  <2> QED BY <2>2, <2>3
<1> QED BY <1>3, <1>5 DEF TimerInv

LEMMA TimerNext == ServerInv /\ [ServerNext]_serverVars => ServerInv'
<1> SUFFICES ASSUME ServerInv, [ServerNext]_serverVars PROVE ServerInv'
  OBVIOUS
<1>1. PluginInv'
  BY PluginNext DEF ServerInv
<1>2. ASSUME threads' \subseteq threads, UNCHANGED << lists, seen >> PROVE TimerInv'
  BY <1>2 DEF ServerInv, TimerInv
<1>3. CASE SkipPlugin \/ init_driver_fails
  BY <1>1, <1>2, <1>3 DEF ServerInv, SkipPlugin, init_driver_fails
<1>4. CASE moc_start_driver
  <2>1. phase' = phase /\ seen' = seen
    BY <1>4 DEF moc_start_driver
  <2> QED BY <1>1, <1>4, <2>1, TimerStart DEF ServerInv
<1>5. ASSUME NEW to \in tcp_init, net_go(to) PROVE ServerInv'
  <2>1. phase' # "starting" /\ threads' = threads /\ UNCHANGED << lists, seen >>
    BY <1>5 DEF net_go, tcp_init
  <2> QED BY <2>1, <1>1, <1>2 DEF ServerInv
<1>6. ASSUME NEW d \in ClockSteps, time_up(d) PROVE ServerInv'
  <2>1. phase' # "starting"
    BY <1>6 DEF time_up
  <2> QED BY <2>1, <1>1, <1>6, TimerTime DEF ServerInv
<1>7. CASE moc_stop
  <2>1. phase' # "starting" /\ threads' \subseteq threads /\ UNCHANGED << lists, seen >>
    BY <1>7 DEF moc_stop
  <2> QED BY <2>1, <1>1, <1>2 DEF ServerInv
<1>8. CASE UNCHANGED serverVars
  BY <1>1, <1>2, <1>8 DEF serverVars, ServerInv
<1> QED BY <1>3, <1>4, <1>5, <1>6, <1>7, <1>8 DEF ServerNext

(* Whatever timers the plugins add and however the wall clock moves, a     *)
(* timer runs exactly when it is due, and the list of a plugin has those   *)
(* that are not done (net.ch:39, 46).                                       *)
THEOREM TimersStayExact == ServerSpec => []TimersExact
<1>1. ServerInit => ServerInv
  BY PluginInit DEF ServerInit, ServerInv, TimerInv
<1>2. ServerInv /\ [ServerNext]_serverVars => ServerInv'
  BY TimerNext
<1>3. ServerInv => TimersExact
  BY TimerInvExact DEF ServerInv, PluginInv
<1> QED BY <1>1, <1>2, <1>3, PTL DEF ServerSpec

-----------------------------------------------------------------------------
(* Chat: what is sent to clients *)

(* Clients that join read what they are sent: base_msg_send() does not see *)
(* that a socket has no room.                                              *)
JoinersRead == Joiners \cap Slow = {}

(* A client that does not read sends either requests or what is none: its  *)
(* requests are answered by the plugin's thread, the others by the main    *)
(* thread.                                                                 *)
OneWriter == Strangers \cap Askers \cap Slow = {}

Byte == Nat \X Nat
MessageType ==
  [to : Clients, id : Nat, how : {"base_msg_send", "rep_send", "rep_send_error"},
   len : Nat \ {0}]

(* The plugin's thread writes to clients that ask, and pushes to those who *)
(* joined.                                                                 *)
Job == {m \in MessageType : m.to \in Askers /\ (m.how = "base_msg_send" => m.to \in Joiners)}

ChatTyped ==
  /\ chatters \subseteq Joiners /\ IsFiniteSet(chatters) /\ asked \in Nat
  /\ jobs \in Seq(Job) /\ c \in Nat
  /\ stream \in [Clients -> Seq(Byte)] /\ sent \in [Clients -> Seq(MessageType)]
  /\ room \in [Clients -> Nat]

(* Only a message to a slow client is ever written in part. *)
Position ==
  /\ jobs = << >> => c = 0
  /\ jobs # << >> => c < Head(jobs).len /\ (c # 0 => Head(jobs).to \in Slow)

(* f solves the equation of Written(s). *)
Reads(s, f) ==
  /\ f \in [0 .. Len(s) -> Seq(Byte)]
  /\ \A n \in 0 .. Len(s) : f[n] = IF n = 0 THEN << >> ELSE f[n - 1] \o Bytes(s[n], 0, s[n].len)

Begun(u) == IF jobs # << >> /\ Head(jobs).to = u THEN Bytes(Head(jobs), 0, c) ELSE << >>

WholeFor(u) ==
  \E f : Reads(sent[u], f) /\ (u \notin broken => stream[u] = f[Len(sent[u])] \o Begun(u))

ChatInv == ChatTyped /\ Position /\ \A u \in Clients : WholeFor(u)

-----------------------------------------------------------------------------
(* Sequences *)

LEMMA BytesTyped ==
  ASSUME NEW m \in MessageType, NEW a \in Nat, NEW k \in Nat
  PROVE  Bytes(m, a, k) \in Seq(Byte) /\ Len(Bytes(m, a, k)) = k
<1>1. m.id \in Nat
  BY DEF MessageType
<1>2. \A i \in 1 .. k : << m.id, a + i >> \in Byte
  BY <1>1 DEF Byte
<1>3. Bytes(m, a, k) \in [1 .. k -> Byte]
  BY <1>2 DEF Bytes
<1> HIDE DEF Byte
<1> QED BY <1>3

LEMMA NoBytes == ASSUME NEW m, NEW a PROVE Bytes(m, a, 0) = << >>
  BY DEF Bytes

LEMMA ConcatTyped ==
  ASSUME NEW S, NEW s \in Seq(S), NEW t \in Seq(S)
  PROVE  s \o t \in Seq(S)
  OBVIOUS

LEMMA ConcatNothing ==
  ASSUME NEW S, NEW s \in Seq(S)
  PROVE  s \o << >> = s
  BY ConcatEmptySeq

(* The next part of a message follows on what was written of it. *)
LEMMA BytesJoin ==
  ASSUME NEW m \in MessageType, NEW a \in Nat, NEW k \in Nat
  PROVE  Bytes(m, 0, a) \o Bytes(m, a, k) = Bytes(m, 0, a + k)
<1> DEFINE s == Bytes(m, 0, a)
           t == Bytes(m, a, k)
           r == s \o t
<1>1. s \in Seq(Byte) /\ Len(s) = a /\ t \in Seq(Byte) /\ Len(t) = k
  BY BytesTyped
<1>2. /\ \A i \in 1 .. a : s[i] = << m.id, 0 + i >>
      /\ \A i \in 1 .. k : t[i] = << m.id, a + i >>
  BY DEF Bytes
<1> HIDE DEF s, t
<1>3. r \in Seq(Byte) /\ Len(r) = a + k
  BY <1>1, ConcatProperties
<1>4. \A i \in 1 .. (a + k) : r[i] = IF i <= a THEN s[i] ELSE t[i - a]
  BY <1>1, ConcatProperties
<1> HIDE DEF r
<1>5. ASSUME NEW i \in 1 .. (a + k) PROVE r[i] = << m.id, 0 + i >>
  <2>1. CASE i <= a
    BY <2>1, <1>2, <1>4
  <2>2. CASE ~(i <= a)
    <3>1. i - a \in 1 .. k /\ a + (i - a) = 0 + i
      BY <2>2
    <3> QED BY <2>2, <3>1, <1>2, <1>4
  <2> QED BY <2>1, <2>2
<1>6. r = [i \in 1 .. (a + k) |-> r[i]]
  BY <1>3
<1>7. r = Bytes(m, 0, a + k)
  BY <1>5, <1>6 DEF Bytes
<1> QED BY <1>7 DEF r, s, t

-----------------------------------------------------------------------------
(* Written() *)

LEMMA ReadsUnique ==
  ASSUME NEW s \in Seq(MessageType), NEW f, NEW g, Reads(s, f),
         g = [n \in 0 .. Len(s) |-> IF n = 0 THEN << >> ELSE g[n - 1] \o Bytes(s[n], 0, s[n].len)]
  PROVE  f = g
<1> DEFINE T == {n \in 0 .. Len(s) : g[n] # f[n]}
<1>0. Len(s) \in Nat
  OBVIOUS
<1>1. ASSUME NEW n \in 0 .. Len(s)
      PROVE  /\ f[n] = IF n = 0 THEN << >> ELSE f[n - 1] \o Bytes(s[n], 0, s[n].len)
             /\ g[n] = IF n = 0 THEN << >> ELSE g[n - 1] \o Bytes(s[n], 0, s[n].len)
  BY DEF Reads
<1>2. T = {}
  <2> SUFFICES ASSUME T # {} PROVE FALSE
    OBVIOUS
  <2>1. T \subseteq Nat
    BY <1>0
  <2>2. PICK n \in T : \A j \in T : n <= j
    <3> HIDE DEF T
    <3> QED BY LeastElement, <2>1
  <2>3. n \in 0 .. Len(s) /\ g[n] # f[n]
    BY <2>2
  <2>4. n # 0
    BY <1>1, <2>3
  <2>5. n - 1 \in 0 .. Len(s) /\ ~(n <= n - 1)
    BY <1>0, <2>3, <2>4
  <2>6. g[n - 1] = f[n - 1]
    BY <2>2, <2>5
  <2> QED BY <1>1, <2>3, <2>4, <2>6
<1>3. DOMAIN f = 0 .. Len(s) /\ f = [n \in 0 .. Len(s) |-> f[n]]
  BY DEF Reads
<1>4. g = [n \in 0 .. Len(s) |-> g[n]]
  OBVIOUS
<1>5. \A n \in 0 .. Len(s) : g[n] = f[n]
  BY <1>2
<1> QED BY <1>3, <1>4, <1>5

LEMMA WrittenIs ==
  ASSUME NEW s \in Seq(MessageType), NEW f, Reads(s, f)
  PROVE  Written(s) = f[Len(s)]
<1> DEFINE Extend(g) == [n \in 0 .. Len(s) |-> IF n = 0 THEN << >>
                                             ELSE g[n - 1] \o Bytes(s[n], 0, s[n].len)]
           h == CHOOSE g : g = Extend(g)
<1>1. f = Extend(f)
  <2>1. f = [n \in 0 .. Len(s) |-> f[n]]
    BY DEF Reads
  <2>2. \A n \in 0 .. Len(s) : f[n] = IF n = 0 THEN << >> ELSE f[n - 1] \o Bytes(s[n], 0, s[n].len)
    BY DEF Reads
  <2> QED BY <2>1, <2>2
<1>2. h = Extend(h)
  <2> HIDE DEF Extend
  <2> QED BY <1>1
<1>3. Written(s) = h[Len(s)]
  BY DEF Written
<1> HIDE DEF h
<1>4. f = h
  BY <1>2, ReadsUnique
<1> QED BY <1>3, <1>4

(* One more message *)
Extended(s, f, m) ==
  [n \in 0 .. Len(s) + 1 |-> IF n <= Len(s) THEN f[n] ELSE f[Len(s)] \o Bytes(m, 0, m.len)]

LEMMA ReadsAppend ==
  ASSUME NEW s \in Seq(MessageType), NEW f, Reads(s, f), NEW m \in MessageType
  PROVE  Reads(Append(s, m), Extended(s, f, m))
<1> DEFINE L == Len(s)
           r == Append(s, m)
           g == Extended(s, f, m)
<1>1. L \in Nat /\ Len(r) = L + 1 /\ r[L + 1] = m /\ \A i \in 1 .. L : r[i] = s[i]
  BY AppendProperties
<1>2. m.len \in Nat
  BY DEF MessageType
<1>3. /\ f \in [0 .. L -> Seq(Byte)]
      /\ \A n \in 0 .. L : f[n] = IF n = 0 THEN << >> ELSE f[n - 1] \o Bytes(s[n], 0, s[n].len)
  BY DEF Reads
<1>4. f[L] \o Bytes(m, 0, m.len) \in Seq(Byte)
  <2>1. f[L] \in Seq(Byte)
    BY <1>1, <1>3
  <2>2. Bytes(m, 0, m.len) \in Seq(Byte)
    BY <1>2, BytesTyped
  <2> QED BY <2>1, <2>2, ConcatTyped
<1>5. \A n \in 0 .. L + 1 : g[n] = IF n <= L THEN f[n] ELSE f[L] \o Bytes(m, 0, m.len)
  BY DEF Extended
<1>6. g \in [0 .. L + 1 -> Seq(Byte)]
  <2>1. \A n \in 0 .. L + 1 : (IF n <= L THEN f[n] ELSE f[L] \o Bytes(m, 0, m.len)) \in Seq(Byte)
    BY <1>1, <1>3, <1>4
  <2> QED BY <2>1 DEF Extended
<1> HIDE DEF g, r, L
<1>7. ASSUME NEW n \in 0 .. L + 1
      PROVE  g[n] = IF n = 0 THEN << >> ELSE g[n - 1] \o Bytes(r[n], 0, r[n].len)
  <2>1. CASE n = 0
    <3>1. 0 \in 0 .. L /\ 0 \in 0 .. L + 1 /\ 0 <= L
      BY <1>1
    <3>2. g[0] = f[0]
      BY <3>1, <1>5
    <3>3. f[0] = << >>
      BY <3>1, <1>3
    <3> QED BY <2>1, <3>2, <3>3
  <2>2. CASE n # 0 /\ n <= L
    <3>1. n \in 0 .. L /\ n - 1 \in 0 .. L + 1 /\ n - 1 <= L /\ n \in 1 .. L
      BY <2>2, <1>1
    <3>2. g[n] = f[n] /\ g[n - 1] = f[n - 1] /\ r[n] = s[n]
      BY <2>2, <3>1, <1>1, <1>5
    <3>3. f[n] = f[n - 1] \o Bytes(s[n], 0, s[n].len)
      BY <2>2, <3>1, <1>3
    <3> QED BY <2>2, <3>2, <3>3
  <2>3. CASE ~(n <= L)
    <3>1. n = L + 1 /\ n # 0 /\ n - 1 = L /\ L \in 0 .. L + 1
      BY <2>3, <1>1
    <3>2. g[n] = f[L] \o Bytes(m, 0, m.len)
      BY <2>3, <1>5
    <3>3. g[L] = f[L]
      BY <3>1, <1>1, <1>5
    <3>4. r[n] = m
      BY <3>1, <1>1
    <3> QED BY <3>1, <3>2, <3>3, <3>4
  <2> QED BY <2>1, <2>2, <2>3
<1>8. Reads(r, g)
  BY <1>1, <1>6, <1>7 DEF Reads
<1> QED BY <1>8 DEF r, g

LEMMA ExtendedLast ==
  ASSUME NEW s \in Seq(MessageType), NEW f, NEW m \in MessageType
  PROVE  Extended(s, f, m)[Len(Append(s, m))] = f[Len(s)] \o Bytes(m, 0, m.len)
<1>1. Len(Append(s, m)) = Len(s) + 1 /\ Len(s) \in Nat
  BY AppendProperties
<1> QED BY <1>1 DEF Extended

-----------------------------------------------------------------------------
(* The messages of a request *)

LEMMA SetToSeqTyped ==
  ASSUME NEW S, IsFiniteSet(S)
  PROVE  SetToSeq(S) \in Seq(S)
<1> DEFINE n == Cardinality(S)
<1>1. n \in Nat /\ ExistsBijection(1 .. n, S)
  BY FS_CardinalityType
<1>2. \E f \in [1 .. n -> S] : IsInjective(f)
  BY <1>1 DEF ExistsBijection, Bijection, Injection
<1>3. SetToSeq(S) \in [1 .. n -> S]
  <2> HIDE DEF n
  <2>1. (CHOOSE f \in [1 .. n -> S] : IsInjective(f)) \in [1 .. n -> S]
    BY <1>2
  <2> QED BY <2>1 DEF SetToSeq, n
<1> HIDE DEF n
<1> QED BY <1>1, <1>3

LEMMA PushIsJob == ASSUME ChatTyped, NEW u \in Joiners PROVE base_msg_new(u) \in Job
  BY ChatAssumption DEF ChatTyped, base_msg_new, Message, Job, MessageType

LEMMA ReplyIsJob ==
  ASSUME ChatTyped, NEW u \in Askers, NEW data, NEW r \in reply_trigger(u, data)
  PROVE  r \in Job
<1>1. r = tcp_reply_mini(u) \/ r = tcp_reply_long(u)
  BY DEF reply_trigger
<1> QED BY <1>1, ChatAssumption DEF ChatTyped, tcp_reply_mini, tcp_reply_long, Message, Job, MessageType

LEMMA PushesTyped ==
  ASSUME ChatTyped, NEW about
  PROVE  Pushes(about, chatters) \in Seq(Job)
<1> DEFINE others == SetToSeq(chatters \ {about})
<1>1. others \in Seq(chatters \ {about})
  BY FS_RemoveElement, SetToSeqTyped DEF ChatTyped
<1> HIDE DEF others
<1>2. PICK n \in Nat : others \in [1 .. n -> chatters \ {about}]
  BY <1>1
<1>3. \A i \in 1 .. n : others[i] \in Joiners
  BY <1>2 DEF ChatTyped
<1>4. \A i \in 1 .. n : base_msg_new(others[i]) \in Job
  BY <1>3, PushIsJob
<1>5. [i \in 1 .. n |-> base_msg_new(others[i])] \in [1 .. n -> Job]
  BY <1>4
<1>6. DOMAIN others = 1 .. n
  BY <1>2
<1>7. Pushes(about, chatters) = [i \in 1 .. n |-> base_msg_new(others[i])]
  BY <1>6 DEF Pushes, others
<1> QED BY <1>5, <1>7

-----------------------------------------------------------------------------
(* One client's stream in a step *)

(* A message of which nothing is written yet adds nothing. *)
LEMMA BegunFresh == ASSUME NEW u PROVE c = 0 => Begun(u) = << >>
  BY NoBytes DEF Begun

FreshNothing == \A u \in Clients : c = 0 => Begun(u) = << >>
LEMMA FreshNow == FreshNothing
  BY BegunFresh DEF FreshNothing
LEMMA FreshNext == FreshNothing'
  BY FreshNow, PTL

(* A step that leaves alone what a client got and is about to get *)
LEMMA QuietFor ==
  ASSUME NEW u \in Clients, WholeFor(u), sent'[u] = sent[u], stream'[u] = stream[u],
         broken \subseteq broken', u \in broken' \/ Begun(u)' = Begun(u)
  PROVE  WholeFor(u)'
<1>1. PICK f : Reads(sent[u], f) /\ (u \notin broken => stream[u] = f[Len(sent[u])] \o Begun(u))
  BY DEF WholeFor
<1>2. Reads(sent'[u], f) /\ (u \notin broken' => stream'[u] = f[Len(sent'[u])] \o Begun(u)')
  BY <1>1
<1>3. \E g : Reads(sent'[u], g) /\ (u \notin broken' => stream'[u] = g[Len(sent'[u])] \o Begun(u)')
  BY <1>2
<1> QED BY <1>3 DEF WholeFor

(* A step that reports a message as sent, with its last k bytes unless the *)
(* connection is broken                                                    *)
LEMMA SentTo ==
  ASSUME ChatTyped, NEW u \in Clients, WholeFor(u), NEW m \in MessageType,
         sent'[u] = Append(sent[u], m), broken' = broken, Begun(u)' = << >>,
         NEW a \in Nat, NEW k \in Nat, a + k = m.len,
         u \notin broken => stream'[u] = stream[u] \o Bytes(m, a, k) /\ Begun(u) = Bytes(m, 0, a)
  PROVE  WholeFor(u)'
<1> DEFINE s == sent[u]
<1>1. PICK f : Reads(s, f) /\ (u \notin broken => stream[u] = f[Len(s)] \o Begun(u))
  BY DEF WholeFor
<1> DEFINE g == Extended(s, f, m)
           F == f[Len(s)]
<1>2. s \in Seq(MessageType)
  BY DEF ChatTyped
<1>3. F \in Seq(Byte)
  <2>1. Len(s) \in 0 .. Len(s)
    BY <1>2
  <2> QED BY <2>1, <1>1 DEF Reads
<1> HIDE DEF s
<1>4. Reads(Append(s, m), g)
  BY <1>1, <1>2, ReadsAppend
<1>5. g[Len(Append(s, m))] = F \o Bytes(m, 0, m.len)
  BY <1>2, ExtendedLast
<1> HIDE DEF g, F
<1>6. F \o Bytes(m, 0, m.len) \in Seq(Byte)
  <2>1. m.len \in Nat
    BY DEF MessageType
  <2>2. Bytes(m, 0, m.len) \in Seq(Byte)
    BY <2>1, BytesTyped
  <2> QED BY <2>2, <1>3, ConcatTyped
<1>7. ASSUME u \notin broken PROVE stream'[u] = g[Len(Append(s, m))] \o Begun(u)'
  <2>1. stream'[u] = (F \o Bytes(m, 0, a)) \o Bytes(m, a, k)
    BY <1>1, <1>7 DEF F
  <2>2. Bytes(m, 0, a) \in Seq(Byte) /\ Bytes(m, a, k) \in Seq(Byte)
    BY BytesTyped
  <2>3. (F \o Bytes(m, 0, a)) \o Bytes(m, a, k) = F \o (Bytes(m, 0, a) \o Bytes(m, a, k))
    <3>1. PICK x \in Seq(Byte), y \in Seq(Byte) : x = Bytes(m, 0, a) /\ y = Bytes(m, a, k)
      BY <2>2
    <3>2. PICK z \in Seq(Byte) : z = F
      BY <1>3
    <3>3. (z \o x) \o y = z \o (x \o y)
      BY ONLY ConcatAssociative, z \in Seq(Byte), x \in Seq(Byte), y \in Seq(Byte)
    <3> QED BY <3>1, <3>2, <3>3
  <2>4. Bytes(m, 0, a) \o Bytes(m, a, k) = Bytes(m, 0, m.len)
    BY BytesJoin
  <2>5. (F \o Bytes(m, 0, m.len)) \o << >> = F \o Bytes(m, 0, m.len)
    BY <1>6, ConcatNothing
  <2> QED BY <2>1, <2>3, <2>4, <2>5, <1>5
<1>8. Reads(sent'[u], g) /\ (u \notin broken' => stream'[u] = g[Len(sent'[u])] \o Begun(u)')
  BY <1>4, <1>7 DEF s
<1>9. \E e : Reads(sent'[u], e) /\ (u \notin broken' => stream'[u] = e[Len(sent'[u])] \o Begun(u)')
  BY <1>8
<1> QED BY <1>9 DEF WholeFor

(* A step that writes k bytes more of a message and does not end it *)
LEMMA WrittenTo ==
  ASSUME ChatTyped, NEW u \in Clients, WholeFor(u), NEW m \in MessageType,
         sent'[u] = sent[u], broken' = broken, u \notin broken,
         NEW a \in Nat, NEW k \in Nat,
         stream'[u] = stream[u] \o Bytes(m, a, k),
         Begun(u) = Bytes(m, 0, a), Begun(u)' = Bytes(m, 0, a + k)
  PROVE  WholeFor(u)'
<1> DEFINE s == sent[u]
<1>1. PICK f : Reads(s, f) /\ (u \notin broken => stream[u] = f[Len(s)] \o Begun(u))
  BY DEF WholeFor
<1> DEFINE F == f[Len(s)]
<1>2. s \in Seq(MessageType)
  BY DEF ChatTyped
<1>3. F \in Seq(Byte)
  <2>1. Len(s) \in 0 .. Len(s)
    BY <1>2
  <2> QED BY <2>1, <1>1 DEF Reads
<1> HIDE DEF s, F
<1>4. stream'[u] = (F \o Bytes(m, 0, a)) \o Bytes(m, a, k)
  BY <1>1 DEF F
<1>5. Bytes(m, 0, a) \in Seq(Byte) /\ Bytes(m, a, k) \in Seq(Byte)
  BY BytesTyped
<1>6. (F \o Bytes(m, 0, a)) \o Bytes(m, a, k) = F \o (Bytes(m, 0, a) \o Bytes(m, a, k))
  BY <1>5, <1>3, ConcatAssociative
<1>7. Bytes(m, 0, a) \o Bytes(m, a, k) = Bytes(m, 0, a + k)
  BY BytesJoin
<1>8. stream'[u] = F \o Begun(u)'
  BY <1>4, <1>6, <1>7
<1>9. Reads(sent'[u], f) /\ (u \notin broken' => stream'[u] = f[Len(sent'[u])] \o Begun(u)')
  BY <1>1, <1>8 DEF s, F
<1>10. \E e : Reads(sent'[u], e) /\ (u \notin broken' => stream'[u] = e[Len(sent'[u])] \o Begun(u)')
  BY <1>9
<1> QED BY <1>10 DEF WholeFor

-----------------------------------------------------------------------------
(* The steps *)

LEMMA JobHead ==
  ASSUME ChatTyped, jobs # << >>
  PROVE  Head(jobs) \in Job
  BY DEF ChatTyped

LEMMA JobTail ==
  ASSUME ChatTyped, jobs # << >>
  PROVE  Tail(jobs) \in Seq(Job)
  BY DEF ChatTyped

(* What begins with a message of which nothing is written is in place. *)
LEMMA PositionFresh == ASSUME jobs \in Seq(Job), c = 0 PROVE Position
<1>1. ASSUME jobs # << >> PROVE Head(jobs) \in Job
  BY <1>1
<1> QED BY <1>1 DEF Position, Job, MessageType

StartsInPlace == jobs \in Seq(Job) /\ c = 0 => Position
LEMMA PlaceNow == StartsInPlace
  BY PositionFresh DEF StartsInPlace
LEMMA PlaceNext == StartsInPlace'
  BY PlaceNow, PTL

LEMMA AnswerKeeps ==
  ASSUME ChatInv, NEW u \in Clients, NEW pushes \in Seq(Job), NEW async \in Seq(Job), NEW data,
         Answer(u, pushes, async, data), chatters' \subseteq Joiners, IsFiniteSet(chatters')
  PROVE  ChatInv'
<1>1. /\ u \in Askers /\ jobs = << >> /\ asked' = asked + 1 /\ c' = 0
      /\ stream' = stream /\ room' = room /\ broken' = broken /\ sent' = sent
  BY DEF Answer
<1>2. ChatTyped /\ Position /\ c = 0
  BY <1>1 DEF ChatInv, Position
<1>3. jobs' \in Seq(Job)
  <2>1. CASE jobs' = pushes \o async
    BY <2>1
  <2>2. CASE \E r \in reply_trigger(u, data) : jobs' = Append(pushes, r)
    <3>1. PICK r \in reply_trigger(u, data) : jobs' = Append(pushes, r)
      BY <2>2
    <3>2. r \in Job
      BY <1>1, <1>2, ReplyIsJob
    <3> QED BY <3>1, <3>2
  <2> QED BY <2>1, <2>2 DEF Answer
<1>4. ChatTyped'
  BY <1>1, <1>2, <1>3 DEF ChatTyped
<1>5. Position'
  BY <1>1, <1>3, PlaceNext DEF StartsInPlace
<1>6. ASSUME NEW v \in Clients PROVE WholeFor(v)'
  <2>1. Begun(v) = << >> /\ Begun(v)' = << >>
    BY <1>1, <1>2, FreshNow, FreshNext DEF FreshNothing
  <2> QED BY <2>1, <1>1, QuietFor DEF ChatInv
<1> QED BY <1>4, <1>5, <1>6 DEF ChatInv

LEMMA CommandKeeps ==
  ASSUME ChatInv, NEW u \in Clients,
         \/ cmd_join(u) \/ cmd_bcst(u) \/ cmd_pm(u) \/ stats(u) \/ base_cmd(u)
         \/ \E who \in Clients : cmd_quit(u, who)
  PROVE  ChatInv'
<1>1. ChatTyped /\ chatters \subseteq Joiners /\ IsFiniteSet(chatters)
  BY DEF ChatInv, ChatTyped
<1>2. << >> \in Seq(Job)
  OBVIOUS
<1>3. CASE cmd_join(u)
  <2>1. u \in Joiners /\ Answer(u, Pushes(u, chatters), << >>, FALSE) /\ chatters' = chatters \cup {u}
    BY <1>3 DEF cmd_join, Process
  <2>2. chatters' \subseteq Joiners
    BY <1>1, <2>1
  <2>3. IsFiniteSet(chatters')
    BY <1>1, <2>1, FS_AddElement
  <2>4. Pushes(u, chatters) \in Seq(Job)
    BY <1>1, PushesTyped
  <2> QED BY <2>1, <2>2, <2>3, <2>4, <1>2, AnswerKeeps
<1>4. CASE cmd_bcst(u)
  <2>1. Answer(u, Pushes(u, chatters), << >>, FALSE) /\ chatters' = chatters
    BY <1>4 DEF cmd_bcst, Process
  <2>2. Pushes(u, chatters) \in Seq(Job)
    BY <1>1, PushesTyped
  <2>3. chatters' \subseteq Joiners /\ IsFiniteSet(chatters')
    BY <1>1, <2>1
  <2> QED BY <2>1, <2>2, <2>3, <1>2, AnswerKeeps
<1>5. CASE cmd_pm(u) \/ stats(u)
  <2>1. PICK data : Answer(u, << >>, << >>, data) /\ chatters' = chatters
    BY <1>5 DEF cmd_pm, stats, Process
  <2>2. chatters' \subseteq Joiners /\ IsFiniteSet(chatters')
    BY <1>1, <2>1
  <2> QED BY <2>1, <2>2, <1>2, AnswerKeeps
<1>6. CASE base_cmd(u)
  <2>1. u \in Joiners /\ Answer(u, << >>, base_msg_touser(u), TRUE) /\ chatters' = chatters
    BY <1>6 DEF base_cmd
  <2>2. base_msg_touser(u) \in Seq(Job)
    <3>1. base_msg_new(u) \in Job
      BY <1>1, <2>1, PushIsJob
    <3> QED BY <3>1 DEF base_msg_touser
  <2>3. chatters' \subseteq Joiners /\ IsFiniteSet(chatters')
    BY <1>1, <2>1
  <2> QED BY <2>1, <2>2, <2>3, <1>2, AnswerKeeps
<1>7. ASSUME NEW who \in Clients, cmd_quit(u, who) PROVE ChatInv'
  <2>1. Answer(u, Pushes(who, chatters), << >>, FALSE) /\ chatters' = chatters
    BY <1>7 DEF cmd_quit, Process
  <2>2. Pushes(who, chatters) \in Seq(Job)
    BY <1>1, PushesTyped
  <2>3. chatters' \subseteq Joiners /\ IsFiniteSet(chatters')
    BY <1>1, <2>1
  <2> QED BY <2>1, <2>2, <2>3, <1>2, AnswerKeeps
<1> QED BY <1>3, <1>4, <1>5, <1>6, <1>7

(* What send() takes is part of what it is given, all of it for a client   *)
(* that reads.                                                             *)
LEMMA TakesPart ==
  ASSUME ChatTyped, NEW u \in Clients, NEW n \in Nat \ {0}, NEW k \in Takes(u, n)
  PROVE  /\ k \in 1 .. n /\ (u \notin Slow => k = n)
         /\ u \in Slow => room[u] - k \in Nat
<1>1. room[u] \in Nat
  BY DEF ChatTyped
<1> QED BY <1>1 DEF Takes

LEMMA SendSomeKeeps == ASSUME ChatInv, SendSome PROVE ChatInv'
<1>0. ChatTyped /\ Position
  BY DEF ChatInv
<1>m. PICK m : m = Head(jobs)
  OBVIOUS
<1>v. PICK v : v = m.to
  OBVIOUS
<1>1. jobs # << >> /\ v \notin broken /\ chatters' = chatters /\ asked' = asked /\ broken' = broken
  BY <1>m, <1>v DEF SendSome
<1>2. m \in Job /\ Tail(jobs) \in Seq(Job)
  BY <1>m, <1>0, <1>1, JobHead, JobTail
<1>3. c \in Nat /\ c < m.len /\ (c # 0 => v \in Slow)
  BY <1>m, <1>v, <1>0, <1>1 DEF ChatTyped, Position
<1>4. PICK k \in Takes(v, m.len - c) :
        /\ stream' = [stream EXCEPT ![v] = @ \o Bytes(m, c, k)]
        /\ room' = IF v \in Slow THEN [room EXCEPT ![v] = @ - k] ELSE room
        /\ IF c + k = m.len THEN Finish(m, TRUE) ELSE c' = c + k /\ UNCHANGED << jobs, sent >>
  BY <1>m, <1>v DEF SendSome
<1>5. v \in Clients /\ m \in MessageType /\ m.len \in Nat \ {0}
  BY <1>v, <1>2 DEF Job, MessageType
<1>6. /\ k \in 1 .. (m.len - c) /\ (v \notin Slow => k = m.len - c)
      /\ v \in Slow => room[v] - k \in Nat
  <2>1. m.len - c \in Nat \ {0}
    BY <1>3, <1>5
  <2> QED BY <2>1, <1>0, <1>4, <1>5, TakesPart
<1>7. room' \in [Clients -> Nat]
  BY <1>0, <1>4, <1>6 DEF ChatTyped
<1>8. Bytes(m, c, k) \in Seq(Byte)
  BY <1>3, <1>5, <1>6, BytesTyped
<1>9. stream' \in [Clients -> Seq(Byte)]
  <2>1. stream[v] \in Seq(Byte)
    BY <1>0, <1>5 DEF ChatTyped
  <2>2. stream[v] \o Bytes(m, c, k) \in Seq(Byte)
    BY <2>1, <1>8, ConcatTyped
  <2> QED BY <2>2, <1>0, <1>4 DEF ChatTyped
<1>10. stream'[v] = stream[v] \o Bytes(m, c, k) /\ \A u \in Clients \ {v} : stream'[u] = stream[u]
  BY <1>0, <1>4, <1>5 DEF ChatTyped
<1>11. Begun(v) = Bytes(m, 0, c) /\ \A u \in Clients \ {v} : Begun(u) = << >>
  BY <1>m, <1>v, <1>1 DEF Begun
<1>12. CASE c + k = m.len
  <2>1. jobs' = Tail(jobs) /\ c' = 0 /\ sent' = [sent EXCEPT ![v] = Append(@, m)]
    BY <1>v, <1>4, <1>12 DEF Finish
  <2>2. sent' \in [Clients -> Seq(MessageType)]
    <3>1. sent[v] \in Seq(MessageType)
      BY <1>0, <1>5 DEF ChatTyped
    <3>2. Append(sent[v], m) \in Seq(MessageType)
      BY <3>1, <1>5
    <3> QED BY <3>2, <2>1, <1>0 DEF ChatTyped
  <2>3. ChatTyped'
    BY <2>1, <2>2, <1>0, <1>1, <1>2, <1>7, <1>9 DEF ChatTyped
  <2>4. Position'
    BY <2>1, <1>2, PlaceNext DEF StartsInPlace
  <2>5. \A u \in Clients : Begun(u)' = << >>
    BY <2>1, FreshNext DEF FreshNothing
  <2>6. WholeFor(v)'
    <3>1. sent'[v] = Append(sent[v], m)
      BY <2>1, <1>0, <1>5 DEF ChatTyped
    <3>2. WholeFor(v)
      BY <1>5 DEF ChatInv
    <3>3. k \in Nat
      BY <1>3, <1>5, <1>6
    <3> QED BY <3>1, <3>2, <3>3, <2>5, <1>0, <1>1, <1>3, <1>5, <1>10, <1>11, <1>12, SentTo
  <2>7. ASSUME NEW u \in Clients, u # v PROVE WholeFor(u)'
    <3>1. sent'[u] = sent[u]
      BY <2>1, <2>7, <1>0 DEF ChatTyped
    <3>2. Begun(u)' = Begun(u) /\ stream'[u] = stream[u]
      BY <2>5, <2>7, <1>10, <1>11
    <3>3. WholeFor(u)
      BY DEF ChatInv
    <3> QED BY <3>1, <3>2, <3>3, <1>1, QuietFor
  <2> QED BY <2>3, <2>4, <2>6, <2>7 DEF ChatInv
<1>13. CASE c + k # m.len
  <2>1. c' = c + k /\ jobs' = jobs /\ sent' = sent
    BY <1>4, <1>13
  <2>2. c + k \in Nat /\ c + k < m.len /\ v \in Slow /\ k \in Nat
    BY <1>3, <1>5, <1>6, <1>13
  <2>3. ChatTyped'
    BY <2>1, <2>2, <1>0, <1>1, <1>7, <1>9 DEF ChatTyped
  <2>4. Position'
    BY <1>m, <1>v, <2>1, <2>2, <1>1 DEF Position
  <2>5. Begun(v)' = Bytes(m, 0, c + k) /\ \A u \in Clients \ {v} : Begun(u)' = << >>
    BY <1>m, <1>v, <2>1, <1>1 DEF Begun
  <2>6. WholeFor(v)'
    <3>1. WholeFor(v)
      BY <1>5 DEF ChatInv
    <3>2. sent'[v] = sent[v]
      BY <2>1
    <3> QED BY <3>1, <3>2, <2>2, <2>5, <1>0, <1>1, <1>3, <1>5, <1>10, <1>11, WrittenTo
  <2>7. ASSUME NEW u \in Clients, u # v PROVE WholeFor(u)'
    <3>1. sent'[u] = sent[u]
      BY <2>1
    <3>2. Begun(u)' = Begun(u) /\ stream'[u] = stream[u]
      BY <2>5, <2>7, <1>10, <1>11
    <3>3. WholeFor(u)
      BY DEF ChatInv
    <3> QED BY <3>1, <3>2, <3>3, <1>1, QuietFor
  <2> QED BY <2>3, <2>4, <2>6, <2>7 DEF ChatInv
<1> QED BY <1>12, <1>13

(* A reply that fails is given up; its connection is broken. *)
LEMMA RepSendKeeps == ASSUME ChatInv, rep_send PROVE ChatInv'
<1> DEFINE m == Head(jobs)
<1>0. ChatTyped /\ Position
  BY DEF ChatInv
<1>1. /\ jobs # << >> /\ m.to \in broken /\ jobs' = Tail(jobs) /\ c' = 0 /\ sent' = sent
      /\ chatters' = chatters /\ asked' = asked /\ stream' = stream /\ room' = room /\ broken' = broken
  BY DEF rep_send, Finish
<1>2. Tail(jobs) \in Seq(Job)
  BY <1>0, <1>1, JobTail
<1>3. ChatTyped'
  BY <1>0, <1>1, <1>2 DEF ChatTyped
<1>4. Position'
  BY <1>1, <1>2, PlaceNext DEF StartsInPlace
<1>5. ASSUME NEW u \in Clients PROVE WholeFor(u)'
  <2>1. Begun(u)' = << >>
    BY <1>1, FreshNext DEF FreshNothing
  <2>2. u \in broken' \/ Begun(u) = << >>
    BY <1>1 DEF Begun
  <2>3. WholeFor(u)
    BY DEF ChatInv
  <2>4. sent'[u] = sent[u] /\ stream'[u] = stream[u] /\ broken \subseteq broken'
    BY <1>1
  <2> QED BY <2>1, <2>2, <2>3, <2>4, QuietFor
<1> QED BY <1>3, <1>4, <1>5 DEF ChatInv

(* A push that fails is reported as sent.  Since its client reads, the     *)
(* connection must be broken.                                              *)
LEMMA BaseMsgSendKeeps == ASSUME ChatInv, JoinersRead, base_msg_send PROVE ChatInv'
<1>0. ChatTyped /\ Position
  BY DEF ChatInv
<1>m. PICK m : m = Head(jobs)
  OBVIOUS
<1>v. PICK v : v = m.to
  OBVIOUS
<1>1. /\ jobs # << >> /\ m.how = "base_msg_send" /\ (v \in broken \/ Takes(v, m.len - c) = {})
      /\ IF c = 0 THEN Finish(m, TRUE) ELSE c' = c - 1 /\ UNCHANGED << jobs, sent >>
      /\ chatters' = chatters /\ asked' = asked /\ stream' = stream /\ room' = room /\ broken' = broken
  BY <1>m, <1>v DEF base_msg_send
<1>2. m \in Job /\ Tail(jobs) \in Seq(Job)
  BY <1>m, <1>0, <1>1, JobHead, JobTail
<1>3. v \in Clients /\ m \in MessageType /\ m.len \in Nat /\ v \notin Slow
  BY <1>v, <1>1, <1>2 DEF Job, MessageType, JoinersRead
<1>4. v \in broken
  BY <1>1, <1>3 DEF Takes
<1>5. c = 0
  BY <1>m, <1>v, <1>0, <1>1, <1>3 DEF Position
<1>6. jobs' = Tail(jobs) /\ c' = 0 /\ sent' = [sent EXCEPT ![v] = Append(@, m)]
  BY <1>v, <1>1, <1>5 DEF Finish
<1>7. sent' \in [Clients -> Seq(MessageType)]
  <2>1. sent[v] \in Seq(MessageType)
    BY <1>0, <1>3 DEF ChatTyped
  <2>2. Append(sent[v], m) \in Seq(MessageType)
    BY <2>1, <1>3
  <2> QED BY <2>2, <1>6, <1>0 DEF ChatTyped
<1>8. ChatTyped'
  BY <1>0, <1>1, <1>2, <1>6, <1>7 DEF ChatTyped
<1>9. Position'
  BY <1>2, <1>6, PlaceNext DEF StartsInPlace
<1>10. ASSUME NEW u \in Clients PROVE Begun(u)' = << >> /\ Begun(u) = << >>
  BY <1>5, <1>6, FreshNow, FreshNext DEF FreshNothing
<1>11. WholeFor(v)'
  <2>1. sent'[v] = Append(sent[v], m)
    BY <1>6, <1>0, <1>3 DEF ChatTyped
  <2>2. WholeFor(v) /\ 0 \in Nat /\ 0 + m.len = m.len
    BY <1>3 DEF ChatInv
  <2>3. Begun(v)' = << >>
    BY <1>3, <1>10
  <2> QED BY <2>1, <2>2, <2>3, <1>0, <1>1, <1>3, <1>4, SentTo
<1>12. ASSUME NEW u \in Clients, u # v PROVE WholeFor(u)'
  <2>1. sent'[u] = sent[u] /\ stream'[u] = stream[u] /\ broken \subseteq broken'
    BY <1>1, <1>6, <1>12, <1>0 DEF ChatTyped
  <2>2. WholeFor(u) /\ Begun(u)' = Begun(u)
    BY <1>10 DEF ChatInv
  <2> QED BY <2>1, <2>2, QuietFor
<1> QED BY <1>8, <1>9, <1>11, <1>12 DEF ChatInv

(* The main thread's error to a client of which the plugin's thread is not *)
(* in the middle of a reply                                                *)
LEMMA ReplyErrKeeps ==
  ASSUME ChatInv, OneWriter, NEW u \in Clients, tcp_reply_err(u)
  PROVE  ChatInv'
<1>0. ChatTyped /\ Position
  BY DEF ChatInv
<1>1. PICK m : m = Message(u, "rep_send_error", 1)
  OBVIOUS
<1>2. /\ u \in Strangers /\ asked' = asked + 1
      /\ chatters' = chatters /\ jobs' = jobs /\ c' = c /\ broken' = broken
  BY DEF tcp_reply_err
<1>3. m \in MessageType /\ m.len = 1
  BY <1>0, <1>1 DEF Message, MessageType, ChatTyped
<1>4. Position'
  BY <1>0, <1>2 DEF Position
<1>5. ASSUME NEW v \in Clients PROVE Begun(v)' = Begun(v)
  BY <1>2 DEF Begun
<1>6. CASE u \notin broken /\ Takes(u, 1) # {}
  <2>1. /\ stream' = [stream EXCEPT ![u] = @ \o Bytes(m, 0, 1)]
        /\ room' = IF u \in Slow THEN [room EXCEPT ![u] = @ - 1] ELSE room
        /\ sent' = [sent EXCEPT ![u] = Append(@, m)]
    BY <1>1, <1>6 DEF tcp_reply_err
  <2>2. stream[u] \in Seq(Byte) /\ sent[u] \in Seq(MessageType)
    BY <1>0 DEF ChatTyped
  <2>3. stream' \in [Clients -> Seq(Byte)]
    <3>1. Bytes(m, 0, 1) \in Seq(Byte)
      BY <1>3, BytesTyped
    <3>2. stream[u] \o Bytes(m, 0, 1) \in Seq(Byte)
      BY <3>1, <2>2, ConcatTyped
    <3> QED BY <3>2, <2>1, <1>0 DEF ChatTyped
  <2>4. sent' \in [Clients -> Seq(MessageType)]
    <3>1. Append(sent[u], m) \in Seq(MessageType)
      BY <2>2, <1>3
    <3> QED BY <3>1, <2>1, <1>0 DEF ChatTyped
  <2>5. room' \in [Clients -> Nat]
    <3>1. room[u] \in Nat /\ (u \in Slow => room[u] - 1 \in Nat)
      BY <1>0, <1>6 DEF ChatTyped, Takes
    <3> QED BY <3>1, <2>1, <1>0 DEF ChatTyped
  <2>6. ChatTyped'
    BY <2>3, <2>4, <2>5, <1>0, <1>2 DEF ChatTyped
  <2>7. Begun(u) = << >>
    <3>1. CASE jobs # << >> /\ Head(jobs).to = u
      <4>1. Head(jobs).to \in Askers
        BY <3>1, <1>0, JobHead DEF Job
      <4>2. c = 0
        BY <3>1, <4>1, <1>0, <1>2 DEF Position, OneWriter
      <4> QED BY <4>2, FreshNow DEF FreshNothing
    <3>2. CASE ~(jobs # << >> /\ Head(jobs).to = u)
      BY <3>2 DEF Begun
    <3> QED BY <3>1, <3>2
  <2>8. WholeFor(u)'
    <3>1. sent'[u] = Append(sent[u], m) /\ stream'[u] = stream[u] \o Bytes(m, 0, 1)
      BY <2>1, <1>0 DEF ChatTyped
    <3>2. Begun(u) = Bytes(m, 0, 0)
      BY <2>7, NoBytes
    <3>3. Begun(u)' = << >>
      BY <2>7, <1>5
    <3>4. 0 \in Nat /\ 1 \in Nat /\ 0 + 1 = m.len
      BY <1>3
    <3>5. WholeFor(u)
      BY DEF ChatInv
    <3> QED BY <3>1, <3>2, <3>3, <3>4, <3>5, <1>0, <1>2, <1>3, SentTo
  <2>9. ASSUME NEW v \in Clients, v # u PROVE WholeFor(v)'
    <3>1. sent'[v] = sent[v] /\ stream'[v] = stream[v] /\ broken \subseteq broken'
      BY <2>1, <2>9, <1>0, <1>2 DEF ChatTyped
    <3>2. WholeFor(v)
      BY DEF ChatInv
    <3> QED BY <3>1, <3>2, <1>5, QuietFor
  <2> QED BY <2>6, <2>8, <2>9, <1>4 DEF ChatInv
<1>7. CASE ~(u \notin broken /\ Takes(u, 1) # {})
  <2>1. stream' = stream /\ room' = room /\ sent' = sent
    BY <1>7 DEF tcp_reply_err
  <2>2. ChatTyped'
    BY <2>1, <1>0, <1>2 DEF ChatTyped
  <2>3. ASSUME NEW v \in Clients PROVE WholeFor(v)'
    <3>1. sent'[v] = sent[v] /\ stream'[v] = stream[v] /\ broken \subseteq broken'
      BY <2>1, <1>2
    <3>2. WholeFor(v)
      BY DEF ChatInv
    <3> QED BY <3>1, <3>2, <1>5, QuietFor
  <2> QED BY <2>2, <2>3, <1>4 DEF ChatInv
<1> QED BY <1>6, <1>7

(* Steps of the clients: nothing is written. *)
LEMMA ClientKeeps ==
  ASSUME ChatInv, NEW u \in Clients, Read(u) \/ Break(u) \/ Leave(u)
  PROVE  ChatInv'
<1>0. ChatTyped /\ Position
  BY DEF ChatInv
<1>1. /\ asked' = asked /\ jobs' = jobs /\ c' = c /\ stream' = stream /\ sent' = sent
      /\ broken \subseteq broken'
  BY DEF Read, Break, Leave
<1>2. room' \in [Clients -> Nat]
  BY <1>0 DEF Read, Break, Leave, ChatTyped
<1>3. chatters' \subseteq Joiners /\ IsFiniteSet(chatters')
  <2>1. chatters' = chatters \/ chatters' = chatters \ {u}
    BY DEF Read, Break, Leave
  <2>2. chatters \subseteq Joiners /\ IsFiniteSet(chatters)
    BY <1>0 DEF ChatTyped
  <2>3. IsFiniteSet(chatters \ {u})
    BY <2>2, FS_RemoveElement
  <2> QED BY <2>1, <2>2, <2>3
<1>4. ChatTyped' /\ Position'
  BY <1>0, <1>1, <1>2, <1>3 DEF ChatTyped, Position
<1>5. ASSUME NEW v \in Clients PROVE WholeFor(v)'
  <2>1. Begun(v)' = Begun(v)
    BY <1>1 DEF Begun
  <2>2. WholeFor(v)
    BY DEF ChatInv
  <2> QED BY <2>1, <2>2, <1>1, QuietFor
<1> QED BY <1>4, <1>5 DEF ChatInv

LEMMA StutterKeeps == ASSUME ChatInv, UNCHANGED chatVars PROVE ChatInv'
  BY DEF ChatInv, ChatTyped, Position, WholeFor, Begun, chatVars

LEMMA InitChat == ASSUME ChatInit PROVE ChatInv
<1>1. ChatTyped
  <2>1. IsFiniteSet({})
    BY FS_EmptySet
  <2> QED BY <2>1, ChatAssumption DEF ChatInit, ChatTyped
<1>2. Position
  BY DEF ChatInit, Position
<1>3. ASSUME NEW u \in Clients PROVE WholeFor(u)
  <2>1. sent[u] = << >> /\ stream[u] = << >> /\ Begun(u) = << >> /\ Len(sent[u]) = 0
    BY DEF ChatInit, Begun
  <2>2. PICK f : f = [n \in 0 .. 0 |-> << >>]
    OBVIOUS
  <2>3. f[0] = << >> /\ \A n \in 0 .. 0 : n = 0
    BY <2>2
  <2>4. << >> \in Seq(Byte)
    OBVIOUS
  <2>5. Reads(sent[u], f)
    BY <2>1, <2>2, <2>3, <2>4 DEF Reads
  <2>6. << >> \o << >> = << >>
    BY <2>4, ConcatNothing
  <2>7. stream[u] = f[Len(sent[u])] \o Begun(u)
    BY <2>1, <2>3, <2>6
  <2> QED BY <2>5, <2>7 DEF WholeFor
<1> QED BY <1>1, <1>2, <1>3 DEF ChatInv

LEMMA InvWhole == ASSUME ChatInv PROVE StreamsWhole
<1>1. ASSUME NEW u \in Clients \ broken PROVE stream[u] = Written(sent[u]) \o Begun(u)
  <2>1. PICK f : Reads(sent[u], f) /\ stream[u] = f[Len(sent[u])] \o Begun(u)
    BY DEF ChatInv, WholeFor
  <2>2. sent[u] \in Seq(MessageType)
    BY DEF ChatInv, ChatTyped
  <2>3. Written(sent[u]) = f[Len(sent[u])]
    BY <2>1, <2>2, WrittenIs
  <2> QED BY <2>1, <2>3
<1> QED BY <1>1 DEF StreamsWhole, Begun

(* A client's stream is whole messages whatever it and the others ask for, *)
(* however send() cuts what rep_send() writes and whenever connections     *)
(* break, provided that the clients which are pushed to read in time (to   *)
(* others base_msg_send() loses or repeats bytes) and that only one thread *)
(* writes to a client which does not (tcp.c:94, base_internal.c:212).      *)
THEOREM StreamsStayWhole == JoinersRead /\ OneWriter => (ChatSpec => []StreamsWhole)
<1> SUFFICES ASSUME JoinersRead, OneWriter PROVE ChatSpec => []StreamsWhole
  OBVIOUS
<1>1. ChatInit => ChatInv
  BY InitChat
<1>2. ChatInv /\ [ChatNext]_chatVars => ChatInv'
  <2> SUFFICES ASSUME ChatInv, [ChatNext]_chatVars PROVE ChatInv'
    OBVIOUS
  <2>1. CASE UNCHANGED chatVars
    BY <2>1, StutterKeeps
  <2>2. CASE SendSome \/ rep_send \/ base_msg_send
    BY <2>2, SendSomeKeeps, RepSendKeeps, BaseMsgSendKeeps
  <2>3. ASSUME NEW u \in Clients, tcp_reply_err(u) PROVE ChatInv'
    BY <2>3, ReplyErrKeeps
  <2>4. ASSUME NEW u \in Clients, Read(u) \/ Break(u) \/ Leave(u) PROVE ChatInv'
    BY <2>4, ClientKeeps
  <2>5. ASSUME NEW u \in Clients,
               \/ cmd_join(u) \/ cmd_bcst(u) \/ cmd_pm(u) \/ stats(u) \/ base_cmd(u)
               \/ \E who \in Clients : cmd_quit(u, who)
        PROVE  ChatInv'
    BY <2>5, CommandKeeps
  <2> QED BY <2>1, <2>2, <2>3, <2>4, <2>5 DEF ChatNext
<1>3. ChatInv => StreamsWhole
  BY InvWhole
<1> QED BY <1>1, <1>2, <1>3, PTL DEF ChatSpec

-----------------------------------------------------------------------------
(* Bang: the tables of the bang plugin *)

States == {"idle", "single", "receive", "to_battle", "accept", "battling", "unknown"}

BangTyped ==
  /\ userh \subseteq Users /\ idle \subseteq userh /\ idlenum \in Int
  /\ leave \in [Users -> [next : {"no", "userh", "table", "free"}, table : Tables \cup {NoTable}]]
  /\ ustate \in [Users -> States] /\ at \in [Users -> Tables \cup {NoTable}]
  /\ battling \in [Tables -> SUBSET Users] /\ number \in [Tables -> Int]

(* Whoever holds a place at the table: a user who leaves keeps it until    *)
(* the table is told.                                                      *)
Seated(t) ==
  {u \in Users : \/ u \in userh /\ at[u] = t
                 \/ leave[u].next = "table" /\ leave[u].table = t}

(* How far a user who leaves has been forgotten *)
Leaving ==
  \A u \in Users :
    /\ leave[u].next = "userh" => u \in userh \ idle /\ at[u] \in Tables /\ leave[u].table = at[u]
    /\ leave[u].next = "table" => u \notin userh /\ leave[u].table \in Tables
    /\ leave[u].next = "free" => u \notin userh

UsersCounted == usernum \in Nat /\ usernum <= Cardinality(userh)

(* Each table is sound *)
TableSound(t) ==
  number[t] = Cardinality(Seated(t)) /\ number[t] <= TABLE_MAX /\ battling[t] \subseteq Seated(t)

(* A user who may still ask for a table has none *)
IdleHaveNone == \A u \in userh : ustate[u] = "idle" => at[u] = NoTable

IdleCounted == idlenum = Cardinality(idle) /\ \A u \in idle : ustate[u] # "battling"

BangInv ==
  /\ BangTyped /\ IdleHaveNone /\ IdleCounted /\ Leaving /\ UsersCounted
  /\ \A t \in Tables : TableSound(t)

LEMMA InvSound == BangInv => TablesSound
  <1> SUFFICES ASSUME BangInv, Quiet PROVE TablesSound
    BY DEF TablesSound
  <1>1. ASSUME NEW t \in Tables PROVE Seated(t) = {u \in userh : at[u] = t}
    BY DEF BangInv, BangTyped, Seated, Quiet
  <1> QED BY <1>1 DEF BangInv, BangTyped, IdleCounted, UsersCounted, TableSound, TablesSound

LEMMA InitInv == BangInit => BangInv
  <1> SUFFICES ASSUME BangInit PROVE BangInv
    OBVIOUS
  <1>1. BangTyped
    BY DEF BangInit, EmptyRoom, BangTyped, States, Stays
  <1>2. IdleHaveNone /\ IdleCounted /\ Leaving /\ UsersCounted
    BY FS_EmptySet DEF BangInit, IdleHaveNone, IdleCounted, Leaving, UsersCounted, Stays
  <1>3. ASSUME NEW t \in Tables PROVE TableSound(t)
    <2>1. Seated(t) = {}
      BY DEF BangInit, Seated, Stays
    <2> QED BY <2>1, FS_EmptySet, BangAssumption DEF BangInit, EmptyRoom, TableSound
  <1> QED BY <1>1, <1>2, <1>3 DEF BangInv

(* Only finitely many users sit or idle anywhere. *)
LEMMA UsersFinite ==
  ASSUME NEW S, S \subseteq Users
  PROVE  IsFiniteSet(S) /\ Cardinality(S) \in Nat
  BY BangAssumption, FS_Subset, FS_CardinalityType

(* bang_autoselect_table_in_room() returns a table with the place it was   *)
(* looked for, or none.                                                    *)
LEMMA Autoselect ==
  ASSUME BangTyped, bang_autoselect_table_in_room # NoTable
  PROVE  /\ bang_autoselect_table_in_room \in Tables
         /\ number[bang_autoselect_table_in_room] \in 0 .. TABLE_MAX - 1
  <1> DEFINE open  == {t \in Tables : number[t] \in 1 .. TABLE_MAX - 1}
             empty == {t \in Tables : number[t] = 0}
  <1>1. ASSUME NEW S \in SUBSET Tables, S # {} PROVE First(S) \in S
    BY <1>1, LeastElement, BangAssumption DEF First
  <1>2. CASE open # {}
    BY <1>1, <1>2, BangAssumption DEF bang_autoselect_table_in_room
  <1>3. CASE open = {} /\ empty # {}
    <2>1. bang_autoselect_table_in_room = First(empty)
      BY <1>3 DEF bang_autoselect_table_in_room
    <2>2. First(empty) \in empty
      BY <1>1, <1>3
    <2> QED BY <2>1, <2>2, BangAssumption
  <1>4. CASE open = {} /\ empty = {}
    BY <1>4 DEF bang_autoselect_table_in_room
  <1> QED BY <1>2, <1>3, <1>4

(* Users leave the idle ones: LeaveIdle(), Transit() keep the count, and   *)
(* whoever battles is not idle.                                            *)
LEMMA LeaveIdleCounted ==
  ASSUME BangTyped, IdleCounted, NEW S, LeaveIdle(S),
         \A u \in idle \ S : ustate'[u] = ustate[u] \/ ustate'[u] # "battling"
  PROVE  idlenum' \in Int /\ IdleCounted'
  <1>1. IsFiniteSet(idle) /\ Cardinality(idle) \in Nat /\ Cardinality(idle \cap S) \in Nat
    <2>1. idle \subseteq Users /\ idle \cap S \subseteq Users
      BY DEF BangTyped
    <2> QED BY <2>1, UsersFinite
  <1>2. Cardinality(idle \ S) = Cardinality(idle) - Cardinality(idle \cap S)
    BY <1>1, FS_Difference
  <1> QED BY <1>1, <1>2 DEF LeaveIdle, IdleCounted

(* A command runs while nobody is leaving. *)
LEMMA CommandLeaves == ASSUME Quiet, leave' = leave PROVE Leaving'
  BY DEF Quiet, Leaving

(* Tables that the step does not touch stay sound. *)
LEMMA SameTable ==
  ASSUME NEW t \in Tables, TableSound(t), Seated(t)' = Seated(t),
         number'[t] = number[t], battling'[t] \subseteq battling[t]
  PROVE  TableSound(t)'
  BY DEF TableSound

(* The users of S, who had no table, sit down at table t. *)
LEMMA SitDown ==
  ASSUME BangInv, NEW t \in Tables, NEW S \in SUBSET userh, \A u \in S : at[u] = NoTable,
         userh' = userh, leave' = leave, at' = [u \in Users |-> IF u \in S THEN t ELSE at[u]],
         battling' = [battling EXCEPT ![t] = @ \cup S],
         number' = [number EXCEPT ![t] = number[t] + Cardinality(S)],
         number[t] + Cardinality(S) <= TABLE_MAX
  PROVE  \A r \in Tables : TableSound(r)'
  <1> USE DEF BangInv
  <1>1. ASSUME NEW r \in Tables, r # t PROVE TableSound(r)'
    <2>1. Seated(r)' = Seated(r)
      BY <1>1, BangAssumption DEF Seated, BangTyped, Leaving
    <2> QED BY <1>1, <2>1, SameTable DEF BangTyped
  <1>2. TableSound(t)'
    <2>1. Seated(t)' = Seated(t) \cup S /\ Seated(t) \cap S = {}
      BY BangAssumption DEF Seated, BangTyped, Leaving
    <2>2. /\ IsFiniteSet(Seated(t)) /\ Cardinality(Seated(t)) \in Nat
          /\ IsFiniteSet(S) /\ Cardinality(S) \in Nat
      <3>1. Seated(t) \subseteq Users /\ S \subseteq Users
        BY DEF Seated, BangTyped
      <3> QED BY <3>1, UsersFinite
    <2>3. Cardinality(Seated(t) \cup S) = Cardinality(Seated(t)) + Cardinality(S)
      <3>1. Cardinality(Seated(t) \cup S) =
              Cardinality(Seated(t)) + Cardinality(S) - Cardinality(Seated(t) \cap S)
        BY <2>2, FS_Union
      <3>2. Cardinality(Seated(t) \cap S) = 0
        BY <2>1, FS_EmptySet
      <3> QED BY <2>2, <3>1, <3>2
    <2>4. number'[t] = number[t] + Cardinality(S) /\ battling'[t] = battling[t] \cup S
      BY DEF BangTyped
    <2> QED BY <2>1, <2>3, <2>4 DEF TableSound
  <1> QED BY <1>1, <1>2

LEMMA JoinKeeps == ASSUME BangInv, Quiet, NEW u \in Users, Join(u), leave' = leave PROVE BangInv'
  <1> USE DEF BangInv
  <1>1. BangTyped'
    BY DEF BangTyped, Join, bang_state_transit_idle, States
  <1>2. IdleHaveNone'
    BY DEF IdleHaveNone, BangTyped, Join, bang_state_transit_idle
  <1>3. IdleCounted'
    <2>1. u \notin idle /\ idle \subseteq Users
      BY DEF Join, BangTyped
    <2>2. Cardinality(idle \cup {u}) = Cardinality(idle) + 1
      BY <2>1, UsersFinite, FS_AddElement
    <2> QED BY <2>1, <2>2 DEF IdleCounted, BangTyped, Join, bang_state_transit_idle
  <1>4. ASSUME NEW t \in Tables PROVE TableSound(t)'
    <2>1. Seated(t)' = Seated(t)
      BY BangAssumption DEF Seated, Join, BangTyped
    <2> QED BY <2>1, SameTable DEF Join
  <1>5. UsersCounted'
    <2>1. Cardinality(userh \cup {u}) = Cardinality(userh) + 1
      BY UsersFinite, FS_AddElement DEF Join, BangTyped
    <2>2. Cardinality(userh) \in Nat
      BY UsersFinite DEF BangTyped
    <2> QED BY <2>1, <2>2 DEF UsersCounted, Join
  <1> QED BY <1>1, <1>2, <1>3, <1>4, <1>5, CommandLeaves

LEMMA JoinTableKeeps == ASSUME BangInv, Quiet, NEW u \in Users, JoinTable(u), leave' = leave PROVE BangInv'
  <1> USE DEF BangInv
  <1>1. PICK t : t = bang_autoselect_table_in_room
    OBVIOUS
  <1>2. t \in Tables /\ number[t] \in 0 .. TABLE_MAX - 1
    BY <1>1, Autoselect DEF JoinTable
  <1>3. /\ u \in userh /\ ustate[u] = "idle" /\ at' = [at EXCEPT ![u] = t]
        /\ battling' = [battling EXCEPT ![t] = @ \cup {u}]
        /\ number' = [number EXCEPT ![t] = @ + 1]
        /\ ustate' = Transit(ustate, {u}) /\ LeaveIdle({u}) /\ UNCHANGED << userh, usernum >>
    BY <1>1 DEF JoinTable
  <1>4. \A o \in Users : ustate'[o] = IF o # u THEN ustate[o] ELSE IF u \in idle THEN "battling" ELSE "unknown"
    BY <1>3 DEF Transit
  <1>5. idlenum' \in Int /\ IdleCounted'
    BY <1>3, <1>4, LeaveIdleCounted DEF BangTyped
  <1>6. BangTyped'
    BY <1>2, <1>3, <1>5 DEF BangTyped, Transit, States, LeaveIdle
  <1>7. IdleHaveNone'
    BY <1>3, <1>4 DEF IdleHaveNone, BangTyped
  <1>8. \A r \in Tables : TableSound(r)'
    <2>1. Cardinality({u}) = 1
      BY FS_Singleton
    <2>2. at' = [o \in Users |-> IF o \in {u} THEN t ELSE at[o]]
      BY <1>3 DEF BangTyped
    <2>3. number' = [number EXCEPT ![t] = number[t] + Cardinality({u})]
      BY <1>3, <2>1
    <2>4. number[t] + Cardinality({u}) <= TABLE_MAX
      BY <1>2, <2>1, BangAssumption
    <2>5. \A o \in {u} : at[o] = NoTable
      BY <1>3 DEF IdleHaveNone
    <2> QED BY <1>2, <1>3, <2>2, <2>3, <2>4, <2>5, SitDown
  <1> QED BY <1>3, <1>5, <1>6, <1>7, <1>8, CommandLeaves DEF UsersCounted

LEMMA PlaySingleKeeps == ASSUME BangInv, Quiet, NEW u \in Users, PlaySingle(u), leave' = leave PROVE BangInv'
  <1> USE DEF BangInv
  <1>1. PICK t : t = bang_autoselect_table_in_room
    OBVIOUS
  <1>2. t \in Tables /\ number[t] = 0
    BY <1>1, Autoselect DEF PlaySingle
  <1>3. /\ u \in userh /\ ustate[u] = "idle" /\ at' = [at EXCEPT ![u] = t]
        /\ battling' = [battling EXCEPT ![t] = @ \cup {u}]
        /\ number' = [number EXCEPT ![t] = 1]
        /\ ustate' = [ustate EXCEPT ![u] = "single"]
        /\ UNCHANGED << userh, usernum, idle, idlenum >>
    BY <1>1 DEF PlaySingle
  <1>4. BangTyped'
    BY <1>2, <1>3 DEF BangTyped, States
  <1>5. IdleHaveNone' /\ IdleCounted'
    BY <1>3 DEF IdleHaveNone, IdleCounted, BangTyped
  <1>6. \A r \in Tables : TableSound(r)'
    <2>1. Cardinality({u}) = 1
      BY FS_Singleton
    <2>2. at' = [o \in Users |-> IF o \in {u} THEN t ELSE at[o]]
      BY <1>3 DEF BangTyped
    <2>3. number' = [number EXCEPT ![t] = number[t] + Cardinality({u})]
      <3>1. number[t] + Cardinality({u}) = 1
        BY <1>2, <2>1
      <3> QED BY <1>3, <3>1
    <2>4. number[t] + Cardinality({u}) <= TABLE_MAX
      BY <1>2, <2>1, BangAssumption
    <2>5. \A o \in {u} : at[o] = NoTable
      BY <1>3 DEF IdleHaveNone
    <2>6. /\ t \in Tables /\ {u} \in SUBSET userh /\ userh' = userh
          /\ battling' = [battling EXCEPT ![t] = @ \cup {u}]
      BY <1>2, <1>3
    <2> QED BY <2>2, <2>3, <2>4, <2>5, <2>6, SitDown
  <1> QED BY <1>3, <1>4, <1>5, <1>6, CommandLeaves DEF UsersCounted

LEMMA InviteKeeps == ASSUME BangInv, Quiet, NEW u \in Users, Invite(u), leave' = leave PROVE BangInv'
  <1> USE DEF BangInv
  <1>1. PICK t : t = bang_autoselect_table_in_room
    OBVIOUS
  <1>2. t \in Tables /\ number[t] = 0
    BY <1>1, Autoselect DEF Invite
  <1>3. PICK S \in SUBSET idle :
          /\ Invited(u, S)
          /\ at' = [o \in Users |-> IF o \in S \cup {u} THEN t ELSE at[o]]
          /\ battling' = [battling EXCEPT ![t] = @ \cup S \cup {u}]
          /\ number' = [number EXCEPT ![t] = 1 + Cardinality(S)]
          /\ ustate' = [o \in Users |-> IF o \in S THEN "receive" ELSE IF o = u THEN "to_battle" ELSE ustate[o]]
    BY <1>1 DEF Invite
  <1>4. u \in userh /\ ustate[u] = "idle" /\ UNCHANGED << userh, usernum, idle, idlenum >>
    BY DEF Invite
  <1>5. u \notin S /\ \A o \in S : o \in userh /\ ustate[o] = "idle"
    BY <1>3 DEF Invited, BangTyped
  <1>6. IsFiniteSet(S) /\ Cardinality(S) \in Nat /\ Cardinality(S) <= TABLE_MAX - 1
    <2>1. S \subseteq Users
      BY <1>3 DEF BangTyped
    <2>2. NoticeNum <= TABLE_MAX - 1
      BY BangAssumption DEF NoticeNum, BangTyped
    <2>3. NoticeNum \in Int
      BY BangAssumption DEF NoticeNum, BangTyped
    <2>4. Cardinality(S) <= NoticeNum
      <3>1. PICK all : IF Cardinality(all) <= NoticeNum THEN S = all ELSE Cardinality(S) = NoticeNum
        BY <1>3 DEF Invited
      <3> QED BY <2>3, <3>1
    <2> QED BY <2>1, <2>2, <2>3, <2>4, UsersFinite, BangAssumption
  <1>7. BangTyped'
    BY <1>2, <1>3, <1>4, <1>5, <1>6 DEF BangTyped, States
  <1>8. IdleHaveNone' /\ IdleCounted'
    BY <1>3, <1>4 DEF IdleHaveNone, IdleCounted, BangTyped
  <1>9. \A r \in Tables : TableSound(r)'
    <2> DEFINE P == S \cup {u}
    <2>1. Cardinality(P) = 1 + Cardinality(S)
      <3>1. Cardinality(S \cup {u}) = Cardinality(S) + 1
        BY <1>5, <1>6, FS_AddElement
      <3> QED BY <1>6, <3>1
    <2>2. P \in SUBSET userh /\ \A o \in P : at[o] = NoTable
      BY <1>4, <1>5 DEF IdleHaveNone
    <2>3. battling' = [battling EXCEPT ![t] = @ \cup P]
      BY <1>3
    <2>4. number' = [number EXCEPT ![t] = number[t] + Cardinality(P)] /\ number[t] + Cardinality(P) <= TABLE_MAX
      <3>1. number[t] + Cardinality(P) = 1 + Cardinality(S)
        BY <1>2, <1>6, <2>1
      <3>2. number' = [number EXCEPT ![t] = 1 + Cardinality(S)]
        BY <1>3
      <3>3. 1 + Cardinality(S) <= TABLE_MAX
        BY <1>6, BangAssumption
      <3> HIDE DEF P
      <3> QED BY <3>1, <3>2, <3>3
    <2>5. at' = [o \in Users |-> IF o \in P THEN t ELSE at[o]]
      BY <1>3
    <2> HIDE DEF P
    <2> QED BY <1>2, <1>4, <2>2, <2>3, <2>4, <2>5, SitDown
  <1> QED BY <1>4, <1>7, <1>8, <1>9, CommandLeaves DEF UsersCounted

LEMMA AcceptKeeps == ASSUME BangInv, Quiet, NEW u \in Users, cmd_accept_battle(u), leave' = leave PROVE BangInv'
  <1> USE DEF BangInv
  <1>1. PICK t \in Tables : t = at[u] /\ u \in userh
    BY DEF cmd_accept_battle, BangTyped
  <1>2. PICK gone \in SUBSET battling[t] :
          /\ battling' = [battling EXCEPT ![t] = @ \ gone]
          /\ ustate' = Transit([ustate EXCEPT ![u] = "accept"], battling[t] \ gone)
          /\ LeaveIdle(battling[t] \ gone)
    BY <1>1 DEF cmd_accept_battle
  <1>3. UNCHANGED << userh, usernum, at, number >>
    BY DEF cmd_accept_battle
  <1>4. \A o \in Users : ustate'[o] =
          IF o \in battling[t] \ gone THEN IF o \in idle THEN "battling" ELSE "unknown"
          ELSE IF o = u THEN "accept" ELSE ustate[o]
    BY <1>2 DEF Transit, BangTyped
  <1>5. idlenum' \in Int /\ IdleCounted'
    BY <1>2, <1>4, LeaveIdleCounted DEF BangTyped
  <1>6. BangTyped'
    <2>1. ustate' \in [Users -> States]
      BY <1>2, <1>4 DEF Transit, States, BangTyped
    <2> QED BY <1>1, <1>2, <1>3, <1>5, <2>1 DEF BangTyped, LeaveIdle
  <1>7. IdleHaveNone'
    BY <1>3, <1>4 DEF IdleHaveNone, BangTyped
  <1>8. ASSUME NEW r \in Tables PROVE TableSound(r)'
    <2>1. Seated(r)' = Seated(r) /\ number'[r] = number[r]
      BY <1>3 DEF Seated
    <2>2. battling'[r] \subseteq battling[r]
      BY <1>2 DEF BangTyped
    <2> QED BY <2>1, <2>2, SameTable
  <1> QED BY <1>3, <1>5, <1>6, <1>7, <1>8, CommandLeaves DEF UsersCounted

(* The steps of a destruction: the user leaves the idle, the joined and    *)
(* the table; the last step finds nobody of that name.                     *)
LEMMA ForgetIdleKeeps == ASSUME BangInv, NEW u \in Users, ForgetIdle(u) PROVE BangInv'
  <1> USE DEF BangInv
  <1>1. /\ u \in userh /\ at[u] \in Tables /\ leave[u].next = "no" /\ LeaveIdle({u})
        /\ leave' = [leave EXCEPT ![u] = [next |-> "userh", table |-> at[u]]]
        /\ UNCHANGED << userh, usernum, ustate, at, battling, number >>
    BY DEF ForgetIdle, BangTyped
  <1>2. idlenum' \in Int /\ IdleCounted'
    BY <1>1, LeaveIdleCounted DEF BangTyped
  <1>3. BangTyped' /\ IdleHaveNone' /\ UsersCounted'
    BY <1>1, <1>2 DEF BangTyped, LeaveIdle, IdleHaveNone, UsersCounted
  <1>4. Leaving'
    BY <1>1 DEF Leaving, LeaveIdle, BangTyped
  <1>5. ASSUME NEW t \in Tables PROVE TableSound(t)'
    <2>1. Seated(t)' = Seated(t)
      BY <1>1 DEF Seated, BangTyped
    <2> QED BY <1>1, <2>1, SameTable
  <1> QED BY <1>2, <1>3, <1>4, <1>5

LEMMA ForgetUserKeeps == ASSUME BangInv, NEW u \in Users, ForgetUser(u) PROVE BangInv'
  <1> USE DEF BangInv
  <1>1. /\ leave[u].next = "userh" /\ DropUser(u)
        /\ leave' = [leave EXCEPT ![u].next = "table"]
        /\ UNCHANGED << ustate, at, idle, idlenum, battling, number >>
    BY DEF ForgetUser
  <1>2. u \in userh \ idle /\ at[u] \in Tables /\ leave[u].table = at[u]
    BY <1>1 DEF Leaving
  <1>3. leave'[u].next = "table" /\ leave'[u].table = at[u] /\ \A o \in Users \ {u} : leave'[o] = leave[o]
    BY <1>1, <1>2 DEF BangTyped
  <1>4. BangTyped' /\ IdleHaveNone' /\ IdleCounted'
    BY <1>1, <1>2 DEF BangTyped, DropUser, IdleHaveNone, IdleCounted
  <1>5. Leaving'
    BY <1>1, <1>2, <1>3 DEF Leaving, DropUser
  <1>6. UsersCounted'
    <2>1. Cardinality(userh \ {u}) = Cardinality(userh) - 1 /\ Cardinality(userh) \in Nat
      BY <1>2, UsersFinite, FS_RemoveElement DEF BangTyped
    <2>2. Cardinality(userh \ {u}) \in Nat
      BY UsersFinite DEF BangTyped
    <2> QED BY <1>1, <2>1, <2>2 DEF UsersCounted, DropUser
  <1>7. ASSUME NEW t \in Tables PROVE TableSound(t)'
    <2>1. Seated(t)' = Seated(t)
      BY <1>1, <1>2, <1>3 DEF Seated, DropUser
    <2> QED BY <1>1, <2>1, SameTable
  <1> QED BY <1>4, <1>5, <1>6, <1>7

LEMMA LeaveTableKeeps == ASSUME BangInv, NEW u \in Users, LeaveTable(u) PROVE BangInv'
  <1> USE DEF BangInv
  <1>1. PICK t \in Tables : t = leave[u].table /\ u \notin userh
    BY DEF LeaveTable, Leaving
  <1>2. /\ leave[u].next = "table"
        /\ battling' = [battling EXCEPT ![t] = @ \ {u}]
        /\ number' = [number EXCEPT ![t] = @ - 1]
        /\ leave' = [leave EXCEPT ![u].next = "free"]
        /\ UNCHANGED << userh, usernum, ustate, at, idle, idlenum >>
    BY <1>1 DEF LeaveTable
  <1>3. leave'[u].next = "free" /\ \A o \in Users \ {u} : leave'[o] = leave[o]
    BY <1>2 DEF BangTyped
  <1>4. BangTyped' /\ IdleHaveNone' /\ IdleCounted' /\ UsersCounted'
    BY <1>1, <1>2 DEF BangTyped, IdleHaveNone, IdleCounted, UsersCounted
  <1>5. Leaving'
    BY <1>1, <1>2, <1>3 DEF Leaving
  <1>6. ASSUME NEW r \in Tables, r # t PROVE TableSound(r)'
    <2>1. Seated(r)' = Seated(r)
      BY <1>1, <1>2, <1>3, <1>6 DEF Seated
    <2> QED BY <1>2, <1>6, <2>1, SameTable DEF BangTyped
  <1>7. TableSound(t)'
    <2>1. Seated(t)' = Seated(t) \ {u} /\ u \in Seated(t)
      BY <1>1, <1>2, <1>3 DEF Seated
    <2>2. Seated(t) \subseteq Users
      BY DEF Seated
    <2>3. Cardinality(Seated(t) \ {u}) = Cardinality(Seated(t)) - 1
      BY <2>1, <2>2, UsersFinite, FS_RemoveElement
    <2>4. number'[t] = number[t] - 1 /\ battling'[t] = battling[t] \ {u}
      BY <1>2 DEF BangTyped
    <2> QED BY <2>1, <2>3, <2>4, BangAssumption DEF TableSound, BangTyped
  <1> QED BY <1>4, <1>5, <1>6, <1>7

LEMMA BaseDestroyKeeps == ASSUME BangInv, NEW u \in Users, base_user_destroy(u) PROVE BangInv'
  <1> USE DEF BangInv
  <1>1. /\ leave[u].next = "free" /\ DropUser(u)
        /\ leave' = [leave EXCEPT ![u] = Stays]
        /\ at' = [at EXCEPT ![u] = NoTable] /\ ustate' = [ustate EXCEPT ![u] = "idle"]
        /\ UNCHANGED << idle, idlenum, battling, number >>
        /\ u \notin userh
    BY DEF base_user_destroy, Leaving
  <1>2. userh' = userh /\ u \notin idle
    BY <1>1 DEF DropUser, BangTyped
  <1>3. leave'[u].next = "no" /\ \A o \in Users \ {u} : leave'[o] = leave[o] /\ at'[o] = at[o] /\ ustate'[o] = ustate[o]
    BY <1>1 DEF BangTyped, Stays
  <1>4. BangTyped'
    BY <1>1, <1>2 DEF BangTyped, Stays, States
  <1>5. IdleHaveNone' /\ IdleCounted'
    BY <1>1, <1>2, <1>3 DEF BangTyped, IdleHaveNone, IdleCounted
  <1>6. Leaving'
    BY <1>1, <1>2, <1>3 DEF Leaving
  <1>7. UsersCounted'
    <2>1. Cardinality(userh) \in Nat
      BY UsersFinite DEF BangTyped
    <2> QED BY <1>1, <1>2, <2>1 DEF UsersCounted, DropUser
  <1>8. ASSUME NEW t \in Tables PROVE TableSound(t)'
    <2>1. Seated(t)' = Seated(t)
      BY <1>1, <1>2, <1>3 DEF Seated
    <2> QED BY <1>1, <2>1, SameTable
  <1> QED BY <1>4, <1>5, <1>6, <1>7, <1>8

(* If no command runs during a destruction, the tables of the bang plugin  *)
(* are sound between destructions whatever users do and in whatever order, *)
(* whoever is dropped from a table by the uninitialised key of             *)
(* cmd_accept_battle() included: no table is overbooked, every number      *)
(* counts the users who hold the table, no user who left stays in a hash,  *)
(* and the idle are counted (bang_internal.c:144, 296).                    *)
THEOREM TablesStaySound == ~Overlap => (BangSpec => []TablesSound)
  <1> SUFFICES ASSUME ~Overlap PROVE BangSpec => []TablesSound
    OBVIOUS
  <1>1. BangInv /\ [BangNext]_bangVars => BangInv'
    <2> SUFFICES ASSUME BangInv, [BangNext]_bangVars PROVE BangInv'
      OBVIOUS
    <2>1. CASE UNCHANGED bangVars
      <3>1. UNCHANGED roomVars /\ leave' = leave
        BY <2>1 DEF bangVars
      <3>2. ASSUME NEW t \in Tables PROVE TableSound(t)'
        <4>1. Seated(t)' = Seated(t)
          BY <3>1 DEF roomVars, Seated
        <4> QED BY <3>1, <4>1, SameTable DEF BangInv, roomVars
      <3>3. BangTyped' /\ IdleHaveNone' /\ IdleCounted' /\ UsersCounted'
        BY <3>1 DEF roomVars, BangInv, BangTyped, IdleHaveNone, IdleCounted, UsersCounted
      <3>4. Leaving'
        BY <3>1 DEF roomVars, BangInv, Leaving
      <3> QED BY <3>2, <3>3, <3>4 DEF BangInv
    <2>2. ASSUME NEW u \in Users, Quiet, Command(u) PROVE BangInv'
      BY <2>2, JoinKeeps, JoinTableKeeps, PlaySingleKeeps, InviteKeeps, AcceptKeeps
      DEF Command, cmd_to_battle
    <2>3. ASSUME NEW u \in Users, ForgetIdle(u) \/ ForgetUser(u) \/ LeaveTable(u) \/ base_user_destroy(u)
          PROVE  BangInv'
      BY <2>3, ForgetIdleKeeps, ForgetUserKeeps, LeaveTableKeeps, BaseDestroyKeeps
    <2> QED BY <2>1, <2>2, <2>3 DEF BangNext
  <1> QED BY <1>1, InitInv, InvSound, PTL DEF BangSpec

-----------------------------------------------------------------------------
(* The parts together *)

(* A behaviour of the composition is one of each part. *)
LEMMA PartsBehave == Spec => ServerSpec /\ ChatSpec /\ BangSpec
<1>1. Init => ServerInit /\ ChatInit /\ BangInit
  BY DEF Init
<1>2. [Next]_<< serverVars, chatVars, bangVars, part >> =>
        [ServerNext]_serverVars /\ [ChatNext]_chatVars /\ [BangNext]_bangVars
  BY DEF Next
<1> QED BY <1>1, <1>2, PTL DEF Spec, ServerSpec, ChatSpec, BangSpec

(* What holds of the clients' streams on their own holds when the parts    *)
(* run next to each other: none has a variable of another (tcp.c:94,       *)
(* base_internal.c:212).                                                   *)
THEOREM ServerSideWhole == JoinersRead /\ OneWriter => (Spec => []StreamsWhole)
<1> SUFFICES ASSUME JoinersRead, OneWriter PROVE Spec => []StreamsWhole
  OBVIOUS
<1>1. ChatSpec => []StreamsWhole
  BY StreamsStayWhole
<1> QED BY <1>1, PartsBehave, PTL
=============================================================================
