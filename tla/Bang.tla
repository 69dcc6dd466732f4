-------------------------------- MODULE Bang --------------------------------
(***************************************************************************)
(* The bang plugin (moc_bang.c, bang_internal.c): users who wait, invite   *)
(* each other to a table and battle there.  The plugin's thread runs the   *)
(* commands.  A user who leaves is destroyed when the connection is freed, *)
(* by whichever thread drops the last reference, the main thread as a      *)
(* rule, and without a lock.  With Overlap commands run between the steps  *)
(* of a destruction, without it a destruction has the state to itself.     *)
(* What would follow a NULL pointer is left out, see the guards.           *)
(***************************************************************************)
EXTENDS Integers, Sequences, FiniteSets

CONSTANTS Users,
          Tables,     \* tables of the room, numbers, 25 in the code
          TABLE_MAX,  \* BANG_TABLE_USER_MAXIMUM
          NoTable,
          Overlap     \* commands and other destructions run during one

ASSUME BangAssumption ==
  /\ Overlap \in BOOLEAN
  /\ IsFiniteSet(Users)
  /\ Tables # {} /\ Tables \subseteq Nat /\ NoTable \notin Tables
  /\ TABLE_MAX \in Nat \ {0}

VARIABLES userh,    \* users who have joined
          usernum,  \* their number, as the code keeps it
          ustate,   \* state of each of them
          at,       \* current_battling_table
          idle,     \* bang_idle_user_hash
          idlenum,  \* bang_idle_user_number
          battling, \* battling_user_hash of each table
          number,   \* battling_user_number of each table
          leave     \* what bang_user_destroy() does next of a user, and its table

roomVars == << userh, usernum, ustate, at, idle, idlenum, battling, number >>
bangVars == << roomVars, leave >>

Stays == [next |-> "no", table |-> NoTable]

(* No user is being destroyed. *)
Quiet == \A u \in Users : leave[u].next = "no"

(* bang_room_init(), bang_table_init() *)
EmptyRoom == battling = [t \in Tables |-> {}] /\ number = [t \in Tables |-> 0]

(* bang_info_init() *)
BangInit ==
  /\ userh = {} /\ usernum = 0 /\ leave = [u \in Users |-> Stays]
  /\ ustate = [u \in Users |-> "idle"] /\ at = [u \in Users |-> NoTable]
  /\ idle = {} /\ idlenum = 0
  /\ EmptyRoom

(* bang_state_transit_idle() *)
bang_state_transit_idle(u) ==
  /\ ustate' = [ustate EXCEPT ![u] = "idle"]
  /\ idle' = idle \cup {u}
  /\ idlenum' = IF u \in idle THEN idlenum ELSE idlenum + 1

(* cmd_join() of a user who is not there.  A second join of the same name  *)
(* goes on with a user without a name, which no lookup survives.           *)
Join(u) ==
  /\ u \notin userh
  /\ userh' = userh \cup {u} /\ usernum' = usernum + 1
  /\ bang_state_transit_idle(u)
  /\ at' = [at EXCEPT ![u] = NoTable]
  /\ UNCHANGED << battling, number >>

(* bang_autoselect_table_in_room(): the first table with a place next to   *)
(* someone, else the first empty one                                       *)
First(S) == CHOOSE t \in S : \A s \in S : t <= s
bang_autoselect_table_in_room ==
  LET open  == {t \in Tables : number[t] \in 1 .. TABLE_MAX - 1}
      empty == {t \in Tables : number[t] = 0}
  IN  IF open # {} THEN First(open) ELSE IF empty # {} THEN First(empty) ELSE NoTable

(* bang_state_transit_battling() of the users S: who is not idle is lost *)
Transit(st, S) ==
  [u \in Users |-> IF u \notin S THEN st[u] ELSE IF u \in idle THEN "battling" ELSE "unknown"]

LeaveIdle(S) == idle' = idle \ S /\ idlenum' = idlenum - Cardinality(idle \cap S)

(* bang_broadcast_to_battle_message() *)
NoticeNum == IF idlenum < TABLE_MAX THEN idlenum ELSE TABLE_MAX - 1

(* A seat next to someone: the battle begins for u, and for u alone *)
JoinTable(u) ==
  LET t == bang_autoselect_table_in_room
  IN  /\ u \in userh /\ ustate[u] = "idle"
      /\ t # NoTable /\ number[t] > 0
      /\ at' = [at EXCEPT ![u] = t]
      /\ battling' = [battling EXCEPT ![t] = @ \cup {u}]
      /\ number' = [number EXCEPT ![t] = @ + 1]
      /\ ustate' = Transit(ustate, {u})
      /\ LeaveIdle({u})
      /\ UNCHANGED << userh, usernum >>

(* Nobody to invite *)
PlaySingle(u) ==
  LET t == bang_autoselect_table_in_room
  IN  /\ u \in userh /\ ustate[u] = "idle"
      /\ t # NoTable /\ number[t] = 0 /\ NoticeNum <= 1
      /\ at' = [at EXCEPT ![u] = t]
      /\ battling' = [battling EXCEPT ![t] = @ \cup {u}]
      /\ number' = [number EXCEPT ![t] = 1]
      /\ ustate' = [ustate EXCEPT ![u] = "single"]
      /\ UNCHANGED << userh, usernum, idle, idlenum >>

(* Mutant: the table is filled as long as there is someone idle. *)
InvitedAll(u, S) ==
  LET all == {o \in idle \ {u} : ustate[o] = "idle"}
  IN  S = all

(* The idle users that are met first, until the table is full *)
Invited(u, S) ==
  LET all == {o \in idle \ {u} : ustate[o] = "idle"}
  IN  /\ S \subseteq all
      /\ IF Cardinality(all) <= NoticeNum THEN S = all ELSE Cardinality(S) = NoticeNum

Invite(u) ==
  LET t == bang_autoselect_table_in_room
  IN  /\ u \in userh /\ ustate[u] = "idle"
      /\ t # NoTable /\ number[t] = 0 /\ NoticeNum > 1
      /\ \E S \in SUBSET idle :
           /\ Invited(u, S)
           /\ at' = [o \in Users |-> IF o \in S \cup {u} THEN t ELSE at[o]]
           /\ battling' = [battling EXCEPT ![t] = @ \cup S \cup {u}]
           /\ number' = [number EXCEPT ![t] = 1 + Cardinality(S)]
           /\ ustate' = [o \in Users |-> IF o \in S THEN "receive" ELSE IF o = u THEN "to_battle" ELSE ustate[o]]
      /\ UNCHANGED << userh, usernum, idle, idlenum >>

(* cmd_to_battle() *)
cmd_to_battle(u) == JoinTable(u) \/ PlaySingle(u) \/ Invite(u)

(* cmd_accept_battle() of a user with a table.  For every other user who   *)
(* did not invite, the key that is removed is read from an uninitialised   *)
(* variable: nobody, or a user whose name is still there, leaves.          *)
cmd_accept_battle(u) ==
  LET t == at[u]
      others == {o \in battling[t] \ {u} : ustate[o] # "to_battle"}
  IN  /\ u \in userh /\ t # NoTable
      /\ \E gone \in SUBSET battling[t] :
           /\ Cardinality(gone) <= IF others = {} THEN 0 ELSE 1
           /\ battling' = [battling EXCEPT ![t] = @ \ gone]
           /\ ustate' = Transit([ustate EXCEPT ![u] = "accept"], battling[t] \ gone)
           /\ LeaveIdle(battling[t] \ gone)
      /\ UNCHANGED << userh, usernum, at, number >>

(* bang_user_destroy() of a user with a table; without one, its table is   *)
(* a NULL pointer.  The user is looked for among the idle, removed from    *)
(* the joined and from its table, and then base_user_destroy() removes     *)
(* whoever has joined under the name, and counts once more, before free(): *)
(* what the model keeps of a user of that name is then another's.          *)
ForgetIdle(u) ==
  /\ u \in userh /\ at[u] # NoTable /\ leave[u].next = "no"
  /\ LeaveIdle({u})
  /\ leave' = [leave EXCEPT ![u] = [next |-> "userh", table |-> at[u]]]
  /\ UNCHANGED << userh, usernum, ustate, at, battling, number >>

DropUser(u) == userh' = userh \ {u} /\ usernum' = IF usernum > 0 THEN usernum - 1 ELSE 0

ForgetUser(u) ==
  /\ leave[u].next = "userh"
  /\ DropUser(u)
  /\ leave' = [leave EXCEPT ![u].next = "table"]
  /\ UNCHANGED << ustate, at, idle, idlenum, battling, number >>

LeaveTable(u) ==
  LET t == leave[u].table
  IN  /\ leave[u].next = "table"
      /\ battling' = [battling EXCEPT ![t] = @ \ {u}]
      /\ number' = [number EXCEPT ![t] = @ - 1]
      /\ leave' = [leave EXCEPT ![u].next = "free"]
      /\ UNCHANGED << userh, usernum, ustate, at, idle, idlenum >>

base_user_destroy(u) ==
  /\ leave[u].next = "free"
  /\ DropUser(u)
  /\ leave' = [leave EXCEPT ![u] = Stays]
  /\ at' = IF u \in userh THEN at ELSE [at EXCEPT ![u] = NoTable]
  /\ ustate' = IF u \in userh THEN ustate ELSE [ustate EXCEPT ![u] = "idle"]
  /\ UNCHANGED << idle, idlenum, battling, number >>

Command(u) == (Join(u) \/ cmd_to_battle(u) \/ cmd_accept_battle(u)) /\ UNCHANGED leave

BangNext ==
  \E u \in Users :
    \/ (Quiet \/ Overlap) /\ (Command(u) \/ ForgetIdle(u))
    \/ ForgetUser(u) \/ LeaveTable(u) \/ base_user_destroy(u)

BangSpec == BangInit /\ [][BangNext]_bangVars

(* After every sequence of joins, invitations, late answers and leaves, if *)
(* no command ran during a destruction, and whenever none is under way: no *)
(* table has more users than places, its number counts those who hold it   *)
(* as theirs, its hash has only such users, who have joined (a user freed  *)
(* but left in a hash would be sent to by cmd_turn()), the idle users are  *)
(* counted, none of them battling, and usernum, which counts a user who    *)
(* leaves twice, is never above the users there are (bang_internal.c:144,  *)
(* 296, moc_bang.c:60).                                                    *)
TablesSound ==
  Quiet =>
    /\ \A t \in Tables :
         LET seated == {u \in userh : at[u] = t}
         IN  number[t] = Cardinality(seated) /\ number[t] <= TABLE_MAX /\ battling[t] \subseteq seated
    /\ idlenum = Cardinality(idle) /\ idle \subseteq userh
    /\ \A u \in idle : ustate[u] # "battling"
    /\ usernum <= Cardinality(userh)
=============================================================================
