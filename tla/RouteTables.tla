----------------------------- MODULE RouteTables -----------------------------
(***************************************************************************)
(* The simulated end users of one host share its kernel: route.py gives    *)
(* each user a routing table and marks the packets to the user's service,  *)
(* datarate.py limits the rate of the marked packets.                      *)
(*                                                                         *)
(* The main thread allocates the tables and the speeds, sets the speeds,   *)
(* and releases all in the end; the MQTT thread of each user calls         *)
(* set_filter when its service is allocated or moved.  No lock is held     *)
(* over the commands of one call: iptables' `wait` orders single commands. *)
(*                                                                         *)
(* The kernel outlives the process.  A command that fails raises           *)
(* CalledProcessError from subprocess; check_output_w_warning, which the   *)
(* speed manager calls, raises the class without its arguments, that is a  *)
(* TypeError, which no handler of datarate.py is for.                      *)
(***************************************************************************)
EXTENDS Naturals, Sequences, FiniteSets, Bags, SequencesExt

CONSTANTS
  Users,          \* the users, in the order of RouteManager.tables
  Dests,          \* (address, port) of the services
  Marks,          \* marks from from_mark up to to_mark
  TableIds,       \* table numbers from from_id up to to_id
  Speeds,         \* data rates
  None,           \* Python's None
  Interrupts,     \* bound: keyboard interrupts
  MaxCrashes,     \* bound: kills of the process
  MaxFilters      \* bound: calls of set_filter for one user

ASSUME RouteAssumption ==
  /\ Users \in Seq(ToSet(Users)) /\ IsInjective(Users)
  /\ Marks \cup TableIds \subseteq Nat
  /\ None \notin Marks \cup TableIds \cup Dests \cup Speeds
  /\ {Interrupts, MaxCrashes, MaxFilters} \subseteq Nat

VARIABLES
  table,      \* RouteManager.tables
  speed,      \* SpeedManager.current_speeds
  mqtt,       \* where each user's MQTT thread is in set_filter
  main,       \* what the main thread does next
  todo,       \* users the main thread still has to release
  lines,      \* the lines of /etc/iproute2/rt_tables
  filters,    \* the mangle table of iptables, a bag of [dest, mark]
  rules,      \* the rules of ip, [mark, user]
  tc,         \* the qdisc root and its filters
  routes,     \* the users whose tables have a default route
  count       \* how often the bounded things have happened

process == <<table, speed, mqtt, main, todo>>
kernel == <<lines, filters, rules, tc, routes>>
vars == <<process, kernel, count>>

-----------------------------------------------------------------------------
UserSet == ToSet(Users)
Entry == [mark |-> None, dest |-> None, have_filter |-> FALSE, id |-> 0]
Filter(d, m) == [dest |-> d, mark |-> m]
NoQdisc == [root |-> FALSE, filters |-> {}]

(* next((i for i in range(..) if i not in ids), None)                      *)
FirstFree(range, used) ==
  IF range \subseteq used THEN None
  ELSE CHOOSE i \in range \ used : \A j \in range \ used : i <= j

MarksInUse == {f.mark : f \in BagToSet(filters)}

AvailMark == FirstFree(Marks, MarksInUse)

Started ==
  /\ table = [u \in UserSet |-> Entry]
  /\ speed = [u \in UserSet |-> None]
  /\ mqtt = [u \in UserSet |-> [at |-> "idle", dest |-> None, mark |-> None]]
  /\ main = "tables"
  /\ todo = Users

Init ==
  /\ Started
  /\ lines = {}
  /\ filters = EmptyBag
  /\ rules = {}
  /\ tc = NoQdisc
  /\ routes = {}
  /\ count = [interrupts |-> 0, crashes |-> 0, filters |-> [u \in UserSet |-> 0]]

-----------------------------------------------------------------------------
(* The MQTT thread of a user: set_filter.                                  *)

MqttAt(u, step) == mqtt[u].at = step

SetFilter(u, d) ==
  /\ main \in {"run", "stop"}
  /\ MqttAt(u, "idle")
  /\ count.filters[u] < MaxFilters
  /\ mqtt' = [mqtt EXCEPT ![u] =
               [at |-> IF table[u].mark = None THEN "avail" ELSE "delete",
                dest |-> d, mark |-> table[u].mark]]
  /\ count' = [count EXCEPT !.filters[u] = @ + 1]
  /\ UNCHANGED <<table, speed, main, todo, kernel>>

DeleteOldFilter(u) ==
  /\ MqttAt(u, "delete")
  /\ LET old == Filter(table[u].dest, table[u].mark) IN
       IF BagIn(old, filters)
       THEN /\ filters' = filters (-) SetToBag({old})
            /\ mqtt' = [mqtt EXCEPT ![u].at = "create"]
       ELSE /\ mqtt' = [mqtt EXCEPT ![u].at = "dead"]
            /\ UNCHANGED filters
  /\ UNCHANGED <<table, speed, main, todo, lines, rules, tc, routes, count>>

GetAvailMark(u) ==
  /\ MqttAt(u, "avail")
  /\ mqtt' = [mqtt EXCEPT ![u].mark = AvailMark, ![u].at = "create"]
  /\ UNCHANGED <<table, speed, main, todo, kernel, count>>

(* iptables has no mark None.                                              *)
CreateFilter(u) ==
  /\ MqttAt(u, "create")
  /\ IF mqtt[u].mark = None
     THEN /\ mqtt' = [mqtt EXCEPT ![u].at = "dead"]
          /\ UNCHANGED filters
     ELSE /\ filters' = filters (+) SetToBag({Filter(mqtt[u].dest, mqtt[u].mark)})
          /\ mqtt' = [mqtt EXCEPT ![u].at = IF table[u].mark = None
                                             THEN "mark" ELSE "dest"]
  /\ UNCHANGED <<table, speed, main, todo, lines, rules, tc, routes, count>>

SetMark(u) ==
  /\ MqttAt(u, "mark")
  /\ table' = [table EXCEPT ![u].mark = mqtt[u].mark]
  /\ mqtt' = [mqtt EXCEPT ![u].at = "rule"]
  /\ UNCHANGED <<speed, main, todo, kernel, count>>

CreateRule(u) ==
  /\ MqttAt(u, "rule")
  /\ rules' = rules \cup {[mark |-> mqtt[u].mark, user |-> u]}
  /\ mqtt' = [mqtt EXCEPT ![u].at = "dest"]
  /\ UNCHANGED <<table, speed, main, todo, lines, filters, tc, routes, count>>

(* Mutant: the destination is only kept when the mark is new.              *)
FirstDest(u) == IF table[u].dest = None THEN mqtt[u].dest ELSE table[u].dest
NewDest(u) == mqtt[u].dest

SetDest(u) ==
  /\ MqttAt(u, "dest")
  /\ table' = [table EXCEPT ![u].dest = NewDest(u)]
  /\ mqtt' = [mqtt EXCEPT ![u] = [at |-> "idle", dest |-> None, mark |-> None]]
  /\ UNCHANGED <<speed, main, todo, kernel, count>>

-----------------------------------------------------------------------------
(* The main thread: run_env.  An exception in it calls stop, which raises  *)
(* before it releases anything when the users have not been run yet.       *)

(* Each user in order gets the first number that neither a line of the     *)
(* file nor an earlier user has.                                           *)
AllocatedFrom(range, ids) ==
  {id \in [DOMAIN Users -> range \cup {None}] :
     \A i \in DOMAIN Users :
       id[i] = FirstFree(range, ids \cup {id[j] : j \in 1 .. i - 1})}

(* Mutant: the range includes its end.                                     *)
AllocatedBeyond(ids) == AllocatedFrom(TableIds \cup {1 + Cardinality(TableIds)}, ids)
Allocated(ids) == AllocatedFrom(TableIds, ids)

(* allocate_tables; a line "None" of an earlier process is no int.         *)
AllocateTables ==
  /\ main = "tables"
  /\ LET ids == {l.id : l \in lines} IN
       IF None \in ids
       THEN main' = "failed" /\ UNCHANGED <<table, lines>>
       ELSE \E id \in Allocated(ids) :
              /\ lines' = lines \cup {[id |-> id[i], user |-> Users[i]] : i \in DOMAIN Users}
              /\ table' = [u \in UserSet |->
                            [table[u] EXCEPT !.id = id[CHOOSE i \in DOMAIN Users : Users[i] = u]]]
              /\ main' = "speeds"
  /\ UNCHANGED <<speed, mqtt, todo, filters, rules, tc, routes, count>>

(* allocate_speeds, then run of every user: set_gw_ip gives its table a    *)
(* default route in place of one that may be there.  A handover replaces   *)
(* the route's gateway, which is left out.                                 *)
AllocateSpeeds ==
  /\ main = "speeds"
  /\ IF tc.root
     THEN main' = "failed" /\ UNCHANGED <<tc, routes>>
     ELSE /\ main' = "run"
          /\ tc' = [root |-> TRUE, filters |-> {}]
          /\ routes' = UserSet
  /\ UNCHANGED <<table, speed, mqtt, todo, lines, filters, rules, count>>

(* Mutant: no filter is added to a user's table that has a mark.           *)
NeedsMark(u) == table[u].mark = None
NeedsFilter(u) == ~table[u].have_filter

(* set_speed; tc refuses a second filter with the same handle.             *)
SetSpeed(u, s) ==
  /\ main = "run"
  /\ table[u].mark # None
  /\ s # speed[u]
  /\ IF NeedsFilter(u) /\ \E f \in tc.filters : f.mark = table[u].mark
     THEN main' = "stop" /\ UNCHANGED <<table, speed, tc>>
     ELSE /\ IF NeedsFilter(u)
             THEN tc' = [tc EXCEPT !.filters = @ \cup {[mark |-> table[u].mark, user |-> u]}]
             ELSE UNCHANGED tc
          /\ table' = [table EXCEPT ![u].have_filter = TRUE]
          /\ speed' = [speed EXCEPT ![u] = s]
          /\ UNCHANGED main
  /\ UNCHANGED <<mqtt, todo, lines, filters, rules, routes, count>>

(* The time is over, or a user reports an error.                           *)
EndsLoop ==
  /\ main = "run"
  /\ main' = "stop"
  /\ todo' = Users
  /\ UNCHANGED <<table, speed, mqtt, kernel, count>>

(* Mutant: the network threads are not waited for.                         *)
StoppedAtOnce == TRUE
Stopped == \A u \in UserSet : mqtt[u].at \in {"idle", "dead"}

(* stop: terminate joins the threads of every user.                        *)
Terminates ==
  /\ main = "stop"
  /\ Stopped
  /\ main' = "rule"
  /\ todo' = Users
  /\ UNCHANGED <<table, speed, mqtt, kernel, count>>

(* release_tables, one command at a time.                                  *)
ReleaseRule ==
  /\ main = "rule"
  /\ todo # <<>>
  /\ LET mark == table[Head(todo)].mark IN
       \/ mark = None /\ main' = "line" /\ UNCHANGED rules
       \/ \E r \in rules :
            /\ r.mark = mark
            /\ rules' = rules \ {r}
            /\ main' = "filter"
       \/ /\ mark # None
          /\ \A r \in rules : r.mark # mark
          /\ main' = "failed"
          /\ UNCHANGED rules
  /\ UNCHANGED <<table, speed, mqtt, todo, lines, filters, tc, routes, count>>

ReleaseFilter ==
  /\ main = "filter"
  /\ LET f == Filter(table[Head(todo)].dest, table[Head(todo)].mark) IN
       IF BagIn(f, filters)
       THEN main' = "line" /\ filters' = filters (-) SetToBag({f})
       ELSE main' = "failed" /\ UNCHANGED filters
  /\ UNCHANGED <<table, speed, mqtt, todo, lines, rules, tc, routes, count>>

ReleaseLine ==
  /\ main = "line"
  /\ lines' = {l \in lines : l.id # table[Head(todo)].id}
  /\ todo' = Tail(todo)
  /\ main' = "rule"
  /\ UNCHANGED <<table, speed, mqtt, filters, rules, tc, routes, count>>

(* clear_all                                                               *)
Clears ==
  /\ main = "rule"
  /\ todo = <<>>
  /\ main' = "ended"
  /\ tc' = NoQdisc
  /\ UNCHANGED <<table, speed, mqtt, todo, lines, filters, rules, routes, count>>

(* KeyboardInterrupt: run_simulation calls stop, from its beginning.       *)
Interrupt ==
  /\ main \in {"run", "stop", "rule", "filter", "line"}
  /\ count.interrupts < Interrupts
  /\ count' = [count EXCEPT !.interrupts = @ + 1]
  /\ main' = "stop"
  /\ todo' = Users
  /\ UNCHANGED <<table, speed, mqtt, kernel>>

(* The process is killed, and started again.                               *)
Crash ==
  /\ count.crashes < MaxCrashes
  /\ count' = [count EXCEPT !.crashes = @ + 1]
  /\ table' = [u \in UserSet |-> Entry]
  /\ speed' = [u \in UserSet |-> None]
  /\ mqtt' = [u \in UserSet |-> [at |-> "idle", dest |-> None, mark |-> None]]
  /\ main' = "tables"
  /\ todo' = Users
  /\ UNCHANGED kernel

UserSteps(u) ==
  \/ \E d \in Dests : SetFilter(u, d)
  \/ DeleteOldFilter(u) \/ GetAvailMark(u) \/ CreateFilter(u)
  \/ SetMark(u) \/ CreateRule(u) \/ SetDest(u)
  \/ \E s \in Speeds : SetSpeed(u, s)

Next ==
  \/ \E u \in UserSet : UserSteps(u)
  \/ AllocateTables \/ AllocateSpeeds \/ EndsLoop \/ Terminates
  \/ ReleaseRule \/ ReleaseFilter \/ ReleaseLine \/ Clears
  \/ Interrupt \/ Crash

Spec == Init /\ [][Next]_vars

-----------------------------------------------------------------------------
(* Types: a mark in a filter, a rule or a table is one of Marks, and the   *)
(* lines of rt_tables (route.py:102-111) name a number or None.            *)
TypeOK ==
  /\ \A u \in UserSet :
       /\ table[u].mark \in Marks \cup {None}
       /\ table[u].dest \in Dests \cup {None}
       /\ table[u].id \in TableIds \cup {0, None}
       /\ speed[u] \in Speeds \cup {None}
  /\ main \in {"tables", "speeds", "run", "stop", "rule", "filter", "line",
               "ended", "failed"}
  /\ \A l \in lines : l.id \in TableIds \cup {None} /\ l.user \in UserSet
  /\ \A f \in BagToSet(filters) : f.mark \in Marks /\ f.dest \in Dests
  /\ \A r \in rules : r.mark \in Marks /\ r.user \in UserSet
  /\ \A f \in tc.filters : tc.root /\ f.mark \in Marks /\ f.user \in UserSet
  /\ routes \subseteq UserSet

(* No kill and no interrupt so far.                                        *)
Undisturbed == count.crashes = 0 /\ count.interrupts = 0

(* The users through whose tables packets to d may go: a filter gives them *)
(* a mark, a rule leads the mark to a table.  When several do, iptables'   *)
(* last filter and the first rule of ip decide, which are left out.        *)
Leads(d) == {r.user : r \in {q \in rules : BagIn(Filter(d, q.mark), filters)}}

(* No other user has, or is just getting, the mark or the destination of u.*)
Alone(u) ==
  \A v \in UserSet \ {u} :
    /\ table[u].mark \notin {table[v].mark, mqtt[v].mark}
    /\ table[u].dest \notin {table[v].dest, mqtt[v].dest}

(* Whenever a user's thread is not in set_filter and nothing is released   *)
(* yet, what the table says is what the kernel does (route.py:123-138):    *)
(* the filter and the rule that take the packets to the user's service     *)
(* through the user's table are there.  If no other user has its mark or   *)
(* its destination, the packets go through that table and no other, and    *)
(* it takes no packets to a place the service has left.  Two users that    *)
(* get the same mark at once (MarksUnique fails) lose the second part.     *)
Routed ==
  Undisturbed /\ main \in {"run", "stop"} =>
    \A u \in UserSet : MqttAt(u, "idle") /\ table[u].mark # None =>
      /\ u \in Leads(table[u].dest)
      /\ Alone(u) =>
           /\ Leads(table[u].dest) = {u}
           /\ \A d \in Dests \ {table[u].dest} : u \notin Leads(d)

(* The filter of tc sends the packets of a mark to the class of the user   *)
(* whose table has the mark, once have_filter says so; and a class with a  *)
(* speed has its filter (datarate.py:129-159).                             *)
Shaped ==
  main = "run" =>
    \A u \in UserSet :
      /\ table[u].have_filter <=> [mark |-> table[u].mark, user |-> u] \in tc.filters
      /\ speed[u] # None => table[u].have_filter

(* A simulation that reaches the end of stop, whatever the threads of the  *)
(* users were doing when it began, has taken back its lines, filters and   *)
(* rules and the qdisc (route.py:140-150, datarate.py:93-100).  It leaves  *)
(* the default routes: release_tables, which is to "Clear all settings"    *)
(* (142), does not delete what set_gw_ip has added (113-121).              *)
Clean ==
  Undisturbed /\ main = "ended" =>
    /\ lines = {} /\ filters = EmptyBag /\ rules = {} /\ tc = NoQdisc
    /\ routes = UserSet

(* The note of get_mark_table (route.py:18-22) promises that concurrent    *)
(* users do not conflict: no two of them get the same mark.                *)
MarksUnique ==
  \A u, v \in UserSet :
    u # v /\ table[u].mark # None => table[u].mark # table[v].mark

(* "Node exists, remove it and try again" (datarate.py:69): a qdisc root   *)
(* that is left of a killed simulation does not stop the next one.         *)
StartsAgain == main = "failed" => None \in {l.id : l \in lines}
=============================================================================
