-------------------------- MODULE CentralController --------------------------
(***************************************************************************)
(* The centralized controller (centralized_controller.py): its MQTT        *)
(* handlers, the planners they run (planner.py, optimization_planner.py),  *)
(* the timer threads they start, and the rows of the database              *)
(* (central_database.py) that name the service and the base station of     *)
(* every end user.                                                         *)
(*                                                                         *)
(* Every message is handled by one thread, the MQTT thread.  The planner   *)
(* of OPTIMIZED_PLAN also starts timers; each runs one trigger_ method in  *)
(* a thread of its own, and nothing locks migration_state, migrating_plan  *)
(* or handover_plan.  A method that reads one of them and writes it later  *)
(* is cut in between.  An exception that leaves a handler leaves           *)
(* loop_forever as well, and the controller exits: mqtt.at = "dead".       *)
(*                                                                         *)
(* Edge servers and users appear as what answers the orders.  MigrateService*)
(* is the module about how they do it.  Orders reach one receiver in the   *)
(* order they were published; notices of one sender reach the controller   *)
(* in order, those of different senders in any order unless InOrder.       *)
(***************************************************************************)
EXTENDS Naturals, Sequences, FiniteSets

CONSTANTS
  Users,           \* end users
  Apps,            \* the applications a user can ask for
  Servers,         \* edge servers, all alive (Membership is about the rest)
  Stations,        \* base stations the database knows
  NoServer,        \* "no server"
  NoStation,       \* "no base station"
  NoApp,           \* "no application"
  Setups           \* the controllers to look at, and their bounds

(* How a controller is set up, who and what it meets, and how often.       *)
SetupSet ==
  [users : SUBSET Users,           \* those that are there
   apps : SUBSET Apps, stations : SUBSET Stations,
   optimized : BOOLEAN,            \* OPTIMIZED_PLAN, or a threshold planner
   preemptive : BOOLEAN,           \* threads interleave within a method
   inOrder : BOOLEAN,              \* notices arrive as they were published
   leaving : BOOLEAN,              \* users may leave
   failing : BOOLEAN,              \* a container may fail to start
   discoveries : Nat,              \* bound: discoveries of each user
   plans : Nat]                    \* bound: plans computed

ASSUME CentralAssumption ==
  /\ NoServer \notin Servers \cup Users
  /\ NoStation \notin Stations
  /\ NoApp \notin Apps
  /\ \A x \in Setups : x \in SetupSet

VARIABLES
  setup,        \* how this controller is set up: it never changes
  user,         \* [user]: row of end_user_info, its bts and its service
  service,      \* [user][app]: row of service_info, its server and its state
  mstate,       \* [user]: migration_state, the set of bits
  migPlan,      \* [user]: migrating_plan
  hoPlan,       \* [user]: handover_plan
  mqtt,         \* what the MQTT thread is doing
  timers,       \* the timers that wait and the timer threads that run
  inbox,        \* [server or user]: orders on their way to it
  runs,         \* containers that run: <<user, app, server>>
  present,      \* users that are connected
  notices,      \* messages on their way to the controller
  discoveries,  \* [user]: number of discoveries so far
  plans         \* number of plans computed so far

dbVars == <<user, service>>
planVars == <<migPlan, hoPlan>>
worldVars == <<inbox, runs, present>>
boundVars == <<discoveries, plans>>
vars == <<setup, dbVars, mstate, planVars, mqtt, timers, worldVars, notices, boundVars>>

-----------------------------------------------------------------------------
(* Data.                                                                   *)

Optimized == setup.optimized
Preemptive == setup.preemptive
InOrder == setup.inOrder
MaxPlans == setup.plans

Bits == {"RUNNING", "PRE_MIGRATE", "PRE_MIGRATED", "MIGRATE", "HANDOVER",
         "HANDOVERED"}
INIT == {}
RUNNING == {"RUNNING"}
Unknown == {"unknown"}          \* the user is no key of migration_state
Migrating == {"PRE_MIGRATE", "PRE_MIGRATED", "MIGRATE"}
MigratingStates == {"init", "pre_migrate", "pre_migrated", "migrate"}

NoUser == [bts |-> NoStation, app |-> NoApp]
NoRow == [server |-> NoServer, state |-> "none"]
UserRows == {NoUser} \cup [bts : Stations, app : Apps \cup {NoApp}]
ServiceRows == {NoRow} \cup
  [server : Servers, state : {"init", "running", "pre_migrate", "pre_migrated"}]

(* A PlanResult of one user.  n tells plans with the same target apart.    *)
Plan(b, s, n) == [bts |-> b, server |-> s, n |-> n]
NoPlan == Plan(NoStation, NoServer, 0)
PlanSet == [bts : Stations, server : Servers, n : 1 .. MaxPlans]

Order(kind, u, a, p) == [kind |-> kind, user |-> u, app |-> a, plan |-> p]
Orders == [kind : {"deploy", "destroy", "pre_migrate", "migrate", "handover"},
           user : Users, app : Apps \cup {NoApp}, plan : PlanSet \cup {NoPlan}]

Notice(kind, u, a, from, p) ==
  [kind |-> kind, user |-> u, app |-> a, from |-> from, plan |-> p]
NoticeSet == [kind : {"allocated", "pre_migrated", "migrated", "handovered",
                      "leave"},
              user : Users, app : Apps \cup {NoApp}, from : Servers \cup Users,
              plan : PlanSet \cup {NoPlan}]

(* A timer: the method it runs, its arguments, how far it has come, and    *)
(* the m_state it has read.                                                *)
Timer(kind, u, a, src, p) ==
  [kind |-> kind, user |-> u, app |-> a, src |-> src, plan |-> p,
   stage |-> "waiting", m |-> {}]
Timers == [kind : {"pre_migration", "migration", "handover"}, user : Users,
           app : Apps, src : Servers, plan : PlanSet,
           stage : {"waiting", "read", "published"}, m : SUBSET Bits]

Idle == [at |-> "idle"]
Dead == [at |-> "dead"]

-----------------------------------------------------------------------------
(* The database.                                                           *)

(* get_service: the service the row of the user refers to.                 *)
GetService(u) == IF user[u].app = NoApp THEN NoRow ELSE service[u][user[u].app]

SetState(u, state) == [service EXCEPT ![u][user[u].app].state = state]

(* update_service on a row that exists.  A message about another app       *)
(* renames the row, and the user keeps referring to the old name; the name *)
(* of a row left over from an earlier visit cannot be taken.               *)
Renames(u, a) == a # user[u].app
NameTaken(u, a) == Renames(u, a) /\ service[u][a] # NoRow
UpdateService(u, a, s) ==
  [service EXCEPT ![u] = [x \in Apps |->
     CASE x = a -> [server |-> s, state |-> "running"]
       [] x # a /\ x = user[u].app -> NoRow
       [] OTHER -> service[u][x]]]

Init ==
  /\ setup \in Setups
  /\ user = [u \in Users |-> NoUser]
  /\ service = [u \in Users |-> [a \in Apps |-> NoRow]]
  /\ mstate = [u \in Users |-> Unknown]
  /\ migPlan = [u \in Users |-> NoPlan]
  /\ hoPlan = [u \in Users |-> NoPlan]
  /\ mqtt = Idle
  /\ timers = {}
  /\ inbox = [r \in Servers \cup Users |-> <<>>]
  /\ runs = {}
  /\ present = {}
  /\ notices = <<>>
  /\ discoveries = [u \in Users |-> 0]
  /\ plans = 0

-----------------------------------------------------------------------------
(* Threads.  When threads do not preempt each other, one that has begun a  *)
(* method finishes it before another one starts.                           *)

Begun == {t \in timers : t.stage # "waiting"}
MayStart == Preemptive \/ (Begun = {} /\ mqtt.at \in {"idle", "dead"})
MayContinue(t) == Preemptive \/ t.stage # "waiting" \/ MayStart
MqttIdle == mqtt = Idle /\ (Preemptive \/ Begun = {})

Publish(r, o) == inbox' = [inbox EXCEPT ![r] = Append(@, o)]

(* The message the MQTT thread handles next, and the ones that remain.     *)
Arrived(i) ==
  /\ i \in DOMAIN notices
  /\ \A j \in 1 .. i - 1 : ~InOrder /\ notices[j].from # notices[i].from
Rest(i) == SubSeq(notices, 1, i - 1) \o SubSeq(notices, i + 1, Len(notices))

Receive(kind, i) == /\ MqttIdle
                    /\ Arrived(i)
                    /\ notices[i].kind = kind
                    /\ notices' = Rest(i)

-----------------------------------------------------------------------------
(* process_discovery.  A user publishes after the messages it has on their *)
(* way; a discovery at an unknown base station is ignored.                 *)

MayDiscover(u) ==
  /\ MqttIdle
  /\ discoveries[u] < setup.discoveries
  /\ \A i \in DOMAIN notices : notices[i].from # u
  /\ discoveries' = [discoveries EXCEPT ![u] = @ + 1]
  /\ present' = present \cup {u}

Known(u, a) == GetService(u) # NoRow /\ user[u].app = a

(* The service is being deployed: wait for the edge.  (No code assigns the *)
(* state 'migration', so the branch for it is never taken.)                *)
DiscoverWait(u, a) ==
  /\ MayDiscover(u)
  /\ Known(u, a)
  /\ GetService(u).state = "init"
  /\ UNCHANGED <<dbVars, mstate, planVars, mqtt, timers, inbox, runs, notices,
                 plans>>

(* The service is known: deploy it again on the server it is on.           *)
DiscoverAgain(u, a) ==
  /\ MayDiscover(u)
  /\ Known(u, a)
  /\ GetService(u).state # "init"
  /\ Publish(GetService(u).server, Order("deploy", u, a, NoPlan))
  /\ UNCHANGED <<dbVars, mstate, planVars, mqtt, timers, runs, notices, plans>>

(* destroy_service deletes both rows and tells the server.                 *)
DestroyOrder(u) == Order("destroy", u, user[u].app, NoPlan)
Destroyed(u) ==
  IF GetService(u) = NoRow THEN service
  ELSE [service EXCEPT ![u][user[u].app] = NoRow]

(* A new service, or another one than the user has: destroy the old one,   *)
(* place the new one on s, insert its row.  If a row of that name is left  *)
(* over the insertion raises.                                              *)
DiscoverNew(u, a, b, s) ==
  LET old == GetService(u) IN
  /\ MayDiscover(u)
  /\ ~Known(u, a)
  /\ IF Destroyed(u)[u][a] # NoRow
     THEN /\ mqtt' = Dead
          /\ user' = [user EXCEPT ![u] =
               [bts |-> b, app |-> IF old = NoRow THEN @.app ELSE NoApp]]
          /\ service' = Destroyed(u)
          /\ inbox' = IF old = NoRow THEN inbox
                      ELSE [inbox EXCEPT ![old.server] =
                              Append(@, DestroyOrder(u))]
          /\ UNCHANGED mstate
     ELSE /\ user' = [user EXCEPT ![u] = [bts |-> b, app |-> a]]
          /\ service' = [Destroyed(u) EXCEPT ![u][a] =
                           [server |-> s, state |-> "init"]]
          /\ mstate' = [mstate EXCEPT ![u] = INIT]
          /\ inbox' = [r \in DOMAIN inbox |->
               inbox[r]
               \o (IF r = old.server THEN <<DestroyOrder(u)>> ELSE <<>>)
               \o (IF r = s THEN <<Order("deploy", u, a, NoPlan)>> ELSE <<>>)]
          /\ UNCHANGED mqtt
  /\ UNCHANGED <<planVars, timers, runs, notices, plans>>

-----------------------------------------------------------------------------
(* process_allocated.                                                      *)

(* The service has a row: it runs where the notice says.                   *)
AllocatedKnown(i) ==
  LET n == notices[i]
      u == n.user
  IN /\ Receive("allocated", i)
     /\ GetService(u) # NoRow
     /\ mstate' = [mstate EXCEPT ![u] = RUNNING]
     /\ IF NameTaken(u, n.app)
        THEN mqtt' = Dead /\ UNCHANGED service
        ELSE service' = UpdateService(u, n.app, n.from) /\ UNCHANGED mqtt
     /\ UNCHANGED <<user, planVars, timers, worldVars, boundVars>>

(* The user has left, or refers to no row: register_service adds a row and *)
(* then either fails, silently, to find the user, or makes it refer to it. *)
(* Mutant: a row of end_user_info is made up for a user that has none. *)
RefersMadeUp(u, a) == [user EXCEPT ![u].app = a]

Refers(u, a) == [user EXCEPT ![u].app = IF user[u] = NoUser THEN @ ELSE a]

AllocatedUnknown(i) ==
  LET n == notices[i]
      u == n.user
  IN /\ Receive("allocated", i)
     /\ GetService(u) = NoRow
     /\ mstate' = [mstate EXCEPT ![u] = RUNNING]
     /\ IF service[u][n.app] # NoRow
        THEN mqtt' = Dead /\ UNCHANGED dbVars
        ELSE /\ service' = [service EXCEPT ![u][n.app] =
                             [server |-> n.from, state |-> "running"]]
             /\ user' = Refers(u, n.app)
             /\ UNCHANGED mqtt
     /\ UNCHANGED <<planVars, timers, worldVars, boundVars>>

-----------------------------------------------------------------------------
(* Handover and migration.  Begin and End are the part of a trigger_ method*)
(* before and after it publishes.                                          *)

HandoverAllowed(u) ==
  /\ hoPlan[u] # NoPlan
  /\ mstate[u] # Unknown
  /\ mstate[u] \cap {"HANDOVER", "HANDOVERED"} = {}

MigrationAllowed(u) ==
  /\ mstate[u] # Unknown
  /\ "MIGRATE" \notin mstate[u]
  /\ mstate[u] # RUNNING

(* trigger_migration drops the stored plan of a service that runs well.    *)
PlanDropped(u) ==
  IF mstate[u] = RUNNING THEN [migPlan EXCEPT ![u] = NoPlan] ELSE migPlan

-----------------------------------------------------------------------------
(* The planners.  compute_plan looks at every user row and returns some    *)
(* plans that differ from the current assignment, at most one per user;    *)
(* process_monitor_eu or process_monitor_service starts it when the user   *)
(* that reports is not migrating.                                          *)

Assigned(u) == [bts |-> user[u].bts, server |-> GetService(u).server]

Reports(u) ==
  /\ MqttIdle
  /\ plans < MaxPlans
  /\ mstate[u] # Unknown
  /\ mstate[u] \cap Migrating = {}

PlansOf(S) == {P \in [S -> setup.stations \X Servers] :
                 \A u \in S : <<Assigned(u).bts, Assigned(u).server>> # P[u]}

ComputePlan(u) ==
  /\ Reports(u)
  /\ \E S \in (SUBSET {v \in Users : user[v] # NoUser}) \ {{}} :
       \E P \in PlansOf(S) :
         mqtt' = [at |-> "planning", n |-> plans + 1,
                  todo |-> {<<v, Plan(P[v][1], P[v][2], plans + 1)>> : v \in S}]
  /\ plans' = plans + 1
  /\ UNCHANGED <<dbVars, mstate, planVars, timers, worldVars, notices,
                 discoveries>>

(* The next plan of the list; a plan for a user without a service raises   *)
(* (its server_name is read before it is tested), one for a user without   *)
(* migration_state ends the loop.                                          *)
NextPlan(x) ==
  /\ mqtt.at = "planning"
  /\ x \in mqtt.todo
  /\ mqtt' = IF GetService(x[1]) = NoRow THEN Dead
             ELSE IF mstate[x[1]] = Unknown \/ mqtt.todo = {x} THEN Idle
             ELSE [mqtt EXCEPT !.todo = @ \ {x}]

NothingPlanned(x) ==
  /\ NextPlan(x)
  /\ GetService(x[1]) = NoRow \/ mstate[x[1]] = Unknown
  /\ UNCHANGED <<dbVars, mstate, planVars, timers, worldVars, notices, boundVars>>

(* trigger_other_planners for one plan: a handover if the station differs, *)
(* then, if the server differs and no migration goes on, both orders.      *)
(* Mutant: the state of the service is not looked at. *)
StartsMigrationAlways(u, p) == p.server # GetService(u).server

StartsMigration(u, p) == /\ p.server # GetService(u).server
                         /\ GetService(u).state \notin MigratingStates

ThresholdBits(u, p, handover, migrate) ==
  mstate[u]
  \cup (IF handover THEN {"HANDOVER"} ELSE {})
  \cup (IF migrate THEN {"PRE_MIGRATE"} ELSE {})

(* The server a move is ordered from, kept as it was before the service's  *)
(* JSON is given the server of the plan.                                   *)
(* Mutant: the server is read from the JSON that has been changed. *)
SourceChanged(u, p) == p.server

Source(u, p) == GetService(u).server

PlanThreshold(x) ==
  LET u == x[1]
      p == x[2]
      src == Source(u, p)
      handover == p.bts # user[u].bts
      ordered == handover /\ mstate[u] \cap {"HANDOVER", "HANDOVERED"} = {}
      migrate == StartsMigration(u, p)
      sent == migrate /\ "MIGRATE" \notin mstate[u]
      a == user[u].app
  IN /\ ~Optimized
     /\ NextPlan(x)
     /\ GetService(u) # NoRow
     /\ mstate[u] # Unknown
     /\ hoPlan' = [hoPlan EXCEPT ![u] =
                     IF ordered THEN NoPlan ELSE IF handover THEN p ELSE @]
     /\ service' = IF migrate THEN SetState(u, "pre_migrate") ELSE service
     /\ mstate' = [mstate EXCEPT ![u] =
                     ThresholdBits(u, p, handover, migrate)
                     \cup (IF sent THEN {"MIGRATE"} ELSE {})]
     /\ migPlan' = [migPlan EXCEPT ![u] =
                      IF sent THEN NoPlan ELSE IF migrate THEN p ELSE @]
     /\ inbox' = [r \in DOMAIN inbox |-> inbox[r]
          \o (IF r = u /\ ordered
              THEN <<Order("handover", u, NoApp, p)>> ELSE <<>>)
          \o (IF r = src /\ migrate
              THEN <<Order("pre_migrate", u, a, p)>> ELSE <<>>)
          \o (IF r = src /\ sent
              THEN <<Order("migrate", u, a, p)>> ELSE <<>>)]
     /\ UNCHANGED <<user, timers, runs, present, notices, boundVars>>

(* Lifetimes to a (pre-)migration, as far as the code tells them apart.    *)
(* There is none without measurements; without a change of station it is   *)
(* zero.                                                                   *)
Lifetimes(u, b) ==
  IF b = user[u].bts THEN {"none", "now"} ELSE {"none", "now", "soon", "far"}

Waiting(t) == timers' = timers \cup {t}

(* run_optimization_planner for one plan, the user not migrating: a move   *)
(* waits for the time of its pre-migration, its plan is stored at once.    *)
PlanMove(x) ==
  LET u == x[1]
      p == x[2]
      src == Source(u, p)
  IN /\ Optimized
     /\ NextPlan(x)
     /\ GetService(u) # NoRow
     /\ mstate[u] # Unknown
     /\ mstate[u] \cap Migrating = {}
     /\ p.server # src
     /\ Lifetimes(u, p.bts) \cap {"now", "soon"} # {}
     /\ Waiting(Timer("pre_migration", u, user[u].app, src, p))
     /\ migPlan' = [migPlan EXCEPT ![u] = p]
     /\ hoPlan' = [hoPlan EXCEPT ![u] = IF p.bts # user[u].bts THEN p ELSE @]
     /\ UNCHANGED <<dbVars, mstate, worldVars, notices, boundVars>>

(* Only the station changes, and soon.                                     *)
PlanHandover(x) ==
  LET u == x[1]
      p == x[2]
  IN /\ Optimized
     /\ NextPlan(x)
     /\ GetService(u) # NoRow
     /\ mstate[u] # Unknown
     /\ mstate[u] \cap Migrating = {}
     /\ p.server = GetService(u).server
     /\ p.bts # user[u].bts
     /\ "now" \in Lifetimes(u, p.bts)
     /\ Waiting(Timer("handover", u, user[u].app, p.server, p))
     /\ hoPlan' = [hoPlan EXCEPT ![u] = p]
     /\ UNCHANGED <<dbVars, mstate, migPlan, worldVars, notices, boundVars>>

(* A plan that is too far ahead, not estimated, or for a user that a timer *)
(* thread has meanwhile begun to migrate.                                  *)
PlanPassedOver(x) ==
  /\ Optimized
  /\ NextPlan(x)
  /\ GetService(x[1]) # NoRow
  /\ mstate[x[1]] # Unknown
  /\ \/ mstate[x[1]] \cap Migrating # {}
     \/ Lifetimes(x[1], x[2].bts) \cap {"none", "far"} # {}
  /\ UNCHANGED <<dbVars, mstate, planVars, timers, worldVars, notices, boundVars>>

-----------------------------------------------------------------------------
(* The timer threads.  "waiting": not expired yet; "read": m_state read    *)
(* and tested; "published": the bit set and the order published, the       *)
(* stored plan still to be deleted.                                        *)

Replace(t, stage, m) ==
  timers' = (timers \ {t}) \cup {[t EXCEPT !.stage = stage, !.m = m]}
Finish(t) == timers' = timers \ {t}

TimerAllowed(t) ==
  CASE t.kind = "handover" -> HandoverAllowed(t.user)
    [] t.kind = "migration" -> MigrationAllowed(t.user)
    [] t.kind = "pre_migration" ->
         /\ mstate[t.user] # Unknown
         /\ mstate[t.user] \cap {"PRE_MIGRATE", "MIGRATE"} = {}

TimerExpires(t) ==
  /\ t.stage = "waiting"
  /\ MayStart
  /\ IF TimerAllowed(t)
     THEN Replace(t, "read", mstate[t.user]) /\ UNCHANGED migPlan
     ELSE /\ Finish(t)
          /\ migPlan' = IF t.kind = "migration" THEN PlanDropped(t.user)
                        ELSE migPlan
  /\ UNCHANGED <<dbVars, mstate, hoPlan, mqtt, worldVars, notices, boundVars>>

(* trigger_handover writes back what it has read; the others use |=.       *)
TimerBits(t) ==
  CASE t.kind = "handover" -> t.m \cup {"HANDOVER"}
    [] t.kind = "migration" -> mstate[t.user] \cup {"MIGRATE"}
    [] t.kind = "pre_migration" -> mstate[t.user] \cup {"PRE_MIGRATE"}

TimerOrder(t) ==
  CASE t.kind = "handover" -> Order("handover", t.user, NoApp, t.plan)
    [] t.kind = "migration" -> Order("migrate", t.user, t.app, t.plan)
    [] t.kind = "pre_migration" -> Order("pre_migrate", t.user, t.app, t.plan)

TimerPublishes(t) ==
  /\ t.stage = "read"
  /\ mstate' = [mstate EXCEPT ![t.user] = TimerBits(t)]
  /\ Publish(IF t.kind = "handover" THEN t.user ELSE t.src, TimerOrder(t))
  /\ Replace(t, "published", {})
  /\ UNCHANGED <<dbVars, planVars, mqtt, runs, present, notices,
                 boundVars>>

TimerEnds(t) ==
  /\ t.stage = "published"
  /\ Finish(t)
  /\ migPlan' = IF t.kind = "migration"
                THEN [migPlan EXCEPT ![t.user] = NoPlan] ELSE migPlan
  /\ hoPlan' = IF t.kind = "handover"
               THEN [hoPlan EXCEPT ![t.user] = NoPlan] ELSE hoPlan
  /\ UNCHANGED <<dbVars, mstate, mqtt, worldVars, notices, boundVars>>

-----------------------------------------------------------------------------
(* process_pre_migrated.                                                   *)

SamePlace(p, q) == p.bts = q.bts /\ p.server = q.server

(* A threshold planner: the stored plan, if it is still there, is migrated *)
(* from the server the database names.                                     *)
PreMigratedThreshold(i) ==
  LET n == notices[i]
      u == n.user
      p == migPlan[u]
      matches == p # NoPlan /\ SamePlace(p, n.plan)
      sends == matches /\ MigrationAllowed(u)
  IN /\ ~Optimized
     /\ Receive("pre_migrated", i)
     /\ service' = IF GetService(u) = NoRow THEN service
                   ELSE SetState(u, "pre_migrated")
     /\ IF GetService(u) # NoRow /\ sends
        THEN /\ mstate' = [mstate EXCEPT ![u] = @ \cup {"MIGRATE"}]
             /\ Publish(GetService(u).server, Order("migrate", u, user[u].app, p))
             /\ migPlan' = [migPlan EXCEPT ![u] = NoPlan]
        ELSE /\ migPlan' = IF GetService(u) # NoRow /\ matches
                           THEN PlanDropped(u) ELSE migPlan
             /\ UNCHANGED <<mstate, inbox>>
     /\ UNCHANGED <<user, hoPlan, mqtt, timers, runs, present, boundVars>>

(* OPTIMIZED_PLAN: the state is marked and m_state read ...                *)
PreMigratedRead(i) ==
  LET n == notices[i]
      u == n.user
  IN /\ Optimized
     /\ Receive("pre_migrated", i)
     /\ IF GetService(u) = NoRow THEN UNCHANGED <<service, mqtt>>
        ELSE /\ service' = SetState(u, "pre_migrated")
             /\ mqtt' = IF mstate[u] = Unknown THEN Idle
                        ELSE [at |-> "pre_migrated", user |-> u, plan |-> n.plan,
                              m |-> mstate[u]]
     /\ UNCHANGED <<user, mstate, planVars, timers, worldVars, boundVars>>

(* ... then PRE_MIGRATED is written into what was read ...                 *)
PreMigratedMark ==
  /\ mqtt.at = "pre_migrated"
  /\ mstate' = [mstate EXCEPT ![mqtt.user] = mqtt.m \cup {"PRE_MIGRATED"}]
  /\ mqtt' = [mqtt EXCEPT !.at = "estimating"]
  /\ UNCHANGED <<dbVars, planVars, timers, worldVars, notices, boundVars>>

(* ... and the time to the migration estimated: none, nothing more happens;*)
PreMigratedUnknown ==
  /\ mqtt.at = "estimating"
  /\ "none" \in Lifetimes(mqtt.user, mqtt.plan.bts)
  /\ mqtt' = Idle
  /\ UNCHANGED <<dbVars, mstate, planVars, timers, worldVars, notices, boundVars>>

(* too far away, the service stays where it is;                            *)
PreMigratedStays ==
  /\ mqtt.at = "estimating"
  /\ "far" \in Lifetimes(mqtt.user, mqtt.plan.bts)
  /\ service' = SetState(mqtt.user, "running")
  /\ mstate' = [mstate EXCEPT ![mqtt.user] = RUNNING]
  /\ migPlan' = [migPlan EXCEPT ![mqtt.user] = NoPlan]
  /\ hoPlan' = [hoPlan EXCEPT ![mqtt.user] = NoPlan]
  /\ mqtt' = Idle
  /\ UNCHANGED <<user, timers, worldVars, notices, boundVars>>

(* else the handover and the migration get their timers, if m_state, as    *)
(* read at the beginning, has no bit for them and a plan is stored.        *)
PreMigratedSchedule ==
  LET u == mqtt.user
      src == GetService(u).server
      handover == "HANDOVER" \notin mqtt.m /\ hoPlan[u] # NoPlan
      migrate == /\ "MIGRATE" \notin mqtt.m
                 /\ migPlan[u] # NoPlan
                 /\ SamePlace(migPlan[u], mqtt.plan)
  IN /\ mqtt.at = "estimating"
     /\ Lifetimes(u, mqtt.plan.bts) \cap {"now", "soon"} # {}
     /\ timers' = timers
          \cup (IF handover
                THEN {Timer("handover", u, user[u].app, src, hoPlan[u])} ELSE {})
          \cup (IF migrate
                THEN {Timer("migration", u, user[u].app, src, migPlan[u])}
                ELSE {})
     /\ mqtt' = Idle
     /\ UNCHANGED <<dbVars, mstate, planVars, worldVars, notices, boundVars>>

-----------------------------------------------------------------------------
(* process_migrated, process_handovered, process_eu_notification.          *)

(* Mutant: the server of the service is not updated. *)
MigratedStays(u, a, s) == SetState(u, "running")

MigratedRow(u, a, s) == UpdateService(u, a, s)

(* Mutant: RUNNING is added to the bits. *)
MigratedBitsKept(u) ==
  [mstate EXCEPT ![u] = IF @ = Unknown THEN @ ELSE @ \cup RUNNING]

MigratedBits(u) ==
  [mstate EXCEPT ![u] = IF @ = Unknown THEN @ ELSE RUNNING]

Migrated(i) ==
  LET n == notices[i]
      u == n.user
  IN /\ Receive("migrated", i)
     /\ IF GetService(u) # NoRow /\ NameTaken(u, n.app)
        THEN mqtt' = Dead /\ UNCHANGED <<service, mstate>>
        ELSE /\ service' = IF GetService(u) = NoRow THEN service
                           ELSE MigratedRow(u, n.app, n.from)
             /\ mstate' = MigratedBits(u)
             /\ UNCHANGED mqtt
     /\ UNCHANGED <<user, planVars, timers, worldVars, boundVars>>

(* The station of the user is updated (which raises without a user row),   *)
(* m_state read ...                                                        *)
HandoveredRead(i) ==
  LET n == notices[i]
      u == n.user
  IN /\ Receive("handovered", i)
     /\ IF user[u] = NoUser
        THEN mqtt' = Dead /\ UNCHANGED user
        ELSE /\ user' = [user EXCEPT ![u].bts = n.plan.bts]
             /\ mqtt' = IF mstate[u] \in {Unknown, RUNNING} THEN Idle
                        ELSE [at |-> "handovered", user |-> u, m |-> mstate[u]]
     /\ UNCHANGED <<service, mstate, planVars, timers, worldVars, boundVars>>

(* ... and written back: RUNNING if no pre-migration was seen.             *)
(* Mutant: the state is always reset. *)
HandoveredBitsReset(m) == RUNNING

HandoveredBits(m) ==
  IF "PRE_MIGRATE" \in m THEN m \cup {"HANDOVERED"} ELSE RUNNING

HandoveredWrite ==
  /\ mqtt.at = "handovered"
  /\ mstate' = [mstate EXCEPT ![mqtt.user] = HandoveredBits(mqtt.m)]
  /\ mqtt' = Idle
  /\ UNCHANGED <<dbVars, planVars, timers, worldVars, notices, boundVars>>

(* The last will of a user: its service is destroyed and both rows go.     *)
(* Mutant: the row of the user stays, without a service. *)
UserGoneRowKept(u) == [user EXCEPT ![u].app = NoApp]

UserGone(u) == [user EXCEPT ![u] = NoUser]

Left(i) ==
  LET u == notices[i].user IN
  /\ Receive("leave", i)
  /\ IF GetService(u) = NoRow THEN UNCHANGED <<dbVars, inbox>>
     ELSE /\ service' = Destroyed(u)
          /\ user' = UserGone(u)
          /\ Publish(GetService(u).server, DestroyOrder(u))
  /\ UNCHANGED <<mstate, planVars, mqtt, timers, runs, present, boundVars>>

-----------------------------------------------------------------------------
(* The edge servers (edge_controller.py) and the users, as far as the      *)
(* controller sees them.  A server that does not have the service drops    *)
(* the order and tells nobody.  One whose container does not start sends   *)
(* an ALLOCATED without a service (edge_controller.py, line 377), which    *)
(* process_allocated ignores (line 556): the row stays as it was, and so   *)
(* the notice is left out.                                                 *)

Take(r, kind) == /\ inbox[r] # <<>>
                 /\ Head(inbox[r]).kind = kind
                 /\ inbox' = [inbox EXCEPT ![r] = Tail(@)]
                 /\ UNCHANGED present
Tell(n) == notices' = Append(notices, n)

EdgeDeploys(s) ==
  LET o == Head(inbox[s]) IN
  /\ Take(s, "deploy")
  /\ \/ /\ runs' = runs \cup {<<o.user, o.app, s>>}
        /\ Tell(Notice("allocated", o.user, o.app, s, NoPlan))
     \/ setup.failing /\ UNCHANGED <<runs, notices>>

EdgeDestroys(s) ==
  LET o == Head(inbox[s]) IN
  /\ Take(s, "destroy")
  /\ runs' = runs \ {<<o.user, o.app, s>>}
  /\ UNCHANGED notices

EdgePreMigrates(s) ==
  LET o == Head(inbox[s]) IN
  /\ Take(s, "pre_migrate")
  /\ IF o.plan.server = s \/ <<o.user, o.app, s>> \in runs
     THEN Tell(Notice("pre_migrated", o.user, o.app, s, o.plan))
     ELSE UNCHANGED notices
  /\ UNCHANGED runs

EdgeMigrates(s) ==
  LET o == Head(inbox[s])
      d == o.plan.server
  IN /\ Take(s, "migrate")
     /\ IF d # s /\ <<o.user, o.app, s>> \in runs
        THEN /\ runs' = (runs \ {<<o.user, o.app, s>>})
                          \cup {<<o.user, o.app, d>>}
             /\ Tell(Notice("migrated", o.user, o.app, d, o.plan))
        ELSE UNCHANGED <<runs, notices>>

UserHandsOver(u) ==
  /\ Take(u, "handover")
  /\ IF u \in present
     THEN Tell(Notice("handovered", u, NoApp, u, Head(inbox[u]).plan))
     ELSE UNCHANGED notices
  /\ UNCHANGED runs

UserLeaves(u) ==
  /\ setup.leaving
  /\ u \in present
  /\ present' = present \ {u}
  /\ Tell(Notice("leave", u, NoApp, u, NoPlan))
  /\ UNCHANGED <<inbox, runs>>

Outside ==
  /\ \/ \E s \in Servers :
          EdgeDeploys(s) \/ EdgeDestroys(s) \/ EdgePreMigrates(s) \/ EdgeMigrates(s)
     \/ \E u \in Users : UserHandsOver(u) \/ UserLeaves(u)
  /\ UNCHANGED <<setup, dbVars, mstate, planVars, mqtt, timers, boundVars>>

-----------------------------------------------------------------------------
HandleNotice ==
  /\ \E i \in DOMAIN notices :
       \/ AllocatedKnown(i) \/ AllocatedUnknown(i)
       \/ PreMigratedThreshold(i) \/ PreMigratedRead(i)
       \/ Migrated(i) \/ HandoveredRead(i) \/ Left(i)
  /\ UNCHANGED setup

Continue ==
  /\ \/ mqtt.at = "planning" /\ \E x \in mqtt.todo :
          \/ NothingPlanned(x) \/ PlanThreshold(x)
          \/ PlanMove(x) \/ PlanHandover(x) \/ PlanPassedOver(x)
     \/ PreMigratedMark \/ PreMigratedUnknown \/ PreMigratedStays
     \/ PreMigratedSchedule
     \/ HandoveredWrite
  /\ UNCHANGED setup

RunTimers ==
  /\ \E t \in timers : TimerExpires(t) \/ TimerPublishes(t) \/ TimerEnds(t)
  /\ UNCHANGED setup

Discover ==
  /\ \E u \in setup.users, a \in setup.apps :
       \/ DiscoverWait(u, a)
       \/ DiscoverAgain(u, a)
       \/ \E b \in setup.stations, s \in Servers : DiscoverNew(u, a, b, s)
  /\ UNCHANGED setup

Planning == (\E u \in Users : ComputePlan(u)) /\ UNCHANGED setup

Next == HandleNotice \/ Continue \/ RunTimers \/ Outside \/ Discover \/ Planning

Spec == Init /\ [][Next]_vars

(* Threads and receivers that can run do so in the end.                    *)
FairSpec == Spec /\ WF_vars(HandleNotice) /\ WF_vars(Continue)
                 /\ WF_vars(RunTimers) /\ WF_vars(Outside)

-----------------------------------------------------------------------------
(* Properties.                                                             *)

(* The state is of the right type.                                         *)
TypeOK ==
  /\ user \in [Users -> UserRows]
  /\ service \in [Users -> [Apps -> ServiceRows]]
  /\ mstate \in [Users -> {Unknown} \cup SUBSET Bits]
  /\ migPlan \in [Users -> PlanSet \cup {NoPlan}]
  /\ hoPlan \in [Users -> PlanSet \cup {NoPlan}]
  /\ mqtt.at \in {"idle", "dead", "planning", "pre_migrated", "estimating",
                  "handovered"}
  /\ timers \subseteq Timers
  /\ inbox \in [Servers \cup Users -> Seq(Orders)]
  /\ runs \subseteq Users \X Apps \X Servers
  /\ notices \in Seq(NoticeSet)
  /\ discoveries \in [Users -> 0 .. setup.discoveries]
  /\ plans \in 0 .. MaxPlans

(* The orders and notices of the given kinds that are on their way for u,  *)
(* as <<where, position>>.                                                 *)
OnTheWay(u, kinds) ==
  LET At(q) == {i \in DOMAIN q : q[i].user = u /\ q[i].kind \in kinds}
  IN {<<"notices", i>> : i \in At(notices)} \cup
     UNION {{<<r, i>> : i \in At(inbox[r])} : r \in Servers \cup Users}

Preparations(u) == OnTheWay(u, {"pre_migrate", "pre_migrated"})
Migrations(u) == OnTheWay(u, {"migrate", "migrated"})
AtMostOne(S) == \A x, y \in S : x = y

(* Users that look for their service once.  A second discovery deploys a   *)
(* service that is migrating again (line 207 tests a state that no line    *)
(* assigns), its ALLOCATED takes the state back to RUNNING, and a server   *)
(* may be told to migrate what has left it.                                *)
Once == setup.discoveries = 1

(* A threshold planner, users that stay, containers that start, and        *)
(* notices that keep their order (a PRE_MIGRATED that MIGRATED overtakes   *)
(* marks the state of a service that runs, lines 586 to 588).              *)
Calm == /\ Once /\ setup.inOrder
        /\ ~setup.leaving /\ ~setup.failing /\ ~Optimized

(* No service is told to prepare or to migrate while an earlier order of   *)
(* that kind has not been reported: trigger_migration and trigger_pre_-    *)
(* migration test bits of migration_state (lines 415, 434), the threshold  *)
(* planners the state of the service (272), and no line writes both.  The  *)
(* optimizing planner may order a second one (a plan made before the first *)
(* timer expires brings a timer of its own).                               *)
OneMigration ==
  Calm => \A u \in Users : AtMostOne(Preparations(u)) /\ AtMostOne(Migrations(u))

(* The two records of what goes on with a service agree: its state in the  *)
(* database is one of the migrating ones exactly when migration_state has  *)
(* a bit that keeps the planner from being run for it.                     *)
StateAgrees ==
  Calm /\ mqtt = Idle =>
    \A u \in Users : GetService(u) # NoRow =>
      (GetService(u).state \in {"init", "running"} <=>
         mstate[u] \cap Migrating = {})

(* Once every order for a user is carried out and reported, exactly one    *)
(* container of it runs, where and as what the database says.  (Not where  *)
(* it never started: the row of the service stays.  Nor where the          *)
(* optimizing planner has a second move of a service under way and the     *)
(* MIGRATED of one server overtakes that of another: the record is left    *)
(* with a server that the service has left.)                               *)
Quiet(u) ==
  /\ mqtt = Idle
  /\ \A t \in timers : t.user # u
  /\ OnTheWay(u, {"deploy", "allocated", "pre_migrate", "pre_migrated",
                  "migrate", "migrated"}) = {}

HostKnown ==
  Once /\ ~setup.failing /\ (InOrder \/ ~Optimized) =>
    \A u \in Users : Quiet(u) /\ GetService(u) # NoRow =>
      {r \in runs : r[1] = u} = {<<u, user[u].app, GetService(u).server>>}

(* An order to move a service reaches the server that runs it.  The source *)
(* of a move is fixed when the plan is (lines 311 and 647), and a server   *)
(* without the service drops the order and tells nobody                    *)
(* (edge_controller.py, lines 296 and 340).                                *)
MovesFromHost ==
  Calm => \A s \in Servers :
    inbox[s] # <<>> /\ Head(inbox[s]).kind \in {"pre_migrate", "migrate"} =>
      <<Head(inbox[s]).user, Head(inbox[s]).app, s>> \in runs

(* No handler raises: none reads a row that is gone, none inserts one that *)
(* is there.                                                               *)
Alive == mqtt # Dead

(* The plan of a pre-migration that has been ordered is the stored one,    *)
(* "for calling trigger_migration when PRE_MIGRATED" (line 341).           *)
PlanKept ==
  \A s \in Servers : \A i \in DOMAIN inbox[s] :
    inbox[s][i].kind = "pre_migrate" =>
      migPlan[inbox[s][i].user] = inbox[s][i].plan

(* A service is not deployed while it is told to migrate: a discovery      *)
(* finds "Service is under migration" and returns (lines 207 to 209).      *)
NotDeployedMeanwhile ==
  \A u \in Users : OnTheWay(u, {"deploy"}) = {} \/ Migrations(u) = {}

(* Whenever a threshold planner is kept from being run for a user because  *)
(* of a migration, that migration ends and the planner may run again.      *)
MigrationEnds ==
  ~Optimized => \A u \in Users :
    mstate[u] \cap Migrating # {} ~> mstate[u] \cap Migrating = {}
=============================================================================
