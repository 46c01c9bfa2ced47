# Verification of the MEC migration testbed

TLA+ models of the system in this repository: a centralized controller that
places the offloaded services of mobile users on edge servers and moves them,
as running docker containers, when the users move. The models are checked with
TLC on small instances; the properties that matter most are proved with TLAPS
for any number of servers, services and users.

## 1. The system

### Components and their state

| Component | State | Operations | Interacts with |
|---|---|---|---|
| Centralized controller (`centralized_controller.py`) | `migration_state` (bits per user), `migrating_plan`, `handover_plan`, pending timers | discovery, ALLOCATED, PRE_MIGRATED, MIGRATED, HANDOVERED, monitor messages, last wills, `trigger_pre_migration`, `trigger_migration`, `trigger_handover` | MQTT to all edge servers and users; the database; the planner |
| Central database (`central_database.py`) | users, services (server, state), edge servers, measurements, migration records, rho, phi | register, update, remove, queries of the planners | called by the controller only |
| Planners (`planner.py`, `optimization_planner.py`, `stats_edge.py`) | none of their own | `place_service`, `compute_plan`, `lifetime_to_mig` | read the database |
| Edge controller (`edge_controller.py`, `edge_services.py`, `edge_servers.py`) | list of services, neighbours, `source_queue`, subscriptions | deploy, destroy, pre-migrate, migrate, monitor-service, updated servers, callbacks of the migration threads | MQTT; the two migration threads; docker |
| Migration source (`migrate_source.py`) | `records`, one `sock`, the command in hand | `pre_measure`, `measure`, `prepare`, `migrate` | takes from `source_queue`; docker; rsync to and UDP to the destination |
| Migration destination (`migrate_dest.py`) | `records`, `sockets` (reserved ports), the datagram in hand | `prepare`, `migrate` | UDP from the sources; docker; callbacks of its edge controller |
| Docker and checkpoints (`migrate_controller.py`, `migrate_node.py`, `diff_patch.py`) | containers by name, `/tmp/<container>` with the images | create, checkpoint, start, restore, rsync, compute and apply a difference | called by both threads |
| Monitors (`network_monitor.py`, `server_monitor.py`, `container_monitor.py`, `sql_service.py`) | one queue each | measure and report periodically | fed by the edge controller, report to the centre |
| MQTT client (`mqtt_protocol.py`), discovery (`discovery_edge.py`) | connection; map of edges | publish, subscribe; read the map | everything |
| Mobile user (`end-user/`) | INIT, NORMAL, TERMINATED; a stream socket; the route | discovery with retry, stream of requests, handover | controller by MQTT, service by TCP |
| Demo services (`docker_test_service/`) | a counter | answer a request | users by TCP |
| Estimation and radio (`estimator.py`, `communication_models.py`, `wifi_spec.py`, `placement.py`), experiment tooling (`log_parser.py`, plots, set-up) | - | - | - |

### What is hard about it

* Three threads of every edge server use the same list, folders and containers
  without a lock: the MQTT thread, the source thread, the destination thread.
* Two servers take part in a migration and the centre learns of its end from a
  message that travels on its own: orders, datagrams, files and notices overtake
  each other.
* Almost every error is either only logged (a failed checkpoint), dropped (an
  order for an unlisted service), or fatal for the whole thread (any exception
  in a migration handler ends that thread for good).
* The centre keeps its state in bits that the MQTT thread and any number of
  timer threads read and write without a lock, and most of its steps wait for a
  message that may never come.

* A client that reconnects gets a clean session: what was published meanwhile is
  gone, and with it orders, lists of servers and notices.
* The devices decide with the controller in a loop that is as slow as their
  reports: every decision is about where the device was.

`PROJECT.json` lists each hazard at its line with the properties that cover it,
or a note on why none does.

### What makes each part correct

* Migration service: a service runs in at most one place; the server the centre
  names for it runs it and knows it; the destination is prepared when it is told
  to restore; a stopped service is on its way somewhere; its state survives; an
  ordered migration ends.
* Controller: at most one migration of a user under way; a user is not left in a
  state in which no planner may move it again; a plan that is carried out is the
  plan that was stored; a late message does not undo a newer one.
* Membership: who works is registered, who is gone has no row (unless the
  controller was away when it went), and a service that was allocated runs where
  its row says.
* User: a user whose threads live is answered; a device that left a station
  arrives at the next; the service finds every request in its stream, and the
  device reads the answer to it.
* Kernel of the users' host: marks, rules and rates say what the tables of the
  simulation say, and all but the default routes is taken back when it ends.
* Handover: the controller knows the station of a device, sends it away from a
  weak station only, and moves a device that needs it.
* Database: migration records pair the two reports of one migration; no report
  ends the centre.
* Monitors: every service that stays is reported; the last list of neighbours
  wins.

## 2. Modules

```
ServicePlacement          what a migration promises (abstract)
MigrateService            the migration of containers between edge servers
  MigrateInvariant        its inductive invariants: IInv, EagerInv, ReadyInv, FirstInv
    MigrateRefinement     the refinement mapping to ServicePlacement
      MCMigrateService    MigrateFaults, MigrateEager, MigrateReturn,
                          MigrateStateLost, MigrateSharedSocket .cfg
    MigrateService_proofs proofs of its type, IInv and the placement invariants
      MigratePromises_proofs  the refinement, and the other safety invariants

CentralController         the controller: handlers, planners, timer threads
  MCCentralController     Central .cfg
  CentralController_proofs  proofs of all its safety invariants
Membership                registration, last wills, lists, connections
  MCMembership            Membership .cfg
  Membership_proofs       proofs of all its safety invariants
Handover                  scans, reports, threshold planners, handovers
  MCHandover              Handover .cfg
  Handover_proofs         proofs of its type, StationAgrees, LeavesWeak
Estimates                 migration reports and what is made of them
  MCEstimates             Estimates .cfg
  Estimates_proofs        proofs of all its properties
EdgeMonitors              the two measuring threads of an edge server
  MCEdgeMonitors          EdgeMonitors .cfg
MobileUser                the four threads of a simulated user
  MCMobileUser            MobileUser .cfg
RouteTables               the kernel tables the users of a host share
  MCRouteTables           RouteTables .cfg
  RouteTables_proofs      proofs of all its safety invariants
RequestStream             requests and answers on the TCP stream
  MCRequestStream         RequestCut .cfg (a counterexample)
  RequestStream_proofs    proofs for all sizes and windows
```

The other `.cfg` files are counterexamples (section 3). The modules meet at the
messages: what one leaves open (an order that arrives late, a service that takes
its time to move) another one explains, and each names what it takes as one step.

### MigrateService

One module, since its parts share nearly all their state: the edge controllers'
handlers, both migration threads, docker, the checkpoint folders and the UDP
datagrams, for a set `Edges` of servers and a set `Services` of services (a
service stands for the container name, service name plus user).

| Variable | In the code |
|---|---|
| `container[e][s]` | state of the docker container of that name: `deployed` (run with `auto_remove`), `created`, `exited`, `restored` from a checkpoint, `reset` (started from the image in place of a restore) |
| `folder[e][s]` | which images are in `/tmp/<container>`: first, second and third checkpoint, final snapshot, usable differences; `{}` stands for a missing or empty folder |
| `entries[e][s]` | the entries of `EdgeServices.services` for `s`, as the sequence of their request numbers |
| `subscribed[e]` | MONITOR_SERVICE subscriptions |
| `queue[e]`, `src[e]`, `srcRecords[e]`, `sock[e]` | `source_queue`; what the source thread is doing; `MigrateSource.records`; `MigrateSource.sock` |
| `net[e][d]` | datagrams on their way |
| `dst[d]`, `dstRecords[d]`, `reserved[d]` | what the destination thread is doing; `MigrateDest.records`; open sockets in `MigrateDest.sockets` |
| `host`, `plan`, `reported`, `notices` | the centre: server in the database, the migration it has ordered, services with measurements, published PRE_MIGRATED and MIGRATED |
| `orders` | bound on deployments and migrations per service |
| `disturbed` | history variable, see below |

Actions and code:

| Actions | Code |
|---|---|
| `Deploy`, `DeployFails` | `process_deploy`, `start_edge_service`, the ALLOCATED notice and its handler |
| `Leave` | last will of the user, `destroy_service`, `process_destroy` |
| `Order` | the PRE_MIGRATE of `trigger_other_planners` or of `trigger_pre_migration`, with `process_pre_migrate` |
| `OrderMigrate` | the MIGRATE that the threshold planners publish next, or the timer of `trigger_migration`, with `process_migrate` and its own test of whether the service is listed |
| `PreMigrated`, `Migrated` | `process_pre_migrated`, also where it returns without a timer (610), which leaves the plan `"unscheduled"` for good; `process_migrated` |
| `MonitorService` | `process_monitor_service`, which counts requests and triggers the measurements |
| `PreMeasure`, `Measure`, `MeasureReport` | `handle_cmd_pre_measure`, `handle_cmd_measure_dirty`, `source_dirty_rate_cb` |
| `Prepare`, `PrepareCheckpoint`, `PrepareDelta`, `PrepareNotify` | `handle_cmd_prepare` of the source |
| `MigrateStop`, `MigrateSend`, `MigrateFinish`, `MigrateCleanup` | `handle_cmd_migrate` of the source |
| `DestPrepare`, `DestCreate` | `handle_cmd_prepare` of the destination |
| `DestUnpack`, `DestRestore`, `DestStart`, `DestAnnounce`, `DestList`, `DestResnap`, `DestResnapDone` | `handle_cmd_migrate` of the destination |
| `Lose` | UDP |

A handler of a migration thread is cut where another thread of the same server
(list, folder, container) or the other server (folder, datagrams) can come in
between. Handlers of the MQTT thread are one step. An exception makes the stage
of its thread `"dead"`; it never takes a command again, as in
`source_migration_handler` and `dest_migration_handler`.

**Disturbed services.** Some events break a migration and the code has no answer to them: the user
leaves in the middle of a migration, the final checkpoint fails, the container
does not start again, a late prepare removes the running container, an order
comes before the service is listed. The history variable `disturbed` records
them, per service, in the step in which they happen. The placement invariants are
about services that are not disturbed; lost datagrams, dead threads, failed
restores, failed deployments and departures between migrations do *not* disturb a
service. `disturbed` is read by no guard.

Abstractions:

* A published command is handled at the edge in the step that publishes it.
  Commands reach one edge in the order they are published, so a late delivery is
  a late order. The two commands of a threshold planner are two steps, between
  which the threads of that edge may do anything (list the service, for one) but
  no other command reaches it (`OnItsWay`, `InTurn`).
* `Deploy` places a service that is deployed nowhere. The controller may deploy a
  service that it knows again (`centralized_controller.py`, 210 to 216): that is
  in `CentralController` (`DiscoverAgain`) and `Membership` (`CentreDiscovers`).
* ALLOCATED is merged with the deployment.
* Datagrams between two servers are not reordered or duplicated; they may be
  lost. Datagrams from different servers are not ordered.
* Images have no content: whether a restore has its image depends on which
  images and differences are there. An rsync that copies an image while it is
  being replaced, and a stale snapshot of an earlier stay, are not told apart
  from good ones.
* Request numbers stop at `RequestCap`, `FirstMeasure + 1`, past which they change
  nothing (`Triggered`). `FirstMeasure` is 3 in the code; the runs use 1 to reach the measurements
  sooner.
* Whether there is an estimate when the preparation is done (`lifetime_to_mig`) is
  a nondeterministic choice; the bits of the state are in `CentralController`.

### ServicePlacement and MigrateRefinement

`ServicePlacement` is what a user may rely on, without threads, queues,
datagrams or images: a service is placed, halts where its users were told it is,
starts on another server, and its users are told; or it is removed, or a move is
cut into and nothing more is promised (`Lose`). `MigrateRefinement` maps
`MigrateService` to it: `runs` is the set of servers whose container runs
(`RunsOn`), `told` is the server in the database (`ToldTo`), `lost` is `disturbed`. That every step of the
detailed model is one of these, or a stutter, says more than the invariants: a
container never starts twice, never goes back without being told, and the order
halt, start, tell is never changed.

### CentralController

The controller alone, with edge servers and users reduced to what answers its
orders. `MigrateService` takes the controller as one that orders when it may;
this module is about whether it does.

| Variable | In the code |
|---|---|
| `user[u]`, `service[u][a]` | rows of `end_user_info` (station, service) and `service_info` (server, state) |
| `mstate[u]` | `migration_state`: the set of bits, or `unknown` when the user is no key of it |
| `migPlan`, `hoPlan` | `migrating_plan`, `handover_plan` |
| `mqtt` | what the one MQTT thread is doing: idle, in the middle of a handler, or dead |
| `timers` | `threading.Timer`s that wait, and the threads they became, with the `m_state` they have read |
| `inbox`, `notices` | orders on their way to a server or user; messages on their way to the controller |
| `runs`, `present` | containers that run; connected users |

| Actions | Code |
|---|---|
| `DiscoverWait`, `DiscoverAgain`, `DiscoverNew` | `process_discovery` |
| `AllocatedKnown`, `AllocatedUnknown` | `process_allocated` with `update_service`, which renames a row, and `register_service` |
| `ComputePlan`, `NextPlan`, `NothingPlanned`, `PlanThreshold`, `PlanMove`, `PlanHandover`, `PlanPassedOver` | `trigger_planner`, `trigger_other_planners`, `run_optimization_planner` |
| `TimerExpires`, `TimerPublishes`, `TimerEnds` | the timer threads: `trigger_pre_migration`, `trigger_migration`, `trigger_handover` |
| `PreMigrated*`, `Migrated`, `Handovered*`, `Left` | `process_pre_migrated`, `process_migrated`, `process_handovered`, `process_eu_notification` with `destroy_service` |
| `Edge*`, `User*` | the answers of edge servers and users; a container may fail to start (`failing`), and the empty ALLOCATED that answers then changes nothing at the controller |

A handler that reads `migration_state` and writes it later is cut in between; a
timer thread may do the same at the same time (`preemptive`). An exception in a
handler leaves `loop_forever`: `mqtt` is `Dead` for good. Two plans with the same
target are told apart by a number, which the code does not need since it compares
targets; the guards compare what the code compares.

### Membership

| Variable | In the code |
|---|---|
| `proc[s]`, `ready[s]` | the edge process and its connection; `ready` |
| `neighbors[s]`, `hosts[s]` | `my_neighbors`; the users in `edge_services` |
| `inbox[s]`, `toCentre` | messages the broker holds for a connected client |
| `session`, `watches[s]` | sessions of the broker; monitor topics the client subscribes to |
| `up`, `broken` | the controller works; its connection is broken and its process lives |
| `rows`, `service[u]` | `edge_server_info`; the user's rows |
| `redeployed`, `missed`, `count` | history of redeployments, and of last wills the controller was not there for; the bounds |

`EdgeStarts` publishes REGISTER before it subscribes (`register_to_centre`,
`on_connect`); `EdgeReconnects` is paho's loop; `EdgeUpdates`, `EdgeForgets`,
`EdgeDeploys`, `EdgeFails` are the handlers; `CentreRegisters`, `CentreLosesEdge`,
`CentreDiscovers`, `CentreAllocates` those of the controller, with `CentreStops`,
`CentreExits` and `CentreStarts` (new tables, since `check_swap_file` moves the old
file away). The controller's own connection may break (`CentreDisconnects`): its
session is clean, too, so that the broker drops what it holds for it and what comes
in the meantime, and `CentreReconnects` is `on_connect` again, which subscribes,
publishes the list and asks nobody who is still there. Its tables stay.
`BrokerNotices`, `EdgeCrashes` and `ConnectionBreaks` are the world. A discovery from
a station without a row is rejected: which stations have one depends on
registrations of access points that are not told apart here, so it is a choice while
the server at home has no row. The
placement of a service is that of `RSSIPlanner.place_service`: the server of the
user's station, or any when it has none.

### Handover

Devices on a street of places, `Level[station][place]`, the level an integer of
which only the order means something. `scanned`, `report`, `ssid`, `connected`,
`orders` and `notices` are the device and its messages; `rows` the last minute of
`rssi_monitor` per user and station, `bts`, `server`, `phase`, `target`, `handover`
the controller's rows and bits.

`ReportScan` and `ReportAgain` are `report_rssi` (with a scan, or with the last
one); `ProcessMonitorEU` is `process_monitor_eu` with the storing of the levels
(`Store`: those below `RSSI_LIMIT` are dropped), `find_user_location`, and the
planner (`Plans`); `TriggerOtherPlanners` the orders; `ProcessHandover` and
`Reconnect` the device; `ProcessHandovered`, `ProcessAllocated`, `ProcessMigrated`
the controller. `Age` drops rows older than a minute. `GROUP BY` without an
aggregate yields any row of a station, so a level is any of its stored ones. The
controller's location of the user is a least-squares fit of three stations:
modelled by when it raises (fewer levels than it reads, or stations on a line).

### Estimates

One user's service that migrates, and what the centre makes of the reports:
`row`, `cpu`, `est`, `records` are the rows of `service_info`, `edge_server_info`,
the `EstimateTime` object and `migrate_record`; a report keeps the number of its
migration, so that a pairing of two different migrations can be seen. `rated` is the
servers with a phi and with a rho, in the beginning those that are configured with
them (`setup.rated`: `real_edge_nodes.yml` has one that is not). Times and
sizes are left out; what is kept is which of them are there, since arithmetic with
`None` raises. `ReportsSource`/`ReportsDest` are the callbacks of the migration
threads, `LearnsSource`/`LearnsDest` `process_migrate_report` with the updates of
rho, phi and the pre-migration time, `LearnsContainer` and `LearnsServer` the
monitors, `Migrates` the planner's guards (`valid_info`, `enough_info`). The
solver behind them is a nondeterministic choice.

### EdgeMonitors

`ContainerMonitor` and `NetworkMonitor`. The queue of the first carries the one
list of `EdgeServices` again and again, so it is a number of items; the second's
carries lists, numbered by age. `Adds`, `Removes` and `Measured` change the list
under the iterator, whose position is `index`.

### MobileUser

The main, stream, RSSI and MQTT threads of `simulated_mobile_eu.py`, which share
`stream_sock`, `service`, `state` and the device's `is_connected` and
`reconnect_time`. A step is one use of a shared attribute. `StreamQueries` to
`StreamAnswered` follow `query_service` line by line; `MqttSetsService` to
`MqttCloses` follow `process_allocated`, `process_migrated` and `process_handover`;
`MainReconnects` and `MainForgets` are the two halves of `update_eu`, and `device.lost`
remembers that the second has deleted the time of a handover that came in between;
`MqttHandsOver` also has the station that is not known (215 to 217). `MainStops` and
`MainJoins` are the end. A socket is where it leads to and how it is: no other
property of a connection is used.

### RouteTables

`route.py` and `datarate.py`: `table`, `speed` are the objects of the process,
`mqtt` where the thread of each user is in `set_filter`, `main` where the main
thread is; `lines`, `filters`, `rules`, `tc`, `routes` are the kernel's
(`rt_tables`, the mangle table as a bag, `ip rule`, `tc`, whose tables have a default
route), which outlives the
process (`Interrupt`, `Crash`). One command of a shell is one step.

### RequestStream

Bytes are counted, not told apart: a request is `HeaderSize + RequestSize` bytes,
a segment any part of what is on its way. `DataReceived`, `ReadLength`, `ReadPart`
and `ReadRequest` are the machine of `simple.py`; `DoneCb` the answer, which has no
length; `SendData`, `RecvData`, `TryConnect` the device.

## 3. What is checked

Bounds are constants of the configuration. Deadlock is not checked: when the
bounded things (orders, moves, starts, plans, ...) are used up, or a thread or a
process has ended, the system really stops.

| Run | Instance | Properties | Shows |
|---|---|---|---|
| `migrate_faults` | 2 servers, 1 service, 3 orders, optimized planner, all faults; servers symmetric | `TypeOK`, `AtMostOneRunning`, `HostRuns`, `HostLists`, `PlacementSpec` | placement survives every fault, and every step is one of `ServicePlacement`; three orders are one deployment and two migrations, so that the service can come back to a server whose threads are still busy with its departure |
| `migrate_eager` | 2 servers, 2 services, 3 orders each, threshold planners, no faults; servers and services symmetric; a view | `DestReady`, `SendsOnOpenSocket`, `NeverForgotten` | two services share the threads and sockets of both servers, in the same and in opposite directions, and each may come back |
| `migrate_return` | 3 servers, 1 service, 3 orders, optimized planner, no faults, fairness | `FirstMoveKeepsState`, `OrdersComplete` | two moves over three servers, including back to the first |
| `state_lost` | as above with 2 servers | `StateKept` violated | the counter of a service that moves back early starts again (finding 1) |
| `shared_socket` | 2 servers, 2 services, optimized planner | `SendsOnOpenSocket` violated | the source's socket is shared (finding 2) |
| `central` | seven set-ups: 1 user, 2 stations, 3 plans; 2 users, 3 plans; 2 users who look twice, 2 plans; 1 user, 2 applications, who may leave, notices out of order; the optimizing planner with threads that interleave inside a method; the same with a second plan; 1 user who looks twice and whose container may not start, 2 plans | `TypeOK`, `OneMigration`, `StateAgrees`, `HostKnown`, `MovesFromHost`, `Alive`, `MigrationEnds` | the two records of a migration agree, orders are given once and to the server that has the service, it ends up where the database says, and migrations end |
| `membership` | 2 servers, 1 user; 4 events out of 3 starts per server, 2 crashes, cuts or breaks of the controller's connection, 1 restart of the controller, 1 discovery | `TypeOK`, `LiveRegistered`, `NoDeadRow`, `HostRuns`, `RegistersAgain` | tables that begin empty fill up again, and so do those of a controller that was cut off; no row outlives its server but those of the last wills it has missed |
| `handover` | 1 device on 5 places, 3 stations, of which 2 register late, both threshold planners, 2 moves, 2 messages of a kind on their way | `TypeOK`, `StationAgrees`, `LeavesWeak`, `Settles` | late decisions do no lasting harm |
| `mobile_user` | 2 servers, of which the service begins on the first, 2 discoveries, 1 migration, 2 handovers, deployments that fail | `TypeOK`, `Served`, `Reconnects` | four threads and one socket |
| `route_tables` | 2 users, 2 destinations, 2 marks, 2 table numbers, 2 rates, 2 filters per user, 1 interrupt, 1 kill | `TypeOK`, `Routed`, `Shaped`, `Clean` | the kernel follows the tables, also where users share a mark, and is left with nothing but the default routes |
| `estimates` | 3 servers (symmetric), 2 migrations, 2 returns; the optimizing planner when nothing goes wrong, with servers configured with phi and rho and without, and another planner when anything may, with reports in order and out of order | `TypeOK`, `Alive`, `RightRestore`, `RestoreKept` | reports are paired rightly and end nobody |
| `edge_monitors` | 3 services, 3 changes, 2 items queued, 2 lists of neighbours | `RoundComplete`, `Reported`, `Latest` | a list that changes under its iterator |

**The view of `migrate_eager`.** Under the threshold planners nothing follows from
PRE_MIGRATED, nor from which services have reported their memory (only the optimizing
planner asks): `EagerView` leaves both out of what tells two states apart, and none of
the three properties of the run reads them. Three orders are one deployment and two
moves, so that a service may be ordered away again before its destination has listed
it. That is the case in which the two tests of "listed" matter: PRE_MIGRATE comes
before `add_service` and is dropped, MIGRATE comes after it and is carried out. With
three orders the source has no record of the service and its thread ends. With
four (and one service) it may have the record of an earlier stay, and TLC finds that
it sends on the socket that stay has closed; the dropped order has disturbed the
service, and `SendsOnOpenSocket` excepts it.

**Several set-ups in one run.** `CentralController`, `Handover` and `Estimates` have
a variable (`setup`, `planner`) that `Init` takes from a constant set and no step
changes: how the program was started, and who is there. One run then looks at all
of them. A property that the code promises in some set-ups only says so
(`Calm`, `Once`, `~Optimized`); what happens in the others is in the table of
counterexamples.

**Why the bounds are enough to be interesting.** Every migration takes part in at
most two servers, and the hazards listed in `PROJECT.json` need at most a
deployment and two moves of one service, or one move each of two services that
share a source or a destination; a third server is needed only to tell the server
a service came from from the one it goes to next. In `central`, the third plan is
the first that can be made while the traces of a completed migration are still on
their way. In `membership`, the second fault is the edge server's whose last will the
controller misses after the first, its own; a third start lets a server come back after it came
back while the last will of its first life is still unpublished. In `handover`, two
moves take a device from the middle, where two stations are as good, to an end
where only one is. In `mobile_user`, the second handover is the one whose time may
be overwritten; `Placements` names the servers a service may begin on, one of them,
since the two are alike and the migration goes to the other. The limit of 20 failed requests in a row is
never reached (`CountsFailures`): the run is about a user that does not give up, since
how often it fails before an answer comes depends on time, which is left out. In
`route_tables` two users take both of the two table numbers, so that none is left
after a kill (the code has 100); a table number that is not there is `None`, which
`TypeOK` names. That marks run out needs more users, and is covered by the
proofs. Each property has a mutant in `PROJECT.json`: a plausible bug
in one definition that makes the run fail.

**Fairness.** In all modules weak fairness stands for a thread that is scheduled,
a receiver that reads its socket, or a message the broker delivers (quality of
service 1 on a connection that stays). Users, orders, faults, crashes, moves and
restarts are under no fairness.

* `MigrateService`: each source and destination thread (a loop that takes the next
  command or datagram whenever there is one), the centre's handlers, and the timer
  of the final migration, which always fires.
* `CentralController`: the MQTT thread takes the next message and goes on within a
  handler; timer threads run; edge servers and users that are there answer. Plans
  and discoveries are free.
* `Membership`: the controller handles its messages and connects again; the one network thread of an
  edge subscribes, reconnects or handles; the broker notices a lost client. Nobody
  has to start a process.
* `Handover`: the handlers, the reconnection and the ageing of rows; and
  `[]<><<ReportScan>>`, since the device reports every two seconds and a handover
  takes half a second, so that not every report can fall into one.
* `MobileUser`: its four threads, the answer to a discovery, and the end of the
  simulation once an error has been reported (the main loop tests it every round).
  A migration or a handover is up to the controller.
* `EdgeMonitors`: both threads; their waits have a timeout.
* `RequestStream`: the network, the service and the reading device.

**Findings** (the two violations among the runs).

1. *State lost on an early return.* `README.md:55-57` says the services keep a
   counter that is checked "to ensure consistent state". After a move from A to B
   the source thread of A removes the checkpoint folder last
   (`migrate_source.py:422`), and the destination thread of B replaces the second
   image last (`migrate_dest.py:150`), both after MIGRATED has been published. An
   order to move the service again can use the folder or the image before that;
   its restore then has no image, and `docker_start` starts the container from
   scratch. Only such later moves are affected: `FirstMoveKeepsState` says
   so, and is proved (section 4).
2. *Shared source socket.* `prepare` replaces `self.sock` and `migrate` closes it.
   With the optimized planner two services may be prepared before either
   migrates; the second `sendto` then raises after its container has been
   stopped, and the source thread ends. With the threshold planners prepare and
   migrate of one service are adjacent in the queue and it cannot happen
   (`migrate_eager`), unless the first of the two came before the service was listed.

**Counterexamples.** Configurations kept beside the runs for claims of the code's
comments and documents, or stronger forms of a property, that do not hold. Each
ends with the named property violated
(`tlc -config <name>.cfg <MC module>`).

| Configuration (module) | Violated | What happens |
|---|---|---|
| `CentralPlanKept` (`MCCentralController`) | `PlanKept` | the timer of a first plan is pending, a second plan overwrites `migrating_plan`, and the first one's pre-migration is ordered |
| `CentralRedeploy` | `NotDeployedMeanwhile` | the state `migration` that a discovery looks for (line 207) is never assigned: a service that migrates is deployed again |
| `CentralReturn` | `Alive` | the user leaves before its first deployment is answered; the late ALLOCATED registers a row without a user, and the user's next discovery inserts it a second time |
| `CentralLateAnswer` | `Alive` | the user asks for another application first; the late ALLOCATED renames the row, and line 247 reads an attribute of `None` |
| `MembershipSubscriptions` (`MCMembership`) | `SubscriptionsRenewed` | after a reconnection the monitor topics are not subscribed to again |
| `MembershipCascade` | `EdgesSurvive` | services of a dead server are placed while its row is still there (`DeployedElsewhere` in its place is violated too), and the order that deploys them again lacks `migrate_method`, which the edge reads |
| `HandoverFaint` (`MCHandover`) | `NeverStranded` | a level below `RSSI_LIMIT` is not stored and counts as 0 dBm: the device stays |
| `HandoverFollows` | `Follows` | the plan of the last handover skips the migration since the service is on its way; nothing makes up for it |
| `HandoverOthers` | `LeavesWeak` | the report of one user plans for all, from rows up to a minute old |
| `HandoverUnknown` | `Alive` | a report of a station with no row: `find_user_location` reads an attribute of `None` (with three known stations and `Aligned` the set of them, the same end: on a line the fit has no solution) |
| `EstimatesEarly` (`MCEstimates`) | `TooSoonWaits` | a container is reported before another server has reported its capacity: only its own server's is waited for, and the estimate of a move to the other divides by `None` |
| `EstimatesEnough` | `EnoughIsEnough` | `no_connect` counts reports, not pairs of servers |
| `MobileUserSocket` (`MCMobileUser`) | `StreamSurvives` | MIGRATED between two lines of `query_service` takes the socket away |
| `MobileUserStops` | `Stops` | `process_allocated` tests for TERMINATED and then sets NORMAL; in between the main thread sets TERMINATED, and then waits for ever for a thread that sees NORMAL |
| `RouteMarks` (`MCRouteTables`) | `MarksUnique` | two users find the same mark free; the first rule of the mark then decides whose table the packets of both take |
| `RouteAgain` | `StartsAgain` | the qdisc of a killed simulation makes the next one fail: the error is another class than the one that is handled |
| `RequestCut` (`MCRequestStream`) | `InStep` | an answer that arrives in two pieces is read as two |

With `Cut = FALSE` and `FairSpec`, TLC finds `InStep` and `Answered` to hold in
`RequestCut`: the device as it is, when answers arrive whole.

**What a proof attempt found.** `HostKnown` once had no premise on the order of
notices, and TLC agreed: no set-up of `central` had both an optimizing planner and
notices out of order together with a third plan. The proof did not go through, and
TLC confirms why on that set-up (`Timed` with `inOrder` false, `preemptive` false
and three plans): an order of an earlier plan waits at server A while the service
moves from A to B and back to A; A then carries it out, the two MIGRATED overtake
each other, and the row names A while the service runs on B. The two notices come
from different clients, so that nothing orders them. `HostKnown` now says that it
is about notices in order or threshold planners, for which it is proved.

## 4. What is proved

*The migration service.* `MigrateService_proofs` proves
`TypeCorrect == Spec => []TypeOK`, `Invariance == Spec => []IInv` and from it
`OnePlace`, `HostServes` and `HostKnows`, the theorems for `AtMostOneRunning`,
`HostRuns` and `HostLists`. They hold for any sets of servers and services, any
subset of the faults, both kinds of planner and any number of orders. The only
assumption is `MigrateAssumption`: the two "nothing" values differ from servers
and services, the switches are of their types, `FirstMeasure` is positive.

**The argument.** None of the three invariants is inductive: that a destination
may start a container depends on the source having stopped it several steps and
a datagram earlier. `IInv` follows the final migration of a service as one
*baton*, which is in turn the migrate command in the source's queue (`Ordered`),
the stopped container in the hands of the source thread (`Halted`), the datagram
(`Sent`), the image being rebuilt (`Unpacking`), the started container
(`Starting`) and the notice (`Announced`). For each undisturbed service:

* `PlanOK`: a planned migration leaves the host for another server;
* `Placed`: the baton exists only during a final migration, at the server and
  towards the server of the plan;
* `OneBaton`: there is at most one, in at most one of the six places;
* `Runs`: without a final migration the service runs exactly on its host; with
  one, it runs at the source only until it is halted and at the destination only
  from its start;
* `Listed`: the edge that runs the service as host, or has announced it, has an
  entry for it, and a second one if its source thread has not yet dropped the
  previous stay. An entry that is just about to be added (`ListingAt`) counts.

The proof has one lemma per action (or group of actions that leave the baton
alone), on top of a frame lemma: a step that changes neither queue, datagrams,
threads, containers, entries nor plan of `s` for the worse keeps the invariant of
`s`. Steps that would break it are those that disturb the service, which
`IInv'` no longer speaks of; `DisturbedGrows` shows that this is for good.
TLC checked `IInv` on small instances of both planners with all faults first.

*The request stream.* `RequestStream_proofs` proves, for all sizes of lengths,
requests, answers and windows and all bounds (`StreamAssumption`, which each
theorem names): `TypesHold == Spec => []TypeOK`; `RequestsFound == Spec =>
[]Parsed`, that the service accounts for every byte and finds each request once,
however TCP joins and splits the stream; and `AnswersInStep == ... Spec =>
[]InStep` for a device that has one request at a time and gets its answers whole
(`Window = 1`, `~Cut`). The invariant is the conjunction of `TypeOK`, of what the
machine keeps between two turns of its loop (`Buffered`) and `Parsed`; for the
device also `Accounted`, which says that each request found is being computed, or
its answer is on its way, or has been read. The arithmetic is linear in the length of a frame once products of a
counter and a length are split off as lemmas.

*What a migration promises.* `MigratePromises_proofs` builds on these.

* `Implements == Spec => PlacementSpec`: every step of the migration service is a
  step of `ServicePlacement` for one service, or a stutter. An action changes what
  at most one service shows of itself (where it runs, where its users are told,
  whether it is disturbed), so there is a lemma per kind of change, and `IInv`
  supplies that the change is one of the abstract ones: `Runs` that a start finds
  no other container, `Placed` that the server told is the one that has started.
* `NoneForgotten`: without lost datagrams (`"loss" \notin Faults`), an undisturbed
  service runs, or its baton is in the hands of a thread or on the network, or
  some thread is dead. With the types this is inductive as it stands: each step
  that takes a service out of one of these places puts it into the next, and the
  ones that do not disturb it or kill the thread. A lost datagram is the one way
  around it.
* `OwnSocket`: for the threshold planners (`~Optimized`), `SendsOnOpenSocket`. They
  order the preparation and the migration one after the other, and no other command
  reaches the server between the two, so that in `queue[e]` every migration of an
  undisturbed service follows its own preparation (`Paired`), or the preparation is
  the last there is and its migration on its way, and the source thread comes from the
  one to the other with the socket it has just opened (`EagerInv`). A PRE_MIGRATE that is
  dropped disturbs the service; its MIGRATE may be queued alone.
* `DestinationReady`: for the threshold planners and without lost datagrams,
  `DestReady`. The preparation's datagram precedes the migration's, in the network
  or because the destination has handled it (`ReadyInv`: `Ahead`, `Awaits`,
  `Arrived`). For the optimizing planner the first of these two is false
  (finding 2), and with lost datagrams the second is: the assumptions are what the
  code needs.
* `FirstMoveSafe`: `FirstMoveKeepsState`, for both kinds of planner, when docker
  takes and restores every checkpoint and no user leaves. Datagrams may be lost, and
  deployments and starts may fail. `FirstInv` speaks of a service that no server has
  both received and begun to migrate (`Fresh`); nothing is known of it, or there is
  one server, its origin, that has not received it, and then
  - `Spread`: only the origin migrates it, and only to others; whoever else has it,
    in a queue, in its list, or as its host, has a record of its arrival;
  - `Vessels`: the origin runs it until it has stopped it for good, and a server it
    goes to has a new container for it until the last checkpoint is unpacked;
  - `Supplied`: each step of the migration finds the images that the step before
    has made, in the folders of both servers;
  - `Paced`: the origin prepares before it stops the service, stops it once, and the
    centre looks for it elsewhere only after that.

  Services do not become fresh again, so the invariant is about fewer services with
  each step, and the two early returns of finding 1 are steps of services that are
  not fresh. The hypothesis on users cannot be dropped: TLC shows a service whose
  user leaves and comes back to start without its state under either planner, since
  nobody clears the records and folders of its first stay.

*The controller.* `CentralController_proofs` proves all of the safety invariants of
the run `central`, for any set of users, applications, stations and servers (of
which `NoServer` is none) and every set-up that `SetupSet` allows, not only the
seven of the run: `TypeCorrect`, `ControllerLives`, `HostsKnown`, `StatesAgree`,
`MigratesOnce` and `OrdersReachHost`. Premises of a property (`Once`, `Calm`) are
those of its theorem. `ControllerLives` has one that `Alive` has not: it is about
users that look for their service once, since for others `Alive` is false
(`CentralReturn`, `CentralLateAnswer`); that two users who look twice do no harm as
long as they stay and keep their application is only model-checked. Every step is about
one user, so the proofs show that it leaves what is said of all others alone, and
then follow the one. Four invariants rest on each other:

* `OnceInv`, for users that look for their service once: nobody has heard of a user
  that has not looked yet (`Unheard`); all that is on its way is about the one
  service of its user (`Mine`), which is deployed and allocated once
  (`DeployedOnce`); what a user says comes before its last will (`LeavesLast`); and
  the MQTT thread works only for users that have a row. That no handler raises
  follows.
* `PaceInv`, for threshold planners: only a service whose row says `running` is
  moved, and between the plan and its MIGRATED nothing writes `running`; so one
  order to move, or one MIGRATED, is on its way at most.
* `HostInv`: where a service runs is what the last ALLOCATED or MIGRATED on its way
  says, or, when there is none, what its row says. It needs either `PaceInv` (there
  is one such notice at most) or notices that keep their order.
* `CalmInv`: in addition a preparation precedes its migration in every queue, at
  the server the service runs on; the bits and the state of the service change
  together. That the two records agree, that there is one order of a kind, and
  that an order finds its service are read off from it.

*Membership.* `Membership_proofs` proves `TypeCorrect`, `RowsLive` (`NoDeadRow`),
`LiveServersKnown` (`LiveRegistered`) and `ServicesRun` (`HostRuns`), for any
servers and finitely many users. What makes them true is the order in which the
controller's messages arrive: a row, or a REGISTER on its way, of a server without
a session has that server's last will behind it (`RowInv`), unless the controller was
away when it was published (`missed`); a server that lives has
a REGISTER on its way with no last will behind it, or its row and no last will on
its way, or it is going to read a list without itself, upon which it registers
(`KnownInv`).

*Estimates.* `Estimates_proofs` proves `TypeCorrect`, `RestoreOfMigration`
(`RightRestore`), `CentreSurvives` (`Alive`) and `RestoresStay` (`RestoreKept`),
for finitely many servers. The centre finds the row of a report by the two servers
of the migration, the latest such row that is open; it is the right one, unless
reports overtake each other, since rows come in the order of the migrations and
before the reports of later ones (`OrderInv`), and the row of a report that comes next
is there and open (`OpenInv`). `SmoothInv` says what the optimizing planner needs
to find, so that no report ends the centre when nothing goes wrong and every server is
configured with phi and rho.

*The kernel's tables.* `RouteTables_proofs` proves `TypeCorrect`, `RoutedCorrect`,
`ShapedCorrect` and `CleanCorrect`, the theorems for `TypeOK`, `Routed`, `Shaped` and
`Clean`, for any finite sequence of users, any marks, table numbers, destinations and
speeds, and any number of interrupts and kills. Two users may share a mark
(`RouteMarks` in section 3), so that neither a filter nor a rule belongs to one
user, and the invariant cannot say whose it is. It counts instead (`Counted`): while
nobody has been killed or interrupted, the kernel has as many copies of a filter as
there are users that hold it, and as many rules of a mark as users that have one
with it, where the thread that is in the middle of `set_filter` and the users
still to be released (`Order`) decide who holds what. `Routed` and `Clean` are read
off from that: a copy and a rule of its own for every user, and, for one that shares
neither mark nor destination with another, no copy or rule but its own (`Routing`).
`Shaped` follows from the types and from `Limited`, which holds after
a kill too.

*Handover.* `Handover_proofs` proves `TypeCorrect` and `StationsKnown`
(`StationAgrees`: the last notice of a connected device, or its row when there is
none, names its station). `LeavesWeak` is proved for one device
(`AloneLeavesWeak`), and for any number the weaker `WeakLeave`, that some device
hears its own station weakly when any is sent away: with several, `LeavesWeak`
is false (`HandoverOthers`), since the report of one plans for all.

**Assumptions.** A theorem about a module assumes the module's `ASSUME`, which TLC
evaluates in the run of that module: types of the constants; values for "nothing"
that are none of the others; finite sets of users in `Membership` and of servers
in `Estimates`, whose proofs count them or pick a least one; users that are named
once in `RouteTables`; in `Handover` levels
and stations that fit each other. Further hypotheses (`~Optimized`, no loss, one
device, one request at a time) are written in the statement of the theorem and named above. Where
an argument would go by induction on a position in a queue or a list, it takes the
least counterexample instead (`WFMin` on the natural numbers).

**Only model-checked**, and why:

* `TypeOK` of `MobileUser`: no difficulty known, not written yet. Its other two
  properties are liveness.
* `RoundComplete` of `EdgeMonitors`, which needs the position of the iterator
  related to the list it was started on: not attempted yet.
* All liveness (`OrdersComplete`, `MigrationEnds`, `RegistersAgain`, `Settles`,
  `Served`, `Reconnects`, `Reported`, `Latest`), which is out of the prover's reach.

The violations are counterexamples, which need no proof.

## 5. Not modelled, and the plan

Not modelled, and why:

* The integer programme of the optimizing planner (`stats_edge.py`,
  `optimization_planner.py`): real arithmetic without state. Its guards, plans and
  timers are modelled, its answer is a nondeterministic choice. As it is, the
  solver calls `db.query_neighbor_candidates` (`stats_edge.py:250`), which no class
  defines, so that a plan would raise; the models say what the rest of the
  controller does with a solver that works.
* `estimator.py`, `communication_models.py`, `wifi_spec.py`, `placement.py` and the
  averages of the database: regression and path loss in floating point. What they
  need to be there is in `Estimates`.
* `log_parser.py`, the plots, the set-up scripts, `integration_test`: outside of the
  running system.
* `discovery_edge.py` reads a map of edges once, at the start: a constant here.
* `edge_protocol.py` is used by its own test only; `checkpoint_delta`,
  `checkpoint_rsync`, `MigrateDest.restore` and `update_migrating_service` are
  called by nothing.
* The content of images, xdelta patches and docker containers; the numbers of the
  services' ports; the gateways of the default routes, which follow the handovers, and
  which of several filters or rules for the same packets the kernel takes first.
* paho, docker, rsync, iptables, tc and SQLAlchemy: external, modelled from how the
  code uses them.

What is left of the plan, in this order:

1. `RoundComplete` of `EdgeMonitors` and the type invariant of `MobileUser`.
2. A form of `StateAgrees` for users that leave, or for the optimizing planner,
   and of `OneMigration` for several discoveries.
3. `FirstMoveKeepsState` for users that leave before their service is moved.
