--------------------------- MODULE MigrateService ---------------------------
(***************************************************************************)
(* The migration service of the edge servers: edge_controller.py with the  *)
(* source thread (migrate_source.py) and the destination thread            *)
(* (migrate_dest.py) it starts, the docker daemon and the checkpoint       *)
(* folders they drive (migrate_controller.py), and the UDP datagrams the   *)
(* two sides exchange.                                                     *)
(*                                                                         *)
(* On every edge server three threads run side by side.  The MQTT thread   *)
(* executes the handlers of edge_controller.py (deploy, destroy,           *)
(* pre-migrate, migrate, monitor-service) and puts commands into           *)
(* source_queue.  The source thread takes one command after the other.     *)
(* The destination thread takes one datagram after the other.  A handler   *)
(* of the last two is cut into the steps between which another thread of   *)
(* the same server, or another server, can touch what it uses.  An         *)
(* exception that leaves such a handler ends its thread for good           *)
(* (source_migration_handler, dest_migration_handler): stage "dead".       *)
(*                                                                         *)
(* The centralized controller appears only as the source of orders and the *)
(* reader of the notices PRE_MIGRATED and MIGRATED: host[s] is the server  *)
(* its database names for service s, plan[s] the migration it has ordered. *)
(* A published command is handled in the step that publishes it: commands  *)
(* reach one edge in order, and a late delivery is a late order.  Of the   *)
(* two commands the threshold planners publish together, the second is     *)
(* handled in a step of its own, before any other command of that edge.    *)
(***************************************************************************)
EXTENDS Naturals, Sequences, FiniteSets

CONSTANTS
  Edges,         \* the edge servers
  Services,      \* the offloaded services, one container name each
  NoEdge,        \* "no server"
  NoService,     \* what an idle thread works on
  Optimized,     \* TRUE: OPTIMIZED_PLAN, FALSE: the threshold planners
  Faults,        \* what may go wrong, a subset of FaultKinds
  FirstMeasure,  \* number of the request that triggers pre_measure (3)
  MaxOrders      \* bound: deployments and migrations ordered per service

FaultKinds ==
  { "checkpoint",  \* docker checkpoint returns an error
    "restore",     \* docker start --checkpoint returns an error
    "start",       \* docker start fails as well (its port is taken)
    "deploy",      \* docker run fails
    "depart",      \* an end user leaves between migrations
    "leave",       \* an end user leaves while its service migrates
    "loss" }       \* UDP datagrams get lost

ASSUME MigrateAssumption ==
  /\ NoEdge \notin Edges
  /\ NoService \notin Services
  /\ Optimized \in BOOLEAN
  /\ Faults \subseteq FaultKinds
  /\ FirstMeasure \in Nat \ {0}
  /\ MaxOrders \in Nat

VARIABLES
  container,   \* [edge][service]: state of the docker container of that name
  folder,      \* [edge][service]: images in /tmp/<container>; {}: no folder
  entries,     \* [edge][service]: edge_services, request number per entry
  subscribed,  \* [edge]: services whose MONITOR_SERVICE topic it subscribes to
  queue,       \* [edge]: source_queue
  src,         \* [edge]: what the source thread is doing
  srcRecords,  \* [edge]: keys of MigrateSource.records
  sock,        \* [edge]: MigrateSource.sock, one for all services
  net,         \* [edge][edge]: datagrams from the first to the second
  dst,         \* [edge]: what the destination thread is doing
  dstRecords,  \* [edge]: keys of MigrateDest.records
  reserved,    \* [edge]: services whose MigrateDest.sockets[...] is open
  host,        \* [service]: server_name in the centre's database
  plan,        \* [service]: the migration the centre has ordered
  reported,    \* services whose memory measurements the centre has
  notices,     \* published PRE_MIGRATED and MIGRATED not yet handled
  orders,      \* [service]: number of orders so far (for MaxOrders)
  disturbed    \* history: services whose migration was cut into, see Disturb

srcVars == <<queue, src, srcRecords, sock>>
dstVars == <<dst, dstRecords, reserved>>
dockerVars == <<container, folder>>
edgeVars == <<entries, subscribed>>
centreVars == <<host, plan, reported, notices, orders>>
vars == <<dockerVars, edgeVars, srcVars, net, dstVars, centreVars, disturbed>>

-----------------------------------------------------------------------------
(* Docker.  A deployed container runs with auto_remove and disappears when *)
(* it stops; one made by "docker create" stays behind.                     *)

RunStates == {"deployed", "restored", "reset"}
  \* "restored": continues from a checkpoint; "reset": started from its
  \* image although it should have continued
ContainerStates == {"none", "created", "exited"} \cup RunStates

Running(e, s) == container[e][s] \in RunStates
(* Mutant: the final checkpoint is taken with --leave-running. *)
StoppedLeftRunning(c) == c

Stopped(c) == IF c = "deployed" THEN "none" ELSE "exited"

(* Whether "docker checkpoint create" can succeed: only on a running       *)
(* container, and it may fail on one.                                      *)
CheckpointOK(e, s) ==
  {ok \in BOOLEAN : IF ok THEN Running(e, s)
                          ELSE ~Running(e, s) \/ "checkpoint" \in Faults}

(* docker_checkpoint removes the old image of that name first.             *)
Snap(images, name, ok) == IF ok THEN images \cup {name} ELSE images \ {name}

(* Files of a checkpoint folder.  "delta23" and "delta" are usable xdelta  *)
(* patches, "files" the small files of the last checkpoint.                *)
Images == {"pre1", "pre2", "pre3", "snapshot", "delta23", "delta", "files"}

Put(f, e, s, images) == [f EXCEPT ![e][s] = images]

-----------------------------------------------------------------------------
(* EdgeServices: the request numbers of the entries of one service on one  *)
(* edge, in list order.  Past RequestCap a number changes nothing.         *)

RequestCap == FirstMeasure + 1
Bump(r) == IF r < RequestCap THEN r + 1 ELSE r

IsListed(e, s) == entries[e][s] # <<>>
(* Mutant: add_service refuses a second entry of the same service. *)
AddEntryOnce(e, s, r) ==
  [entries EXCEPT ![e][s] = IF @ = <<>> THEN <<r>> ELSE @]

AddEntry(e, s, r) == [entries EXCEPT ![e][s] = Append(@, r)]

RemoveEntry(e, s) ==
  [entries EXCEPT ![e][s] = IF @ = <<>> THEN @ ELSE Tail(@)]

Subscribe(e, s) == [subscribed EXCEPT ![e] = @ \cup {s}]
Unsubscribe(e, s) == [subscribed EXCEPT ![e] = @ \ {s}]

-----------------------------------------------------------------------------
(* Commands of source_queue, datagrams, notices, and what threads do.      *)

Command(cmd, s, d, r) == [cmd |-> cmd, svc |-> s, dst |-> d, req |-> r]
Commands == [cmd : {"pre_measure", "measure", "prepare", "migrate"},
             svc : Services, dst : Edges, req : 0 .. RequestCap]

Datagram(cmd, s, r) == [cmd |-> cmd, svc |-> s, req |-> r]
Datagrams == [cmd : {"prepare", "migrate"}, svc : Services,
              req : 0 .. RequestCap]

Notice(kind, s, e) == [kind |-> kind, svc |-> s, edge |-> e]
Notices == [kind : {"pre_migrated", "migrated"}, svc : Services, edge : Edges]

Idle == [stage |-> "idle", svc |-> NoService, dst |-> NoEdge, req |-> 0]
Dead == [stage |-> "dead", svc |-> NoService, dst |-> NoEdge, req |-> 0]

SrcStages == {"measured", "preparing", "copied", "prepared", "stopped", "sent",
              "dropped"}
DstStages == {"pulled", "unpacked", "restored", "failed", "started", "announced",
              "listed", "resnapping"}
Tasks(stages) == {Idle, Dead} \cup [stage : stages, svc : Services,
                                    dst : Edges, req : 0 .. RequestCap]

NoPlan == [phase |-> "idle", dst |-> NoEdge]
Plans == {NoPlan} \cup
         [phase : {"prepare", "prepared", "unscheduled", "migrate"}, dst : Edges]

(* A service is disturbed from the moment something outside the protocol   *)
(* breaks one of its migrations: its user leaves in the middle of it, the  *)
(* final checkpoint fails, the container does not start again, the prepare *)
(* of an abandoned plan removes the running container, or an order comes   *)
(* before the destination of the last one has listed the service.          *)
Disturb(s, b) == disturbed' = IF b THEN disturbed \cup {s} ELSE disturbed

-----------------------------------------------------------------------------
Init ==
  /\ container = [e \in Edges |-> [s \in Services |-> "none"]]
  /\ folder = [e \in Edges |-> [s \in Services |-> {}]]
  /\ entries = [e \in Edges |-> [s \in Services |-> <<>>]]
  /\ subscribed = [e \in Edges |-> {}]
  /\ queue = [e \in Edges |-> <<>>]
  /\ src = [e \in Edges |-> Idle]
  /\ srcRecords = [e \in Edges |-> {}]
  /\ sock = [e \in Edges |-> "open"]
  /\ net = [e \in Edges |-> [d \in Edges |-> <<>>]]
  /\ dst = [e \in Edges |-> Idle]
  /\ dstRecords = [e \in Edges |-> {}]
  /\ reserved = [e \in Edges |-> {}]
  /\ host = [s \in Services |-> NoEdge]
  /\ plan = [s \in Services |-> NoPlan]
  /\ reported = {}
  /\ notices = {}
  /\ orders = [s \in Services |-> 0]
  /\ disturbed = {}

-----------------------------------------------------------------------------
(* Orders of the centralized controller and their handlers on the edge.    *)

(* The threshold planners have published the MIGRATE of s right after its  *)
(* PRE_MIGRATE, and its server has yet to handle it: no later command can  *)
(* reach that server before.                                               *)
OnItsWay(s) == ~Optimized /\ plan[s].phase = "prepared"
InTurn(e) == \A s \in Services : OnItsWay(s) => host[s] # e

(* A discovery places s on e; process_deploy runs start_edge_service.  A   *)
(* running container that is still listed is kept, any other one is        *)
(* removed and a new one is run.                                           *)
Deploy(s, e) ==
  /\ host[s] = NoEdge
  /\ InTurn(e)
  /\ orders[s] < MaxOrders
  /\ \/ /\ Running(e, s) /\ IsListed(e, s)
        /\ UNCHANGED <<container, edgeVars>>
     \/ /\ ~(Running(e, s) /\ IsListed(e, s))
        /\ container' = [container EXCEPT ![e][s] = "deployed"]
        /\ entries' = AddEntry(e, s, 0)
        /\ subscribed' = Subscribe(e, s)
  /\ host' = [host EXCEPT ![s] = e]
  /\ orders' = [orders EXCEPT ![s] = @ + 1]
  /\ UNCHANGED <<folder, srcVars, net, dstVars, plan, reported, notices,
                 disturbed>>

(* docker run fails: what ran before has been removed, nothing is listed.  *)
DeployFails(s, e) ==
  /\ "deploy" \in Faults
  /\ host[s] = NoEdge
  /\ InTurn(e)
  /\ ~(Running(e, s) /\ IsListed(e, s))
  /\ container' = [container EXCEPT ![e][s] = "none"]
  /\ UNCHANGED <<folder, edgeVars, srcVars, net, dstVars, centreVars,
                 disturbed>>

(* dest_migrate_cb of d has published MIGRATED and has yet to list s.      *)
ListingAt(d, s) == dst[d].stage = "announced" /\ dst[d].svc = s

(* The end user leaves: destroy_service at the centre, process_destroy at  *)
(* the server its database names.  A container that docker no longer knows *)
(* leaves the list and the subscription as they are.  A migration is over  *)
(* when its destination has listed the service.                            *)
Leave(s) ==
  LET e == host[s]
      moving == plan[s].phase # "idle" \/ \E d \in Edges : ListingAt(d, s)
  IN
  /\ e # NoEdge
  /\ InTurn(e)
  /\ (IF moving THEN "leave" ELSE "depart") \in Faults
  /\ IF IsListed(e, s) /\ container[e][s] # "none"
     THEN /\ container' = [container EXCEPT ![e][s] =
                             IF @ \in RunStates THEN "none" ELSE @]
          /\ entries' = RemoveEntry(e, s)
          /\ subscribed' = Unsubscribe(e, s)
     ELSE UNCHANGED <<container, edgeVars>>
  /\ host' = [host EXCEPT ![s] = NoEdge]
  /\ plan' = [plan EXCEPT ![s] = NoPlan]
  /\ reported' = reported \ {s}
  /\ Disturb(s, moving)
  /\ UNCHANGED <<folder, srcVars, net, dstVars, notices, orders>>

(* process_pre_migrate and process_migrate put a command into source_queue *)
(* if the service is listed, and do nothing otherwise.                     *)
Enqueue(e, s, cmds) ==
  /\ queue' = IF IsListed(e, s) THEN [queue EXCEPT ![e] = @ \o cmds] ELSE queue
  /\ Disturb(s, ~IsListed(e, s))

PrepareCmd(e, s, d) == Command("prepare", s, d, 0)
MigrateCmd(e, s, d) ==
  Command("migrate", s, d, IF IsListed(e, s) THEN Head(entries[e][s]) ELSE 0)

(* The centre orders s to move to d: process_pre_migrate at the source.    *)
(* The threshold planners publish PRE_MIGRATE and MIGRATE one right after  *)
(* the other, so that the migration is then on its way; the optimized one  *)
(* publishes PRE_MIGRATE, and only for a service whose memory it knows.    *)
Order(s, d) ==
  LET e == host[s] IN
  /\ e # NoEdge /\ d # e
  /\ plan[s].phase = "idle"
  /\ InTurn(e)
  /\ orders[s] < MaxOrders
  /\ Optimized => s \in reported
  /\ Enqueue(e, s, <<PrepareCmd(e, s, d)>>)
  /\ plan' = [plan EXCEPT ![s] =
                [phase |-> IF Optimized THEN "prepare" ELSE "prepared", dst |-> d]]
  /\ orders' = [orders EXCEPT ![s] = @ + 1]
  /\ UNCHANGED <<dockerVars, edgeVars, src, srcRecords, sock, net, dstVars,
                 host, reported, notices>>

(* Mutant: it is not tested whether there is a stored plan. *)
PreMigratedUntested(n) ==
  /\ n \in notices /\ n.kind = "pre_migrated"
  /\ plan' = [plan EXCEPT ![n.svc].phase = "prepared"]
  /\ notices' = notices \ {n}
  /\ UNCHANGED <<dockerVars, edgeVars, srcVars, net, dstVars, host, reported,
                 orders, disturbed>>

(* process_pre_migrated: the optimized planner schedules the migration of  *)
(* the plan it is about, drops the plan because the user is expected to    *)
(* stay for long (lifetime_to_mig > 200), or leaves it as it is, with no   *)
(* timer, because it has no estimate of that time (None).                  *)
PreMigrated(n) ==
  LET p == plan[n.svc] IN
  /\ n \in notices /\ n.kind = "pre_migrated"
  /\ plan' \in IF p.phase = "prepare" /\ p.dst = n.edge
              THEN {[plan EXCEPT ![n.svc].phase = "prepared"],
                    [plan EXCEPT ![n.svc].phase = "unscheduled"],
                    [plan EXCEPT ![n.svc] = NoPlan]}
              ELSE {plan}
  /\ notices' = notices \ {n}
  /\ UNCHANGED <<dockerVars, edgeVars, srcVars, net, dstVars, host, reported,
                 orders, disturbed>>

(* Mutant: trigger_migration forgets to set MIGRATE_STATE. *)
OrderMigrateUnmarked(s) ==
  LET e == host[s] IN
  /\ plan[s].phase = "prepared"
  /\ Enqueue(e, s, <<MigrateCmd(e, s, plan[s].dst)>>)
  /\ UNCHANGED <<dockerVars, edgeVars, src, srcRecords, sock, net, dstVars,
                 centreVars>>

(* process_migrate at the source: the timer of trigger_migration has       *)
(* expired, or the command was published along with PRE_MIGRATE.           *)
OrderMigrate(s) ==
  LET e == host[s] IN
  /\ plan[s].phase = "prepared"
  /\ Enqueue(e, s, <<MigrateCmd(e, s, plan[s].dst)>>)
  /\ plan' = [plan EXCEPT ![s].phase = "migrate"]
  /\ UNCHANGED <<dockerVars, edgeVars, src, srcRecords, sock, net, dstVars,
                 host, reported, notices, orders>>

(* process_migrated: the database names the new server.                    *)
Migrated(n) ==
  /\ n \in notices /\ n.kind = "migrated"
  /\ ~OnItsWay(n.svc)
  /\ IF host[n.svc] # NoEdge
     THEN /\ host' = [host EXCEPT ![n.svc] = n.edge]
          /\ plan' = [plan EXCEPT ![n.svc] = NoPlan]
     ELSE UNCHANGED <<host, plan>>
  /\ notices' = notices \ {n}
  /\ UNCHANGED <<dockerVars, edgeVars, srcVars, net, dstVars, reported,
                 orders, disturbed>>

(* process_monitor_service: the end user reports a served request.  Every  *)
(* entry counts it; the one that reaches FirstMeasure triggers pre_measure *)
(* and the next number triggers measure.                                   *)
Triggered(e, s) ==
  LET hits == {i \in DOMAIN entries[e][s] :
                 entries[e][s][i] + 1 \in {FirstMeasure, FirstMeasure + 1}}
      nth(k) == CHOOSE h \in hits : Cardinality({i \in hits : i <= h}) = k
  IN [k \in 1 .. Cardinality(hits) |->
        Command(IF entries[e][s][nth(k)] + 1 = FirstMeasure
                THEN "pre_measure" ELSE "measure", s, e, 0)]

MonitorService(e, s) ==
  /\ s \in subscribed[e]
  /\ queue' = [queue EXCEPT ![e] = @ \o Triggered(e, s)]
  /\ entries' = [entries EXCEPT ![e][s] = [i \in DOMAIN @ |-> Bump(@[i])]]
  /\ UNCHANGED <<dockerVars, subscribed, src, srcRecords, sock, net, dstVars,
                 centreVars, disturbed>>

-----------------------------------------------------------------------------
(* Source thread.  Takes is the head of node_main's loop.                  *)

Takes(e, cmd) ==
  /\ src[e].stage = "idle"
  /\ queue[e] # <<>> /\ Head(queue[e]).cmd = cmd
  /\ queue' = [queue EXCEPT ![e] = Tail(@)]

SrcGoes(e, stage, c) ==
  src' = [src EXCEPT ![e] = [stage |-> stage, svc |-> c.svc, dst |-> c.dst,
                             req |-> c.req]]
SrcRests(e) == src' = [src EXCEPT ![e] = Idle]
SrcDies(e) == src' = [src EXCEPT ![e] = Dead]

(* handle_cmd_pre_measure: docker_verify raises unless the container runs. *)
PreMeasure(e) ==
  LET s == Head(queue[e]).svc IN
  /\ Takes(e, "pre_measure")
  /\ \/ /\ ~Running(e, s)
        /\ SrcDies(e)
        /\ UNCHANGED folder
     \/ /\ Running(e, s)
        /\ SrcRests(e)
        /\ \E ok \in CheckpointOK(e, s) :
             folder' = Put(folder, e, s, Snap(folder[e][s], "pre1", ok))
  /\ UNCHANGED <<container, edgeVars, srcRecords, sock, net, dstVars,
                 centreVars, disturbed>>

(* handle_cmd_measure_dirty up to the callback: "du" of the second image   *)
(* raises if the checkpoint failed.                                        *)
Measure(e) ==
  LET c == Head(queue[e]) IN
  /\ Takes(e, "measure")
  /\ \E ok \in CheckpointOK(e, c.svc) :
       /\ folder' = Put(folder, e, c.svc, Snap(folder[e][c.svc], "pre2", ok))
       /\ IF ok THEN SrcGoes(e, "measured", c) ELSE SrcDies(e)
  /\ UNCHANGED <<container, edgeVars, srcRecords, sock, net, dstVars,
                 centreVars, disturbed>>

(* source_dirty_rate_cb: the entry may have gone; the container monitor    *)
(* forwards the result to the centre.                                      *)
MeasureReport(e) ==
  LET s == src[e].svc IN
  /\ src[e].stage = "measured"
  /\ IF IsListed(e, s)
     THEN SrcRests(e) /\ reported' = reported \cup {s}
     ELSE SrcDies(e) /\ UNCHANGED reported
  /\ UNCHANGED <<dockerVars, edgeVars, queue, srcRecords, sock, net, dstVars,
                 host, plan, notices, orders, disturbed>>

(* Mutant: prepare goes on with the socket it finds. *)
PrepareOldSocket(e) ==
  LET c == Head(queue[e]) IN
  /\ Takes(e, "prepare")
  /\ srcRecords' = [srcRecords EXCEPT ![e] = @ \cup {c.svc}]
  /\ IF "pre2" \in folder[e][c.svc]
     THEN SrcGoes(e, "preparing", c) ELSE SrcDies(e)
  /\ UNCHANGED <<dockerVars, edgeVars, sock, net, dstVars, centreVars, disturbed>>

(* handle_cmd_prepare, first part: a new socket and a new record, then     *)
(* "du" of the second image, which raises if there is none.                *)
Prepare(e) ==
  LET c == Head(queue[e]) IN
  /\ Takes(e, "prepare")
  /\ sock' = [sock EXCEPT ![e] = "open"]
  /\ srcRecords' = [srcRecords EXCEPT ![e] = @ \cup {c.svc}]
  /\ IF "pre2" \in folder[e][c.svc]
     THEN SrcGoes(e, "preparing", c) ELSE SrcDies(e)
  /\ UNCHANGED <<dockerVars, edgeVars, net, dstVars, centreVars, disturbed>>

(* Second part: a third checkpoint and the transfer of the second one.     *)
PrepareCheckpoint(e) ==
  LET s == src[e].svc
      d == src[e].dst
  IN
  /\ src[e].stage = "preparing"
  /\ \E ok \in CheckpointOK(e, s) :
       LET taken == Put(folder, e, s, Snap(folder[e][s], "pre3", ok))
       IN folder' = Put(taken, d, s,
                        taken[d][s] \cup (folder[e][s] \cap {"pre2"}) \cup {"files"})
  /\ src' = [src EXCEPT ![e].stage = "copied"]
  /\ UNCHANGED <<container, edgeVars, queue, srcRecords, sock, net, dstVars,
                 centreVars, disturbed>>

(* Mutant: the difference of the second and third image is not sent. *)
PrepareDeltaUnsent(e) ==
  /\ src[e].stage = "copied"
  /\ src' = [src EXCEPT ![e].stage = "prepared"]
  /\ UNCHANGED <<dockerVars, edgeVars, queue, srcRecords, sock, net, dstVars,
                 centreVars, disturbed>>

(* Third part: the difference of the two is computed and transferred.      *)
PrepareDelta(e) ==
  LET s == src[e].svc
      d == src[e].dst
      patch == IF {"pre2", "pre3"} \subseteq folder[e][s] THEN {"delta23"} ELSE {}
  IN
  /\ src[e].stage = "copied"
  /\ folder' = Put(folder, d, s, folder[d][s] \cup patch \cup {"files"})
  /\ src' = [src EXCEPT ![e].stage = "prepared"]
  /\ UNCHANGED <<container, edgeVars, queue, srcRecords, sock, net, dstVars,
                 centreVars, disturbed>>

(* Last part: source_prepare_cb publishes PRE_MIGRATED, then the datagram. *)
PrepareNotify(e) ==
  LET s == src[e].svc
      d == src[e].dst
  IN
  /\ src[e].stage = "prepared"
  /\ notices' = notices \cup {Notice("pre_migrated", s, d)}
  /\ net' = [net EXCEPT ![e][d] = Append(@, Datagram("prepare", s, 0))]
  /\ SrcRests(e)
  /\ UNCHANGED <<dockerVars, edgeVars, queue, srcRecords, sock, dstVars,
                 host, plan, reported, orders, disturbed>>

(* handle_cmd_migrate, first part: the record must exist; checkpoint and   *)
(* stop.  A failing checkpoint is logged and the handler goes on.          *)
MigrateStop(e) ==
  LET c == Head(queue[e])
      s == c.svc
  IN
  /\ Takes(e, "migrate")
  /\ \/ /\ s \notin srcRecords[e]
        /\ SrcDies(e)
        /\ UNCHANGED <<dockerVars, disturbed>>
     \/ /\ s \in srcRecords[e]
        /\ \E ok \in CheckpointOK(e, s) :
             /\ folder' = Put(folder, e, s, Snap(folder[e][s], "snapshot", ok))
             /\ container' = IF ok THEN [container EXCEPT ![e][s] = Stopped(@)]
                                   ELSE container
             /\ Disturb(s, ~ok)
        /\ SrcGoes(e, "stopped", c)
  /\ UNCHANGED <<edgeVars, srcRecords, sock, net, dstVars, centreVars>>

(* Mutant: the destination is not told to restore. *)
MigrateSendSilent(e) ==
  LET s == src[e].svc
      d == src[e].dst
  IN
  /\ src[e].stage = "stopped"
  /\ folder[e][s] # {} /\ sock[e] = "open"
  /\ folder' = Put(folder, d, s, folder[d][s] \cup {"delta", "files"})
  /\ sock' = [sock EXCEPT ![e] = "closed"]
  /\ src' = [src EXCEPT ![e].stage = "sent"]
  /\ UNCHANGED <<container, edgeVars, queue, srcRecords, net, dstVars, centreVars,
                 disturbed>>

(* Second part: the difference to the third image is transferred, then the *)
(* datagram leaves through the shared socket, which is closed.  os.mkdir   *)
(* raises without the folder, sendto on a closed socket.                   *)
MigrateSend(e) ==
  LET s == src[e].svc
      d == src[e].dst
      patch == IF {"pre3", "snapshot"} \subseteq folder[e][s]
               THEN {"delta"} ELSE {}
      sent == Put(folder, d, s, folder[d][s] \cup patch \cup {"files"})
  IN
  /\ src[e].stage = "stopped"
  /\ \/ /\ folder[e][s] = {}
        /\ SrcDies(e)
        /\ UNCHANGED <<folder, net, sock>>
     \/ /\ folder[e][s] # {} /\ sock[e] = "closed"
        /\ folder' = sent
        /\ SrcDies(e)
        /\ UNCHANGED <<net, sock>>
     \/ /\ folder[e][s] # {} /\ sock[e] = "open"
        /\ folder' = sent
        /\ net' = [net EXCEPT ![e][d] =
                     Append(@, Datagram("migrate", s, src[e].req))]
        /\ sock' = [sock EXCEPT ![e] = "closed"]
        /\ src' = [src EXCEPT ![e].stage = "sent"]
  /\ UNCHANGED <<container, edgeVars, queue, srcRecords, dstVars, centreVars,
                 disturbed>>

(* Third part: source_migrate_cb drops the service.                        *)
MigrateFinish(e) ==
  LET s == src[e].svc IN
  /\ src[e].stage = "sent"
  /\ subscribed' = Unsubscribe(e, s)
  /\ entries' = RemoveEntry(e, s)
  /\ src' = [src EXCEPT ![e].stage = "dropped"]
  /\ UNCHANGED <<dockerVars, queue, srcRecords, sock, net, dstVars, centreVars,
                 disturbed>>

(* Last part: the folder is removed, with all that is in it by now.        *)
MigrateCleanup(e) ==
  /\ src[e].stage = "dropped"
  /\ folder' = Put(folder, e, src[e].svc, {})
  /\ SrcRests(e)
  /\ UNCHANGED <<container, edgeVars, queue, srcRecords, sock, net, dstVars,
                 centreVars, disturbed>>

SourceStep(e) ==
  \/ PreMeasure(e) \/ Measure(e) \/ MeasureReport(e)
  \/ Prepare(e) \/ PrepareCheckpoint(e) \/ PrepareDelta(e) \/ PrepareNotify(e)
  \/ MigrateStop(e) \/ MigrateSend(e) \/ MigrateFinish(e) \/ MigrateCleanup(e)

-----------------------------------------------------------------------------
(* Destination thread.  Receives is the head of node_main's loop.          *)

Receives(e, d, cmd) ==
  /\ dst[d].stage = "idle"
  /\ net[e][d] # <<>> /\ Head(net[e][d]).cmd = cmd
  /\ net' = [net EXCEPT ![e][d] = Tail(@)]

DstGoes(d, stage, m) ==
  dst' = [dst EXCEPT ![d] = [stage |-> stage, svc |-> m.svc, dst |-> d,
                             req |-> m.req]]
DstRests(d) == dst' = [dst EXCEPT ![d] = Idle]
DstDies(d) == dst' = [dst EXCEPT ![d] = Dead]

(* handle_cmd_prepare, first part: a new record; the third image is        *)
(* rebuilt (restore_diff makes its folder, which raises if the folder of   *)
(* the service has gone).                                                  *)
DestPrepare(e, d) ==
  LET m == Head(net[e][d])
      s == m.svc
  IN
  /\ Receives(e, d, "prepare")
  /\ dstRecords' = [dstRecords EXCEPT ![d] = @ \cup {s}]
  /\ \/ /\ folder[d][s] = {}
        /\ DstDies(d)
        /\ UNCHANGED folder
     \/ /\ folder[d][s] # {}
        /\ folder' = IF {"pre2", "delta23"} \subseteq folder[d][s]
                     THEN Put(folder, d, s, folder[d][s] \cup {"pre3"})
                     ELSE folder
        /\ DstGoes(d, "pulled", m)
  /\ UNCHANGED <<container, edgeVars, srcVars, reserved, centreVars, disturbed>>

(* Mutant: the bound socket is not kept. *)
DestCreateUnreserved(d) ==
  LET s == dst[d].svc IN
  /\ dst[d].stage = "pulled"
  /\ container' = [container EXCEPT ![d][s] = "created"]
  /\ DstRests(d)
  /\ Disturb(s, Running(d, s))
  /\ UNCHANGED <<folder, edgeVars, srcVars, net, dstRecords, reserved, centreVars>>

(* Second part: a port is reserved by a bound socket and the container is  *)
(* created, in place of any container of that name: a prepare that comes   *)
(* after the service has been deployed here stops it.                      *)
DestCreate(d) ==
  LET s == dst[d].svc IN
  /\ dst[d].stage = "pulled"
  /\ reserved' = [reserved EXCEPT ![d] = @ \cup {s}]
  /\ container' = [container EXCEPT ![d][s] = "created"]
  /\ DstRests(d)
  /\ Disturb(s, Running(d, s))
  /\ UNCHANGED <<folder, edgeVars, srcVars, net, dstRecords, centreVars>>

(* handle_cmd_migrate, first part: the record and an open socket must      *)
(* exist; the socket is closed and the image rebuilt.                      *)
DestUnpack(e, d) ==
  LET m == Head(net[e][d])
      s == m.svc
      ready == s \in dstRecords[d] /\ s \in reserved[d]
  IN
  /\ Receives(e, d, "migrate")
  /\ reserved' = [reserved EXCEPT ![d] = @ \ {s}]
  /\ \/ /\ ~ready \/ folder[d][s] = {}
        /\ DstDies(d)
        /\ UNCHANGED folder
     \/ /\ ready /\ folder[d][s] # {}
        /\ folder' = IF {"pre3", "delta"} \subseteq folder[d][s]
                     THEN Put(folder, d, s, folder[d][s] \cup {"snapshot"})
                     ELSE folder
        /\ DstGoes(d, "unpacked", m)
  /\ UNCHANGED <<container, edgeVars, srcVars, dstRecords, centreVars, disturbed>>

(* Second part: docker_restore from the rebuilt image.                     *)
Startable(d, s) == container[d][s] \in {"created", "exited"}

RestoreOK(d, s) ==
  {ok \in BOOLEAN :
     IF ok THEN Startable(d, s) /\ "snapshot" \in folder[d][s]
     ELSE ~Startable(d, s) \/ "snapshot" \notin folder[d][s] \/ "restore" \in Faults}

DestRestore(d) ==
  LET s == dst[d].svc IN
  /\ dst[d].stage = "unpacked"
  /\ \E ok \in RestoreOK(d, s) :
       /\ container' = IF ok THEN [container EXCEPT ![d][s] = "restored"]
                             ELSE container
       /\ dst' = [dst EXCEPT ![d].stage = IF ok THEN "restored" ELSE "failed"]
  /\ UNCHANGED <<folder, edgeVars, srcVars, net, dstRecords, reserved,
                 centreVars, disturbed>>

(* Third part: "du" raises if the folder has gone.  If the restore failed, *)
(* docker_start starts the container from its image.                       *)
StartOutcomes(d, s) ==
  (IF Startable(d, s) THEN {"reset"} ELSE {container[d][s]})
    \cup (IF "start" \in Faults THEN {container[d][s]} ELSE {})

DestStart(d) ==
  LET s == dst[d].svc IN
  /\ dst[d].stage \in {"restored", "failed"}
  /\ \/ /\ folder[d][s] = {}
        /\ DstDies(d)
        /\ UNCHANGED <<container, disturbed>>
     \/ /\ folder[d][s] # {}
        /\ \E c \in IF dst[d].stage = "failed" THEN StartOutcomes(d, s)
                    ELSE {container[d][s]} :
             /\ container' = [container EXCEPT ![d][s] = c]
             /\ Disturb(s, c \notin {"restored", "reset"})
        /\ dst' = [dst EXCEPT ![d].stage = "started"]
  /\ UNCHANGED <<folder, edgeVars, srcVars, net, dstRecords, reserved,
                 centreVars>>

(* Mutant: MIGRATED is not published. *)
DestAnnounceSilent(d) ==
  /\ dst[d].stage = "started"
  /\ dst' = [dst EXCEPT ![d].stage = "announced"]
  /\ UNCHANGED <<dockerVars, edgeVars, srcVars, net, dstRecords, reserved,
                 centreVars, disturbed>>

(* dest_migrate_cb publishes MIGRATED, whatever became of the container    *)
DestAnnounce(d) ==
  /\ dst[d].stage = "started"
  /\ notices' = notices \cup {Notice("migrated", dst[d].svc, d)}
  /\ dst' = [dst EXCEPT ![d].stage = "announced"]
  /\ UNCHANGED <<dockerVars, edgeVars, srcVars, net, dstRecords, reserved, host,
                 plan, reported, orders, disturbed>>

(* ... and then lists the service.                                         *)
DestList(d) ==
  LET s == dst[d].svc IN
  /\ dst[d].stage = "announced"
  /\ entries' = AddEntry(d, s, dst[d].req)
  /\ subscribed' = Subscribe(d, s)
  /\ dst' = [dst EXCEPT ![d].stage = "listed"]
  /\ UNCHANGED <<dockerVars, srcVars, net, dstRecords, reserved, centreVars,
                 disturbed>>

(* Last part: a new second image for the next migration; docker_checkpoint *)
(* removes the old one before it takes the new one.                        *)
DestResnap(d) ==
  LET s == dst[d].svc IN
  /\ dst[d].stage = "listed"
  /\ folder' = Put(folder, d, s, folder[d][s] \ {"pre2"})
  /\ dst' = [dst EXCEPT ![d].stage = "resnapping"]
  /\ UNCHANGED <<container, edgeVars, srcVars, net, dstRecords, reserved,
                 centreVars, disturbed>>

DestResnapDone(d) ==
  LET s == dst[d].svc IN
  /\ dst[d].stage = "resnapping"
  /\ \E ok \in CheckpointOK(d, s) :
       folder' = Put(folder, d, s, Snap(folder[d][s], "pre2", ok))
  /\ DstRests(d)
  /\ UNCHANGED <<container, edgeVars, srcVars, net, dstRecords, reserved,
                 centreVars, disturbed>>

DestStep(d) ==
  \/ \E e \in Edges : DestPrepare(e, d) \/ DestUnpack(e, d)
  \/ DestCreate(d) \/ DestRestore(d) \/ DestStart(d)
  \/ DestAnnounce(d) \/ DestList(d) \/ DestResnap(d) \/ DestResnapDone(d)

(* UDP: the datagram at position i is lost.                                *)
Lose(e, d, i) ==
  /\ "loss" \in Faults
  /\ net' = [net EXCEPT ![e][d] = SubSeq(@, 1, i - 1) \o SubSeq(@, i + 1, Len(@))]
  /\ UNCHANGED <<dockerVars, edgeVars, srcVars, dstVars, centreVars, disturbed>>

-----------------------------------------------------------------------------
Next ==
  \/ \E s \in Services, e \in Edges : Deploy(s, e)
  \/ \E s \in Services, e \in Edges : DeployFails(s, e)
  \/ \E s \in Services, d \in Edges : Order(s, d)
  \/ \E s \in Services : Leave(s) \/ OrderMigrate(s)
  \/ \E n \in notices : PreMigrated(n) \/ Migrated(n)
  \/ \E s \in Services, e \in Edges : MonitorService(e, s)
  \/ \E e \in Edges : SourceStep(e) \/ DestStep(e)
  \/ \E e, d \in Edges : \E i \in DOMAIN net[e][d] : Lose(e, d, i)

Spec == Init /\ [][Next]_vars

(* The threads of the edge servers, the centre's handlers and its timers   *)
(* keep running; what users do and what fails is not forced.               *)
Fairness ==
  /\ \A e \in Edges : WF_vars(SourceStep(e)) /\ WF_vars(DestStep(e))
  /\ \A n \in Notices : WF_vars(PreMigrated(n)) /\ WF_vars(Migrated(n))
  /\ \A s \in Services : WF_vars(OrderMigrate(s))

FairSpec == Spec /\ Fairness
-----------------------------------------------------------------------------
(* Types of all variables.                                                 *)
TypeOK ==
  /\ container \in [Edges -> [Services -> ContainerStates]]
  /\ folder \in [Edges -> [Services -> SUBSET Images]]
  /\ entries \in [Edges -> [Services -> Seq(0 .. RequestCap)]]
  /\ subscribed \in [Edges -> SUBSET Services]
  /\ queue \in [Edges -> Seq(Commands)]
  /\ src \in [Edges -> Tasks(SrcStages)]
  /\ srcRecords \in [Edges -> SUBSET Services]
  /\ sock \in [Edges -> {"open", "closed"}]
  /\ net \in [Edges -> [Edges -> Seq(Datagrams)]]
  /\ dst \in [Edges -> Tasks(DstStages)]
  /\ dstRecords \in [Edges -> SUBSET Services]
  /\ reserved \in [Edges -> SUBSET Services]
  /\ host \in [Services -> Edges \cup {NoEdge}]
  /\ plan \in [Services -> Plans]
  /\ reported \in SUBSET Services
  /\ notices \in SUBSET Notices
  /\ orders \in [Services -> Nat]
  /\ disturbed \in SUBSET Services

(* One place: a service whose migrations were not cut into never runs on   *)
(* two edge servers at once, whatever else is lost or dies.  The source    *)
(* must have stopped it (migrate_source.py:373) before any destination     *)
(* starts it (migrate_dest.py:126), over any number of moves.              *)
AtMostOneRunning ==
  \A s \in Services \ disturbed : \A e, d \in Edges :
    Running(e, s) /\ Running(d, s) => e = d

(* The server the centre's database names for a service runs it as long as *)
(* the final migration has not been ordered, so that a client sent there   *)
(* finds it (update_service in process_migrated, update of                 *)
(* process_allocated).                                                     *)
HostRuns ==
  \A s \in Services \ disturbed :
    host[s] # NoEdge /\ plan[s].phase # "migrate" => Running(host[s], s)

(* ... and lists it in edge_services, or is about to: otherwise            *)
(* process_pre_migrate, process_migrate and process_destroy would drop all *)
(* later commands without an answer (edge_controller.py:294, 338, 387).    *)
HostLists ==
  \A s \in Services \ disturbed :
    host[s] # NoEdge /\ plan[s].phase # "migrate" =>
      IsListed(host[s], s) \/ ListingAt(host[s], s)

(* A migrate datagram never finds the destination unprepared: either its   *)
(* prepare is still ahead of it, or the record and the reserved port are   *)
(* there (the KeyErrors of migrate_dest.py:111 and 113).                   *)
DestReady ==
  \A e, d \in Edges : \A i \in DOMAIN net[e][d] :
    LET m == net[e][d][i] IN
    m.cmd = "migrate" /\ m.svc \notin disturbed =>
      \/ dst[d].stage = "dead"
      \/ \E j \in 1 .. i - 1 :
           net[e][d][j].cmd = "prepare" /\ net[e][d][j].svc = m.svc
      \/ dst[d].stage = "pulled" /\ dst[d].svc = m.svc
      \/ m.svc \in dstRecords[d] /\ m.svc \in reserved[d]

(* The source never sends on the socket another service's migration has    *)
(* closed (migrate_source.py:407 after 412), for a service whose orders    *)
(* came when it was listed.  An order in the window of dest_migrate_cb     *)
(* (edge_controller.py:538, 540) can lose its PRE_MIGRATE (294) and keep   *)
(* its MIGRATE: the source then does send on the closed socket of an       *)
(* earlier migration, if it still has a record of one.                     *)
SendsOnOpenSocket ==
  \A e \in Edges :
    src[e].stage = "stopped" /\ src[e].svc \notin disturbed => sock[e] = "open"

(* A stopped service is not forgotten: it runs, or it is on its way, or a  *)
(* thread that had it has died.                                            *)
Underway(s) ==
  \/ \E e \in Edges : src[e].stage = "stopped" /\ src[e].svc = s
  \/ \E e, d \in Edges : \E i \in DOMAIN net[e][d] :
       net[e][d][i].cmd = "migrate" /\ net[e][d][i].svc = s
  \/ \E d \in Edges : dst[d].stage \in {"unpacked", "failed"} /\ dst[d].svc = s

ThreadDied == \E e \in Edges : src[e].stage = "dead" \/ dst[e].stage = "dead"

NeverForgotten ==
  \A s \in Services \ disturbed :
    host[s] # NoEdge =>
      (\E e \in Edges : Running(e, s)) \/ Underway(s) \/ ThreadDied

(* The counter of a stateful service survives its migrations: a container  *)
(* is never started afresh in place of the one that was stopped.           *)
StateKept ==
  \A e \in Edges, s \in Services : container[e][s] # "reset"

(* The first migration of a service never loses its state.  Only a later  *)
(* one can, of a service that leaves a server it had itself been migrated  *)
(* to: the late second image (migrate_dest.py:150) or the late removal of  *)
(* the folder (migrate_source.py:422) of the earlier migration meets the   *)
(* images of the later one.                                                *)
FirstMoveKeepsState ==
  \A e \in Edges, s \in Services :
    container[e][s] = "reset" =>
      \E d \in Edges : s \in srcRecords[d] \cap dstRecords[d]

(* Every migration the centre orders ends with its MIGRATED notice being   *)
(* handled or its plan dropped, unless a thread of some edge server has    *)
(* died, the order came before the server had listed the service           *)
(* (edge_controller.py:538, 540), or there was no estimate when the        *)
(* preparation was done (centralized_controller.py:610): that one order    *)
(* stays open for good.                                                    *)
OrdersComplete ==
  \A s \in Services :
    plan[s].phase \notin {"idle", "unscheduled"} ~>
      plan[s].phase \in {"idle", "unscheduled"} \/ ThreadDied \/ s \in disturbed
=============================================================================
