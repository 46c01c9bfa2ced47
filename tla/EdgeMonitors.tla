---------------------------- MODULE EdgeMonitors ----------------------------
(* Two threads of an edge server that measure and report for ever:         *)
(* container_monitor.py, which goes through the list of services, and      *)
(* network_monitor.py, which goes through a list of neighbours.  Both are  *)
(* told of changes by a queue and go on with what they had when it stays   *)
(* empty.                                                                  *)
(*                                                                         *)
(* The container monitor is not given a copy: every item of its queue is   *)
(* the one list of edge_services.py, which the thread of the MQTT client   *)
(* and the two migration threads change while it is gone through.  The     *)
(* lists of neighbours are fresh ones; they are numbered here.  Docker     *)
(* answers what it is asked about containers that are listed.              *)
EXTENDS Naturals, SequencesExt

CONSTANTS
  Services,    \* services, each of one user
  MaxChanges,  \* bound: arrivals and departures of services
  MaxUpdates,  \* bound: lists of neighbours
  MaxQueue     \* bound: items in the queue of the container monitor

ASSUME MonitorsAssumption == {MaxChanges, MaxUpdates, MaxQueue} \subseteq Nat

VARIABLES
  services,  \* EdgeServices.services: name, delta_memory and pre_checkpoint there
  changes,   \* arrivals and departures so far (for MaxChanges)
  queue,     \* items of mon_queue_container
  given,     \* last_list of the container monitor is the list, not []
  index,     \* where it is in the list, 0: it waits for its queue
  reports,   \* services reported in this round
  missed,    \* services that were listed and measured when this round began
  shifted,   \* a service was taken from the list since then
  ready,     \* wait_ready returns
  updates,   \* lists of neighbours made so far
  lists,     \* mon_queue_network
  flushing,  \* the network monitor is in flush_queue
  neighbours \* the list it measured last, 0: []

containerVars == <<queue, given, index, reports>>
roundVars == <<missed, shifted>>
networkVars == <<ready, updates, lists, flushing, neighbours>>
vars == <<services, changes, containerVars, roundVars, networkVars>>

Init ==
  /\ services = <<>> /\ changes = 0
  /\ queue = 0 /\ given = FALSE /\ index = 0 /\ reports = {}
  /\ missed = {} /\ shifted = FALSE
  /\ ready = FALSE
  /\ updates = 0 /\ lists = <<>> /\ flushing = TRUE /\ neighbours = 0

-----------------------------------------------------------------------------
(* The threads that change the list, and put it into the queue.            *)

Put == queue < MaxQueue /\ queue' = queue + 1
Changes == changes < MaxChanges /\ changes' = changes + 1

(* start_edge_service and dest_migrate_cb: a service that migrated here    *)
(* brings its measurements.                                                *)
Adds(s) ==
  /\ \E m \in BOOLEAN :
       services' = Append(services, [service |-> s, measured |-> m])
  /\ Changes /\ Put
  /\ UNCHANGED <<given, index, reports, roundVars, networkVars>>

(* find_index_service.                                                     *)
FindIndexService(s) ==
  {i \in DOMAIN services :
     services[i].service = s /\ \A j \in 1 .. i - 1 : services[j].service # s}

(* process_destroy and source_migrate_cb.                                  *)
Removes(s) ==
  /\ \E i \in FindIndexService(s) : services' = RemoveAt(services, i)
  /\ shifted' = TRUE
  /\ Changes /\ Put
  /\ UNCHANGED <<given, index, reports, missed, networkVars>>

(* source_dirty_rate_cb.                                                   *)
Measured(s) ==
  /\ \E i \in FindIndexService(s) :
       services' = [services EXCEPT ![i].measured = TRUE]
  /\ Put
  /\ UNCHANGED <<changes, given, index, reports, roundVars, networkVars>>

(* Services the container monitor can report.                              *)
Reportable == {x.service : x \in {y \in ToSet(services) : y.measured}}

-----------------------------------------------------------------------------
(* The container monitor.                                                  *)

Round ==
  /\ given' = TRUE
  /\ index' = 1
  /\ reports' = {}
  /\ missed' = Reportable
  /\ shifted' = FALSE

MainMonitor ==
  /\ ready
  /\ index = 0
  /\ queue > 0
  /\ queue' = queue - 1
  /\ Round
  /\ UNCHANGED <<services, changes, networkVars>>

(* Queue.Empty: the delay is over.                                         *)
MainMonitorAgain ==
  /\ ready
  /\ index = 0
  /\ queue = 0
  /\ given
  /\ Round
  /\ UNCHANGED <<services, changes, queue, networkVars>>

(* Mutant: measure stops at a service without measurements.                *)
MeasureStops ==
  /\ index > 0
  /\ IF index > Len(services)
     THEN index' = 0 /\ UNCHANGED reports
     ELSE IF services[index].measured
          THEN /\ reports' = reports \cup {services[index].service}
               /\ index' = index + 1
          ELSE index' = 0 /\ UNCHANGED reports
  /\ UNCHANGED <<services, changes, queue, given, roundVars, networkVars>>

(* One service of measure: the iterator of a list keeps its index whatever *)
(* happens to the list.                                                    *)
Measure ==
  /\ index > 0
  /\ IF index > Len(services)
     THEN index' = 0 /\ UNCHANGED reports
     ELSE /\ index' = index + 1
          /\ IF services[index].measured
             THEN reports' = reports \cup {services[index].service}
             ELSE UNCHANGED reports
  /\ UNCHANGED <<services, changes, queue, given, roundVars, networkVars>>

-----------------------------------------------------------------------------
(* The network monitor.                                                    *)

(* process_updated_servers.                                                *)
UpdatedServers ==
  /\ updates < MaxUpdates
  /\ updates' = updates + 1
  /\ lists' = Append(lists, updates')
  /\ ready' = TRUE
  /\ UNCHANGED <<services, changes, containerVars, roundVars, flushing,
                 neighbours>>

(* Mutant: flush_queue takes the last list as well.                        *)
FlushQueueAll ==
  /\ ready
  /\ flushing
  /\ IF lists # <<>> THEN lists' = Tail(lists) /\ UNCHANGED flushing
                     ELSE flushing' = FALSE /\ UNCHANGED lists
  /\ UNCHANGED <<services, changes, containerVars, roundVars, ready,
                 updates, neighbours>>

(* flush_queue, one round of its loop: it drops all but the last list, and *)
(* always returns None.                                                    *)
FlushQueue ==
  /\ ready
  /\ flushing
  /\ IF Len(lists) > 1 THEN lists' = Tail(lists) /\ UNCHANGED flushing
                       ELSE flushing' = FALSE /\ UNCHANGED lists
  /\ UNCHANGED <<services, changes, containerVars, roundVars, ready,
                 updates, neighbours>>

(* The list in the queue, or the last one when the time is over.           *)
MeasureNeighbours ==
  /\ ~flushing
  /\ flushing' = TRUE
  /\ IF lists # <<>> THEN neighbours' = Head(lists) /\ lists' = Tail(lists)
                     ELSE UNCHANGED <<neighbours, lists>>
  /\ UNCHANGED <<services, changes, containerVars, roundVars, ready, updates>>

-----------------------------------------------------------------------------
Next ==
  \/ \E s \in Services : Adds(s) \/ Removes(s) \/ Measured(s)
  \/ MainMonitor \/ MainMonitorAgain \/ Measure
  \/ UpdatedServers \/ FlushQueue \/ MeasureNeighbours

Spec == Init /\ [][Next]_vars

(* Threads are scheduled and delays end.                                   *)
FairSpec ==
  /\ Spec
  /\ WF_vars(MainMonitor) /\ WF_vars(MainMonitorAgain) /\ WF_vars(Measure)
  /\ WF_vars(FlushQueue) /\ WF_vars(MeasureNeighbours)

-----------------------------------------------------------------------------
(* Properties.                                                             *)

(* A round of the container monitor reports every service that was listed  *)
(* and measured all the time, unless a service was taken from the list     *)
(* meanwhile (container_monitor.py:68): then those behind it move up and   *)
(* one may be passed over until the next round.                            *)
RoundComplete ==
  [][index # 0 /\ index' = 0 => shifted \/ missed \subseteq reports]_vars

(* Such a service is reported again and again all the same, once the       *)
(* server is connected: a round follows every change (the queue, or the    *)
(* delay of five minutes).                                                 *)
Measurable(s) == ready /\ s \in Reportable
Reported == \A s \in Services : <>[]Measurable(s) => []<>(s \in reports)

(* The neighbours measured in the end are those of the last list, however  *)
(* fast the lists come (network_monitor.py:125-143).                       *)
Latest == <>[](neighbours = updates)
=============================================================================
