------------------------------ MODULE Estimates ------------------------------
(***************************************************************************)
(* What the centre learns of the migrations of one user's service, and     *)
(* what it makes of it (central_database.py, process_migrate_report and    *)
(* process_monitor_container of centralized_controller.py).                *)
(*                                                                         *)
(* The source and the destination of a migration report its times on       *)
(* connections of their own; the centre joins the two reports in one row.  *)
(* The optimizing planner turns the rows and the containers' reports into  *)
(* estimates, and waits until it has enough of them.  Times and sizes are  *)
(* left out: what matters is which of them are there, for arithmetic with  *)
(* None raises TypeError, and an exception that leaves a handler ends the  *)
(* centre.                                                                 *)
(*                                                                         *)
(* The solver of the optimizing planner is external: when the two tests    *)
(* in front of it pass, it may order a migration.                          *)
(***************************************************************************)
EXTENDS Naturals, Sequences, FiniteSets

CONSTANTS
  Servers,        \* edge servers
  Setups,         \* [optimized, rated, faults]: is the planner the optimizing
                  \* one, which servers are configured with phi and rho, and
                  \* what may go wrong, a subset of FaultKinds
  MaxMigrations,  \* bound: migrations
  MaxReturns,     \* bound: times the user leaves and returns
  MaxConnects     \* bound: no_connect counts up to here

FaultKinds ==
  {"overtake",  \* reports may overtake each other
   "lose",      \* a destination may never report
   "old",       \* the reports may be more than a minute apart
   "leave",     \* the user may leave while reports are on their way
   "early"}     \* containers may be reported before the servers are

ASSUME EstimatesAssumption ==
  /\ IsFiniteSet(Servers)
  /\ Setups \subseteq [optimized : BOOLEAN, rated : SUBSET Servers,
                      faults : SUBSET FaultKinds]
  /\ {MaxMigrations, MaxReturns, MaxConnects} \subseteq Nat

VARIABLES
  setup,     \* how this centre is set up: it never changes
  row,       \* the user's row of service_info: is it there, where, its size
  cpu,       \* servers whose row has max_cpu and core_cpu
  rated,     \* servers whose row has phi, and those whose row has rho
  est,       \* the user's EstimateTime: pairs with an estimate, no_connect
  records,   \* migrate_record, oldest first
  reports,   \* reports on their way
  service,   \* at the edge: where it runs, is it measured, the move under way
  planned,   \* the server and the estimates the last plan was made with
  count,     \* how often the bounded things have happened
  centre     \* "up" or "dead"

vars == <<setup, row, cpu, rated, est, records, reports, service, planned, count, centre>>

-----------------------------------------------------------------------------
Optimized == setup.optimized
Faults == setup.faults

(* Nothing the optimizing planner divides by or adds up can be missing.    *)
NothingMissing == Faults = {} /\ setup.rated = Servers

Pairs == {p \in Servers \X Servers : p[1] # p[2]}
NoMove == [mig |-> 0, source |-> 0, dest |-> 0]
Report(kind, move) == [kind |-> kind, mig |-> move.mig,
                       source |-> move.source, dest |-> move.dest]
ContainerReport == [kind |-> "container", mig |-> 0, source |-> 0, dest |-> 0]

Init ==
  /\ setup \in Setups
  /\ \E s \in Servers :
       /\ row = [there |-> TRUE, at |-> s, sized |-> FALSE]
       /\ service = [at |-> s, measured |-> FALSE, move |-> NoMove]
  /\ cpu = IF "early" \in Faults THEN {} ELSE Servers
  /\ rated = [phi |-> setup.rated, rho |-> setup.rated]
  /\ est = [pairs |-> {}, no_connect |-> 0]
  /\ records = <<>>
  /\ reports = {}
  /\ planned = [at |-> 0, pairs |-> {}]
  /\ count = [migrations |-> 0, returns |-> 0]
  /\ centre = "up"

Up == centre = "up"
Survives(ok) == centre' = IF ok THEN "up" ELSE "dead"

-----------------------------------------------------------------------------
(* The edges.                                                              *)

(* handle_cmd_measure_dirty of the source thread, at the fourth request.   *)
Measures ==
  /\ row.there
  /\ service.move = NoMove
  /\ ~service.measured
  /\ service' = [service EXCEPT !.measured = TRUE]
  /\ UNCHANGED <<setup, row, cpu, rated, est, records, reports, planned, count, centre>>

(* ContainerMonitor.measure passes over what has not been measured.        *)
ReportsContainer ==
  /\ service.measured
  /\ ContainerReport \notin reports
  /\ reports' = reports \cup {ContainerReport}
  /\ UNCHANGED <<setup, row, cpu, rated, est, records, service, planned, count, centre>>

(* The source is done: source_report_cb.                                   *)
ReportsSource ==
  /\ service.move # NoMove
  /\ Report("source", service.move) \notin reports
  /\ service.at = service.move.source
  /\ service' = [service EXCEPT !.at = service.move.dest]
  /\ reports' = reports \cup {Report("source", service.move)}
  /\ UNCHANGED <<setup, row, cpu, rated, est, records, planned, count, centre>>

(* The destination is done: dest_migrate_cb, which the centre answers with *)
(* the new server, and dest_report_cb.                                     *)
ReportsDest ==
  /\ Up
  /\ service.move # NoMove
  /\ service.at = service.move.dest
  /\ row' = IF row.there THEN [row EXCEPT !.at = service.at] ELSE row
  /\ \/ reports' = reports \cup {Report("dest", service.move)}
     \/ "lose" \in Faults /\ UNCHANGED reports
  /\ service' = [service EXCEPT !.move = NoMove]
  /\ UNCHANGED <<setup, cpu, rated, est, records, planned, count, centre>>

-----------------------------------------------------------------------------
(* The centre.                                                             *)

InTurn(r) ==
  \/ "overtake" \in Faults
  \/ \A q \in reports \ {ContainerReport, r} :
       q.mig > r.mig \/ (q.mig = r.mig /\ q.kind = "dest")

(* update_server_monitor                                                   *)
LearnsServer(s) ==
  /\ Up
  /\ s \notin cpu
  /\ cpu' = cpu \cup {s}
  /\ UNCHANGED <<setup, row, rated, est, records, reports, service, planned, count, centre>>

(* Mutant: the server's capacity is not waited for.                        *)
KnowsAnyway == TRUE
KnowsServer == row.at \in cpu

(* The moves whose times a container's report lets the centre estimate.    *)
(* Mutant: the server the service is on is one of the destinations.        *)
AllMoves(s) == {<<s, d>> : d \in Servers}
Moves(s) == {<<s, d>> : d \in Servers \ {s}}

(* update_container_monitor: the row has the size now; the optimizing      *)
(* planner estimates the times to every other server, of which nothing has *)
(* tested the capacity, the phi of this one and the rho of the others.     *)
CanEstimate ==
  /\ cpu = Servers
  /\ row.at \in rated.phi
  /\ Servers \ {row.at} \subseteq rated.rho

LearnsContainer ==
  /\ Up
  /\ ContainerReport \in reports
  /\ reports' = reports \ {ContainerReport}
  /\ IF ~row.there \/ ~KnowsServer
     THEN UNCHANGED <<row, est, centre>>
     ELSE /\ row' = [row EXCEPT !.sized = TRUE]
          /\ LET new == Moves(row.at)
                 n == est.no_connect + Cardinality(new)
             IN est' = IF Optimized
                       THEN [pairs |-> est.pairs \cup new,
                             no_connect |-> IF n > MaxConnects THEN MaxConnects ELSE n]
                       ELSE est
          /\ Survives(row.at \in cpu /\ (Optimized => CanEstimate))
  /\ UNCHANGED <<setup, cpu, rated, records, service, planned, count>>

(* update_phi works on the rows of the source: it survives a service that  *)
(* is gone, not a size that is not there, and gives the source its phi.    *)
(* update_t_pre_mig survives neither.                                      *)
LearnsSource ==
  /\ Up
  /\ \E r \in reports :
       /\ r.kind = "source"
       /\ InTurn(r)
       /\ reports' = reports \ {r}
       /\ records' = Append(records, [mig |-> r.mig, source |-> r.source,
                                      dest |-> r.dest, restore |-> 0, fresh |-> TRUE])
       /\ IF Optimized
          THEN /\ est' = [est EXCEPT !.pairs = @ \cup {<<r.source, r.dest>>}]
               /\ Survives(row.there /\ row.sized /\ r.source \in cpu)
               /\ rated' = IF centre' = "up" THEN [rated EXCEPT !.phi = @ \cup {r.source}]
                                           ELSE rated
          ELSE UNCHANGED <<rated, est, centre>>
  /\ UNCHANGED <<setup, row, cpu, service, planned, count>>

(* The rows a destination's report may belong to.                          *)
(* Mutant: a row that has its report may get another.                      *)
MatchAgain(r) ==
  {i \in DOMAIN records : records[i].source = r.source /\ records[i].dest = r.dest}
Match(r) ==
  {i \in DOMAIN records : /\ records[i].source = r.source
                          /\ records[i].dest = r.dest
                          /\ records[i].restore = 0}

(* Mutant: the oldest row is taken.                                        *)
Oldest(rows) == CHOOSE i \in rows : \A j \in rows : i <= j
Latest(rows) == CHOOSE i \in rows : \A j \in rows : i >= j

(* update_migrate_record_dest                                              *)
Joined(r) ==
  IF Match(r) = {} THEN records
  ELSE LET i == Latest(Match(r)) IN
       IF records[i].fresh THEN [records EXCEPT ![i].restore = r.mig] ELSE records

(* update_rho adds up the restores of all rows of the destination; if its  *)
(* service is there, the destination gets its rho.                         *)
LearnsDest ==
  /\ Up
  /\ \E r \in reports :
       /\ r.kind = "dest"
       /\ InTurn(r)
       /\ reports' = reports \ {r}
       /\ records' = Joined(r)
       /\ LET rows == {i \in DOMAIN records : records[i].dest = r.dest} IN
            /\ Survives(Optimized => \A i \in rows : /\ records'[i].restore # 0
                                                     /\ r.dest \in cpu
                                                     /\ row.there => row.sized)
            /\ rated' = IF Optimized /\ rows # {} /\ row.there /\ centre' = "up"
                        THEN [rated EXCEPT !.rho = @ \cup {r.dest}] ELSE rated
  /\ UNCHANGED <<setup, row, cpu, est, service, planned, count>>

(* Mutant: the planner does not look for missing sizes.                    *)
AlwaysValid == TRUE
ValidInfo == row.there => row.sized
EnoughInfo == est.no_connect >= Cardinality(Servers) - 1

(* compute_plan and the orders that follow from it.                        *)
Migrates ==
  /\ Up
  /\ row.there
  /\ row.at = service.at
  /\ service.move = NoMove
  /\ Optimized => ValidInfo /\ EnoughInfo
  /\ count.migrations < MaxMigrations
  /\ count' = [count EXCEPT !.migrations = @ + 1]
  /\ \E d \in Servers \ {row.at} :
       service' = [service EXCEPT !.move =
                    [mig |-> count.migrations + 1, source |-> row.at, dest |-> d]]
  /\ planned' = [at |-> row.at, pairs |-> est.pairs]
  /\ UNCHANGED <<setup, row, cpu, rated, est, records, reports, centre>>

(* destroy_service: the rows of the user and of the service are deleted,   *)
(* the estimates are left.                                                 *)
Leaves ==
  /\ Up
  /\ row.there
  /\ "leave" \in Faults \/ (reports \ {ContainerReport} = {} /\ service.move = NoMove)
  /\ count.returns < MaxReturns
  /\ count' = [count EXCEPT !.returns = @ + 1]
  /\ row' = [row EXCEPT !.there = FALSE, !.sized = FALSE]
  /\ service' = [service EXCEPT !.measured = FALSE]
  /\ UNCHANGED <<setup, cpu, rated, est, records, reports, planned, centre>>

(* A new row and a new container, wherever the planner places it.          *)
Returns ==
  /\ Up
  /\ ~row.there
  /\ service.move = NoMove
  /\ \E s \in Servers :
       /\ row' = [there |-> TRUE, at |-> s, sized |-> FALSE]
       /\ service' = [at |-> s, measured |-> FALSE, move |-> NoMove]
  /\ UNCHANGED <<setup, cpu, rated, est, records, reports, planned, count, centre>>

(* A minute passes.                                                        *)
Ages ==
  /\ "old" \in Faults
  /\ \E i \in DOMAIN records : records[i].fresh
  /\ records' = [i \in DOMAIN records |-> [records[i] EXCEPT !.fresh = FALSE]]
  /\ UNCHANGED <<setup, row, cpu, rated, est, reports, service, planned, count, centre>>

Next ==
  \/ Measures \/ ReportsContainer \/ ReportsSource \/ ReportsDest
  \/ \E s \in Servers : LearnsServer(s)
  \/ LearnsContainer \/ LearnsSource \/ LearnsDest
  \/ Migrates \/ Leaves \/ Returns \/ Ages

Spec == Init /\ [][Next]_vars

-----------------------------------------------------------------------------
(* Types, and a row of migrate_record never has a restore time of a        *)
(* migration that has not begun (central_database.py:1275-1299).           *)
TypeOK ==
  /\ row \in [there : BOOLEAN, at : Servers, sized : BOOLEAN]
  /\ cpu \subseteq Servers
  /\ rated.phi \cup rated.rho \subseteq Servers
  /\ est.pairs \subseteq Pairs /\ est.no_connect \in 0..MaxConnects
  /\ \A i \in DOMAIN records : /\ <<records[i].source, records[i].dest>> \in Pairs
                               /\ records[i].mig \in 1..count.migrations
                               /\ records[i].restore \in 0..count.migrations
  /\ service.at \in Servers
  /\ centre \in {"up", "dead"}

(* No report ends the centre: whatever it adds up or divides by is there   *)
(* by then (central_database.py:577-642, 1301-1344).  The optimizing       *)
(* planner promises this only where nothing goes wrong and every server is *)
(* configured with phi and rho: real_edge_nodes.yml:53-57 has one that is  *)
(* not, whose None (edge_controller.py:657-659) ends the centre with the   *)
(* first container reported (central_database.py:616, 624).                *)
Alive == (Optimized => NothingMissing) => Up

(* The restore time of a row is that of its own migration, also when the   *)
(* destination of an earlier migration between the same servers has never  *)
(* reported, or too late (central_database.py:1286-1298); reports must not *)
(* overtake each other.                                                    *)
RightRestore ==
  "overtake" \notin Faults =>
    \A i \in DOMAIN records : records[i].restore \in {0, records[i].mig}

(* Once a row has a restore time, no report changes it, in whatever order  *)
(* the reports come (central_database.py:1290).                            *)
RestoreKept ==
  [][\A i \in DOMAIN records :
       records[i].restore # 0 => records'[i].restore = records[i].restore]_vars

(* A container reported before the servers are is left for later: "Update  *)
(* container monitor too soon" (central_database.py:594-597).              *)
TooSoonWaits == Up

(* no_connect is the "number source-dest" (central_database.py:306) the    *)
(* planner tests before it optimizes (optimization_planner.py:45-50): with *)
(* as many as there are other servers, there is an estimate for each move  *)
(* the service can make.                                                   *)
EnoughIsEnough ==
  planned.at # 0 => \A s \in Servers \ {planned.at} : <<planned.at, s>> \in planned.pairs
=============================================================================
