------------------------------ MODULE Handover ------------------------------
(***************************************************************************)
(* How a device gets from one base station to the next: the signal levels  *)
(* it scans and reports (simulated_mobile_eu.py), the rows the centralized *)
(* controller keeps of them (rssi_monitor in central_database.py), the     *)
(* threshold planners that read the rows (planner.py), the HANDOVER order, *)
(* the reconnection, the HANDOVERED notice, and the service that is to     *)
(* follow its user.                                                        *)
(*                                                                         *)
(* Each arrow of this loop takes time, and meanwhile the device moves on:  *)
(* the controller decides from where the device was.  The migration of the *)
(* service is one step here (MigrateService is about it), and so are the   *)
(* bits of migration_state other than HANDOVER (see CentralController).    *)
(*                                                                         *)
(* Signal levels are natural numbers that only their order gives a meaning.*)
(* Time is left out: a row can leave the last minute when a later row of   *)
(* its station is there or the station is no longer heard.                 *)
(***************************************************************************)
EXTENDS Naturals, FiniteSets, SequencesExt

CONSTANTS
  Users,       \* the devices
  Stations,    \* base stations that send
  Places,      \* where a device can be
  NoPlace,     \* "no report"
  NextTo,      \* [place]: the places one step away
  Level,       \* [station][place]: signal level, 0: out of range
  Heard,       \* a level above it is scanned (-110 dBm)
  Limit,       \* a level below it is not stored (RSSI_LIMIT)
  Threshold,   \* RSSI_THRESHOLD
  Aligned,     \* sets of three stations that lie on one line
  Servers,     \* edge servers
  NoServer,    \* "no server"
  ServerOf,    \* [station]: server_id of its row
  Planners,    \* of "nearest" (RSSIPlanner) and "random" (RandomPlanner)
  Start,       \* [user]: first place and station
  Registered,  \* stations in the database at first
  Deploying,   \* TRUE: the first reports may come before ALLOCATED
  MaxMoves,    \* bound: steps of each device
  MaxOnTheWay  \* bound: orders and notices of a device on their way

ASSUME HandoverAssumption ==
  /\ NoPlace \notin Places
  /\ NextTo \in [Places -> SUBSET Places]
  /\ Level \in [Stations -> [Places -> Nat]]
  /\ {Heard, Limit, Threshold, MaxMoves, MaxOnTheWay} \subseteq Nat
  /\ Aligned \subseteq kSubset(3, Stations)
  /\ NoServer \notin Servers
  /\ ServerOf \in [Stations -> Servers \cup {NoServer}]
  /\ Planners \subseteq {"nearest", "random"}
  /\ Start \in [Users -> [place : Places, station : Registered]]
  /\ Registered \subseteq Stations
  /\ Deploying \in BOOLEAN

VARIABLES
  planner,    \* the planner this controller was started with
  place,      \* [user]: where the device is
  moves,      \* [user]: steps so far (for MaxMoves)
  scanned,    \* [user]: where it was when it last scanned (nearby_aps)
  report,     \* [user]: place of the report on its way, or NoPlace
  ssid,       \* [user]: the station the device uses
  connected,  \* [user]: is_connected
  orders,     \* [user]: HANDOVER orders on their way to the device
  notices,    \* [user]: HANDOVERED notices on their way to the controller
  known,      \* stations in the database
  rows,       \* [user][station]: levels stored in the last minute, in order
  bts,        \* [user]: station in the user's row
  server,     \* [user]: server_name in the service's row
  phase,      \* [user]: "init", "running", or "moving" (PRE_MIGRATE or later)
  target,     \* [user]: where a moving service goes
  handover,   \* users with HANDOVER or HANDOVERED in migration_state
  alive       \* the controller runs

deviceVars == <<place, moves, scanned, ssid, connected>>
radioVars == <<report, orders, notices>>
serviceVars == <<server, phase, target>>
centreVars == <<planner, known, rows, bts, serviceVars, handover, alive>>
vars == <<deviceVars, radioVars, centreVars>>

Scanned(p) == {b \in Stations : Level[b][p] > Heard}
Stored(p) == {b \in Scanned(p) : Level[b][p] >= Limit}

(* place_service: the server of the station, any one if it has none.       *)
PlaceService(b) ==
  IF planner = "nearest" /\ ServerOf[b] # NoServer THEN {ServerOf[b]} ELSE Servers

Init ==
  /\ planner \in Planners
  /\ place = [u \in Users |-> Start[u].place]
  /\ moves = [u \in Users |-> 0]
  /\ scanned = place
  /\ report = [u \in Users |-> NoPlace]
  /\ ssid = [u \in Users |-> Start[u].station]
  /\ connected = [u \in Users |-> TRUE]
  /\ orders = [u \in Users |-> <<>>]
  /\ notices = [u \in Users |-> <<>>]
  /\ known = Registered
  /\ rows = [u \in Users |-> [b \in Stations |-> <<>>]]
  /\ bts = ssid
  /\ server \in {f \in [Users -> Servers] :
                  \A u \in Users : f[u] \in PlaceService(bts[u])}
  /\ phase = [u \in Users |-> IF Deploying THEN "init" ELSE "running"]
  /\ target = [u \in Users |-> NoServer]
  /\ handover = {}
  /\ alive = TRUE

-----------------------------------------------------------------------------
(* The device.                                                             *)

Move(u) ==
  /\ moves[u] < MaxMoves
  /\ \E p \in NextTo[place[u]] : place' = [place EXCEPT ![u] = p]
  /\ moves' = [moves EXCEPT ![u] = @ + 1]
  /\ UNCHANGED <<scanned, ssid, connected, radioVars, centreVars>>

(* report_rssi_thread, every two seconds: a report is handled before the   *)
(* next one.  A device that is not connected reports its last scan again.  *)
Report(u) ==
  /\ report[u] = NoPlace
  /\ report' = [report EXCEPT ![u] = scanned'[u]]
  /\ UNCHANGED <<place, moves, ssid, connected, orders, notices, centreVars>>

ReportScan(u) ==
  connected[u] /\ scanned' = [scanned EXCEPT ![u] = place[u]] /\ Report(u)
ReportAgain(u) == ~connected[u] /\ UNCHANGED scanned /\ Report(u)

(* process_handover, connect_to_bts.                                       *)
ProcessHandover(u) ==
  /\ orders[u] # <<>>
  /\ ssid' = [ssid EXCEPT ![u] = Head(orders[u])]
  /\ connected' = [connected EXCEPT ![u] = FALSE]
  /\ orders' = [orders EXCEPT ![u] = Tail(@)]
  /\ UNCHANGED <<place, moves, scanned, report, notices, centreVars>>

(* update_eu once the time of the handover is over, and handover_cb.       *)
Reconnect(u) ==
  /\ ~connected[u]
  /\ connected' = [connected EXCEPT ![u] = TRUE]
  /\ notices' = [notices EXCEPT ![u] = Append(@, ssid[u])]
  /\ UNCHANGED <<place, moves, scanned, ssid, report, orders, centreVars>>

-----------------------------------------------------------------------------
(* The database.                                                           *)

(* Mutant: rows of stations that no server has brought are stored as well. *)
StoreUnknown(u, p) ==
  [rows EXCEPT ![u] = [b \in Stations |->
     IF b \in Stored(p) /\ ~IsSuffix(<<Level[b][p]>>, rows[u][b])
     THEN Append(rows[u][b], Level[b][p])
     ELSE rows[u][b]]]

(* find_user_location solves two linear equations made of the rows of the  *)
(* three strongest stations of the scan.  It raises if one of them has no  *)
(* row, or if they are on one line.                                        *)
Strongest(p) ==
  {S \in kSubset(3, Scanned(p)) :
     \A b \in S, c \in Scanned(p) \ S : Level[b][p] >= Level[c][p]}
Locatable(S) == S \subseteq known /\ S \notin Aligned

(* update_rssi_monitor stores the levels that reach RSSI_LIMIT, of the     *)
(* stations it knows.  A level equal to the last one only makes it newer.  *)
Store(u, p) ==
  [rows EXCEPT ![u] = [b \in Stations |->
     IF b \in Stored(p) \cap known /\ ~IsSuffix(<<Level[b][p]>>, rows[u][b])
     THEN Append(rows[u][b], Level[b][p])
     ELSE rows[u][b]]]

(* A row gets older than the minute query_neighbor looks at.               *)
Age(u, b) ==
  /\ rows[u][b] # <<>>
  /\ Len(rows[u][b]) > 1 \/ b \notin Stored(scanned[u])
  /\ rows' = [rows EXCEPT ![u][b] = Tail(@)]
  /\ UNCHANGED <<planner, deviceVars, radioVars, known, bts, serviceVars, handover, alive>>

(* An edge server registers and brings the row of its station.             *)
Register(b) ==
  /\ alive
  /\ b \notin known
  /\ known' = known \cup {b}
  /\ UNCHANGED <<planner, deviceVars, radioVars, rows, bts, serviceVars, handover, alive>>

-----------------------------------------------------------------------------
(* The planners.  query_neighbor groups the rows of a station without      *)
(* saying which of them it wants: its level is that of any of them.        *)

(* get_max_rssi_bts.                                                       *)
MaxRssi(r) ==
  {b \in Stations : \E l \in ToSet(r[b]) :
     \A c \in Stations \ {b} :
       r[c] = <<>> \/ \E m \in ToSet(r[c]) : m <= l}

(* get_max_rssi_threshold_bts: None < thresh holds as well.                *)
BelowThreshold(r, b) == r[b] = <<>> \/ \E l \in ToSet(r[b]) : l < Threshold
StaysPut(r, b) == \E l \in ToSet(r[b]) : l >= Threshold

Stay(u) == <<bts[u], server[u]>>

(* What compute_plan can return for u: a pair, the present one for none.   *)
Plans(u, r) ==
  IF MaxRssi(r[u]) = {} THEN {Stay(u)}
  ELSE IF planner = "nearest"
       THEN {<<b, IF ServerOf[b] = NoServer THEN server[u] ELSE ServerOf[b]>> :
               b \in MaxRssi(r[u])}
       ELSE (IF StaysPut(r[u], bts[u]) \/ bts[u] \in MaxRssi(r[u])
             THEN {Stay(u)} ELSE {})
            \cup (IF BelowThreshold(r[u], bts[u])
                  THEN (MaxRssi(r[u]) \ {bts[u]}) \X Servers ELSE {})

(* trigger_other_planners: every user for whom the plan names another      *)
(* station is sent there unless a handover is under way, and its service   *)
(* is migrated if the plan names another server and it is running.         *)
HandsOver(u, c) == c[u][1] # bts[u] /\ u \notin handover
Migrates(u, c) == c[u][2] # server[u] /\ phase[u] = "running"

TriggerOtherPlanners(r) ==
  \E c \in {f \in [Users -> Stations \X Servers] :
           \A u \in Users : f[u] \in Plans(u, r)} :
    /\ orders' = [u \in Users |-> IF HandsOver(u, c) THEN Append(orders[u], c[u][1])
                                   ELSE orders[u]]
    /\ handover' = handover \cup {u \in Users : HandsOver(u, c)}
    /\ phase' = [u \in Users |-> IF Migrates(u, c) THEN "moving" ELSE phase[u]]
    /\ target' = [u \in Users |-> IF Migrates(u, c) THEN c[u][2] ELSE target[u]]

(* Mutant: any report starts the planner.                                  *)
TriggersAlways(u, p) == bts[u] \in Stored(p)

(* The level update_rssi_monitor returns reaches the threshold.  It is 0,  *)
(* better than any, if the station of the user's row is not among those    *)
(* stored.                                                                 *)
Triggers(u, p) == bts[u] \in Stored(p) /\ Level[bts[u]][p] <= Threshold

ProcessMonitorEU(u) ==
  LET p == report[u] IN
  /\ alive
  /\ p # NoPlace
  /\ Len(orders[u] \o notices[u]) < MaxOnTheWay
  /\ report' = [report EXCEPT ![u] = NoPlace]
  /\ \/ /\ \E S \in Strongest(p) : ~Locatable(S)
        /\ alive' = FALSE
        /\ UNCHANGED <<rows, orders, phase, target, handover>>
     \/ /\ Strongest(p) = {} \/ \E S \in Strongest(p) : Locatable(S)
        /\ rows' = Store(u, p)
        /\ IF phase[u] # "moving" /\ Triggers(u, p)
           THEN TriggerOtherPlanners(rows')
           ELSE UNCHANGED <<orders, phase, target, handover>>
        /\ UNCHANGED alive
  /\ UNCHANGED <<planner, deviceVars, notices, known, bts, server>>

-----------------------------------------------------------------------------
(* Notices.                                                                *)

(* Mutant: a notice is left out while nothing is under way.                *)
ProcessHandoveredUnderWay(u) ==
  /\ alive
  /\ notices[u] # <<>>
  /\ bts' = IF u \in handover THEN [bts EXCEPT ![u] = Head(notices[u])] ELSE bts
  /\ handover' = IF phase[u] = "moving" THEN handover ELSE handover \ {u}
  /\ notices' = [notices EXCEPT ![u] = Tail(@)]
  /\ UNCHANGED <<planner, deviceVars, report, orders, known, rows, serviceVars, alive>>

(* Mutant: the bit stays.                                                  *)
ProcessHandoveredBitKept(u) ==
  /\ alive
  /\ notices[u] # <<>>
  /\ bts' = [bts EXCEPT ![u] = Head(notices[u])]
  /\ notices' = [notices EXCEPT ![u] = Tail(@)]
  /\ UNCHANGED <<planner, deviceVars, report, orders, known, rows, serviceVars, handover,
                 alive>>

ProcessHandovered(u) ==
  /\ alive
  /\ notices[u] # <<>>
  /\ bts' = [bts EXCEPT ![u] = Head(notices[u])]
  /\ handover' = IF phase[u] = "moving" THEN handover ELSE handover \ {u}
  /\ notices' = [notices EXCEPT ![u] = Tail(@)]
  /\ UNCHANGED <<planner, deviceVars, report, orders, known, rows, serviceVars, alive>>

(* process_allocated, process_migrated.                                    *)
ServiceRuns(u, s) ==
  /\ server' = [server EXCEPT ![u] = s]
  /\ phase' = [phase EXCEPT ![u] = "running"]
  /\ handover' = handover \ {u}
  /\ UNCHANGED <<planner, deviceVars, radioVars, known, rows, bts, target, alive>>

ProcessAllocated(u) == alive /\ phase[u] = "init" /\ ServiceRuns(u, server[u])
ProcessMigrated(u) == alive /\ phase[u] = "moving" /\ ServiceRuns(u, target[u])

-----------------------------------------------------------------------------
Device(u) ==
  \/ ReportScan(u) \/ ReportAgain(u) \/ ProcessHandover(u) \/ Reconnect(u)
Centre(u) ==
  \/ ProcessMonitorEU(u) \/ ProcessHandovered(u)
  \/ ProcessAllocated(u) \/ ProcessMigrated(u)

Next ==
  \/ \E u \in Users : Move(u) \/ Device(u) \/ Centre(u)
  \/ \E u \in Users, b \in Stations : Age(u, b)
  \/ \E b \in Stations : Register(b)

Spec == Init /\ [][Next]_vars

(* Devices report, orders and notices arrive, handovers and migrations end,*)
(* and rows get old.  Moving is up to the user.  Not every report falls    *)
(* into the half second a handover takes.                                  *)
Fairness ==
  /\ \A u \in Users :
       /\ []<><<ReportScan(u)>>_vars
       /\ WF_vars(ProcessHandover(u)) /\ WF_vars(Reconnect(u))
       /\ WF_vars(ProcessMonitorEU(u)) /\ WF_vars(ProcessHandovered(u))
       /\ WF_vars(ProcessAllocated(u)) /\ WF_vars(ProcessMigrated(u))
       /\ \A b \in Stations : WF_vars(Age(u, b))
  /\ \A b \in Stations : WF_vars(Register(b))

FairSpec == Spec /\ Fairness

-----------------------------------------------------------------------------
(* Properties.                                                             *)

(* Types of all variables.                                                 *)
TypeOK ==
  /\ place \in [Users -> Places]
  /\ moves \in [Users -> 0 .. MaxMoves]
  /\ scanned \in [Users -> Places]
  /\ report \in [Users -> Places \cup {NoPlace}]
  /\ ssid \in [Users -> Stations]
  /\ connected \in [Users -> BOOLEAN]
  /\ orders \in [Users -> Seq(known)]
  /\ notices \in [Users -> Seq(known)]
  /\ known \subseteq Stations
  /\ rows \in [Users -> [Stations -> Seq(Nat)]]
  /\ bts \in [Users -> known]
  /\ server \in [Users -> Servers]
  /\ phase \in [Users -> {"init", "running", "moving"}]
  /\ target \in [Users -> Servers \cup {NoServer}]
  /\ handover \subseteq Users
  /\ alive \in BOOLEAN

(* The controller knows which station a device uses, once the device is    *)
(* connected and its HANDOVERED has been handled, whatever orders are      *)
(* still on their way (centralized_controller.py:693 before 698): its next *)
(* decisions and the answers to discoveries start from there.              *)
StationAgrees ==
  \A u \in Users : connected[u] /\ notices[u] = <<>> => bts[u] = ssid[u]

(* A device is sent away only from a station it hears at the threshold or  *)
(* below it: "Handover based on RSSI threshold (-76 dBm)"                  *)
(* (Constants.py:88; planner.py:221).                                      *)
OnlyWeakLeave ==
  \A u \in Users : Len(orders'[u]) > Len(orders[u]) =>
    Last(rows'[u][bts[u]]) <= Threshold

(* Every step gives an order only to a device that hears its own station   *)
(* weakly.                                                                 *)
LeavesWeak == [][OnlyWeakLeave]_vars

(* The planners ought to move the device: it hears its station below the   *)
(* threshold, or at it if the planner is the nearest one, and another      *)
(* station better.                                                         *)
Weak(u) ==
  /\ \/ Level[ssid[u]][place[u]] < Threshold
     \/ planner = "nearest" /\ Level[ssid[u]][place[u]] = Threshold
  /\ \E b \in known : Level[b][place[u]] > Level[ssid[u]][place[u]]

(* A weak device that stays where its station's level is still stored is   *)
(* moved to a better one in the end, or the controller is gone.  The       *)
(* planners decide from rows up to a minute old, and may send it to a      *)
(* worse station on the way (planner.py:44-68, 221-233).                   *)
Settles ==
  \A u \in Users : <>[](alive /\ Level[ssid[u]][place[u]] >= Limit => ~Weak(u))

(* "Handover based on RSSI threshold" (Constants.py:88), however weak: but *)
(* a station too weak to be stored counts as one that is strong            *)
(* (central_database.py, update_rssi_monitor returns 0).                   *)
NeverStranded == \A u \in Users : <>[](alive => ~Weak(u))

(* The service follows its user to the server of the user's station:       *)
(* "Migration to the nearest server" (Constants.py:89).                    *)
Near(u) == ServerOf[ssid[u]] \in {NoServer, server[u]}
Follows == \A u \in Users : <>[](alive => Near(u))

(* A report of levels never ends the controller (an exception that leaves  *)
(* process_monitor_eu leaves loop_forever as well).                        *)
Alive == alive
=============================================================================
