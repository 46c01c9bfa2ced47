----------------------------- MODULE Membership -----------------------------
(***************************************************************************)
(* Which edge servers there are, as the controller, the edge servers and   *)
(* the MQTT broker know it: registration, last wills, the list of servers  *)
(* the controller publishes, and the services it deploys again when a      *)
(* server dies (centralized_controller.py, central_database.py,            *)
(* edge_controller.py, edge_servers.py, mqtt_protocol.py).                 *)
(*                                                                         *)
(* Sessions are clean: the broker keeps nothing for a client that is not   *)
(* connected, and publishes the last will of one it has lost.  A process   *)
(* that starts publishes REGISTER at once and subscribes when its CONNECT  *)
(* is answered; one whose connection breaks connects again by itself, and  *)
(* subscribes again, and that is all it does.  So does the controller,     *)
(* which then publishes its list; what was published meanwhile, last wills *)
(* included, it never gets.                                                *)
(*                                                                         *)
(* The controller moves the file of its database away when it starts, so   *)
(* that it begins with empty tables.                                       *)
(***************************************************************************)
EXTENDS Naturals, Sequences, FiniteSets, SequencesExt

CONSTANTS
  Servers,         \* edge servers
  Users,           \* end users, each with one application
  NoServer,        \* "no server"
  Home,            \* [user]: the server at the base station of the user
  MaxStarts,       \* bound: starts of edge processes
  MaxFaults,       \* bound: crashes of edge processes, connections that break,
                   \* that of the controller included
  MaxRestarts,     \* bound: restarts of the controller
  MaxDiscoveries,  \* bound: discoveries
  MaxEvents        \* bound: all of these together

ASSUME MembershipAssumption ==
  /\ NoServer \notin Servers
  /\ IsFiniteSet(Users)
  /\ Home \in [Users -> Servers \cup {NoServer}]
  /\ {MaxStarts, MaxFaults, MaxRestarts, MaxDiscoveries, MaxEvents} \subseteq Nat

VARIABLES
  proc,        \* [server]: the edge process, see Processes
  ready,       \* [server]: ready, the monitors and migration threads run
  neighbors,   \* [server]: my_neighbors
  hosts,       \* [server]: edge_services, the users whose service runs there
  inbox,       \* [server]: messages the broker has for the edge
  session,     \* the clients the broker takes to be connected
  watches,     \* [server]: users to whose monitor topic the client subscribes
  up,          \* does the controller run, connected to the broker?
  broken,      \* does it run, its connection broken?
  rows,        \* edge_server_info
  service,     \* [user]: service_info and end_user_info of the user
  toCentre,    \* messages the broker has for the controller
  redeployed,  \* the services deployed again: <<user, lost server, new one>>
  missed,      \* history: servers that are gone, their last will missed by a
               \* controller that ran all the while
  count        \* how often the bounded things have happened

edgeVars == <<proc, ready, neighbors, hosts>>
brokerVars == <<session, watches>>
dbVars == <<rows, service>>
linkVars == <<broken, missed>>
vars == <<edgeVars, inbox, brokerVars, up, dbVars, toCentre, redeployed, linkVars,
          count>>

-----------------------------------------------------------------------------
(* "connecting": CONNECT sent, not subscribed; "cut": the connection is    *)
(* broken and the process has not noticed; "exited": an exception has left *)
(* a handler.                                                              *)
Processes == {"off", "connecting", "online", "cut", "exited"}

Updated(S) == [kind |-> "updated", servers |-> S]
Off(s) == [kind |-> "off", server |-> s]
Deploy(u, whole) == [kind |-> "deploy", user |-> u, whole |-> whole]
EdgeMessages == [kind : {"updated"}, servers : SUBSET Servers]
  \cup [kind : {"off"}, server : Servers]
  \cup [kind : {"deploy"}, user : Users, whole : BOOLEAN]

Register(s) == [kind |-> "register", server |-> s]
Will(s) == [kind |-> "will", server |-> s]
Discover(u) == [kind |-> "discover", user |-> u]
Allocated(u, s) == [kind |-> "allocated", user |-> u, server |-> s]
CentreMessages == [kind : {"register", "will"}, server : Servers]
  \cup [kind : {"discover"}, user : Users]
  \cup [kind : {"allocated"}, user : Users, server : Servers]

(* "orphan": a row of service_info that no user refers to.                 *)
NoService == [server |-> NoServer, state |-> "none"]
ServiceRows == {NoService} \cup
  [server : Servers, state : {"init", "running", "orphan"}]

Init ==
  /\ proc = [s \in Servers |-> "off"]
  /\ ready = [s \in Servers |-> FALSE]
  /\ neighbors = [s \in Servers |-> {}]
  /\ hosts = [s \in Servers |-> {}]
  /\ inbox = [s \in Servers |-> <<>>]
  /\ session = {}
  /\ watches = [s \in Servers |-> {}]
  /\ up = TRUE
  /\ broken = FALSE
  /\ missed = {}
  /\ rows = {}
  /\ service = [u \in Users |-> NoService]
  /\ toCentre = <<>>
  /\ redeployed = {}
  /\ count = [starts |-> [s \in Servers |-> 0], faults |-> 0, cuts |-> 0,
              breaks |-> 0, restarts |-> 0, discoveries |-> 0]

-----------------------------------------------------------------------------
(* The broker.  Only subscribers get a message.                            *)

Online == {s \in Servers : proc[s] = "online"}
SendAll(S, m) ==
  [s \in Servers |-> IF s \in S THEN Append(inbox[s], m) ELSE inbox[s]]
AtCentre(q) == IF up THEN toCentre \o q ELSE toCentre

(* The broker finds out that a client is gone.                             *)
BrokerNotices(s) ==
  /\ s \in session
  /\ proc[s] \in {"off", "cut", "exited"}
  /\ session' = session \ {s}
  /\ watches' = [watches EXCEPT ![s] = {}]
  /\ inbox' = SendAll(Online \ {s}, Off(s))
  /\ toCentre' = AtCentre(<<Will(s)>>)
  /\ missed' = IF broken THEN missed \cup {s} ELSE missed
  /\ UNCHANGED <<edgeVars, up, broken, dbVars, redeployed, count>>

(* A client connects.  If the broker still has a session of that name the  *)
(* old one ends first, with its last will.                                 *)
Connect(s, q) ==
  LET gone == IF s \in session THEN <<Will(s)>> ELSE <<>> IN
  /\ session' = session \cup {s}
  /\ watches' = [watches EXCEPT ![s] = {}]
  /\ inbox' = IF s \in session THEN SendAll(Online \ {s}, Off(s)) ELSE inbox
  /\ toCentre' = AtCentre(gone \o q)
  /\ missed' = missed \ {s}
  /\ proc' = [proc EXCEPT ![s] = "connecting"]

-----------------------------------------------------------------------------
(* The edge process.                                                       *)

(* What is left of a process that is gone.                                 *)
Ends(s, how) ==
  /\ proc' = [proc EXCEPT ![s] = how]
  /\ ready' = [ready EXCEPT ![s] = FALSE]
  /\ neighbors' = [neighbors EXCEPT ![s] = {}]
  /\ hosts' = [hosts EXCEPT ![s] = {}]
  /\ inbox' = [inbox EXCEPT ![s] = <<>>]

(* The bounded things that have happened so far.                           *)
Starts == SumFunction(count.starts)
Faulted == count.faults + count.cuts + count.breaks
Goes == Starts + Faulted + count.restarts + count.discoveries < MaxEvents

EdgeStarts(s) ==
  /\ Goes
  /\ proc[s] \in {"off", "exited"}
  /\ Starts < MaxStarts
  /\ Connect(s, <<Register(s)>>)
  /\ count' = [count EXCEPT !.starts[s] = @ + 1]
  /\ UNCHANGED <<ready, neighbors, hosts, up, broken, dbVars, redeployed>>

EdgeCrashes(s) ==
  /\ proc[s] \in {"connecting", "online", "cut"}
  /\ Goes /\ Faulted < MaxFaults
  /\ Ends(s, "off")
  /\ count' = [count EXCEPT !.faults = @ + 1]
  /\ UNCHANGED <<brokerVars, up, linkVars, dbVars, toCentre, redeployed>>

(* on_connect: the topics of the edge itself.                              *)
EdgeSubscribes(s) ==
  /\ proc[s] = "connecting"
  /\ proc' = [proc EXCEPT ![s] = "online"]
  /\ UNCHANGED <<ready, neighbors, hosts, inbox, brokerVars, up, linkVars,
                 dbVars, toCentre, redeployed, count>>

ConnectionBreaks(s) ==
  /\ proc[s] = "online"
  /\ Goes /\ Faulted < MaxFaults
  /\ proc' = [proc EXCEPT ![s] = "cut"]
  /\ inbox' = [inbox EXCEPT ![s] = <<>>]
  /\ count' = [count EXCEPT !.cuts = @ + 1]
  /\ UNCHANGED <<ready, neighbors, hosts, brokerVars, up, linkVars, dbVars,
                 toCentre, redeployed>>

EdgeReconnects(s) ==
  /\ proc[s] = "cut"
  /\ Connect(s, <<>>)
  /\ UNCHANGED <<ready, neighbors, hosts, up, broken, dbVars, redeployed, count>>

EdgeTakes(s, kind) ==
  /\ proc[s] = "online"
  /\ inbox[s] # <<>>
  /\ Head(inbox[s]).kind = kind

(* update_my_neighbors adds the servers of the list and says whether this  *)
(* one is among them.                                                      *)
(* Mutant: a list without this server counts as one that has it. *)
AlwaysRegistered(s, S) == TRUE

IsRegistered(s, S) == s \in S

EdgeUpdates(s) ==
  LET S == Head(inbox[s]).servers IN
  /\ EdgeTakes(s, "updated")
  /\ inbox' = [inbox EXCEPT ![s] = Tail(@)]
  /\ neighbors' = [neighbors EXCEPT ![s] = @ \cup (S \ {s})]
  /\ ready' = [ready EXCEPT ![s] = TRUE]
  /\ toCentre' = IF IsRegistered(s, S) THEN toCentre
                 ELSE AtCentre(<<Register(s)>>)
  /\ UNCHANGED <<proc, hosts, brokerVars, up, linkVars, dbVars, redeployed, count>>

(* process_neighbor_off.                                                   *)
EdgeForgets(s) ==
  /\ EdgeTakes(s, "off")
  /\ neighbors' = [neighbors EXCEPT ![s] = @ \ {Head(inbox[s]).server}]
  /\ inbox' = [inbox EXCEPT ![s] = Tail(@)]
  /\ UNCHANGED <<proc, ready, hosts, brokerVars, up, linkVars, dbVars, toCentre,
                 redeployed, count>>

(* process_deploy.  The order for a service that is deployed again is made *)
(* from its row, which has no migrate_method: start_edge_service raises.   *)
EdgeDeploys(s) ==
  LET m == Head(inbox[s]) IN
  /\ EdgeTakes(s, "deploy")
  /\ m.whole
  /\ hosts' = [hosts EXCEPT ![s] = @ \cup {m.user}]
  /\ watches' = [watches EXCEPT ![s] =
                   IF m.user \in hosts[s] THEN @ ELSE @ \cup {m.user}]
  /\ inbox' = [inbox EXCEPT ![s] = Tail(@)]
  /\ toCentre' = AtCentre(<<Allocated(m.user, s)>>)
  /\ UNCHANGED <<proc, ready, neighbors, session, up, linkVars, dbVars, redeployed,
                 count>>

EdgeFails(s) ==
  /\ EdgeTakes(s, "deploy")
  /\ ~Head(inbox[s]).whole
  /\ Ends(s, "exited")
  /\ UNCHANGED <<brokerVars, up, linkVars, dbVars, toCentre, redeployed, count>>

-----------------------------------------------------------------------------
(* The controller.                                                         *)

CentreTakes(kind) ==
  /\ up
  /\ toCentre # <<>>
  /\ Head(toCentre).kind = kind

(* An exception leaves loop_forever and the controller exits.              *)
CentreExits == /\ up' = FALSE /\ broken' = FALSE
               /\ toCentre' = <<>>
               /\ UNCHANGED <<dbVars, inbox, redeployed>>

(* process_edge_register: a row for a server that has none, and the list   *)
(* for everybody.                                                          *)
CentreRegisters ==
  LET R == rows \cup {Head(toCentre).server} IN
  /\ CentreTakes("register")
  /\ rows' = R
  /\ inbox' = SendAll(Online, Updated(R))
  /\ toCentre' = Tail(toCentre)
  /\ UNCHANGED <<edgeVars, brokerVars, up, linkVars, service, redeployed, count>>

(* place_service: the server at the base station of the user, or any.      *)
(* Mutant: server_id is returned although the station has no server. *)
PlacesUnset(u) == IF Home[u] \in rows THEN {Home[u]} ELSE {NoServer}

Places(u) == IF Home[u] \in rows THEN {Home[u]} ELSE rows

(* The row of a service is changed when it is allocated, not when it is    *)
(* ordered.                                                                *)
(* Mutant: it is moved to the new server at once. *)
MovedAtOnce(lost, P) ==
  [u \in Users |-> IF u \in lost THEN [service[u] EXCEPT !.server = P[u]]
                   ELSE service[u]]

AfterLoss(lost, P) == service

(* process_edge_notification: place the services of the server, then       *)
(* remove it.                                                              *)
CentreLosesEdge ==
  LET s == Head(toCentre).server
      lost == {u \in Users : service[u].server = s}
  IN /\ CentreTakes("will")
     /\ \/ /\ \E u \in lost : service[u].state = "orphan" \/ Places(u) = {}
           /\ CentreExits
        \/ /\ \A u \in lost : service[u].state # "orphan"
           /\ \E P \in [lost -> rows] :
                /\ \A u \in lost : P[u] \in Places(u)
                /\ inbox' = [x \in Servers |->
                     IF x \notin Online THEN inbox[x]
                     ELSE inbox[x] \o
                       SetToSeq({Deploy(u, FALSE) : u \in {v \in lost : P[v] = x}})]
                /\ redeployed' = redeployed \cup {<<u, s, P[u]>> : u \in lost}
                /\ service' = AfterLoss(lost, P)
           /\ rows' = rows \ {s}
           /\ toCentre' = Tail(toCentre)
           /\ UNCHANGED <<up, broken>>
     /\ UNCHANGED <<edgeVars, brokerVars, missed, count>>

(* process_discovery, see CentralController.  A station whose server is    *)
(* not there may be one the controller has never heard of: the user is     *)
(* rejected.                                                               *)
CentreDiscovers ==
  LET u == Head(toCentre).user
      now == service[u]
      Order(s) == inbox' = SendAll(Online \cap {s}, Deploy(u, TRUE))
  IN /\ CentreTakes("discover")
     /\ \/ /\ now.state = "orphan" \/ (now.state = "none" /\ rows = {})
           /\ CentreExits
        \/ /\ toCentre' = Tail(toCentre)
           /\ UNCHANGED <<up, broken, rows, redeployed>>
           /\ \/ /\ Home[u] \notin rows
                 /\ UNCHANGED <<service, inbox>>
              \/ /\ now.state = "init"
                 /\ UNCHANGED <<service, inbox>>
              \/ /\ now.state = "running"
                 /\ Order(now.server)
                 /\ UNCHANGED service
              \/ /\ now.state = "none"
                 /\ \E s \in Places(u) :
                      /\ service' = [service EXCEPT ![u] =
                                       [server |-> s, state |-> "init"]]
                      /\ Order(s)
     /\ UNCHANGED <<edgeVars, brokerVars, missed, count>>

(* process_allocated: a user that is not known gets a row of service_info  *)
(* that nobody refers to, unless there is one, which raises.               *)
CentreAllocates ==
  LET u == Head(toCentre).user
      s == Head(toCentre).server
  IN /\ CentreTakes("allocated")
     /\ \/ service[u].state = "orphan" /\ CentreExits
        \/ /\ service[u].state # "orphan"
           /\ service' = [service EXCEPT ![u] =
                [server |-> s,
                 state |-> IF @.state = "none" THEN "orphan" ELSE "running"]]
           /\ toCentre' = Tail(toCentre)
           /\ UNCHANGED <<up, broken, rows, inbox, redeployed>>
     /\ UNCHANGED <<edgeVars, brokerVars, missed, count>>

CentreStops ==
  /\ up \/ broken
  /\ CentreExits
  /\ Goes /\ count.restarts < MaxRestarts
  /\ UNCHANGED <<edgeVars, brokerVars, missed, count>>

(* The broker drops what it has for the controller.                        *)
CentreDisconnects ==
  /\ up
  /\ Goes /\ Faulted < MaxFaults
  /\ up' = FALSE /\ broken' = TRUE
  /\ missed' = missed \cup {s \in Servers \ session : Contains(toCentre, Will(s))}
  /\ toCentre' = <<>>
  /\ count' = [count EXCEPT !.breaks = @ + 1]
  /\ UNCHANGED <<edgeVars, inbox, brokerVars, dbVars, redeployed>>

(* on_connect again: the subscriptions and the list of servers.            *)
(* Mutant: the list is published by the first on_connect only. *)
CentreReconnectsSilent ==
  /\ broken
  /\ up' = TRUE /\ broken' = FALSE
  /\ UNCHANGED <<edgeVars, inbox, brokerVars, dbVars, toCentre, redeployed, missed,
                 count>>

CentreReconnects ==
  /\ broken
  /\ up' = TRUE /\ broken' = FALSE
  /\ inbox' = SendAll(Online, Updated(rows))
  /\ UNCHANGED <<edgeVars, brokerVars, dbVars, toCentre, redeployed, missed, count>>

(* A new database, and on_connect publishes the list.                      *)
(* Mutant: the tables of the last run are kept. *)
OldTables == rows

NewTables == {}

CentreStarts ==
  /\ ~up /\ ~broken
  /\ Goes /\ count.restarts < MaxRestarts
  /\ up' = TRUE
  /\ missed' = {}
  /\ rows' = NewTables
  /\ service' = [u \in Users |-> NoService]
  /\ inbox' = SendAll(Online, Updated(NewTables))
  /\ count' = [count EXCEPT !.restarts = @ + 1]
  /\ UNCHANGED <<edgeVars, brokerVars, broken, toCentre, redeployed>>

UserDiscovers(u) ==
  /\ Goes /\ count.discoveries < MaxDiscoveries
  /\ count' = [count EXCEPT !.discoveries = @ + 1]
  /\ toCentre' = AtCentre(<<Discover(u)>>)
  /\ UNCHANGED <<edgeVars, inbox, brokerVars, up, linkVars, dbVars, redeployed>>

-----------------------------------------------------------------------------
CentreHandles == \/ CentreRegisters \/ CentreLosesEdge
                 \/ CentreDiscovers \/ CentreAllocates

EdgeHandles(s) == EdgeUpdates(s) \/ EdgeForgets(s) \/ EdgeDeploys(s) \/ EdgeFails(s)

Faults(s) == EdgeCrashes(s) \/ ConnectionBreaks(s)

Next ==
  \/ \E s \in Servers :
       \/ EdgeStarts(s) \/ EdgeSubscribes(s) \/ EdgeReconnects(s)
       \/ EdgeHandles(s) \/ BrokerNotices(s) \/ Faults(s)
  \/ CentreHandles \/ CentreStops \/ CentreStarts
  \/ CentreDisconnects \/ CentreReconnects
  \/ \E u \in Users : UserDiscovers(u)

Spec == Init /\ [][Next]_vars

(* The receivers run, clients connect again and the broker sees that one   *)
(* is gone.  One thread of an edge does all of its network work.  Nobody   *)
(* has to start a process.                                                 *)
EdgeRuns(s) == EdgeSubscribes(s) \/ EdgeReconnects(s) \/ EdgeHandles(s)

FairSpec ==
  /\ Spec
  /\ WF_vars(CentreHandles) /\ WF_vars(CentreReconnects)
  /\ \A s \in Servers : WF_vars(EdgeRuns(s)) /\ WF_vars(BrokerNotices(s))

-----------------------------------------------------------------------------
(* Properties.                                                             *)

(* The state is of the right type.                                         *)
TypeOK ==
  /\ proc \in [Servers -> Processes]
  /\ ready \in [Servers -> BOOLEAN]
  /\ neighbors \in [Servers -> SUBSET Servers]
  /\ hosts \in [Servers -> SUBSET Users]
  /\ inbox \in [Servers -> Seq(EdgeMessages)]
  /\ session \subseteq Servers
  /\ watches \in [Servers -> SUBSET Users]
  /\ up \in BOOLEAN /\ broken \in BOOLEAN
  /\ rows \subseteq Servers
  /\ service \in [Users -> ServiceRows]
  /\ toCentre \in Seq(CentreMessages)
  /\ redeployed \subseteq Users \X Servers \X Servers
  /\ missed \subseteq Servers

Quiet == up /\ toCentre = <<>> /\ \A s \in Servers : inbox[s] = <<>>

(* The controller keeps no row of a server that is gone: once its last     *)
(* message is handled, a server without a session has no row (lines 730 to *)
(* 751), although a restarted controller has missed the last wills of the  *)
(* meantime.  A controller that connects again has missed them, too, and   *)
(* keeps its tables: on_connect (lines 106 to 115) does not ask who is     *)
(* still there, and the rows of these servers stay.                        *)
NoDeadRow ==
  \A s \in rows \ (session \cup missed) :
    up => \E i \in DOMAIN toCentre : toCentre[i] = Will(s)

(* A server that works knows that the controller has it: one that is ready *)
(* and online has a row when no message is on its way, since it registers  *)
(* again when a list does not have it (edge_controller.py, 427 to 431).  A *)
(* broken connection is an exception: the edge connects again and does not *)
(* learn that its last will has been published meanwhile.                  *)
LiveRegistered ==
  Quiet /\ count.cuts = 0 => \A s \in Online : ready[s] => s \in rows

(* A server that is told a list without it is registered in the end,       *)
(* unless it or the controller stops: if the controller has missed its     *)
(* REGISTER, it publishes another list when it has connected again.        *)
RegistersAgain ==
  \A s \in Servers :
    (\E i \in DOMAIN inbox[s] :
       inbox[s][i].kind = "updated" /\ s \notin inbox[s][i].servers)
      ~> (s \in rows \/ s \notin Online \/ ~(up \/ broken))

(* A service that has been allocated runs where its row says, as long as   *)
(* that server is there: orders and answers that are lost or that cross a  *)
(* last will leave no row behind for a server that does not have the       *)
(* service.  A process that was started again before its last will is      *)
(* another matter: it is empty under a row that is still there.            *)
HostRuns ==
  Quiet => \A u \in Users :
    LET s == service[u].server IN
    service[u].state = "running" /\ s \in Online /\ count.starts[s] = 1 =>
      u \in hosts[s]

(* "If we lose the connection and reconnect then subscriptions will be     *)
(* renewed" (edge_controller.py, lines 149 to 151): the monitor topics of  *)
(* the services a server runs, too.                                        *)
SubscriptionsRenewed ==
  \A s \in Online : hosts[s] \subseteq watches[s]

(* "find a better place to run these apps" (line 740): a service of a lost *)
(* server is not deployed on that server.                                  *)
DeployedElsewhere == \A r \in redeployed : r[2] # r[3]

(* "remove server and re-deploy service" (line 736): the order does not    *)
(* stop the server that gets it.                                           *)
EdgesSurvive == \A s \in Servers : proc[s] # "exited"
=============================================================================
