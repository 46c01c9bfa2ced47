----------------------------- MODULE MobileUser -----------------------------
(***************************************************************************)
(* One simulated end user (end-user/simulated_mobile_eu.py) and its four   *)
(* threads: the main one, which moves the device and ends the simulation;  *)
(* the MQTT thread, which handles ALLOCATED, MIGRATED and HANDOVER; the    *)
(* stream thread, which sends requests to the service; and the one that    *)
(* reports the RSSI.                                                       *)
(*                                                                         *)
(* The threads share the attributes of the application and of the device   *)
(* without a lock.  An action is one use of a shared attribute, or a call  *)
(* that uses one, so that the other threads step in between.  An exception *)
(* that leaves a thread's function ends that thread, and no other: "dead". *)
(*                                                                         *)
(* The container of the service runs on one server at a time; a socket to  *)
(* another one is of no use, and the first call to notice makes it         *)
(* "reset".  A socket no attribute holds is closed by the interpreter.     *)
(***************************************************************************)
EXTENDS Naturals, Sequences

CONSTANTS
  Servers,         \* edge servers
  Placements,      \* bound: those a service is first placed on
  NoServer,        \* "no server"
  max_fail,        \* requests that may fail in a row
  CountsFailures,  \* FALSE: the limit max_fail is never reached
  DeployFails,     \* TRUE: an edge may fail to deploy the service
  MaxDiscoveries,  \* bound: discoveries
  MaxMoves,        \* bound: migrations of the service
  MaxHandovers     \* bound: orders to hand over

ASSUME MobileAssumption ==
  /\ NoServer \notin Servers
  /\ Placements \subseteq Servers
  /\ {DeployFails, CountsFailures} \subseteq BOOLEAN
  /\ max_fail \in Nat \ {0}
  /\ {MaxDiscoveries, MaxMoves, MaxHandovers} \subseteq Nat

VARIABLES
  state,        \* EU_STATE of the application
  service,      \* the server of self.service
  stream_sock,  \* the socket to the service
  fails,        \* consecutive_fail
  device,       \* is_connected, is reconnect_time set?, is_error; is a
                \* handover "lost": was its time reset before it could come?
  main,         \* what the main thread does next
  stream,       \* what the stream thread does next, and its locals
  rssi,         \* what the RSSI thread does next
  mqtt,         \* what the MQTT thread does next, and its message
  inbox,        \* messages the broker has for the user
  asked,        \* discoveries on their way
  at,           \* the server the container runs on
  answers,      \* has the service answered the last request?
  count         \* how often the bounded things have happened

appVars == <<state, service, stream_sock, fails>>
worldVars == <<inbox, asked, at, count>>
vars == <<appVars, device, main, stream, rssi, mqtt, worldVars, answers>>

-----------------------------------------------------------------------------
Socket(s) == [to |-> s, state |-> "open"]
NoSocket == [to |-> NoServer, state |-> "none"]
Useless(st) == [to |-> NoServer, state |-> st]  \* it leads nowhere any more
Sockets == {NoSocket, Useless("reset"), Useless("closed")}
             \cup {Socket(s) : s \in Servers}

Message(kind, s) == [kind |-> kind, server |-> s]
Messages == [kind : {"allocated", "migrated", "handover"},
             server : Servers \cup {NoServer}]

StreamSteps == {"start", "loop", "query", "send", "sent?", "sent", "recv",
                "received?", "received", "again", "connect", "connecting",
                "failed", "answered", "dead", "ended"}
MqttSteps == {"idle", "disconnect", "connect", "connecting", "running?",
              "running", "open?", "shutdown", "close", "forget", "dead", "ended"}

Init ==
  /\ state = "INIT"
  /\ service = NoServer
  /\ stream_sock = NoSocket
  /\ fails = 0
  /\ device = [connected |-> TRUE, due |-> FALSE, error |-> FALSE, lost |-> FALSE]
  /\ main = "loop"
  /\ stream = [at |-> "start", size |-> 0, sock |-> NoSocket]
  /\ rssi = "start"
  /\ mqtt = [at |-> "idle", kind |-> "none", sock |-> NoSocket]
  /\ inbox = <<>>
  /\ asked = 0
  /\ at = NoServer
  /\ answers = FALSE
  /\ count = [discoveries |-> 0, moves |-> 0, handovers |-> 0]

-----------------------------------------------------------------------------
(* The stream thread.  A step keeps the locals that are still of use: the  *)
(* size sent or received until it has been looked at, the socket that      *)
(* try_connect_to_service returns until it is assigned.                    *)

StreamAt(step) == stream.at = step
SizeMatters(step) == step \in {"sent?", "sent", "received?", "received"}
Stream(step) == stream' = [at |-> step, sock |-> NoSocket,
                           size |-> IF SizeMatters(step) THEN stream.size ELSE 0]
SockIs(st) == stream_sock.state = st
Works == SockIs("open") /\ stream_sock.to = at

(* discovery_service, at the start and when no answer comes for a while.   *)
Discovers ==
  /\ \/ StreamAt("start")
     \/ /\ StreamAt("loop")
        /\ device.connected
        /\ state = "INIT"
  /\ count.discoveries < MaxDiscoveries
  /\ asked' = asked + 1
  /\ count' = [count EXCEPT !.discoveries = @ + 1]
  /\ Stream("loop")
  /\ UNCHANGED <<appVars, device, main, rssi, mqtt, inbox, at, answers>>

StreamBegins ==
  /\ StreamAt("loop")
  /\ state = "NORMAL"
  /\ device.connected
  /\ Stream("query")
  /\ UNCHANGED <<appVars, device, main, rssi, mqtt, worldVars, answers>>

StreamEnds ==
  /\ StreamAt("loop")
  /\ state = "TERMINATED"
  /\ stream_sock' = IF SockIs("none") THEN NoSocket
                    ELSE Useless("closed")
  /\ Stream("ended")
  /\ UNCHANGED <<state, service, fails, device, main, rssi, mqtt, worldVars, answers>>

(* query_service: is there a socket at all?                                *)
StreamQueries ==
  /\ StreamAt("query")
  /\ Stream(IF SockIs("none") THEN "connect" ELSE "send")
  /\ UNCHANGED <<appVars, device, main, rssi, mqtt, worldVars, answers>>

(* send_data and recv_data get the socket there is now: None does nothing, *)
(* settimeout on a closed one raises.                                      *)
Touched == IF Works \/ SockIs("none") THEN stream_sock
           ELSE Useless("reset")

StreamSends ==
  /\ StreamAt("send")
  /\ IF SockIs("closed")
     THEN Stream("dead") /\ UNCHANGED stream_sock
     ELSE /\ stream' = [stream EXCEPT !.at = "sent?", !.size = IF Works THEN 1 ELSE 0]
          /\ stream_sock' = Touched
  /\ UNCHANGED <<state, service, fails, device, main, rssi, mqtt, worldVars, answers>>

StreamReceives ==
  /\ StreamAt("recv")
  /\ IF SockIs("closed")
     THEN Stream("dead") /\ UNCHANGED stream_sock
     ELSE /\ stream' = [stream EXCEPT !.at = "received?", !.size = IF Works THEN 1 ELSE 0]
          /\ stream_sock' = Touched
  /\ UNCHANGED <<state, service, fails, device, main, rssi, mqtt, worldVars, answers>>

(* "if self.stream_sock is not None", after sending and after receiving.   *)
(* Mutant: a request that cannot be sent is only reported. *)
ReportsOnly == IF stream.size = 0 THEN "failed" ELSE "recv"

AfterSending == IF stream.size = 0 THEN "connect" ELSE "recv"
AfterReceiving == IF stream.size = 0 THEN "again" ELSE "answered"

StreamLooks ==
  /\ \/ /\ StreamAt("sent?")
        /\ Stream(IF SockIs("none") THEN AfterSending ELSE "sent")
     \/ /\ StreamAt("received?")
        /\ Stream(IF SockIs("none") THEN AfterReceiving ELSE "received")
  /\ UNCHANGED <<appVars, device, main, rssi, mqtt, worldVars, answers>>

(* "self.stream_sock.settimeout(None)": only the second one is in a try,   *)
(* which catches socket.error, and not that there is no socket any more.   *)
StreamUnblocks ==
  /\ \/ /\ StreamAt("sent")
        /\ Stream(IF stream_sock.state \in {"none", "closed"} THEN "dead"
                  ELSE AfterSending)
        /\ UNCHANGED stream_sock
     \/ /\ StreamAt("received")
        /\ Stream(IF SockIs("none") THEN "dead" ELSE AfterReceiving)
        /\ stream_sock' = IF SockIs("closed") THEN NoSocket ELSE stream_sock
  /\ UNCHANGED <<state, service, fails, device, main, rssi, mqtt, worldVars, answers>>

(* No answer: connect again, if there is a socket.                         *)
StreamFindsNoAnswer ==
  /\ StreamAt("again")
  /\ Stream(IF SockIs("none") THEN "failed" ELSE "connect")
  /\ UNCHANGED <<appVars, device, main, rssi, mqtt, worldVars, answers>>

(* try_connect_to_service: reads the address, tries for five seconds.      *)
(* When it returns, the container may have moved on.                       *)
Connected == IF service = at THEN Socket(service) ELSE NoSocket

StreamConnects ==
  /\ StreamAt("connect")
  /\ stream' = [stream EXCEPT !.at = "connecting", !.sock = Connected]
  /\ UNCHANGED <<appVars, device, main, rssi, mqtt, worldVars, answers>>

StreamConnected ==
  /\ StreamAt("connecting")
  /\ stream_sock' = stream.sock
  /\ Stream("failed")
  /\ UNCHANGED <<state, service, fails, device, main, rssi, mqtt, worldVars, answers>>

StreamFails ==
  /\ StreamAt("failed")
  /\ fails' = IF CountsFailures /\ fails < max_fail THEN fails + 1 ELSE fails
  /\ device' = [device EXCEPT !.error = @ \/ fails' = max_fail]
  /\ answers' = FALSE
  /\ Stream("loop")
  /\ UNCHANGED <<state, service, stream_sock, main, rssi, mqtt, worldVars>>

StreamAnswered ==
  /\ StreamAt("answered")
  /\ fails' = 0
  /\ answers' = TRUE
  /\ Stream("loop")
  /\ UNCHANGED <<state, service, stream_sock, device, main, rssi, mqtt, worldVars>>

StreamThread ==
  \/ StreamBegins \/ StreamEnds \/ StreamQueries \/ StreamSends
  \/ StreamReceives \/ StreamLooks \/ StreamUnblocks \/ StreamFindsNoAnswer
  \/ StreamConnects \/ StreamConnected \/ StreamFails \/ StreamAnswered
  \/ Discovers

-----------------------------------------------------------------------------
(* The MQTT thread.                                                        *)

MqttAt(step) == mqtt.at = step
KindMatters(step) == step \in {"connecting", "running?", "running"}
Mqtt(step) == mqtt' = [at |-> step, sock |-> NoSocket,
                       kind |-> IF KindMatters(step) THEN mqtt.kind ELSE "none"]

(* process_allocated and process_migrated set the service; the answer to a *)
(* deployment that failed is no service, and raises.                       *)
(* Mutant: no service is taken for one. *)
IsAnything(m) == TRUE

IsService(m) == m.server # NoServer

MqttSetsService ==
  LET m == Head(inbox) IN
  /\ MqttAt("idle")
  /\ inbox # <<>>
  /\ m.kind \in {"allocated", "migrated"}
  /\ inbox' = Tail(inbox)
  /\ IF ~IsService(m)
     THEN Mqtt("dead") /\ UNCHANGED service
     ELSE /\ service' = m.server
          /\ mqtt' = [mqtt EXCEPT !.kind = m.kind,
                       !.at = IF m.kind = "allocated" THEN "connect" ELSE "running?"]
  /\ UNCHANGED <<state, stream_sock, fails, device, main, stream, rssi, asked,
                 at, count, answers>>

(* process_handover, connect_to_bts: first the time, at last is_connected. *)
(* A station the environment does not know is left at once, with the       *)
(* device as it was; the socket is closed all the same.                    *)
MqttHandsOver ==
  /\ MqttAt("idle")
  /\ inbox # <<>>
  /\ Head(inbox).kind = "handover"
  /\ inbox' = Tail(inbox)
  /\ \/ /\ device' = [device EXCEPT !.due = TRUE, !.lost = FALSE]
        /\ Mqtt("disconnect")
     \/ /\ Mqtt("open?")
        /\ UNCHANGED device
  /\ UNCHANGED <<appVars, main, stream, rssi, asked, at, count, answers>>

MqttDisconnects ==
  /\ MqttAt("disconnect")
  /\ device' = [device EXCEPT !.connected = FALSE]
  /\ Mqtt("open?")
  /\ UNCHANGED <<appVars, main, stream, rssi, worldVars, answers>>

MqttConnects ==
  \/ /\ MqttAt("connect")
     /\ mqtt' = [mqtt EXCEPT !.at = "connecting", !.sock = Connected]
     /\ UNCHANGED <<appVars, device, main, stream, rssi, worldVars, answers>>
  \/ /\ MqttAt("connecting")
     /\ stream_sock' = mqtt.sock
     /\ Mqtt("running?")
     /\ UNCHANGED <<state, service, fails, device, main, stream, rssi,
                    worldVars, answers>>

(* "if self.state != EU_STATE.TERMINATED: self.state = EU_STATE.NORMAL".   *)
AfterRunning == IF mqtt.kind = "allocated" THEN "idle" ELSE "open?"

MqttLooks ==
  /\ \/ /\ MqttAt("running?")
        /\ Mqtt(IF state = "TERMINATED" THEN AfterRunning ELSE "running")
     \/ /\ MqttAt("open?")
        /\ Mqtt(IF SockIs("none") THEN "idle" ELSE "shutdown")
  /\ UNCHANGED <<appVars, device, main, stream, rssi, worldVars, answers>>

MqttRuns ==
  /\ MqttAt("running")
  /\ state' = "NORMAL"
  /\ Mqtt(AfterRunning)
  /\ UNCHANGED <<service, stream_sock, fails, device, main, stream, rssi,
                 worldVars, answers>>

(* "shutdown", "close" and "= None", each on the attribute as it is then.  *)
MqttCloses ==
  /\ \/ /\ MqttAt("shutdown")
        /\ Mqtt(IF SockIs("open") THEN "close" ELSE "dead")
        /\ stream_sock' = IF SockIs("open") THEN Useless("reset") ELSE stream_sock
     \/ /\ MqttAt("close")
        /\ Mqtt(IF SockIs("none") THEN "dead" ELSE "forget")
        /\ stream_sock' = IF SockIs("none") THEN NoSocket
                          ELSE Useless("closed")
     \/ /\ MqttAt("forget")
        /\ Mqtt("idle")
        /\ stream_sock' = NoSocket
  /\ UNCHANGED <<state, service, fails, device, main, stream, rssi, worldVars,
                 answers>>

(* The client has been disconnected: the thread ends between two messages. *)
MqttEnds ==
  /\ MqttAt("idle")
  /\ main = "joining"
  /\ Mqtt("ended")
  /\ UNCHANGED <<appVars, device, main, stream, rssi, worldVars, answers>>

MqttThread == \/ MqttSetsService \/ MqttHandsOver \/ MqttDisconnects
              \/ MqttConnects \/ MqttLooks \/ MqttRuns \/ MqttCloses \/ MqttEnds

-----------------------------------------------------------------------------
(* The RSSI thread: nearby_aps is not bound before the first scan.         *)
RssiThread ==
  /\ rssi \in {"start", "scanned"}
  /\ rssi' = IF state = "TERMINATED" THEN "ended"
             ELSE IF device.connected THEN "scanned"
             ELSE IF rssi = "start" THEN "dead" ELSE rssi
  /\ UNCHANGED <<appVars, device, main, stream, mqtt, worldVars, answers>>

-----------------------------------------------------------------------------
(* The main thread: run_env, update_eu, stop.                              *)

(* Mutant: the test of is_connected is the wrong way round. *)
WaitsConnected == device.connected /\ device.due

Waits == ~device.connected /\ device.due

(* The time to reconnect has come: is_connected and HANDOVERED ...         *)
MainReconnects ==
  /\ main = "loop"
  /\ Waits
  /\ device' = [device EXCEPT !.connected = TRUE]
  /\ main' = "reconnected"
  /\ UNCHANGED <<appVars, stream, rssi, mqtt, worldVars, answers>>

(* ... then the time is reset, which may by now be that of the next        *)
(* handover, taken up since the test: the MQTT thread has set it and then  *)
(* disconnects the device, or has done so.                                 *)
MainForgets ==
  /\ main = "reconnected"
  /\ device' = [device EXCEPT !.due = FALSE,
                              !.lost = @ \/ MqttAt("disconnect") \/ ~device.connected]
  /\ main' = "loop"
  /\ UNCHANGED <<appVars, stream, rssi, mqtt, worldVars, answers>>

(* The time is up, or a thread has reported an error.                      *)
MainStops ==
  /\ main = "loop"
  /\ main' = "joining"
  /\ state' = "TERMINATED"
  /\ UNCHANGED <<service, stream_sock, fails, device, stream, rssi, mqtt,
                 worldVars, answers>>

MainJoins ==
  /\ main = "joining"
  /\ rssi \in {"dead", "ended"}
  /\ stream.at \in {"dead", "ended"}
  /\ mqtt.at \in {"dead", "ended"}
  /\ main' = "done"
  /\ UNCHANGED <<appVars, device, stream, rssi, mqtt, worldVars, answers>>

-----------------------------------------------------------------------------
(* The controller and the edge servers, as far as the user hears of them.  *)

ServiceAllocated ==
  /\ asked > 0
  /\ asked' = asked - 1
  /\ \E s \in Servers \cup {NoServer} :
       /\ IF at = NoServer THEN s \in Placements \/ (DeployFails /\ s = NoServer)
                           ELSE s = at
       /\ at' = s
       /\ inbox' = Append(inbox, Message("allocated", s))
  /\ UNCHANGED <<appVars, device, main, stream, rssi, mqtt, count, answers>>

ServiceMoves(s) ==
  /\ at \notin {s, NoServer}
  /\ count.moves < MaxMoves
  /\ at' = s
  /\ inbox' = Append(inbox, Message("migrated", s))
  /\ count' = [count EXCEPT !.moves = @ + 1]
  /\ UNCHANGED <<appVars, device, main, stream, rssi, mqtt, asked, answers>>

HandoverOrdered ==
  /\ at # NoServer
  /\ count.handovers < MaxHandovers
  /\ inbox' = Append(inbox, Message("handover", NoServer))
  /\ count' = [count EXCEPT !.handovers = @ + 1]
  /\ UNCHANGED <<appVars, device, main, stream, rssi, mqtt, asked, at, answers>>

-----------------------------------------------------------------------------
MainThread == MainReconnects \/ MainForgets \/ MainJoins

Next ==
  \/ StreamThread \/ MqttThread \/ RssiThread \/ MainThread
  \/ MainStops
  \/ ServiceAllocated \/ HandoverOrdered
  \/ \E s \in Servers : ServiceMoves(s)

Spec == Init /\ [][Next]_vars

(* The scheduler runs every thread; a discovery is answered; a device with *)
(* an error reported is stopped by the main loop.                          *)
FairSpec ==
  /\ Spec
  /\ WF_vars(StreamThread) /\ WF_vars(MqttThread) /\ WF_vars(RssiThread)
  /\ WF_vars(MainThread) /\ WF_vars(ServiceAllocated)
  /\ WF_vars(device.error /\ MainStops)

-----------------------------------------------------------------------------
(* Properties.                                                             *)

(* The state is of the right type.                                         *)
TypeOK ==
  /\ state \in {"INIT", "NORMAL", "TERMINATED"}
  /\ service \in Servers \/ (service = NoServer /\ state # "NORMAL")
  /\ stream_sock \in Sockets
  /\ fails \in 0 .. max_fail
  /\ device \in [connected : BOOLEAN, due : BOOLEAN, error : BOOLEAN, lost : BOOLEAN]
  /\ main \in {"loop", "reconnected", "joining", "done"}
  /\ stream \in [at : StreamSteps, size : {0, 1}, sock : Sockets]
  /\ rssi \in {"start", "scanned", "dead", "ended"}
  /\ mqtt \in [at : MqttSteps,
               kind : {"none", "allocated", "migrated"},
               sock : Sockets]
  /\ inbox \in Seq(Messages)
  /\ asked \in 0 .. MaxDiscoveries
  /\ at \in Servers \cup {NoServer}
  /\ answers \in BOOLEAN

(* Both threads that serve the user live, and the device is connected.     *)
Serving == /\ stream.at \notin {"dead", "ended"}
           /\ mqtt.at \notin {"dead", "ended"}
           /\ state = "NORMAL"
           /\ device.connected

(* The user gets its answers back: whatever the service and the socket     *)
(* have been through, one that goes on asking is answered, unless a thread *)
(* ends or the simulation does (lines 332 to 376, 463 to 512).             *)
Served == Serving ~> (answers \/ ~Serving)

(* A device that leaves its station arrives at the next one (lines 150 to  *)
(* 161, 207 to 222), however its handovers follow one another, unless the  *)
(* simulation stops meanwhile or the time of the handover is lost: set     *)
(* between the main thread's test (155) and its reset (158), while the one *)
(* before it ends.  That device stays without a station until it is        *)
(* ordered to another; nothing else keeps it from arriving.                *)
Reconnects ==
  ~device.connected
    ~> (device.connected \/ device.lost \/ main \in {"joining", "done"})

(* A handover or a migration that closes the socket does not end the       *)
(* thread that uses it.  "This line raise [...] I don't know why" (line    *)
(* 348) is handled at one of the four lines that raise.                    *)
StreamSurvives == stream.at # "dead"

(* "Stop the simulation" (line 128): the threads see that it has stopped.  *)
Stops == (main = "joining") ~> (main = "done")
=============================================================================
