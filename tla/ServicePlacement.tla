-------------------------- MODULE ServicePlacement --------------------------
(* What the migration of services promises to the end users and to the     *)
(* centralized controller, without threads, queues, datagrams or images:   *)
(* a service is a single thing that is somewhere, or between two places,   *)
(* and the server its users are sent to follows it.                        *)
(*                                                                         *)
(* A move is three steps in this order and no other: the service halts     *)
(* where the users were told it is, starts on another server, and the      *)
(* users are told.  The promise ends when something outside the protocol   *)
(* cuts into a move: then the service is lost to this specification, and   *)
(* nothing more is said of it.                                             *)
EXTENDS FiniteSets

CONSTANTS
  Edges,     \* the edge servers
  Services,  \* the offloaded services
  NoEdge     \* "no server"

VARIABLES
  runs,  \* [service]: the edge servers it runs on
  told,  \* [service]: the server its users are sent to
  lost   \* services whose moves were cut into

vars == <<runs, told, lost>>

Init ==
  /\ runs = [s \in Services |-> {}]
  /\ told = [s \in Services |-> NoEdge]
  /\ lost = {}

Moved(s, places, server) ==
  /\ s \notin lost
  /\ runs' = [runs EXCEPT ![s] = places]
  /\ told' = [told EXCEPT ![s] = server]

(* A user asks for the service, and it runs on e.                          *)
Place(s, e) ==
  /\ told[s] = NoEdge
  /\ Moved(s, {e}, e)
  /\ UNCHANGED lost

(* The user leaves while the service is where it was told.                 *)
Remove(s) ==
  /\ told[s] # NoEdge /\ runs[s] = {told[s]}
  /\ Moved(s, {}, NoEdge)
  /\ UNCHANGED lost

Halt(s) ==
  /\ told[s] # NoEdge /\ runs[s] = {told[s]}
  /\ Moved(s, {}, told[s])
  /\ UNCHANGED lost

Start(s, d) ==
  /\ told[s] \notin {NoEdge, d} /\ runs[s] = {}
  /\ Moved(s, {d}, told[s])
  /\ UNCHANGED lost

Tell(s, d) ==
  /\ told[s] \notin {NoEdge, d} /\ runs[s] = {d}
  /\ Moved(s, {d}, d)
  /\ UNCHANGED lost

Lose(s) ==
  /\ Moved(s, {}, NoEdge)
  /\ lost' = lost \cup {s}

Next == \E s \in Services :
  \/ Remove(s) \/ Halt(s) \/ Lose(s)
  \/ \E e \in Edges : Place(s, e) \/ Start(s, e) \/ Tell(s, e)

Spec == Init /\ [][Next]_vars
=============================================================================
