---------------------- MODULE MigratePromises_proofs ------------------------
(* What the migration service promises beyond the invariant of the baton:  *)
(* it implements ServicePlacement, it forgets no service, under the        *)
(* threshold planners it sends on open sockets and to prepared             *)
(* destinations, and the first migration of a service keeps its state.     *)
EXTENDS MigrateRefinement, MigrateService_proofs

-----------------------------------------------------------------------------
(* MigrateService implements ServicePlacement: every step moves one        *)
(* service the way the abstract specification allows, or none.             *)
(*                                                                         *)
(* A step changes what one service shows of itself (where it runs, which   *)
(* server its users are told, whether its move was cut into), so the proof *)
(* names that service, shows that the others stay as they were (Stays) and *)
(* reads the abstract step off the invariant before and after it.          *)

(* The abstract state of service t stays as it is.                         *)
Stays(t) ==
  /\ t \in disturbed' <=> t \in disturbed
  /\ t \notin disturbed => host'[t] = host[t] /\ RunsKept(t)

OthersStay(s) == \A t \in Services \ {s} : Stays(t)

(* If all services stay as they are, the abstract state does.              *)
LEMMA Stutters ==
  ASSUME TypeOK, TypeOK', \A t \in Services : Stays(t)
  PROVE  [Placement!Next]_(Placement!vars)
<1>1. disturbed' = disturbed
  BY DEF TypeOK, Stays
<1>2. \A t \in Services : RunsOn(t)' = RunsOn(t) /\ ToldTo(t)' = ToldTo(t)
  BY DEF Stays, RunsKept, RunsOn, ToldTo
<1> QED  BY <1>1, <1>2 DEF Placement!vars

(* If one service moves on and was not cut into, the abstract state of     *)
(* that service changes and no other.                                      *)
LEMMA Moves ==
  ASSUME TypeOK, TypeOK', NEW s \in Services, s \notin disturbed', OthersStay(s),
         s \notin disturbed
  PROVE  /\ Placement!Moved(s, RunsOn(s)', host'[s]) /\ disturbed' = disturbed
         /\ RunsOn(s) = {e \in Edges : Running(e, s)} /\ ToldTo(s) = host[s]
         /\ RunsOn(s)' = {e \in Edges : Running(e, s)'}
<1>1. disturbed' = disturbed
  <2>1. disturbed \in SUBSET Services /\ disturbed' \in SUBSET Services
    BY DEF TypeOK
  <2>2. \A t \in Services : t \in disturbed' <=> t \in disturbed
    BY DEF OthersStay, Stays
  <2> QED  BY <2>1, <2>2
<1>2. \A t \in Services \ {s} : RunsOn(t)' = RunsOn(t) /\ ToldTo(t)' = ToldTo(t)
  BY DEF OthersStay, Stays, RunsKept, RunsOn, ToldTo
<1>3. ToldTo(s)' = host'[s]
  BY DEF ToldTo
<1>4. [t \in Services |-> RunsOn(t)]' =
        [[t \in Services |-> RunsOn(t)] EXCEPT ![s] = RunsOn(s)']
  BY <1>2
<1>5. [t \in Services |-> ToldTo(t)]' =
        [[t \in Services |-> ToldTo(t)] EXCEPT ![s] = host'[s]]
  BY <1>2, <1>3
<1> QED  BY <1>1, <1>4, <1>5 DEF Placement!Moved, RunsOn, ToldTo

(* A service whose move is cut into is lost to the abstract specification. *)
LEMMA Loses ==
  ASSUME TypeOK, TypeOK', NEW s \in Services, s \in disturbed', OthersStay(s),
         s \notin disturbed
  PROVE  Placement!Lose(s)
<1>1. disturbed' = disturbed \cup {s}
  <2>1. disturbed \in SUBSET Services /\ disturbed' \in SUBSET Services
    BY DEF TypeOK
  <2>2. \A t \in Services \ {s} : t \in disturbed' <=> t \in disturbed
    BY DEF OthersStay, Stays
  <2> QED  BY <2>1, <2>2
<1>2. \A t \in Services \ {s} : RunsOn(t)' = RunsOn(t) /\ ToldTo(t)' = ToldTo(t)
  BY DEF OthersStay, Stays, RunsKept, RunsOn, ToldTo
<1>3. RunsOn(s)' = {} /\ ToldTo(s)' = NoEdge
  BY DEF RunsOn, ToldTo
<1>4. [t \in Services |-> RunsOn(t)]' =
        [[t \in Services |-> RunsOn(t)] EXCEPT ![s] = {}]
  BY <1>2, <1>3
<1>5. [t \in Services |-> ToldTo(t)]' =
        [[t \in Services |-> ToldTo(t)] EXCEPT ![s] = NoEdge]
  BY <1>2, <1>3
<1> QED  BY <1>1, <1>4, <1>5 DEF Placement!Moved, Placement!Lose

(* Steps that leave containers, the database and the history alone.        *)
LEMMA Quiet ==
  ASSUME TypeOK, TypeOK', UNCHANGED <<container, host, disturbed>>
  PROVE  [Placement!Next]_(Placement!vars)
<1>1. \A t \in Services : Stays(t)
  BY DEF Stays, RunsKept, Running
<1> QED  BY <1>1, Stutters

(* A step that touches the container of one service leaves the others.     *)
LEMMA OthersKept ==
  ASSUME TypeOK, NEW s \in Services, NEW e \in Edges, NEW c,
         \/ container' = [container EXCEPT ![e][s] = c]
         \/ container' = container,
         \A t \in Services \ {s} : host'[t] = host[t],
         \A t \in Services \ {s} : t \in disturbed' <=> t \in disturbed
  PROVE  OthersStay(s)
<1>1. \A t \in Services \ {s} : RunsKept(t)
  BY ContainerSet DEF RunsKept, Running
<1> QED  BY <1>1 DEF OthersStay, Stays

(* What one step of the service s may show.                                *)
LEMMA Shown ==
  ASSUME TypeOK, TypeOK', NEW s \in Services, OthersStay(s),
         \/ Stays(s)
         \/ s \notin disturbed /\ s \in disturbed'
  PROVE  [Placement!Next]_(Placement!vars)
<1>1. CASE Stays(s)
  BY <1>1, Stutters DEF OthersStay
<1>2. CASE s \notin disturbed /\ s \in disturbed'
  BY <1>2, Loses DEF Placement!Next
<1> QED  BY <1>1, <1>2

(* A deployment places a service that runs nowhere and nobody is sent to.  *)
LEMMA DeployPlaces ==
  ASSUME TypeOK, TypeOK', IInv, NEW s \in Services, NEW e \in Edges, Deploy(s, e)
  PROVE  [Placement!Next]_(Placement!vars)
<1> USE DEF dockerVars, edgeVars, srcVars, dstVars, centreVars
<1>1. host' = [host EXCEPT ![s] = e] /\ disturbed' = disturbed /\ host[s] = NoEdge
  BY DEF Deploy
<1>2. \/ container' = [container EXCEPT ![e][s] = "deployed"]
      \/ container' = container
  BY DEF Deploy
<1>3. OthersStay(s)
  <2>1. \A t \in Services \ {s} : host'[t] = host[t]
    BY <1>1, CentreUpdate
  <2> QED  BY <1>1, <1>2, <2>1, OthersKept
<1>4. CASE s \in disturbed
  BY <1>1, <1>3, <1>4, Shown DEF Stays
<1>5. CASE s \notin disturbed
  <2>1. ~Moving(s) /\ Inductive(s)
    BY <1>1, <1>5, MigrateAssumption DEF IInv, Inductive, PlanOK, Moving
  <2>2. \A x \in Edges : ~Running(x, s)
    BY <1>1, <2>1, AtRest, MigrateAssumption
  <2>3. container' = [container EXCEPT ![e][s] = "deployed"]
    BY <2>2 DEF Deploy
  <2>4. \A x \in Edges : Running(x, s)' <=> x = e
    BY <2>2, <2>3, ContainerSet DEF RunStates
  <2>5. host'[s] = e
    BY <1>1, CentreUpdate
  <2>6. Placement!Place(s, e)
    <3>1. RunsOn(s)' = {e}
      BY <1>1, <1>5, <2>4 DEF RunsOn
    <3>2. Placement!Moved(s, {e}, e)
      BY <1>1, <1>3, <1>5, <2>5, <3>1, Moves
    <3>3. ToldTo(s) = NoEdge
      BY <1>1, <1>5 DEF ToldTo
    <3> QED  BY <1>1, <3>2, <3>3 DEF Placement!Place
  <2> QED  BY <2>6 DEF Placement!Next
<1> QED  BY <1>4, <1>5

(* A failed deployment removes what docker still had of such a service.    *)
LEMMA DeployFailsShows ==
  ASSUME TypeOK, TypeOK', IInv, NEW s \in Services, NEW e \in Edges,
         DeployFails(s, e)
  PROVE  [Placement!Next]_(Placement!vars)
<1> USE DEF dockerVars, edgeVars, srcVars, dstVars, centreVars
<1>1. /\ host' = host /\ disturbed' = disturbed /\ host[s] = NoEdge
      /\ container' = [container EXCEPT ![e][s] = "none"]
  BY DEF DeployFails
<1>2. OthersStay(s)
  BY <1>1, OthersKept
<1>3. CASE s \in disturbed
  BY <1>1, <1>2, <1>3, Shown DEF Stays
<1>4. CASE s \notin disturbed
  <2>1. ~Moving(s) /\ Inductive(s)
    BY <1>1, <1>4, MigrateAssumption DEF IInv, Inductive, PlanOK, Moving
  <2>2. \A x \in Edges : ~Running(x, s)
    BY <1>1, <2>1, AtRest, MigrateAssumption
  <2>3. RunsKept(s)
    BY <1>1, <2>2, ContainerSet DEF RunStates
  <2> QED  BY <1>1, <1>2, <2>3, Shown DEF Stays
<1> QED  BY <1>3, <1>4

(* A user leaves: between two moves the service is removed where it runs,  *)
(* in the middle of one the move is cut into.                              *)
LEMMA LeaveRemoves ==
  ASSUME TypeOK, TypeOK', IInv, IInv', NEW s \in Services, Leave(s)
  PROVE  [Placement!Next]_(Placement!vars)
<1> USE DEF dockerVars, edgeVars, srcVars, dstVars, centreVars
<1>1. /\ host[s] # NoEdge /\ host[s] \in Edges
      /\ host' = [host EXCEPT ![s] = NoEdge]
      /\ plan' = [plan EXCEPT ![s] = NoPlan]
  BY CentreUpdate DEF Leave
<1>2. /\ host'[s] = NoEdge /\ plan'[s] = NoPlan
      /\ \A t \in Services \ {s} : host'[t] = host[t]
  BY <1>1, CentreUpdate
<1>3. \A t \in Services \ {s} : t \in disturbed' <=> t \in disturbed
  BY DEF Leave, Disturb
<1>4. \/ \E c : container' = [container EXCEPT ![host[s]][s] = c]
      \/ container' = container
  BY DEF Leave
<1>5. OthersStay(s)
  BY <1>1, <1>2, <1>3, <1>4, OthersKept
<1>6. s \in disturbed => s \in disturbed'
  BY DEF Leave, Disturb
<1>7. CASE s \in disturbed \/ s \in disturbed'
  BY <1>5, <1>6, <1>7, Shown DEF Stays
<1>8. CASE s \notin disturbed /\ s \notin disturbed'
  <2>1. plan[s].phase = "idle"
    BY <1>8 DEF Leave, Disturb
  <2>2. ~Moving(s) /\ Inductive(s)
    BY <1>8, <2>1 DEF IInv, Moving
  <2>3. \A x \in Edges : Running(x, s) <=> x = host[s]
    BY <2>2, AtRest
  <2>4. Runs(s)' /\ ~Moving(s)'
    BY <1>2, <1>8 DEF IInv, Inductive, Moving, NoPlan
  <2>5. \A x \in Edges : ~Running(x, s)'
    BY <1>2, <2>4, MigrateAssumption DEF Runs
  <2>6. RunsOn(s)' = {} /\ RunsOn(s) = {host[s]} /\ ToldTo(s) = host[s]
    BY <1>1, <1>8, <2>3, <2>5 DEF RunsOn, ToldTo
  <2>7. Placement!Moved(s, {}, NoEdge) /\ UNCHANGED disturbed
    BY <1>2, <1>5, <1>8, <2>6, Moves
  <2>8. Placement!Remove(s)
    BY <1>1, <2>6, <2>7 DEF Placement!Remove
  <2> QED  BY <2>8 DEF Placement!Next
<1> QED  BY <1>7, <1>8

(* An order that its server does not know the service for cuts into the    *)
(* move; any other changes neither the containers nor the database.        *)
LEMMA OrderShows ==
  ASSUME TypeOK, TypeOK', NEW s \in Services,
         (\E d \in Edges : Order(s, d)) \/ OrderMigrate(s)
  PROVE  [Placement!Next]_(Placement!vars)
<1> USE DEF dockerVars, edgeVars, srcVars, dstVars, centreVars
<1>1. container' = container /\ host' = host
  BY DEF Order, OrderMigrate
<1>2. disturbed' \in {disturbed, disturbed \cup {s}}
  BY DEF Order, OrderMigrate, Enqueue, Disturb
<1>3. /\ \A t \in Services : RunsKept(t)
      /\ OthersStay(s)
  BY <1>1, <1>2 DEF OthersStay, Stays, RunsKept, Running
<1>4. Stays(s) \/ (s \notin disturbed /\ s \in disturbed')
  BY <1>1, <1>2, <1>3 DEF Stays
<1> QED  BY <1>3, <1>4, Shown

(* The centre hears that a service has moved, and tells its users.         *)
LEMMA MigratedTells ==
  ASSUME TypeOK, TypeOK', IInv, IInv', NEW n \in notices, Migrated(n)
  PROVE  [Placement!Next]_(Placement!vars)
<1> USE DEF dockerVars, edgeVars, srcVars, dstVars, centreVars
<1> DEFINE s == n.svc
<1>1. s \in Services /\ n.edge \in Edges /\ n.kind = "migrated"
  BY DEF TypeOK, Notices, Migrated
<1>2. container' = container /\ disturbed' = disturbed
  BY DEF Migrated
<1>3. \A t \in Services : RunsKept(t)
  BY <1>2 DEF RunsKept, Running
<1>4. \A t \in Services \ {s} : host'[t] = host[t]
  <2>1. host \in [Services -> Edges \cup {NoEdge}]
    BY <1>1, CentreUpdate
  <2> QED  BY <1>1, <2>1 DEF Migrated
<1>5. OthersStay(s)
  BY <1>2, <1>3, <1>4 DEF OthersStay, Stays
<1>6. CASE s \in disturbed
  BY <1>1, <1>2, <1>5, <1>6, Shown DEF Stays
<1>7. CASE s \notin disturbed
  <2>1. Inductive(s) /\ Inductive(s)'
    BY <1>1, <1>2, <1>7 DEF IInv
  <2>2. Announced(s)
    BY <1>1 DEF Announced
  <2>3. Moving(s) /\ n.edge = plan[s].dst
    BY <1>1, <2>1 DEF Inductive, Placed
  <2>4. host[s] \in Edges /\ host[s] # NoEdge /\ plan[s].dst # host[s]
    BY <2>1, <2>3, MigrateAssumption DEF Inductive, PlanOK, Moving
  <2>5. host'[s] = n.edge /\ plan'[s] = NoPlan
    <3>1. host \in [Services -> Edges \cup {NoEdge}] /\ plan \in [Services -> Plans]
      BY <1>1, CentreUpdate
    <3> QED  BY <1>1, <2>4, <3>1 DEF Migrated
  <2>6. \A x \in Edges : Running(x, s)' <=> x = n.edge
    BY <2>1, <2>5 DEF Inductive, Runs, Moving, NoPlan
  <2>7. \A x \in Edges : Running(x, s) <=> x = n.edge
    BY <1>1, <1>3, <2>6 DEF RunsKept
  <2>8. RunsOn(s)' = {n.edge} /\ RunsOn(s) = {n.edge} /\ ToldTo(s) = host[s]
    BY <1>1, <1>2, <1>7, <2>6, <2>7 DEF RunsOn, ToldTo
  <2>9. Placement!Moved(s, {n.edge}, n.edge) /\ UNCHANGED disturbed
    BY <1>1, <1>2, <1>5, <1>7, <2>5, <2>8, Moves
  <2>10. Placement!Tell(s, n.edge)
    BY <1>1, <2>3, <2>4, <2>8, <2>9 DEF Placement!Tell
  <2> QED  BY <1>1, <2>10 DEF Placement!Next
<1> QED  BY <1>6, <1>7

(* The source stops the container, or loses the move if it cannot take the *)
(* final checkpoint.                                                       *)
LEMMA StopHalts ==
  ASSUME TypeOK, TypeOK', IInv, IInv', NEW e \in Edges, MigrateStop(e)
  PROVE  [Placement!Next]_(Placement!vars)
<1> USE DEF dockerVars, edgeVars, srcVars, dstVars, centreVars
<1>1. PICK s \in Services : s = Head(queue[e]).svc /\ HasMove(queue[e], s)
  <2>1. /\ queue[e] \in Seq(Commands) /\ queue[e] # <<>>
        /\ Head(queue[e]).cmd = "migrate"
    BY SourceUpdate DEF MigrateStop, Takes
  <2>2. /\ Head(queue[e]) \in Commands /\ 1 \in DOMAIN queue[e]
        /\ Head(queue[e]) = queue[e][1]
    BY <2>1, HeadTailProperties, LenProperties, EmptySeq
  <2> QED  BY <2>1, <2>2 DEF Commands, HasMove, IsMove
<1>2. host' = host
  BY DEF MigrateStop
<1>3. CASE container' = container /\ disturbed' = disturbed
  BY <1>2, <1>3, Quiet
<1>4. ASSUME NEW ok \in CheckpointOK(e, s),
             container' = IF ok THEN [container EXCEPT ![e][s] = Stopped(@)]
                                ELSE container,
             Disturb(s, ~ok)
      PROVE  [Placement!Next]_(Placement!vars)
  <2>1. \/ container' = [container EXCEPT ![e][s] = Stopped(container[e][s])]
        \/ container' = container
    BY <1>4
  <2>2. disturbed' = IF ok THEN disturbed ELSE disturbed \cup {s}
    BY <1>4 DEF Disturb, CheckpointOK
  <2>3. OthersStay(s)
    BY <1>1, <1>2, <2>1, <2>2, OthersKept
  <2>4. CASE s \in disturbed \/ ~ok
    BY <1>1, <2>2, <2>3, <2>4, Shown DEF Stays
  <2>5. CASE s \notin disturbed /\ ok
    <3>1. s \notin disturbed' /\ disturbed' = disturbed
      BY <2>2, <2>5
    <3>2. Inductive(s) /\ Running(e, s)
      BY <1>1, <2>5 DEF IInv, CheckpointOK
    <3>3. Moving(s) /\ e = host[s]
      BY <1>1, <3>2 DEF Inductive, Placed
    <3>4. \A x \in Edges : Running(x, s) <=> x = e
      BY <3>2, <3>3 DEF Inductive, Runs
    <3>5. Stopped(container[e][s]) \notin RunStates
      BY DEF Stopped, RunStates
    <3>6. container' = [container EXCEPT ![e][s] = Stopped(container[e][s])]
      BY <1>4, <2>5
    <3>7. \A x \in Edges : ~Running(x, s)'
      <4>1. \A x \in Edges : Running(x, s)' <=>
              IF x = e /\ s = s THEN Stopped(container[e][s]) \in RunStates
              ELSE Running(x, s)
        BY <3>6, ContainerSet
      <4> QED  BY <3>4, <3>5, <4>1
    <3>8. RunsOn(s)' = {} /\ RunsOn(s) = {e} /\ ToldTo(s) = e
      BY <2>5, <3>1, <3>3, <3>4, <3>7 DEF RunsOn, ToldTo
    <3>9. Placement!Moved(s, {}, e) /\ UNCHANGED disturbed
      <4>1. Placement!Moved(s, RunsOn(s)', host'[s])
        BY <1>1, <2>3, <2>5, <3>1, Moves
      <4> QED  BY <1>2, <3>1, <3>3, <3>8, <4>1
    <3>10. Placement!Halt(s)
      BY <1>1, <3>8, <3>9, MigrateAssumption DEF Placement!Halt
    <3> QED  BY <1>1, <3>10 DEF Placement!Next
  <2> QED  BY <1>4, <2>4, <2>5 DEF CheckpointOK
<1> QED  BY <1>1, <1>3, <1>4 DEF MigrateStop

(* The destination creates the container it will restore into: only the    *)
(* prepare of an abandoned plan can meet a running one, and cuts into it.  *)
LEMMA CreateShows ==
  ASSUME TypeOK, TypeOK', NEW d \in Edges, DestCreate(d)
  PROVE  [Placement!Next]_(Placement!vars)
<1> USE DEF dockerVars, edgeVars, srcVars, dstVars, centreVars
<1>1. PICK s \in Services : s = dst[d].svc
  BY DestUpdate DEF DestCreate, DstStages
<1>2. /\ host' = host /\ disturbed' = IF Running(d, s) THEN disturbed \cup {s}
                                                       ELSE disturbed
      /\ container' = [container EXCEPT ![d][s] = "created"]
  BY <1>1 DEF DestCreate, Disturb
<1>3. OthersStay(s)
  BY <1>2, OthersKept
<1>4. CASE Running(d, s) \/ s \in disturbed
  BY <1>2, <1>3, <1>4, Shown DEF Stays
<1>5. CASE ~Running(d, s)
  <2>1. "created" \notin RunStates
    BY DEF RunStates
  <2>2. RunsKept(s)
    BY <1>2, <1>5, <2>1, ContainerSet
  <2> QED  BY <1>2, <1>3, <1>5, <2>2, Shown DEF Stays
<1> QED  BY <1>4, <1>5

(* A container that starts while the rebuilt image is there continues the  *)
(* move: the source has stopped its own.                                   *)
LEMMA Arrives ==
  ASSUME TypeOK, TypeOK', IInv, IInv', NEW s \in Services, NEW d \in Edges,
         s \notin disturbed, disturbed' = disturbed, host' = host,
         UnpackingAt(d, s), ~Running(d, s),
         NEW c \in RunStates, container' = [container EXCEPT ![d][s] = c]
  PROVE  [Placement!Next]_(Placement!vars)
<1>1. Inductive(s) /\ Unpacking(s)
  BY DEF IInv, Unpacking
<1>2. Moving(s) /\ d = plan[s].dst
  BY <1>1 DEF Inductive, Placed
<1>3. host[s] \in Edges /\ d # host[s]
  BY <1>1, <1>2 DEF Inductive, PlanOK, Moving
<1>4. \A x \in Edges : ~Running(x, s)
  BY <1>1, <1>2 DEF Inductive, Runs
<1>5. \A x \in Edges : Running(x, s)' <=> x = d
  BY <1>4, ContainerSet
<1>6. OthersStay(s)
  BY OthersKept
<1>7. RunsOn(s)' = {d} /\ RunsOn(s) = {} /\ ToldTo(s) = host[s]
  BY <1>4, <1>5 DEF RunsOn, ToldTo
<1>8. Placement!Moved(s, {d}, host[s]) /\ UNCHANGED disturbed
  BY <1>6, <1>7, Moves
<1>9. Placement!Start(s, d)
  BY <1>3, <1>7, <1>8, MigrateAssumption DEF Placement!Start
<1> QED  BY <1>9 DEF Placement!Next

(* A restore continues the move or leaves everything as it is.             *)
LEMMA RestoreArrives ==
  ASSUME TypeOK, TypeOK', IInv, IInv', NEW d \in Edges, DestRestore(d)
  PROVE  [Placement!Next]_(Placement!vars)
<1> USE DEF dockerVars, edgeVars, srcVars, dstVars, centreVars
<1>1. PICK s \in Services : s = dst[d].svc
  BY DestUpdate DEF DestRestore, DstStages
<1>2. UnpackingAt(d, s) /\ host' = host /\ disturbed' = disturbed
  BY <1>1 DEF DestRestore, UnpackingAt
<1>3. \/ container' = container
      \/ Startable(d, s) /\ container' = [container EXCEPT ![d][s] = "restored"]
  BY <1>1 DEF DestRestore, RestoreOK
<1>4. CASE container' = container
  BY <1>2, <1>4, Quiet
<1>5. CASE Startable(d, s) /\ container' = [container EXCEPT ![d][s] = "restored"]
  <2>1. ~Running(d, s) /\ "restored" \in RunStates
    BY <1>5 DEF Startable, Running, RunStates
  <2>2. OthersStay(s)
    BY <1>2, <1>5, OthersKept
  <2>3. CASE s \in disturbed
    BY <1>2, <2>2, <2>3, Shown DEF Stays
  <2>4. CASE s \notin disturbed
    BY <1>2, <1>5, <2>1, <2>4, Arrives
  <2> QED  BY <2>3, <2>4
<1> QED  BY <1>3, <1>4, <1>5

(* A start from the image does so too, or the move is lost with it.        *)
LEMMA StartArrives ==
  ASSUME TypeOK, TypeOK', IInv, IInv', NEW d \in Edges, DestStart(d)
  PROVE  [Placement!Next]_(Placement!vars)
<1> USE DEF dockerVars, edgeVars, srcVars, dstVars, centreVars
<1>1. PICK s \in Services : s = dst[d].svc
  BY DestUpdate DEF DestStart, DstStages
<1>2. host' = host
  BY DEF DestStart
<1>3. CASE container' = container /\ disturbed' = disturbed
  BY <1>2, <1>3, Quiet
<1>4. ASSUME NEW c \in IF dst[d].stage = "failed" THEN StartOutcomes(d, s)
                       ELSE {container[d][s]},
             container' = [container EXCEPT ![d][s] = c],
             Disturb(s, c \notin {"restored", "reset"})
      PROVE  [Placement!Next]_(Placement!vars)
  <2>1. disturbed' = IF c \notin {"restored", "reset"} THEN disturbed \cup {s}
                     ELSE disturbed
    BY <1>4 DEF Disturb
  <2>2. OthersStay(s)
    BY <1>2, <1>4, <2>1, OthersKept
  <2>3. CASE s \in disturbed \/ c \notin {"restored", "reset"}
    BY <1>2, <2>1, <2>2, <2>3, Shown DEF Stays
  <2>4. CASE s \notin disturbed /\ c \in {"restored", "reset"}
    <3>1. c \in RunStates /\ disturbed' = disturbed
      BY <2>1, <2>4 DEF RunStates
    <3>2. CASE c = container[d][s]
      <4>1. RunsKept(s)
        BY <1>4, <3>2, ContainerSet DEF Running
      <4> QED  BY <1>2, <2>2, <3>1, <4>1, Shown DEF Stays
    <3>3. CASE c # container[d][s]
      <4>1. dst[d].stage = "failed" /\ Startable(d, s)
        BY <1>4, <3>3 DEF StartOutcomes
      <4>2. UnpackingAt(d, s) /\ ~Running(d, s)
        BY <1>1, <4>1 DEF UnpackingAt, Startable, Running, RunStates
      <4> QED  BY <1>2, <1>4, <2>4, <3>1, <4>2, Arrives
    <3> QED  BY <3>2, <3>3
  <2> QED  BY <2>3, <2>4
<1> QED  BY <1>1, <1>3, <1>4 DEF DestStart

(* Every step is a step of ServicePlacement or leaves what it sees.        *)
LEMMA PlacementStep ==
  ASSUME TypeOK, TypeOK', IInv, IInv', [Next]_vars
  PROVE  [Placement!Next]_(Placement!vars)
<1> USE DEF dockerVars, edgeVars, srcVars, dstVars, centreVars
<1>1. CASE UNCHANGED vars
  BY <1>1, Quiet DEF vars
<1>2. ASSUME NEW s \in Services, NEW e \in Edges,
             Deploy(s, e) \/ DeployFails(s, e) \/ Order(s, e)
      PROVE  [Placement!Next]_(Placement!vars)
  BY <1>2, DeployPlaces, DeployFailsShows, OrderShows
<1>3. ASSUME NEW s \in Services, Leave(s) \/ OrderMigrate(s)
      PROVE  [Placement!Next]_(Placement!vars)
  BY <1>3, LeaveRemoves, OrderShows
<1>4. ASSUME NEW n \in notices, Migrated(n)
      PROVE  [Placement!Next]_(Placement!vars)
  BY <1>4, MigratedTells
<1>5. ASSUME NEW e \in Edges, SourceStep(e)
      PROVE  [Placement!Next]_(Placement!vars)
  <2>1. CASE PreMeasure(e) \/ Measure(e) \/ MeasureReport(e)
    BY <2>1, Quiet, Zenon DEF PreMeasure, Measure, MeasureReport
  <2>2. CASE \/ Prepare(e) \/ PrepareCheckpoint(e) \/ PrepareDelta(e)
             \/ PrepareNotify(e)
    BY <2>2, Quiet, ZenonT(60) DEF Prepare, PrepareCheckpoint, PrepareDelta, PrepareNotify
  <2>3. CASE MigrateSend(e) \/ MigrateFinish(e) \/ MigrateCleanup(e)
    BY <2>3, Quiet DEF MigrateSend, MigrateFinish, MigrateCleanup
  <2> QED  BY <1>5, <2>1, <2>2, <2>3, StopHalts DEF SourceStep
<1>6. ASSUME NEW d \in Edges, DestStep(d)
      PROVE  [Placement!Next]_(Placement!vars)
  <2>1. CASE \E e \in Edges : DestPrepare(e, d) \/ DestUnpack(e, d)
    BY <2>1, Quiet, Zenon DEF DestPrepare, DestUnpack
  <2>2. CASE DestAnnounce(d) \/ DestList(d) \/ DestResnap(d) \/ DestResnapDone(d)
    BY <2>2, Quiet DEF DestAnnounce, DestList, DestResnap, DestResnapDone
  <2> QED  BY <1>6, <2>1, <2>2, CreateShows, RestoreArrives, StartArrives, Zenon
           DEF DestStep
<1>7. ASSUME NEW e \in Edges, NEW d \in Edges, NEW i \in DOMAIN net[e][d],
             Lose(e, d, i)
      PROVE  [Placement!Next]_(Placement!vars)
  BY <1>7, Quiet DEF Lose
<1>8. CASE \E s \in Services, e \in Edges : MonitorService(e, s)
  BY <1>8, Quiet DEF MonitorService
<1>9. CASE \E n \in notices : PreMigrated(n)
  BY <1>9, Quiet DEF PreMigrated
<1> QED  BY <1>1, <1>2, <1>3, <1>4, <1>5, <1>6, <1>7, <1>8, <1>9
         DEF Next

(* The migration service, with its threads, queues, datagrams and images,  *)
(* keeps the promise of ServicePlacement: a move of a service is halt,     *)
(* start, tell, in this order, and it may be lost but not be duplicated.   *)
THEOREM Implements == Spec => PlacementSpec
<1>1. Init => Placement!Init
  <2> SUFFICES ASSUME Init PROVE Placement!Init
    OBVIOUS
  <2>1. disturbed = {}
    BY DEF Init
  <2>2. \A s \in Services : RunsOn(s) = {} /\ ToldTo(s) = NoEdge
    BY DEF Init, RunsOn, ToldTo, Running, RunStates
  <2> QED  BY <2>1, <2>2 DEF Placement!Init
<1>2. TypeOK /\ TypeOK' /\ IInv /\ IInv' /\ [Next]_vars
        => [Placement!Next]_(Placement!vars)
  BY PlacementStep
<1> QED  BY <1>1, <1>2, TypeCorrect, Invariance, PTL
         DEF Spec, PlacementSpec, Placement!Spec

-----------------------------------------------------------------------------
(* No service is forgotten.  A step may keep what there is of a service    *)
(* (where it runs, its baton, the threads that have died), and then the    *)
(* service is not forgotten by it; the others are looked at one by one.    *)
RunsStill(s) == \A e \in Edges : Running(e, s) => Running(e, s)'
SentStill(s) ==
  \A e, d \in Edges : HasMove(net[e][d], s) => HasMove(net'[e][d], s)
SourceStill(s) ==
  \A e \in Edges : /\ HaltedAt(e, s) => HaltedAt(e, s)'
                   /\ src[e].stage = "dead" => src'[e].stage = "dead"
DestStill(s) ==
  \A d \in Edges : /\ UnpackingAt(d, s) => UnpackingAt(d, s)'
                   /\ dst[d].stage = "dead" => dst'[d].stage = "dead"

Remembered(s) == (\E e \in Edges : Running(e, s)) \/ Underway(s) \/ ThreadDied

(* Underway in the words of the baton.                                     *)
LEMMA UnderwayBaton ==
  ASSUME NEW s
  PROVE  Underway(s) <=> Halted(s) \/ Sent(s) \/ Unpacking(s)
BY DEF Underway, Halted, HaltedAt, Sent, HasMove, IsMove, Unpacking, UnpackingAt

LEMMA Kept ==
  ASSUME NEW s, RunsStill(s), SentStill(s), SourceStill(s), DestStill(s),
         Remembered(s)
  PROVE  Remembered(s)'
<1>1. CASE \E e \in Edges : Running(e, s)
  BY <1>1 DEF RunsStill, Remembered
<1>2. CASE ThreadDied
  BY <1>2 DEF SourceStill, DestStill, ThreadDied, Remembered
<1>3. CASE Halted(s) \/ Sent(s) \/ Unpacking(s)
  <2>1. Halted(s)' \/ Sent(s)' \/ Unpacking(s)'
    BY <1>3 DEF SourceStill, SentStill, DestStill, Halted, Sent, Unpacking
  <2> QED  BY <2>1 DEF Remembered, Underway, Halted, HaltedAt, Sent, HasMove,
                       IsMove, Unpacking, UnpackingAt
<1> QED  BY <1>1, <1>2, <1>3, UnderwayBaton DEF Remembered

(* Unchanged variables keep their part of it.                              *)
LEMMA StillUnchanged ==
  ASSUME NEW s
  PROVE  /\ container' = container => RunsStill(s)
         /\ net' = net => SentStill(s)
         /\ src' = src => SourceStill(s)
         /\ dst' = dst => DestStill(s)
BY DEF RunsStill, Running, SentStill, SourceStill, HaltedAt, DestStill, UnpackingAt

(* A thread that neither holds the stopped service nor is dead does as it  *)
(* likes.                                                                  *)
LEMMA SourceFree ==
  ASSUME TypeOK, NEW s, NEW e \in Edges, NEW t, src' = [src EXCEPT ![e] = t],
         src[e].stage # "dead", ~HaltedAt(e, s)
  PROVE  SourceStill(s)
<1>1. src \in [Edges -> Tasks(SrcStages)]
  BY DEF TypeOK
<1> QED  BY <1>1 DEF SourceStill, HaltedAt

LEMMA DestFree ==
  ASSUME TypeOK, NEW s, NEW d \in Edges, NEW t, dst' = [dst EXCEPT ![d] = t],
         dst[d].stage # "dead", ~UnpackingAt(d, s)
  PROVE  DestStill(s)
<1>1. dst \in [Edges -> Tasks(DstStages)]
  BY DEF TypeOK
<1> QED  BY <1>1 DEF DestStill, UnpackingAt

(* A thread that dies is remembered itself.                                *)
LEMMA DeathRemembered ==
  ASSUME TypeOK, NEW s, NEW e \in Edges, SrcDies(e) \/ DstDies(e)
  PROVE  Remembered(s)'
<1>1. src \in [Edges -> Tasks(SrcStages)] /\ dst \in [Edges -> Tasks(DstStages)]
  BY DEF TypeOK
<1>2. src'[e].stage = "dead" \/ dst'[e].stage = "dead"
  BY <1>1 DEF SrcDies, DstDies, Dead
<1> QED  BY <1>2 DEF Remembered, ThreadDied

(* A datagram added to the network leaves those that are there, and one    *)
(* that is taken leaves the others.                                        *)
LEMMA SentAppend ==
  ASSUME TypeOK, NEW s, NEW e \in Edges, NEW d \in Edges, NEW m \in Datagrams,
         net' = [net EXCEPT ![e][d] = Append(@, m)]
  PROVE  SentStill(s) /\ (IsMove(m, s) => HasMove(net'[e][d], s))
<1>1. net \in [Edges -> [Edges -> Seq(Datagrams)]] /\ net[e][d] \in Seq(Datagrams)
  BY NetUpdate
<1>2. \A x, y \in Edges : net'[x][y] =
        IF x = e /\ y = d THEN Append(net[e][d], m) ELSE net[x][y]
  BY <1>1
<1> DEFINE q == net[e][d]
<1>3. /\ Len(q) \in Nat /\ DOMAIN q = 1 .. Len(q)
      /\ DOMAIN Append(q, m) = 1 .. Len(q) + 1
      /\ \A i \in 1 .. Len(q) : Append(q, m)[i] = q[i]
      /\ Append(q, m)[Len(q) + 1] = m
  <2>1. q \in Seq(Datagrams)
    BY <1>1
  <2> HIDE DEF q
  <2>2. Append(q, m) \in Seq(Datagrams) /\ Len(Append(q, m)) = Len(q) + 1
        /\ (\A i \in 1 .. Len(q) : Append(q, m)[i] = q[i])
        /\ Append(q, m)[Len(q) + 1] = m
    BY <2>1, AppendProperties
  <2> QED  BY <2>1, <2>2, LenProperties
<1> HIDE DEF q
<1>4. /\ HasMove(q, s) => HasMove(Append(q, m), s)
      /\ IsMove(m, s) => HasMove(Append(q, m), s)
  BY <1>3 DEF HasMove
<1> QED  BY <1>2, <1>4 DEF SentStill, q

LEMMA SentTail ==
  ASSUME TypeOK, NEW s, NEW e \in Edges, NEW d \in Edges, NEW k,
         Receives(e, d, k), ~IsMove(Head(net[e][d]), s)
  PROVE  SentStill(s)
<1>1. /\ net \in [Edges -> [Edges -> Seq(Datagrams)]]
      /\ net[e][d] \in Seq(Datagrams) /\ net[e][d] # <<>>
  BY NetUpdate DEF Receives
<1>2. \A x, y \in Edges : net'[x][y] =
        IF x = e /\ y = d THEN Tail(net[e][d]) ELSE net[x][y]
  BY <1>1 DEF Receives
<1> DEFINE q == net[e][d]
<1>3. /\ Len(q) \in Nat /\ DOMAIN q = 1 .. Len(q) /\ Head(q) = q[1]
      /\ DOMAIN Tail(q) = 1 .. Len(q) - 1
      /\ \A i \in 1 .. Len(q) - 1 : Tail(q)[i] = q[i + 1]
  <2>1. q \in Seq(Datagrams) /\ q # <<>>
    BY <1>1
  <2> HIDE DEF q
  <2>2. Tail(q) \in Seq(Datagrams) /\ Len(Tail(q)) = Len(q) - 1
        /\ (\A i \in 1 .. Len(Tail(q)) : Tail(q)[i] = q[i + 1])
        /\ Head(q) = q[1]
    BY <2>1, HeadTailProperties
  <2> QED  BY <2>1, <2>2, LenProperties
<1>4. ~IsMove(Head(q), s)
  OBVIOUS
<1> HIDE DEF q
<1>5. HasMove(q, s) => HasMove(Tail(q), s)
  <2> SUFFICES ASSUME NEW i \in DOMAIN q, IsMove(q[i], s)
               PROVE  HasMove(Tail(q), s)
    BY DEF HasMove
  <2>1. i # 1 /\ i - 1 \in DOMAIN Tail(q) /\ Tail(q)[i - 1] = q[(i - 1) + 1]
    BY <1>3, <1>4
  <2>2. (i - 1) + 1 = i
    BY <1>3
  <2> QED  BY <2>1, <2>2 DEF HasMove
<1> QED  BY <1>2, <1>5 DEF SentStill, q

(* The centre's orders and notices, and what users do.                     *)
LEMMA RememberedCentre ==
  ASSUME TypeOK, TypeOK', NEW s \in Services, s \notin disturbed', host'[s] # NoEdge,
         host[s] # NoEdge => Remembered(s),
         \/ \E t \in Services, e \in Edges :
              Deploy(t, e) \/ DeployFails(t, e) \/ Order(t, e) \/ MonitorService(e, t)
         \/ \E t \in Services : Leave(t) \/ OrderMigrate(t)
         \/ \E n \in notices : PreMigrated(n) \/ Migrated(n)
  PROVE  Remembered(s)'
<1> USE DEF dockerVars, edgeVars, srcVars, dstVars, centreVars
<1>1. host \in [Services -> Edges \cup {NoEdge}]
  BY CentreUpdate
<1>2. UNCHANGED <<src, net, dst>>
  BY ZenonT(60) DEF Deploy, DeployFails, Order, MonitorService, Leave, OrderMigrate,
         PreMigrated, Migrated
<1>3. ASSUME host[s] # NoEdge, RunsStill(s)
      PROVE  Remembered(s)'
  BY <1>2, <1>3, StillUnchanged, Kept
<1>4. ASSUME NEW t \in Services, NEW e \in Edges, Deploy(t, e)
      PROVE  Remembered(s)'
  <2>1. /\ container' = [container EXCEPT ![e][t] = "deployed"] \/ container' = container
        /\ host' = [host EXCEPT ![t] = e] /\ "deployed" \in RunStates
    BY <1>4 DEF Deploy, RunStates
  <2>2. RunsStill(s)
    BY <2>1, ContainerSet, StillUnchanged DEF RunsStill
  <2>3. CASE t = s
    <3>1. Running(e, s)'
      <4>1. CASE Running(e, s) /\ container' = container
        BY <4>1 DEF Running
      <4>2. CASE container' = [container EXCEPT ![e][t] = "deployed"]
        BY <2>1, <2>3, <4>2, ContainerSet
      <4> QED  BY <1>4, <2>3, <4>1, <4>2 DEF Deploy
    <3> QED  BY <3>1 DEF Remembered
  <2>4. CASE t # s
    BY <1>1, <1>3, <2>1, <2>2, <2>4
  <2> QED  BY <2>3, <2>4
<1>5. ASSUME NEW t \in Services, NEW e \in Edges, DeployFails(t, e)
      PROVE  Remembered(s)'
  <2>1. /\ container' = [container EXCEPT ![e][t] = "none"]
        /\ host' = host /\ host[t] = NoEdge
    BY <1>5 DEF DeployFails
  <2>2. RunsStill(s)
    BY <2>1, ContainerSet DEF RunsKept, RunsStill
  <2> QED  BY <1>3, <2>1, <2>2
<1>6. ASSUME NEW t \in Services, Leave(t)
      PROVE  Remembered(s)'
  <2>1. /\ \/ \E c : container' = [container EXCEPT ![host[t]][t] = c]
           \/ container' = container
        /\ host' = [host EXCEPT ![t] = NoEdge] /\ host[t] \in Edges
    BY <1>1, <1>6 DEF Leave
  <2>2. t # s /\ host[s] # NoEdge
    BY <1>1, <2>1
  <2>3. RunsStill(s)
    <3>1. PICK e \in Edges : e = host[t]
      BY <2>1
    <3> QED  BY <2>1, <2>2, <3>1, ContainerSet, StillUnchanged DEF RunsKept, RunsStill
  <2> QED  BY <1>3, <2>2, <2>3
<1>7. ASSUME NEW t \in Services, NEW e \in Edges, Order(t, e) \/ MonitorService(e, t)
      PROVE  Remembered(s)'
  <2>1. container' = container /\ host' = host
    BY <1>7 DEF Order, MonitorService
  <2> QED  BY <1>3, <2>1, StillUnchanged
<1>8. ASSUME NEW t \in Services, OrderMigrate(t)
      PROVE  Remembered(s)'
  <2>1. container' = container /\ host' = host
    BY <1>8 DEF OrderMigrate
  <2> QED  BY <1>3, <2>1, StillUnchanged
<1>9. ASSUME NEW n \in notices, PreMigrated(n) \/ Migrated(n)
      PROVE  Remembered(s)'
  <2>1. container' = container
    BY <1>9 DEF PreMigrated, Migrated
  <2>2. n.svc \in Services
    BY DEF TypeOK, Notices
  <2>3. host[s] # NoEdge
    BY <1>1, <1>9, <2>2 DEF PreMigrated, Migrated
  <2> QED  BY <1>3, <2>1, <2>3, StillUnchanged
<1> QED  BY <1>4, <1>5, <1>6, <1>7, <1>8, <1>9

(* The source thread: it stops the service and holds it until the datagram *)
(* is sent.                                                                *)
LEMMA RememberedSource ==
  ASSUME TypeOK, TypeOK', NEW s \in Services, s \notin disturbed', Remembered(s),
         NEW e \in Edges, SourceStep(e)
  PROVE  Remembered(s)'
<1> USE DEF dockerVars, edgeVars, srcVars, dstVars, centreVars
<1>1. dst' = dst
  BY Zenon DEF SourceStep, PreMeasure, Measure, MeasureReport, Prepare,
         PrepareCheckpoint, PrepareDelta, PrepareNotify, MigrateStop,
         MigrateSend, MigrateFinish, MigrateCleanup
<1>2. ASSUME RunsStill(s), SentStill(s), SourceStill(s)
      PROVE  Remembered(s)'
  BY <1>1, <1>2, StillUnchanged, Kept
<1>3. CASE \/ PreMeasure(e) \/ Measure(e) \/ MeasureReport(e)
           \/ Prepare(e) \/ PrepareCheckpoint(e) \/ PrepareDelta(e)
           \/ MigrateFinish(e) \/ MigrateCleanup(e)
  <2>1. container' = container /\ net' = net
    BY <1>3, Zenon DEF PreMeasure, Measure, MeasureReport, Prepare, PrepareCheckpoint,
                PrepareDelta, MigrateFinish, MigrateCleanup
  <2>2. /\ src[e].stage \notin {"stopped", "dead"}
        /\ \E t : src' = [src EXCEPT ![e] = t]
    BY <1>3, Zenon DEF PreMeasure, Measure, MeasureReport, Prepare, PrepareCheckpoint,
                PrepareDelta, MigrateFinish, MigrateCleanup, Takes, SrcRests,
                SrcGoes, SrcDies
  <2>3. SourceStill(s)
    BY <2>2, SourceFree DEF HaltedAt
  <2> QED  BY <1>2, <2>1, <2>3, StillUnchanged, Zenon
<1>4. CASE PrepareNotify(e)
  <2>1. /\ container' = container /\ src' = [src EXCEPT ![e] = Idle]
        /\ src[e].stage = "prepared" /\ src[e].stage \in SrcStages
    BY <1>4 DEF PrepareNotify, SrcRests, SrcStages
  <2>2. PICK d \in Edges, t \in Services : d = src[e].dst /\ t = src[e].svc
    BY <2>1, SourceUpdate
  <2>3. net' = [net EXCEPT ![e][d] = Append(@, Datagram("prepare", t, 0))]
    BY <1>4, <2>2 DEF PrepareNotify
  <2>4. SentStill(s)
    BY <2>3, RequestType, DatagramType, SentAppend
  <2>5. SourceStill(s)
    BY <2>1, SourceFree DEF HaltedAt
  <2> QED  BY <1>2, <2>1, <2>4, <2>5, StillUnchanged
<1>5. CASE MigrateStop(e)
  <2>1. /\ net' = net /\ src[e].stage = "idle" /\ queue[e] \in Seq(Commands)
        /\ queue[e] # <<>>
    BY <1>5, SourceUpdate DEF MigrateStop, Takes
  <2>2. PICK t \in Services : t = Head(queue[e]).svc
    <3>1. Head(queue[e]) \in Commands
      BY <2>1, HeadTailProperties
    <3> QED  BY <3>1 DEF Commands
  <2>3. CASE SrcDies(e)
    BY <2>3, DeathRemembered
  <2>4. CASE ~SrcDies(e)
    <3>1. PICK ok \in CheckpointOK(e, t) :
            /\ container' = IF ok THEN [container EXCEPT ![e][t] = Stopped(@)]
                                  ELSE container
            /\ Disturb(t, ~ok)
      BY <1>5, <2>2, <2>4 DEF MigrateStop
    <3>2. SrcGoes(e, "stopped", Head(queue[e]))
      BY <1>5, <2>4 DEF MigrateStop
    <3>3. SourceStill(s)
      BY <2>1, <3>2, SourceFree DEF SrcGoes, HaltedAt
    <3>4. CASE t = s
      <4>1. src \in [Edges -> Tasks(SrcStages)]
        BY DEF TypeOK
      <4>2. HaltedAt(e, s)'
        BY <2>2, <3>2, <3>4, <4>1 DEF SrcGoes, HaltedAt
      <4> QED  BY <4>2 DEF Remembered, Underway, HaltedAt
    <3>5. CASE t # s
      <4>1. RunsStill(s)
        BY <3>1, <3>5, ContainerSet, StillUnchanged, ZenonT(60) DEF RunsKept, RunsStill
      <4> QED  BY <1>2, <2>1, <3>3, <4>1, StillUnchanged
    <3> QED  BY <3>4, <3>5
  <2> QED  BY <2>3, <2>4
<1>6. CASE MigrateSend(e)
  <2>1. /\ container' = container /\ src[e].stage = "stopped"
        /\ src[e].stage \in SrcStages
    BY <1>6 DEF MigrateSend, SrcStages
  <2>2. PICK d \in Edges, t \in Services, r \in 0 .. RequestCap :
          d = src[e].dst /\ t = src[e].svc /\ r = src[e].req
    BY <2>1, SourceUpdate
  <2>3. CASE SrcDies(e)
    BY <2>3, DeathRemembered
  <2>4. CASE ~SrcDies(e)
    <3>1. /\ net' = [net EXCEPT ![e][d] = Append(@, Datagram("migrate", t, r))]
          /\ src' = [src EXCEPT ![e].stage = "sent"]
      BY <1>6, <2>2, <2>4 DEF MigrateSend
    <3>2. Datagram("migrate", t, r) \in Datagrams
      BY DatagramType
    <3>3. SentStill(s)
      BY <3>1, <3>2, SentAppend
    <3>4. CASE t = s
      <4>1. IsMove(Datagram("migrate", t, r), s)
        BY <3>4 DEF IsMove, Datagram
      <4>2. Sent(s)'
        BY <3>1, <3>2, <4>1, SentAppend DEF Sent
      <4> QED  BY <4>2 DEF Remembered, Underway, Sent, HasMove, IsMove
    <3>5. CASE t # s
      <4>1. SourceStill(s)
        BY <2>1, <2>2, <3>1, <3>5, SourceFree DEF HaltedAt
      <4> QED  BY <1>2, <2>1, <3>3, <4>1, StillUnchanged
    <3> QED  BY <3>4, <3>5, SMTT(30)
  <2> QED  BY <2>3, <2>4
<1> QED  BY <1>3, <1>4, <1>5, <1>6, Zenon DEF SourceStep

(* The destination thread: it holds the service from the datagram to the   *)
(* start of its container.                                                 *)
LEMMA RememberedDest ==
  ASSUME TypeOK, TypeOK', NEW s \in Services, s \notin disturbed', Remembered(s),
         NEW d \in Edges, DestStep(d)
  PROVE  Remembered(s)'
<1> USE DEF dockerVars, edgeVars, srcVars, dstVars, centreVars
<1>1. src' = src
  BY Zenon DEF DestStep, DestPrepare, DestUnpack, DestCreate, DestRestore, DestStart,
         DestAnnounce, DestList, DestResnap, DestResnapDone
<1>2. ASSUME RunsStill(s), SentStill(s), DestStill(s)
      PROVE  Remembered(s)'
  BY <1>1, <1>2, StillUnchanged, Kept
<1>3. dst \in [Edges -> Tasks(DstStages)] /\ dst[d] \in Tasks(DstStages)
  BY DestUpdate
<1>4. ASSUME NEW e \in Edges, DestPrepare(e, d)
      PROVE  Remembered(s)'
  <2>1. /\ container' = container /\ Receives(e, d, "prepare")
        /\ ~IsMove(Head(net[e][d]), s) /\ dst[d].stage = "idle"
    BY <1>4, Zenon DEF DestPrepare, Receives, IsMove
  <2>2. SentStill(s)
    BY <2>1, SentTail, Zenon
  <2>3. DestStill(s)
    BY <1>4, <2>1, DestFree, Zenon DEF DestPrepare, DstDies, DstGoes, UnpackingAt
  <2> QED  BY <1>2, <2>1, <2>2, <2>3, StillUnchanged, Zenon
<1>5. ASSUME NEW e \in Edges, DestUnpack(e, d)
      PROVE  Remembered(s)'
  <2>1. /\ container' = container /\ Receives(e, d, "migrate")
        /\ dst[d].stage = "idle"
    BY <1>5, Zenon DEF DestUnpack, Receives
  <2>2. CASE DstDies(d)
    BY <2>2, DeathRemembered
  <2>3. CASE DstGoes(d, "unpacked", Head(net[e][d]))
    <3>1. DestStill(s)
      BY <2>1, <2>3, DestFree DEF DstGoes, UnpackingAt
    <3>2. CASE Head(net[e][d]).svc = s
      <4>1. UnpackingAt(d, s)'
        BY <1>3, <2>3, <3>2 DEF DstGoes, UnpackingAt
      <4> QED  BY <4>1 DEF Remembered, Underway, UnpackingAt
    <3>3. CASE Head(net[e][d]).svc # s
      <4>1. SentStill(s)
        BY <2>1, <3>3, SentTail DEF IsMove
      <4> QED  BY <1>2, <2>1, <3>1, <4>1, StillUnchanged
    <3> QED  BY <3>2, <3>3
  <2> QED  BY <1>5, <2>2, <2>3, Zenon DEF DestUnpack
<1>6. CASE DestCreate(d)
  <2>1. /\ net' = net /\ dst[d].stage = "pulled" /\ dst[d].stage \in DstStages
        /\ dst' = [dst EXCEPT ![d] = Idle]
    BY <1>6 DEF DestCreate, DstRests, DstStages
  <2>2. PICK t \in Services : t = dst[d].svc
    BY <2>1, DestUpdate
  <2>3. /\ container' = [container EXCEPT ![d][t] = "created"]
        /\ Disturb(t, Running(d, t))
    BY <1>6, <2>2 DEF DestCreate
  <2>4. t = s => ~Running(d, s)
    BY <2>3 DEF Disturb
  <2>5. RunsStill(s)
    BY <2>3, <2>4, ContainerSet DEF RunsStill
  <2>6. DestStill(s)
    BY <2>1, DestFree DEF UnpackingAt
  <2> QED  BY <1>2, <2>1, <2>5, <2>6, StillUnchanged
<1>7. CASE DestRestore(d)
  <2>1. /\ net' = net /\ dst[d].stage = "unpacked" /\ dst[d].stage \in DstStages
    BY <1>7 DEF DestRestore, DstStages
  <2>2. PICK t \in Services : t = dst[d].svc
    BY <2>1, DestUpdate
  <2>3. PICK ok \in BOOLEAN :
          /\ container' = IF ok THEN [container EXCEPT ![d][t] = "restored"]
                                ELSE container
          /\ dst' = [dst EXCEPT ![d].stage = IF ok THEN "restored" ELSE "failed"]
    BY <1>7, <2>2 DEF DestRestore, RestoreOK
  <2>4. "restored" \in RunStates
    BY DEF RunStates
  <2>5. CASE ok /\ t = s
    <3>1. Running(d, s)'
      BY <2>3, <2>4, <2>5, ContainerSet
    <3> QED  BY <3>1 DEF Remembered
  <2>6. CASE ~ok /\ t = s
    <3>1. UnpackingAt(d, s)'
      BY <1>3, <2>1, <2>2, <2>3, <2>6 DEF UnpackingAt, Tasks, Idle, Dead
    <3> QED  BY <3>1 DEF Remembered, Underway, UnpackingAt
  <2>7. CASE t # s
    <3>1. RunsStill(s)
      BY <2>3, <2>4, ContainerSet, StillUnchanged DEF RunsStill
    <3>2. DestStill(s)
      BY <2>1, <2>2, <2>3, <2>7, DestFree DEF UnpackingAt
    <3> QED  BY <1>2, <2>1, <3>1, <3>2, StillUnchanged
  <2> QED  BY <2>5, <2>6, <2>7
<1>8. CASE DestStart(d)
  <2>1. /\ net' = net /\ dst[d].stage \in {"restored", "failed"}
        /\ dst[d].stage \in DstStages
    BY <1>8 DEF DestStart, DstStages
  <2>2. PICK t \in Services : t = dst[d].svc
    BY <2>1, DestUpdate
  <2>3. CASE DstDies(d)
    BY <2>3, DeathRemembered
  <2>4. CASE ~DstDies(d)
    <3>1. PICK c : /\ container' = [container EXCEPT ![d][t] = c]
                   /\ Disturb(t, c \notin {"restored", "reset"})
      BY <1>8, <2>2, <2>4 DEF DestStart
    <3>2. dst' = [dst EXCEPT ![d].stage = "started"]
      BY <1>8, <2>4 DEF DestStart
    <3>3. CASE t = s
      <4>1. c \in RunStates
        BY <3>1, <3>3 DEF Disturb, RunStates
      <4>2. Running(d, s)'
        BY <3>1, <3>3, <4>1, ContainerSet
      <4> QED  BY <4>2 DEF Remembered
    <3>4. CASE t # s
      <4>1. RunsStill(s)
        BY <3>1, <3>4, ContainerSet DEF RunsKept, RunsStill
      <4>2. DestStill(s)
        BY <2>1, <2>2, <3>2, <3>4, DestFree DEF UnpackingAt
      <4> QED  BY <1>2, <2>1, <4>1, <4>2, StillUnchanged
    <3> QED  BY <3>3, <3>4
  <2> QED  BY <2>3, <2>4
<1>9. CASE DestAnnounce(d) \/ DestList(d) \/ DestResnap(d) \/ DestResnapDone(d)
  <2>1. /\ container' = container /\ net' = net
        /\ dst[d].stage \notin {"unpacked", "failed", "dead"}
        /\ \E t : dst' = [dst EXCEPT ![d] = t]
    BY <1>9 DEF DestAnnounce, DestList, DestResnap, DestResnapDone, DstRests
  <2>2. DestStill(s)
    BY <2>1, DestFree DEF UnpackingAt
  <2> QED  BY <1>2, <2>1, <2>2, StillUnchanged
<1> QED  BY <1>4, <1>5, <1>6, <1>7, <1>8, <1>9 DEF DestStep

(* If no datagram gets lost, a service that was not cut into runs, or it   *)
(* is on its way, or a thread that may have had it has died: no crossing   *)
(* of orders, departures and migrations of other services loses it.        *)
THEOREM NoneForgotten ==
  ASSUME "loss" \notin Faults
  PROVE  Spec => []NeverForgotten
<1>1. NeverForgotten <=> \A s \in Services \ disturbed :
        host[s] # NoEdge => Remembered(s)
  BY DEF NeverForgotten, Remembered
<1>2. Init => NeverForgotten
  BY DEF Init, NeverForgotten
<1>3. TypeOK /\ TypeOK' /\ NeverForgotten /\ [Next]_vars => NeverForgotten'
  <2> SUFFICES ASSUME TypeOK, TypeOK', NeverForgotten, [Next]_vars,
                      NEW s \in Services, s \notin disturbed', host'[s] # NoEdge
               PROVE  Remembered(s)'
    BY DEF NeverForgotten, Remembered
  <2>1. host[s] # NoEdge => Remembered(s)
    BY <1>1, DisturbedGrows
  <2>2. ASSUME host' = host, Remembered(s) => Remembered(s)'
        PROVE  Remembered(s)'
    BY <2>1, <2>2
  <2>3. CASE UNCHANGED vars
    <3>1. UNCHANGED <<container, src, net, dst, host>>
      BY <2>3 DEF vars, dockerVars, srcVars, dstVars, centreVars
    <3> QED  BY <2>2, <3>1, StillUnchanged, Kept
  <2>4. ASSUME NEW e \in Edges, SourceStep(e)
        PROVE  Remembered(s)'
    <3>1. host' = host
      BY <2>4, Zenon DEF SourceStep, PreMeasure, Measure, MeasureReport, Prepare,
         PrepareCheckpoint, PrepareDelta, PrepareNotify, MigrateStop,
         MigrateSend, MigrateFinish, MigrateCleanup, centreVars
    <3> QED  BY <2>2, <2>4, <3>1, RememberedSource, Zenon
  <2>5. ASSUME NEW d \in Edges, DestStep(d)
        PROVE  Remembered(s)'
    <3>1. host' = host
      BY <2>5, Zenon DEF DestStep, DestPrepare, DestUnpack, DestCreate, DestRestore,
         DestStart, DestAnnounce, DestList, DestResnap, DestResnapDone, centreVars
    <3> QED  BY <2>2, <2>5, <3>1, RememberedDest
  <2>6. \A e, d \in Edges : \A i : ~Lose(e, d, i)
    BY DEF Lose
  <2> QED  BY <2>1, <2>3, <2>4, <2>5, <2>6, RememberedCentre DEF Next
<1> QED  BY <1>2, <1>3, TypeCorrect, PTL DEF Spec

-----------------------------------------------------------------------------
(* The threshold planners: the preparation of a migration comes right in   *)
(* front of it, but for measurements, and so the socket is open when the   *)
(* migration is taken.                                                     *)

(* Taking the head of a queue moves its other commands one place ahead.    *)
LEMMA LeadTail ==
  ASSUME NEW q \in Seq(Commands), q # <<>>
  PROVE  /\ Len(q) \in Nat /\ DOMAIN q = 1 .. Len(q) /\ Head(q) = q[1]
         /\ 1 \in DOMAIN q /\ Len(Tail(q)) = Len(q) - 1
         /\ DOMAIN Tail(q) = 1 .. Len(q) - 1
         /\ \A i \in 1 .. Len(q) - 1 : Tail(q)[i] = q[i + 1]
         /\ \A j, i \in Nat : NoLead(Tail(q), j, i) <=> NoLead(q, j + 1, i + 1)
<1>1. /\ Len(q) \in Nat /\ DOMAIN q = 1 .. Len(q) /\ Head(q) = q[1]
      /\ 1 \in DOMAIN q /\ Len(Tail(q)) = Len(q) - 1
      /\ DOMAIN Tail(q) = 1 .. Len(q) - 1
      /\ \A i \in 1 .. Len(q) - 1 : Tail(q)[i] = q[i + 1]
  <2>1. Tail(q) \in Seq(Commands) /\ Len(Tail(q)) = Len(q) - 1
        /\ (\A i \in 1 .. Len(Tail(q)) : Tail(q)[i] = q[i + 1])
        /\ Head(q) = q[1]
    BY HeadTailProperties
  <2>2. Len(q) # 0
    BY EmptySeq
  <2> QED  BY <2>1, <2>2, LenProperties
<1>2. ASSUME NEW j \in Nat, NEW i \in Nat
      PROVE  NoLead(Tail(q), j, i) <=> NoLead(q, j + 1, i + 1)
  <2>1. ASSUME NoLead(Tail(q), j, i) PROVE NoLead(q, j + 1, i + 1)
    <3> SUFFICES ASSUME NEW k \in DOMAIN q, j + 1 < k, k < i + 1
                 PROVE  ~Lead(q[k])
      BY DEF NoLead
    <3>1. k - 1 \in DOMAIN Tail(q) /\ j < k - 1 /\ k - 1 < i /\ (k - 1) + 1 = k
      BY <1>1
    <3>2. Tail(q)[k - 1] = q[k]
      BY <1>1, <3>1
    <3> QED  BY <2>1, <3>1, <3>2 DEF NoLead
  <2>2. ASSUME NoLead(q, j + 1, i + 1) PROVE NoLead(Tail(q), j, i)
    <3> SUFFICES ASSUME NEW k \in DOMAIN Tail(q), j < k, k < i
                 PROVE  ~Lead(Tail(q)[k])
      BY DEF NoLead
    <3>1. k + 1 \in DOMAIN q /\ j + 1 < k + 1 /\ k + 1 < i + 1
      BY <1>1
    <3>2. Tail(q)[k] = q[k + 1]
      BY <1>1
    <3> QED  BY <2>2, <3>1, <3>2 DEF NoLead
  <2> QED  BY <2>1, <2>2
<1> QED  BY <1>1, <1>2

(* Commands that are added at the end leave the places before it alone.    *)
LEMMA LeadConcat ==
  ASSUME NEW q \in Seq(Commands), NEW t \in Seq(Commands)
  PROVE  /\ Len(q) \in Nat /\ DOMAIN q = 1 .. Len(q)
         /\ Len(t) \in Nat /\ DOMAIN t = 1 .. Len(t)
         /\ Len(q \o t) = Len(q) + Len(t) /\ DOMAIN (q \o t) = 1 .. Len(q) + Len(t)
         /\ \A i \in 1 .. Len(q) : (q \o t)[i] = q[i]
         /\ \A i \in 1 .. Len(t) : (q \o t)[Len(q) + i] = t[i]
         /\ \A j, i \in Nat : i <= Len(q) + 1 =>
              (NoLead(q \o t, j, i) <=> NoLead(q, j, i))
         /\ (\A k \in 1 .. Len(t) : ~Lead(t[k])) =>
              \A j \in Nat : NoLead(q \o t, j, Len(q) + Len(t) + 1)
                               <=> NoLead(q, j, Len(q) + 1)
<1>1. /\ Len(q) \in Nat /\ DOMAIN q = 1 .. Len(q)
      /\ Len(t) \in Nat /\ DOMAIN t = 1 .. Len(t)
      /\ Len(q \o t) = Len(q) + Len(t) /\ DOMAIN (q \o t) = 1 .. Len(q) + Len(t)
      /\ \A i \in 1 .. Len(q) + Len(t) :
           (q \o t)[i] = IF i <= Len(q) THEN q[i] ELSE t[i - Len(q)]
  <2>1. q \o t \in Seq(Commands) /\ Len(q \o t) = Len(q) + Len(t)
        /\ \A i \in 1 .. Len(q) + Len(t) :
             (q \o t)[i] = IF i <= Len(q) THEN q[i] ELSE t[i - Len(q)]
    BY ConcatProperties
  <2> QED  BY <2>1, LenProperties
<1>2. \A i \in 1 .. Len(q) : (q \o t)[i] = q[i]
  BY <1>1
<1>3. ASSUME NEW i \in 1 .. Len(t)
      PROVE  (q \o t)[Len(q) + i] = t[i]
  <2>1. /\ Len(q) + i \in 1 .. Len(q) + Len(t) /\ ~(Len(q) + i <= Len(q))
        /\ (Len(q) + i) - Len(q) = i
    BY <1>1
  <2> QED  BY <1>1, <2>1
<1>4. ASSUME NEW j \in Nat, NEW i \in Nat, i <= Len(q) + 1
      PROVE  NoLead(q \o t, j, i) <=> NoLead(q, j, i)
  <2>1. \A k \in 1 .. Len(q) + Len(t) : k < i => k \in 1 .. Len(q)
    BY <1>1, <1>4
  <2>2. \A k \in 1 .. Len(q) : k \in 1 .. Len(q) + Len(t)
    BY <1>1
  <2> QED  BY <1>1, <1>2, <2>1, <2>2 DEF NoLead
<1>5. ASSUME \A k \in 1 .. Len(t) : ~Lead(t[k]), NEW j \in Nat
      PROVE  NoLead(q \o t, j, Len(q) + Len(t) + 1) <=> NoLead(q, j, Len(q) + 1)
  <2>1. ASSUME NEW k \in 1 .. Len(q) + Len(t), k \notin 1 .. Len(q)
        PROVE  ~Lead((q \o t)[k])
    <3>1. k - Len(q) \in 1 .. Len(t) /\ Len(q) + (k - Len(q)) = k
      BY <1>1, <2>1
    <3>2. (q \o t)[k] = t[k - Len(q)]
      BY <1>3, <3>1
    <3> QED  BY <1>5, <3>1, <3>2
  <2>2. \A k \in 1 .. Len(q) : k \in 1 .. Len(q) + Len(t) /\ k < Len(q) + 1
                               /\ k < Len(q) + Len(t) + 1
    BY <1>1
  <2> QED  BY <1>1, <1>2, <2>1, <2>2 DEF NoLead
<1> QED  BY <1>1, <1>2, <1>3, <1>4, <1>5

(* What backs a migration at place j backs it at place i after a step that *)
(* leaves the source thread alone; or a preparation has just been put      *)
(* before it.                                                              *)
Carried(e, s, d, j, i) ==
  /\ NoLead(queue'[e], 0, i) => NoLead(queue[e], 0, j)
  /\ Backed(e, s, d, j) => Backed(e, s, d, i)'

Follows(e, s, d, i) ==
  \/ \E j \in Nat \ {0} : Due(e, s, d, j) /\ Carried(e, s, d, j, i)
  \/ Backed(e, s, d, i)' /\ ~NoLead(queue'[e], 0, i)

(* A queue that stays as it is, or grows, carries what it had.             *)
LEMMA CarriedSame ==
  ASSUME NEW e, NEW s, NEW d, NEW i,
         queue'[e] = queue[e], src' = src, sock' = sock
  PROVE  Carried(e, s, d, i, i)
BY DEF Carried, Backed, PreparingFor, Resting

LEMMA CarriedOn ==
  ASSUME TypeOK, NEW e \in Edges, NEW s, NEW d, NEW t \in Seq(Commands),
         queue'[e] = queue[e] \o t, src' = src, sock' = sock,
         NEW i \in Nat, i <= Len(queue[e]) + 1
  PROVE  Carried(e, s, d, i, i)
<1> DEFINE q == queue[e]
<1>1. q \in Seq(Commands)
  BY SourceUpdate
<1> HIDE DEF q
<1>2. /\ Len(q) \in Nat /\ DOMAIN q = 1 .. Len(q) /\ Len(t) \in Nat
      /\ DOMAIN (q \o t) = 1 .. Len(q) + Len(t)
      /\ \A j \in 1 .. Len(q) : (q \o t)[j] = q[j]
      /\ \A j \in Nat : NoLead(q \o t, j, i) <=> NoLead(q, j, i)
  <2>1. i <= Len(q) + 1
    BY DEF q
  <2> QED  BY <1>1, <2>1, LeadConcat
<1>3. queue'[e] = q \o t /\ queue[e] = q
  BY DEF q
<1>4. ASSUME NEW j \in DOMAIN q, PreparesFor(q[j], s, d), NoLead(q, j, i), j < i
      PROVE  Backed(e, s, d, i)'
  <2>1. /\ j \in DOMAIN (q \o t) /\ j \in Nat /\ (q \o t)[j] = q[j]
    BY <1>2
  <2> QED  BY <1>2, <1>3, <1>4, <2>1 DEF Backed
<1>5. ASSUME NoLead(q, 0, i), src[e].stage = "dead" \/ PreparingFor(e, s, d)
                                \/ (Resting(e) /\ sock[e] = "open")
      PROVE  Backed(e, s, d, i)'
  <2>1. NoLead(q \o t, 0, i)
    BY <1>2, <1>5
  <2>2. PreparingFor(e, s, d)' <=> PreparingFor(e, s, d)
    BY DEF PreparingFor
  <2>3. Resting(e)' <=> Resting(e)
    BY DEF Resting
  <2> QED  BY <1>3, <1>5, <2>1, <2>2, <2>3 DEF Backed
<1>6. Backed(e, s, d, i) => Backed(e, s, d, i)'
  BY <1>3, <1>4, <1>5 DEF Backed
<1> QED  BY <1>2, <1>3, <1>6 DEF Carried

(* Measurements that are added come between a preparation and the          *)
(* migration that is still to come.                                        *)
LEMMA CarriedBehind ==
  ASSUME TypeOK, NEW e \in Edges, NEW s, NEW d, NEW t \in Seq(Commands),
         queue'[e] = queue[e] \o t, src' = src, sock' = sock,
         \A k \in 1 .. Len(t) : ~Lead(t[k]),
         NEW i1 \in Nat, i1 = Len(queue'[e]) + 1
  PROVE  Carried(e, s, d, Len(queue[e]) + 1, i1)
<1> DEFINE q == queue[e]
           j1 == Len(q) + 1
<1>1. q \in Seq(Commands)
  BY SourceUpdate
<1> HIDE DEF q
<1>2. /\ Len(q) \in Nat /\ DOMAIN q = 1 .. Len(q) /\ Len(t) \in Nat
      /\ DOMAIN (q \o t) = 1 .. Len(q) + Len(t) /\ Len(q \o t) = Len(q) + Len(t)
      /\ \A j \in 1 .. Len(q) : (q \o t)[j] = q[j]
      /\ i1 = Len(q) + Len(t) + 1
      /\ \A j \in Nat : NoLead(q \o t, j, i1) <=> NoLead(q, j, j1)
  <2>1. queue'[e] = q \o t
    BY DEF q
  <2>2. i1 = Len(q) + Len(t) + 1
    BY <1>1, <2>1, LeadConcat
  <2>3. \A j \in Nat : NoLead(q \o t, j, Len(q) + Len(t) + 1)
                         <=> NoLead(q, j, Len(q) + 1)
    BY <1>1, LeadConcat
  <2>4. \A j \in Nat : NoLead(q \o t, j, i1) <=> NoLead(q, j, j1)
    BY <2>2, <2>3, Zenon
  <2>5. /\ Len(q) \in Nat /\ DOMAIN q = 1 .. Len(q) /\ Len(t) \in Nat
        /\ DOMAIN (q \o t) = 1 .. Len(q) + Len(t) /\ Len(q \o t) = Len(q) + Len(t)
        /\ \A j \in 1 .. Len(q) : (q \o t)[j] = q[j]
    BY <1>1, LeadConcat
  <2> QED  BY <2>2, <2>4, <2>5, Zenon
<1>3. queue'[e] = q \o t /\ queue[e] = q
  BY DEF q
<1>4. ASSUME NEW j \in DOMAIN q, PreparesFor(q[j], s, d), NoLead(q, j, j1)
      PROVE  Backed(e, s, d, i1)'
  <2>1. /\ j \in DOMAIN (q \o t) /\ j \in Nat /\ (q \o t)[j] = q[j] /\ j < i1
    BY <1>2
  <2>2. NoLead(q \o t, j, i1)
    BY <1>2, <1>4, <2>1
  <2> QED  BY <1>3, <1>4, <2>1, <2>2 DEF Backed
<1>5. ASSUME NoLead(q, 0, j1), src[e].stage = "dead" \/ PreparingFor(e, s, d)
                                \/ (Resting(e) /\ sock[e] = "open")
      PROVE  Backed(e, s, d, i1)'
  <2>1. NoLead(q \o t, 0, i1)
    BY <1>2, <1>5
  <2>2. PreparingFor(e, s, d)' <=> PreparingFor(e, s, d)
    BY DEF PreparingFor
  <2>3. Resting(e)' <=> Resting(e)
    BY DEF Resting
  <2> QED  BY <1>3, <1>5, <2>1, <2>2, <2>3 DEF Backed
<1>6. Backed(e, s, d, j1) => Backed(e, s, d, i1)'
  <2> HIDE DEF j1
  <2> QED  BY <1>3, <1>4, <1>5 DEF Backed
<1>7. NoLead(q \o t, 0, i1) => NoLead(q, 0, j1)
  BY <1>2
<1> QED  BY <1>2, <1>3, <1>6, <1>7 DEF Carried

(* The plans of the threshold planners, and what of them a step can leave  *)
(* as it is: a service whose migration is on its way stays where it is.    *)
AllFollow ==
  \A s \in Services \ disturbed', e, d \in Edges, i \in Nat \ {0} :
    Due(e, s, d, i)' => Follows(e, s, d, i)

PlanStays(s) == plan'[s] = plan[s] /\ host'[s] = host[s]
PlanEnds(s) ==
  \/ plan'[s].phase = "idle"
  \/ plan'[s].phase = "migrate" /\ host'[s] # NoEdge

LEMMA PlansEnd ==
  ASSUME EagerPlans, \A s \in Services : PlanStays(s) \/ PlanEnds(s)
  PROVE  EagerPlans'
BY DEF EagerPlans, OnItsWay, PlanStays, PlanEnds

LEMMA FollowsQuiet ==
  ASSUME UNCHANGED <<queue, src, sock>>,
         \A s \in Services : PlanStays(s) \/ PlanEnds(s)
  PROVE  AllFollow
<1> SUFFICES ASSUME NEW s \in Services \ disturbed', NEW e \in Edges, NEW d \in Edges,
                    NEW i \in Nat \ {0}, Due(e, s, d, i)'
             PROVE  Follows(e, s, d, i)
  BY DEF AllFollow
<1>1. Due(e, s, d, i)
  BY DEF Due, PlanStays, PlanEnds
<1>2. Carried(e, s, d, i, i)
  BY CarriedSame
<1> QED  BY <1>1, <1>2 DEF Follows

(* The places of a queue that has grown by t.                              *)
LEMMA PlacesOn ==
  ASSUME TypeOK, NEW e \in Edges, NEW t \in Seq(Commands),
         queue'[e] = queue[e] \o t
  PROVE  /\ Len(queue[e]) \in Nat /\ Len(t) \in Nat
         /\ Len(queue'[e]) = Len(queue[e]) + Len(t)
         /\ DOMAIN queue[e] = 1 .. Len(queue[e])
         /\ DOMAIN queue'[e] = 1 .. Len(queue[e]) + Len(t)
         /\ \A i \in DOMAIN queue[e] : queue'[e][i] = queue[e][i]
         /\ \A i \in 1 .. Len(t) : queue'[e][Len(queue[e]) + i] = t[i]
BY SourceUpdate, LeadConcat

(* The preparation of t is ordered: its migration is the next command of   *)
(* the server it is on.                                                    *)
LEMMA OrderFollows ==
  ASSUME ~Optimized, TypeOK, EagerPlans, NEW t \in Services, NEW y \in Edges,
         Order(t, y)
  PROVE  EagerPlans' /\ AllFollow
<1> USE DEF dockerVars, edgeVars, srcVars, dstVars, centreVars
<1> DEFINE x == host[t]
           p == PrepareCmd(x, t, y)
<1>1. /\ x \in Edges /\ plan[t].phase = "idle" /\ InTurn(x)
      /\ UNCHANGED <<src, sock, host>>
      /\ plan' = [plan EXCEPT ![t] = [phase |-> "prepared", dst |-> y]]
      /\ Enqueue(x, t, <<p>>)
  BY CentreUpdate DEF Order
<1>2. plan \in [Services -> Plans] /\ queue \in [Edges -> Seq(Commands)]
  BY DEF TypeOK
<1>3. /\ plan'[t] = [phase |-> "prepared", dst |-> y]
      /\ \A s \in Services \ {t} : plan'[s] = plan[s]
  BY <1>1, <1>2
<1>4. EagerPlans'
  BY <1>1, <1>3, MigrateAssumption DEF EagerPlans, OnItsWay, InTurn
<1>5. p \in Commands /\ Lead(p) /\ ~(p.cmd = "migrate") /\ PreparesFor(p, t, y)
  <2>1. p \in Commands
    BY <1>1, OrderCommandType
  <2>2. p.cmd = "prepare" /\ p.svc = t /\ p.dst = y
    BY DEF PrepareCmd, Command
  <2> QED  BY <2>1, <2>2 DEF Lead, PreparesFor
<1> HIDE DEF p
<1>6. <<p>> \in Seq(Commands) /\ Len(<<p>>) = 1 /\ <<p>>[1] = p
  BY <1>5
<1>7. /\ \A e \in Edges \ {x} : queue'[e] = queue[e]
      /\ queue'[x] = queue[x] \o <<p>> \/ (queue'[x] = queue[x] /\ t \in disturbed')
  BY <1>1, <1>2 DEF Enqueue, Disturb
<1> SUFFICES ASSUME NEW s \in Services \ disturbed', NEW e \in Edges, NEW d \in Edges,
                    NEW i \in Nat \ {0}, Due(e, s, d, i)'
             PROVE  Follows(e, s, d, i)
  BY <1>4 DEF AllFollow
<1>8. CASE queue'[e] = queue[e] /\ (e # x \/ s # t)
  <2>1. Due(e, s, d, i)
    BY <1>1, <1>3, <1>8 DEF Due
  <2>2. Carried(e, s, d, i, i)
    BY <1>1, <1>8, CarriedSame
  <2> QED  BY <2>1, <2>2 DEF Follows
<1>9. CASE e = x /\ queue'[x] = queue[x] \o <<p>>
  <2> HIDE DEF x
  <2> DEFINE n == Len(queue[e])
  <2>1. /\ n \in Nat /\ Len(queue'[e]) = n + 1 /\ DOMAIN queue[e] = 1 .. n
        /\ DOMAIN queue'[e] = 1 .. n + 1 /\ queue'[e][n + 1] = p
        /\ \A k \in DOMAIN queue[e] : queue'[e][k] = queue[e][k]
    BY <1>6, <1>9, PlacesOn
  <2>2. CASE i \in DOMAIN queue'[e] /\ IsMove(queue'[e][i], s) /\ queue'[e][i].dst = d
    <3>1. i \in 1 .. n
      BY <1>5, <2>1, <2>2 DEF IsMove
    <3>2. Due(e, s, d, i) /\ i <= n + 1
      BY <2>1, <2>2, <3>1 DEF Due
    <3>3. Carried(e, s, d, i, i)
      BY <1>1, <1>6, <1>9, <3>2, CarriedOn
    <3> QED  BY <3>2, <3>3 DEF Follows
  <2>3. CASE /\ i = Len(queue'[e]) + 1
             /\ plan'[s].phase = "prepared" /\ plan'[s].dst = d /\ host'[s] = e
    <3>1. s = t /\ d = y
      BY <1>1, <1>3, <1>9, <2>3 DEF InTurn, OnItsWay, x
    <3>2. /\ n + 1 \in DOMAIN queue'[e] /\ n + 1 < i /\ 0 < n + 1
          /\ \A k \in DOMAIN queue'[e] : ~(n + 1 < k /\ k < i)
      BY <2>1, <2>3
    <3>3. NoLead(queue'[e], n + 1, i) /\ ~NoLead(queue'[e], 0, i)
      BY <1>5, <2>1, <3>2 DEF NoLead
    <3>4. Backed(e, s, d, i)'
      BY <1>5, <2>1, <3>1, <3>2, <3>3 DEF Backed
    <3> QED  BY <3>3, <3>4 DEF Follows
  <2> QED  BY <2>2, <2>3 DEF Due
<1> QED  BY <1>7, <1>8, <1>9

(* The migration itself takes the place that was kept for it.              *)
LEMMA OrderMigrateFollows ==
  ASSUME ~Optimized, TypeOK, EagerPlans, NEW t \in Services, OrderMigrate(t)
  PROVE  EagerPlans' /\ AllFollow
<1> USE DEF dockerVars, edgeVars, srcVars, dstVars, centreVars
<1> DEFINE x == host[t]
           y == plan[t].dst
           m == MigrateCmd(x, t, y)
<1>1. /\ plan[t].phase = "prepared" /\ UNCHANGED <<src, sock, host>>
      /\ plan' = [plan EXCEPT ![t].phase = "migrate"]
      /\ Enqueue(x, t, <<m>>)
  BY DEF OrderMigrate
<1>2. plan \in [Services -> Plans] /\ queue \in [Edges -> Seq(Commands)]
      /\ plan[t] \in Plans
  BY DEF TypeOK
<1>3. x \in Edges /\ y \in Edges
  <2>1. OnItsWay(t) /\ y \in Edges
    BY <1>1, <1>2 DEF OnItsWay, Plans, NoPlan
  <2> QED  BY <1>1, <2>1, CentreUpdate DEF EagerPlans
<1>4. /\ plan'[t].phase = "migrate"
      /\ \A s \in Services \ {t} : plan'[s] = plan[s]
  BY <1>1, <1>2 DEF Plans, NoPlan
<1>5. x # NoEdge
  BY <1>3, MigrateAssumption
<1>6. EagerPlans'
  BY <1>1, <1>4, <1>5, PlansEnd DEF PlanStays, PlanEnds
<1>7. m \in Commands /\ m.cmd = "migrate" /\ m.svc = t /\ m.dst = y
  BY <1>3, OrderCommandType DEF MigrateCmd, Command
<1> HIDE DEF m
<1>8. <<m>> \in Seq(Commands) /\ Len(<<m>>) = 1 /\ <<m>>[1] = m
  BY <1>7
<1>9. /\ \A e \in Edges \ {x} : queue'[e] = queue[e]
      /\ queue'[x] = queue[x] \o <<m>> \/ (queue'[x] = queue[x] /\ t \in disturbed')
  BY <1>1, <1>2, <1>3 DEF Enqueue, Disturb
<1> SUFFICES ASSUME NEW s \in Services \ disturbed', NEW e \in Edges, NEW d \in Edges,
                    NEW i \in Nat \ {0}, Due(e, s, d, i)'
             PROVE  Follows(e, s, d, i)
  BY <1>6 DEF AllFollow
<1>10. CASE queue'[e] = queue[e]
  <2>1. Due(e, s, d, i)
    BY <1>1, <1>4, <1>10 DEF Due
  <2>2. Carried(e, s, d, i, i)
    BY <1>1, <1>10, CarriedSame
  <2> QED  BY <2>1, <2>2 DEF Follows
<1>11. CASE e = x /\ queue'[x] = queue[x] \o <<m>>
  <2> HIDE DEF x
  <2> DEFINE n == Len(queue[e])
  <2>1. /\ n \in Nat /\ Len(queue'[e]) = n + 1 /\ DOMAIN queue[e] = 1 .. n
        /\ DOMAIN queue'[e] = 1 .. n + 1 /\ queue'[e][n + 1] = m
        /\ \A k \in DOMAIN queue[e] : queue'[e][k] = queue[e][k]
    BY <1>8, <1>11, PlacesOn
  <2>2. CASE i \in DOMAIN queue'[e] /\ IsMove(queue'[e][i], s) /\ queue'[e][i].dst = d
    <3>1. i <= n + 1 /\ (i \in 1 .. n \/ i = n + 1)
      BY <2>1, <2>2
    <3>2. i \in 1 .. n => Due(e, s, d, i)
      BY <2>1, <2>2 DEF Due
    <3>3. ASSUME i = n + 1 PROVE Due(e, s, d, i)
      <4>1. s = t /\ d = y
        BY <1>7, <2>1, <2>2, <3>3 DEF IsMove
      <4>2. host[t] = e
        BY <1>11 DEF x
      <4> QED  BY <1>1, <3>3, <4>1, <4>2 DEF Due
    <3>4. Due(e, s, d, i)
      BY <3>1, <3>2, <3>3
    <3>5. Carried(e, s, d, i, i)
      BY <1>1, <1>8, <1>11, <3>1, CarriedOn
    <3> QED  BY <3>4, <3>5 DEF Follows
  <2>3. CASE /\ i = Len(queue'[e]) + 1
             /\ plan'[s].phase = "prepared" /\ plan'[s].dst = d /\ host'[s] = e
    <3>1. s # t /\ OnItsWay(s) /\ OnItsWay(t) /\ host[s] = host[t]
      BY <1>1, <1>4, <1>11, <2>3 DEF OnItsWay, x
    <3> QED  BY <3>1 DEF EagerPlans
  <2> QED  BY <2>2, <2>3 DEF Due
<1> QED  BY <1>9, <1>10, <1>11

(* Measurements come in anywhere.                                          *)
LEMMA MonitorFollows ==
  ASSUME TypeOK, EagerPlans, NEW t \in Services, NEW x \in Edges,
         MonitorService(x, t)
  PROVE  EagerPlans' /\ AllFollow
<1> USE DEF dockerVars, edgeVars, srcVars, dstVars, centreVars
<1> DEFINE c == Triggered(x, t)
<1>1. /\ UNCHANGED <<src, sock, plan, host>>
      /\ queue' = [queue EXCEPT ![x] = @ \o c]
  BY DEF MonitorService
<1>2. c \in Seq(Commands) /\ \A k \in 1 .. Len(c) : ~Lead(c[k])
  BY EdgeUpdate, TriggeredType DEF Lead
<1> HIDE DEF c
<1>3. queue \in [Edges -> Seq(Commands)]
  BY DEF TypeOK
<1>4. EagerPlans'
  BY <1>1, PlansEnd DEF PlanStays
<1> SUFFICES ASSUME NEW s \in Services \ disturbed', NEW e \in Edges, NEW d \in Edges,
                    NEW i \in Nat \ {0}, Due(e, s, d, i)'
             PROVE  Follows(e, s, d, i)
  BY <1>4 DEF AllFollow
<1>5. CASE e # x
  <2>1. queue'[e] = queue[e]
    BY <1>1, <1>3, <1>5
  <2>2. Due(e, s, d, i)
    BY <1>1, <2>1 DEF Due
  <2>3. Carried(e, s, d, i, i)
    BY <1>1, <2>1, CarriedSame
  <2> QED  BY <2>2, <2>3 DEF Follows
<1>6. CASE e = x
  <2> DEFINE n == Len(queue[e])
  <2>1. queue'[e] = queue[e] \o c
    BY <1>1, <1>3, <1>6
  <2>2. /\ n \in Nat /\ Len(c) \in Nat /\ Len(queue'[e]) = n + Len(c)
        /\ DOMAIN queue[e] = 1 .. n /\ DOMAIN queue'[e] = 1 .. n + Len(c)
        /\ \A k \in DOMAIN queue[e] : queue'[e][k] = queue[e][k]
        /\ \A k \in 1 .. Len(c) : queue'[e][n + k] = c[k]
    BY <1>2, <2>1, PlacesOn
  <2>3. CASE i \in DOMAIN queue'[e] /\ IsMove(queue'[e][i], s) /\ queue'[e][i].dst = d
    <3>1. i \in 1 .. n
      <4>1. ASSUME i \notin 1 .. n PROVE FALSE
        <5>1. i - n \in 1 .. Len(c) /\ n + (i - n) = i
          BY <2>2, <2>3, <4>1
        <5>2. queue'[e][i] = c[i - n]
          BY <2>2, <5>1
        <5> QED  BY <1>2, <2>3, <5>1, <5>2 DEF IsMove, Lead
      <4> QED  BY <4>1
    <3>2. Due(e, s, d, i) /\ i <= n + 1
      BY <2>2, <2>3, <3>1 DEF Due
    <3>3. Carried(e, s, d, i, i)
      BY <1>1, <1>2, <2>1, <3>2, CarriedOn
    <3> QED  BY <3>2, <3>3 DEF Follows
  <2>4. CASE /\ i = Len(queue'[e]) + 1
             /\ plan'[s].phase = "prepared" /\ plan'[s].dst = d /\ host'[s] = e
    <3>1. Due(e, s, d, n + 1) /\ n + 1 \in Nat \ {0}
      BY <1>1, <2>2, <2>4 DEF Due
    <3>2. Carried(e, s, d, n + 1, i)
      BY <1>1, <1>2, <2>1, <2>4, CarriedBehind
    <3> QED  BY <3>1, <3>2 DEF Follows
  <2> QED  BY <2>3, <2>4 DEF Due
<1> QED  BY <1>5, <1>6

(* All that the centre and the users do.                                   *)
LEMMA CentreFollows ==
  ASSUME ~Optimized, TypeOK, EagerPlans,
         \/ \E t \in Services, e \in Edges :
              Deploy(t, e) \/ DeployFails(t, e) \/ Order(t, e) \/ MonitorService(e, t)
         \/ \E t \in Services : Leave(t) \/ OrderMigrate(t)
         \/ \E n \in notices : PreMigrated(n) \/ Migrated(n)
  PROVE  /\ EagerPlans' /\ AllFollow
         /\ UNCHANGED <<src, sock, net, dstVars>>
<1> USE DEF dockerVars, edgeVars, srcVars, dstVars, centreVars
<1>1. plan \in [Services -> Plans] /\ host \in [Services -> Edges \cup {NoEdge}]
  BY DEF TypeOK
<1>2. UNCHANGED <<src, sock, net, dstVars>>
  BY ZenonT(60) DEF Deploy, DeployFails, Order, MonitorService, Leave, OrderMigrate,
         PreMigrated, Migrated
<1>3. ASSUME queue' = queue, \A s \in Services : PlanStays(s) \/ PlanEnds(s)
      PROVE  EagerPlans' /\ AllFollow
  BY <1>2, <1>3, PlansEnd, FollowsQuiet
<1>4. ASSUME NEW t \in Services, NEW e \in Edges, Deploy(t, e)
      PROVE  EagerPlans' /\ AllFollow
  <2>1. /\ queue' = queue /\ plan' = plan /\ plan[t].phase = "idle"
        /\ \A s \in Services \ {t} : host'[s] = host[s]
    BY <1>1, <1>4 DEF Deploy, EagerPlans
  <2> QED  BY <1>3, <2>1 DEF PlanStays, PlanEnds
<1>5. ASSUME NEW t \in Services, NEW e \in Edges, DeployFails(t, e)
      PROVE  EagerPlans' /\ AllFollow
  <2>1. queue' = queue /\ plan' = plan /\ host' = host
    BY <1>5 DEF DeployFails
  <2> QED  BY <1>3, <2>1 DEF PlanStays
<1>6. ASSUME NEW t \in Services, Leave(t)
      PROVE  EagerPlans' /\ AllFollow
  <2>1. /\ queue' = queue /\ plan' = [plan EXCEPT ![t] = NoPlan]
        /\ host' = [host EXCEPT ![t] = NoEdge]
    BY <1>6 DEF Leave
  <2>2. plan'[t].phase = "idle" /\ \A s \in Services \ {t} : PlanStays(s)
    BY <1>1, <2>1 DEF NoPlan, PlanStays
  <2> QED  BY <1>3, <2>1, <2>2 DEF PlanEnds
<1>7. ASSUME NEW n \in notices, PreMigrated(n)
      PROVE  EagerPlans' /\ AllFollow
  <2>1. n.svc \in Services
    BY DEF TypeOK, Notices
  <2>2. plan[n.svc].phase # "prepare"
    BY <2>1 DEF EagerPlans
  <2>3. queue' = queue /\ host' = host
    BY <1>7 DEF PreMigrated
  <2>4. plan' = plan
    BY <1>7, <2>2, Zenon DEF PreMigrated
  <2> QED  BY <1>3, <2>3, <2>4 DEF PlanStays
<1>8. ASSUME NEW n \in notices, Migrated(n)
      PROVE  EagerPlans' /\ AllFollow
  <2>1. n.svc \in Services
    BY DEF TypeOK, Notices
  <2>2. queue' = queue
    BY <1>8 DEF Migrated
  <2>3. \/ plan' = plan /\ host' = host
        \/ /\ plan' = [plan EXCEPT ![n.svc] = NoPlan]
           /\ host' = [host EXCEPT ![n.svc] = n.edge]
    BY <1>8 DEF Migrated
  <2>4. \A s \in Services : PlanStays(s) \/ PlanEnds(s)
    BY <1>1, <2>1, <2>3 DEF PlanStays, PlanEnds, NoPlan
  <2> QED  BY <1>3, <2>2, <2>4
<1> QED  BY <1>2, <1>4, <1>5, <1>6, <1>7, <1>8, OrderFollows, OrderMigrateFollows,
            MonitorFollows

(* A step of the centre leaves every migration its preparation.            *)
LEMMA EagerCentre ==
  ASSUME EagerInv, AllFollow, EagerPlans', UNCHANGED <<src, sock>>,
         disturbed \subseteq disturbed'
  PROVE  EagerInv'
<1>1. ASSUME NEW e \in Edges
      PROVE  OpenAt(e)'
  BY DEF EagerInv, OpenAt
<1>2. ASSUME NEW e \in Edges, NEW s \in Services \ disturbed', NEW d \in Edges,
             NEW i \in Nat \ {0}, Due(e, s, d, i)'
      PROVE  Backed(e, s, d, i)'
  <2>1. \A j \in Nat \ {0} : Due(e, s, d, j) => Backed(e, s, d, j)
    BY DEF EagerInv, BackedAt
  <2>2. Follows(e, s, d, i)
    BY <1>2 DEF AllFollow
  <2> QED  BY <2>1, <2>2 DEF Follows, Carried
<1> QED  BY <1>1, <1>2 DEF EagerInv, BackedAt

(* What the source thread leaves alone, and what it does with its queue.   *)
LEMMA SourceOnly ==
  ASSUME TypeOK, NEW e \in Edges, SourceStep(e)
  PROVE  /\ \A x \in Edges \ {e} :
              queue'[x] = queue[x] /\ src'[x] = src[x] /\ sock'[x] = sock[x]
         /\ plan' = plan /\ host' = host /\ UNCHANGED dstVars
         /\ src[e].stage # "idle" => queue'[e] = queue[e]
         /\ src[e].stage = "idle" =>
              /\ queue[e] # <<>> /\ queue'[e] = Tail(queue[e])
              /\ Head(queue[e]) \in Commands
<1> USE DEF dockerVars, edgeVars, srcVars, centreVars
<1>1. /\ queue \in [Edges -> Seq(Commands)] /\ src \in [Edges -> Tasks(SrcStages)]
      /\ sock \in [Edges -> {"open", "closed"}] /\ queue[e] \in Seq(Commands)
  BY SourceUpdate
<1>2. queue[e] # <<>> => Head(queue[e]) \in Commands
  BY <1>1, HeadTailProperties
<1>3. CASE PreMeasure(e) \/ Measure(e) \/ MeasureReport(e)
  BY <1>1, <1>2, <1>3, Zenon DEF PreMeasure, Measure, MeasureReport, Takes, SrcRests,
     SrcGoes, SrcDies
<1>4. CASE \/ Prepare(e) \/ PrepareCheckpoint(e) \/ PrepareDelta(e)
           \/ PrepareNotify(e)
  BY <1>1, <1>2, <1>4, ZenonT(60) DEF Prepare, PrepareCheckpoint, PrepareDelta,
     PrepareNotify, Takes, SrcRests, SrcGoes, SrcDies
<1>5. CASE MigrateStop(e)
  BY <1>1, <1>2, <1>5, SMTT(30) DEF MigrateStop, Takes, SrcGoes, SrcDies
<1>6. CASE MigrateSend(e) \/ MigrateFinish(e) \/ MigrateCleanup(e)
  BY <1>1, <1>6, SMTT(30) DEF MigrateSend, MigrateFinish, MigrateCleanup, SrcRests, SrcDies
<1> QED  BY <1>3, <1>4, <1>5, <1>6 DEF SourceStep

(* Its stages one after the other, and the socket.                         *)
LEMMA SourceMachine ==
  ASSUME TypeOK, NEW e \in Edges, SourceStep(e)
  PROVE  LET k == Head(queue[e]).cmd
             t == src[e]
             u == src'[e]
             onward == u.svc = t.svc /\ u.dst = t.dst
             taken == u.svc = Head(queue[e]).svc /\ u.dst = Head(queue[e]).dst
         IN
         \/ /\ t.stage = "idle" /\ k = "prepare" /\ sock'[e] = "open"
            /\ u.stage = "dead" \/ (u.stage = "preparing" /\ taken)
            /\ net' = net
         \/ /\ t.stage = "idle" /\ k \in {"pre_measure", "measure"}
            /\ u.stage \in {"idle", "measured", "dead"} /\ sock'[e] = sock[e]
            /\ net' = net
         \/ /\ t.stage = "idle" /\ k = "migrate" /\ sock'[e] = sock[e]
            /\ u.stage = "dead" \/ (u.stage = "stopped" /\ taken)
            /\ net' = net
         \/ /\ <<t.stage, u.stage>> \in {<<"preparing", "copied">>,
                                         <<"copied", "prepared">>}
            /\ onward /\ sock'[e] = sock[e] /\ net' = net
         \/ /\ t.stage = "prepared" /\ u.stage = "idle" /\ sock'[e] = sock[e]
            /\ net' = [net EXCEPT ![e][t.dst] =
                         Append(@, Datagram("prepare", t.svc, 0))]
         \/ /\ t.stage = "stopped" /\ u.stage = "dead" /\ sock'[e] = sock[e]
            /\ net' = net
         \/ /\ t.stage = "stopped" /\ u.stage = "sent"
            /\ net' = [net EXCEPT ![e][t.dst] =
                         Append(@, Datagram("migrate", t.svc, t.req))]
         \/ /\ t.stage \in {"measured", "sent", "dropped"}
            /\ u.stage \in {"idle", "dead", "dropped"} /\ sock'[e] = sock[e]
            /\ t.stage = "measured" => u.stage # "dropped"
            /\ net' = net
<1> USE DEF dockerVars, edgeVars, srcVars, dstVars, centreVars
<1>1. /\ src \in [Edges -> Tasks(SrcStages)] /\ src[e] \in Tasks(SrcStages)
      /\ sock \in [Edges -> {"open", "closed"}]
  BY SourceUpdate
<1>2. /\ SrcRests(e) => src'[e].stage = "idle"
      /\ SrcDies(e) => src'[e].stage = "dead"
      /\ \A stage, c : SrcGoes(e, stage, c) =>
           src'[e].stage = stage /\ src'[e].svc = c.svc /\ src'[e].dst = c.dst
      /\ \A stage : src' = [src EXCEPT ![e].stage = stage] =>
           src'[e].stage = stage /\ src'[e].svc = src[e].svc
           /\ src'[e].dst = src[e].dst
  BY <1>1, SMTT(30) DEF SrcRests, SrcDies, SrcGoes, Idle, Dead, Tasks
<1>3. CASE PreMeasure(e) \/ Measure(e) \/ MeasureReport(e)
  BY <1>2, <1>3 DEF PreMeasure, Measure, MeasureReport, Takes
<1>4. CASE Prepare(e)
  BY <1>1, <1>2, <1>4, Zenon DEF Prepare, Takes
<1>5. CASE PrepareCheckpoint(e) \/ PrepareDelta(e) \/ PrepareNotify(e)
  BY <1>2, <1>5, Zenon DEF PrepareCheckpoint, PrepareDelta, PrepareNotify
<1>6. CASE MigrateStop(e)
  BY <1>2, <1>6, ZenonT(60) DEF MigrateStop, Takes
<1>7. CASE MigrateSend(e)
  BY <1>2, <1>7 DEF MigrateSend
<1>8. CASE MigrateFinish(e) \/ MigrateCleanup(e)
  BY <1>2, <1>8 DEF MigrateFinish, MigrateCleanup
<1> QED  BY <1>3, <1>4, <1>5, <1>6, <1>7, <1>8 DEF SourceStep

(* The source thread takes the preparation before the migration, which     *)
(* opens the socket; measurements leave it alone.                          *)
LEMMA TakenFollows ==
  ASSUME TypeOK, NEW e \in Edges, SourceStep(e), src[e].stage = "idle",
         NEW s \in Services, NEW d \in Edges, NEW i \in Nat \ {0},
         Backed(e, s, d, i + 1)
  PROVE  Backed(e, s, d, i)'
<1> DEFINE q == queue[e]
<1>1. q \in Seq(Commands) /\ q # <<>> /\ queue'[e] = Tail(q)
  BY SourceUpdate, SourceOnly
<1> HIDE DEF q
<1>2. /\ Len(q) \in Nat /\ DOMAIN q = 1 .. Len(q) /\ Head(q) = q[1]
      /\ 1 \in DOMAIN q /\ DOMAIN Tail(q) = 1 .. Len(q) - 1
      /\ \A k \in 1 .. Len(q) - 1 : Tail(q)[k] = q[k + 1]
      /\ \A j, k \in Nat : NoLead(Tail(q), j, k) <=> NoLead(q, j + 1, k + 1)
  BY <1>1, LeadTail
<1>3. queue[e] = q
  BY DEF q
<1>4. ASSUME NEW j \in DOMAIN q, j < i + 1, j # 1, PreparesFor(q[j], s, d),
             NoLead(q, j, i + 1)
      PROVE  Backed(e, s, d, i)'
  <2>1. /\ j - 1 \in DOMAIN Tail(q) /\ j - 1 \in Nat /\ j - 1 < i
        /\ (j - 1) + 1 = j
    <3>1. /\ Len(q) \in Nat /\ j \in 1 .. Len(q) /\ j < i + 1 /\ j # 1
          /\ DOMAIN Tail(q) = 1 .. Len(q) - 1
      BY <1>2, <1>4
    <3> HIDE DEF q
    <3> QED  BY <3>1
  <2>2. Tail(q)[j - 1] = q[j] /\ NoLead(Tail(q), j - 1, i)
    BY <1>2, <1>4, <2>1
  <2> QED  BY <1>1, <1>4, <2>1, <2>2 DEF Backed
<1>5. ASSUME PreparesFor(q[1], s, d), NoLead(q, 1, i + 1)
      PROVE  Backed(e, s, d, i)'
  <2>1. NoLead(Tail(q), 0, i)
    BY <1>2, <1>5
  <2>2. Head(q).cmd = "prepare" /\ Head(q).svc = s /\ Head(q).dst = d
    BY <1>2, <1>5 DEF PreparesFor
  <2>3. src'[e].stage = "dead" \/ PreparingFor(e, s, d)'
    BY <1>3, <2>2, SourceMachine DEF PreparingFor
  <2> QED  BY <1>1, <2>1, <2>3 DEF Backed
<1>6. ASSUME NoLead(q, 0, i + 1), Resting(e) /\ sock[e] = "open"
      PROVE  Backed(e, s, d, i)'
  <2>1. /\ 0 < 1 /\ 1 < i + 1 /\ 0 \in Nat /\ i \in Nat
    OBVIOUS
  <2>2. ~Lead(Head(q))
    BY <1>2, <1>6, <2>1 DEF NoLead
  <2>3. NoLead(q, 0 + 1, i + 1)
    <3>1. \A k \in DOMAIN q : k \in Nat
      BY <1>2
    <3>2. \A k \in Nat : 0 + 1 < k => 0 < k
      OBVIOUS
    <3> QED  BY <1>6, <3>1, <3>2, Zenon DEF NoLead
  <2>4. NoLead(Tail(q), 0, i)
    BY <1>2, <2>1, <2>3
  <2>5. /\ sock'[e] = sock[e] /\ src'[e].stage \in {"idle", "measured", "dead"}
    BY <1>3, <2>2, SourceMachine DEF Lead
  <2> QED  BY <1>1, <1>6, <2>4, <2>5 DEF Backed, Resting
<1>7. src[e].stage # "dead" /\ ~PreparingFor(e, s, d)
  BY DEF PreparingFor
<1> QED  BY <1>3, <1>4, <1>5, <1>6, <1>7 DEF Backed

LEMMA DueTaken ==
  ASSUME TypeOK, NEW e \in Edges, SourceStep(e), src[e].stage = "idle",
         NEW s \in Services, NEW d \in Edges, NEW i \in Nat \ {0}, Due(e, s, d, i)'
  PROVE  Due(e, s, d, i + 1) /\ i + 1 \in Nat \ {0}
<1>1. /\ queue[e] \in Seq(Commands) /\ queue[e] # <<>>
      /\ queue'[e] = Tail(queue[e]) /\ UNCHANGED <<plan, host>>
  BY SourceUpdate, SourceOnly
<1>2. /\ Len(queue[e]) \in Nat /\ DOMAIN queue[e] = 1 .. Len(queue[e])
      /\ Len(queue'[e]) = Len(queue[e]) - 1
      /\ DOMAIN queue'[e] = 1 .. Len(queue[e]) - 1
      /\ \A k \in 1 .. Len(queue[e]) - 1 : queue'[e][k] = queue[e][k + 1]
  BY <1>1, LeadTail
<1>3. i \in DOMAIN queue'[e] => i + 1 \in DOMAIN queue[e]
                                /\ queue'[e][i] = queue[e][i + 1]
  BY <1>2
<1>4. i = Len(queue'[e]) + 1 => i + 1 = Len(queue[e]) + 1
  BY <1>2
<1> QED  BY <1>1, <1>3, <1>4 DEF Due

LEMMA EagerSource ==
  ASSUME TypeOK, EagerInv, NEW e \in Edges, SourceStep(e), disturbed \subseteq disturbed'
  PROVE  EagerInv'
<1>1. /\ UNCHANGED <<plan, host>>
      /\ \A x \in Edges \ {e} : queue'[x] = queue[x] /\ src'[x] = src[x]
                                 /\ sock'[x] = sock[x]
  BY SourceOnly
<1>2. EagerPlans'
  BY <1>1 DEF EagerInv, EagerPlans, OnItsWay
<1>3. ASSUME NEW x \in Edges \ {e}
      PROVE  OpenAt(x)' /\ BackedAt(x)'
  BY <1>1, <1>3 DEF EagerInv, OpenAt, BackedAt, Due, Backed, PreparingFor, Resting
<1>4. OpenAt(e) /\ \A s \in Services \ disturbed, d \in Edges, i \in Nat \ {0} :
                      Due(e, s, d, i) => Backed(e, s, d, i)
  BY DEF EagerInv, BackedAt
<1>5. ASSUME src[e].stage = "idle" PROVE OpenAt(e)' /\ BackedAt(e)'
  <2>1. OpenAt(e)'
    <3>1. ASSUME src'[e].stage = "stopped", src'[e].svc \notin disturbed'
          PROVE  sock'[e] = "open"
      <4>1. /\ Head(queue[e]).cmd = "migrate" /\ src'[e].svc = Head(queue[e]).svc
            /\ sock'[e] = sock[e]
        BY <1>5, <3>1, SourceMachine
      <4>2. queue[e] \in Seq(Commands) /\ queue[e] # <<>> /\ Head(queue[e]) \in Commands
        BY <1>5, SourceUpdate, SourceOnly
      <4>3. PICK s \in Services, d \in Edges :
                 s = Head(queue[e]).svc /\ d = Head(queue[e]).dst
        BY <4>2 DEF Commands
      <4>4. 1 \in DOMAIN queue[e] /\ Head(queue[e]) = queue[e][1] /\ 1 \in Nat \ {0}
            /\ \A j \in DOMAIN queue[e] : ~(j < 1)
        BY <4>2, LeadTail
      <4>5. Due(e, s, d, 1)
        BY <4>1, <4>3, <4>4 DEF Due, IsMove
      <4>6. Backed(e, s, d, 1)
        BY <1>4, <3>1, <4>1, <4>3, <4>4, <4>5
      <4> QED  BY <1>5, <4>1, <4>4, <4>6 DEF Backed, PreparingFor
    <3> QED  BY <1>5, <3>1, SourceMachine DEF OpenAt
  <2>2. ASSUME NEW s \in Services \ disturbed', NEW d \in Edges, NEW i \in Nat \ {0},
               Due(e, s, d, i)'
        PROVE  Backed(e, s, d, i)'
    <3>1. Due(e, s, d, i + 1) /\ i + 1 \in Nat \ {0}
      BY <1>5, <2>2, DueTaken
    <3> QED  BY <1>4, <1>5, <3>1, TakenFollows
  <2> QED  BY <2>1, <2>2 DEF BackedAt
<1>6. ASSUME src[e].stage # "idle" PROVE OpenAt(e)' /\ BackedAt(e)'
  <2>1. queue'[e] = queue[e]
    BY <1>6, SourceOnly
  <2>2. OpenAt(e)'
    BY <1>4, <1>6, SourceMachine DEF OpenAt
  <2>3. ASSUME NEW s \in Services \ disturbed', NEW d \in Edges, NEW i \in Nat \ {0},
               Due(e, s, d, i)'
        PROVE  Backed(e, s, d, i)'
    <3>1. Due(e, s, d, i)
      BY <1>1, <2>1, <2>3 DEF Due
    <3>2. Backed(e, s, d, i)
      BY <1>4, <3>1
    <3>3. src[e].stage # "dead"
      BY <1>6, SourceMachine
    <3>4. PreparingFor(e, s, d) =>
            PreparingFor(e, s, d)' \/ (src'[e].stage = "idle" /\ sock'[e] = "open")
      BY <1>4, <1>6, SourceMachine DEF PreparingFor, OpenAt
    <3>5. Resting(e) /\ sock[e] = "open" =>
            src'[e].stage \in {"idle", "dead"} /\ sock'[e] = "open"
      BY <1>6, SourceMachine DEF Resting
    <3> QED  BY <2>1, <3>2, <3>3, <3>4, <3>5 DEF Backed, Resting
  <2> QED  BY <2>2, <2>3 DEF BackedAt
<1> QED  BY <1>2, <1>3, <1>5, <1>6 DEF EagerInv

(* No step of the threshold planners breaks it.                            *)
LEMMA EagerStep ==
  ASSUME ~Optimized, TypeOK, EagerInv, [Next]_vars
  PROVE  EagerInv'
<1> USE DEF dockerVars, edgeVars, srcVars, dstVars, centreVars
<1>1. disturbed \subseteq disturbed'
  BY DisturbedGrows
<1>2. ASSUME UNCHANGED <<queue, src, sock, plan, host>>
      PROVE  EagerInv'
  <2>1. EagerPlans' /\ AllFollow
    BY <1>2, PlansEnd, FollowsQuiet DEF EagerInv, PlanStays
  <2> QED  BY <1>1, <1>2, <2>1, EagerCentre
<1>3. CASE UNCHANGED vars
  BY <1>2, <1>3, Zenon DEF vars
<1>4. ASSUME NEW d \in Edges, DestStep(d)
      PROVE  EagerInv'
  <2>1. CASE \E e \in Edges : DestPrepare(e, d) \/ DestUnpack(e, d)
    BY <1>2, <2>1, Zenon DEF DestPrepare, DestUnpack
  <2>2. CASE DestCreate(d) \/ DestRestore(d) \/ DestStart(d)
    BY <1>2, <2>2, Zenon DEF DestCreate, DestRestore, DestStart
  <2>3. CASE DestAnnounce(d) \/ DestList(d) \/ DestResnap(d) \/ DestResnapDone(d)
    BY <1>2, <2>3, Zenon DEF DestAnnounce, DestList, DestResnap, DestResnapDone
  <2> QED  BY <1>4, <2>1, <2>2, <2>3 DEF DestStep
<1>5. CASE \E e, d \in Edges : \E i \in DOMAIN net[e][d] : Lose(e, d, i)
  BY <1>2, <1>5 DEF Lose
<1>6. CASE \/ \E t \in Services, e \in Edges :
                Deploy(t, e) \/ DeployFails(t, e) \/ Order(t, e) \/ MonitorService(e, t)
           \/ \E t \in Services : Leave(t) \/ OrderMigrate(t)
           \/ \E n \in notices : PreMigrated(n) \/ Migrated(n)
  <2>1. EagerPlans' /\ AllFollow /\ UNCHANGED <<src, sock>>
    BY <1>6, CentreFollows DEF EagerInv
  <2> QED  BY <1>1, <2>1, EagerCentre
<1> QED  BY <1>1, <1>3, <1>4, <1>5, <1>6, EagerSource DEF Next

LEMMA EagerInvariance ==
  ASSUME ~Optimized
  PROVE  Spec => []EagerInv
<1>1. Init => EagerInv
  <2> SUFFICES ASSUME Init PROVE EagerInv
    OBVIOUS
  <2>1. EagerPlans /\ \A e \in Edges : OpenAt(e)
    BY DEF Init, EagerPlans, OpenAt, OnItsWay, NoPlan, Idle
  <2>2. \A e \in Edges, s \in Services, d \in Edges, i \in Nat : ~Due(e, s, d, i)
    BY DEF Init, Due, NoPlan
  <2> QED  BY <2>1, <2>2 DEF EagerInv, BackedAt
<1>2. TypeOK /\ EagerInv /\ [Next]_vars => EagerInv'
  BY EagerStep
<1> QED  BY <1>1, <1>2, TypeCorrect, PTL DEF Spec

(* Under the threshold planners the source sends on the socket its own     *)
(* preparation has opened (migrate_source.py:407), whatever migrates       *)
(* beside it, and even though PRE_MIGRATE and MIGRATE are handled apart:   *)
(* unless the service was not listed when one of them came.                *)
THEOREM OwnSocket ==
  ASSUME ~Optimized
  PROVE  Spec => []SendsOnOpenSocket
<1>1. EagerInv => SendsOnOpenSocket
  BY DEF EagerInv, OpenAt, SendsOnOpenSocket
<1> QED  BY <1>1, EagerInvariance, PTL

-----------------------------------------------------------------------------
(* If no datagram gets lost, the destination hears of the preparation      *)
(* before it hears of the migration.                                       *)
Recorded == \A d \in Edges : dst[d].stage = "pulled" => dst[d].svc \in dstRecords[d]

(* What the destination has received it keeps, until the migration of that *)
(* service takes the reserved port.                                        *)
AwaitsStill(s) == \A d \in Edges : Awaits(d, s) => Awaits(d, s)'
NetGrows(s) ==
  \A e, d \in Edges :
    /\ Len(net'[e][d]) >= Len(net[e][d])
    /\ \A n \in 0 .. Len(net[e][d]) : Ahead(e, d, s, n) => Ahead(e, d, s, n)'
ArrivedStill(s) ==
  \A e, d \in Edges : Arrived(e, d, s) => Arrived(e, d, s)'

LEMMA NetLength ==
  ASSUME TypeOK, NEW e \in Edges, NEW d \in Edges
  PROVE  Len(net[e][d]) \in Nat /\ DOMAIN net[e][d] = 1 .. Len(net[e][d])
BY NetUpdate, LenProperties

LEMMA AwaitsUnchanged ==
  ASSUME NEW s, UNCHANGED dstVars
  PROVE  AwaitsStill(s)
BY DEF dstVars, AwaitsStill, Awaits

LEMMA ArrivedGrows ==
  ASSUME TypeOK, TypeOK', NEW s, AwaitsStill(s), NetGrows(s)
  PROVE  ArrivedStill(s)
<1> SUFFICES ASSUME NEW e \in Edges, NEW d \in Edges, Arrived(e, d, s)
             PROVE  Arrived(e, d, s)'
  BY DEF ArrivedStill
<1>1. /\ Len(net[e][d]) \in Nat /\ Len(net'[e][d]) \in Nat
      /\ Len(net'[e][d]) >= Len(net[e][d])
  <2>1. net'[e][d] \in Seq(Datagrams)
    BY DEF TypeOK
  <2> QED  BY <2>1, NetLength, LenProperties DEF NetGrows
<1>2. CASE Awaits(d, s)
  BY <1>2 DEF AwaitsStill, Arrived
<1>3. CASE Ahead(e, d, s, Len(net[e][d]))
  <2>1. \E j \in 1 .. Len(net[e][d]) :
          net'[e][d][j].cmd = "prepare" /\ net'[e][d][j].svc = s
    BY <1>1, <1>3 DEF NetGrows, Ahead
  <2> QED  BY <1>1, <2>1 DEF Arrived, Ahead
<1> QED  BY <1>2, <1>3 DEF Arrived

LEMMA NetAppend ==
  ASSUME TypeOK, NEW s, NEW e \in Edges, NEW d \in Edges, NEW m \in Datagrams,
         net' = [net EXCEPT ![e][d] = Append(@, m)]
  PROVE  /\ NetGrows(s)
         /\ \A x, y \in Edges : x # e \/ y # d => net'[x][y] = net[x][y]
         /\ Len(net'[e][d]) = Len(net[e][d]) + 1
         /\ \A i \in 1 .. Len(net[e][d]) : net'[e][d][i] = net[e][d][i]
         /\ \A i : i = Len(net[e][d]) + 1 => net'[e][d][i] = m
<1>1. net \in [Edges -> [Edges -> Seq(Datagrams)]]
  BY NetUpdate
<1>2. \A x, y \in Edges :
        net'[x][y] = IF x = e /\ y = d THEN Append(net[e][d], m) ELSE net[x][y]
  BY <1>1
<1>3. \A x, y \in Edges : Len(net[x][y]) \in Nat
  BY NetLength
<1> DEFINE q == net[e][d]
<1>4. /\ Len(Append(q, m)) = Len(q) + 1
      /\ \A i \in 1 .. Len(q) : Append(q, m)[i] = q[i]
      /\ Append(q, m)[Len(q) + 1] = m
  <2>1. q \in Seq(Datagrams)
    BY <1>1
  <2> HIDE DEF q
  <2> QED  BY <2>1, AppendProperties
<1>5. /\ \A x, y \in Edges : x # e \/ y # d => net'[x][y] = net[x][y]
      /\ Len(net'[e][d]) = Len(net[e][d]) + 1
      /\ \A i \in 1 .. Len(net[e][d]) : net'[e][d][i] = net[e][d][i]
      /\ net'[e][d][Len(net[e][d]) + 1] = m
  <2>1. net'[e][d] = Append(q, m)
    BY <1>2
  <2>2. \A x, y \in Edges : x # e \/ y # d => net'[x][y] = net[x][y]
    BY <1>2
  <2>3. q = net[e][d]
    OBVIOUS
  <2> HIDE DEF q
  <2>4. Len(net'[e][d]) = Len(q) + 1 /\ net'[e][d][Len(q) + 1] = m
        /\ \A i \in 1 .. Len(q) : net'[e][d][i] = q[i]
    BY <1>4, <2>1
  <2> QED  BY <2>2, <2>3, <2>4
<1>6. ASSUME NEW x \in Edges, NEW y \in Edges
      PROVE  /\ Len(net'[x][y]) >= Len(net[x][y])
             /\ \A n \in 0 .. Len(net[x][y]) : Ahead(x, y, s, n) => Ahead(x, y, s, n)'
  <2>1. CASE x = e /\ y = d
    <3>1. Len(net'[x][y]) >= Len(net[x][y])
      BY <1>3, <1>5, <2>1
    <3>2. ASSUME NEW n \in 0 .. Len(net[x][y]), Ahead(x, y, s, n)
          PROVE  Ahead(x, y, s, n)'
      <4>1. \A j \in 1 .. n : j \in 1 .. Len(net[x][y])
        BY <1>3
      <4> QED  BY <1>5, <2>1, <3>2, <4>1 DEF Ahead
    <3> QED  BY <3>1, <3>2
  <2>2. CASE ~(x = e /\ y = d)
    <3>1. net'[x][y] = net[x][y]
      BY <1>5, <2>2
    <3>2. Len(net'[x][y]) >= Len(net[x][y])
      BY <1>3, <3>1
    <3> QED  BY <3>1, <3>2 DEF Ahead
  <2> QED  BY <2>1, <2>2
<1> QED  BY <1>5, <1>6 DEF NetGrows

LEMMA NetLast ==
  ASSUME TypeOK, NEW e \in Edges, NEW d \in Edges, NEW m \in Datagrams,
         net' = [net EXCEPT ![e][d] = Append(@, m)]
  PROVE  net'[e][d][Len(net[e][d]) + 1] = m
<1>1. net \in [Edges -> [Edges -> Seq(Datagrams)]]
  BY NetUpdate
<1> DEFINE q == net[e][d]
<1>2. q \in Seq(Datagrams) /\ net'[e][d] = Append(q, m)
  BY <1>1
<1> HIDE DEF q
<1>3. Append(q, m)[Len(q) + 1] = m
  BY <1>2, AppendProperties
<1>4. net'[e][d][Len(q) + 1] = m
  BY <1>2, <1>3
<1> QED  BY <1>4 DEF q

LEMMA NetSame ==
  ASSUME TypeOK, NEW s, net' = net
  PROVE  NetGrows(s)
<1>1. \A x, y \in Edges : Len(net[x][y]) \in Nat
  BY NetLength
<1> QED  BY <1>1 DEF NetGrows, Ahead

(* The head of the network is taken, the rest moves up.                    *)
LEMMA NetTail ==
  ASSUME TypeOK, NEW s, NEW e \in Edges, NEW d \in Edges, NEW k, Receives(e, d, k)
  PROVE  /\ \A x, y \in Edges : x # e \/ y # d => net'[x][y] = net[x][y]
         /\ Len(net[e][d]) \in Nat /\ Len(net[e][d]) # 0
         /\ Len(net'[e][d]) = Len(net[e][d]) - 1
         /\ DOMAIN net'[e][d] = 1 .. Len(net[e][d]) - 1
         /\ \A i \in 1 .. Len(net[e][d]) - 1 : net'[e][d][i] = net[e][d][i + 1]
         /\ Head(net[e][d]) = net[e][d][1] /\ Head(net[e][d]) \in Datagrams
         /\ \A n \in 1 .. Len(net[e][d]) :
              ~(k = "prepare" /\ Head(net[e][d]).svc = s) /\ Ahead(e, d, s, n)
                => Ahead(e, d, s, n - 1)'
<1>1. /\ net \in [Edges -> [Edges -> Seq(Datagrams)]]
      /\ net[e][d] \in Seq(Datagrams) /\ net[e][d] # <<>>
      /\ Head(net[e][d]).cmd = k
  BY NetUpdate DEF Receives
<1>2. \A x, y \in Edges :
        net'[x][y] = IF x = e /\ y = d THEN Tail(net[e][d]) ELSE net[x][y]
  BY <1>1 DEF Receives
<1> DEFINE q == net[e][d]
<1>3. /\ Len(q) \in Nat /\ Len(q) # 0 /\ Head(q) = q[1] /\ Head(q) \in Datagrams
      /\ Len(Tail(q)) = Len(q) - 1 /\ DOMAIN Tail(q) = 1 .. Len(q) - 1
      /\ \A i \in 1 .. Len(q) - 1 : Tail(q)[i] = q[i + 1]
  <2>1. q \in Seq(Datagrams) /\ q # <<>>
    BY <1>1
  <2> HIDE DEF q
  <2>2. Tail(q) \in Seq(Datagrams) /\ Len(Tail(q)) = Len(q) - 1
        /\ (\A i \in 1 .. Len(Tail(q)) : Tail(q)[i] = q[i + 1])
        /\ Head(q) = q[1] /\ Head(q) \in Datagrams
    BY <2>1, HeadTailProperties
  <2> QED  BY <2>1, <2>2, LenProperties, EmptySeq
<1>4. /\ \A x, y \in Edges : x # e \/ y # d => net'[x][y] = net[x][y]
      /\ Len(net[e][d]) \in Nat /\ Len(net[e][d]) # 0
      /\ Len(net'[e][d]) = Len(net[e][d]) - 1
      /\ DOMAIN net'[e][d] = 1 .. Len(net[e][d]) - 1
      /\ \A i \in 1 .. Len(net[e][d]) - 1 : net'[e][d][i] = net[e][d][i + 1]
      /\ Head(net[e][d]) = net[e][d][1] /\ Head(net[e][d]) \in Datagrams
  BY <1>2, <1>3
<1>5. ASSUME NEW n \in 1 .. Len(net[e][d]),
             ~(k = "prepare" /\ Head(net[e][d]).svc = s), Ahead(e, d, s, n)
      PROVE  Ahead(e, d, s, n - 1)'
  <2>1. PICK j \in 1 .. n : net[e][d][j].cmd = "prepare" /\ net[e][d][j].svc = s
    BY <1>5 DEF Ahead
  <2>2. j # 1
    BY <1>1, <1>4, <1>5, <2>1
  <2>3. /\ j - 1 \in 1 .. n - 1 /\ j - 1 \in 1 .. Len(net[e][d]) - 1
        /\ (j - 1) + 1 = j
    BY <1>4, <2>2
  <2>4. net'[e][d][j - 1] = net[e][d][j]
    BY <1>4, <2>3
  <2> QED  BY <2>1, <2>3, <2>4 DEF Ahead
<1> QED  BY <1>4, <1>5

(* A record and a reserved port are kept by all steps of the destination   *)
(* but the one that takes the migration of that service.                   *)
LEMMA DestMachine ==
  ASSUME TypeOK, TypeOK', NEW d \in Edges, Recorded, DestStep(d)
  PROVE  /\ Recorded' /\ UNCHANGED <<queue, src, sock, plan, host>>
         /\ \A s : (\A e \in Edges :
                      DestUnpack(e, d) => Head(net[e][d]).svc # s \/ DstDies(d))
                   => AwaitsStill(s)
<1> USE DEF dockerVars, edgeVars, srcVars, dstVars, centreVars
<1>1. /\ dst \in [Edges -> Tasks(DstStages)] /\ dst[d] \in Tasks(DstStages)
      /\ dstRecords \in [Edges -> SUBSET Services]
      /\ reserved \in [Edges -> SUBSET Services]
  BY DestUpdate, Zenon DEF TypeOK
<1>2. UNCHANGED <<queue, src, sock, plan, host>>
  BY Zenon DEF DestStep, DestPrepare, DestUnpack, DestCreate, DestRestore, DestStart,
         DestAnnounce, DestList, DestResnap, DestResnapDone
<1>3. /\ DstRests(d) => dst'[d].stage = "idle"
      /\ DstDies(d) => dst'[d].stage = "dead"
      /\ \A stage, m : DstGoes(d, stage, m) =>
           dst'[d].stage = stage /\ dst'[d].svc = m.svc
      /\ \A stage : dst' = [dst EXCEPT ![d].stage = stage] =>
           dst'[d].stage = stage /\ dst'[d].svc = dst[d].svc
      /\ DstRests(d) \/ DstDies(d) \/ (\E stage, m : DstGoes(d, stage, m))
           \/ (\E stage : dst' = [dst EXCEPT ![d].stage = stage])
           => \A x \in Edges \ {d} : dst'[x] = dst[x]
  BY <1>1 DEF DstRests, DstDies, DstGoes, Idle, Dead, Tasks
<1>4. ASSUME NEW e \in Edges, DestPrepare(e, d)
      PROVE  Recorded' /\ \A s : AwaitsStill(s)
  <2>1. /\ dst[d].stage = "idle" /\ UNCHANGED reserved
        /\ dstRecords' = [dstRecords EXCEPT ![d] = @ \cup {Head(net[e][d]).svc}]
        /\ DstDies(d) \/ DstGoes(d, "pulled", Head(net[e][d]))
    BY <1>4, Zenon DEF DestPrepare, Receives
  <2>2. /\ \A x \in Edges \ {d} : dst'[x] = dst[x] /\ dstRecords'[x] = dstRecords[x]
        /\ dstRecords'[d] = dstRecords[d] \cup {Head(net[e][d]).svc}
        /\ \/ dst'[d].stage = "dead"
           \/ dst'[d].stage = "pulled" /\ dst'[d].svc = Head(net[e][d]).svc
    BY <1>1, <1>3, <2>1
  <2>3. Recorded'
    BY <2>2 DEF Recorded
  <2>4. ASSUME NEW s PROVE AwaitsStill(s)
    BY <2>1, <2>2, Zenon DEF AwaitsStill, Awaits
  <2> QED  BY <2>3, <2>4, Zenon
<1>5. ASSUME NEW e \in Edges, DestUnpack(e, d)
      PROVE  /\ Recorded'
             /\ \A s : Head(net[e][d]).svc # s \/ DstDies(d) => AwaitsStill(s)
  BY <1>1, <1>3, <1>5, ZenonT(60) DEF DestUnpack, Receives, Recorded, AwaitsStill, Awaits
<1>6. CASE DestCreate(d)
  BY <1>1, <1>3, <1>6 DEF DestCreate, Recorded, AwaitsStill, Awaits
<1>7. ASSUME UNCHANGED <<dstRecords, reserved>>,
             \A x \in Edges \ {d} : dst'[x] = dst[x],
             dst[d].stage \notin {"pulled", "dead"}, dst'[d].stage # "pulled"
      PROVE  Recorded' /\ \A s : AwaitsStill(s)
  <2>1. Recorded'
    BY <1>7 DEF Recorded
  <2>2. ASSUME NEW s PROVE AwaitsStill(s)
    BY <1>7 DEF AwaitsStill, Awaits
  <2> QED  BY <2>1, <2>2
<1>8. CASE \/ DestRestore(d) \/ DestStart(d) \/ DestAnnounce(d) \/ DestList(d)
           \/ DestResnap(d) \/ DestResnapDone(d)
  <2>1. /\ UNCHANGED <<dstRecords, reserved>> /\ dst[d].stage \notin {"pulled", "dead"}
        /\ \/ DstRests(d) \/ DstDies(d)
           \/ \E stage \in DstStages \ {"pulled"} :
                dst' = [dst EXCEPT ![d].stage = stage]
    BY <1>8 DEF DestRestore, DestStart, DestAnnounce, DestList, DestResnap,
                DestResnapDone, DstStages
  <2>2. (\A x \in Edges \ {d} : dst'[x] = dst[x]) /\ dst'[d].stage # "pulled"
    BY <1>3, <2>1
  <2>3. Recorded' /\ \A s : AwaitsStill(s)
    BY <1>7, <2>1, <2>2
  <2> QED  BY <1>2, <2>3
<1> QED  BY <1>2, <1>4, <1>5, <1>6, <1>8 DEF DestStep

(* The parts of ReadyFor(s).                                               *)
TakenReady(e, s) ==
  /\ \A d \in Edges, i \in Nat \ {0} :
       Due(e, s, d, i) /\ NoLead(queue[e], 0, i) /\ Resting(e) => Arrived(e, d, s)
  /\ HaltedAt(e, s) => Arrived(e, src[e].dst, s)
SentReady(e, d, s) ==
  \A i \in DOMAIN net[e][d] :
    IsMove(net[e][d][i], s) => Awaits(d, s) \/ Ahead(e, d, s, i - 1)

LEMMA ReadyParts ==
  ASSUME NEW s
  PROVE  ReadyFor(s) <=> /\ \A e \in Edges : TakenReady(e, s)
                         /\ \A e, d \in Edges : SentReady(e, d, s)
BY DEF ReadyFor, TakenReady, SentReady

(* A server that takes no command stays ready if nothing that has arrived  *)
(* is taken back and every migration that comes next did so before.        *)
Nearest(e, s) ==
  \A d \in Edges, i \in Nat \ {0} :
    Due(e, s, d, i)' /\ NoLead(queue'[e], 0, i) =>
      \E j \in Nat \ {0} : Due(e, s, d, j) /\ NoLead(queue[e], 0, j)

LEMMA TakenStill ==
  ASSUME TypeOK, NEW s, NEW e \in Edges, ArrivedStill(s), TakenReady(e, s),
         src'[e] = src[e], Nearest(e, s)
  PROVE  TakenReady(e, s)'
<1>1. ASSUME NEW d \in Edges, NEW i \in Nat \ {0},
             Due(e, s, d, i)', NoLead(queue'[e], 0, i), Resting(e)'
      PROVE  Arrived(e, d, s)'
  <2>1. Resting(e)
    BY <1>1 DEF Resting
  <2>2. Arrived(e, d, s)
    BY <1>1, <2>1 DEF Nearest, TakenReady
  <2> QED  BY <2>2 DEF ArrivedStill
<1>2. ASSUME HaltedAt(e, s)' PROVE Arrived(e, src[e].dst, s)'
  <2>1. HaltedAt(e, s) /\ src[e].dst \in Edges
    BY <1>2, SourceUpdate DEF HaltedAt, SrcStages
  <2> QED  BY <2>1 DEF TakenReady, ArrivedStill
<1> QED  BY <1>1, <1>2 DEF TakenReady

LEMMA NearestSame ==
  ASSUME NEW s \in Services, NEW e \in Edges,
         queue'[e] = queue[e], plan' = plan, host' = host
  PROVE  Nearest(e, s)
BY DEF Nearest, Due

LEMMA SentStays ==
  ASSUME TypeOK, NEW s, NEW e \in Edges, NEW d \in Edges, AwaitsStill(s),
         SentReady(e, d, s), net'[e][d] = net[e][d]
  PROVE  SentReady(e, d, s)'
BY DEF SentReady, AwaitsStill, Ahead

(* The centre's orders take nothing and send nothing.                      *)
LEMMA ReadyCentre ==
  ASSUME ~Optimized, TypeOK, TypeOK', EagerInv, NEW s \in Services \ disturbed',
         ReadyFor(s),
         \/ \E t \in Services, e \in Edges :
              Deploy(t, e) \/ DeployFails(t, e) \/ Order(t, e) \/ MonitorService(e, t)
         \/ \E t \in Services : Leave(t) \/ OrderMigrate(t)
         \/ \E n \in notices : PreMigrated(n) \/ Migrated(n)
  PROVE  ReadyFor(s)'
<1>1. AllFollow /\ UNCHANGED <<src, sock, net, dstVars>>
  BY CentreFollows DEF EagerInv
<1>2. AwaitsStill(s) /\ ArrivedStill(s)
  BY <1>1, AwaitsUnchanged, NetSame, ArrivedGrows
<1>3. \A e \in Edges : Nearest(e, s)
  BY <1>1 DEF Nearest, AllFollow, Follows, Carried
<1>4. \A e \in Edges : TakenReady(e, s)'
  BY <1>1, <1>2, <1>3, TakenStill, ReadyParts
<1>5. \A e, d \in Edges : SentReady(e, d, s)'
  BY <1>1, <1>2, SentStays, ReadyParts
<1> QED  BY <1>4, <1>5 DEF ReadyFor, TakenReady, SentReady

(* The source thread announces the preparation before it takes the         *)
(* migration, and sends the migration after it.                            *)
LEMMA ReadySource ==
  ASSUME ~Optimized, TypeOK, TypeOK', EagerInv, NEW s \in Services \ disturbed,
         ReadyFor(s), NEW e \in Edges, SourceStep(e)
  PROVE  ReadyFor(s)'
<1> DEFINE t == src[e]
<1>1. AwaitsStill(s)
  BY SourceOnly, AwaitsUnchanged
<1>2. \/ net' = net
      \/ \E d \in Edges, m \in Datagrams :
           /\ net' = [net EXCEPT ![e][d] = Append(@, m)]
           /\ \/ /\ src[e].stage = "prepared" /\ d = src[e].dst
                 /\ m = Datagram("prepare", src[e].svc, 0)
              \/ /\ src[e].stage = "stopped" /\ src'[e].stage = "sent"
                 /\ d = src[e].dst /\ m.cmd = "migrate" /\ m.svc = src[e].svc
  <2>1. src[e].stage \in {"prepared", "stopped"} =>
          /\ src[e].dst \in Edges
          /\ Datagram("prepare", src[e].svc, 0) \in Datagrams
          /\ Datagram("migrate", src[e].svc, src[e].req) \in Datagrams
    BY SourceUpdate, RequestType, DatagramType DEF SrcStages
  <2> QED  BY <2>1, SourceMachine DEF Datagram
<1>3. NetGrows(s)
  BY <1>2, NetSame, NetAppend
<1>4. ArrivedStill(s)
  BY <1>1, <1>3, ArrivedGrows
<1>5. ASSUME NEW x \in Edges \ {e}
      PROVE  TakenReady(x, s)'
  <2>1. src'[x] = src[x] /\ queue'[x] = queue[x] /\ UNCHANGED <<plan, host>>
    BY SourceOnly
  <2> QED  BY <1>4, <2>1, TakenStill, NearestSame, ReadyParts
<1>6. TakenReady(e, s)'
  <2>1. TakenReady(e, s) /\ queue[e] \in Seq(Commands)
    BY SourceUpdate, ReadyParts
  <2>2. CASE src[e].stage = "idle"
    <3>1. /\ queue[e] # <<>> /\ queue'[e] = Tail(queue[e])
          /\ Head(queue[e]) \in Commands
      BY <2>2, SourceOnly
    <3>2. /\ Len(queue[e]) \in Nat /\ DOMAIN queue[e] = 1 .. Len(queue[e])
          /\ Head(queue[e]) = queue[e][1] /\ 1 \in DOMAIN queue[e]
          /\ \A j, i \in Nat : NoLead(queue'[e], j, i)
                                 <=> NoLead(queue[e], j + 1, i + 1)
      BY <2>1, <3>1, LeadTail
    <3>3. ASSUME NEW d \in Edges, NEW i \in Nat \ {0},
                 Due(e, s, d, i)', NoLead(queue'[e], 0, i), Resting(e)'
          PROVE  Arrived(e, d, s)'
      <4>1. Due(e, s, d, i + 1) /\ i + 1 \in Nat \ {0}
        BY <2>2, <3>3, DueTaken
      <4>2. ~Lead(Head(queue[e]))
        BY <2>2, <3>3, SourceMachine DEF Resting, Lead
      <4>3. NoLead(queue[e], 0 + 1, i + 1)
        BY <3>2, <3>3
      <4>4. NoLead(queue[e], 0, i + 1)
        <5> SUFFICES ASSUME NEW k \in DOMAIN queue[e], 0 < k, k < i + 1
                     PROVE  ~Lead(queue[e][k])
          BY DEF NoLead
        <5>1. k = 1 \/ 1 < k
          BY <3>2
        <5> QED  BY <3>2, <4>2, <4>3, <5>1 DEF NoLead
      <4>5. Arrived(e, d, s)
        BY <2>1, <2>2, <4>1, <4>4 DEF TakenReady, Resting
      <4> QED  BY <1>4, <4>5 DEF ArrivedStill
    <3>4. ASSUME HaltedAt(e, s)' PROVE Arrived(e, src[e].dst, s)'
      <4>1. /\ Head(queue[e]).cmd = "migrate" /\ Head(queue[e]).svc = s
            /\ src'[e].dst = Head(queue[e]).dst
        BY <2>2, <3>1, <3>4, SourceMachine DEF HaltedAt
      <4>2. PICK d \in Edges : d = Head(queue[e]).dst
        BY <3>1 DEF Commands
      <4>3. Due(e, s, d, 1) /\ 1 \in Nat \ {0}
        BY <3>2, <4>1, <4>2 DEF Due, IsMove
      <4>4. \A k \in DOMAIN queue[e] : ~(0 < k /\ k < 1)
        BY <3>2
      <4>5. NoLead(queue[e], 0, 1)
        BY <4>4 DEF NoLead
      <4>6. Arrived(e, d, s)
        BY <2>1, <2>2, <4>3, <4>5 DEF TakenReady, Resting
      <4>7. Arrived(e, d, s)'
        BY <1>4, <4>6 DEF ArrivedStill
      <4> QED  BY <4>1, <4>2, <4>7
    <3> QED  BY <3>3, <3>4 DEF TakenReady
  <2>3. CASE src[e].stage # "idle"
    <3>1. queue'[e] = queue[e] /\ UNCHANGED <<plan, host>>
      BY <2>3, SourceOnly
    <3>2. ~HaltedAt(e, s)'
      BY <2>3, SourceMachine DEF HaltedAt
    <3>3. ASSUME NEW d \in Edges, NEW i \in Nat \ {0},
                 Due(e, s, d, i)', NoLead(queue'[e], 0, i), Resting(e)'
          PROVE  Arrived(e, d, s)'
      <4>1. Due(e, s, d, i) /\ NoLead(queue[e], 0, i)
        BY <3>1, <3>3 DEF Due
      <4>2. Backed(e, s, d, i)
        BY <4>1 DEF EagerInv, BackedAt
      <4>3. src[e].stage = "dead" \/ PreparingFor(e, s, d) \/ Resting(e)
        <5>1. ASSUME NEW j \in DOMAIN queue[e], j < i, PreparesFor(queue[e][j], s, d)
              PROVE  FALSE
          <6>1. 0 < j /\ Lead(queue[e][j])
            BY <2>1, <5>1, LenProperties DEF PreparesFor, Lead
          <6> QED  BY <4>1, <5>1, <6>1 DEF NoLead
        <5> QED  BY <4>2, <5>1 DEF Backed
      <4>4. CASE Resting(e)
        BY <1>4, <2>1, <4>1, <4>4 DEF TakenReady, ArrivedStill
      <4>5. CASE ~Resting(e)
        <5>1. src[e].stage = "prepared" /\ PreparingFor(e, s, d)
          BY <2>3, <3>3, <4>3, <4>5, SourceMachine DEF Resting, PreparingFor
        <5>2. src[e].svc = s /\ src[e].dst = d
          BY <5>1 DEF PreparingFor
        <5>3. PICK m \in Datagrams : m = Datagram("prepare", s, 0)
          BY RequestType, DatagramType
        <5>4. net' = [net EXCEPT ![e][d] = Append(@, m)]
          BY <5>1, <5>2, <5>3, SourceMachine
        <5>5. Len(net'[e][d]) = Len(net[e][d]) + 1
          BY <5>4, NetAppend
        <5>6. net'[e][d][Len(net[e][d]) + 1] = m
          BY <5>4, NetLast
        <5>7. Len(net[e][d]) + 1 \in 1 .. Len(net'[e][d])
          BY <5>5, NetLength
        <5> QED  BY <5>3, <5>6, <5>7 DEF Arrived, Ahead, Datagram
      <4> QED  BY <4>4, <4>5
    <3> QED  BY <3>2, <3>3 DEF TakenReady
  <2> QED  BY <2>2, <2>3
<1>7. ASSUME NEW x \in Edges, NEW y \in Edges
      PROVE  SentReady(x, y, s)'
  <2>1. SentReady(x, y, s)
    BY ReadyParts
  <2>2. CASE net'[x][y] = net[x][y]
    BY <1>1, <2>1, <2>2, SentStays
  <2>3. ASSUME NEW m \in Datagrams, net' = [net EXCEPT ![x][y] = Append(@, m)], x = e,
               \/ m.cmd = "prepare"
               \/ /\ src[e].stage = "stopped" /\ y = src[e].dst
                  /\ m.svc = src[e].svc
        PROVE  SentReady(x, y, s)'
    <3> SUFFICES ASSUME NEW i \in DOMAIN net'[x][y], IsMove(net'[x][y][i], s)
                 PROVE  Awaits(y, s)' \/ Ahead(x, y, s, i - 1)'
      BY DEF SentReady
    <3>1. /\ DOMAIN net[x][y] = 1 .. Len(net[x][y]) /\ Len(net[x][y]) \in Nat
          /\ Len(net'[x][y]) = Len(net[x][y]) + 1
          /\ \A j \in 1 .. Len(net[x][y]) : net'[x][y][j] = net[x][y][j]
          /\ net'[x][y][Len(net[x][y]) + 1] = m
          /\ DOMAIN net'[x][y] = 1 .. Len(net'[x][y])
      <4>1. net'[x][y] \in Seq(Datagrams)
        BY DEF TypeOK
      <4>2. DOMAIN net'[x][y] = 1 .. Len(net'[x][y])
        BY <4>1, LenProperties
      <4>3. DOMAIN net[x][y] = 1 .. Len(net[x][y]) /\ Len(net[x][y]) \in Nat
        BY NetLength
      <4>4. net' = [net EXCEPT ![x][y] = Append(@, m)]
        BY <2>3
      <4>5. Len(net'[x][y]) = Len(net[x][y]) + 1
        BY <4>4, NetAppend
      <4>6. \A j \in 1 .. Len(net[x][y]) : net'[x][y][j] = net[x][y][j]
        BY <4>4, NetAppend
      <4>7. net'[x][y][Len(net[x][y]) + 1] = m
        BY <4>4, NetLast
      <4> QED  BY <4>2, <4>3, <4>5, <4>6, <4>7
    <3>2. CASE i \in 1 .. Len(net[x][y])
      <4>1. Awaits(y, s) \/ Ahead(x, y, s, i - 1)
        BY <2>1, <3>1, <3>2 DEF SentReady
      <4>2. i - 1 \in 0 .. Len(net[x][y])
        BY <3>1, <3>2
      <4> QED  BY <1>1, <1>3, <4>1, <4>2 DEF AwaitsStill, NetGrows
    <3>3. CASE i = Len(net[x][y]) + 1
      <4>1. HaltedAt(e, s) /\ y = src[e].dst
        BY <2>3, <3>1, <3>3 DEF HaltedAt, IsMove
      <4>2. Arrived(x, y, s)
        BY <2>3, <4>1, ReadyParts DEF TakenReady
      <4>3. i - 1 = Len(net[x][y]) /\ Len(net[x][y]) \in 0 .. Len(net[x][y])
        BY <3>1, <3>3
      <4>4. Awaits(y, s) \/ Ahead(x, y, s, i - 1)
        BY <4>2, <4>3 DEF Arrived
      <4> QED  BY <1>1, <1>3, <4>3, <4>4 DEF AwaitsStill, NetGrows
    <3> QED  BY <3>1, <3>2, <3>3, SMTT(30)
  <2>4. CASE net'[x][y] # net[x][y]
    <3>1. PICK d \in Edges, m \in Datagrams :
            /\ net' = [net EXCEPT ![e][d] = Append(@, m)]
            /\ \/ m.cmd = "prepare"
               \/ /\ src[e].stage = "stopped" /\ d = src[e].dst
                  /\ m.svc = src[e].svc
      BY <1>2, <2>4 DEF Datagram
    <3>2. x = e /\ y = d
      BY <2>4, <3>1, NetAppend
    <3> QED  BY <2>3, <3>1, <3>2
  <2> QED  BY <2>2, <2>4
<1> QED  BY <1>5, <1>6, <1>7 DEF ReadyFor, TakenReady, SentReady

(* A datagram taken from the network leaves the others what they need, if  *)
(* the destination has it when the datagram itself was what they needed.   *)
LEMMA ReadyTail ==
  ASSUME TypeOK, NEW s \in Services, ReadyFor(s), NEW e \in Edges, NEW d \in Edges,
         NEW k, Receives(e, d, k), AwaitsStill(s),
         UNCHANGED <<queue, src, plan, host>>,
         k = "prepare" /\ Head(net[e][d]).svc = s => Awaits(d, s)'
  PROVE  ReadyFor(s)'
<1>1. \A x, y \in Edges : x # e \/ y # d => net'[x][y] = net[x][y]
  BY NetTail
<1>2. /\ Len(net[e][d]) \in Nat /\ Len(net[e][d]) # 0
      /\ Len(net'[e][d]) = Len(net[e][d]) - 1
      /\ DOMAIN net'[e][d] = 1 .. Len(net[e][d]) - 1
      /\ \A i \in 1 .. Len(net[e][d]) - 1 : net'[e][d][i] = net[e][d][i + 1]
  BY NetTail
<1>3. ASSUME NEW n \in 1 .. Len(net[e][d]), Ahead(e, d, s, n)
      PROVE  Awaits(d, s)' \/ Ahead(e, d, s, n - 1)'
  <2>1. CASE k = "prepare" /\ Head(net[e][d]).svc = s
    BY <2>1
  <2>2. CASE ~(k = "prepare" /\ Head(net[e][d]).svc = s)
    BY <1>3, <2>2, NetTail
  <2> QED  BY <2>1, <2>2
<1>4. ArrivedStill(s)
  <2> SUFFICES ASSUME NEW x \in Edges, NEW y \in Edges, Arrived(x, y, s)
               PROVE  Arrived(x, y, s)'
    BY DEF ArrivedStill
  <2>1. CASE Awaits(y, s)
    BY <2>1 DEF AwaitsStill, Arrived
  <2>2. CASE Ahead(x, y, s, Len(net[x][y])) /\ ~(x = e /\ y = d)
    BY <1>1, <2>2 DEF Arrived, Ahead
  <2>3. CASE Ahead(e, d, s, Len(net[e][d])) /\ x = e /\ y = d
    <3>1. PICK n \in 1 .. Len(net[e][d]) : n = Len(net[e][d])
      BY <1>2
    <3>2. Ahead(e, d, s, n)
      BY <2>3, <3>1
    <3>3. Awaits(d, s)' \/ Ahead(e, d, s, n - 1)'
      BY <1>3, <3>2
    <3>4. n - 1 = Len(net'[e][d])
      BY <1>2, <3>1
    <3> QED  BY <2>3, <3>3, <3>4 DEF Arrived, Ahead
  <2> QED  BY <2>1, <2>2, <2>3 DEF Arrived
<1>5. \A x \in Edges : TakenReady(x, s)'
  BY <1>4, TakenStill, NearestSame, ReadyParts
<1>6. ASSUME NEW x \in Edges, NEW y \in Edges
      PROVE  SentReady(x, y, s)'
  <2>1. SentReady(x, y, s)
    BY ReadyParts
  <2>2. CASE ~(x = e /\ y = d)
    BY <1>1, <2>1, <2>2, SentStays
  <2>3. CASE x = e /\ y = d
    <3> SUFFICES ASSUME NEW i \in 1 .. Len(net[e][d]) - 1, IsMove(net'[e][d][i], s)
                 PROVE  Awaits(d, s)' \/ Ahead(e, d, s, i - 1)'
      BY <1>2, <2>3 DEF SentReady
    <3>1. i + 1 \in DOMAIN net[e][d] /\ (i + 1) - 1 = i /\ i \in 1 .. Len(net[e][d])
      BY <1>2, NetLength
    <3>2. IsMove(net[e][d][i + 1], s)
      BY <1>2
    <3>3. Awaits(d, s) \/ Ahead(e, d, s, i)
      BY <2>1, <2>3, <3>1, <3>2 DEF SentReady
    <3> QED  BY <1>3, <3>1, <3>3 DEF AwaitsStill
  <2> QED  BY <2>2, <2>3
<1> QED  BY <1>5, <1>6 DEF ReadyFor, TakenReady, SentReady

(* When the destination takes the migration itself, there is no other.     *)
LEMMA ReadyTaken ==
  ASSUME TypeOK, NEW s \in Services, Inductive(s), NEW e \in Edges, NEW d \in Edges,
         DestUnpack(e, d), Head(net[e][d]).svc = s,
         UNCHANGED <<queue, src, plan, host>>
  PROVE  ReadyFor(s)'
<1>1. Receives(e, d, "migrate")
  BY DEF DestUnpack
<1>2. /\ \A x, y \in Edges : x # e \/ y # d => net'[x][y] = net[x][y]
      /\ Len(net[e][d]) \in Nat /\ Len(net[e][d]) # 0
      /\ DOMAIN net'[e][d] = 1 .. Len(net[e][d]) - 1
      /\ \A i \in 1 .. Len(net[e][d]) - 1 : net'[e][d][i] = net[e][d][i + 1]
      /\ Head(net[e][d]) = net[e][d][1]
  BY <1>1, NetTail, ZenonT(60)
<1>3. DOMAIN net[e][d] = 1 .. Len(net[e][d])
  BY NetLength
<1>4. 1 \in DOMAIN net[e][d] /\ IsMove(net[e][d][1], s)
  BY <1>1, <1>2, <1>3 DEF Receives, IsMove
<1>5. HasMove(net[e][d], s)
  BY <1>4 DEF HasMove
<1>6. Sent(s) /\ ~Ordered(s) /\ ~Halted(s)
  BY <1>5 DEF Sent, Inductive, OneBaton
<1>7. ASSUME NEW x \in Edges, NEW y \in Edges, NEW i \in DOMAIN net'[x][y],
             IsMove(net'[x][y][i], s)
      PROVE  FALSE
  <2>1. CASE x # e \/ y # d
    <3>1. HasMove(net[x][y], s)
      BY <1>2, <1>7, <2>1 DEF HasMove
    <3> QED  BY <1>5, <2>1, <3>1 DEF Inductive, Placed
  <2>2. CASE x = e /\ y = d
    <3>1. i \in 1 .. Len(net[e][d]) - 1
      BY <1>2, <2>2
    <3>2. i + 1 \in DOMAIN net[e][d] /\ i + 1 # 1
      BY <1>2, <1>3, <3>1
    <3>3. IsMove(net[e][d][i + 1], s)
      BY <1>2, <1>7, <2>2, <3>1
    <3> QED  BY <1>4, <3>2, <3>3 DEF Inductive, OneBaton, SingleMove
  <2> QED  BY <2>1, <2>2
<1>8. ASSUME NEW x \in Edges PROVE ~HaltedAt(x, s)'
  BY <1>6 DEF Halted, HaltedAt
<1>9. ASSUME NEW x \in Edges, NEW y \in Edges, NEW i \in Nat, Due(x, s, y, i)'
      PROVE  FALSE
  <2>1. plan[s].phase # "prepared"
    BY <1>5 DEF Inductive, Placed, Moving
  <2> QED  BY <1>6, <1>9, <2>1 DEF Due, Ordered, HasMove
<1> QED  BY <1>7, <1>8, <1>9, ZenonT(60) DEF ReadyFor

LEMMA ReadyDest ==
  ASSUME TypeOK, TypeOK', Recorded, NEW s \in Services, Inductive(s), ReadyFor(s),
         NEW d \in Edges, DestStep(d)
  PROVE  ReadyFor(s)'
<1>1. UNCHANGED <<queue, src, plan, host>>
  BY DestMachine
<1>2. CASE \E e \in Edges : DestUnpack(e, d) /\ Head(net[e][d]).svc = s
  BY <1>1, <1>2, ReadyTaken
<1>3. CASE \A e \in Edges : DestUnpack(e, d) => Head(net[e][d]).svc # s
  <2>1. AwaitsStill(s)
    BY <1>3, DestMachine
  <2>2. ASSUME NEW e \in Edges, DestUnpack(e, d)
        PROVE  ReadyFor(s)'
    <3>1. Receives(e, d, "migrate")
      BY <2>2, Zenon DEF DestUnpack
    <3> QED  BY <1>1, <2>1, <3>1, ReadyTail, Zenon
  <2>3. ASSUME NEW e \in Edges, DestPrepare(e, d)
        PROVE  ReadyFor(s)'
    <3>1. Receives(e, d, "prepare")
      BY <2>3 DEF DestPrepare
    <3>2. ASSUME Head(net[e][d]).svc = s PROVE Awaits(d, s)'
      <4>1. dst \in [Edges -> Tasks(DstStages)]
        BY ZenonT(60) DEF TypeOK
      <4>2. DstDies(d) \/ DstGoes(d, "pulled", Head(net[e][d]))
        BY <2>3 DEF DestPrepare
      <4>3. \/ dst'[d].stage = "dead"
            \/ dst'[d].stage = "pulled" /\ dst'[d].svc = s
        BY <3>2, <4>1, <4>2 DEF DstDies, DstGoes, Dead
      <4> QED  BY <4>3 DEF Awaits
    <3> QED  BY <1>1, <2>1, <3>1, <3>2, ReadyTail, ZenonT(60)
  <2>4. ASSUME net' = net PROVE ReadyFor(s)'
    <3>1. ArrivedStill(s)
      BY <2>1, <2>4, NetSame, ArrivedGrows
    <3>2. \A e \in Edges : TakenReady(e, s)'
      BY <1>1, <3>1, TakenStill, NearestSame, ReadyParts
    <3>3. \A e, y \in Edges : SentReady(e, y, s)'
      BY <2>1, <2>4, SentStays, ReadyParts
    <3> QED  BY <3>2, <3>3 DEF ReadyFor, TakenReady, SentReady
  <2>5. CASE \/ DestCreate(d) \/ DestRestore(d) \/ DestStart(d) \/ DestAnnounce(d)
             \/ DestList(d) \/ DestResnap(d) \/ DestResnapDone(d)
    BY <2>4, <2>5 DEF DestCreate, DestRestore, DestStart, DestAnnounce, DestList,
       DestResnap, DestResnapDone
  <2> QED  BY <2>2, <2>3, <2>5 DEF DestStep
<1> QED  BY <1>2, <1>3

LEMMA ReadyStep ==
  ASSUME ~Optimized, "loss" \notin Faults, TypeOK, TypeOK', IInv, EagerInv, ReadyInv,
         [Next]_vars
  PROVE  ReadyInv'
<1>1. Recorded /\ \A s \in Services \ disturbed : ReadyFor(s) /\ Inductive(s)
  BY DEF ReadyInv, Recorded, IInv
<1>2. UNCHANGED dst /\ UNCHANGED dstRecords => Recorded'
  BY <1>1 DEF Recorded
<1>3. ASSUME NEW s \in Services, UNCHANGED vars, ReadyFor(s)
      PROVE  ReadyFor(s)'
  <2>1. UNCHANGED <<queue, src, net, dst, dstRecords, reserved, plan, host>>
    BY <1>3 DEF vars, srcVars, dstVars, centreVars
  <2>2. /\ \A d \in Edges : Awaits(d, s)' <=> Awaits(d, s)
        /\ \A e, d \in Edges : \A n : Ahead(e, d, s, n)' <=> Ahead(e, d, s, n)
    BY <2>1 DEF Awaits, Ahead
  <2>3. ArrivedStill(s)
    BY <2>1, <2>2 DEF ArrivedStill, Arrived
  <2>4. \A e \in Edges : Nearest(e, s)
    BY <2>1, NearestSame
  <2>5. \A e \in Edges : TakenReady(e, s)'
    BY <1>3, <2>1, <2>3, <2>4, ReadyParts, TakenStill
  <2>6. \A e, d \in Edges : SentReady(e, d, s)'
    BY <1>3, <2>1, <2>2, ReadyParts DEF SentReady
  <2> QED  BY <2>5, <2>6 DEF ReadyFor, TakenReady, SentReady
<1>4. \A e, d \in Edges : \A i : ~Lose(e, d, i)
  BY DEF Lose
<1>5. Recorded'
  <2>1. CASE UNCHANGED vars
    BY <1>2, <2>1 DEF vars, dstVars
  <2>2. CASE \E d \in Edges : DestStep(d)
    BY <1>1, <2>2, DestMachine
  <2>3. CASE \E e \in Edges : SourceStep(e)
    BY <1>2, <2>3, SourceOnly DEF dstVars
  <2>4. CASE \/ \E t \in Services, e \in Edges :
                  Deploy(t, e) \/ DeployFails(t, e) \/ Order(t, e) \/ MonitorService(e, t)
             \/ \E t \in Services : Leave(t) \/ OrderMigrate(t)
             \/ \E n \in notices : PreMigrated(n) \/ Migrated(n)
    BY <1>2, <2>4, CentreFollows DEF dstVars, EagerInv
  <2> QED  BY <1>4, <2>1, <2>2, <2>3, <2>4 DEF Next
<1>6. ASSUME NEW s \in Services \ disturbed'
      PROVE  ReadyFor(s)'
  <2>1. s \in Services /\ ReadyFor(s) /\ Inductive(s)
    BY <1>1, DisturbedGrows
  <2>2. s \in Services \ disturbed
    BY <1>1, DisturbedGrows
  <2>3. CASE UNCHANGED vars
    BY <1>3, <2>1, <2>3
  <2>4. ASSUME NEW e \in Edges, SourceStep(e) PROVE ReadyFor(s)'
    BY <2>1, <2>2, <2>4, ReadySource
  <2>5. ASSUME NEW e \in Edges, DestStep(e) PROVE ReadyFor(s)'
    BY <1>1, <2>1, <2>5, ReadyDest DEF ReadyInv
  <2>6. CASE \/ \E t \in Services, e \in Edges :
                  Deploy(t, e) \/ DeployFails(t, e) \/ Order(t, e) \/ MonitorService(e, t)
             \/ \E t \in Services : Leave(t) \/ OrderMigrate(t)
             \/ \E n \in notices : PreMigrated(n) \/ Migrated(n)
    BY <2>1, <2>6, ReadyCentre
  <2> QED  BY <1>4, <2>3, <2>4, <2>5, <2>6 DEF Next
<1> QED  BY <1>5, <1>6 DEF ReadyInv, Recorded

(* Under the threshold planners, and as long as no datagram gets lost, the *)
(* destination of a migration knows of it (the KeyErrors of                *)
(* migrate_dest.py:111 and 113 do not occur), for any number of services,  *)
(* servers and moves.                                                      *)
THEOREM DestinationReady ==
  ASSUME ~Optimized, "loss" \notin Faults
  PROVE  Spec => []DestReady
<1>1. Init => ReadyInv
  <2> SUFFICES ASSUME Init PROVE ReadyInv
    OBVIOUS
  <2>1. \A s \in Services, e, d \in Edges, i \in Nat : ~Due(e, s, d, i)
    BY DEF Init, Due, NoPlan
  <2>2. /\ \A s, e : e \in Edges => ~HaltedAt(e, s)
        /\ \A d \in Edges : dst[d].stage # "pulled"
        /\ \A e, d \in Edges : net[e][d] = <<>>
    BY DEF Init, HaltedAt, Idle
  <2> QED  BY <2>1, <2>2 DEF ReadyInv, ReadyFor
<1>2. TypeOK /\ TypeOK' /\ IInv /\ EagerInv /\ ReadyInv /\ [Next]_vars => ReadyInv'
  BY ReadyStep
<1>3. TypeOK /\ ReadyInv => DestReady
  <2> SUFFICES ASSUME TypeOK, ReadyInv, NEW e \in Edges, NEW d \in Edges,
                      NEW i \in DOMAIN net[e][d], net[e][d][i].cmd = "migrate",
                      net[e][d][i].svc \notin disturbed
               PROVE  LET m == net[e][d][i] IN
                      \/ dst[d].stage = "dead"
                      \/ \E j \in 1 .. i - 1 :
                           net[e][d][j].cmd = "prepare" /\ net[e][d][j].svc = m.svc
                      \/ dst[d].stage = "pulled" /\ dst[d].svc = m.svc
                      \/ m.svc \in dstRecords[d] /\ m.svc \in reserved[d]
    BY DEF DestReady
  <2>1. net[e][d][i] \in Datagrams
    <3>1. net[e][d] \in Seq(Datagrams)
      BY NetUpdate
    <3> QED  BY <3>1, NetLength, ElementOfSeq
  <2>2. PICK s \in Services \ disturbed : s = net[e][d][i].svc
    BY <2>1 DEF Datagrams
  <2>3. Awaits(d, s) \/ Ahead(e, d, s, i - 1)
    BY <2>2 DEF ReadyInv, ReadyFor, IsMove
  <2> QED  BY <2>2, <2>3 DEF Awaits, Ahead
<1> QED  BY <1>1, <1>2, <1>3, EagerInvariance, Invariance, TypeCorrect, PTL DEF Spec

-----------------------------------------------------------------------------
(* The first migration keeps the state.                                    *)

(* The queues, seen from s, only get shorter: nothing new waits, and what  *)
(* is left stays in its order; and so does the network.                    *)
QueueSmaller(s) ==
  \A e \in Edges :
    /\ Pending(e, s)' => Pending(e, s)
    /\ \A d \in Edges : Leading(e, s, d)' => Leading(e, s, d)
    /\ HasMove(queue'[e], s) => HasMove(queue[e], s)
    /\ LastMove(queue[e], s) => LastMove(queue'[e], s)

NetSmaller(s) ==
  \A e, d \in Edges : \A k \in {"prepare", "migrate"} :
    SentTo(e, d, s, k)' => SentTo(e, d, s, k)

(* They do when they stay as they are.                                     *)
LEMMA SmallerSame ==
  ASSUME NEW s
  PROVE  /\ queue' = queue => QueueSmaller(s)
         /\ net' = net => NetSmaller(s)
<1>1. queue' = queue => \A e, d \in Edges : /\ Pending(e, s)' <=> Pending(e, s)
                                            /\ Leading(e, s, d)' <=> Leading(e, s, d)
  BY DEF Pending, Leading
<1>2. queue' = queue => QueueSmaller(s)
  BY <1>1 DEF QueueSmaller
<1>3. net' = net => NetSmaller(s)
  BY DEF NetSmaller, SentTo
<1> QED  BY <1>2, <1>3

(* A service whose commands all have gone has none that leads.             *)
LEMMA LeadingPends ==
  ASSUME NEW s, NEW e
  PROVE  /\ (\E d : Leading(e, s, d)) => Pending(e, s)
         /\ HasMove(queue[e], s) => Pending(e, s)
         /\ ~Pending(e, s) => LastMove(queue[e], s)
BY DEF Leading, Pending, HasMove, LastMove, Leads, IsMove

(* ... and a move is one that leads.                                       *)
LEMMA MoveLeads ==
  ASSUME TypeOK, NEW e \in Edges, NEW s, HasMove(queue[e], s)
  PROVE  \E d \in Edges : Leading(e, s, d)
<1>1. queue[e] \in Seq(Commands)
  BY SourceUpdate
<1>2. PICK i \in DOMAIN queue[e] : IsMove(queue[e][i], s)
  BY DEF HasMove
<1>3. queue[e][i] \in Commands
  BY <1>1, <1>2, ElementOfSeq, LenProperties
<1>4. queue[e][i].dst \in Edges
  BY <1>3 DEF Commands
<1> QED  BY <1>2, <1>4 DEF Leading, Leads, IsMove

(* What the source thread finds at the head of its queue, and what it      *)
(* leaves there.                                                           *)
LEMMA QueueTaken ==
  ASSUME TypeOK, NEW e \in Edges, NEW k, Takes(e, k), NEW c, c = Head(queue[e])
  PROVE  /\ c \in Commands /\ c.cmd = k /\ Pending(e, c.svc)
         /\ k \in {"prepare", "migrate"} => Leading(e, c.svc, c.dst)
         /\ k = "migrate" =>
              /\ HasMove(queue[e], c.svc)
              /\ LastMove(queue[e], c.svc) => \A d : ~Leading(e, c.svc, d)'
         /\ \A s : QueueSmaller(s)
<1>1. /\ queue \in [Edges -> Seq(Commands)] /\ queue[e] \in Seq(Commands)
      /\ queue[e] # <<>> /\ Head(queue[e]).cmd = k
  BY SourceUpdate DEF Takes
<1>2. PICK q : q = queue[e]
  OBVIOUS
<1>3. /\ q \in Seq(Commands) /\ q # <<>> /\ Len(q) \in Nat /\ Len(q) >= 1
      /\ Head(q) = q[1] /\ DOMAIN q = 1 .. Len(q) /\ q[1] \in Commands
  <2>1. Len(q) \in Nat /\ DOMAIN q = 1 .. Len(q) /\ Len(q) # 0
    BY <1>1, <1>2, LenProperties, EmptySeq
  <2>2. Len(q) >= 1 /\ 1 \in DOMAIN q
    BY <2>1
  <2> QED  BY <1>1, <1>2, <2>1, <2>2, HeadTailProperties, ElementOfSeq
<1>4. PICK r : r = Tail(q)
  OBVIOUS
<1>5. /\ r \in Seq(Commands) /\ DOMAIN r = 1 .. Len(q) - 1
      /\ \A i \in DOMAIN r : i + 1 \in DOMAIN q /\ r[i] = q[i + 1]
  BY <1>3, <1>4, HeadTailProperties, LenProperties
<1>6. \A x \in Edges : queue'[x] = IF x = e THEN r ELSE queue[x]
  BY <1>1, <1>2, <1>4 DEF Takes
<1>7. ASSUME NEW s  PROVE  QueueSmaller(s)
  <2>1. ASSUME NEW x \in Edges, Pending(x, s)'  PROVE Pending(x, s)
    <3>1. CASE x = e
      <4>1. PICK i \in DOMAIN r : r[i].svc = s
        BY <1>6, <2>1, <3>1 DEF Pending
      <4> QED  BY <1>2, <1>5, <3>1, <4>1 DEF Pending
    <3> QED  BY <1>6, <2>1, <3>1 DEF Pending
  <2>2. ASSUME NEW x \in Edges, NEW d \in Edges, Leading(x, s, d)'
        PROVE  Leading(x, s, d)
    <3>1. CASE x = e
      <4>1. PICK i \in DOMAIN r : Leads(r[i], s) /\ r[i].dst = d
        BY <1>6, <2>2, <3>1 DEF Leading
      <4> QED  BY <1>2, <1>5, <3>1, <4>1 DEF Leading
    <3> QED  BY <1>6, <2>2, <3>1 DEF Leading
  <2>3. ASSUME NEW x \in Edges, HasMove(queue'[x], s)
        PROVE  HasMove(queue[x], s)
    BY <1>2, <1>5, <1>6, <2>3 DEF HasMove
  <2>4. ASSUME NEW x \in Edges, LastMove(queue[x], s)
        PROVE  LastMove(queue'[x], s)
    <3>1. CASE x = e
      <4>1. LastMove(q, s) => LastMove(r, s)
        BY <1>3, <1>5 DEF LastMove
      <4> QED  BY <1>2, <1>6, <2>4, <3>1, <4>1
    <3> QED  BY <1>6, <2>4, <3>1
  <2> QED  BY <2>1, <2>2, <2>3, <2>4 DEF QueueSmaller
<1>8. c = Head(q)
  BY <1>2
<1>9. /\ Pending(e, c.svc)
      /\ k \in {"prepare", "migrate"} => Leading(e, c.svc, c.dst)
      /\ k = "migrate" => HasMove(queue[e], c.svc)
  BY <1>1, <1>2, <1>3, <1>8 DEF Pending, Leading, Leads, HasMove, IsMove
<1>10. ASSUME k = "migrate", LastMove(queue[e], c.svc), NEW d
       PROVE  ~Leading(e, c.svc, d)'
  <2>1. \A i \in DOMAIN r : ~Leads(r[i], c.svc)
    <3>1. IsMove(q[1], c.svc) /\ 1 \in DOMAIN q
      BY <1>1, <1>2, <1>3, <1>8, <1>10 DEF IsMove
    <3>2. ASSUME NEW i \in DOMAIN r  PROVE  ~Leads(r[i], c.svc)
      <4>1. i + 1 \in DOMAIN q /\ i + 1 > 1 /\ r[i] = q[i + 1]
        BY <1>3, <1>5
      <4>2. LastMove(q, c.svc)
        BY <1>2, <1>10
      <4> QED  BY <3>1, <4>1, <4>2 DEF LastMove
    <3> QED  BY <3>2
  <2>2. queue'[e] = r
    BY <1>6
  <2> QED  BY <2>1, <2>2 DEF Leading
<1> QED  BY <1>1, <1>2, <1>3, <1>7, <1>8, <1>9, <1>10

(* A queue that gets commands at its end.                                  *)
Grows(e, t) == queue' = [queue EXCEPT ![e] = @ \o t]
LeadIn(t, s, d) == \E i \in DOMAIN t : Leads(t[i], s) /\ t[i].dst = d

LEMMA QueueGrown ==
  ASSUME TypeOK, NEW e \in Edges, NEW t \in Seq(Commands),
         Grows(e, t), NEW s, NEW x \in Edges
  PROVE  /\ Pending(x, s)' =>
              Pending(x, s) \/ (x = e /\ \E i \in DOMAIN t : t[i].svc = s)
         /\ \A d \in Edges : Leading(x, s, d)' =>
              Leading(x, s, d) \/ (x = e /\ LeadIn(t, s, d))
         /\ HasMove(queue'[x], s) =>
              HasMove(queue[x], s) \/ (x = e /\ HasMove(t, s))
         /\ /\ LastMove(queue[x], s)
            /\ x = e => \/ ~HasMove(queue[e], s) /\ LastMove(t, s)
                        \/ \A i \in DOMAIN t : ~Leads(t[i], s)
            => LastMove(queue'[x], s)
<1>1. queue \in [Edges -> Seq(Commands)] /\ queue[e] \in Seq(Commands)
  BY SourceUpdate
<1>2. PICK q : q = queue[e]
  OBVIOUS
<1>3. PICK r : r = q \o t
  OBVIOUS
<1>4. queue'[x] = IF x = e THEN r ELSE queue[x]
  BY <1>1, <1>2, <1>3 DEF Grows
<1>5. /\ Len(q) \in Nat /\ Len(t) \in Nat
      /\ DOMAIN q = 1 .. Len(q) /\ DOMAIN t = 1 .. Len(t)
      /\ DOMAIN r = 1 .. Len(q) + Len(t)
      /\ \A i \in DOMAIN r : r[i] = IF i <= Len(q) THEN q[i] ELSE t[i - Len(q)]
  BY <1>1, <1>2, <1>3, LenProperties, ConcatProperties
<1>6. ASSUME NEW i \in DOMAIN r
      PROVE  \/ i \in DOMAIN q /\ r[i] = q[i] /\ i <= Len(q)
             \/ i - Len(q) \in DOMAIN t /\ r[i] = t[i - Len(q)] /\ i > Len(q)
  BY <1>5
<1>7. CASE x # e
  BY <1>4, <1>7 DEF Pending, Leading
<1>8. CASE x = e
  <2>1. queue'[x] = r /\ queue[x] = q
    BY <1>2, <1>4, <1>8
  <2>3. Pending(x, s)' => Pending(x, s) \/ \E i \in DOMAIN t : t[i].svc = s
    <3>1. SUFFICES ASSUME NEW i \in DOMAIN r, r[i].svc = s
                   PROVE  Pending(x, s) \/ \E j \in DOMAIN t : t[j].svc = s
      BY <2>1 DEF Pending
    <3> QED  BY <1>6, <2>1, <3>1 DEF Pending
  <2>4. ASSUME NEW d \in Edges, Leading(x, s, d)'
        PROVE  Leading(x, s, d) \/ LeadIn(t, s, d)
    <3>1. PICK i \in DOMAIN r : Leads(r[i], s) /\ r[i].dst = d
      BY <2>1, <2>4 DEF Leading
    <3> QED  BY <1>6, <2>1, <3>1 DEF Leading, LeadIn
  <2>5. HasMove(r, s) => HasMove(q, s) \/ HasMove(t, s)
    BY <1>6 DEF HasMove
  <2>6. ASSUME LastMove(q, s), ~HasMove(q, s) /\ LastMove(t, s)
        PROVE  LastMove(r, s)
    <3>1. SUFFICES ASSUME NEW i \in DOMAIN r, NEW j \in DOMAIN r,
                          IsMove(r[i], s), j > i
                   PROVE  ~Leads(r[j], s)
      BY DEF LastMove
    <3>2. i - Len(q) \in DOMAIN t /\ r[i] = t[i - Len(q)] /\ i > Len(q)
      BY <1>6, <2>6, <3>1 DEF HasMove
    <3>3. /\ j - Len(q) \in DOMAIN t /\ r[j] = t[j - Len(q)]
          /\ j - Len(q) > i - Len(q)
      BY <1>5, <1>6, <3>1, <3>2
    <3> QED  BY <2>6, <3>1, <3>2, <3>3 DEF LastMove
  <2>7. ASSUME LastMove(q, s), \A i \in DOMAIN t : ~Leads(t[i], s)
        PROVE  LastMove(r, s)
    <3>1. SUFFICES ASSUME NEW i \in DOMAIN r, NEW j \in DOMAIN r,
                          IsMove(r[i], s), j > i
                   PROVE  ~Leads(r[j], s)
      BY DEF LastMove
    <3>2. CASE j - Len(q) \in DOMAIN t /\ r[j] = t[j - Len(q)]
      BY <2>7, <3>2
    <3>3. CASE j \in DOMAIN q /\ r[j] = q[j] /\ j <= Len(q)
      <4>1. i \in DOMAIN q /\ r[i] = q[i]
        BY <1>5, <1>6, <3>1, <3>3
      <4> QED  BY <2>7, <3>1, <3>3, <4>1 DEF LastMove
    <3> QED  BY <1>6, <3>2, <3>3
  <2> QED  BY <1>8, <2>1, <2>3, <2>4, <2>5, <2>6, <2>7
<1> QED  BY <1>7, <1>8

(* A served request puts only measurements of its service into the queue,  *)
(* and none if there is no entry.                                          *)
LEMMA TriggeredFor ==
  ASSUME TypeOK, NEW e \in Edges, NEW s \in Services,
         NEW i \in DOMAIN Triggered(e, s)
  PROVE  /\ entries[e][s] # <<>>
         /\ Triggered(e, s)[i].svc = s
         /\ Triggered(e, s)[i].cmd \in {"pre_measure", "measure"}
<1> DEFINE hits == {j \in DOMAIN entries[e][s] :
                 entries[e][s][j] + 1 \in {FirstMeasure, FirstMeasure + 1}}
           nth(k) == CHOOSE h \in hits : Cardinality({j \in hits : j <= h}) = k
           c(k) == Command(IF entries[e][s][nth(k)] + 1 = FirstMeasure
                           THEN "pre_measure" ELSE "measure", s, e, 0)
<1>1. Triggered(e, s) = [k \in 1 .. Cardinality(hits) |-> c(k)]
  BY DEF Triggered
<1>2. i \in 1 .. Cardinality(hits) /\ Triggered(e, s)[i] = c(i)
  BY <1>1
<1>3. c(i).svc = s /\ c(i).cmd \in {"pre_measure", "measure"}
  BY DEF Command
<1>4. ASSUME entries[e][s] = <<>>  PROVE  FALSE
  <2>1. hits = {}
    BY <1>4
  <2>2. Cardinality(hits) = 0
    BY <2>1, FS_EmptySet
  <2> QED  BY <1>2, <2>2
<1> QED  BY <1>2, <1>3, <1>4, Zenon

(* The network: one datagram more, or one less.                            *)
Sends(e, d, k, t, r) ==
  net' = [net EXCEPT ![e][d] = Append(@, Datagram(k, t, r))]

LEMMA SentMore ==
  ASSUME TypeOK, NEW e \in Edges, NEW d \in Edges, NEW k \in {"prepare", "migrate"},
         NEW t \in Services, NEW r \in 0 .. RequestCap,
         Sends(e, d, k, t, r)
  PROVE  \A x, y \in Edges : \A s, l : SentTo(x, y, s, l)' =>
           SentTo(x, y, s, l) \/ (x = e /\ y = d /\ l = k /\ s = t)
<1> SUFFICES ASSUME NEW x \in Edges, NEW y \in Edges, NEW s, NEW l,
                    SentTo(x, y, s, l)'
             PROVE  SentTo(x, y, s, l) \/ (x = e /\ y = d /\ l = k /\ s = t)
  OBVIOUS
<1>1. PICK q : q = net[e][d]
  OBVIOUS
<1>2. PICK m : m = Datagram(k, t, r)
  OBVIOUS
<1>3. m.cmd = k /\ m.svc = t /\ m \in Datagrams
  BY <1>2 DEF Datagram, Datagrams
<1>4. /\ net \in [Edges -> [Edges -> Seq(Datagrams)]] /\ q \in Seq(Datagrams)
      /\ Len(q) \in Nat /\ DOMAIN q = 1 .. Len(q)
  BY <1>1, NetUpdate, LenProperties
<1>5. net'[x][y] = IF x = e /\ y = d THEN Append(q, m) ELSE net[x][y]
  BY <1>1, <1>2, <1>4 DEF Sends
<1>6. PICK a : a = Append(q, m)
  OBVIOUS
<1>7. /\ DOMAIN a = 1 .. Len(q) + 1
      /\ \A j \in 1 .. Len(q) : a[j] = q[j]
      /\ a[Len(q) + 1] = m
  BY <1>3, <1>4, <1>6, AppendProperties, LenProperties
<1>8. CASE x = e /\ y = d
  <2>1. PICK i \in DOMAIN a : a[i].cmd = l /\ a[i].svc = s
    BY <1>5, <1>6, <1>8 DEF SentTo
  <2>2. i \in DOMAIN q \/ i = Len(q) + 1
    <3>1. Len(q) \in Nat /\ DOMAIN q = 1 .. Len(q) /\ i \in 1 .. Len(q) + 1
      BY <1>4, <1>7, ZenonT(60)
    <3>2. PICK n \in Nat : n = Len(q)
      BY <3>1
    <3> QED  BY <3>1, <3>2
  <2> QED  BY <1>1, <1>3, <1>4, <1>7, <1>8, <2>1, <2>2 DEF SentTo
<1> QED  BY <1>5, <1>8 DEF SentTo

LEMMA SentLess ==
  ASSUME TypeOK, NEW e \in Edges, NEW d \in Edges,
         \/ \E k : Receives(e, d, k)
         \/ \E i \in DOMAIN net[e][d] : Lose(e, d, i)
  PROVE  \A s : NetSmaller(s)
<1>1. PICK q : q = net[e][d]
  OBVIOUS
<1>2. /\ net \in [Edges -> [Edges -> Seq(Datagrams)]] /\ q \in Seq(Datagrams)
      /\ Len(q) \in Nat /\ DOMAIN q = 1 .. Len(q)
  BY <1>1, NetUpdate, LenProperties
<1>3. \E r : /\ net' = [net EXCEPT ![e][d] = r]
             /\ \A j \in DOMAIN r : \E i \in DOMAIN q : r[j] = q[i]
  <2>1. CASE \E k : Receives(e, d, k)
    <3>1. q # <<>> /\ net' = [net EXCEPT ![e][d] = Tail(q)]
      BY <1>1, <2>1 DEF Receives
    <3>2. /\ Tail(q) \in Seq(Datagrams) /\ DOMAIN Tail(q) = 1 .. Len(q) - 1
          /\ \A j \in 1 .. Len(q) - 1 : Tail(q)[j] = q[j + 1]
      BY <1>2, <3>1, HeadTailProperties, LenProperties
    <3>3. \A j \in DOMAIN Tail(q) : j + 1 \in DOMAIN q /\ Tail(q)[j] = q[j + 1]
      BY <1>2, <3>2
    <3> QED  BY <3>1, <3>3
  <2>2. ASSUME NEW i \in DOMAIN net[e][d], Lose(e, d, i)
        PROVE  \E r : /\ net' = [net EXCEPT ![e][d] = r]
                      /\ \A j \in DOMAIN r : \E l \in DOMAIN q : r[j] = q[l]
    <3>1. PICK r : r = SubSeq(q, 1, i - 1) \o SubSeq(q, i + 1, Len(q))
      OBVIOUS
    <3>2. net' = [net EXCEPT ![e][d] = r]
      BY <1>1, <2>2, <3>1 DEF Lose
    <3>3. /\ r \in Seq(Datagrams) /\ Len(r) = Len(q) - 1
          /\ \A k \in 1 .. Len(r) : r[k] = IF k < i THEN q[k] ELSE q[k + 1]
      <4>1. i \in 1 .. Len(q)
        BY <1>1, <1>2
      <4> QED  BY <1>2, <3>1, <4>1, Removal
    <3>4. DOMAIN r = 1 .. Len(q) - 1
      BY <3>3, LenProperties
    <3>5. ASSUME NEW j \in DOMAIN r  PROVE  \E l \in DOMAIN q : r[j] = q[l]
      <4>1. j \in DOMAIN q /\ j + 1 \in DOMAIN q
        BY <1>2, <3>4
      <4> QED  BY <3>3, <3>4, <4>1
    <3> QED  BY <3>2, <3>5
  <2> QED  BY <2>1, <2>2
<1>4. PICK r : /\ net' = [net EXCEPT ![e][d] = r]
               /\ \A j \in DOMAIN r : \E i \in DOMAIN q : r[j] = q[i]
  BY <1>3
<1>5. \A x, y \in Edges : net'[x][y] = IF x = e /\ y = d THEN r ELSE net[x][y]
  BY <1>2, <1>4
<1>6. ASSUME NEW s, NEW x \in Edges, NEW y \in Edges,
             NEW k \in {"prepare", "migrate"}, SentTo(x, y, s, k)'
      PROVE  SentTo(x, y, s, k)
  <2>1. CASE x = e /\ y = d
    <3>1. PICK j \in DOMAIN r : r[j].cmd = k /\ r[j].svc = s
      BY <1>5, <1>6, <2>1 DEF SentTo
    <3>2. PICK i \in DOMAIN q : r[j] = q[i]
      BY <1>4, <3>1
    <3> QED  BY <1>1, <2>1, <3>1, <3>2 DEF SentTo
  <2> QED  BY <1>5, <1>6, <2>1 DEF SentTo
<1> QED  BY <1>6 DEF NetSmaller

(* The datagram a destination takes.                                       *)
LEMMA SentTaken ==
  ASSUME TypeOK, NEW e \in Edges, NEW d \in Edges, NEW k, Receives(e, d, k),
         NEW m, m = Head(net[e][d])
  PROVE  /\ m \in Datagrams /\ m.cmd = k /\ k \in {"prepare", "migrate"}
         /\ SentTo(e, d, m.svc, k) /\ m.svc \in Services
<1>1. PICK q : q = net[e][d]
  OBVIOUS
<1>2. q \in Seq(Datagrams) /\ q # <<>> /\ Head(q) = m /\ m.cmd = k
  BY <1>1, NetUpdate DEF Receives
<1>3. Len(q) \in Nat /\ DOMAIN q = 1 .. Len(q) /\ Len(q) # 0
  BY <1>2, LenProperties, EmptySeq
<1>4. 1 \in DOMAIN q /\ q[1] = m /\ m \in Datagrams
  BY <1>2, <1>3, HeadTailProperties, ElementOfSeq
<1> QED  BY <1>1, <1>2, <1>4 DEF SentTo, Datagrams

(* A step that adds nothing of s: what it does to s is at most that some   *)
(* command, datagram, notice or port of s is used up, a file comes, or the *)
(* source thread dies.                                                     *)
Calm(s) ==
  /\ QueueSmaller(s) /\ NetSmaller(s)
  /\ \A e \in Edges :
       /\ container'[e][s] = container[e][s]
       /\ folder[e][s] \subseteq folder'[e][s]
       /\ entries'[e][s] # <<>> => entries[e][s] # <<>>
       /\ src'[e].svc = s => src'[e] = src[e]
       /\ src'[e].stage = "dead" \/ (~At(e, s, "preparing") /\ src[e].stage # "dead")
            \/ src'[e] = src[e]
       /\ dst'[e].svc = s => dst'[e] = dst[e]
       /\ s \in srcRecords'[e] <=> s \in srcRecords[e]
       /\ s \in dstRecords'[e] <=> s \in dstRecords[e]
       /\ s \in reserved'[e] => s \in reserved[e]
  /\ host'[s] = host[s] /\ plan'[s] = plan[s]
  /\ \A n \in notices' : n.svc = s => n \in notices

(* The types the steps below need.                                         *)
LEMMA FirstTypes ==
  ASSUME TypeOK, NEW s \in Services
  PROVE  /\ \A e \in Edges :
              /\ At(e, s, "preparing") \/ At(e, s, "copied") \/ At(e, s, "prepared")
                   \/ At(e, s, "stopped") => src[e].dst \in Edges
              /\ src[e].stage \in {"idle", "dead"} <=> src[e].svc = NoService
              /\ dst[e].stage \in {"idle", "dead"} <=> dst[e].svc = NoService
         /\ s # NoService
         /\ \A n \in notices : n.edge \in Edges /\ n.svc \in Services
<1>1. s # NoService
  BY MigrateAssumption
<1>2. ASSUME NEW e \in Edges
      PROVE  /\ src[e].stage \in {"idle", "dead"} <=> src[e].svc = NoService
             /\ src[e].stage \in SrcStages => src[e].dst \in Edges
  <2>1. src[e] \in Tasks(SrcStages)
    BY SourceUpdate
  <2> QED  BY <2>1, MigrateAssumption DEF Tasks, SrcStages, Idle, Dead
<1>3. ASSUME NEW e \in Edges
      PROVE  dst[e].stage \in {"idle", "dead"} <=> dst[e].svc = NoService
  <2>1. dst[e] \in Tasks(DstStages)
    BY DestUpdate
  <2> QED  BY <2>1, MigrateAssumption DEF Tasks, DstStages, Idle, Dead
<1>4. \A n \in notices : n.edge \in Edges /\ n.svc \in Services
  BY DEF TypeOK, Notices
<1> QED  BY <1>1, <1>2, <1>3, <1>4 DEF At, SrcStages

LEMMA CalmSpread ==
  ASSUME TypeOK, TypeOK', NEW s \in Services, NEW o \in Edges, Calm(s),
         FirstMove(s, o)
  PROVE  Spread(s, o)'
<1> USE DEF Calm
<1>1. Spread(s, o)
  BY DEF FirstMove
<1>2. /\ \A e \in Edges : Pending(e, s)' => Pending(e, s)
      /\ Leading(o, s, o)' => Leading(o, s, o)
      /\ \A e, d \in Edges, k \in {"prepare", "migrate"} :
           SentTo(e, d, s, k)' => SentTo(e, d, s, k)
  BY DEF QueueSmaller, NetSmaller
<1>3. \A e \in Edges : Met(e, s, o)' <=> Met(e, s, o)
  BY DEF Met
<1> QED  BY <1>1, <1>2, <1>3, FirstTypes DEF Spread

LEMMA CalmVessels ==
  ASSUME TypeOK, TypeOK', NEW s \in Services, NEW o \in Edges, Calm(s),
         FirstMove(s, o)
  PROVE  Vessels(s, o)'
<1> USE DEF Calm
<1>1. Vessels(s, o)
  BY DEF FirstMove
<1> QED  BY <1>1 DEF Vessels

LEMMA CalmSupplied ==
  ASSUME TypeOK, TypeOK', NEW s \in Services, NEW o \in Edges, Calm(s),
         FirstMove(s, o)
  PROVE  Supplied(s, o)'
<1>1. Supplied(s, o)
  BY DEF FirstMove
<1>2. \A d \in Edges, k \in {"prepare", "migrate"} :
        SentTo(o, d, s, k)' => SentTo(o, d, s, k)
  BY DEF Calm, NetSmaller
<1>3. /\ \A d \in Edges : folder[d][s] \subseteq folder'[d][s]
      /\ \A d \in Edges : Based(d, s) => Based(d, s)'
  BY DEF Calm, Based
<1>4. /\ \A k : k # "dead" /\ At(o, s, k)' => At(o, s, k) /\ src'[o] = src[o]
      /\ At(o, s, "preparing") \/ src[o].stage = "dead" =>
           At(o, s, "preparing")' \/ src'[o].stage = "dead"
      /\ Running(o, s)' <=> Running(o, s)
      /\ s \in srcRecords'[o] <=> s \in srcRecords[o]
  BY DEF Calm, At, Running
<1>5. \A d \in Edges : /\ s \in dstRecords'[d] <=> s \in dstRecords[d]
                       /\ dst'[d].svc = s => dst'[d] = dst[d]
  BY DEF Calm
<1>6. \A d \in Edges :
       /\ s \in dstRecords'[d] => "pre3" \in folder'[d][s]
       /\ SentTo(o, d, s, "prepare")' => Based(d, s)'
       /\ SentTo(o, d, s, "migrate")' => "delta" \in folder'[d][s]
       /\ dst'[d].svc = s /\ dst'[d].stage = "unpacked" => "snapshot" \in folder'[d][s]
  BY <1>1, <1>2, <1>3, <1>5 DEF Supplied
<1>7. /\ At(o, s, "preparing")' => "pre2" \in folder'[o][s]
      /\ At(o, s, "stopped")' => {"pre3", "snapshot"} \subseteq folder'[o][s]
      /\ s \in srcRecords'[o] /\ Running(o, s)' =>
           \/ "pre3" \in folder'[o][s]
           \/ At(o, s, "preparing")' \/ src'[o].stage = "dead"
  BY <1>1, <1>3, <1>4 DEF Supplied
<1>8. /\ At(o, s, "copied")' =>
           /\ {"pre2", "pre3"} \subseteq folder'[o][s]
           /\ {"pre2", "pre3"} \cap folder'[src'[o].dst][s] # {}
      /\ At(o, s, "prepared")' => Based(src[o].dst, s)'
  BY <1>1, <1>3, <1>4, FirstTypes DEF Supplied
<1> QED  BY <1>6, <1>7, <1>8 DEF Supplied

LEMMA CalmPaced ==
  ASSUME TypeOK, TypeOK', NEW s \in Services, NEW o \in Edges, Calm(s),
         FirstMove(s, o)
  PROVE  Paced(s, o)'
<1>1. Paced(s, o)
  BY DEF FirstMove
<1>2. /\ \A d \in Edges : Leading(o, s, d)' => Leading(o, s, d)
      /\ HasMove(queue'[o], s) => HasMove(queue[o], s)
      /\ LastMove(queue[o], s) => LastMove(queue'[o], s)
      /\ \A e, d \in Edges : SentTo(e, d, s, "migrate")' => SentTo(e, d, s, "migrate")
  BY DEF Calm, QueueSmaller, NetSmaller
<1>3. /\ At(o, s, "preparing")' => At(o, s, "preparing")
      /\ Running(o, s)' <=> Running(o, s)
      /\ src'[o].svc = s => src'[o] = src[o]
      /\ \A d \in Edges : dst'[d].svc = s => dst'[d] = dst[d]
      /\ host'[s] = host[s] /\ plan'[s] = plan[s]
      /\ \A n \in notices' : n.svc = s => n \in notices
  BY DEF Calm, At, Running
<1> QED  BY <1>1, <1>2, <1>3 DEF Paced

(* ... keeps the invariant of s.                                           *)
LEMMA CalmKeeps ==
  ASSUME TypeOK, TypeOK', NEW s \in Services, Calm(s)
  PROVE  /\ Untouched(s) => Untouched(s)'
         /\ \A o \in Edges : FirstMove(s, o) => FirstMove(s, o)'
<1>1. ASSUME Untouched(s)  PROVE  Untouched(s)'
  <2>1. \A e \in Edges : ~Pending(e, s)' /\ src'[e].svc # s /\ dst'[e].svc # s
    BY <1>1, FirstTypes DEF Untouched, Calm, QueueSmaller
  <2>2. \A e, d \in Edges, k \in {"prepare", "migrate"} : ~SentTo(e, d, s, k)'
    BY <1>1 DEF Untouched, Calm, NetSmaller
  <2>3. \A e \in Edges : /\ container'[e][s] = "none" /\ entries'[e][s] = <<>>
                         /\ s \notin srcRecords'[e] /\ s \notin dstRecords'[e]
                         /\ s \notin reserved'[e]
    BY <1>1 DEF Untouched, Calm
  <2>4. host'[s] = NoEdge /\ plan'[s] = NoPlan /\ \A n \in notices' : n.svc # s
    BY <1>1 DEF Untouched, Calm
  <2> QED  BY <2>1, <2>2, <2>3, <2>4 DEF Untouched
<1> QED  BY <1>1, CalmSpread, CalmVessels, CalmSupplied, CalmPaced DEF FirstMove

(* A thread that works for one service is calm for the others.             *)
SourceService(e) == IF src[e].stage = "idle" THEN Head(queue[e]).svc ELSE src[e].svc

(* The updates of the source thread, place by place.                       *)
LEMMA SourceSets ==
  ASSUME TypeOK, NEW e \in Edges
  PROVE  /\ SrcRests(e) => \A x \in Edges : src'[x] = IF x = e THEN Idle ELSE src[x]
         /\ SrcDies(e) => \A x \in Edges : src'[x] = IF x = e THEN Dead ELSE src[x]
         /\ \A k, c : SrcGoes(e, k, c) =>
              /\ \A x \in Edges \ {e} : src'[x] = src[x]
              /\ src'[e].stage = k /\ src'[e].svc = c.svc /\ src'[e].dst = c.dst
         /\ \A k : src' = [src EXCEPT ![e].stage = k] =>
              /\ \A x \in Edges \ {e} : src'[x] = src[x]
              /\ src'[e].stage = k /\ src'[e].svc = src[e].svc
              /\ src'[e].dst = src[e].dst
<1>1. src \in [Edges -> Tasks(SrcStages)] /\ src[e] \in Tasks(SrcStages)
  BY SourceUpdate
<1> QED  BY <1>1 DEF SrcRests, SrcDies, SrcGoes, Tasks, Idle, Dead

(* One folder is changed, or two; one container is changed.                *)
LEMMA PutSets ==
  ASSUME NEW g, DOMAIN g = Edges, \A x \in Edges : DOMAIN g[x] = Services,
         NEW e \in Edges, NEW t \in Services, NEW f
  PROVE  /\ DOMAIN Put(g, e, t, f) = Edges
         /\ \A x \in Edges : DOMAIN Put(g, e, t, f)[x] = Services
         /\ \A x \in Edges, s \in Services :
              Put(g, e, t, f)[x][s] = IF x = e /\ s = t THEN f ELSE g[x][s]
BY DEF Put

LEMMA FolderSets ==
  ASSUME TypeOK, NEW e \in Edges, NEW t \in Services, NEW f,
         NEW x \in Edges, NEW s \in Services
  PROVE  /\ folder' = Put(folder, e, t, f) =>
              folder'[x][s] = IF x = e /\ s = t THEN f ELSE folder[x][s]
         /\ \A d \in Edges : \A h :
              folder' = Put(Put(folder, e, t, f), d, t, h) =>
                folder'[x][s] = IF x = d /\ s = t THEN h
                                ELSE IF x = e /\ s = t THEN f ELSE folder[x][s]
<1>1. DOMAIN folder = Edges /\ \A y \in Edges : DOMAIN folder[y] = Services
  BY DEF TypeOK
<1>2. PICK g : g = Put(folder, e, t, f)
  OBVIOUS
<1>3. /\ DOMAIN g = Edges /\ \A y \in Edges : DOMAIN g[y] = Services
      /\ g[x][s] = IF x = e /\ s = t THEN f ELSE folder[x][s]
  BY <1>1, <1>2, PutSets
<1>4. ASSUME NEW d \in Edges, NEW h
      PROVE  Put(g, d, t, h)[x][s] = IF x = d /\ s = t THEN h ELSE g[x][s]
  BY <1>3, PutSets
<1> QED  BY <1>2, <1>3, <1>4

LEMMA ContainerSets ==
  ASSUME TypeOK, NEW e \in Edges, NEW t \in Services, NEW c,
         container' = [container EXCEPT ![e][t] = c],
         NEW x \in Edges, NEW s \in Services
  PROVE  container'[x][s] = IF x = e /\ s = t THEN c ELSE container[x][s]
<1>1. container \in [Edges -> [Services -> ContainerStates]]
  BY DEF TypeOK
<1> QED  BY <1>1

(* What the source thread works on.                                        *)
LEMMA SourceWorks ==
  ASSUME TypeOK, NEW e \in Edges, SourceStep(e)
  PROVE  /\ SourceService(e) \in Services
         /\ src[e].stage # "dead"
         /\ src[e].stage = "idle" => Idle = src[e]
<1>1. /\ src[e] \in Tasks(SrcStages)
      /\ src[e].stage \in SrcStages => src[e].svc \in Services
  BY SourceUpdate
<1>2. src[e].stage = "idle" => Head(queue[e]).svc \in Services
  BY SourceOnly, Zenon DEF Commands
<1>3. src[e].stage # "dead"
  BY Zenon DEF SourceStep, PreMeasure, Measure, MeasureReport, Prepare, PrepareCheckpoint,
     PrepareDelta, PrepareNotify, MigrateStop, MigrateSend, MigrateFinish,
     MigrateCleanup, Takes
<1>4. src[e].stage \in SrcStages \/ src[e] = Idle \/ src[e] = Dead
  BY <1>1, Zenon DEF Tasks
<1> QED  BY <1>1, <1>2, <1>3, <1>4 DEF SourceService, SrcStages, Idle, Dead

LEMMA SourceQueue ==
  ASSUME TypeOK, NEW e \in Edges, SourceStep(e), NEW s
  PROVE  QueueSmaller(s)
<1>1. CASE \E k : Takes(e, k)
  BY <1>1, QueueTaken
<1>2. CASE queue' = queue
  BY <1>2, SmallerSame
<1> QED
  BY <1>1, <1>2, Zenon DEF SourceStep, PreMeasure, Measure, MeasureReport, Prepare,
     PrepareCheckpoint, PrepareDelta, PrepareNotify, MigrateStop, MigrateSend,
     MigrateFinish, MigrateCleanup, srcVars

LEMMA SourceElsewhere ==
  ASSUME TypeOK, TypeOK', NEW e \in Edges, SourceStep(e), NEW s \in Services,
         SourceService(e) # s
  PROVE  Calm(s)
<1> USE DEF dockerVars, edgeVars, srcVars, dstVars, centreVars
<1>1. PICK t \in Services : t = SourceService(e)
  BY SourceWorks
<1>2. /\ container \in [Edges -> [Services -> ContainerStates]]
      /\ folder \in [Edges -> [Services -> SUBSET Images]]
      /\ entries \in [Edges -> [Services -> Seq(0 .. RequestCap)]]
      /\ srcRecords \in [Edges -> SUBSET Services]
  BY DEF TypeOK
<1>3. src[e].stage = "idle" => Head(queue[e]).svc = t
  BY <1>1 DEF SourceService
<1>4. src[e].stage # "idle" => src[e].svc = t /\ src[e].dst \in Edges
  <2>1. src[e].stage # "idle" => src[e].stage \in SrcStages
    BY SourceWorks, SourceUpdate DEF Tasks, Idle, Dead
  <2> QED  BY <1>1, <2>1, SourceUpdate DEF SourceService
<1>5. NetSmaller(s)
  <2>1. CASE net' = net
    BY <2>1, SmallerSame
  <2>2. ASSUME NEW k \in {"prepare", "migrate"}, NEW d \in Edges,
               NEW r \in 0 .. RequestCap, Sends(e, d, k, t, r)
        PROVE  NetSmaller(s)
    <3>1. \A x, y \in Edges : \A l : SentTo(x, y, s, l)' =>
            SentTo(x, y, s, l) \/ (x = e /\ y = d /\ l = k /\ s = t)
      BY <1>1, <2>2, SentMore
    <3>2. s # t
      BY <1>1
    <3> QED  BY <3>1, <3>2 DEF NetSmaller
  <2>3. CASE PrepareNotify(e)
    BY <1>4, <2>2, <2>3, RequestType DEF PrepareNotify, Sends
  <2>4. CASE MigrateSend(e)
    <3>1. src[e].req \in 0 .. RequestCap
      BY <2>4, SourceUpdate DEF MigrateSend, SrcStages
    <3> QED  BY <1>4, <2>1, <2>2, <2>4, <3>1, ZenonT(60) DEF MigrateSend, Sends
  <2> QED
    BY <2>1, <2>3, <2>4, Zenon DEF SourceStep, PreMeasure, Measure, MeasureReport, Prepare,
       PrepareCheckpoint, PrepareDelta, MigrateStop, MigrateFinish, MigrateCleanup
<1>6. \A x \in Edges :
        /\ src'[x].svc = s => src'[x] = src[x]
        /\ src'[x].stage = "dead" \/ (~At(x, s, "preparing") /\ src[x].stage # "dead")
             \/ src'[x] = src[x]
  <2>1. \A x \in Edges \ {e} : src'[x] = src[x]
    BY SourceOnly
  <2>2. Idle.svc # s /\ Dead.svc # s
    BY MigrateAssumption DEF Idle, Dead
  <2>3. src'[e].svc # s
    <3>1. \/ SrcRests(e) \/ SrcDies(e)
          \/ src[e].stage = "idle" /\ \E k : SrcGoes(e, k, Head(queue[e]))
          \/ src[e].stage # "idle" /\ \E k : src' = [src EXCEPT ![e].stage = k]
      BY Zenon DEF SourceStep, PreMeasure, Measure, MeasureReport, Prepare,
         PrepareCheckpoint, PrepareDelta, PrepareNotify, MigrateStop, MigrateSend,
         MigrateFinish, MigrateCleanup, Takes
    <3>2. CASE SrcRests(e) \/ SrcDies(e)
      BY <2>2, <3>2, SourceSets
    <3>3. ASSUME NEW k, SrcGoes(e, k, Head(queue[e])), src[e].stage = "idle"
          PROVE  src'[e].svc # s
      BY <1>1, <1>3, <3>3, SourceSets
    <3>4. ASSUME NEW k, src' = [src EXCEPT ![e].stage = k], src[e].stage # "idle"
          PROVE  src'[e].svc # s
      BY <1>1, <1>4, <3>4, SourceSets
    <3> QED  BY <3>1, <3>2, <3>3, <3>4, Zenon
  <2>4. ~At(e, s, "preparing") /\ src[e].stage # "dead"
    BY <1>1, <1>4, SourceWorks, Zenon DEF At
  <2> QED  BY <2>1, <2>3, <2>4
<1>7. \A x \in Edges :
        /\ container'[x][s] = container[x][s]
        /\ entries'[x][s] # <<>> => entries[x][s] # <<>>
        /\ s \in srcRecords'[x] <=> s \in srcRecords[x]
  <2>1. CASE MigrateStop(e)
    <3>1. \/ container' = container
          \/ \E c : container' = [container EXCEPT ![e][t] = c]
      BY <1>3, <2>1 DEF MigrateStop, Takes
    <3>2. \A x \in Edges : container'[x][s] = container[x][s]
      BY <1>1, <3>1, ContainerSets
    <3> QED  BY <2>1, <3>2 DEF MigrateStop
  <2>2. CASE MigrateFinish(e)
    BY <1>1, <1>2, <1>4, <2>2 DEF MigrateFinish, RemoveEntry
  <2>3. CASE Prepare(e)
    BY <1>1, <1>2, <1>3, <2>3 DEF Prepare, Takes
  <2> QED
    BY <2>1, <2>2, <2>3, Zenon DEF SourceStep, PreMeasure, Measure, MeasureReport,
       PrepareCheckpoint, PrepareDelta, PrepareNotify, MigrateSend, MigrateCleanup
<1>8. \A x \in Edges : folder'[x][s] = folder[x][s]
  <2>1. \/ folder' = folder
        \/ \E x \in Edges : \E f : folder' = Put(folder, x, t, f)
        \/ \E d \in Edges : \E f, h : folder' = Put(Put(folder, e, t, f), d, t, h)
    <3>1. CASE src[e].stage = "idle"
      BY <1>3, <3>1, Zenon DEF SourceStep, PreMeasure, Measure, MeasureReport, Prepare,
         PrepareCheckpoint, PrepareDelta, PrepareNotify, MigrateStop, MigrateSend,
         MigrateFinish, MigrateCleanup
    <3>2. CASE PrepareCheckpoint(e)
      BY <1>4, <3>2, ZenonT(60) DEF PrepareCheckpoint
    <3>3. CASE PrepareDelta(e) \/ MigrateSend(e) \/ MigrateCleanup(e)
      BY <1>4, <3>3 DEF PrepareDelta, MigrateSend, MigrateCleanup
    <3> QED
      BY <3>1, <3>2, <3>3 DEF SourceStep, PreMeasure, Measure, MeasureReport, Prepare,
         PrepareNotify, MigrateStop, MigrateFinish, Takes
  <2> QED  BY <1>1, <2>1, FolderSets, SMTT(30)
<1>9. /\ UNCHANGED <<dst, dstRecords, reserved, host, plan>>
      /\ \A n \in notices' : n.svc = s => n \in notices
  <2>1. UNCHANGED <<dst, dstRecords, reserved, host, plan>>
    BY SourceOnly
  <2>2. CASE PrepareNotify(e)
    BY <1>1, <1>4, <2>2 DEF PrepareNotify, Notice
  <2>3. CASE ~PrepareNotify(e)
    BY <2>3, Zenon DEF SourceStep, PreMeasure, Measure, MeasureReport, Prepare,
       PrepareCheckpoint, PrepareDelta, MigrateStop, MigrateSend, MigrateFinish,
       MigrateCleanup
  <2> QED  BY <2>1, <2>2, <2>3
<1>10. QueueSmaller(s)
  BY SourceQueue
<1> QED  BY <1>5, <1>6, <1>7, <1>8, <1>9, <1>10 DEF Calm

(* The same of the destination thread.                                     *)
LEMMA DestSets ==
  ASSUME TypeOK, NEW d \in Edges
  PROVE  /\ DstRests(d) => \A x \in Edges : dst'[x] = IF x = d THEN Idle ELSE dst[x]
         /\ DstDies(d) => \A x \in Edges : dst'[x] = IF x = d THEN Dead ELSE dst[x]
         /\ \A k, m : DstGoes(d, k, m) =>
              /\ \A x \in Edges \ {d} : dst'[x] = dst[x]
              /\ dst'[d].stage = k /\ dst'[d].svc = m.svc
         /\ \A k : dst' = [dst EXCEPT ![d].stage = k] =>
              /\ \A x \in Edges \ {d} : dst'[x] = dst[x]
              /\ dst'[d].stage = k /\ dst'[d].svc = dst[d].svc
<1>1. dst \in [Edges -> Tasks(DstStages)] /\ dst[d] \in Tasks(DstStages)
  BY DestUpdate
<1> QED  BY <1>1 DEF DstRests, DstDies, DstGoes, Tasks, Idle, Dead

LEMMA DestTakes ==
  ASSUME TypeOK, NEW e \in Edges, NEW d \in Edges, DestPrepare(e, d) \/ DestUnpack(e, d),
         NEW s \in Services, Head(net[e][d]).svc # s
  PROVE  Calm(s)
<1> USE DEF edgeVars, srcVars, centreVars
<1>1. PICK m : m = Head(net[e][d])
  BY Zenon
<1>2. /\ m.svc \in Services /\ m.svc # s /\ NetSmaller(s) /\ dst[d].stage = "idle"
  BY <1>1, SentTaken, SentLess, Zenon DEF DestPrepare, DestUnpack, Receives
<1>3. /\ dstRecords \in [Edges -> SUBSET Services]
      /\ reserved \in [Edges -> SUBSET Services]
  BY DEF TypeOK
<1>4. QueueSmaller(s)
  BY SmallerSame, Zenon DEF DestPrepare, DestUnpack
<1>5. \A x \in Edges : dst'[x].svc = s => dst'[x] = dst[x]
  <2>1. DstDies(d) \/ \E k : DstGoes(d, k, m)
    BY <1>1, Zenon DEF DestPrepare, DestUnpack
  <2>2. Dead.svc # s
    BY MigrateAssumption DEF Dead
  <2> QED  BY <1>2, <2>1, <2>2, DestSets, ZenonT(60)
<1>6. \A x \in Edges : folder'[x][s] = folder[x][s]
  <2>1. folder' = folder \/ \E f : folder' = Put(folder, d, m.svc, f)
    BY <1>1, Zenon DEF DestPrepare, DestUnpack
  <2> QED  BY <1>2, <2>1, FolderSets
<1>7. \A x \in Edges : /\ s \in dstRecords'[x] <=> s \in dstRecords[x]
                       /\ s \in reserved'[x] => s \in reserved[x]
  <2>1. /\ \/ dstRecords' = dstRecords
           \/ dstRecords' = [dstRecords EXCEPT ![d] = @ \cup {m.svc}]
        /\ \/ reserved' = reserved
           \/ reserved' = [reserved EXCEPT ![d] = @ \ {m.svc}]
    BY <1>1, Zenon DEF DestPrepare, DestUnpack
  <2>2. \A x \in Edges : s \in dstRecords'[x] <=> s \in dstRecords[x]
    BY <1>2, <1>3, <2>1
  <2>3. \A x \in Edges : s \in reserved'[x] => s \in reserved[x]
    BY <1>2, <1>3, <2>1, Zenon
  <2> QED  BY <2>2, <2>3, Zenon
<1>8. UNCHANGED <<container, entries, src, srcRecords, host, plan, notices>>
  BY Zenon DEF DestPrepare, DestUnpack
<1> QED  BY <1>2, <1>4, <1>5, <1>6, <1>7, <1>8 DEF Calm

LEMMA DestElsewhere ==
  ASSUME TypeOK, TypeOK', NEW d \in Edges, NEW s \in Services, dst[d].svc # s,
         \/ DestCreate(d) \/ DestRestore(d) \/ DestStart(d) \/ DestAnnounce(d)
         \/ DestList(d) \/ DestResnap(d) \/ DestResnapDone(d)
  PROVE  Calm(s)
<1> USE DEF dockerVars, edgeVars, srcVars, centreVars
<1>1. PICK t : t = dst[d].svc
  BY Zenon
<1>2. t \in Services /\ t # s /\ dst[d].stage \in DstStages
  BY <1>1, DestUpdate DEF DestCreate, DestRestore, DestStart, DestAnnounce, DestList,
     DestResnap, DestResnapDone, DstStages
<1>3. /\ reserved \in [Edges -> SUBSET Services]
      /\ entries \in [Edges -> [Services -> Seq(0 .. RequestCap)]]
  BY DEF TypeOK
<1>4. QueueSmaller(s) /\ NetSmaller(s)
  BY SmallerSame DEF DestCreate, DestRestore, DestStart, DestAnnounce, DestList,
     DestResnap, DestResnapDone
<1>5. \A x \in Edges : dst'[x].svc = s => dst'[x] = dst[x]
  <2>1. DstDies(d) \/ DstRests(d) \/ \E k : dst' = [dst EXCEPT ![d].stage = k]
    BY DEF DestCreate, DestRestore, DestStart, DestAnnounce, DestList,
       DestResnap, DestResnapDone
  <2>2. Dead.svc # s /\ Idle.svc # s
    BY MigrateAssumption DEF Dead, Idle
  <2> QED  BY <1>1, <1>2, <2>1, <2>2, DestSets
<1>6. \A x \in Edges : folder'[x][s] = folder[x][s]
  <2>1. folder' = folder \/ \E f : folder' = Put(folder, d, t, f)
    BY <1>1 DEF DestCreate, DestRestore, DestStart, DestAnnounce, DestList,
       DestResnap, DestResnapDone
  <2> QED  BY <1>2, <2>1, FolderSets
<1>7. \A x \in Edges : container'[x][s] = container[x][s]
  <2>1. \/ container' = container
        \/ \E c : container' = [container EXCEPT ![d][t] = c]
    BY <1>1 DEF DestCreate, DestRestore, DestStart, DestAnnounce, DestList,
       DestResnap, DestResnapDone
  <2> QED  BY <1>2, <2>1, ContainerSets
<1>8. \A x \in Edges : /\ entries'[x][s] # <<>> => entries[x][s] # <<>>
                       /\ s \in reserved'[x] => s \in reserved[x]
  <2>1. CASE DestCreate(d)
    BY <1>1, <1>2, <1>3, <2>1 DEF DestCreate
  <2>2. CASE DestList(d)
    BY <1>1, <1>2, <1>3, <2>2 DEF DestList, AddEntry
  <2> QED  BY <2>1, <2>2 DEF DestRestore, DestStart, DestAnnounce, DestResnap,
           DestResnapDone
<1>9. \A n \in notices' : n.svc = s => n \in notices
  <2>1. CASE DestAnnounce(d)
    BY <1>1, <1>2, <2>1 DEF DestAnnounce, Notice
  <2> QED  BY <2>1 DEF DestCreate, DestRestore, DestStart, DestList, DestResnap,
           DestResnapDone
<1>10. UNCHANGED <<dstRecords, src, srcRecords, host, plan>>
  BY DEF DestCreate, DestRestore, DestStart, DestAnnounce, DestList,
     DestResnap, DestResnapDone
<1> QED  BY <1>4, <1>5, <1>6, <1>7, <1>8, <1>9, <1>10 DEF Calm

(* What a datagram or a command of other services adds is calm.            *)
LEMMA GrowsElsewhere ==
  ASSUME TypeOK, NEW e \in Edges, NEW t \in Seq(Commands), Grows(e, t), NEW s,
         \A i \in DOMAIN t : t[i].svc # s
  PROVE  QueueSmaller(s)
<1>1. \A i \in DOMAIN t : ~Leads(t[i], s) /\ ~IsMove(t[i], s)
  BY DEF Leads, IsMove
<1>2. ~HasMove(t, s)
  BY <1>1 DEF HasMove
<1>3. ASSUME NEW x \in Edges
      PROVE  /\ Pending(x, s)' => Pending(x, s)
             /\ \A d \in Edges : Leading(x, s, d)' => Leading(x, s, d)
             /\ HasMove(queue'[x], s) => HasMove(queue[x], s)
             /\ LastMove(queue[x], s) => LastMove(queue'[x], s)
  <2>1. Pending(x, s)' => Pending(x, s)
    BY QueueGrown
  <2>2. ASSUME NEW d \in Edges, Leading(x, s, d)'  PROVE  Leading(x, s, d)
    <3>1. Leading(x, s, d) \/ LeadIn(t, s, d)
      BY <2>2, QueueGrown
    <3> QED  BY <1>1, <3>1 DEF LeadIn
  <2>3. HasMove(queue'[x], s) => HasMove(queue[x], s)
    BY <1>2, QueueGrown
  <2>4. LastMove(queue[x], s) => LastMove(queue'[x], s)
    BY <1>1, QueueGrown, SMTT(30)
  <2> QED  BY <2>1, <2>2, <2>3, <2>4
<1> QED  BY <1>3 DEF QueueSmaller

(* What an order puts into the source queue: one command, of the first or  *)
(* of the second part of the migration.                                    *)
OrderCmds(e, s, d) ==
  {<<PrepareCmd(e, s, d)>>, <<MigrateCmd(e, s, d)>>}

LEMMA OrderedCommands ==
  ASSUME TypeOK, NEW e \in Edges, NEW s \in Services, NEW d \in Edges,
         NEW q \in OrderCmds(e, s, d)
  PROVE  /\ q \in Seq(Commands) /\ LastMove(q, s)
         /\ \A i \in DOMAIN q : q[i].svc = s /\ q[i].dst = d
         /\ q = <<PrepareCmd(e, s, d)>> => ~HasMove(q, s)
<1>1. PICK p, m : p = PrepareCmd(e, s, d) /\ m = MigrateCmd(e, s, d)
  OBVIOUS
<1>2. /\ p \in Commands /\ p.svc = s /\ p.dst = d /\ p.cmd = "prepare"
      /\ m \in Commands /\ m.svc = s /\ m.dst = d /\ m.cmd = "migrate"
  BY <1>1, OrderCommandType DEF PrepareCmd, MigrateCmd, Command
<1>3. q \in {<<p>>, <<m>>}
  BY <1>1 DEF OrderCmds
<1>4. q \in Seq(Commands) /\ \A i \in DOMAIN q : q[i].svc = s /\ q[i].dst = d
  <2>1. CASE q = <<p>>
    BY <1>2, <2>1
  <2>2. CASE q = <<m>>
    BY <1>2, <2>2
  <2> QED  BY <1>3, <2>1, <2>2

<1>5. LastMove(q, s)
  BY <1>2, <1>3 DEF LastMove, IsMove
<1>6. q = <<p>> => ~HasMove(q, s)
  BY <1>2 DEF HasMove, IsMove
<1> QED  BY <1>1, <1>4, <1>5, <1>6

(* Orders of the centre for other services, and their notices.             *)
LEMMA CentreElsewhere ==
  ASSUME TypeOK, TypeOK', NEW s \in Services, NEW t \in Services, s # t,
         \/ \E e \in Edges : Deploy(t, e) \/ DeployFails(t, e) \/ Order(t, e)
                             \/ MonitorService(e, t)
         \/ OrderMigrate(t)
         \/ \E n \in notices : n.svc = t /\ (PreMigrated(n) \/ Migrated(n))
  PROVE  Calm(s)
<1> USE DEF dockerVars, edgeVars, srcVars, dstVars, centreVars
<1>1. /\ entries \in [Edges -> [Services -> Seq(0 .. RequestCap)]]
      /\ host \in [Services -> Edges \cup {NoEdge}] /\ plan \in [Services -> Plans]
  BY DEF TypeOK
<1>2. /\ UNCHANGED <<folder, src, srcRecords, net, dst, dstRecords, reserved>>
      /\ notices' \subseteq notices
  BY DEF Deploy, DeployFails, Order, MonitorService, OrderMigrate, PreMigrated, Migrated
<1>3. QueueSmaller(s)
  <2>1. CASE queue' = queue
    BY <2>1, SmallerSame
  <2>2. ASSUME NEW e \in Edges, MonitorService(e, t)
        PROVE  QueueSmaller(s)
    <3>1. Triggered(e, t) \in Seq(Commands)
      BY <1>1, TriggeredType
    <3>2. Grows(e, Triggered(e, t))
      BY <2>2 DEF MonitorService, Grows
    <3>3. \A i \in DOMAIN Triggered(e, t) : Triggered(e, t)[i].svc # s
      BY TriggeredFor
    <3> QED  BY <3>1, <3>2, <3>3, GrowsElsewhere
  <2>3. ASSUME NEW e \in Edges, NEW d \in Edges,
               NEW q \in OrderCmds(e, t, d), Enqueue(e, t, q)
        PROVE  QueueSmaller(s)
    <3>1. q \in Seq(Commands) /\ \A i \in DOMAIN q : q[i].svc # s
      <4>1. q \in Seq(Commands) /\ \A i \in DOMAIN q : q[i].svc = t
        BY <2>3, OrderedCommands
      <4> QED  BY <4>1
    <3>2. queue' = queue \/ Grows(e, q)
      BY <2>3 DEF Enqueue, Grows
    <3> QED  BY <2>1, <3>1, <3>2, GrowsElsewhere
  <2>4. ASSUME NEW d \in Edges, Order(t, d)
        PROVE  QueueSmaller(s)
    <3>1. host[t] \in Edges
      BY <1>1, <2>4 DEF Order
    <3> QED  BY <2>3, <2>4, <3>1 DEF Order, OrderCmds
  <2>5. CASE OrderMigrate(t)
    <3>1. plan[t] \in Plans /\ plan[t].phase = "prepared"
      BY <1>1, <2>5 DEF OrderMigrate
    <3>2. plan[t].dst \in Edges
      BY <3>1 DEF Plans, NoPlan
    <3>3. queue' = queue \/ host[t] \in Edges
      <4>1. queue \in [Edges -> Seq(Commands)] /\ NoEdge \notin Edges
        BY MigrateAssumption DEF TypeOK
      <4>2. \/ queue' = queue
            \/ \E q : queue' = [queue EXCEPT ![host[t]] = q]
        BY <2>5 DEF OrderMigrate, Enqueue
      <4>3. host[t] \in Edges \/ host[t] = NoEdge
        BY <1>1
      <4>4. \A q : [queue EXCEPT ![NoEdge] = q] = queue
        BY <4>1
      <4> QED  BY <4>2, <4>3, <4>4
    <3> QED  BY <2>1, <2>3, <2>5, <3>2, <3>3 DEF OrderMigrate, OrderCmds
  <2>6. CASE \/ \E e \in Edges : Deploy(t, e) \/ DeployFails(t, e)
             \/ \E n \in notices : PreMigrated(n) \/ Migrated(n)
    BY <2>1, <2>6 DEF Deploy, DeployFails, PreMigrated, Migrated
  <2> QED  BY <2>2, <2>4, <2>5, <2>6
<1>4. NetSmaller(s)
  BY <1>2, SmallerSame
<1>5. \A x \in Edges : container'[x][s] = container[x][s]
  <2>1. \/ container' = container
        \/ \E e \in Edges : \E c : container' = [container EXCEPT ![e][t] = c]
    BY DEF Deploy, DeployFails, Order, MonitorService, OrderMigrate, PreMigrated, Migrated
  <2> QED  BY <2>1, ContainerSets
<1>6. \A x \in Edges : entries'[x][s] = entries[x][s]
  <2>1. \/ entries' = entries
        \/ \E e \in Edges : \E l : entries' = [entries EXCEPT ![e][t] = l]
    BY DEF Deploy, DeployFails, Order, MonitorService, OrderMigrate, PreMigrated, Migrated,
       AddEntry
  <2>2. ASSUME NEW e \in Edges, NEW l, entries' = [entries EXCEPT ![e][t] = l]
        PROVE  \A x \in Edges : entries'[x][s] = entries[x][s]
    BY <1>1, <2>2
  <2> QED  BY <2>1, <2>2
<1>7. host'[s] = host[s] /\ plan'[s] = plan[s]
  <2>1. /\ host' = host \/ \E e : host' = [host EXCEPT ![t] = e]
        /\ plan' = plan \/ \E p : plan' = [plan EXCEPT ![t] = p]
    BY DEF Deploy, DeployFails, Order, MonitorService, OrderMigrate, PreMigrated, Migrated
  <2> QED  BY <1>1, <2>1
<1> QED  BY <1>2, <1>3, <1>4, <1>5, <1>6, <1>7 DEF Calm

-----------------------------------------------------------------------------
(* The steps of the centre that are about s.                               *)
CentreStill ==
  UNCHANGED <<container, folder, src, srcRecords, net, dst, dstRecords, reserved>>

LEMMA CentreKeepsParts ==
  ASSUME TypeOK, NEW s \in Services, NEW o \in Edges, FirstMove(s, o), CentreStill
  PROVE  Vessels(s, o)' /\ Supplied(s, o)'
<1> USE DEF CentreStill
<1>1. \A d \in Edges : Based(d, s)' <=> Based(d, s)
  BY DEF Based
<1>2. \A d \in Edges, k \in {"prepare", "migrate"} :
        SentTo(o, d, s, k)' <=> SentTo(o, d, s, k)
  BY DEF SentTo
<1>3. (\A k : At(o, s, k)' <=> At(o, s, k)) /\ (Running(o, s)' <=> Running(o, s))
  BY DEF At, Running
<1>4. At(o, s, "prepared")' => Based(src[o].dst, s)'
  BY <1>3 DEF FirstMove, Supplied, Based
<1>5. Vessels(s, o)'
  BY DEF FirstMove, Vessels
<1> QED  BY <1>1, <1>2, <1>3, <1>4, <1>5 DEF FirstMove, Supplied

LEMMA CentreSpread ==
  ASSUME TypeOK, NEW s \in Services, NEW o \in Edges, FirstMove(s, o), CentreStill,
         \A e \in Edges : Pending(e, s)' \/ entries'[e][s] # <<>> =>
           Pending(e, s) \/ entries[e][s] # <<>> \/ Met(e, s, o),
         Leading(o, s, o)' => Leading(o, s, o),
         host'[s] \in Edges, Met(host'[s], s, o),
         host'[s] = o /\ plan'[s].phase # "idle" => plan'[s].dst # o,
         notices' \subseteq notices
  PROVE  Spread(s, o)'
<1> USE DEF CentreStill
<1>1. Spread(s, o)
  BY DEF FirstMove
<1>2. \A e \in Edges : Met(e, s, o)' <=> Met(e, s, o)
  BY DEF Met
<1>3. \A e, d \in Edges, k \in {"prepare", "migrate"} :
        SentTo(e, d, s, k)' <=> SentTo(e, d, s, k)
  BY DEF SentTo
<1>4. Met(host[s], s, o)'
  BY DEF Met
<1> QED  BY <1>1, <1>2, <1>3, <1>4 DEF Spread

LEMMA CentrePaced ==
  ASSUME TypeOK, NEW s \in Services, NEW o \in Edges, FirstMove(s, o), CentreStill,
         ~Running(o, s) =>
           /\ \A d \in Edges : Leading(o, s, d)' => Leading(o, s, d)
           /\ host'[s] = o => plan'[s].phase = "migrate",
         Running(o, s) => host'[s] = o,
         notices' \subseteq notices,
         HasMove(queue'[o], s) => plan'[s].phase = "migrate",
         LastMove(queue'[o], s)
  PROVE  Paced(s, o)'
<1> USE DEF CentreStill
<1>1. Paced(s, o)
  BY DEF FirstMove
<1>2. /\ At(o, s, "preparing")' <=> At(o, s, "preparing")
      /\ Running(o, s)' <=> Running(o, s)
  BY DEF At, Running
<1>3. \A e, d \in Edges : SentTo(e, d, s, "migrate")' <=> SentTo(e, d, s, "migrate")
  BY DEF SentTo
<1> QED  BY <1>1, <1>2, <1>3 DEF Paced

(* An order of the centre reaches the origin only while it runs s.         *)
LEMMA FirstOrdered ==
  ASSUME TypeOK, NEW s \in Services, NEW o \in Edges, FirstMove(s, o), CentreStill,
         UNCHANGED <<entries, host, notices>>,
         plan[s].phase # "migrate", NEW e \in Edges, e = host[s], NEW d \in Edges,
         e = o => d # o, NEW q \in OrderCmds(e, s, d), Enqueue(e, s, q),
         plan'[s].dst = d, HasMove(q, s) => plan'[s].phase = "migrate"
  PROVE  FirstMove(s, o)'
<1>1. Spread(s, o) /\ Paced(s, o)
  BY DEF FirstMove
<1>2. /\ q \in Seq(Commands) /\ LastMove(q, s)
      /\ \A i \in DOMAIN q : q[i].svc = s /\ q[i].dst = d
  BY OrderedCommands
<1>3. queue' = queue \/ Grows(e, q)
  BY DEF Enqueue, Grows
<1>4. /\ Met(e, s, o) /\ (e = o => Running(o, s))
      /\ ~HasMove(queue[o], s) /\ LastMove(queue[o], s)
  BY <1>1 DEF Spread, Paced
<1>5. /\ \A x \in Edges : Pending(x, s)' => Pending(x, s) \/ x = e
      /\ \A c \in Edges : Leading(o, s, c)' =>
           Leading(o, s, c) \/ (o = e /\ LeadIn(q, s, c))
      /\ HasMove(queue'[o], s) => HasMove(q, s)
      /\ LastMove(queue'[o], s)
  <2>1. CASE queue' = queue
    BY <1>4, <2>1, SmallerSame DEF QueueSmaller
  <2>2. CASE Grows(e, q)
    <3>1. \A x \in Edges : Pending(x, s)' => Pending(x, s) \/ x = e
      BY <1>2, <2>2, QueueGrown
    <3>2. \A c \in Edges : Leading(o, s, c)' =>
            Leading(o, s, c) \/ (o = e /\ LeadIn(q, s, c))
      BY <1>2, <2>2, QueueGrown
    <3>3. HasMove(queue'[o], s) => HasMove(q, s)
      BY <1>2, <1>4, <2>2, QueueGrown
    <3>4. LastMove(queue'[o], s)
      BY <1>2, <1>4, <2>2, QueueGrown
    <3> QED  BY <3>1, <3>2, <3>3, <3>4
  <2> QED  BY <1>3, <2>1, <2>2
<1>6. Leading(o, s, o)' => Leading(o, s, o)
  BY <1>2, <1>5 DEF LeadIn
<1>7. Spread(s, o)'
  BY <1>1, <1>4, <1>5, <1>6, CentreSpread DEF Spread
<1>8. Paced(s, o)'
  BY <1>1, <1>4, <1>5, CentrePaced DEF Paced
<1> QED  BY <1>7, <1>8, CentreKeepsParts DEF FirstMove

LEMMA FirstOrder ==
  ASSUME TypeOK, NEW s \in Services, NEW o \in Edges, FirstMove(s, o),
         (\E d \in Edges : Order(s, d)) \/ OrderMigrate(s)
  PROVE  FirstMove(s, o)'
<1> USE DEF dockerVars, edgeVars, srcVars, dstVars, centreVars
<1>1. plan \in [Services -> Plans] /\ host[s] \in Edges
  BY DEF TypeOK, FirstMove, Spread
<1>2. PICK e \in Edges : e = host[s]
  BY <1>1
<1>3. CentreStill /\ UNCHANGED <<entries, host, notices>>
  BY DEF Order, OrderMigrate, CentreStill
<1>4. ASSUME NEW d \in Edges, Order(s, d)
      PROVE  FirstMove(s, o)'
  <2>1. PICK q \in OrderCmds(e, s, d) :
          /\ Enqueue(e, s, q)
          /\ plan'[s].dst = d
          /\ plan'[s].phase = "migrate" \/ q = <<PrepareCmd(e, s, d)>>
    BY <1>1, <1>2, <1>4 DEF Order, OrderCmds
  <2>2. HasMove(q, s) => plan'[s].phase = "migrate"
    BY <2>1, OrderedCommands
  <2>3. plan[s].phase # "migrate" /\ d # e
    BY <1>2, <1>4 DEF Order
  <2> QED  BY <1>2, <1>3, <2>1, <2>2, <2>3, FirstOrdered
<1>5. CASE OrderMigrate(s)
  <2>1. PICK d \in Edges : d = plan[s].dst
    <3>1. plan[s] \in Plans /\ plan[s].phase = "prepared"
      BY <1>1, <1>5 DEF OrderMigrate
    <3> QED  BY <3>1 DEF Plans, NoPlan
  <2>2. PICK q \in OrderCmds(e, s, d) : Enqueue(e, s, q)
    BY <1>2, <1>5, <2>1 DEF OrderMigrate, OrderCmds
  <2>3. /\ plan[s].phase = "prepared" /\ plan'[s].phase = "migrate"
        /\ plan'[s].dst = d
    <3>1. plan[s] \in Plans /\ plan[s].phase = "prepared"
          /\ plan'[s] = [plan[s] EXCEPT !.phase = "migrate"]
      BY <1>1, <1>5 DEF OrderMigrate
    <3> QED  BY <2>1, <3>1 DEF Plans, NoPlan
  <2>4. e = o => d # o
    BY <1>2, <2>1, <2>3 DEF FirstMove, Spread
  <2> QED  BY <1>2, <1>3, <2>2, <2>3, <2>4, FirstOrdered
<1> QED  BY <1>4, <1>5

(* A notice of s changes its plan, or tells where s has arrived.           *)
LEMMA FirstNotice ==
  ASSUME TypeOK, NEW s \in Services, NEW o \in Edges, FirstMove(s, o),
         NEW n \in notices, n.svc = s, PreMigrated(n) \/ Migrated(n)
  PROVE  FirstMove(s, o)'
<1> USE DEF dockerVars, edgeVars, srcVars, dstVars, centreVars
<1>1. /\ plan \in [Services -> Plans] /\ host \in [Services -> Edges \cup {NoEdge}]
      /\ host[s] \in Edges /\ n.edge \in Edges /\ plan[s] \in Plans
  BY FirstTypes DEF TypeOK, FirstMove, Spread
<1>2. /\ CentreStill /\ UNCHANGED <<entries, queue>> /\ notices' \subseteq notices
      /\ QueueSmaller(s)
  BY SmallerSame DEF PreMigrated, Migrated, CentreStill
<1>3. /\ \A x \in Edges : Pending(x, s)' => Pending(x, s)
      /\ \A d \in Edges : Leading(o, s, d)' => Leading(o, s, d)
      /\ HasMove(queue'[o], s) => HasMove(queue[o], s)
      /\ LastMove(queue'[o], s)
  BY <1>2 DEF QueueSmaller, FirstMove, Paced
<1>4. CASE PreMigrated(n)
  <2>1. /\ host' = host
        /\ \/ plan'[s] = plan[s]
           \/ plan[s].phase = "prepare"
              /\ plan'[s] \in {NoPlan, [plan[s] EXCEPT !.phase = "prepared"],
                               [plan[s] EXCEPT !.phase = "unscheduled"]}
    <3>1. CASE n.svc = s
      BY <1>1, <1>4, <3>1, Zenon DEF PreMigrated
    <3> QED  BY <3>1
  <2>2. plan'[s].phase # "idle" => plan[s].phase # "idle" /\ plan'[s].dst = plan[s].dst
    BY <1>1, <2>1 DEF Plans, NoPlan
  <2>3. plan[s].phase = "migrate" => plan'[s] = plan[s]
    BY <2>1
  <2>4. Spread(s, o)'
    BY <1>2, <1>3, <2>1, <2>2, CentreSpread DEF FirstMove, Spread
  <2>5. Paced(s, o)'
    BY <1>2, <1>3, <2>1, <2>3, CentrePaced DEF FirstMove, Paced
  <2> QED  BY <1>2, <2>4, <2>5, CentreKeepsParts DEF FirstMove
<1>5. CASE Migrated(n)
  <2>1. host'[s] = n.edge /\ plan'[s] = NoPlan /\ n.kind = "migrated"
    BY <1>1, <1>5, MigrateAssumption DEF Migrated
  <2>2. /\ ~Running(o, s) /\ s \in dstRecords[n.edge] /\ n.edge # o
        /\ Met(n.edge, s, o)
    BY <2>1 DEF FirstMove, Paced, Spread, Met
  <2>3. \A d \in Edges : ~Leading(o, s, d)
    BY <2>2 DEF FirstMove, Paced
  <2>4. ~HasMove(queue[o], s)
    BY <2>3, MoveLeads
  <2>5. Spread(s, o)'
    BY <1>1, <1>2, <1>3, <2>1, <2>2, CentreSpread
  <2>6. Paced(s, o)'
    BY <1>2, <1>3, <2>1, <2>2, <2>4, CentrePaced
  <2> QED  BY <1>2, <2>5, <2>6, CentreKeepsParts DEF FirstMove
<1> QED  BY <1>4, <1>5

(* Commands of s that lead nowhere.                                        *)
LEMMA FirstServed ==
  ASSUME TypeOK, NEW s \in Services, NEW e \in Edges, MonitorService(e, s)
  PROVE  /\ \A o \in Edges : FirstMove(s, o) => FirstMove(s, o)'
         /\ Untouched(s) => Calm(s)
<1> USE DEF dockerVars, edgeVars, srcVars, dstVars, centreVars
<1>1. PICK t : t = Triggered(e, s)
  OBVIOUS
<1>2. /\ t \in Seq(Commands) /\ Grows(e, t)
      /\ \A i \in DOMAIN t : entries[e][s] # <<>> /\ ~Leads(t[i], s)
  <2>1. /\ entries[e][s] \in Seq(0 .. RequestCap) /\ t \in Seq(Commands)
    BY <1>1, EdgeUpdate, TriggeredType
  <2>2. \A i \in DOMAIN t : entries[e][s] # <<>> /\ ~Leads(t[i], s)
    BY <1>1, TriggeredFor DEF Leads
  <2> QED  BY <1>1, <2>1, <2>2 DEF MonitorService, Grows
<1>3. CentreStill /\ UNCHANGED <<host, plan, notices>>
  BY DEF MonitorService, CentreStill
<1>4. \A x \in Edges : entries'[x][s] # <<>> => entries[x][s] # <<>>
  <2>1. entries \in [Edges -> [Services -> Seq(0 .. RequestCap)]]
    BY DEF TypeOK
  <2>2. \A x \in Edges : entries'[x][s] =
          IF x = e THEN [i \in DOMAIN entries[e][s] |-> Bump(entries[e][s][i])]
                   ELSE entries[x][s]
    BY <2>1 DEF MonitorService
  <2>3. entries[e][s] = <<>> =>
          [i \in DOMAIN entries[e][s] |-> Bump(entries[e][s][i])] = <<>>
    OBVIOUS
  <2> QED  BY <2>2, <2>3
<1>5. ASSUME NEW o \in Edges, FirstMove(s, o)  PROVE  FirstMove(s, o)'
  <2>1. \A x \in Edges : Pending(x, s)' => Pending(x, s) \/ entries[x][s] # <<>>
    BY <1>2, QueueGrown
  <2>2. \A d \in Edges : Leading(o, s, d)' => Leading(o, s, d)
    <3>1. \A d : ~LeadIn(t, s, d)
      BY <1>2 DEF LeadIn
    <3> QED  BY <1>2, <3>1, QueueGrown, ZenonT(60)
  <2>3. HasMove(queue'[o], s) => HasMove(queue[o], s)
    <3>1. ~HasMove(t, s)
      BY <1>2 DEF HasMove, IsMove, Leads
    <3> QED  BY <1>2, <3>1, QueueGrown
  <2>4. LastMove(queue[o], s) => LastMove(queue'[o], s)
    BY <1>2, QueueGrown, ZenonT(60)
  <2>5. Spread(s, o)'
    BY <1>3, <1>4, <1>5, <2>1, <2>2, CentreSpread DEF FirstMove, Spread
  <2>6. Paced(s, o)'
    BY <1>3, <1>5, <2>2, <2>3, <2>4, CentrePaced DEF FirstMove, Paced
  <2> QED  BY <1>3, <1>5, <2>5, <2>6, CentreKeepsParts DEF FirstMove
<1>6. ASSUME Untouched(s)  PROVE  Calm(s)
  <2>1. \A i \in DOMAIN t : t[i].svc # s
    BY <1>2, <1>6 DEF Untouched
  <2>2. QueueSmaller(s)
    BY <1>2, <2>1, GrowsElsewhere
  <2>3. NetSmaller(s)
    BY <1>3, SmallerSame DEF CentreStill
  <2> QED  BY <1>3, <1>4, <2>2, <2>3 DEF Calm, CentreStill
<1> QED  BY <1>5, <1>6

(* The deployment of a new service begins its first migration.             *)
LEMMA FirstDeploy ==
  ASSUME TypeOK, NEW s \in Services, NEW o \in Edges, Deploy(s, o), Untouched(s)
  PROVE  FirstMove(s, o)'
<1> USE DEF dockerVars, edgeVars, srcVars, dstVars, centreVars
<1>1. /\ container \in [Edges -> [Services -> ContainerStates]]
      /\ entries \in [Edges -> [Services -> Seq(0 .. RequestCap)]]
      /\ host \in [Services -> Edges \cup {NoEdge}]
  BY DEF TypeOK
<1>2. ~Running(o, s)
  BY DEF Untouched, Running, RunStates
<1>3. /\ host'[s] = o /\ plan'[s] = NoPlan
      /\ \A x \in Edges : /\ container'[x][s] = IF x = o THEN "deployed" ELSE "none"
                          /\ entries'[x][s] # <<>> => x = o
  BY <1>1, <1>2 DEF Deploy, Untouched, AddEntry
<1>4. /\ UNCHANGED <<queue, src, srcRecords, net, dst, dstRecords, reserved, notices>>
      /\ QueueSmaller(s) /\ NetSmaller(s)
  BY SmallerSame DEF Deploy
<1>5. \A e, d \in Edges : /\ ~Pending(e, s)' /\ ~Leading(e, s, d)'
                          /\ \A k \in {"prepare", "migrate"} : ~SentTo(e, d, s, k)'
  <2>1. \A e, d \in Edges : ~Pending(e, s) /\ ~Leading(e, s, d)
    BY LeadingPends DEF Untouched
  <2> QED  BY <1>4, <2>1 DEF QueueSmaller, NetSmaller, Untouched
<1>6. ~HasMove(queue'[o], s) /\ LastMove(queue'[o], s)
  BY <1>4, LeadingPends DEF Untouched
<1>7. \A e \in Edges : /\ src'[e].svc # s /\ dst'[e].svc # s
                       /\ s \notin srcRecords'[e] /\ s \notin dstRecords'[e]
                       /\ s \notin reserved'[e]
  BY <1>4 DEF Untouched
<1>8. \A n \in notices' : n.svc # s
  BY <1>4 DEF Untouched
<1>9. plan'[s].phase = "idle"
  BY <1>3 DEF NoPlan
<1>10. Running(o, s)'
  BY <1>3 DEF Running, RunStates
<1>11. \A k : ~At(o, s, k)'
  BY <1>7 DEF At
<1>12. Spread(s, o)'
  BY <1>3, <1>5, <1>7, <1>8, <1>9 DEF Spread, Met
<1>13. Vessels(s, o)'
  BY <1>3, <1>7 DEF Vessels
<1>14. Supplied(s, o)'
  BY <1>5, <1>7, <1>11 DEF Supplied
<1>15. Paced(s, o)'
  BY <1>3, <1>5, <1>6, <1>7, <1>8, <1>10 DEF Paced
<1> QED  BY <1>12, <1>13, <1>14, <1>15 DEF FirstMove

-----------------------------------------------------------------------------
(* The steps of the source thread that are about s.                        *)
LEMMA Snapshots ==
  ASSUME Faults \cap {"checkpoint", "restore", "depart", "leave"} = {},
         NEW e, NEW s, NEW ok \in CheckpointOK(e, s)
  PROVE  ok = Running(e, s) /\ ok \in BOOLEAN
BY DEF CheckpointOK, Running

LEMMA SourceSpread ==
  ASSUME TypeOK, NEW s \in Services, NEW o \in Edges, FirstMove(s, o), QueueSmaller(s),
         UNCHANGED <<dst, dstRecords, host, plan>>,
         \A e \in Edges :
           /\ entries'[e][s] # <<>> => entries[e][s] # <<>>
           /\ s \in srcRecords'[e] => e = o
           /\ src'[e].svc = s /\ src'[e].stage # "measured" =>
                e = o /\ src'[e].dst # o /\ s \in srcRecords'[o],
         \A e, d \in Edges, k \in {"prepare", "migrate"} :
           SentTo(e, d, s, k)' => e = o /\ d # o,
         \A n \in notices' : n.kind = "migrated" => n \in notices
  PROVE  Spread(s, o)'
<1>1. Spread(s, o)
  BY DEF FirstMove
<1>2. \A e \in Edges : Met(e, s, o)' <=> Met(e, s, o)
  BY DEF Met
<1>3. (\A e \in Edges : Pending(e, s)' => Pending(e, s))
      /\ (Leading(o, s, o)' => Leading(o, s, o))
  BY DEF QueueSmaller
<1>4. Met(host[s], s, o)'
  BY <1>1 DEF Met, Spread
<1> QED  BY <1>1, <1>2, <1>3, <1>4 DEF Spread

LEMMA SourcePaced ==
  ASSUME TypeOK, NEW s \in Services, NEW o \in Edges, FirstMove(s, o), QueueSmaller(s),
         UNCHANGED <<container, dst, host, plan>>,
         At(o, s, "preparing")' => Running(o, s),
         Running(o, s) =>
           /\ \A e, d \in Edges : ~SentTo(e, d, s, "migrate")'
           /\ src'[o].svc = s => src'[o].stage \notin {"stopped", "sent", "dropped"},
         \A n \in notices' : n.kind = "migrated" => n \in notices
  PROVE  Paced(s, o)'
<1>1. Paced(s, o)
  BY DEF FirstMove
<1>2. /\ \A d \in Edges : Leading(o, s, d)' => Leading(o, s, d)
      /\ HasMove(queue'[o], s) => HasMove(queue[o], s)
      /\ LastMove(queue[o], s) => LastMove(queue'[o], s)
  BY DEF QueueSmaller
<1>3. Running(o, s)' <=> Running(o, s)
  BY DEF Running
<1> QED  BY <1>1, <1>2, <1>3 DEF Paced

LEMMA StillVessels ==
  ASSUME NEW s \in Services, NEW o \in Edges, FirstMove(s, o),
         UNCHANGED <<container, dst, dstRecords, reserved>>
  PROVE  Vessels(s, o)'
BY DEF FirstMove, Vessels

(* The second image of a server where s is or has been is not needed.      *)
LEMMA SparesSecond ==
  ASSUME TypeOK, NEW s \in Services, NEW o \in Edges, FirstMove(s, o),
         UNCHANGED <<container, srcRecords, dstRecords>>, NetSmaller(s),
         NEW x \in Edges, Met(x, s, o), x = o => src[o].stage = "idle",
         \A d \in Edges \ {x} : folder'[d][s] = folder[d][s],
         folder[x][s] \ {"pre2"} \subseteq folder'[x][s],
         \/ src'[o] = src[o]
         \/ src[o].stage = "idle" /\ src'[o].stage \in {"measured", "dead"},
         \A d \in Edges : dst'[d].svc = s /\ dst'[d].stage = "unpacked" =>
           dst'[d] = dst[d]
  PROVE  Supplied(s, o)'
<1>1. Supplied(s, o) /\ Spread(s, o)
  BY DEF FirstMove
<1>2. x # o => "pre3" \in folder[x][s] /\ "pre3" \in folder'[x][s]
  BY <1>1 DEF Met, Supplied
<1>3. \A d \in Edges : \A f \in {"pre1", "pre3", "snapshot", "delta23", "delta"} :
        f \in folder[d][s] => f \in folder'[d][s]
  OBVIOUS
<1>4. \A d \in Edges \ {o} : Based(d, s) => Based(d, s)'
  BY <1>2 DEF Based
<1>5. \A d \in Edges, k \in {"prepare", "migrate"} :
        SentTo(o, d, s, k)' => SentTo(o, d, s, k) /\ d # o
  BY <1>1 DEF NetSmaller, Spread
<1>6. \A k : k \notin {"measured", "dead"} /\ At(o, s, k)' =>
        At(o, s, k) /\ src'[o] = src[o] /\ (x = o => k = "idle")
  BY DEF At
<1>7. \A d \in Edges :
       /\ s \in dstRecords'[d] => "pre3" \in folder'[d][s]
       /\ SentTo(o, d, s, "prepare")' => Based(d, s)'
       /\ SentTo(o, d, s, "migrate")' => "delta" \in folder'[d][s]
       /\ dst'[d].svc = s /\ dst'[d].stage = "unpacked" => "snapshot" \in folder'[d][s]
  BY <1>1, <1>3, <1>4, <1>5 DEF Supplied
<1>8. /\ At(o, s, "preparing")' => "pre2" \in folder'[o][s]
      /\ At(o, s, "stopped")' => {"pre3", "snapshot"} \subseteq folder'[o][s]
  BY <1>1, <1>6 DEF Supplied
<1>9. At(o, s, "copied")' => /\ {"pre2", "pre3"} \subseteq folder'[o][s]
                             /\ {"pre2", "pre3"} \cap folder'[src'[o].dst][s] # {}
  <2>1. SUFFICES ASSUME At(o, s, "copied")'
                 PROVE  /\ {"pre2", "pre3"} \subseteq folder'[o][s]
                        /\ {"pre2", "pre3"} \cap folder'[src'[o].dst][s] # {}
    OBVIOUS
  <2>2. At(o, s, "copied") /\ src'[o] = src[o] /\ x # o
    BY <1>6, <2>1
  <2>3. src[o].dst \in Edges
    BY <2>2, FirstTypes
  <2> QED  BY <1>1, <1>2, <2>2, <2>3 DEF Supplied
<1>10. At(o, s, "prepared")' => Based(src[o].dst, s)'
  <2>1. SUFFICES ASSUME At(o, s, "prepared")'
                 PROVE  Based(src[o].dst, s)'
    OBVIOUS
  <2>2. At(o, s, "prepared") /\ src'[o] = src[o]
    BY <1>6, <2>1
  <2>3. src[o].dst \in Edges \ {o}
    BY <1>1, <2>2, FirstTypes DEF At, Spread
  <2>4. Based(src[o].dst, s)
    BY <1>1, <2>2 DEF Supplied
  <2> QED  BY <1>2, <2>2, <2>3, <2>4 DEF Based
<1>11. s \in srcRecords'[o] /\ Running(o, s)' =>
         \/ "pre3" \in folder'[o][s]
         \/ At(o, s, "preparing")' \/ src'[o].stage = "dead"
  BY <1>1, <1>3 DEF Supplied, Running, At
<1> QED  BY <1>7, <1>8, <1>9, <1>10, <1>11 DEF Supplied

(* The measurements.                                                       *)
LEMMA FirstMeasuring ==
  ASSUME TypeOK, TypeOK', Faults \cap {"checkpoint", "restore", "depart", "leave"} = {},
         NEW s \in Services, NEW o \in Edges, FirstMove(s, o), NEW e \in Edges,
         SourceService(e) = s, PreMeasure(e) \/ Measure(e) \/ MeasureReport(e)
  PROVE  FirstMove(s, o)'
<1> USE DEF dockerVars, edgeVars, srcVars, dstVars, centreVars
<1>1. SourceStep(e)
  BY DEF SourceStep
<1>2. /\ QueueSmaller(s) /\ (\A x \in Edges \ {e} : src'[x] = src[x])
      /\ src[e].stage # "dead" /\ (src[e].stage = "idle" => src[e] = Idle)
  BY <1>1, SourceQueue, SourceOnly, SourceWorks
<1>3. /\ UNCHANGED <<container, entries, srcRecords, net, dst, dstRecords, reserved,
                     host, plan, notices>>
      /\ NetSmaller(s)
  BY SmallerSame DEF PreMeasure, Measure, MeasureReport
<1>4. Idle.svc # s /\ Dead.svc # s /\ Dead.stage = "dead"
  BY MigrateAssumption DEF Idle, Dead
<1>5. CASE PreMeasure(e)
  <2>1. src[e].stage = "idle" /\ Head(queue[e]).svc = s
    BY <1>5 DEF PreMeasure, Takes, SourceService
  <2>2. \/ folder' = folder
        \/ folder' = Put(folder, e, s, Snap(folder[e][s], "pre1", TRUE))
    BY <1>5, <2>1, Snapshots DEF PreMeasure
  <2>3. \A x \in Edges : folder[x][s] \subseteq folder'[x][s]
    BY <2>2, FolderSets DEF Snap
  <2>4. src'[e] = Idle \/ src'[e] = Dead
    BY <1>5, SourceSets DEF PreMeasure
  <2>5. \A x \in Edges :
          /\ src'[x].svc = s => src'[x] = src[x]
          /\ src'[x].stage = "dead" \/ (~At(x, s, "preparing") /\ src[x].stage # "dead")
               \/ src'[x] = src[x]
    BY <1>2, <1>4, <2>1, <2>4 DEF At
  <2>6. Calm(s)
    BY <1>2, <1>3, <2>3, <2>5 DEF Calm
  <2> QED  BY <2>6, CalmKeeps
<1>6. CASE MeasureReport(e)
  <2>1. src'[e] = Idle \/ src'[e] = Dead
    BY <1>6, SourceSets DEF MeasureReport
  <2>2. folder' = folder /\ src[e].stage = "measured"
    BY <1>6 DEF MeasureReport
  <2>3. \A x \in Edges :
          /\ src'[x].svc = s => src'[x] = src[x]
          /\ src'[x].stage = "dead" \/ (~At(x, s, "preparing") /\ src[x].stage # "dead")
               \/ src'[x] = src[x]
    BY <1>2, <1>4, <2>1, <2>2 DEF At
  <2>4. Calm(s)
    BY <1>2, <1>3, <2>2, <2>3 DEF Calm
  <2> QED  BY <2>4, CalmKeeps
<1>7. CASE Measure(e)
  <2>1. PICK c : c = Head(queue[e])
    OBVIOUS
  <2>2. /\ src[e].stage = "idle" /\ c.svc = s /\ Pending(e, s)
        /\ SrcGoes(e, "measured", c) \/ SrcDies(e)
        /\ \E f : /\ folder' = Put(folder, e, s, f)
                  /\ folder[e][s] \ {"pre2"} \subseteq f
    <3>1. src[e].stage = "idle" /\ Takes(e, "measure")
      BY <1>7 DEF Measure, Takes
    <3>2. c.svc = s
      BY <2>1, <3>1 DEF SourceService
    <3>3. Pending(e, s)
      BY <2>1, <3>1, <3>2, QueueTaken
    <3>4. PICK ok \in CheckpointOK(e, s) :
            /\ folder' = Put(folder, e, s, Snap(folder[e][s], "pre2", ok))
            /\ SrcGoes(e, "measured", c) \/ SrcDies(e)
      BY <1>7, <2>1, <3>2 DEF Measure
    <3>5. folder[e][s] \ {"pre2"} \subseteq Snap(folder[e][s], "pre2", ok)
      BY DEF Snap
    <3> QED  BY <3>1, <3>2, <3>3, <3>4, <3>5
  <2>3. Met(e, s, o)
    BY <2>2 DEF FirstMove, Spread
  <2>4. src'[e] = Dead \/ src'[e].stage = "measured"
    BY <2>2, SourceSets
  <2>5. /\ \A d \in Edges \ {e} : folder'[d][s] = folder[d][s]
        /\ folder[e][s] \ {"pre2"} \subseteq folder'[e][s]
    BY <2>2, FolderSets
  <2>6. Supplied(s, o)'
    <3>1. e = o => src[o].stage = "idle"
      BY <2>2
    <3>2. \/ src'[o] = src[o]
          \/ src[o].stage = "idle" /\ src'[o].stage \in {"measured", "dead"}
      BY <1>2, <1>4, <2>2, <2>4
    <3> QED  BY <1>3, <2>3, <2>5, <3>1, <3>2, SparesSecond
  <2>7. Spread(s, o)'
    <3>1. \A x \in Edges :
            /\ s \in srcRecords'[x] => x = o
            /\ src'[x].svc = s /\ src'[x].stage # "measured" =>
                 x = o /\ src'[x].dst # o /\ s \in srcRecords'[o]
      BY <1>2, <1>3, <1>4, <2>4 DEF FirstMove, Spread
    <3>2. \A x, d \in Edges, k \in {"prepare", "migrate"} :
            SentTo(x, d, s, k)' => x = o /\ d # o
      BY <1>3 DEF FirstMove, Spread, NetSmaller
    <3> QED  BY <1>2, <1>3, <3>1, <3>2, SourceSpread
  <2>8. Paced(s, o)'
    <3>1. At(o, s, "preparing")' => Running(o, s)
      BY <1>2, <1>4, <2>4 DEF At, FirstMove, Paced
    <3>2. Running(o, s) =>
            /\ \A x, d \in Edges : ~SentTo(x, d, s, "migrate")'
            /\ src'[o].svc = s => src'[o].stage \notin {"stopped", "sent", "dropped"}
      BY <1>2, <1>3, <1>4, <2>4 DEF FirstMove, Paced, NetSmaller
    <3> QED  BY <1>2, <1>3, <3>1, <3>2, SourcePaced
  <2> QED  BY <1>3, <2>6, <2>7, <2>8, StillVessels DEF FirstMove
<1> QED  BY <1>5, <1>6, <1>7

(* A preparation begins at the origin: elsewhere it would be a second move. *)
LEMMA FirstPrepare ==
  ASSUME TypeOK, TypeOK', NEW s \in Services, NEW o \in Edges, FirstMove(s, o),
         Fresh(s)', NEW e \in Edges, SourceService(e) = s, Prepare(e)
  PROVE  FirstMove(s, o)'
<1> USE DEF dockerVars, edgeVars, srcVars, dstVars, centreVars
<1>1. QueueSmaller(s) /\ (\A x \in Edges \ {e} : src'[x] = src[x])
  BY SourceQueue, SourceOnly DEF SourceStep
<1>2. /\ UNCHANGED <<container, folder, entries, net, dst, dstRecords, reserved,
                     host, plan, notices>>
      /\ NetSmaller(s)
  BY SmallerSame DEF Prepare
<1>3. Dead.svc # s /\ Dead.stage = "dead"
  BY MigrateAssumption DEF Dead
<1>4. PICK c : c = Head(queue[e])
  OBVIOUS
<1>5. /\ src[e].stage = "idle" /\ c.svc = s
      /\ Pending(e, s) /\ Leading(e, s, c.dst) /\ c.dst \in Edges
      /\ srcRecords' = [srcRecords EXCEPT ![e] = @ \cup {s}]
      /\ \/ "pre2" \in folder[e][s] /\ SrcGoes(e, "preparing", c)
         \/ SrcDies(e)
  <2>1. Takes(e, "prepare") /\ src[e].stage = "idle"
    BY DEF Prepare, Takes
  <2>2. c.svc = s
    BY <1>4, <2>1 DEF SourceService
  <2>3. Pending(e, c.svc) /\ Leading(e, c.svc, c.dst) /\ c \in Commands
    BY <1>4, <2>1, QueueTaken
  <2>4. c.dst \in Edges
    BY <2>3 DEF Commands
  <2> QED  BY <1>4, <2>1, <2>2, <2>3, <2>4 DEF Prepare
<1>6. /\ srcRecords \in [Edges -> SUBSET Services]
      /\ \A x \in Edges : s \in srcRecords'[x] <=> s \in srcRecords[x] \/ x = e
  <2>1. srcRecords \in [Edges -> SUBSET Services]
    BY DEF TypeOK
  <2> QED  BY <1>5, <2>1
<1>7. e = o
  <2>1. Met(e, s, o)
    BY <1>5 DEF FirstMove, Spread
  <2>2. s \notin dstRecords[e]
    BY <1>2, <1>6 DEF Fresh
  <2> QED  BY <2>1, <2>2 DEF Met
<1>8. /\ \/ src'[o].stage = "dead" /\ src'[o].svc # s
         \/ /\ src'[o].stage = "preparing" /\ src'[o].dst = c.dst
            /\ src'[o].svc = s /\ "pre2" \in folder[o][s]
      /\ Running(o, s) /\ c.dst # o
  <2>1. Running(o, s) /\ c.dst # o
    BY <1>5, <1>7 DEF FirstMove, Spread, Paced
  <2> QED  BY <1>3, <1>5, <1>7, <2>1, SourceSets
<1>9. Spread(s, o)'
  <2>1. \A x \in Edges :
          /\ s \in srcRecords'[x] => x = o
          /\ src'[x].svc = s /\ src'[x].stage # "measured" =>
               x = o /\ src'[x].dst # o /\ s \in srcRecords'[o]
    BY <1>1, <1>6, <1>7, <1>8 DEF FirstMove, Spread
  <2>2. \A x, d \in Edges, k \in {"prepare", "migrate"} :
          SentTo(x, d, s, k)' => x = o /\ d # o
    BY <1>2 DEF FirstMove, Spread, NetSmaller
  <2> QED  BY <1>1, <1>2, <2>1, <2>2, SourceSpread
<1>10. Paced(s, o)'
  <2>1. \A x, d \in Edges : ~SentTo(x, d, s, "migrate")'
    BY <1>2, <1>8 DEF FirstMove, Paced, NetSmaller
  <2> QED  BY <1>1, <1>2, <1>8, <2>1, SourcePaced
<1>11. Supplied(s, o)'
  <2>1. \A d \in Edges, k \in {"prepare", "migrate"} :
          SentTo(o, d, s, k)' => SentTo(o, d, s, k)
    BY <1>2 DEF NetSmaller
  <2>2. \A d \in Edges : Based(d, s)' <=> Based(d, s)
    BY <1>2 DEF Based
  <2>3. /\ \A k : At(o, s, k)' => k = "preparing"
        /\ At(o, s, "preparing")' \/ src'[o].stage = "dead"
        /\ At(o, s, "preparing")' => "pre2" \in folder[o][s]
    BY <1>8 DEF At
  <2> QED  BY <1>2, <2>1, <2>2, <2>3 DEF FirstMove, Supplied
<1> QED  BY <1>2, <1>9, <1>10, <1>11, StillVessels DEF FirstMove

(* What has arrived stays when no file goes.                               *)
LEMMA ArrivedStays ==
  ASSUME NEW s \in Services, NEW o \in Edges, FirstMove(s, o),
         UNCHANGED <<dst, dstRecords>>,
         \A x \in Edges : folder[x][s] \subseteq folder'[x][s],
         NEW d \in Edges
  PROVE  /\ s \in dstRecords'[d] => "pre3" \in folder'[d][s]
         /\ SentTo(o, d, s, "prepare") => Based(d, s)'
         /\ SentTo(o, d, s, "migrate") => "delta" \in folder'[d][s]
         /\ dst'[d].svc = s /\ dst'[d].stage = "unpacked" =>
              "snapshot" \in folder'[d][s]
<1>1. Based(d, s) => Based(d, s)'
  BY Zenon DEF Based
<1> QED  BY <1>1 DEF FirstMove, Supplied

(* The rest of a preparation, at the origin.                               *)
LEMMA FirstPrepared ==
  ASSUME TypeOK, TypeOK', Faults \cap {"checkpoint", "restore", "depart", "leave"} = {},
         NEW s \in Services, NEW o \in Edges, FirstMove(s, o), NEW e \in Edges,
         SourceService(e) = s, PrepareCheckpoint(e) \/ PrepareDelta(e) \/ PrepareNotify(e)
  PROVE  FirstMove(s, o)'
<1> USE DEF dockerVars, edgeVars, srcVars, dstVars, centreVars
<1>1. /\ QueueSmaller(s) /\ (\A x \in Edges \ {e} : src'[x] = src[x])
      /\ src[e].svc = s /\ src[e].stage \in {"preparing", "copied", "prepared"}
  BY SourceQueue, SourceOnly, Zenon DEF SourceStep, SourceService, PrepareCheckpoint,
     PrepareDelta, PrepareNotify
<1>2. /\ UNCHANGED <<container, entries, srcRecords, dst, dstRecords, reserved,
                     host, plan>>
      /\ \A n \in notices' : n.kind = "migrated" => n \in notices
  <2>1. CASE PrepareCheckpoint(e) \/ PrepareDelta(e)
    BY <2>1, Zenon DEF PrepareCheckpoint, PrepareDelta
  <2>2. CASE PrepareNotify(e)
    BY <2>2 DEF PrepareNotify, Notice
  <2> QED  BY <2>1, <2>2
<1>3. PICK d : d = src[e].dst
  OBVIOUS
<1>4. e = o /\ d # o /\ d \in Edges /\ s \in srcRecords[o]
  BY <1>1, <1>3, SourceUpdate DEF FirstMove, Spread, SrcStages
<1>5. \A x, y \in Edges, k \in {"prepare", "migrate"} :
        SentTo(x, y, s, k)' =>
          SentTo(x, y, s, k) \/ (PrepareNotify(e) /\ x = o /\ y = d /\ k = "prepare")
  <2>1. CASE PrepareNotify(e)
    <3>1. Sends(e, d, "prepare", s, 0)
      BY <1>1, <1>3, <2>1 DEF PrepareNotify, Sends
    <3> QED  BY <1>4, <2>1, <3>1, SentMore, RequestType
  <2>2. CASE PrepareCheckpoint(e) \/ PrepareDelta(e)
    <3>1. net' = net
      BY <2>2, Zenon DEF PrepareCheckpoint, PrepareDelta
    <3> QED  BY <3>1, SmallerSame, Zenon DEF NetSmaller
  <2> QED  BY <2>1, <2>2
<1>6. \/ /\ src[o].stage = "preparing" /\ PrepareCheckpoint(e)
         /\ src'[o].stage = "copied" /\ src'[o].svc = s /\ src'[o].dst = d
      \/ /\ src[o].stage = "copied" /\ PrepareDelta(e)
         /\ src'[o].stage = "prepared" /\ src'[o].svc = s /\ src'[o].dst = d
      \/ /\ src[o].stage = "prepared" /\ PrepareNotify(e)
         /\ src'[o].stage = "idle" /\ src'[o].svc # s
  <2>1. Idle.stage = "idle" /\ Idle.svc # s
    BY MigrateAssumption DEF Idle
  <2>2. CASE PrepareCheckpoint(e)
    <3>1. src[o].stage = "preparing" /\ src' = [src EXCEPT ![o].stage = "copied"]
      BY <1>4, <2>2, Zenon DEF PrepareCheckpoint
    <3>2. ASSUME NEW k, src' = [src EXCEPT ![o].stage = k]
          PROVE  /\ src'[o].stage = k /\ src'[o].svc = src[o].svc
                 /\ src'[o].dst = src[o].dst
      BY <3>2, SourceSets
    <3>3. src'[o].stage = "copied" /\ src'[o].svc = s /\ src'[o].dst = d
      BY <1>1, <1>3, <1>4, <3>1, <3>2
    <3> QED  BY <2>2, <3>1, <3>3, Zenon
  <2>3. CASE PrepareDelta(e)
    <3>1. src[o].stage = "copied" /\ src' = [src EXCEPT ![o].stage = "prepared"]
      BY <1>4, <2>3 DEF PrepareDelta
    <3>2. ASSUME NEW k, src' = [src EXCEPT ![o].stage = k]
          PROVE  /\ src'[o].stage = k /\ src'[o].svc = src[o].svc
                 /\ src'[o].dst = src[o].dst
      BY <3>2, SourceSets
    <3>3. src'[o].stage = "prepared" /\ src'[o].svc = s /\ src'[o].dst = d
      BY <1>1, <1>3, <1>4, <3>1, <3>2
    <3> QED  BY <2>3, <3>1, <3>3
  <2>4. CASE PrepareNotify(e)
    BY <1>1, <1>3, <1>4, <2>1, <2>4, SourceSets DEF PrepareNotify
  <2> QED  BY <2>2, <2>3, <2>4
<1>7. Spread(s, o)'
  <2>1. \A x \in Edges :
          /\ s \in srcRecords'[x] => x = o
          /\ src'[x].svc = s /\ src'[x].stage # "measured" =>
               x = o /\ src'[x].dst # o /\ s \in srcRecords'[o]
    BY <1>1, <1>2, <1>4, <1>6 DEF FirstMove, Spread
  <2>2. \A x, y \in Edges, k \in {"prepare", "migrate"} :
          SentTo(x, y, s, k)' => x = o /\ y # o
    BY <1>4, <1>5 DEF FirstMove, Spread
  <2> QED  BY <1>1, <1>2, <2>1, <2>2, SourceSpread
<1>8. Paced(s, o)'
  <2>1. ~At(o, s, "preparing")'
    BY <1>6 DEF At
  <2>2. Running(o, s) => \A x, y \in Edges : ~SentTo(x, y, s, "migrate")'
    BY <1>5 DEF FirstMove, Paced
  <2>3. Running(o, s) =>
          (src'[o].svc = s => src'[o].stage \notin {"stopped", "sent", "dropped"})
    BY <1>6
  <2> QED  BY <1>1, <1>2, <2>1, <2>2, <2>3, SourcePaced
<1>9. CASE PrepareCheckpoint(e)
  <2>1. src[o].stage = "preparing" /\ At(o, s, "preparing") /\ Running(o, s)
    BY <1>1, <1>4, <1>9, Zenon DEF PrepareCheckpoint, At, FirstMove, Paced
  <2>2. PICK f, g : /\ f = folder[o][s] \cup {"pre3"}
                    /\ g = folder[d][s] \cup (folder[o][s] \cap {"pre2"}) \cup {"files"}
    OBVIOUS
  <2>3. folder' = Put(Put(folder, o, s, f), d, s, g)
    <3>1. folder' = Put(Put(folder, o, s, f), d, s,
            Put(folder, o, s, f)[d][s] \cup (folder[o][s] \cap {"pre2"}) \cup {"files"})
      <4>1. PICK ok \in CheckpointOK(e, src[e].svc) :
              folder' = Put(Put(folder, e, src[e].svc,
                                Snap(folder[e][src[e].svc], "pre3", ok)),
                            src[e].dst, src[e].svc,
                            Put(folder, e, src[e].svc,
                                Snap(folder[e][src[e].svc], "pre3", ok))
                              [src[e].dst][src[e].svc]
                              \cup (folder[e][src[e].svc] \cap {"pre2"})
                              \cup {"files"})
        BY <1>9, Zenon DEF PrepareCheckpoint
      <4>2. src[e].svc = s /\ src[e].dst = d /\ e = o
        BY <1>1, <1>3, <1>4
      <4>3. ok \in CheckpointOK(o, s)
        BY <4>1, <4>2
      <4>4. ok = TRUE
        BY <2>1, <4>3, Snapshots
      <4>5. Snap(folder[o][s], "pre3", ok) = f
        BY <2>2, <4>4 DEF Snap
      <4> QED  BY <4>1, <4>2, <4>5, Zenon
    <3>2. Put(folder, o, s, f)[d][s] = folder[d][s]
      <4>1. DOMAIN folder = Edges /\ \A y \in Edges : DOMAIN folder[y] = Services
        BY DEF TypeOK
      <4> QED  BY <1>4, <4>1, PutSets
    <3> QED  BY <2>2, <3>1, <3>2
  <2>4. \A x \in Edges :
          folder'[x][s] = IF x = d THEN g ELSE IF x = o THEN f ELSE folder[x][s]
    BY <1>4, <2>3, FolderSets
  <2>5. /\ \A x \in Edges : folder[x][s] \subseteq folder'[x][s]
        /\ {"pre2", "pre3"} \subseteq folder'[o][s] /\ "pre2" \in folder'[d][s]
    BY <1>4, <2>1, <2>2, <2>4 DEF FirstMove, Supplied
  <2>6. \A k : At(o, s, k)' => k = "copied"
    BY <1>6, <2>1 DEF At
  <2>7. src'[o].dst = d
    BY <1>6, <2>1
  <2>8. \A y \in Edges, k \in {"prepare", "migrate"} :
          SentTo(o, y, s, k)' => SentTo(o, y, s, k)
    <3>1. ~PrepareNotify(e)
      BY <1>4, <2>1 DEF PrepareNotify
    <3> QED  BY <1>5, <3>1
  <2>9. Supplied(s, o)'
    BY <1>2, <2>5, <2>6, <2>7, <2>8, ArrivedStays DEF Supplied
  <2> QED  BY <1>2, <1>7, <1>8, <2>9, StillVessels, Zenon DEF FirstMove
<1>10. CASE PrepareDelta(e)
  <2>1. src[o].stage = "copied" /\ At(o, s, "copied")
    BY <1>1, <1>4, <1>10 DEF PrepareDelta, At
  <2>2. /\ {"pre2", "pre3"} \subseteq folder[o][s]
        /\ {"pre2", "pre3"} \cap folder[d][s] # {}
    BY <1>3, <1>4, <2>1 DEF FirstMove, Supplied
  <2>3. folder' = Put(folder, d, s, folder[d][s] \cup {"delta23"} \cup {"files"})
    BY <1>1, <1>3, <1>4, <1>10, <2>2 DEF PrepareDelta
  <2>4. \A x \in Edges : folder'[x][s] =
          IF x = d THEN folder[d][s] \cup {"delta23"} \cup {"files"} ELSE folder[x][s]
    <3>1. PICK f : f = folder[d][s] \cup {"delta23"} \cup {"files"}
      OBVIOUS
    <3>2. folder' = Put(folder, d, s, f)
      BY <2>3, <3>1
    <3>3. \A x \in Edges : folder'[x][s] = IF x = d THEN f ELSE folder[x][s]
      BY <1>4, <3>2, FolderSets
    <3> QED  BY <3>1, <3>3
  <2>5. /\ \A x \in Edges : folder[x][s] \subseteq folder'[x][s]
        /\ Based(d, s)' /\ "pre3" \in folder'[o][s]
    BY <1>4, <2>2, <2>4 DEF Based
  <2>6. \A k : At(o, s, k)' => k = "prepared"
    BY <1>6, <2>1 DEF At
  <2>7. Based(src[o].dst, s)'
    BY <1>6, <2>1, <2>5 DEF Based
  <2>8. \A y \in Edges, k \in {"prepare", "migrate"} :
          SentTo(o, y, s, k)' => SentTo(o, y, s, k)
    <3>1. ~PrepareNotify(e)
      BY <1>4, <2>1 DEF PrepareNotify
    <3> QED  BY <1>5, <3>1
  <2>9. Supplied(s, o)'
    BY <1>2, <2>5, <2>6, <2>7, <2>8, ArrivedStays DEF Supplied
  <2> QED  BY <1>2, <1>7, <1>8, <2>9, StillVessels DEF FirstMove
<1>11. CASE PrepareNotify(e)
  <2>1. src[o].stage = "prepared" /\ At(o, s, "prepared") /\ folder' = folder
    BY <1>1, <1>4, <1>11 DEF PrepareNotify, At
  <2>2. Based(d, s) /\ (Running(o, s) => "pre3" \in folder[o][s])
    BY <1>3, <1>4, <2>1 DEF FirstMove, Supplied, At
  <2>3. \A x \in Edges : Based(x, s)' <=> Based(x, s)
    BY <2>1 DEF Based
  <2>4. \A y \in Edges :
          /\ SentTo(o, y, s, "prepare")' => Based(y, s)'
          /\ SentTo(o, y, s, "migrate")' => "delta" \in folder'[y][s]
    BY <1>5, <2>1, <2>2, <2>3 DEF FirstMove, Supplied
  <2>5. \A k : ~At(o, s, k)'
    BY <1>6, <2>1 DEF At
  <2>6. Running(o, s)' <=> Running(o, s)
    BY <1>2 DEF Running
  <2>7. Supplied(s, o)'
    BY <1>2, <2>1, <2>2, <2>4, <2>5, <2>6, ArrivedStays DEF Supplied
  <2> QED  BY <1>2, <1>7, <1>8, <2>7, StillVessels DEF FirstMove
<1> QED  BY <1>9, <1>10, <1>11

(* The origin stops s: it does so once, with its last images taken.        *)
LEMMA FirstStop ==
  ASSUME TypeOK, TypeOK', Faults \cap {"checkpoint", "restore", "depart", "leave"} = {},
         NEW s \in Services, NEW o \in Edges, FirstMove(s, o), NEW e \in Edges,
         SourceService(e) = s, MigrateStop(e)
  PROVE  FirstMove(s, o)'
<1> USE DEF dockerVars, edgeVars, srcVars, dstVars, centreVars
<1>1. /\ QueueSmaller(s) /\ (\A x \in Edges \ {e} : src'[x] = src[x])
      /\ src[e].stage = "idle" /\ src[e] = Idle
  BY SourceQueue, SourceOnly, SourceWorks, Zenon DEF SourceStep, MigrateStop, Takes
<1>2. /\ UNCHANGED <<entries, srcRecords, net, dst, dstRecords, reserved, host, plan,
                     notices>>
      /\ NetSmaller(s)
  BY SmallerSame DEF MigrateStop
<1>3. Dead.svc # s /\ Dead.stage = "dead"
  BY MigrateAssumption DEF Dead
<1>4. PICK c : c = Head(queue[e])
  OBVIOUS
<1>5. /\ c.svc = s /\ c \in Commands /\ c.dst \in Edges /\ Takes(e, "migrate")
      /\ Pending(e, s) /\ Leading(e, s, c.dst) /\ HasMove(queue[e], s)
      /\ LastMove(queue[e], s) => \A d : ~Leading(e, s, d)'
  <2>1. Takes(e, "migrate")
    BY DEF MigrateStop
  <2>2. c.svc = s
    BY <1>1, <1>4 DEF SourceService
  <2>3. /\ c \in Commands /\ Pending(e, c.svc) /\ Leading(e, c.svc, c.dst)
        /\ HasMove(queue[e], c.svc)
        /\ LastMove(queue[e], c.svc) => \A d : ~Leading(e, c.svc, d)'
    BY <1>4, <2>1, QueueTaken
  <2>4. c.dst \in Edges
    BY <2>3 DEF Commands
  <2> QED  BY <2>1, <2>2, <2>3, <2>4
<1>6. CASE s \notin srcRecords[e]
  <2>1. SrcDies(e) /\ UNCHANGED <<container, folder>>
    BY <1>4, <1>5, <1>6 DEF MigrateStop
  <2>2. src'[e] = Dead
    BY <2>1, SourceSets
  <2>3. \A x \in Edges :
          /\ src'[x].svc = s => src'[x] = src[x]
          /\ src'[x].stage = "dead" \/ (~At(x, s, "preparing") /\ src[x].stage # "dead")
               \/ src'[x] = src[x]
    BY <1>1, <1>3, <2>2
  <2>4. Calm(s)
    BY <1>1, <1>2, <2>1, <2>3 DEF Calm
  <2> QED  BY <2>4, CalmKeeps
<1>7. CASE s \in srcRecords[e]
  <2>1. e = o /\ Spread(s, o) /\ Vessels(s, o) /\ Supplied(s, o) /\ Paced(s, o)
    BY <1>7 DEF FirstMove, Spread
  <2>2. /\ Running(o, s) /\ c.dst # o /\ container[o][s] = "deployed"
        /\ plan[s].phase = "migrate" /\ LastMove(queue[o], s)
        /\ \A d : ~Leading(o, s, d)'
    <3>1. Running(o, s) /\ plan[s].phase = "migrate" /\ LastMove(queue[o], s)
      BY <1>5, <2>1 DEF Paced
    <3>2. c.dst # o
      BY <1>5, <2>1 DEF Spread
    <3>3. container[o][s] = "deployed"
      BY <2>1, <3>1 DEF Vessels, Running, RunStates
    <3> QED  BY <1>5, <2>1, <3>1, <3>2, <3>3
  <2>3. "pre3" \in folder[o][s]
    BY <1>1, <1>7, <2>1, <2>2 DEF Supplied, At
  <2>4. /\ folder' = Put(folder, o, s, folder[o][s] \cup {"snapshot"})
        /\ container' = [container EXCEPT ![o][s] = Stopped(@)]
        /\ SrcGoes(o, "stopped", c)
    <3>1. PICK ok \in CheckpointOK(o, s) :
            /\ folder' = Put(folder, o, s, Snap(folder[o][s], "snapshot", ok))
            /\ container' = IF ok THEN [container EXCEPT ![o][s] = Stopped(@)]
                                  ELSE container
            /\ SrcGoes(o, "stopped", c)
      BY <1>4, <1>5, <1>7, <2>1 DEF MigrateStop
    <3>2. ok = TRUE
      BY <2>2, Snapshots
    <3> QED  BY <3>1, <3>2 DEF Snap
  <2>5. /\ \A x \in Edges : folder[x][s] \subseteq folder'[x][s]
        /\ {"pre3", "snapshot"} \subseteq folder'[o][s]
    <3>1. PICK f : f = folder[o][s] \cup {"snapshot"}
      OBVIOUS
    <3>2. folder' = Put(folder, o, s, f)
      BY <2>4, <3>1
    <3>3. \A x \in Edges : folder'[x][s] = IF x = o THEN f ELSE folder[x][s]
      BY <3>2, FolderSets
    <3> QED  BY <2>3, <3>1, <3>3
  <2>6. \A x \in Edges :
          container'[x][s] = IF x = o THEN "none" ELSE container[x][s]
    <3>1. container \in [Edges -> [Services -> ContainerStates]]
      BY DEF TypeOK
    <3> QED  BY <2>2, <2>4, <3>1 DEF Stopped
  <2>7. /\ src'[o].stage = "stopped" /\ src'[o].svc = s /\ src'[o].dst = c.dst
        /\ \A k : At(o, s, k)' => k = "stopped"
    <3>1. src'[o].stage = "stopped" /\ src'[o].svc = s /\ src'[o].dst = c.dst
      BY <1>5, <2>4, SourceSets
    <3> QED  BY <3>1 DEF At
  <2>8. ~Running(o, s)'
    BY <2>6 DEF Running, RunStates
  <2>9. Spread(s, o)'
    <3>1. \A x \in Edges :
            /\ s \in srcRecords'[x] => x = o
            /\ src'[x].svc = s /\ src'[x].stage # "measured" =>
                 x = o /\ src'[x].dst # o /\ s \in srcRecords'[o]
      BY <1>1, <1>2, <1>7, <2>1, <2>2, <2>7 DEF Spread
    <3>2. \A x, d \in Edges, k \in {"prepare", "migrate"} :
            SentTo(x, d, s, k)' => x = o /\ d # o
      BY <1>2, <2>1 DEF Spread, NetSmaller
    <3> QED  BY <1>1, <1>2, <3>1, <3>2, SourceSpread
  <2>10. Vessels(s, o)'
    BY <1>2, <2>1, <2>6 DEF Vessels, Spread
  <2>11. Supplied(s, o)'
    <3>1. \A d \in Edges, k \in {"prepare", "migrate"} :
            SentTo(o, d, s, k)' => SentTo(o, d, s, k)
      BY <1>2 DEF NetSmaller
    <3> QED  BY <1>2, <2>5, <2>7, <2>8, <3>1, ArrivedStays DEF Supplied
  <2>12. Paced(s, o)'
    <3>1. HasMove(queue'[o], s) => HasMove(queue[o], s)
      BY <1>1 DEF QueueSmaller
    <3>2. LastMove(queue'[o], s)
      BY <1>1, <2>2 DEF QueueSmaller
    <3> QED  BY <1>2, <2>2, <2>7, <2>8, <3>1, <3>2 DEF Paced
  <2> QED  BY <2>9, <2>10, <2>11, <2>12 DEF FirstMove
<1> QED  BY <1>6, <1>7, Zenon

(* The rest of the migration, at the origin, which has stopped s.          *)
LEMMA FirstLeave ==
  ASSUME TypeOK, TypeOK', NEW s \in Services, NEW o \in Edges, FirstMove(s, o),
         NEW e \in Edges, SourceService(e) = s,
         MigrateSend(e) \/ MigrateFinish(e) \/ MigrateCleanup(e)
  PROVE  FirstMove(s, o)'
<1> USE DEF dockerVars, edgeVars, srcVars, dstVars, centreVars
<1>1. /\ QueueSmaller(s) /\ (\A x \in Edges \ {e} : src'[x] = src[x])
      /\ src[e].svc = s /\ src[e].stage \in {"stopped", "sent", "dropped"}
  BY SourceQueue, SourceOnly, ZenonT(60) DEF SourceStep, SourceService, MigrateSend,
     MigrateFinish, MigrateCleanup
<1>2. UNCHANGED <<container, srcRecords, dst, dstRecords, reserved, host, plan,
                  notices>>
  BY DEF MigrateSend, MigrateFinish, MigrateCleanup
<1>3. PICK d : d = src[e].dst
  OBVIOUS
<1>4. /\ e = o /\ d # o /\ d \in Edges /\ s \in srcRecords[o]
      /\ ~Running(o, s) /\ ~Running(o, s)'
      /\ Spread(s, o) /\ Supplied(s, o) /\ s \notin dstRecords[o]
  <2>1. e = o /\ d # o /\ d \in Edges /\ s \in srcRecords[o]
    BY <1>1, <1>3, SourceUpdate DEF FirstMove, Spread, SrcStages
  <2>2. ~Running(o, s)
    BY <1>1, <2>1 DEF FirstMove, Paced
  <2> QED  BY <1>2, <2>1, <2>2 DEF FirstMove, Spread, Running
<1>5. Idle.svc # s /\ Dead.svc # s /\ Idle.stage = "idle" /\ Dead.stage = "dead"
  BY MigrateAssumption DEF Idle, Dead
<1>6. ASSUME NEW k, src' = [src EXCEPT ![e].stage = k]
      PROVE  src'[o].stage = k /\ src'[o].svc = s /\ src'[o].dst = d
  <2>1. src'[e].stage = k /\ src'[e].svc = src[e].svc /\ src'[e].dst = src[e].dst
    BY <1>6, SourceSets
  <2> QED  BY <1>1, <1>3, <1>4, <2>1
<1>7. /\ MigrateSend(e) =>
           src'[o] = Dead \/ (src'[o].stage = "sent" /\ src'[o].svc = s /\ src'[o].dst = d)
      /\ MigrateFinish(e) =>
           src'[o].stage = "dropped" /\ src'[o].svc = s /\ src'[o].dst = d
      /\ MigrateCleanup(e) => src'[o] = Idle
  <2>1. CASE MigrateSend(e)
    <3>1. SrcDies(e) \/ src' = [src EXCEPT ![e].stage = "sent"]
      BY <2>1, Zenon DEF MigrateSend
    <3>2. SrcDies(e) => src'[o] = Dead
      BY <1>4, SourceSets, Zenon
    <3>3. src[e].stage = "stopped"
      BY <2>1, Zenon DEF MigrateSend
    <3> QED  BY <1>6, <3>1, <3>2, <3>3 DEF MigrateFinish, MigrateCleanup
  <2>2. CASE MigrateFinish(e)
    <3>1. src' = [src EXCEPT ![e].stage = "dropped"] /\ src[e].stage = "sent"
      BY <2>2 DEF MigrateFinish
    <3> QED  BY <1>6, <3>1 DEF MigrateSend, MigrateCleanup
  <2>3. CASE MigrateCleanup(e)
    <3>1. SrcRests(e) /\ src[e].stage = "dropped"
      BY <2>3 DEF MigrateCleanup
    <3>2. src'[o] = Idle
      BY <1>4, <3>1, SourceSets
    <3> QED  BY <3>1, <3>2 DEF MigrateSend, MigrateFinish
  <2> QED  BY <2>1, <2>2, <2>3
<1>8. /\ \A k \in {"preparing", "copied", "prepared", "stopped"} : ~At(o, s, k)'
      /\ src'[o].svc = s => src'[o].stage # "measured" /\ src'[o].dst = d
  BY <1>5, <1>7 DEF At
<1>9. \A x, y \in Edges, k \in {"prepare", "migrate"} :
        SentTo(x, y, s, k)' =>
          SentTo(x, y, s, k) \/ (MigrateSend(e) /\ x = o /\ y = d /\ k = "migrate")
  <2>1. CASE net' = net
    BY <2>1, SmallerSame DEF NetSmaller
  <2>2. CASE MigrateSend(e) /\ net' # net
    <3>1. src[e].req \in 0 .. RequestCap
      BY <1>1, SourceUpdate, Zenon DEF SrcStages
    <3>2. Sends(e, d, "migrate", s, src[e].req)
      BY <1>1, <1>3, <2>2, ZenonT(60) DEF MigrateSend, Sends
    <3> QED  BY <1>4, <2>2, <3>1, <3>2, SentMore
  <2> QED  BY <2>1, <2>2 DEF MigrateFinish, MigrateCleanup
<1>10. \A x \in Edges : entries'[x][s] # <<>> => entries[x][s] # <<>>
  <2>1. CASE MigrateFinish(e)
    <3>1. entries \in [Edges -> [Services -> Seq(0 .. RequestCap)]]
      BY DEF TypeOK
    <3>2. entries' = RemoveEntry(o, s)
      BY <1>1, <1>4, <2>1 DEF MigrateFinish
    <3>3. \A x \in Edges : entries'[x][s] =
            IF x = o /\ entries[o][s] # <<>> THEN Tail(entries[o][s]) ELSE entries[x][s]
      BY <3>1, <3>2 DEF RemoveEntry
    <3> QED  BY <3>3
  <2> QED  BY <2>1 DEF MigrateSend, MigrateCleanup
<1>11. Spread(s, o)'
  <2>1. \A x \in Edges :
          /\ s \in srcRecords'[x] => x = o
          /\ src'[x].svc = s /\ src'[x].stage # "measured" =>
               x = o /\ src'[x].dst # o /\ s \in srcRecords'[o]
    BY <1>1, <1>2, <1>4, <1>8 DEF Spread
  <2>2. \A x, y \in Edges, k \in {"prepare", "migrate"} :
          SentTo(x, y, s, k)' => x = o /\ y # o
    BY <1>4, <1>9 DEF Spread
  <2> QED  BY <1>1, <1>2, <1>10, <2>1, <2>2, SourceSpread
<1>12. Paced(s, o)'
  <2>1. ~At(o, s, "preparing")'
    BY <1>8
  <2> QED  BY <1>1, <1>2, <1>4, <2>1, SourcePaced
<1>13. /\ \A x \in Edges \ {o} : folder[x][s] \subseteq folder'[x][s]
       /\ MigrateSend(e) => "delta" \in folder'[d][s]
  <2>1. CASE MigrateSend(e)
    <3>1. {"pre3", "snapshot"} \subseteq folder[o][s]
      <4>1. At(o, s, "stopped")
        BY <1>1, <1>4, <2>1 DEF MigrateSend, At
      <4> QED  BY <1>4, <4>1, ZenonT(60) DEF Supplied
    <3>2. PICK f : f = folder[d][s] \cup {"delta"} \cup {"files"}
      OBVIOUS
    <3>3. folder' = Put(folder, d, s, f)
      BY <1>1, <1>3, <1>4, <2>1, <3>1, <3>2 DEF MigrateSend
    <3>4. \A x \in Edges : folder'[x][s] = IF x = d THEN f ELSE folder[x][s]
      BY <1>4, <3>3, FolderSets
    <3> QED  BY <1>4, <3>2, <3>4
  <2>2. CASE MigrateFinish(e)
    BY <2>2 DEF MigrateFinish, MigrateSend
  <2>3. CASE MigrateCleanup(e)
    <3>1. folder' = Put(folder, o, s, {})
      BY <1>1, <1>4, <2>3 DEF MigrateCleanup
    <3>2. \A x \in Edges : folder'[x][s] = IF x = o THEN {} ELSE folder[x][s]
      BY <3>1, FolderSets
    <3>3. ~MigrateSend(e)
      BY <2>3 DEF MigrateSend, MigrateCleanup
    <3> QED  BY <3>2, <3>3
  <2> QED  BY <2>1, <2>2, <2>3
<1>14. Supplied(s, o)'
  <2>1. \A x \in Edges \ {o} : Based(x, s) => Based(x, s)'
    BY <1>13 DEF Based
  <2>2. \A y \in Edges, k \in {"prepare", "migrate"} : SentTo(o, y, s, k)' => y # o
    BY <1>4, <1>9 DEF Spread
  <2>3. dst[o].svc # s
    BY <1>4 DEF Spread
  <2>4. \A x \in Edges :
          /\ s \in dstRecords'[x] => "pre3" \in folder'[x][s]
          /\ SentTo(o, x, s, "prepare")' => Based(x, s)'
          /\ SentTo(o, x, s, "migrate")' => "delta" \in folder'[x][s]
          /\ dst'[x].svc = s /\ dst'[x].stage = "unpacked" =>
               "snapshot" \in folder'[x][s]
    <3>1. ASSUME NEW x \in Edges, SentTo(o, x, s, "prepare")'  PROVE Based(x, s)'
      BY <1>4, <1>9, <2>1, <2>2, <3>1 DEF Supplied
    <3>2. ASSUME NEW x \in Edges, SentTo(o, x, s, "migrate")'
          PROVE  "delta" \in folder'[x][s]
      BY <1>4, <1>9, <1>13, <2>2, <3>2 DEF Supplied
    <3> QED  BY <1>2, <1>4, <1>13, <2>3, <3>1, <3>2 DEF Supplied
  <2> QED  BY <1>4, <1>8, <2>4 DEF Supplied
<1> QED  BY <1>2, <1>11, <1>12, <1>14, StillVessels, Zenon DEF FirstMove

-----------------------------------------------------------------------------
(* The steps of a destination that are about s: what all of them leave.    *)
ArrivalStill == UNCHANGED <<queue, src, srcRecords, host, plan>>

LEMMA DestSpread ==
  ASSUME TypeOK, NEW s \in Services, NEW o \in Edges, FirstMove(s, o), ArrivalStill,
         NetSmaller(s), s \notin dstRecords'[o],
         \A x \in Edges :
           /\ s \in dstRecords[x] => s \in dstRecords'[x]
           /\ dst'[x].svc = s => s \in dstRecords'[x]
           /\ entries'[x][s] # <<>> => entries[x][s] # <<>> \/ s \in dstRecords'[x],
         \A n \in notices' : n.kind = "migrated" /\ n.svc = s =>
           n \in notices \/ s \in dstRecords'[n.edge]
  PROVE  Spread(s, o)'
<1> USE DEF ArrivalStill
<1>1. Spread(s, o) /\ QueueSmaller(s)
  BY SmallerSame DEF FirstMove
<1>2. /\ \A x \in Edges : Met(x, s, o) => Met(x, s, o)'
      /\ \A x \in Edges : s \in dstRecords'[x] => Met(x, s, o)'
  BY DEF Met
<1>3. /\ \A x \in Edges : Pending(x, s)' => Pending(x, s)
      /\ Leading(o, s, o)' => Leading(o, s, o)
      /\ \A x, y \in Edges, k \in {"prepare", "migrate"} :
           SentTo(x, y, s, k)' => SentTo(x, y, s, k)
  BY <1>1 DEF QueueSmaller, NetSmaller
<1>4. host[s] \in Edges /\ Met(host[s], s, o)'
  BY <1>1, <1>2 DEF Spread, Met
<1>5. \A n \in notices' : n.kind = "migrated" /\ n.svc = s => s \in dstRecords'[n.edge]
  BY <1>1, FirstTypes DEF Spread
<1> QED  BY <1>1, <1>2, <1>3, <1>4, <1>5 DEF Spread

LEMMA DestPaced ==
  ASSUME TypeOK, NEW s \in Services, NEW o \in Edges, FirstMove(s, o), ArrivalStill,
         NetSmaller(s), container'[o][s] = container[o][s],
         Running(o, s) =>
           /\ \A n \in notices' : n.kind = "migrated" => n.svc # s
           /\ \A x \in Edges : dst'[x].svc = s => dst'[x].stage = "pulled"
  PROVE  Paced(s, o)'
<1> USE DEF ArrivalStill
<1>1. Paced(s, o) /\ QueueSmaller(s)
  BY SmallerSame DEF FirstMove
<1>2. /\ \A x \in Edges : Leading(o, s, x)' => Leading(o, s, x)
      /\ HasMove(queue'[o], s) => HasMove(queue[o], s)
      /\ LastMove(queue[o], s) => LastMove(queue'[o], s)
      /\ \A x, y \in Edges : SentTo(x, y, s, "migrate")' => SentTo(x, y, s, "migrate")
  BY <1>1 DEF QueueSmaller, NetSmaller
<1>3. /\ Running(o, s)' <=> Running(o, s)
      /\ At(o, s, "preparing")' <=> At(o, s, "preparing")
  BY DEF Running, At
<1> QED  BY <1>1, <1>2, <1>3 DEF Paced

LEMMA DestSupplied ==
  ASSUME TypeOK, NEW s \in Services, NEW o \in Edges, FirstMove(s, o), ArrivalStill,
         NetSmaller(s), container'[o][s] = container[o][s],
         \A x \in Edges :
           /\ folder[x][s] \subseteq folder'[x][s]
           /\ s \in dstRecords'[x] => "pre3" \in folder'[x][s]
           /\ dst'[x].svc = s /\ dst'[x].stage = "unpacked" => "snapshot" \in folder'[x][s]
  PROVE  Supplied(s, o)'
<1> USE DEF ArrivalStill
<1>1. Supplied(s, o)
  BY DEF FirstMove
<1>2. \A x \in Edges : Based(x, s) => Based(x, s)'
  BY DEF Based
<1>3. \A x \in Edges, k \in {"prepare", "migrate"} :
        SentTo(o, x, s, k)' => SentTo(o, x, s, k)
  BY DEF NetSmaller
<1>4. (\A k : At(o, s, k)' <=> At(o, s, k)) /\ (Running(o, s)' <=> Running(o, s))
  BY DEF At, Running
<1>5. \A x \in Edges :
        /\ s \in dstRecords'[x] => "pre3" \in folder'[x][s]
        /\ SentTo(o, x, s, "prepare")' => Based(x, s)'
        /\ SentTo(o, x, s, "migrate")' => "delta" \in folder'[x][s]
        /\ dst'[x].svc = s /\ dst'[x].stage = "unpacked" => "snapshot" \in folder'[x][s]
  BY <1>1, <1>2, <1>3 DEF Supplied
<1>6. /\ At(o, s, "preparing")' => "pre2" \in folder'[o][s]
      /\ At(o, s, "stopped")' => {"pre3", "snapshot"} \subseteq folder'[o][s]
      /\ s \in srcRecords'[o] /\ Running(o, s)' =>
           \/ "pre3" \in folder'[o][s]
           \/ At(o, s, "preparing")' \/ src'[o].stage = "dead"
  BY <1>1, <1>4 DEF Supplied
<1>7. At(o, s, "copied")' => /\ {"pre2", "pre3"} \subseteq folder'[o][s]
                             /\ {"pre2", "pre3"} \cap folder'[src'[o].dst][s] # {}
  BY <1>1, <1>4, FirstTypes DEF Supplied
<1>8. At(o, s, "prepared")' => Based(src[o].dst, s)'
  BY <1>1, <1>2, <1>4, FirstTypes DEF Supplied
<1> QED  BY <1>5, <1>6, <1>7, <1>8 DEF Supplied

(* The datagram of the preparation arrives: the destination has the files  *)
(* to rebuild the third image.                                             *)
LEMMA FirstArrive ==
  ASSUME TypeOK, TypeOK', NEW s \in Services, NEW o \in Edges, FirstMove(s, o),
         NEW e \in Edges, NEW d \in Edges, DestPrepare(e, d), Head(net[e][d]).svc = s
  PROVE  FirstMove(s, o)'
<1> USE DEF edgeVars, srcVars, centreVars
<1>1. PICK m : m = Head(net[e][d])
  BY Zenon
<1>2. /\ m.svc = s /\ SentTo(e, d, s, "prepare") /\ NetSmaller(s)
      /\ dst[d].stage = "idle"
  BY <1>1, SentTaken, SentLess, Zenon DEF DestPrepare, Receives
<1>3. /\ ArrivalStill
      /\ UNCHANGED <<container, entries, reserved, notices>>
  BY Zenon DEF DestPrepare, ArrivalStill
<1>4. /\ e = o /\ d # o /\ Based(d, s) /\ folder[d][s] # {}
      /\ Spread(s, o) /\ Vessels(s, o) /\ Supplied(s, o) /\ Paced(s, o)
  <2>1. e = o /\ d # o
    BY <1>2 DEF FirstMove, Spread
  <2>2. Based(d, s)
    BY <1>2, <2>1 DEF FirstMove, Supplied
  <2> QED  BY <2>1, <2>2 DEF FirstMove, Based
<1>5. \A x \in Edges : s \in dstRecords'[x] <=> s \in dstRecords[x] \/ x = d
  <2>1. dstRecords \in [Edges -> SUBSET Services]
    BY Zenon DEF TypeOK
  <2>2. dstRecords' = [dstRecords EXCEPT ![d] = @ \cup {s}]
    BY <1>1, <1>2, Zenon DEF DestPrepare
  <2> QED  BY <2>1, <2>2
<1>6. /\ \A x \in Edges \ {d} : dst'[x] = dst[x]
      /\ dst'[d].stage = "pulled" /\ dst'[d].svc = s
  <2>1. DstGoes(d, "pulled", m)
    BY <1>1, <1>2, <1>4, Zenon DEF DestPrepare
  <2> QED  BY <1>2, <2>1, DestSets, ZenonT(60)
<1>7. /\ \A x \in Edges : folder[x][s] \subseteq folder'[x][s]
      /\ "pre3" \in folder'[d][s]
  <2>1. PICK f : f = folder[d][s] \cup {"pre3"}
    BY Zenon
  <2>2. IF {"pre2", "delta23"} \subseteq folder[d][s]
        THEN folder' = Put(folder, d, s, f) ELSE folder' = folder
    BY <1>1, <1>2, <1>4, <2>1, Zenon DEF DestPrepare
  <2>3. CASE {"pre2", "delta23"} \subseteq folder[d][s]
    <3>1. folder' = Put(folder, d, s, f)
      BY <2>2, <2>3
    <3>2. \A x \in Edges : folder'[x][s] = IF x = d THEN f ELSE folder[x][s]
      BY <3>1, FolderSets
    <3> QED  BY <2>1, <3>2
  <2>4. CASE ~({"pre2", "delta23"} \subseteq folder[d][s])
    BY <1>4, <2>2, <2>4 DEF Based
  <2> QED  BY <2>3, <2>4
<1>8. Spread(s, o)'
  <2>1. s \notin dstRecords'[o]
    BY <1>4, <1>5 DEF Spread
  <2>2. \A x \in Edges : dst'[x].svc = s => s \in dstRecords'[x]
    BY <1>4, <1>5, <1>6 DEF Spread
  <2> QED  BY <1>2, <1>3, <1>5, <2>1, <2>2, DestSpread
<1>9. Vessels(s, o)'
  BY <1>3, <1>4, <1>5, <1>6 DEF Vessels
<1>10. Supplied(s, o)'
  BY <1>2, <1>3, <1>4, <1>5, <1>6, <1>7, DestSupplied, ZenonT(60) DEF Supplied
<1>11. Paced(s, o)'
  BY <1>2, <1>3, <1>4, <1>6, DestPaced DEF Paced
<1> QED  BY <1>8, <1>9, <1>10, <1>11 DEF FirstMove

(* ... and makes the container for s, on a port that it keeps.             *)
LEMMA FirstCreate ==
  ASSUME TypeOK, TypeOK', NEW s \in Services, NEW o \in Edges, FirstMove(s, o),
         NEW d \in Edges, DestCreate(d), dst[d].svc = s
  PROVE  FirstMove(s, o)'
<1> USE DEF edgeVars, srcVars, centreVars
<1>1. /\ ArrivalStill /\ NetSmaller(s)
      /\ UNCHANGED <<folder, entries, dstRecords, notices>>
  BY SmallerSame DEF DestCreate, ArrivalStill
<1>2. /\ d # o /\ s \in dstRecords[d] /\ s \notin dstRecords[o]
      /\ Spread(s, o) /\ Vessels(s, o) /\ Supplied(s, o) /\ Paced(s, o)
  BY DEF FirstMove, Spread
<1>3. Idle.svc # s
  BY MigrateAssumption DEF Idle
<1>4. \A x \in Edges : dst'[x] = IF x = d THEN Idle ELSE dst[x]
  BY DestSets DEF DestCreate
<1>5. \A x \in Edges :
        /\ container'[x][s] = IF x = d THEN "created" ELSE container[x][s]
        /\ s \in reserved'[x] <=> s \in reserved[x] \/ x = d
  <2>1. container \in [Edges -> [Services -> ContainerStates]]
    BY DEF TypeOK
  <2>2. \A x \in Edges :
          container'[x][s] = IF x = d THEN "created" ELSE container[x][s]
    BY <2>1 DEF DestCreate
  <2>3. reserved \in [Edges -> SUBSET Services]
    BY DEF TypeOK
  <2>4. \A x \in Edges : s \in reserved'[x] <=> s \in reserved[x] \/ x = d
    BY <2>3 DEF DestCreate
  <2> QED  BY <2>2, <2>4
<1>6. Spread(s, o)'
  BY <1>1, <1>2, <1>3, <1>4, DestSpread DEF Spread
<1>7. Vessels(s, o)'
  BY <1>1, <1>2, <1>3, <1>4, <1>5 DEF Vessels
<1>8. Supplied(s, o)'
  BY <1>1, <1>2, <1>3, <1>4, <1>5, DestSupplied DEF Supplied
<1>9. Paced(s, o)'
  BY <1>1, <1>2, <1>3, <1>4, <1>5, DestPaced DEF Paced
<1> QED  BY <1>6, <1>7, <1>8, <1>9 DEF FirstMove

(* The datagram of the migration arrives: the destination has the third    *)
(* image and the difference, and rebuilds the last checkpoint.             *)
LEMMA FirstUnpack ==
  ASSUME TypeOK, TypeOK', NEW s \in Services, NEW o \in Edges, FirstMove(s, o),
         NEW e \in Edges, NEW d \in Edges, DestUnpack(e, d), Head(net[e][d]).svc = s
  PROVE  FirstMove(s, o)'
<1> USE DEF edgeVars, srcVars, centreVars
<1>1. PICK m : m = Head(net[e][d])
  OBVIOUS
<1>2. /\ m.svc = s /\ SentTo(e, d, s, "migrate") /\ NetSmaller(s)
      /\ dst[d].stage = "idle"
  BY <1>1, SentTaken, SentLess, Zenon DEF DestUnpack, Receives
<1>3. /\ ArrivalStill
      /\ UNCHANGED <<container, entries, dstRecords, notices>>
  BY Zenon DEF DestUnpack, ArrivalStill
<1>4. /\ e = o /\ d # o /\ "delta" \in folder[d][s] /\ ~Running(o, s)
      /\ Spread(s, o) /\ Vessels(s, o) /\ Supplied(s, o) /\ Paced(s, o)
  <2>1. e = o /\ d # o
    BY <1>2 DEF FirstMove, Spread
  <2>2. "delta" \in folder[d][s]
    BY <1>2, <2>1 DEF FirstMove, Supplied
  <2>3. ~Running(o, s)
    BY <1>2 DEF FirstMove, Paced
  <2> QED  BY <2>1, <2>2, <2>3 DEF FirstMove
<1>5. \A x \in Edges : s \in reserved'[x] <=> s \in reserved[x] /\ x # d
  <2>1. reserved \in [Edges -> SUBSET Services]
    BY Zenon DEF TypeOK
  <2>2. reserved' = [reserved EXCEPT ![d] = @ \ {s}]
    BY <1>1, <1>2, Zenon DEF DestUnpack
  <2> QED  BY <2>1, <2>2
<1>6. Dead.svc # s
  BY MigrateAssumption DEF Dead
<1>7. /\ \A x \in Edges \ {d} : dst'[x] = dst[x]
      /\ \A x \in Edges : folder[x][s] \subseteq folder'[x][s]
      /\ \/ dst'[d].svc # s
         \/ /\ dst'[d].stage = "unpacked" /\ dst'[d].svc = s
            /\ s \in dstRecords[d] /\ s \in reserved[d] /\ "snapshot" \in folder'[d][s]
  <2>1. CASE DstDies(d) /\ folder' = folder
    BY <1>6, <2>1, DestSets
  <2>2. CASE ~(DstDies(d) /\ folder' = folder)
    <3>1. PICK f : f = folder[d][s] \cup {"snapshot"}
      BY Zenon
    <3>2. /\ s \in dstRecords[d] /\ s \in reserved[d] /\ DstGoes(d, "unpacked", m)
          /\ IF {"pre3", "delta"} \subseteq folder[d][s]
             THEN folder' = Put(folder, d, s, f) ELSE folder' = folder
      BY <1>1, <1>2, <2>2, <3>1, Zenon DEF DestUnpack
    <3>3. {"pre3", "delta"} \subseteq folder[d][s]
      BY <1>4, <3>2 DEF Supplied
    <3>4. folder' = Put(folder, d, s, f)
      BY <3>2, <3>3
    <3>5. \A x \in Edges : folder'[x][s] = IF x = d THEN f ELSE folder[x][s]
      BY <3>4, FolderSets
    <3>6. /\ \A x \in Edges \ {d} : dst'[x] = dst[x]
          /\ dst'[d].stage = "unpacked" /\ dst'[d].svc = s
      BY <1>2, <3>2, DestSets
    <3> QED  BY <3>1, <3>2, <3>5, <3>6
  <2> QED  BY <2>1, <2>2
<1>8. Spread(s, o)'
  <2>1. \A x \in Edges : dst'[x].svc = s => s \in dstRecords'[x]
    BY <1>3, <1>4, <1>7 DEF Spread
  <2>2. s \notin dstRecords'[o]
    BY <1>3, <1>4 DEF Spread
  <2> QED  BY <1>2, <1>3, <2>1, <2>2, DestSpread
<1>9. Vessels(s, o)'
  BY <1>3, <1>4, <1>5, <1>7 DEF Vessels
<1>10. Supplied(s, o)'
  <2>1. \A x \in Edges :
          /\ s \in dstRecords'[x] => "pre3" \in folder'[x][s]
          /\ dst'[x].svc = s /\ dst'[x].stage = "unpacked" => "snapshot" \in folder'[x][s]
    BY <1>3, <1>4, <1>7 DEF Supplied
  <2> QED  BY <1>2, <1>3, <1>7, <2>1, DestSupplied
<1>11. Paced(s, o)'
  BY <1>2, <1>3, <1>4, DestPaced
<1> QED  BY <1>8, <1>9, <1>10, <1>11 DEF FirstMove

(* The container continues from the checkpoint, for good: neither its      *)
(* restore nor what comes after it fails.                                  *)
LEMMA FirstRestore ==
  ASSUME TypeOK, TypeOK', Faults \cap {"checkpoint", "restore", "depart", "leave"} = {},
         NEW s \in Services, NEW o \in Edges, FirstMove(s, o),
         NEW d \in Edges, DestRestore(d), dst[d].svc = s
  PROVE  FirstMove(s, o)'
<1> USE DEF edgeVars, srcVars, centreVars
<1>1. /\ ArrivalStill /\ NetSmaller(s)
      /\ UNCHANGED <<folder, entries, dstRecords, reserved, notices>>
      /\ dst[d].stage = "unpacked"
  BY SmallerSame DEF DestRestore, ArrivalStill
<1>2. /\ d # o /\ s \in dstRecords[d] /\ s \notin dstRecords[o]
      /\ Spread(s, o) /\ Vessels(s, o) /\ Supplied(s, o) /\ Paced(s, o)
  BY DEF FirstMove, Spread
<1>3. /\ s \notin reserved[d] /\ container[d][s] = "created"
      /\ "snapshot" \in folder[d][s] /\ ~Running(o, s)
  BY <1>1, <1>2 DEF Vessels, Supplied, Paced
<1>4. PICK c : c = "restored"
  OBVIOUS
<1>5. /\ container' = [container EXCEPT ![d][s] = c]
      /\ dst' = [dst EXCEPT ![d].stage = c]
  <2>1. PICK ok \in RestoreOK(d, s) :
          /\ container' = IF ok THEN [container EXCEPT ![d][s] = "restored"]
                                ELSE container
          /\ dst' = [dst EXCEPT ![d].stage = IF ok THEN "restored" ELSE "failed"]
    BY DEF DestRestore
  <2>2. ok = TRUE
    BY <1>3 DEF RestoreOK, Startable
  <2> QED  BY <1>4, <2>1, <2>2
<1>6. \A x \in Edges :
        container'[x][s] = IF x = d THEN "restored" ELSE container[x][s]
  <2>1. container \in [Edges -> [Services -> ContainerStates]]
    BY DEF TypeOK
  <2> QED  BY <1>4, <1>5, <2>1
<1>7. /\ \A x \in Edges \ {d} : dst'[x] = dst[x]
      /\ dst'[d].stage = "restored" /\ dst'[d].svc = s
  BY <1>4, <1>5, DestSets
<1>8. Spread(s, o)'
  BY <1>1, <1>2, <1>7, DestSpread DEF Spread
<1>9. Vessels(s, o)'
  BY <1>1, <1>2, <1>3, <1>6, <1>7 DEF Vessels
<1>10. Supplied(s, o)'
  BY <1>1, <1>2, <1>6, <1>7, DestSupplied DEF Supplied
<1>11. Paced(s, o)'
  BY <1>1, <1>2, <1>3, <1>6, DestPaced
<1> QED  BY <1>8, <1>9, <1>10, <1>11 DEF FirstMove

LEMMA FirstStart ==
  ASSUME TypeOK, TypeOK', NEW s \in Services, NEW o \in Edges, FirstMove(s, o),
         NEW d \in Edges, DestStart(d), dst[d].svc = s
  PROVE  FirstMove(s, o)'
<1> USE DEF edgeVars, srcVars, centreVars
<1>1. /\ ArrivalStill /\ NetSmaller(s)
      /\ UNCHANGED <<folder, entries, dstRecords, reserved, notices>>
      /\ dst[d].stage \in {"restored", "failed"}
  BY SmallerSame DEF DestStart, ArrivalStill
<1>2. /\ d # o /\ s \in dstRecords[d] /\ s \notin dstRecords[o]
      /\ Spread(s, o) /\ Vessels(s, o) /\ Supplied(s, o) /\ Paced(s, o)
      /\ dst[d].stage # "failed" /\ ~Running(o, s)
  BY <1>1 DEF FirstMove, Spread, Vessels, Paced
<1>3. \A x \in Edges : container'[x][s] = container[x][s]
  <2>1. container \in [Edges -> [Services -> ContainerStates]]
    BY DEF TypeOK
  <2>2. \/ container' = container
        \/ container' = [container EXCEPT ![d][s] = container[d][s]]
    BY <1>2 DEF DestStart
  <2> QED  BY <2>1, <2>2
<1>4. /\ \A x \in Edges \ {d} : dst'[x] = dst[x]
      /\ \/ dst'[d].svc # s
         \/ dst'[d].stage = "started" /\ dst'[d].svc = s
  <2>1. Dead.svc # s
    BY MigrateAssumption DEF Dead
  <2>2. DstDies(d) \/ \E k \in {"started"} : dst' = [dst EXCEPT ![d].stage = k]
    BY DEF DestStart
  <2>3. ASSUME NEW k, dst' = [dst EXCEPT ![d].stage = k]
        PROVE  /\ \A x \in Edges \ {d} : dst'[x] = dst[x]
               /\ dst'[d].stage = k /\ dst'[d].svc = s
    BY <2>3, DestSets
  <2> QED  BY <2>1, <2>2, <2>3, DestSets
<1>5. Spread(s, o)'
  BY <1>1, <1>2, <1>4, DestSpread DEF Spread
<1>6. Vessels(s, o)'
  BY <1>1, <1>2, <1>3, <1>4 DEF Vessels
<1>7. Supplied(s, o)'
  BY <1>1, <1>2, <1>3, <1>4, DestSupplied DEF Supplied
<1>8. Paced(s, o)'
  BY <1>1, <1>2, <1>3, DestPaced
<1> QED  BY <1>5, <1>6, <1>7, <1>8 DEF FirstMove

(* MIGRATED is published and s listed by a server that s has reached.      *)
LEMMA FirstListed ==
  ASSUME TypeOK, TypeOK', NEW s \in Services, NEW o \in Edges, FirstMove(s, o),
         NEW d \in Edges, DestAnnounce(d) \/ DestList(d), dst[d].svc = s
  PROVE  FirstMove(s, o)'
<1> USE DEF edgeVars, srcVars, dockerVars, centreVars
<1>1. /\ ArrivalStill /\ NetSmaller(s)
      /\ UNCHANGED <<container, folder, dstRecords, reserved>>
      /\ dst[d].stage \in {"started", "announced"}
  BY SmallerSame DEF DestAnnounce, DestList, ArrivalStill
<1>2. /\ d # o /\ s \in dstRecords[d] /\ s \notin dstRecords[o]
      /\ Spread(s, o) /\ Vessels(s, o) /\ Supplied(s, o) /\ Paced(s, o)
      /\ ~Running(o, s)
  BY <1>1 DEF FirstMove, Spread, Paced
<1>3. /\ \A x \in Edges \ {d} : dst'[x] = dst[x]
      /\ dst'[d].stage \in {"announced", "listed"} /\ dst'[d].svc = s
  <2>1. \E k \in {"announced", "listed"} : dst' = [dst EXCEPT ![d].stage = k]
    BY DEF DestAnnounce, DestList
  <2>2. ASSUME NEW k, dst' = [dst EXCEPT ![d].stage = k]
        PROVE  /\ \A x \in Edges \ {d} : dst'[x] = dst[x]
               /\ dst'[d].stage = k /\ dst'[d].svc = s
    BY <2>2, DestSets
  <2> QED  BY <2>1, <2>2
<1>4. \A x \in Edges : entries'[x][s] # <<>> => entries[x][s] # <<>> \/ x = d
  <2>1. CASE DestAnnounce(d)
    BY <2>1 DEF DestAnnounce
  <2>2. CASE DestList(d)
    <3>1. entries \in [Edges -> [Services -> Seq(0 .. RequestCap)]]
      BY DEF TypeOK
    <3>2. entries' = AddEntry(d, s, dst[d].req)
      BY <2>2 DEF DestList
    <3> QED  BY <3>1, <3>2 DEF AddEntry
  <2> QED  BY <2>1, <2>2
<1>5. \A n \in notices' : n.kind = "migrated" /\ n.svc = s =>
        n \in notices \/ s \in dstRecords'[n.edge]
  <2>1. CASE DestAnnounce(d)
    BY <1>1, <1>2, <2>1 DEF DestAnnounce, Notice
  <2> QED  BY <2>1 DEF DestList
<1>6. Spread(s, o)'
  BY <1>1, <1>2, <1>3, <1>4, <1>5, DestSpread DEF Spread
<1>7. Vessels(s, o)'
  BY <1>1, <1>2, <1>3 DEF Vessels
<1>8. Supplied(s, o)'
  BY <1>1, <1>2, <1>3, DestSupplied DEF Supplied
<1>9. Paced(s, o)'
  BY <1>1, <1>2, DestPaced
<1> QED  BY <1>6, <1>7, <1>8, <1>9 DEF FirstMove

(* The second image that the destination takes anew meets nothing of the   *)
(* first migration.                                                        *)
LEMMA FirstResnap ==
  ASSUME TypeOK, TypeOK', NEW s \in Services, NEW o \in Edges, FirstMove(s, o),
         NEW d \in Edges, DestResnap(d) \/ DestResnapDone(d), dst[d].svc = s
  PROVE  FirstMove(s, o)'
<1> USE DEF edgeVars, srcVars, centreVars
<1>1. /\ ArrivalStill /\ NetSmaller(s)
      /\ UNCHANGED <<container, entries, dstRecords, reserved, notices>>
      /\ dst[d].stage \in {"listed", "resnapping"}
  BY SmallerSame DEF DestResnap, DestResnapDone, ArrivalStill
<1>2. /\ d # o /\ s \in dstRecords[d] /\ s \notin dstRecords[o]
      /\ Spread(s, o) /\ Vessels(s, o) /\ Paced(s, o) /\ ~Running(o, s)
  BY <1>1 DEF FirstMove, Spread, Paced
<1>3. /\ \A x \in Edges \ {d} : dst'[x] = dst[x]
      /\ dst'[d].svc = s => dst'[d].stage = "resnapping"
  <2>1. Idle.svc # s
    BY MigrateAssumption DEF Idle
  <2>2. DstRests(d) \/ \E k : k = "resnapping" /\ dst' = [dst EXCEPT ![d].stage = k]
    BY DEF DestResnap, DestResnapDone
  <2> QED  BY <2>1, <2>2, DestSets
<1>4. /\ \A x \in Edges \ {d} : folder'[x][s] = folder[x][s]
      /\ folder[d][s] \ {"pre2"} \subseteq folder'[d][s]
  <2>1. \E f : /\ folder' = Put(folder, d, s, f)
               /\ folder[d][s] \ {"pre2"} \subseteq f
    <3>1. CASE DestResnap(d)
      BY <3>1 DEF DestResnap
    <3>2. CASE DestResnapDone(d)
      <4>1. PICK ok \in CheckpointOK(d, s) :
              folder' = Put(folder, d, s, Snap(folder[d][s], "pre2", ok))
        BY <3>2 DEF DestResnapDone
      <4>2. folder[d][s] \ {"pre2"} \subseteq Snap(folder[d][s], "pre2", ok)
        BY DEF Snap
      <4> QED  BY <4>1, <4>2
    <3> QED  BY <3>1, <3>2
  <2> QED  BY <2>1, FolderSets
<1>5. Spread(s, o)'
  BY <1>1, <1>2, <1>3, DestSpread DEF Spread
<1>6. Vessels(s, o)'
  BY <1>1, <1>2, <1>3 DEF Vessels
<1>7. Supplied(s, o)'
  <2>1. Met(d, s, o) /\ src'[o] = src[o] /\ srcRecords' = srcRecords
    BY <1>1, <1>2 DEF Met, ArrivalStill
  <2>2. \A x \in Edges : dst'[x].svc = s /\ dst'[x].stage = "unpacked" =>
          dst'[x] = dst[x]
    BY <1>3
  <2> QED  BY <1>1, <1>2, <1>4, <2>1, <2>2, SparesSecond
<1>8. Paced(s, o)'
  BY <1>1, <1>2, DestPaced, ZenonT(60)
<1> QED  BY <1>5, <1>6, <1>7, <1>8 DEF FirstMove

-----------------------------------------------------------------------------
(* All steps together.  The records of arrivals and of preparations only   *)
(* grow.                                                                   *)
LEMMA FreshBefore ==
  ASSUME TypeOK, [Next]_vars, NEW s \in Services, Fresh(s)'
  PROVE  Fresh(s)
<1> USE DEF edgeVars, srcVars, dstVars, dockerVars, centreVars
<1>1. /\ srcRecords \in [Edges -> SUBSET Services]
      /\ dstRecords \in [Edges -> SUBSET Services]
  BY DEF TypeOK
<1>2. SUFFICES \A x \in Edges : /\ srcRecords[x] \subseteq srcRecords'[x]
                                /\ dstRecords[x] \subseteq dstRecords'[x]
  BY DEF Fresh
<1>3. CASE UNCHANGED <<srcRecords, dstRecords>>
  BY <1>3, Zenon
<1>4. ASSUME NEW e \in Edges, SourceStep(e)
      PROVE  \A x \in Edges : /\ srcRecords[x] \subseteq srcRecords'[x]
                              /\ dstRecords[x] \subseteq dstRecords'[x]
  <2>1. CASE Prepare(e)
    BY <1>1, <2>1, Zenon DEF Prepare
  <2> QED
    BY <1>3, <1>4, <2>1, Zenon DEF SourceStep, PreMeasure, Measure, MeasureReport,
       PrepareCheckpoint, PrepareDelta, PrepareNotify, MigrateStop, MigrateSend,
       MigrateFinish, MigrateCleanup
<1>5. ASSUME NEW d \in Edges, DestStep(d)
      PROVE  \A x \in Edges : /\ srcRecords[x] \subseteq srcRecords'[x]
                              /\ dstRecords[x] \subseteq dstRecords'[x]
  <2>1. ASSUME NEW e \in Edges, DestPrepare(e, d)
        PROVE  \A x \in Edges : /\ srcRecords[x] \subseteq srcRecords'[x]
                                /\ dstRecords[x] \subseteq dstRecords'[x]
    BY <1>1, <2>1, Zenon DEF DestPrepare
  <2> QED
    BY <1>3, <1>5, <2>1, Zenon DEF DestStep, DestUnpack, DestCreate, DestRestore, DestStart,
       DestAnnounce, DestList, DestResnap, DestResnapDone
<1> QED
  BY <1>3, <1>4, <1>5 DEF Next, vars, Deploy, DeployFails, Order, Leave, OrderMigrate,
     PreMigrated, Migrated, MonitorService, Lose

(* The steps of a source thread.                                           *)
LEMMA FirstSource ==
  ASSUME TypeOK, TypeOK', Faults \cap {"checkpoint", "restore", "depart", "leave"} = {},
         NEW s \in Services, Fresh(s)', NEW e \in Edges, SourceStep(e)
  PROVE  /\ Untouched(s) => Untouched(s)'
         /\ \A o \in Edges : FirstMove(s, o) => FirstMove(s, o)'
<1>1. CASE SourceService(e) # s
  BY <1>1, SourceElsewhere, CalmKeeps
<1>2. CASE SourceService(e) = s
  <2>1. ~Untouched(s)
    <3>1. CASE src[e].stage # "idle"
      BY <1>2, <3>1 DEF SourceService, Untouched
    <3>2. CASE src[e].stage = "idle"
      <4>1. \E k : Takes(e, k)
        BY <3>2 DEF SourceStep, PreMeasure, Measure, MeasureReport, Prepare,
           PrepareCheckpoint, PrepareDelta, PrepareNotify, MigrateStop, MigrateSend,
           MigrateFinish, MigrateCleanup
      <4>2. PICK c : c = Head(queue[e])
        OBVIOUS
      <4>3. Pending(e, c.svc) /\ c.svc = s
        BY <1>2, <3>2, <4>1, <4>2, QueueTaken DEF SourceService
      <4> QED  BY <4>3 DEF Untouched
    <3> QED  BY <3>1, <3>2
  <2>2. ASSUME NEW o \in Edges, FirstMove(s, o)  PROVE  FirstMove(s, o)'
    <3>1. CASE PreMeasure(e) \/ Measure(e) \/ MeasureReport(e)
      BY <1>2, <2>2, <3>1, FirstMeasuring
    <3>2. CASE Prepare(e)
      BY <1>2, <2>2, <3>2, FirstPrepare
    <3>3. CASE PrepareCheckpoint(e) \/ PrepareDelta(e) \/ PrepareNotify(e)
      BY <1>2, <2>2, <3>3, FirstPrepared
    <3>4. CASE MigrateStop(e)
      BY <1>2, <2>2, <3>4, FirstStop
    <3>5. CASE MigrateSend(e) \/ MigrateFinish(e) \/ MigrateCleanup(e)
      BY <1>2, <2>2, <3>5, FirstLeave
    <3> QED  BY <3>1, <3>2, <3>3, <3>4, <3>5 DEF SourceStep
  <2> QED  BY <2>1, <2>2
<1> QED  BY <1>1, <1>2

(* ... and of a destination thread.                                        *)
LEMMA FirstDest ==
  ASSUME TypeOK, TypeOK', Faults \cap {"checkpoint", "restore", "depart", "leave"} = {},
         NEW s \in Services, NEW d \in Edges, DestStep(d)
  PROVE  /\ Untouched(s) => Untouched(s)'
         /\ \A o \in Edges : FirstMove(s, o) => FirstMove(s, o)'
<1>1. ASSUME NEW e \in Edges, DestPrepare(e, d) \/ DestUnpack(e, d)
      PROVE  /\ Untouched(s) => Untouched(s)'
             /\ \A o \in Edges : FirstMove(s, o) => FirstMove(s, o)'
  <2>1. CASE Head(net[e][d]).svc # s
    BY <1>1, <2>1, DestTakes, CalmKeeps
  <2>2. CASE Head(net[e][d]).svc = s
    <3>1. ~Untouched(s)
      <4>1. \E k : Receives(e, d, k)
        BY <1>1, Zenon DEF DestPrepare, DestUnpack
      <4>2. PICK m : m = Head(net[e][d])
        OBVIOUS
      <4>3. \E k \in {"prepare", "migrate"} : SentTo(e, d, m.svc, k)
        BY <4>1, <4>2, SentTaken
      <4> QED  BY <2>2, <4>2, <4>3, Zenon DEF Untouched
    <3> QED  BY <1>1, <2>2, <3>1, FirstArrive, FirstUnpack
  <2> QED  BY <2>1, <2>2
<1>2. CASE ~\E e \in Edges : DestPrepare(e, d) \/ DestUnpack(e, d)
  <2>1. \/ DestCreate(d) \/ DestRestore(d) \/ DestStart(d) \/ DestAnnounce(d)
        \/ DestList(d) \/ DestResnap(d) \/ DestResnapDone(d)
    BY <1>2 DEF DestStep
  <2>2. CASE dst[d].svc # s
    BY <2>1, <2>2, DestElsewhere, CalmKeeps
  <2>3. CASE dst[d].svc = s
    <3>1. ~Untouched(s)
      BY <2>3 DEF Untouched
    <3>2. ASSUME NEW o \in Edges, FirstMove(s, o)  PROVE  FirstMove(s, o)'
      <4>1. CASE DestCreate(d)
        BY <2>3, <3>2, <4>1, FirstCreate
      <4>2. CASE DestRestore(d)
        BY <2>3, <3>2, <4>2, FirstRestore
      <4>3. CASE DestStart(d)
        BY <2>3, <3>2, <4>3, FirstStart
      <4>4. CASE DestAnnounce(d) \/ DestList(d)
        BY <2>3, <3>2, <4>4, FirstListed
      <4>5. CASE DestResnap(d) \/ DestResnapDone(d)
        BY <2>3, <3>2, <4>5, FirstResnap
      <4> QED  BY <2>1, <4>1, <4>2, <4>3, <4>4, <4>5
    <3> QED  BY <3>1, <3>2
  <2> QED  BY <2>2, <2>3
<1> QED  BY <1>1, <1>2

(* ... and of the centre.                                                  *)
LEMMA FirstCentre ==
  ASSUME TypeOK, TypeOK', NEW s \in Services, NEW t \in Services,
         \/ \E e \in Edges : Deploy(t, e) \/ DeployFails(t, e) \/ Order(t, e)
                             \/ MonitorService(e, t)
         \/ OrderMigrate(t)
         \/ \E n \in notices : n.svc = t /\ (PreMigrated(n) \/ Migrated(n))
  PROVE  /\ Untouched(s) => Untouched(s)' \/ \E o \in Edges : FirstMove(s, o)'
         /\ \A o \in Edges : FirstMove(s, o) => FirstMove(s, o)'
<1>1. CASE s # t
  BY <1>1, CentreElsewhere, CalmKeeps
<1>2. CASE s = t
  <2>1. ASSUME NEW e \in Edges, Deploy(s, e)
        PROVE  /\ Untouched(s) => \E o \in Edges : FirstMove(s, o)'
               /\ \A o \in Edges : ~FirstMove(s, o)
    <3>1. \A o \in Edges : ~FirstMove(s, o)
      BY <2>1, MigrateAssumption DEF Deploy, FirstMove, Spread
    <3> QED  BY <2>1, <3>1, FirstDeploy
  <2>2. ASSUME NEW e \in Edges, DeployFails(s, e)
        PROVE  /\ Untouched(s) => Calm(s)
               /\ \A o \in Edges : ~FirstMove(s, o)
    <3>1. \A o \in Edges : ~FirstMove(s, o)
      BY <2>2, MigrateAssumption DEF DeployFails, FirstMove, Spread
    <3>2. ASSUME Untouched(s)  PROVE Calm(s)
      <4>1. container \in [Edges -> [Services -> ContainerStates]]
        BY DEF TypeOK
      <4>2. \A x \in Edges : container'[x][s] = container[x][s]
        BY <2>2, <3>2, <4>1 DEF DeployFails, Untouched
      <4>3. /\ UNCHANGED <<folder, entries, queue, src, srcRecords, net, dst, dstRecords,
                           reserved, host, plan, notices>>
            /\ QueueSmaller(s) /\ NetSmaller(s)
        BY <2>2, SmallerSame
           DEF DeployFails, edgeVars, srcVars, dstVars, centreVars
      <4> QED  BY <4>2, <4>3 DEF Calm
    <3> QED  BY <3>1, <3>2
  <2>3. ASSUME (\E d \in Edges : Order(s, d)) \/ OrderMigrate(s)
        PROVE  ~Untouched(s) /\ \A o \in Edges : FirstMove(s, o) => FirstMove(s, o)'
    <3>1. ~Untouched(s)
      <4>1. CASE \E d \in Edges : Order(s, d)
        BY <4>1 DEF Order, Untouched
      <4>2. CASE OrderMigrate(s)
        <5>1. plan[s].phase = "prepared"
          BY <4>2 DEF OrderMigrate
        <5> QED  BY <5>1 DEF Untouched, NoPlan
      <4> QED  BY <2>3, <4>1, <4>2
    <3> QED  BY <2>3, <3>1, FirstOrder
  <2>4. ASSUME NEW n \in notices, n.svc = s, PreMigrated(n) \/ Migrated(n)
        PROVE  ~Untouched(s) /\ \A o \in Edges : FirstMove(s, o) => FirstMove(s, o)'
    BY <2>4, FirstNotice DEF Untouched
  <2> QED  BY <1>2, <2>1, <2>2, <2>3, <2>4, FirstServed, CalmKeeps
<1> QED  BY <1>1, <1>2

LEMMA FirstStep ==
  ASSUME TypeOK, TypeOK', Faults \cap {"checkpoint", "restore", "depart", "leave"} = {},
         FirstInv, [Next]_vars
  PROVE  FirstInv'
<1>1. SUFFICES ASSUME NEW s \in Services, Fresh(s)'
               PROVE  Untouched(s)' \/ \E o \in Edges : FirstMove(s, o)'
  BY DEF FirstInv
<1>2. Untouched(s) \/ \E o \in Edges : FirstMove(s, o)
  BY <1>1, FreshBefore DEF FirstInv
<1>3. CASE UNCHANGED vars
  <2>1. Calm(s)
    BY <1>3, SmallerSame
       DEF vars, Calm, dockerVars, edgeVars, srcVars, dstVars, centreVars
  <2> QED  BY <1>2, <2>1, CalmKeeps
<1>4. CASE \E e \in Edges : SourceStep(e)
  BY <1>1, <1>2, <1>4, FirstSource
<1>5. CASE \E d \in Edges : DestStep(d)
  BY <1>1, <1>2, <1>5, FirstDest
<1>6. CASE \E t \in Services :
             \/ \E e \in Edges : Deploy(t, e) \/ DeployFails(t, e) \/ Order(t, e)
                                 \/ MonitorService(e, t)
             \/ OrderMigrate(t)
             \/ \E n \in notices : n.svc = t /\ (PreMigrated(n) \/ Migrated(n))
  BY <1>1, <1>2, <1>6, FirstCentre
<1>7. ASSUME NEW e \in Edges, NEW d \in Edges, NEW i \in DOMAIN net[e][d], Lose(e, d, i)
      PROVE  Untouched(s)' \/ \E o \in Edges : FirstMove(s, o)'
  <2>1. NetSmaller(s) /\ QueueSmaller(s)
    BY <1>7, SentLess, SmallerSame DEF Lose, srcVars
  <2>2. Calm(s)
    BY <1>7, <2>1 DEF Lose, Calm, dockerVars, edgeVars, srcVars, dstVars, centreVars
  <2> QED  BY <1>2, <2>2, CalmKeeps
<1>8. \A t \in Services : ~Leave(t)
  BY DEF Leave
<1>9. \A n \in notices : n.svc \in Services
  BY FirstTypes, <1>1
<1> QED  BY <1>3, <1>4, <1>5, <1>6, <1>7, <1>8, <1>9 DEF Next

(* The first migration of a service never loses its state, neither under   *)
(* lost datagrams nor under failing deployments and starts (the second     *)
(* image of migrate_dest.py:150 and the removal of the folder,             *)
(* migrate_source.py:422, can only disturb a later one); what it takes is  *)
(* that docker takes and restores checkpoints and that no user leaves.     *)
THEOREM FirstMoveSafe ==
  ASSUME Faults \cap {"checkpoint", "restore", "depart", "leave"} = {}
  PROVE  Spec => []FirstMoveKeepsState
<1>1. Init => FirstInv
  <2> SUFFICES ASSUME Init, NEW s \in Services  PROVE  Untouched(s)
    BY DEF FirstInv
  <2>1. Idle.svc # s
    BY MigrateAssumption DEF Idle
  <2> QED  BY <2>1 DEF Init, Untouched, Pending, SentTo
<1>2. TypeOK /\ TypeOK' /\ FirstInv /\ [Next]_vars => FirstInv'
  BY FirstStep
<1>3. FirstInv => FirstMoveKeepsState
  <2> SUFFICES ASSUME FirstInv, NEW e \in Edges, NEW s \in Services,
                      container[e][s] = "reset", Fresh(s)
               PROVE  FALSE
    BY DEF FirstMoveKeepsState, Fresh
  <2> QED  BY DEF FirstInv, Untouched, FirstMove, Vessels
<1> QED  BY <1>1, <1>2, <1>3, TypeCorrect, PTL DEF Spec
=============================================================================
