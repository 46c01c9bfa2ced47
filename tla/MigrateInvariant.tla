-------------------------- MODULE MigrateInvariant --------------------------
(* The inductive invariant behind AtMostOneRunning, HostRuns and HostLists *)
(* of MigrateService.                                                      *)
(*                                                                         *)
(* The final migration of a service is carried by one baton that passes    *)
(* from the centre's migrate command in the source's queue (Ordered) to    *)
(* the stopped container (Halted), the datagram (Sent), the rebuilt image  *)
(* (Unpacking), the started container (Starting) and the notice MIGRATED   *)
(* (Announced).  It may get lost, but there is never a second one, and it  *)
(* says where the service may run.                                         *)
EXTENDS MigrateService

(* Commands and datagrams that carry the final migration of s.             *)
IsMove(m, s) == m.cmd = "migrate" /\ m.svc = s
HasMove(q, s) == \E i \in DOMAIN q : IsMove(q[i], s)
SingleMove(q, s) ==
  \A i, j \in DOMAIN q : IsMove(q[i], s) /\ IsMove(q[j], s) => i = j
MovesTo(q, s, d) == \A i \in DOMAIN q : IsMove(q[i], s) => q[i].dst = d

HaltedAt(e, s) == src[e].stage = "stopped" /\ src[e].svc = s
LeavingAt(e, s) == src[e].stage \in {"stopped", "sent"} /\ src[e].svc = s
UnpackingAt(d, s) == dst[d].stage \in {"unpacked", "failed"} /\ dst[d].svc = s
StartingAt(d, s) == dst[d].stage \in {"restored", "started"} /\ dst[d].svc = s

Ordered(s) == \E e \in Edges : HasMove(queue[e], s)
Halted(s) == \E e \in Edges : HaltedAt(e, s)
Sent(s) == \E e, d \in Edges : HasMove(net[e][d], s)
Unpacking(s) == \E d \in Edges : UnpackingAt(d, s)
Starting(s) == \E d \in Edges : StartingAt(d, s)
Announced(s) == \E n \in notices : n.kind = "migrated" /\ n.svc = s

Moving(s) == plan[s].phase = "migrate"

(* The centre plans to move a service from the server it is on to another. *)
PlanOK(s) ==
  plan[s].phase # "idle" => host[s] \in Edges /\ plan[s].dst # host[s]

(* The baton is where the plan says.                                       *)
Placed(s) ==
  /\ \A e \in Edges : HasMove(queue[e], s) => Moving(s) /\ e = host[s]
  /\ \A e \in Edges : MovesTo(queue[e], s, plan[s].dst)
  /\ \A e \in Edges : HaltedAt(e, s) =>
       Moving(s) /\ e = host[s] /\ src[e].dst = plan[s].dst
  /\ \A e, d \in Edges : HasMove(net[e][d], s) =>
       Moving(s) /\ e = host[s] /\ d = plan[s].dst
  /\ \A d \in Edges : UnpackingAt(d, s) \/ StartingAt(d, s) =>
       Moving(s) /\ d = plan[s].dst
  /\ \A n \in notices : n.kind = "migrated" /\ n.svc = s =>
       Moving(s) /\ n.edge = plan[s].dst

(* There is only one.                                                      *)
OneBaton(s) ==
  /\ \A e \in Edges : SingleMove(queue[e], s)
  /\ \A e, d \in Edges : SingleMove(net[e][d], s)
  /\ Ordered(s) => ~Halted(s) /\ ~Sent(s) /\ ~Unpacking(s) /\ ~Starting(s)
                   /\ ~Announced(s)
  /\ Halted(s) => ~Sent(s) /\ ~Unpacking(s) /\ ~Starting(s) /\ ~Announced(s)
  /\ Sent(s) => ~Unpacking(s) /\ ~Starting(s) /\ ~Announced(s)
  /\ Unpacking(s) => ~Starting(s) /\ ~Announced(s)
  /\ Starting(s) => ~Announced(s)

(* Before the final migration the service runs on its host and nowhere     *)
(* else; during it, it runs at the source until it is halted and at the    *)
(* destination from its start on.                                          *)
Runs(s) ==
  /\ ~Moving(s) => \A e \in Edges : Running(e, s) <=> e = host[s]
  /\ Moving(s) =>
       /\ \A e \in Edges : Running(e, s) => e \in {host[s], plan[s].dst}
       /\ \A e \in Edges : e = host[s] /\ Running(e, s) =>
            /\ ~Halted(s) /\ ~Sent(s) /\ ~Unpacking(s) /\ ~Starting(s)
            /\ ~Announced(s)
            /\ \A d \in Edges : d = plan[s].dst => ~Running(d, s)
       /\ \A d \in Edges : d = plan[s].dst =>
            /\ Starting(s) \/ Announced(s) => Running(d, s)
            /\ Running(d, s) => ~Ordered(s) /\ ~Halted(s) /\ ~Sent(s)
                                /\ ~Unpacking(s)

(* The entries of s on e, the one that e is about to add included.         *)
Entered(e, s) ==
  IF ListingAt(e, s) THEN Len(entries[e][s]) + 1 ELSE Len(entries[e][s])

(* An edge server has one entry for a service it runs as its host or has   *)
(* announced, and one for a service it has stopped and not yet dropped:    *)
(* both, when the service comes back before its source thread is done.     *)
Listed(s) ==
  \A e \in Edges :
    LET runs == Running(e, s) /\ (e = host[s] \/ Announced(s)) IN
    /\ runs \/ LeavingAt(e, s) => Entered(e, s) >= 1
    /\ runs /\ LeavingAt(e, s) => Entered(e, s) >= 2

Inductive(s) == PlanOK(s) /\ Placed(s) /\ OneBaton(s) /\ Runs(s) /\ Listed(s)

(* All of it, for every service whose migrations were not cut into.        *)
IInv == \A s \in Services \ disturbed : Inductive(s)

-----------------------------------------------------------------------------
(* What the threshold planners add: they order a preparation and the       *)
(* migration in one go.  The source thread takes the two commands one      *)
(* right after the other, but for measurements, on a socket that nobody    *)
(* has closed between.                                                     *)
Lead(c) == c.cmd \in {"prepare", "migrate"}
NoLead(q, j, i) == \A k \in DOMAIN q : j < k /\ k < i => ~Lead(q[k])
PreparesFor(p, s, d) == p.cmd = "prepare" /\ p.svc = s /\ p.dst = d

PreparingFor(e, s, d) ==
  /\ src[e].stage \in {"preparing", "copied", "prepared"}
  /\ src[e].svc = s /\ src[e].dst = d

Resting(e) == src[e].stage \in {"idle", "measured"}

(* The migration of s to d is the command at place i of the source queue   *)
(* of e, or will be the next one that e handles.                           *)
Due(e, s, d, i) ==
  \/ i \in DOMAIN queue[e] /\ IsMove(queue[e][i], s) /\ queue[e][i].dst = d
  \/ /\ i = Len(queue[e]) + 1
     /\ plan[s].phase = "prepared" /\ plan[s].dst = d /\ host[s] = e

(* What comes last before place i is the preparation of s for d.           *)
Backed(e, s, d, i) ==
  \/ \E j \in DOMAIN queue[e] :
       j < i /\ PreparesFor(queue[e][j], s, d) /\ NoLead(queue[e], j, i)
  \/ /\ NoLead(queue[e], 0, i)
     /\ \/ src[e].stage = "dead"
        \/ PreparingFor(e, s, d)
        \/ Resting(e) /\ sock[e] = "open"

EagerPlans ==
  /\ \A s \in Services : plan[s].phase \notin {"prepare", "unscheduled"}
  /\ \A s \in Services : host[s] = NoEdge => plan[s].phase = "idle"
  /\ \A s, t \in Services :
       OnItsWay(s) /\ OnItsWay(t) /\ host[s] = host[t] => s = t

OpenAt(e) ==
  /\ src[e].stage \in {"preparing", "copied", "prepared"} => sock[e] = "open"
  /\ src[e].stage = "stopped" /\ src[e].svc \notin disturbed => sock[e] = "open"

BackedAt(e) ==
  \A s \in Services \ disturbed, d \in Edges, i \in Nat \ {0} :
    Due(e, s, d, i) => Backed(e, s, d, i)

EagerInv == EagerPlans /\ \A e \in Edges : OpenAt(e) /\ BackedAt(e)

(* ... and the datagram of the preparation reaches the destination before  *)
(* that of the migration: it is in the network (among the first n), or the *)
(* destination has received it and is or will be ready for the migration.  *)
Ahead(e, d, s, n) ==
  \E j \in 1 .. n : net[e][d][j].cmd = "prepare" /\ net[e][d][j].svc = s

Awaits(d, s) ==
  \/ dst[d].stage = "dead"
  \/ dst[d].stage = "pulled" /\ dst[d].svc = s
  \/ s \in dstRecords[d] /\ s \in reserved[d]

Arrived(e, d, s) == Awaits(d, s) \/ Ahead(e, d, s, Len(net[e][d]))

ReadyFor(s) ==
  /\ \A e \in Edges :
       /\ \A d \in Edges, i \in Nat \ {0} :
            Due(e, s, d, i) /\ NoLead(queue[e], 0, i) /\ Resting(e) =>
              Arrived(e, d, s)
       /\ HaltedAt(e, s) => Arrived(e, src[e].dst, s)
  /\ \A e, d \in Edges : \A i \in DOMAIN net[e][d] :
       IsMove(net[e][d][i], s) => Awaits(d, s) \/ Ahead(e, d, s, i - 1)

ReadyInv ==
  /\ \A d \in Edges : dst[d].stage = "pulled" => dst[d].svc \in dstRecords[d]
  /\ \A s \in Services \ disturbed : ReadyFor(s)

-----------------------------------------------------------------------------
(* The first migration of a service: as long as no server that has         *)
(* received s has started to migrate it further.  Whatever is left of s    *)
(* then comes from one server, its origin o, where it was deployed.        *)
Fresh(s) == \A d \in Edges : s \notin srcRecords[d] \cap dstRecords[d]

(* What waits in a source queue, and what is on its way.                   *)
Leads(m, s) == m.cmd \in {"prepare", "migrate"} /\ m.svc = s
Pending(e, s) == \E i \in DOMAIN queue[e] : queue[e][i].svc = s
Leading(e, s, d) ==
  \E i \in DOMAIN queue[e] : Leads(queue[e][i], s) /\ queue[e][i].dst = d
SentTo(e, d, s, k) ==
  \E i \in DOMAIN net[e][d] : net[e][d][i].cmd = k /\ net[e][d][i].svc = s

(* Nothing is known of a service before it is deployed.                    *)
Untouched(s) ==
  /\ host[s] = NoEdge /\ plan[s] = NoPlan
  /\ \A n \in notices : n.svc # s
  /\ \A e \in Edges :
       /\ container[e][s] = "none" /\ entries[e][s] = <<>> /\ ~Pending(e, s)
       /\ src[e].svc # s /\ dst[e].svc # s
       /\ s \notin srcRecords[e] \cup dstRecords[e] \cup reserved[e]
       /\ \A d \in Edges, k \in {"prepare", "migrate"} : ~SentTo(e, d, s, k)

(* Only the origin migrates s, and only to others; a server that has s in  *)
(* any other way has a record of its arrival.                              *)
Met(e, s, o) == e = o \/ s \in dstRecords[e]

Spread(s, o) ==
  /\ s \notin dstRecords[o]
  /\ \A e \in Edges :
       /\ s \in srcRecords[e] => e = o
       /\ src[e].svc = s /\ src[e].stage # "measured" =>
            e = o /\ src[e].dst # o /\ s \in srcRecords[o]
       /\ dst[e].svc = s => s \in dstRecords[e]
       /\ \A d \in Edges, k \in {"prepare", "migrate"} :
            SentTo(e, d, s, k) => e = o /\ d # o
       /\ Pending(e, s) \/ entries[e][s] # <<>> => Met(e, s, o)
  /\ ~Leading(o, s, o)
  /\ host[s] \in Edges /\ Met(host[s], s, o)
  /\ host[s] = o /\ plan[s].phase # "idle" => plan[s].dst # o
  /\ \A n \in notices : n.kind = "migrated" /\ n.svc = s => s \in dstRecords[n.edge]

(* The origin runs s until it stops it for good; a server to which s goes  *)
(* has a new container for it until it unpacks the last checkpoint.        *)
Vessels(s, o) ==
  /\ container[o][s] \in {"deployed", "none"}
  /\ \A d \in Edges :
       /\ container[d][s] # "reset"
       /\ s \in reserved[d] => container[d][s] = "created" /\ s \in dstRecords[d]
       /\ dst[d].svc = s => dst[d].stage # "failed"
       /\ dst[d].svc = s /\ dst[d].stage = "unpacked" =>
            s \notin reserved[d] /\ container[d][s] = "created"

(* Every step of the migration finds the images the step before has made.  *)
At(e, s, stage) == src[e].stage = stage /\ src[e].svc = s

Based(d, s) ==
  "pre3" \in folder[d][s] \/ {"pre2", "delta23"} \subseteq folder[d][s]

Supplied(s, o) ==
  /\ \A d \in Edges :
       /\ s \in dstRecords[d] => "pre3" \in folder[d][s]
       /\ SentTo(o, d, s, "prepare") => Based(d, s)
       /\ SentTo(o, d, s, "migrate") => "delta" \in folder[d][s]
       /\ dst[d].svc = s /\ dst[d].stage = "unpacked" => "snapshot" \in folder[d][s]
  /\ At(o, s, "preparing") => "pre2" \in folder[o][s]
  /\ At(o, s, "copied") => /\ {"pre2", "pre3"} \subseteq folder[o][s]
                           /\ {"pre2", "pre3"} \cap folder[src[o].dst][s] # {}
  /\ At(o, s, "prepared") => Based(src[o].dst, s)
  /\ At(o, s, "stopped") => {"pre3", "snapshot"} \subseteq folder[o][s]
  /\ s \in srcRecords[o] /\ Running(o, s) =>
       "pre3" \in folder[o][s] \/ At(o, s, "preparing") \/ src[o].stage = "dead"

(* The origin prepares before it stops s, stops it once, and the centre    *)
(* looks for s elsewhere only after that.                                  *)
LastMove(q, s) ==
  \A i, j \in DOMAIN q : IsMove(q[i], s) /\ j > i => ~Leads(q[j], s)

Paced(s, o) ==
  /\ ~Running(o, s) =>
       /\ \A d \in Edges : ~Leading(o, s, d)
       /\ ~At(o, s, "preparing")
       /\ host[s] = o => plan[s].phase = "migrate"
  /\ Running(o, s) =>
       /\ host[s] = o
       /\ \A n \in notices : n.kind = "migrated" => n.svc # s
       /\ \A e, d \in Edges : ~SentTo(e, d, s, "migrate")
       /\ src[o].svc = s => src[o].stage \notin {"stopped", "sent", "dropped"}
       /\ \A d \in Edges : dst[d].svc = s => dst[d].stage = "pulled"
  /\ HasMove(queue[o], s) => plan[s].phase = "migrate"
  /\ LastMove(queue[o], s)

FirstMove(s, o) == Spread(s, o) /\ Vessels(s, o) /\ Supplied(s, o) /\ Paced(s, o)

(* For every service; it needs that no user leaves and that docker takes   *)
(* and restores checkpoints.                                               *)
FirstInv ==
  \A s \in Services : Fresh(s) => Untouched(s) \/ \E o \in Edges : FirstMove(s, o)
=============================================================================
