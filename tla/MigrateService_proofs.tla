----------------------- MODULE MigrateService_proofs ------------------------
(* TypeOK and IInv are invariants of MigrateService, for any edge servers, *)
(* services, faults and bounds, and what follows from them: a service runs *)
(* in one place, and the server the centre names runs it and lists it.     *)
(*                                                                         *)
(* Most steps touch only a part of what Inductive(s) is about, and leave   *)
(* that part as weak as it was: the Kept predicates say so for each part,  *)
(* and Frame derives the invariant from them.  The steps that pass the     *)
(* baton on, or start or end a migration, have a lemma of their own.       *)
EXTENDS MigrateInvariant, TLAPS, SequenceTheorems, FiniteSetTheorems

-----------------------------------------------------------------------------
(* Types.                                                                  *)

(* The request number of a new or counted entry, and what commands,        *)
(* datagrams, notices and tasks are made of, have their types.             *)
LEMMA RequestType ==
  /\ RequestCap \in Nat /\ 0 \in 0 .. RequestCap
  /\ \A r \in 0 .. RequestCap : Bump(r) \in 0 .. RequestCap
BY MigrateAssumption DEF RequestCap, Bump

(* A command the handlers build is a command.                              *)
LEMMA CommandType ==
  ASSUME NEW k \in {"pre_measure", "measure", "prepare", "migrate"},
         NEW s \in Services, NEW d \in Edges, NEW r \in 0 .. RequestCap
  PROVE  Command(k, s, d, r) \in Commands
BY DEF Command, Commands

(* The commands a served request triggers form a sequence of commands.     *)
LEMMA TriggeredType ==
  ASSUME NEW e \in Edges, NEW s \in Services,
         entries[e][s] \in Seq(0 .. RequestCap)
  PROVE  /\ Triggered(e, s) \in Seq(Commands)
         /\ \A i \in 1 .. Len(Triggered(e, s)) :
              Triggered(e, s)[i].cmd \in {"pre_measure", "measure"}
<1> DEFINE hits == {i \in DOMAIN entries[e][s] :
                 entries[e][s][i] + 1 \in {FirstMeasure, FirstMeasure + 1}}
           nth(k) == CHOOSE h \in hits : Cardinality({i \in hits : i <= h}) = k
           c(k) == Command(IF entries[e][s][nth(k)] + 1 = FirstMeasure
                           THEN "pre_measure" ELSE "measure", s, e, 0)
           n == Cardinality(hits)
<1>1. Triggered(e, s) = [k \in 1 .. n |-> c(k)]
  BY DEF Triggered
<1>2. n \in Nat
  <2>1. DOMAIN entries[e][s] = 1 .. Len(entries[e][s])
        /\ Len(entries[e][s]) \in Nat
    BY LenProperties
  <2>2. IsFiniteSet(1 .. Len(entries[e][s]))
    BY <2>1, FS_Interval
  <2>3. IsFiniteSet(hits)
    BY <2>1, <2>2, FS_Subset
  <2> QED  BY <2>3, FS_CardinalityType
<1>3. \A k \in 1 .. n : c(k) \in Commands /\ c(k).cmd \in {"pre_measure", "measure"}
  BY RequestType DEF Command, Commands
<1> HIDE DEF n, c
<1>4. [k \in 1 .. n |-> c(k)] \in Seq(Commands)
  BY <1>2, <1>3
<1>5. Len([k \in 1 .. n |-> c(k)]) = n
  BY <1>2, <1>4, LenProperties
<1> QED  BY <1>1, <1>3, <1>4, <1>5

(* Updating a function at one place, or at one place of one place, with a  *)
(* value of its range keeps it a function of its type.                     *)
LEMMA UpdateAt ==
  ASSUME NEW S, NEW T, NEW f \in [S -> T], NEW a \in S, NEW v \in T
  PROVE  [f EXCEPT ![a] = v] \in [S -> T]
OBVIOUS

(* The same one level down.                                                *)
LEMMA UpdateAt2 ==
  ASSUME NEW R, NEW S, NEW T, NEW f \in [R -> [S -> T]],
         NEW a \in R, NEW b \in S, NEW v \in T
  PROVE  [f EXCEPT ![a][b] = v] \in [R -> [S -> T]]
OBVIOUS

(* What is left of a sequence without its i-th element.                    *)
LEMMA Removal ==
  ASSUME NEW S, NEW q \in Seq(S), NEW i \in 1 .. Len(q)
  PROVE  LET r == SubSeq(q, 1, i - 1) \o SubSeq(q, i + 1, Len(q))
         IN /\ r \in Seq(S) /\ Len(r) = Len(q) - 1
            /\ \A k \in 1 .. Len(r) : r[k] = IF k < i THEN q[k] ELSE q[k + 1]
<1> DEFINE a == SubSeq(q, 1, i - 1)
           b == SubSeq(q, i + 1, Len(q))
<1>1. Len(q) \in Nat /\ \A j \in 1 .. Len(q) : q[j] \in S
  BY LenProperties, ElementOfSeq
<1>2. /\ a \in Seq(S) /\ Len(a) = i - 1
      /\ \A k \in 1 .. i - 1 : a[k] = q[k]
  <2>1. i - 1 \in Int /\ 1 \in Int /\ \A j \in 1 .. i - 1 : q[j] \in S
    BY <1>1
  <2> HIDE DEF a
  <2>2. /\ SubSeq(q, 1, i - 1) \in Seq(S)
        /\ Len(SubSeq(q, 1, i - 1)) = IF 1 <= i - 1 THEN i - 1 - 1 + 1 ELSE 0
        /\ \A k \in 1 .. i - 1 - 1 + 1 : SubSeq(q, 1, i - 1)[k] = q[1 + k - 1]
    BY <2>1, SubSeqProperties
  <2> QED  BY <1>1, <2>1, <2>2 DEF a
<1>3. /\ b \in Seq(S) /\ Len(b) = Len(q) - i
      /\ \A k \in 1 .. Len(q) - i : b[k] = q[i + k]
  <2>1. i + 1 \in Int /\ Len(q) \in Int /\ \A j \in i + 1 .. Len(q) : q[j] \in S
    BY <1>1
  <2> HIDE DEF b
  <2>2. /\ SubSeq(q, i + 1, Len(q)) \in Seq(S)
        /\ Len(SubSeq(q, i + 1, Len(q))) =
             IF i + 1 <= Len(q) THEN Len(q) - (i + 1) + 1 ELSE 0
        /\ \A k \in 1 .. Len(q) - (i + 1) + 1 :
             SubSeq(q, i + 1, Len(q))[k] = q[i + 1 + k - 1]
    BY <2>1, SubSeqProperties
  <2> QED  BY <1>1, <2>1, <2>2 DEF b
<1> HIDE DEF a, b
<1>4. /\ a \o b \in Seq(S) /\ Len(a \o b) = Len(a) + Len(b)
      /\ \A k \in 1 .. Len(a) + Len(b) :
           (a \o b)[k] = IF k <= Len(a) THEN a[k] ELSE b[k - Len(a)]
  BY <1>2, <1>3, ConcatProperties
<1>5. /\ Len(a \o b) = Len(q) - 1
      /\ \A k \in 1 .. Len(a \o b) :
           (a \o b)[k] = IF k < i THEN q[k] ELSE q[k + 1]
  <2>1. Len(a \o b) = Len(q) - 1
    BY <1>1, <1>2, <1>3, <1>4
  <2>2. ASSUME NEW k \in 1 .. Len(q) - 1, k < i
        PROVE  (a \o b)[k] = q[k]
    <3>1. k \in 1 .. i - 1 /\ k \in 1 .. Len(a) + Len(b) /\ k <= Len(a)
      BY <1>1, <1>2, <1>3, <2>2
    <3> QED  BY <1>2, <1>4, <3>1
  <2>3. ASSUME NEW k \in 1 .. Len(q) - 1, ~(k < i)
        PROVE  (a \o b)[k] = q[k + 1]
    <3> DEFINE j == k - (i - 1)
    <3>1. /\ j \in 1 .. Len(q) - i /\ i + j = k + 1
          /\ k \in 1 .. Len(a) + Len(b) /\ ~(k <= Len(a)) /\ k - Len(a) = j
      BY <1>1, <1>2, <1>3, <2>3
    <3> HIDE DEF j
    <3>2. (a \o b)[k] = b[k - Len(a)] /\ b[j] = q[i + j]
      BY <1>3, <1>4, <3>1
    <3> QED  BY <3>1, <3>2
  <2> QED  BY <2>1, <2>2, <2>3
<1> QED  BY <1>4, <1>5 DEF a, b

(* The helpers that update the state of docker and of the edge services.   *)
LEMMA DockerUpdate ==
  ASSUME TypeOK, NEW e \in Edges, NEW s \in Services
  PROVE  /\ container \in [Edges -> [Services -> ContainerStates]]
         /\ folder \in [Edges -> [Services -> SUBSET Images]]
         /\ container[e][s] \in ContainerStates
         /\ folder[e][s] \in SUBSET Images
         /\ \A c \in ContainerStates :
              [container EXCEPT ![e][s] = c] \in
                [Edges -> [Services -> ContainerStates]]
         /\ \A f \in SUBSET Images :
              Put(folder, e, s, f) \in [Edges -> [Services -> SUBSET Images]]
<1>1. container \in [Edges -> [Services -> ContainerStates]]
      /\ folder \in [Edges -> [Services -> SUBSET Images]]
  BY DEF TypeOK
<1> QED  BY <1>1, UpdateAt2 DEF Put

(* ... and of the edge services.                                           *)
LEMMA EdgeUpdate ==
  ASSUME TypeOK, NEW e \in Edges, NEW s \in Services
  PROVE  /\ entries \in [Edges -> [Services -> Seq(0 .. RequestCap)]]
         /\ subscribed \in [Edges -> SUBSET Services]
         /\ entries[e][s] \in Seq(0 .. RequestCap)
         /\ \A r \in 0 .. RequestCap :
              AddEntry(e, s, r) \in [Edges -> [Services -> Seq(0 .. RequestCap)]]
         /\ RemoveEntry(e, s) \in [Edges -> [Services -> Seq(0 .. RequestCap)]]
         /\ Subscribe(e, s) \in [Edges -> SUBSET Services]
         /\ Unsubscribe(e, s) \in [Edges -> SUBSET Services]
<1>1. entries \in [Edges -> [Services -> Seq(0 .. RequestCap)]]
  BY DEF TypeOK
<1>2. entries[e][s] \in Seq(0 .. RequestCap)
  BY <1>1
<1>3. \A r \in 0 .. RequestCap :
        AddEntry(e, s, r) \in [Edges -> [Services -> Seq(0 .. RequestCap)]]
  <2> TAKE r \in 0 .. RequestCap
  <2>1. Append(entries[e][s], r) \in Seq(0 .. RequestCap)
    BY <1>2, AppendProperties
  <2> QED  BY <1>1, <2>1, UpdateAt2 DEF AddEntry
<1>4. RemoveEntry(e, s) \in [Edges -> [Services -> Seq(0 .. RequestCap)]]
  <2>1. (IF entries[e][s] = <<>> THEN entries[e][s] ELSE Tail(entries[e][s]))
          \in Seq(0 .. RequestCap)
    BY <1>2, HeadTailProperties
  <2> QED  BY <1>1, <2>1, UpdateAt2 DEF RemoveEntry
<1>5. subscribed \in [Edges -> SUBSET Services]
  BY DEF TypeOK
<1> QED  BY <1>1, <1>2, <1>3, <1>4, <1>5 DEF Subscribe, Unsubscribe

(* The steps of the source thread.                                         *)
LEMMA TaskType ==
  /\ Idle \in Tasks(SrcStages) /\ Dead \in Tasks(SrcStages)
  /\ Idle \in Tasks(DstStages) /\ Dead \in Tasks(DstStages)
BY RequestType DEF Tasks, SrcStages, DstStages, Idle, Dead

(* Its queue, its task, its records and its socket.                        *)
LEMMA SourceUpdate ==
  ASSUME TypeOK, NEW e \in Edges
  PROVE  /\ queue \in [Edges -> Seq(Commands)]
         /\ src \in [Edges -> Tasks(SrcStages)]
         /\ sock \in [Edges -> {"open", "closed"}]
         /\ src[e].stage \in SrcStages =>
              /\ src[e].svc \in Services /\ src[e].dst \in Edges
              /\ src[e].req \in 0 .. RequestCap
         /\ queue[e] \in Seq(Commands)
         /\ src[e] \in Tasks(SrcStages)
         /\ \A k : Takes(e, k) => /\ Head(queue[e]) \in Commands
                                  /\ queue' \in [Edges -> Seq(Commands)]
         /\ SrcRests(e) => src' \in [Edges -> Tasks(SrcStages)]
         /\ SrcDies(e) => src' \in [Edges -> Tasks(SrcStages)]
         /\ \A stage \in SrcStages, c \in Commands :
              SrcGoes(e, stage, c) => src' \in [Edges -> Tasks(SrcStages)]
         /\ \A stage \in SrcStages : src[e].stage \in SrcStages =>
              [src EXCEPT ![e].stage = stage] \in [Edges -> Tasks(SrcStages)]
         /\ \A s \in Services : [srcRecords EXCEPT ![e] = @ \cup {s}] \in
                                  [Edges -> SUBSET Services]
         /\ \A x \in {"open", "closed"} :
              [sock EXCEPT ![e] = x] \in [Edges -> {"open", "closed"}]
<1>1. queue \in [Edges -> Seq(Commands)] /\ src \in [Edges -> Tasks(SrcStages)]
      /\ srcRecords \in [Edges -> SUBSET Services]
      /\ sock \in [Edges -> {"open", "closed"}]
  BY DEF TypeOK
<1>2. queue[e] \in Seq(Commands) /\ src[e] \in Tasks(SrcStages)
  BY <1>1
<1>3. ASSUME NEW k, Takes(e, k)
      PROVE  Head(queue[e]) \in Commands /\ queue' \in [Edges -> Seq(Commands)]
  <2>1. Head(queue[e]) \in Commands /\ Tail(queue[e]) \in Seq(Commands)
    BY <1>2, <1>3, HeadTailProperties DEF Takes
  <2> QED  BY <1>1, <1>3, <2>1 DEF Takes
<1>4. (SrcRests(e) => src' \in [Edges -> Tasks(SrcStages)])
      /\ (SrcDies(e) => src' \in [Edges -> Tasks(SrcStages)])
  BY <1>1, TaskType, UpdateAt DEF SrcRests, SrcDies
<1>5. ASSUME NEW stage \in SrcStages, NEW c \in Commands, SrcGoes(e, stage, c)
      PROVE  src' \in [Edges -> Tasks(SrcStages)]
  <2>1. [stage |-> stage, svc |-> c.svc, dst |-> c.dst, req |-> c.req] \in
          Tasks(SrcStages)
    BY DEF Tasks, Commands
  <2> QED  BY <1>1, <1>5, <2>1, UpdateAt DEF SrcGoes
<1>6. ASSUME NEW stage \in SrcStages, src[e].stage \in SrcStages
      PROVE  [src EXCEPT ![e].stage = stage] \in [Edges -> Tasks(SrcStages)]
  <2>1. [src[e] EXCEPT !.stage = stage] \in Tasks(SrcStages)
    BY <1>2, <1>6 DEF Tasks, Idle, Dead, SrcStages
  <2> QED  BY <1>1, <2>1, UpdateAt
<1>7. src[e].stage \in SrcStages => src[e].svc \in Services /\ src[e].dst \in Edges
                                    /\ src[e].req \in 0 .. RequestCap
  BY <1>2 DEF Tasks, Idle, Dead, SrcStages
<1> QED  BY <1>1, <1>2, <1>3, <1>4, <1>5, <1>6, <1>7

(* The steps of the destination thread, and the network.                   *)
LEMMA DestUpdate ==
  ASSUME TypeOK, NEW d \in Edges
  PROVE  /\ dst \in [Edges -> Tasks(DstStages)]
         /\ dst[d] \in Tasks(DstStages)
         /\ DstRests(d) => dst' \in [Edges -> Tasks(DstStages)]
         /\ DstDies(d) => dst' \in [Edges -> Tasks(DstStages)]
         /\ \A stage \in DstStages, m \in Datagrams :
              DstGoes(d, stage, m) => dst' \in [Edges -> Tasks(DstStages)]
         /\ dst[d].stage \in DstStages =>
              /\ dst[d].svc \in Services /\ dst[d].dst \in Edges
              /\ dst[d].req \in 0 .. RequestCap
         /\ \A stage \in DstStages : dst[d].stage \in DstStages =>
              [dst EXCEPT ![d].stage = stage] \in [Edges -> Tasks(DstStages)]
         /\ \A s \in Services :
              /\ [dstRecords EXCEPT ![d] = @ \cup {s}] \in
                    [Edges -> SUBSET Services]
              /\ [reserved EXCEPT ![d] = @ \cup {s}] \in
                    [Edges -> SUBSET Services]
              /\ [reserved EXCEPT ![d] = @ \ {s}] \in [Edges -> SUBSET Services]
<1>1. dst \in [Edges -> Tasks(DstStages)]
      /\ dstRecords \in [Edges -> SUBSET Services]
      /\ reserved \in [Edges -> SUBSET Services]
  BY DEF TypeOK
<1>2. dst[d] \in Tasks(DstStages)
  BY <1>1
<1>3. (DstRests(d) => dst' \in [Edges -> Tasks(DstStages)])
      /\ (DstDies(d) => dst' \in [Edges -> Tasks(DstStages)])
  BY <1>1, TaskType, UpdateAt DEF DstRests, DstDies
<1>4. ASSUME NEW stage \in DstStages, NEW m \in Datagrams, DstGoes(d, stage, m)
      PROVE  dst' \in [Edges -> Tasks(DstStages)]
  <2>1. [stage |-> stage, svc |-> m.svc, dst |-> d, req |-> m.req] \in
          Tasks(DstStages)
    BY DEF Tasks, Datagrams
  <2> QED  BY <1>1, <1>4, <2>1, UpdateAt DEF DstGoes
<1>5. ASSUME NEW stage \in DstStages, dst[d].stage \in DstStages
      PROVE  [dst EXCEPT ![d].stage = stage] \in [Edges -> Tasks(DstStages)]
  <2>1. [dst[d] EXCEPT !.stage = stage] \in Tasks(DstStages)
    BY <1>2, <1>5 DEF Tasks, Idle, Dead, DstStages
  <2> QED  BY <1>1, <2>1, UpdateAt
<1>6. dst[d].stage \in DstStages => dst[d].svc \in Services /\ dst[d].dst \in Edges
                                    /\ dst[d].req \in 0 .. RequestCap
  BY <1>2 DEF Tasks, Idle, Dead, DstStages
<1> QED  BY <1>1, <1>2, <1>3, <1>4, <1>5, <1>6

(* The network.                                                            *)
LEMMA NetUpdate ==
  ASSUME TypeOK, NEW e \in Edges, NEW d \in Edges
  PROVE  /\ net \in [Edges -> [Edges -> Seq(Datagrams)]]
         /\ net[e][d] \in Seq(Datagrams)
         /\ \A q \in Seq(Datagrams) : [net EXCEPT ![e][d] = q] \in
                                        [Edges -> [Edges -> Seq(Datagrams)]]
         /\ \A m \in Datagrams : [net EXCEPT ![e][d] = Append(@, m)] \in
                                   [Edges -> [Edges -> Seq(Datagrams)]]
         /\ \A k : Receives(e, d, k) =>
              /\ Head(net[e][d]) \in Datagrams
              /\ net' \in [Edges -> [Edges -> Seq(Datagrams)]]
<1>1. net \in [Edges -> [Edges -> Seq(Datagrams)]]
  BY DEF TypeOK
<1>2. net[e][d] \in Seq(Datagrams)
  BY <1>1
<1>3. \A q \in Seq(Datagrams) : [net EXCEPT ![e][d] = q] \in
                                 [Edges -> [Edges -> Seq(Datagrams)]]
  BY <1>1, UpdateAt2
<1>4. ASSUME NEW m \in Datagrams
      PROVE  [net EXCEPT ![e][d] = Append(@, m)] \in
               [Edges -> [Edges -> Seq(Datagrams)]]
  <2>1. Append(net[e][d], m) \in Seq(Datagrams)
    BY <1>2, AppendProperties
  <2> QED  BY <1>1, <2>1, UpdateAt2
<1>5. ASSUME NEW k, Receives(e, d, k)
      PROVE  /\ Head(net[e][d]) \in Datagrams
             /\ net' \in [Edges -> [Edges -> Seq(Datagrams)]]
  <2>1. Head(net[e][d]) \in Datagrams /\ Tail(net[e][d]) \in Seq(Datagrams)
    BY <1>2, <1>5, HeadTailProperties DEF Receives
  <2> QED  BY <1>1, <1>5, <2>1, UpdateAt2 DEF Receives
<1> QED  BY <1>1, <1>2, <1>3, <1>4, <1>5

(* The centre's view of one service.                                       *)
LEMMA CentreUpdate ==
  ASSUME TypeOK, NEW s \in Services
  PROVE  /\ host \in [Services -> Edges \cup {NoEdge}]
         /\ plan \in [Services -> Plans]
         /\ host[s] \in Edges \cup {NoEdge}
         /\ plan[s] \in Plans /\ NoPlan \in Plans
         /\ \A e \in Edges \cup {NoEdge} :
              [host EXCEPT ![s] = e] \in [Services -> Edges \cup {NoEdge}]
         /\ \A p \in Plans : [plan EXCEPT ![s] = p] \in [Services -> Plans]
         /\ \A k \in {"prepared", "unscheduled", "migrate"} :
              plan[s] # NoPlan =>
                [plan EXCEPT ![s].phase = k] \in [Services -> Plans]
         /\ [orders EXCEPT ![s] = @ + 1] \in [Services -> Nat]
         /\ \A b : Disturb(s, b) => disturbed' \in SUBSET Services
<1>1. host \in [Services -> Edges \cup {NoEdge}] /\ plan \in [Services -> Plans]
      /\ orders \in [Services -> Nat] /\ disturbed \in SUBSET Services
  BY DEF TypeOK
<1>2. plan[s] \in Plans /\ NoPlan \in Plans
  BY <1>1 DEF Plans, NoPlan
<1>3. ASSUME NEW k \in {"prepared", "unscheduled", "migrate"}, plan[s] # NoPlan
      PROVE  [plan EXCEPT ![s].phase = k] \in [Services -> Plans]
  <2>1. [plan[s] EXCEPT !.phase = k] \in Plans
    BY <1>2, <1>3 DEF Plans
  <2> QED  BY <1>1, <2>1, UpdateAt
<1> QED  BY <1>1, <1>2, <1>3 DEF Disturb

(* Init and every step keep the types.                                     *)
LEMMA TypeInit == Init => TypeOK
BY RequestType, EmptySeq
   DEF Init, TypeOK, ContainerStates, Images, Tasks, SrcStages, DstStages,
       Idle, Plans, NoPlan

(* The queue after an order, and the commands of an order.                 *)
LEMMA EnqueueType ==
  ASSUME TypeOK, NEW e \in Edges, NEW s \in Services,
         NEW cmds \in Seq(Commands), Enqueue(e, s, cmds)
  PROVE  queue' \in [Edges -> Seq(Commands)]
<1>1. queue \in [Edges -> Seq(Commands)] /\ queue[e] \o cmds \in Seq(Commands)
  <2>1. queue \in [Edges -> Seq(Commands)] /\ queue[e] \in Seq(Commands)
    BY DEF TypeOK
  <2> QED  BY <2>1, ConcatProperties
<1> QED  BY <1>1, UpdateAt DEF Enqueue

(* Both commands of an order are commands.                                 *)
LEMMA OrderCommandType ==
  ASSUME TypeOK, NEW e \in Edges, NEW s \in Services, NEW d \in Edges
  PROVE  PrepareCmd(e, s, d) \in Commands /\ MigrateCmd(e, s, d) \in Commands
<1>1. (IF IsListed(e, s) THEN Head(entries[e][s]) ELSE 0) \in 0 .. RequestCap
  BY EdgeUpdate, RequestType, HeadTailProperties DEF IsListed
<1> QED  BY <1>1, RequestType, CommandType DEF PrepareCmd, MigrateCmd

(* Orders of the centre and reports of the users.                          *)
LEMMA TypeCentre ==
  ASSUME TypeOK, NEW s \in Services,
         \/ \E e \in Edges : Deploy(s, e) \/ DeployFails(s, e) \/ Order(s, e)
                             \/ MonitorService(e, s)
         \/ Leave(s) \/ OrderMigrate(s)
  PROVE  TypeOK'
<1> USE DEF vars, dockerVars, edgeVars, srcVars, dstVars, centreVars
<1>1. ASSUME NEW e \in Edges, Deploy(s, e)  PROVE  TypeOK'
  <2>1. container' \in [Edges -> [Services -> ContainerStates]]
    <3>1. "deployed" \in ContainerStates
      BY DEF ContainerStates, RunStates
    <3>2. container' = container \/ container' = [container EXCEPT ![e][s] = "deployed"]
      BY <1>1 DEF Deploy
    <3>3. /\ container \in [Edges -> [Services -> ContainerStates]]
          /\ [container EXCEPT ![e][s] = "deployed"] \in
                [Edges -> [Services -> ContainerStates]]
      BY <3>1, DockerUpdate
    <3> QED  BY <3>2, <3>3
  <2>2. /\ entries' \in [Edges -> [Services -> Seq(0 .. RequestCap)]]
        /\ subscribed' \in [Edges -> SUBSET Services]
    <3>1. /\ entries' = entries \/ entries' = AddEntry(e, s, 0)
          /\ subscribed' = subscribed \/ subscribed' = Subscribe(e, s)
      BY <1>1 DEF Deploy
    <3>2. /\ entries \in [Edges -> [Services -> Seq(0 .. RequestCap)]]
          /\ AddEntry(e, s, 0) \in [Edges -> [Services -> Seq(0 .. RequestCap)]]
          /\ subscribed \in [Edges -> SUBSET Services]
          /\ Subscribe(e, s) \in [Edges -> SUBSET Services]
      BY RequestType, EdgeUpdate
    <3> QED  BY <3>1, <3>2
  <2>3. /\ host' \in [Services -> Edges \cup {NoEdge}]
        /\ orders' \in [Services -> Nat]
    BY <1>1, CentreUpdate DEF Deploy
  <2> QED  BY <1>1, <2>1, <2>2, <2>3 DEF Deploy, TypeOK
<1>2. ASSUME NEW e \in Edges, DeployFails(s, e)  PROVE  TypeOK'
  <2>1. container' \in [Edges -> [Services -> ContainerStates]]
    <3>1. "none" \in ContainerStates
      BY DEF ContainerStates
    <3> QED  BY <1>2, <3>1, DockerUpdate DEF DeployFails
  <2> QED  BY <1>2, <2>1 DEF DeployFails, TypeOK
<1>3. ASSUME NEW d \in Edges, Order(s, d)  PROVE  TypeOK'
  <2> DEFINE e == host[s]
  <2>1. e \in Edges
    BY <1>3, CentreUpdate DEF Order
  <2>2. queue' \in [Edges -> Seq(Commands)]
    <3>1. <<PrepareCmd(e, s, d)>> \in Seq(Commands)
      BY <2>1, OrderCommandType
    <3> QED  BY <1>3, <2>1, <3>1, EnqueueType DEF Order
  <2>3. plan' \in [Services -> Plans]
    <3>1. \A k \in {"prepare", "prepared"} : [phase |-> k, dst |-> d] \in Plans
      BY DEF Plans
    <3>2. \/ plan' = [plan EXCEPT ![s] = [phase |-> "prepare", dst |-> d]]
          \/ plan' = [plan EXCEPT ![s] = [phase |-> "prepared", dst |-> d]]
      BY <1>3 DEF Order
    <3>3. \A p \in Plans : [plan EXCEPT ![s] = p] \in [Services -> Plans]
      BY CentreUpdate
    <3> QED  BY <3>1, <3>2, <3>3
  <2>4. orders' \in [Services -> Nat] /\ disturbed' \in SUBSET Services
    BY <1>3, CentreUpdate DEF Order, Enqueue
  <2> QED  BY <1>3, <2>2, <2>3, <2>4 DEF Order, TypeOK
<1>4. ASSUME NEW e \in Edges, MonitorService(e, s)  PROVE  TypeOK'
  <2>1. queue' \in [Edges -> Seq(Commands)]
    <3>1. queue \in [Edges -> Seq(Commands)]
          /\ queue[e] \o Triggered(e, s) \in Seq(Commands)
      BY EdgeUpdate, SourceUpdate, TriggeredType, ConcatProperties DEF TypeOK
    <3> QED  BY <1>4, <3>1, UpdateAt DEF MonitorService
  <2>2. entries' \in [Edges -> [Services -> Seq(0 .. RequestCap)]]
    <3> DEFINE en == entries[e][s]
    <3>1. en \in Seq(0 .. RequestCap) /\ DOMAIN en = 1 .. Len(en)
          /\ Len(en) \in Nat /\ \A i \in DOMAIN en : en[i] \in 0 .. RequestCap
      BY EdgeUpdate, LenProperties, ElementOfSeq
    <3>2. \A i \in 1 .. Len(en) : Bump(en[i]) \in 0 .. RequestCap
      BY <3>1, RequestType
    <3> HIDE DEF en
    <3>3. [i \in 1 .. Len(en) |-> Bump(en[i])] \in Seq(0 .. RequestCap)
      BY <3>1, <3>2
    <3> USE DEF en
    <3>4. entries \in [Edges -> [Services -> Seq(0 .. RequestCap)]]
      BY DEF TypeOK
    <3>5. entries' = [entries EXCEPT ![e][s] =
                        [i \in DOMAIN en |-> Bump(en[i])]]
      BY <1>4 DEF MonitorService
    <3> QED  BY <3>1, <3>3, <3>4, <3>5, UpdateAt2
  <2> QED  BY <1>4, <2>1, <2>2 DEF MonitorService, TypeOK
<1>5. ASSUME Leave(s)  PROVE  TypeOK'
  <2> DEFINE e == host[s]
  <2>1. e \in Edges
    BY <1>5, CentreUpdate DEF Leave
  <2>2. container' \in [Edges -> [Services -> ContainerStates]]
    <3>1. (IF container[e][s] \in RunStates THEN "none" ELSE container[e][s])
            \in ContainerStates
      BY <2>1, DockerUpdate DEF ContainerStates
    <3>2. \/ container' = container
          \/ container' = [container EXCEPT ![e][s] =
                             IF @ \in RunStates THEN "none" ELSE @]
      BY <1>5 DEF Leave
    <3>3. /\ container \in [Edges -> [Services -> ContainerStates]]
          /\ [container EXCEPT ![e][s] = IF @ \in RunStates THEN "none" ELSE @]
                \in [Edges -> [Services -> ContainerStates]]
      BY <2>1, <3>1, DockerUpdate
    <3> QED  BY <3>2, <3>3
  <2>3. /\ entries' \in [Edges -> [Services -> Seq(0 .. RequestCap)]]
        /\ subscribed' \in [Edges -> SUBSET Services]
    <3>1. /\ entries' = entries \/ entries' = RemoveEntry(e, s)
          /\ subscribed' = subscribed \/ subscribed' = Unsubscribe(e, s)
      BY <1>5 DEF Leave
    <3> QED  BY <2>1, <3>1, EdgeUpdate
  <2>4. /\ host' \in [Services -> Edges \cup {NoEdge}]
        /\ plan' \in [Services -> Plans]
        /\ disturbed' \in SUBSET Services
    BY <1>5, CentreUpdate DEF Leave
  <2> QED  BY <1>5, <2>2, <2>3, <2>4 DEF Leave, TypeOK
<1>6. ASSUME OrderMigrate(s)  PROVE  TypeOK'
  <2>1. queue' \in [Edges -> Seq(Commands)]
    <3>1. plan[s].dst \in Edges
      <4>1. plan[s] \in Plans /\ plan[s].phase = "prepared"
        BY <1>6, CentreUpdate DEF OrderMigrate
      <4> QED  BY <4>1 DEF Plans, NoPlan
    <3>2. CASE host[s] \in Edges
      <4>1. <<MigrateCmd(host[s], s, plan[s].dst)>> \in Seq(Commands)
        BY <3>1, <3>2, OrderCommandType
      <4> QED  BY <1>6, <3>2, <4>1, EnqueueType DEF OrderMigrate
    <3>3. CASE host[s] \notin Edges
      BY <1>6, <3>3 DEF OrderMigrate, Enqueue, TypeOK
    <3> QED  BY <3>2, <3>3
  <2>2. plan' \in [Services -> Plans]
    <3>1. plan[s] # NoPlan /\ plan' = [plan EXCEPT ![s].phase = "migrate"]
      BY <1>6 DEF OrderMigrate, NoPlan
    <3> QED  BY <3>1, CentreUpdate
  <2>3. disturbed' \in SUBSET Services
    BY <1>6, CentreUpdate DEF OrderMigrate, Enqueue
  <2> QED  BY <1>6, <2>1, <2>2, <2>3 DEF OrderMigrate, TypeOK
<1> QED  BY <1>1, <1>2, <1>3, <1>4, <1>5, <1>6

(* Notices.                                                                *)
LEMMA TypeNotice ==
  ASSUME TypeOK, NEW n \in notices, PreMigrated(n) \/ Migrated(n)
  PROVE  TypeOK'
<1> USE DEF vars, dockerVars, edgeVars, srcVars, dstVars, centreVars
<1>1. n.svc \in Services /\ n.edge \in Edges /\ notices \in SUBSET Notices
  BY DEF TypeOK, Notices
<1>2. CASE PreMigrated(n)
  <2>1. /\ plan \in [Services -> Plans]
        /\ [plan EXCEPT ![n.svc] = NoPlan] \in [Services -> Plans]
        /\ plan[n.svc] # NoPlan => \A k \in {"prepared", "unscheduled"} :
             [plan EXCEPT ![n.svc].phase = k] \in [Services -> Plans]
    BY <1>1, CentreUpdate
  <2>2. \/ /\ plan[n.svc] # NoPlan
           /\ \E k \in {"prepared", "unscheduled"} :
                plan' = [plan EXCEPT ![n.svc].phase = k]
        \/ plan' = [plan EXCEPT ![n.svc] = NoPlan]
        \/ plan' = plan
    BY <1>2 DEF PreMigrated, NoPlan
  <2>3. plan' \in [Services -> Plans]
    BY <2>1, <2>2
  <2> QED  BY <1>1, <1>2, <2>3 DEF PreMigrated, TypeOK
<1>3. CASE Migrated(n)
  <2>1. /\ host \in [Services -> Edges \cup {NoEdge}]
        /\ [host EXCEPT ![n.svc] = n.edge] \in [Services -> Edges \cup {NoEdge}]
        /\ plan \in [Services -> Plans]
        /\ [plan EXCEPT ![n.svc] = NoPlan] \in [Services -> Plans]
    BY <1>1, CentreUpdate
  <2>2. /\ host' = host \/ host' = [host EXCEPT ![n.svc] = n.edge]
        /\ plan' = plan \/ plan' = [plan EXCEPT ![n.svc] = NoPlan]
    BY <1>3 DEF Migrated
  <2>3. /\ host' \in [Services -> Edges \cup {NoEdge}]
        /\ plan' \in [Services -> Plans]
    BY <2>1, <2>2
  <2> QED  BY <1>1, <1>3, <2>3 DEF Migrated, TypeOK
<1> QED  BY <1>2, <1>3

(* What a step of the source thread does to the images of one service.     *)
LEMMA SnapType ==
  ASSUME NEW f \in SUBSET Images, NEW ok
  PROVE  /\ \A name \in Images : Snap(f, name, ok) \in SUBSET Images
         /\ f \cup {"delta", "files"} \in SUBSET Images
         /\ f \cup {"files"} \in SUBSET Images
         /\ f \cap {"pre2"} \in SUBSET Images
BY DEF Snap, Images

(* A folder with a new image, or without the one that failed, is a folder. *)
LEMMA SnapUpdate ==
  ASSUME TypeOK, NEW e \in Edges, NEW s \in Services, NEW ok,
         NEW name \in {"pre1", "pre2"}
  PROVE  Put(folder, e, s, Snap(folder[e][s], name, ok)) \in
           [Edges -> [Services -> SUBSET Images]]
<1>1. folder[e][s] \in SUBSET Images /\ name \in Images
  BY DockerUpdate DEF Images
<1>2. Snap(folder[e][s], name, ok) \in SUBSET Images
  BY <1>1, SnapType
<1> QED  BY <1>2, DockerUpdate

(* A notice is a notice,                                                   *)
LEMMA NoticeType ==
  ASSUME TypeOK, NEW k \in {"pre_migrated", "migrated"}, NEW s \in Services,
         NEW e \in Edges
  PROVE  notices \cup {Notice(k, s, e)} \in SUBSET Notices
BY DEF TypeOK, Notice, Notices

(* ... and a datagram a datagram.                                          *)
LEMMA DatagramType ==
  ASSUME NEW k \in {"prepare", "migrate"}, NEW s \in Services,
         NEW r \in 0 .. RequestCap
  PROVE  Datagram(k, s, r) \in Datagrams
BY DEF Datagram, Datagrams

(* The source thread.                                                      *)
LEMMA TypeMeasuring ==
  ASSUME TypeOK, NEW e \in Edges,
         PreMeasure(e) \/ Measure(e) \/ MeasureReport(e)
  PROVE  TypeOK'
<1> USE DEF vars, dockerVars, edgeVars, srcVars, dstVars, centreVars
<1>1. CASE PreMeasure(e)
  <2> DEFINE s == Head(queue[e]).svc
  <2>1. s \in Services /\ queue' \in [Edges -> Seq(Commands)]
    BY <1>1, SourceUpdate DEF PreMeasure, Commands
  <2>2. src' \in [Edges -> Tasks(SrcStages)]
    BY <1>1, SourceUpdate DEF PreMeasure
  <2>3. \A ok : Put(folder, e, s, Snap(folder[e][s], "pre1", ok)) \in
                  [Edges -> [Services -> SUBSET Images]]
    BY <2>1, SnapUpdate
  <2>4. folder' \in [Edges -> [Services -> SUBSET Images]]
    <3>1. \/ folder' = folder
          \/ \E ok : folder' = Put(folder, e, s, Snap(folder[e][s], "pre1", ok))
      BY <1>1, SMTT(30) DEF PreMeasure
    <3> QED  BY <2>1, <2>3, <3>1, DockerUpdate
  <2> QED  BY <1>1, <2>1, <2>2, <2>4 DEF PreMeasure, TypeOK
<1>2. CASE Measure(e)
  <2> DEFINE c == Head(queue[e])
  <2>1. c \in Commands /\ c.svc \in Services
        /\ queue' \in [Edges -> Seq(Commands)]
    BY <1>2, SourceUpdate DEF Measure, Commands
  <2>2. PICK ok \in CheckpointOK(e, c.svc) :
          /\ folder' = Put(folder, e, c.svc, Snap(folder[e][c.svc], "pre2", ok))
          /\ IF ok THEN SrcGoes(e, "measured", c) ELSE SrcDies(e)
    BY <1>2 DEF Measure
  <2>3. src' \in [Edges -> Tasks(SrcStages)]
    BY <2>1, <2>2, SourceUpdate DEF SrcStages
  <2>4. folder' \in [Edges -> [Services -> SUBSET Images]]
    BY <2>1, <2>2, SnapUpdate
  <2> QED  BY <1>2, <2>1, <2>3, <2>4 DEF Measure, TypeOK
<1>3. CASE MeasureReport(e)
  <2>1. src[e].svc \in Services
    BY <1>3, SourceUpdate DEF MeasureReport, SrcStages
  <2>2. src' \in [Edges -> Tasks(SrcStages)]
    BY <1>3, SourceUpdate DEF MeasureReport
  <2>3. reported' \in SUBSET Services
    BY <1>3, <2>1 DEF MeasureReport, TypeOK
  <2> QED  BY <1>3, <2>2, <2>3 DEF MeasureReport, TypeOK
<1> QED  BY <1>1, <1>2, <1>3

(* It prepares a migration,                                                *)
LEMMA TypePrepare ==
  ASSUME TypeOK, NEW e \in Edges,
         \/ Prepare(e) \/ PrepareCheckpoint(e) \/ PrepareDelta(e)
         \/ PrepareNotify(e)
  PROVE  TypeOK'
<1> USE DEF vars, dockerVars, edgeVars, srcVars, dstVars, centreVars
<1>1. CASE Prepare(e)
  <2> DEFINE c == Head(queue[e])
  <2>1. c \in Commands /\ c.svc \in Services
        /\ queue' \in [Edges -> Seq(Commands)]
    BY <1>1, SourceUpdate DEF Prepare, Commands
  <2>2. src' \in [Edges -> Tasks(SrcStages)]
    BY <1>1, <2>1, SourceUpdate DEF Prepare, SrcStages
  <2>3. /\ srcRecords' \in [Edges -> SUBSET Services]
        /\ sock' \in [Edges -> {"open", "closed"}]
    BY <1>1, <2>1, SourceUpdate DEF Prepare
  <2> QED  BY <1>1, <2>1, <2>2, <2>3 DEF Prepare, TypeOK
<1>2. CASE PrepareCheckpoint(e)
  <2> DEFINE s == src[e].svc
             d == src[e].dst
  <2>1. s \in Services /\ d \in Edges
    BY <1>2, SourceUpdate, Zenon DEF PrepareCheckpoint, SrcStages
  <2>2. src' \in [Edges -> Tasks(SrcStages)]
    BY <1>2, SourceUpdate, Zenon DEF PrepareCheckpoint, SrcStages
  <2>3. PICK ok : folder' =
          LET taken == Put(folder, e, s, Snap(folder[e][s], "pre3", ok))
          IN Put(taken, d, s,
                 taken[d][s] \cup (folder[e][s] \cap {"pre2"}) \cup {"files"})
    BY <1>2, Zenon DEF PrepareCheckpoint
  <2> DEFINE here == Snap(folder[e][s], "pre3", ok)
             base == folder[e][s] \cap {"pre2"}
             taken == Put(folder, e, s, here)
  <2>4. /\ here \in SUBSET Images
        /\ taken \in [Edges -> [Services -> SUBSET Images]]
    <3>0. "pre3" \in Images /\ folder[e][s] \in SUBSET Images
      BY <2>1, DockerUpdate DEF Images
    <3>1. here \in SUBSET Images
      BY <3>0, SnapType
    <3> QED  BY <2>1, <3>1, DockerUpdate
  <2>5. base \in SUBSET Images /\ {"files"} \in SUBSET Images
    BY DEF Images
  <2>6. folder' = Put(taken, d, s, taken[d][s] \cup base \cup {"files"})
    BY <2>3
  <2>7. folder' \in [Edges -> [Services -> SUBSET Images]]
    <3> HIDE DEF here, base, taken
    <3>1. taken[d][s] \cup base \cup {"files"} \in SUBSET Images
      BY <2>1, <2>4, <2>5, ZenonT(60)
    <3> QED  BY <2>1, <2>4, <2>6, <3>1, UpdateAt2 DEF Put
  <2> QED  BY <1>2, <2>2, <2>7, Zenon DEF PrepareCheckpoint, TypeOK
<1>3. CASE PrepareDelta(e)
  <2> DEFINE s == src[e].svc
             d == src[e].dst
             patch == IF {"pre2", "pre3"} \subseteq folder[e][s]
                      THEN {"delta23"} ELSE {}
  <2>1. s \in Services /\ d \in Edges
    BY <1>3, SourceUpdate DEF PrepareDelta, SrcStages
  <2>2. src' \in [Edges -> Tasks(SrcStages)]
    BY <1>3, SourceUpdate DEF PrepareDelta, SrcStages
  <2>3. patch \in SUBSET Images /\ {"files"} \in SUBSET Images
    BY DEF Images
  <2>4. folder' = Put(folder, d, s, folder[d][s] \cup patch \cup {"files"})
    BY <1>3 DEF PrepareDelta
  <2>5. folder' \in [Edges -> [Services -> SUBSET Images]]
    <3> HIDE DEF patch
    <3>1. folder[d][s] \cup patch \cup {"files"} \in SUBSET Images
      BY <2>1, <2>3, DockerUpdate
    <3> QED  BY <2>1, <2>4, <3>1, DockerUpdate
  <2> QED  BY <1>3, <2>2, <2>5 DEF PrepareDelta, TypeOK
<1>4. CASE PrepareNotify(e)
  <2>1. src[e].svc \in Services /\ src[e].dst \in Edges
    BY <1>4, SourceUpdate DEF PrepareNotify, SrcStages
  <2>2. src' \in [Edges -> Tasks(SrcStages)]
    BY <1>4, SourceUpdate DEF PrepareNotify
  <2>3. notices' \in SUBSET Notices
    BY <1>4, <2>1, NoticeType DEF PrepareNotify
  <2>4. net' \in [Edges -> [Edges -> Seq(Datagrams)]]
    BY <1>4, <2>1, RequestType, DatagramType, NetUpdate DEF PrepareNotify
  <2> QED  BY <1>4, <2>2, <2>3, <2>4 DEF PrepareNotify, TypeOK
<1> QED  BY <1>1, <1>2, <1>3, <1>4

(* ... and carries it out.                                                 *)
LEMMA TypeMigrate ==
  ASSUME TypeOK, NEW e \in Edges,
         MigrateStop(e) \/ MigrateSend(e) \/ MigrateFinish(e) \/ MigrateCleanup(e)
  PROVE  TypeOK'
<1> USE DEF vars, dockerVars, edgeVars, srcVars, dstVars, centreVars
<1>1. CASE MigrateStop(e)
  <2> DEFINE c == Head(queue[e])
             s == c.svc
  <2>1. c \in Commands /\ s \in Services /\ queue' \in [Edges -> Seq(Commands)]
    BY <1>1, SourceUpdate DEF MigrateStop, Commands
  <2>2. src' \in [Edges -> Tasks(SrcStages)]
    BY <1>1, <2>1, SourceUpdate DEF MigrateStop, SrcStages
  <2>3. Stopped(container[e][s]) \in ContainerStates
    BY DEF Stopped, ContainerStates
  <2>4. /\ folder \in [Edges -> [Services -> SUBSET Images]]
        /\ container \in [Edges -> [Services -> ContainerStates]]
        /\ disturbed \in SUBSET Services
        /\ [container EXCEPT ![e][s] = Stopped(@)] \in
             [Edges -> [Services -> ContainerStates]]
        /\ \A ok : Put(folder, e, s, Snap(folder[e][s], "snapshot", ok)) \in
                     [Edges -> [Services -> SUBSET Images]]
        /\ \A b : Disturb(s, b) => disturbed' \in SUBSET Services
    <3>0. "snapshot" \in Images /\ folder[e][s] \in SUBSET Images
      BY <2>1, DockerUpdate DEF Images
    <3>1. \A ok : Snap(folder[e][s], "snapshot", ok) \in SUBSET Images
      BY <3>0, SnapType
    <3>2. disturbed \in SUBSET Services
      BY SMTT(30) DEF TypeOK
    <3> QED  BY <2>1, <2>3, <3>1, <3>2, DockerUpdate, CentreUpdate
  <2>5. /\ \/ folder' = folder
           \/ \E ok : folder' = Put(folder, e, s,
                                    Snap(folder[e][s], "snapshot", ok))
        /\ \/ container' = container
           \/ container' = [container EXCEPT ![e][s] = Stopped(@)]
        /\ \/ disturbed' = disturbed
           \/ \E b : Disturb(s, b)
    BY <1>1 DEF MigrateStop
  <2>6. /\ folder' \in [Edges -> [Services -> SUBSET Images]]
        /\ container' \in [Edges -> [Services -> ContainerStates]]
        /\ disturbed' \in SUBSET Services
    <3>1. folder' \in [Edges -> [Services -> SUBSET Images]]
      BY <2>4, <2>5
    <3>2. container' \in [Edges -> [Services -> ContainerStates]]
      BY <2>4, <2>5
    <3>3. disturbed' \in SUBSET Services
      BY <2>4, <2>5
    <3> QED  BY <3>1, <3>2, <3>3
  <2> QED  BY <1>1, <2>1, <2>2, <2>6, Zenon DEF MigrateStop, TypeOK
<1>2. CASE MigrateSend(e)
  <2> DEFINE s == src[e].svc
             d == src[e].dst
             patch == IF {"pre3", "snapshot"} \subseteq folder[e][s]
                      THEN {"delta"} ELSE {}
             sent == Put(folder, d, s, folder[d][s] \cup patch \cup {"files"})
  <2>1. s \in Services /\ d \in Edges /\ src[e].req \in 0 .. RequestCap
    BY <1>2, SourceUpdate, Zenon DEF MigrateSend, SrcStages
  <2>2. src' \in [Edges -> Tasks(SrcStages)]
    <3>1. SrcDies(e) \/ src' = [src EXCEPT ![e].stage = "sent"]
      BY <1>2, Zenon DEF MigrateSend
    <3>2. [src EXCEPT ![e].stage = "sent"] \in [Edges -> Tasks(SrcStages)]
      BY <1>2, SourceUpdate, Zenon DEF MigrateSend, SrcStages
    <3> QED  BY <3>1, <3>2, SourceUpdate, Zenon
  <2>3. /\ folder \in [Edges -> [Services -> SUBSET Images]]
        /\ sent \in [Edges -> [Services -> SUBSET Images]]
    <3>1. patch \in SUBSET Images /\ {"files"} \in SUBSET Images
      BY DEF Images
    <3> HIDE DEF patch
    <3>2. folder[d][s] \cup patch \cup {"files"} \in SUBSET Images
      BY <2>1, <3>1, DockerUpdate
    <3> QED  BY <2>1, <3>2, DockerUpdate, Zenon
  <2>4. folder' = folder \/ folder' = sent
    BY <1>2, Zenon DEF MigrateSend
  <2>5. folder' \in [Edges -> [Services -> SUBSET Images]]
    <3> HIDE DEF sent
    <3> QED  BY <2>3, <2>4
  <2>6. /\ sock \in [Edges -> {"open", "closed"}]
        /\ [sock EXCEPT ![e] = "closed"] \in [Edges -> {"open", "closed"}]
        /\ net \in [Edges -> [Edges -> Seq(Datagrams)]]
        /\ [net EXCEPT ![e][d] = Append(@, Datagram("migrate", s, src[e].req))]
             \in [Edges -> [Edges -> Seq(Datagrams)]]
    BY <2>1, SourceUpdate, NetUpdate, DatagramType, Zenon
  <2>7. /\ sock' = sock \/ sock' = [sock EXCEPT ![e] = "closed"]
        /\ \/ net' = net
           \/ net' = [net EXCEPT ![e][d] =
                        Append(@, Datagram("migrate", s, src[e].req))]
    BY <1>2, Zenon DEF MigrateSend
  <2>8. /\ sock' \in [Edges -> {"open", "closed"}]
        /\ net' \in [Edges -> [Edges -> Seq(Datagrams)]]
    BY <2>6, <2>7
  <2> QED  BY <1>2, <2>2, <2>5, <2>8, Zenon DEF MigrateSend, TypeOK
<1>3. CASE MigrateFinish(e)
  <2>1. src[e].svc \in Services
    BY <1>3, SourceUpdate DEF MigrateFinish, SrcStages
  <2>2. src' \in [Edges -> Tasks(SrcStages)]
    BY <1>3, SourceUpdate DEF MigrateFinish, SrcStages
  <2>3. /\ subscribed' \in [Edges -> SUBSET Services]
        /\ entries' \in [Edges -> [Services -> Seq(0 .. RequestCap)]]
    BY <1>3, <2>1, EdgeUpdate DEF MigrateFinish
  <2> QED  BY <1>3, <2>2, <2>3 DEF MigrateFinish, TypeOK
<1>4. CASE MigrateCleanup(e)
  <2>1. src[e].svc \in Services
    BY <1>4, SourceUpdate DEF MigrateCleanup, SrcStages
  <2>2. src' \in [Edges -> Tasks(SrcStages)]
    BY <1>4, SourceUpdate DEF MigrateCleanup
  <2>3. folder' \in [Edges -> [Services -> SUBSET Images]]
    BY <1>4, <2>1, DockerUpdate DEF MigrateCleanup
  <2> QED  BY <1>4, <2>2, <2>3 DEF MigrateCleanup, TypeOK
<1> QED  BY <1>1, <1>2, <1>3, <1>4

(* The destination thread.                                                 *)
LEMMA TypeReceive ==
  ASSUME TypeOK, NEW e \in Edges, NEW d \in Edges,
         DestPrepare(e, d) \/ DestUnpack(e, d)
  PROVE  TypeOK'
<1> USE DEF vars, dockerVars, edgeVars, srcVars, dstVars, centreVars
<1> DEFINE m == Head(net[e][d])
           s == m.svc
<1>1. \E k : Receives(e, d, k)
  BY Zenon DEF DestPrepare, DestUnpack
<1>2. m \in Datagrams /\ s \in Services
      /\ net' \in [Edges -> [Edges -> Seq(Datagrams)]]
  BY <1>1, NetUpdate DEF Datagrams
<1>3. \A x \in {"pre3", "snapshot"} :
        Put(folder, d, s, folder[d][s] \cup {x}) \in
          [Edges -> [Services -> SUBSET Images]]
  <2> TAKE x \in {"pre3", "snapshot"}
  <2>1. folder[d][s] \cup {x} \in SUBSET Images
    BY <1>2, DockerUpdate, Zenon DEF Images
  <2> QED  BY <1>2, <2>1, DockerUpdate, Zenon
<1>4. folder \in [Edges -> [Services -> SUBSET Images]]
  BY DEF TypeOK
<1>5. CASE DestPrepare(e, d)
  <2>1. folder' = folder \/ folder' = Put(folder, d, s, folder[d][s] \cup {"pre3"})
    BY <1>5, Zenon DEF DestPrepare
  <2>2. folder' \in [Edges -> [Services -> SUBSET Images]]
    BY <1>3, <1>4, <2>1, Zenon
  <2>3. dst' \in [Edges -> Tasks(DstStages)]
    BY <1>2, <1>5, DestUpdate, Zenon DEF DestPrepare, DstStages
  <2>4. dstRecords' \in [Edges -> SUBSET Services]
    BY <1>2, <1>5, DestUpdate, Zenon DEF DestPrepare
  <2> QED  BY <1>2, <1>5, <2>2, <2>3, <2>4, Zenon DEF DestPrepare, TypeOK
<1>6. CASE DestUnpack(e, d)
  <2>1. folder' = folder
        \/ folder' = Put(folder, d, s, folder[d][s] \cup {"snapshot"})
    BY <1>6, Zenon DEF DestUnpack
  <2>2. folder' \in [Edges -> [Services -> SUBSET Images]]
    BY <1>3, <1>4, <2>1, Zenon
  <2>3. dst' \in [Edges -> Tasks(DstStages)]
    BY <1>2, <1>6, DestUpdate, Zenon DEF DestUnpack, DstStages
  <2>4. reserved' \in [Edges -> SUBSET Services]
    BY <1>2, <1>6, DestUpdate, Zenon DEF DestUnpack
  <2> QED  BY <1>2, <1>6, <2>2, <2>3, <2>4, Zenon DEF DestUnpack, TypeOK
<1> QED  BY <1>5, <1>6

(* It restores the container and takes its new image.                      *)
LEMMA TypeRestore ==
  ASSUME TypeOK, NEW d \in Edges,
         \/ DestCreate(d) \/ DestRestore(d) \/ DestStart(d)
         \/ DestAnnounce(d) \/ DestList(d)
         \/ DestResnap(d) \/ DestResnapDone(d)
  PROVE  TypeOK'
<1> USE DEF vars, dockerVars, edgeVars, srcVars, dstVars, centreVars
<1> DEFINE s == dst[d].svc
<1>1. s \in Services /\ dst[d].req \in 0 .. RequestCap
      /\ dst[d].stage \in DstStages
  BY DestUpdate DEF DestCreate, DestRestore, DestStart, DestAnnounce, DestList,
                    DestResnap, DestResnapDone, DstStages
<1>2. CASE DestCreate(d)
  <2>1. container' \in [Edges -> [Services -> ContainerStates]]
    BY <1>1, <1>2, DockerUpdate DEF DestCreate, ContainerStates
  <2>2. /\ reserved' \in [Edges -> SUBSET Services]
        /\ dst' \in [Edges -> Tasks(DstStages)]
        /\ disturbed' \in SUBSET Services
    BY <1>1, <1>2, DestUpdate, CentreUpdate DEF DestCreate
  <2> QED  BY <1>2, <2>1, <2>2 DEF DestCreate, TypeOK
<1>3. CASE DestRestore(d)
  <2>1. /\ container \in [Edges -> [Services -> ContainerStates]]
        /\ [container EXCEPT ![d][s] = "restored"] \in
             [Edges -> [Services -> ContainerStates]]
    BY <1>1, DockerUpdate DEF ContainerStates, RunStates
  <2>2. \/ container' = container
        \/ container' = [container EXCEPT ![d][s] = "restored"]
    BY <1>3 DEF DestRestore
  <2>3. container' \in [Edges -> [Services -> ContainerStates]]
    BY <2>1, <2>2
  <2>4. dst' \in [Edges -> Tasks(DstStages)]
    <3>1. \/ dst' = [dst EXCEPT ![d].stage = "restored"]
          \/ dst' = [dst EXCEPT ![d].stage = "failed"]
      BY <1>3 DEF DestRestore
    <3>2. /\ [dst EXCEPT ![d].stage = "restored"] \in [Edges -> Tasks(DstStages)]
          /\ [dst EXCEPT ![d].stage = "failed"] \in [Edges -> Tasks(DstStages)]
      BY <1>1, DestUpdate DEF DstStages
    <3> QED  BY <3>1, <3>2
  <2> QED  BY <1>3, <2>3, <2>4 DEF DestRestore, TypeOK
<1>4. CASE DestStart(d)
  <2>1. /\ container \in [Edges -> [Services -> ContainerStates]]
        /\ \A c \in ContainerStates : [container EXCEPT ![d][s] = c] \in
                                     [Edges -> [Services -> ContainerStates]]
        /\ disturbed \in SUBSET Services
        /\ \A b : Disturb(s, b) => disturbed' \in SUBSET Services
    BY <1>1, DockerUpdate, CentreUpdate DEF TypeOK
  <2>2. StartOutcomes(d, s) \subseteq ContainerStates
        /\ container[d][s] \in ContainerStates
    BY <1>1, DockerUpdate DEF StartOutcomes, ContainerStates, RunStates
  <2>3. /\ \/ container' = container
           \/ \E c \in ContainerStates : container' = [container EXCEPT ![d][s] = c]
        /\ \/ disturbed' = disturbed
           \/ \E b : Disturb(s, b)
    BY <1>4, <2>2 DEF DestStart
  <2>4. /\ container' \in [Edges -> [Services -> ContainerStates]]
        /\ disturbed' \in SUBSET Services
    BY <2>1, <2>3
  <2>5. dst' \in [Edges -> Tasks(DstStages)]
    <3>1. DstDies(d) \/ dst' = [dst EXCEPT ![d].stage = "started"]
      BY <1>4 DEF DestStart
    <3>2. [dst EXCEPT ![d].stage = "started"] \in [Edges -> Tasks(DstStages)]
      BY <1>1, DestUpdate DEF DstStages
    <3> QED  BY <3>1, <3>2, DestUpdate
  <2> QED  BY <1>4, <2>4, <2>5 DEF DestStart, TypeOK
<1>5. CASE DestAnnounce(d)
  <2>1. dst' \in [Edges -> Tasks(DstStages)]
    BY <1>1, <1>5, DestUpdate DEF DestAnnounce, DstStages
  <2>2. notices' \in SUBSET Notices
    BY <1>1, <1>5, NoticeType DEF DestAnnounce
  <2> QED  BY <1>5, <2>1, <2>2 DEF DestAnnounce, TypeOK
<1>6. CASE DestList(d)
  <2>1. dst' \in [Edges -> Tasks(DstStages)]
    BY <1>1, <1>6, DestUpdate DEF DestList, DstStages
  <2>2. /\ entries' \in [Edges -> [Services -> Seq(0 .. RequestCap)]]
        /\ subscribed' \in [Edges -> SUBSET Services]
    BY <1>1, <1>6, EdgeUpdate DEF DestList
  <2> QED  BY <1>6, <2>1, <2>2 DEF DestList, TypeOK
<1>7. CASE DestResnap(d)
  <2>1. dst' \in [Edges -> Tasks(DstStages)]
    BY <1>1, <1>7, DestUpdate DEF DestResnap, DstStages
  <2>2. folder' \in [Edges -> [Services -> SUBSET Images]]
    <3>1. folder[d][s] \ {"pre2"} \in SUBSET Images
      BY <1>1, DockerUpdate
    <3> QED  BY <1>1, <1>7, <3>1, DockerUpdate DEF DestResnap
  <2> QED  BY <1>7, <2>1, <2>2 DEF DestResnap, TypeOK
<1>8. CASE DestResnapDone(d)
  <2>1. dst' \in [Edges -> Tasks(DstStages)]
    BY <1>1, <1>8, DestUpdate DEF DestResnapDone
  <2>2. PICK ok : folder' = Put(folder, d, s, Snap(folder[d][s], "pre2", ok))
    BY <1>8 DEF DestResnapDone
  <2>3. folder' \in [Edges -> [Services -> SUBSET Images]]
    BY <1>1, <2>2, SnapUpdate
  <2> QED  BY <1>8, <2>1, <2>3 DEF DestResnapDone, TypeOK
<1> QED  BY <1>2, <1>3, <1>4, <1>5, <1>6, <1>7, <1>8, ZenonT(60)

(* A lost datagram.                                                        *)
LEMMA TypeLose ==
  ASSUME TypeOK, NEW e \in Edges, NEW d \in Edges, NEW i \in DOMAIN net[e][d],
         Lose(e, d, i)
  PROVE  TypeOK'
<1> USE DEF vars, dockerVars, edgeVars, srcVars, dstVars, centreVars
<1>1. net[e][d] \in Seq(Datagrams) /\ i \in 1 .. Len(net[e][d])
  BY NetUpdate, LenProperties
<1>2. SubSeq(net[e][d], 1, i - 1) \o SubSeq(net[e][d], i + 1, Len(net[e][d]))
        \in Seq(Datagrams)
  BY <1>1, Removal
<1>3. net' \in [Edges -> [Edges -> Seq(Datagrams)]]
  BY <1>2, NetUpdate DEF Lose
<1> QED  BY <1>3 DEF Lose, TypeOK

(* All steps together.                                                     *)
LEMMA TypeStep ==
  ASSUME TypeOK, [Next]_vars
  PROVE  TypeOK'
<1>1. CASE UNCHANGED vars
  BY <1>1 DEF TypeOK, vars, dockerVars, edgeVars, srcVars, dstVars, centreVars
<1>2. CASE Next
  BY <1>2, TypeCentre, TypeNotice, TypeMeasuring, TypePrepare, TypeMigrate,
     TypeReceive, TypeRestore, TypeLose DEF Next, SourceStep, DestStep
<1> QED  BY <1>1, <1>2

(* Every variable keeps its type, whatever fails and whoever leaves.       *)
THEOREM TypeCorrect == Spec => []TypeOK
<1>1. Init => TypeOK
  BY TypeInit
<1>2. TypeOK /\ [Next]_vars => TypeOK'
  BY TypeStep
<1> QED  BY <1>1, <1>2, PTL DEF Spec

-----------------------------------------------------------------------------
(* The invariant.                                                          *)

(* What a step leaves of the part of the state that Inductive(s) is about: *)
(* batons may get lost, but none appears, moves or is announced, and the   *)
(* service runs where it did.                                              *)
QueueKept(s) ==
  \A e \in Edges :
    /\ HasMove(queue'[e], s) => HasMove(queue[e], s)
    /\ SingleMove(queue[e], s) => SingleMove(queue'[e], s)
    /\ \A d : MovesTo(queue[e], s, d) => MovesTo(queue'[e], s, d)

NetKept(s) ==
  \A e, d \in Edges :
    /\ HasMove(net'[e][d], s) => HasMove(net[e][d], s)
    /\ SingleMove(net[e][d], s) => SingleMove(net'[e][d], s)

SourceKept(s) ==
  \A e \in Edges :
    /\ HaltedAt(e, s)' => HaltedAt(e, s) /\ src'[e].dst = src[e].dst
    /\ LeavingAt(e, s)' => LeavingAt(e, s)

DestKept(s) ==
  \A d \in Edges :
    /\ UnpackingAt(d, s)' => UnpackingAt(d, s)
    /\ StartingAt(d, s)' => StartingAt(d, s)

RunsKept(s) == \A e \in Edges : Running(e, s)' <=> Running(e, s)
ListKept(s) == \A e \in Edges : Entered(e, s)' >= Entered(e, s)

CentreKept(s) ==
  /\ host'[s] = host[s] /\ plan'[s] = plan[s]
  /\ \A n : n.kind = "migrated" /\ n.svc = s =>
       (n \in notices' <=> n \in notices)

(* The number of entries is a number.                                      *)
LEMMA EntryCount ==
  ASSUME TypeOK, NEW s \in Services, NEW e \in Edges
  PROVE  /\ Len(entries[e][s]) \in Nat /\ Entered(e, s) \in Nat
         /\ entries[e][s] = <<>> => Len(entries[e][s]) = 0
<1>1. entries[e][s] \in Seq(0 .. RequestCap)
  BY EdgeUpdate
<1>2. Len(entries[e][s]) \in Nat
  BY <1>1, LenProperties
<1>3. entries[e][s] = <<>> => Len(entries[e][s]) = 0
  BY EmptySeq
<1> QED  BY <1>2, <1>3 DEF Entered

(* Unchanged variables leave their part of it.                             *)
LEMMA Unchanged ==
  ASSUME TypeOK, NEW s \in Services
  PROVE  /\ queue' = queue => QueueKept(s)
         /\ net' = net => NetKept(s)
         /\ src' = src => SourceKept(s)
         /\ dst' = dst => DestKept(s)
         /\ container' = container => RunsKept(s)
         /\ entries' = entries /\ dst' = dst => ListKept(s)
         /\ host' = host /\ plan' = plan /\ notices' = notices => CentreKept(s)
<1>1. entries' = entries /\ dst' = dst => ListKept(s)
  <2>1. \A e \in Edges : Entered(e, s) \in Nat
    BY EntryCount
  <2> QED  BY <2>1 DEF ListKept, Entered, ListingAt
<1>2. container' = container => \A e \in Edges : Running(e, s)' <=> Running(e, s)
  BY DEF Running
<1>3. src' = src => \A e \in Edges : (HaltedAt(e, s)' <=> HaltedAt(e, s))
                                   /\ (LeavingAt(e, s)' <=> LeavingAt(e, s))
  BY DEF HaltedAt, LeavingAt
<1>4. dst' = dst => \A e \in Edges : (UnpackingAt(e, s)' <=> UnpackingAt(e, s))
                                   /\ (StartingAt(e, s)' <=> StartingAt(e, s))
  BY DEF UnpackingAt, StartingAt
<1> QED
  BY <1>1, <1>2, <1>3, <1>4
     DEF QueueKept, NetKept, SourceKept, DestKept, RunsKept, CentreKept

(* A step that leaves all parts keeps the invariant of s; of its last      *)
(* conjunct only when no entry goes.                                       *)
LEMMA Frame ==
  ASSUME TypeOK, TypeOK', NEW s \in Services, Inductive(s),
         QueueKept(s), NetKept(s), SourceKept(s), DestKept(s), RunsKept(s),
         CentreKept(s)
  PROVE  /\ PlanOK(s)' /\ Placed(s)' /\ OneBaton(s)' /\ Runs(s)'
         /\ ListKept(s) => Inductive(s)'
<1>1. PlanOK(s)'
  BY DEF Inductive, PlanOK, CentreKept
<1>2. /\ Ordered(s)' => Ordered(s)
      /\ Halted(s)' => Halted(s)
      /\ Sent(s)' => Sent(s)
      /\ Unpacking(s)' => Unpacking(s)
      /\ Starting(s)' => Starting(s)
      /\ Announced(s)' <=> Announced(s)
      /\ Moving(s)' <=> Moving(s)
  <2>1. Ordered(s)' => Ordered(s)
    BY DEF QueueKept, Ordered
  <2>2. Halted(s)' => Halted(s)
    BY DEF SourceKept, Halted
  <2>3. Sent(s)' => Sent(s)
    BY DEF NetKept, Sent
  <2>4. (Unpacking(s)' => Unpacking(s)) /\ (Starting(s)' => Starting(s))
    BY DEF DestKept, Unpacking, Starting
  <2>5. (Announced(s)' <=> Announced(s)) /\ (Moving(s)' <=> Moving(s))
    BY DEF CentreKept, Announced, Moving
  <2> QED  BY <2>1, <2>2, <2>3, <2>4, <2>5
<1>3. Placed(s)'
  <2>1. \A e \in Edges : HasMove(queue'[e], s) => Moving(s)' /\ e = host'[s]
    BY <1>2 DEF Inductive, Placed, QueueKept, CentreKept
  <2>2. \A e \in Edges : MovesTo(queue'[e], s, plan'[s].dst)
    BY DEF Inductive, Placed, QueueKept, CentreKept
  <2>3. \A e \in Edges : HaltedAt(e, s)' =>
          Moving(s)' /\ e = host'[s] /\ src'[e].dst = plan'[s].dst
    BY <1>2 DEF Inductive, Placed, SourceKept, CentreKept
  <2>4. \A e, d \in Edges : HasMove(net'[e][d], s) =>
          Moving(s)' /\ e = host'[s] /\ d = plan'[s].dst
    BY <1>2 DEF Inductive, Placed, NetKept, CentreKept
  <2>5. \A d \in Edges : UnpackingAt(d, s)' \/ StartingAt(d, s)' =>
          Moving(s)' /\ d = plan'[s].dst
    BY <1>2 DEF Inductive, Placed, DestKept, CentreKept
  <2>6. \A n \in notices' : n.kind = "migrated" /\ n.svc = s =>
          Moving(s)' /\ n.edge = plan'[s].dst
    BY <1>2 DEF Inductive, Placed, CentreKept
  <2> QED  BY <2>1, <2>2, <2>3, <2>4, <2>5, <2>6 DEF Placed
<1>4. OneBaton(s)'
  <2>1. /\ \A e \in Edges : SingleMove(queue'[e], s)
        /\ \A e, d \in Edges : SingleMove(net'[e][d], s)
    BY DEF Inductive, OneBaton, QueueKept, NetKept
  <2> QED  BY <1>2, <2>1 DEF Inductive, OneBaton
<1>5. Runs(s)'
  BY <1>2 DEF Inductive, Runs, RunsKept, CentreKept
<1>6. ASSUME ListKept(s) PROVE Listed(s)'
  <2>1. \A e \in Edges : Entered(e, s) \in Nat /\ Entered(e, s)' \in Nat
    <3>1. \A e \in Edges : Len(entries'[e][s]) \in Nat
      <4>1. \A e \in Edges : entries'[e][s] \in Seq(0 .. RequestCap)
        BY DEF TypeOK
      <4> QED  BY <4>1, LenProperties
    <3> QED  BY <3>1, EntryCount DEF Entered
  <2> SUFFICES ASSUME NEW e \in Edges
               PROVE  LET runs == Running(e, s)' /\ (e = host'[s] \/ Announced(s)')
                      IN /\ runs \/ LeavingAt(e, s)' => Entered(e, s)' >= 1
                         /\ runs /\ LeavingAt(e, s)' => Entered(e, s)' >= 2
    BY DEF Listed
  <2>2. /\ Running(e, s)' <=> Running(e, s)
        /\ LeavingAt(e, s)' => LeavingAt(e, s)
        /\ host'[s] = host[s] /\ (Announced(s)' <=> Announced(s))
        /\ Entered(e, s)' >= Entered(e, s)
    BY <1>2, <1>6 DEF RunsKept, SourceKept, CentreKept, ListKept
  <2> QED  BY <2>1, <2>2 DEF Inductive, Listed
<1> QED  BY <1>1, <1>3, <1>4, <1>5, <1>6 DEF Inductive

(* Taking the head of a sequence, or adding to it, and the moves in it.    *)
LEMMA MoveTail ==
  ASSUME NEW S, NEW q \in Seq(S), q # <<>>, NEW s
  PROVE  /\ HasMove(Tail(q), s) => HasMove(q, s)
         /\ SingleMove(q, s) => SingleMove(Tail(q), s)
         /\ \A d : MovesTo(q, s, d) => MovesTo(Tail(q), s, d)
         /\ IsMove(Head(q), s) => HasMove(q, s)
         /\ IsMove(Head(q), s) /\ SingleMove(q, s) => ~HasMove(Tail(q), s)
         /\ \A d : IsMove(Head(q), s) /\ MovesTo(q, s, d) => Head(q).dst = d
<1>1. /\ Len(q) \in Nat /\ DOMAIN q = 1 .. Len(q) /\ 1 \in DOMAIN q
      /\ Head(q) = q[1]
      /\ DOMAIN Tail(q) = 1 .. Len(q) - 1
      /\ \A i \in DOMAIN Tail(q) : i + 1 \in DOMAIN q /\ Tail(q)[i] = q[i + 1]
                                   /\ i + 1 # 1
  <2>1. Len(q) \in Nat /\ DOMAIN q = 1 .. Len(q) /\ Len(q) # 0
    BY LenProperties, EmptySeq
  <2>2. /\ Tail(q) \in Seq(S) /\ Len(Tail(q)) = Len(q) - 1
        /\ \A i \in 1 .. Len(Tail(q)) : Tail(q)[i] = q[i + 1]
    BY HeadTailProperties
  <2>3. DOMAIN Tail(q) = 1 .. Len(q) - 1
    BY <2>2, LenProperties
  <2> QED  BY <2>1, <2>2, <2>3
<1>2. \A i, j \in DOMAIN Tail(q) : i + 1 = j + 1 => i = j
  BY <1>1
<1>3. HasMove(Tail(q), s) => HasMove(q, s)
  BY <1>1 DEF HasMove
<1>4. SingleMove(q, s) => SingleMove(Tail(q), s)
  BY <1>1, <1>2 DEF SingleMove
<1>5. \A d : MovesTo(q, s, d) => MovesTo(Tail(q), s, d)
  BY <1>1 DEF MovesTo
<1>6. IsMove(Head(q), s) => HasMove(q, s)
  BY <1>1 DEF HasMove
<1>7. IsMove(Head(q), s) /\ SingleMove(q, s) => ~HasMove(Tail(q), s)
  BY <1>1 DEF HasMove, SingleMove
<1>8. \A d : IsMove(Head(q), s) /\ MovesTo(q, s, d) => Head(q).dst = d
  BY <1>1 DEF MovesTo
<1> QED  BY <1>3, <1>4, <1>5, <1>6, <1>7, <1>8

(* ... of a concatenation,                                                 *)
LEMMA MoveConcat ==
  ASSUME NEW S, NEW q \in Seq(S), NEW t \in Seq(S), NEW s
  PROVE  /\ HasMove(q \o t, s) => HasMove(q, s) \/ HasMove(t, s)
         /\ \A d : MovesTo(q, s, d) /\ MovesTo(t, s, d) => MovesTo(q \o t, s, d)
         /\ SingleMove(q, s) /\ SingleMove(t, s)
              /\ ~(HasMove(q, s) /\ HasMove(t, s)) => SingleMove(q \o t, s)
<1>1. /\ Len(q) \in Nat /\ Len(t) \in Nat
      /\ DOMAIN q = 1 .. Len(q) /\ DOMAIN t = 1 .. Len(t)
  BY LenProperties
<1>2. /\ DOMAIN (q \o t) = 1 .. Len(q) + Len(t)
      /\ \A i \in DOMAIN (q \o t) :
           \/ i \in DOMAIN q /\ (q \o t)[i] = q[i]
           \/ i \notin DOMAIN q /\ i - Len(q) \in DOMAIN t
              /\ (q \o t)[i] = t[i - Len(q)]
  <2>1. /\ q \o t \in Seq(S) /\ Len(q \o t) = Len(q) + Len(t)
        /\ \A i \in 1 .. Len(q) + Len(t) :
             (q \o t)[i] = IF i <= Len(q) THEN q[i] ELSE t[i - Len(q)]
    BY ConcatProperties
  <2>2. DOMAIN (q \o t) = 1 .. Len(q) + Len(t)
    BY <2>1, LenProperties
  <2>3. \A i \in 1 .. Len(q) + Len(t) :
          IF i <= Len(q) THEN i \in 1 .. Len(q)
          ELSE i \notin 1 .. Len(q) /\ i - Len(q) \in 1 .. Len(t)
    BY <1>1
  <2> QED  BY <1>1, <2>1, <2>2, <2>3
<1>3. \A i, j \in DOMAIN (q \o t) : i - Len(q) = j - Len(q) => i = j
  BY <1>1, <1>2
<1>4. HasMove(q \o t, s) => HasMove(q, s) \/ HasMove(t, s)
  BY <1>2 DEF HasMove
<1>5. \A d : MovesTo(q, s, d) /\ MovesTo(t, s, d) => MovesTo(q \o t, s, d)
  BY <1>2 DEF MovesTo
<1>6. SingleMove(q, s) /\ SingleMove(t, s)
        /\ ~(HasMove(q, s) /\ HasMove(t, s)) => SingleMove(q \o t, s)
  BY <1>2, <1>3 DEF HasMove, SingleMove
<1> QED  BY <1>4, <1>5, <1>6

(* ... of a longer sequence,                                               *)
LEMMA MoveAppend ==
  ASSUME NEW S, NEW q \in Seq(S), NEW m \in S, NEW s
  PROVE  /\ HasMove(Append(q, m), s) => HasMove(q, s) \/ IsMove(m, s)
         /\ SingleMove(q, s) /\ ~(HasMove(q, s) /\ IsMove(m, s)) =>
              SingleMove(Append(q, m), s)
<1>1. /\ Len(q) \in Nat /\ DOMAIN q = 1 .. Len(q)
      /\ DOMAIN Append(q, m) = 1 .. Len(q) + 1
      /\ \A i \in 1 .. Len(q) : Append(q, m)[i] = q[i]
      /\ Append(q, m)[Len(q) + 1] = m
  <2>1. Append(q, m) \in Seq(S) /\ Len(Append(q, m)) = Len(q) + 1
        /\ (\A i \in 1 .. Len(q) : Append(q, m)[i] = q[i])
        /\ Append(q, m)[Len(q) + 1] = m
    BY AppendProperties
  <2> QED  BY <2>1, LenProperties
<1>2. \A i \in DOMAIN Append(q, m) : i \in DOMAIN q \/ i = Len(q) + 1
  BY <1>1
<1> QED  BY <1>1, <1>2 DEF HasMove, SingleMove

(* ... and of a sequence that has lost one element.                        *)
LEMMA MoveRemoval ==
  ASSUME NEW S, NEW q \in Seq(S), NEW i \in 1 .. Len(q), NEW s
  PROVE  LET r == SubSeq(q, 1, i - 1) \o SubSeq(q, i + 1, Len(q))
         IN /\ HasMove(r, s) => HasMove(q, s)
            /\ SingleMove(q, s) => SingleMove(r, s)
<1> DEFINE r == SubSeq(q, 1, i - 1) \o SubSeq(q, i + 1, Len(q))
           at(k) == IF k < i THEN k ELSE k + 1
<1>1. r \in Seq(S) /\ Len(r) = Len(q) - 1
      /\ \A k \in 1 .. Len(r) : r[k] = IF k < i THEN q[k] ELSE q[k + 1]
  BY Removal
<1>2. Len(q) \in Nat /\ DOMAIN q = 1 .. Len(q) /\ DOMAIN r = 1 .. Len(r)
  BY <1>1, LenProperties
<1> HIDE DEF r
<1>3. /\ \A k \in DOMAIN r : at(k) \in DOMAIN q /\ r[k] = q[at(k)]
      /\ \A j, k \in DOMAIN r : at(j) = at(k) => j = k
  BY <1>1, <1>2
<1> HIDE DEF at
<1>4. HasMove(r, s) => HasMove(q, s)
  BY <1>3 DEF HasMove
<1>5. SingleMove(q, s) => SingleMove(r, s)
  BY <1>3 DEF SingleMove
<1> QED  BY <1>4, <1>5 DEF r

(* What updates of one server leave.                                       *)
LEMMA SourceMoves ==
  ASSUME TypeOK, NEW s, NEW e \in Edges, NEW t, src' = [src EXCEPT ![e] = t],
         t.svc = s => t.stage # "stopped"
                      /\ (t.stage = "sent" => LeavingAt(e, s))
  PROVE  SourceKept(s)
<1>1. src \in [Edges -> Tasks(SrcStages)]
  BY DEF TypeOK
<1>2. \A x \in Edges : src'[x] = IF x = e THEN t ELSE src[x]
  BY <1>1
<1>3. \A x \in Edges : HaltedAt(x, s)' => HaltedAt(x, s) /\ src'[x].dst = src[x].dst
  BY <1>2 DEF HaltedAt
<1>4. \A x \in Edges : LeavingAt(x, s)' => LeavingAt(x, s)
  BY <1>2 DEF LeavingAt
<1> QED  BY <1>3, <1>4 DEF SourceKept

(* The source thread rests or dies,                                        *)
LEMMA SourceEnds ==
  ASSUME TypeOK, NEW s \in Services, NEW e \in Edges, SrcRests(e) \/ SrcDies(e)
  PROVE  SourceKept(s)
<1>1. /\ Idle.stage # "stopped" /\ Idle.stage # "sent"
      /\ Dead.stage # "stopped" /\ Dead.stage # "sent"
  BY DEF Idle, Dead
<1>2. CASE SrcRests(e)
  BY <1>1, <1>2, SourceMoves DEF SrcRests
<1>3. CASE SrcDies(e)
  BY <1>1, <1>3, SourceMoves DEF SrcDies
<1> QED  BY <1>2, <1>3

(* ... takes up a command,                                                 *)
LEMMA SourceGoes ==
  ASSUME TypeOK, NEW s \in Services, NEW e \in Edges, NEW stage, NEW c,
         SrcGoes(e, stage, c), c.svc = s => stage \notin {"stopped", "sent"}
  PROVE  SourceKept(s)
<1> DEFINE t == [stage |-> stage, svc |-> c.svc, dst |-> c.dst, req |-> c.req]
<1>1. t.stage = stage /\ t.svc = c.svc
  OBVIOUS
<1>2. src' = [src EXCEPT ![e] = t]
  BY DEF SrcGoes
<1> HIDE DEF t
<1> QED  BY <1>1, <1>2, SourceMoves

(* ... or enters its next stage.                                           *)
LEMMA SourceStages ==
  ASSUME TypeOK, NEW s \in Services, NEW e \in Edges, NEW stage,
         src[e].stage \in SrcStages, src' = [src EXCEPT ![e].stage = stage],
         \/ stage \notin {"stopped", "sent"}
         \/ src[e].svc # s
  PROVE  SourceKept(s)
<1> DEFINE t == [src[e] EXCEPT !.stage = stage]
<1>1. src[e] \in Tasks(SrcStages)
  BY SourceUpdate
<1>2. t.stage = stage /\ t.svc = src[e].svc
  BY <1>1 DEF Tasks, Idle, Dead
<1>3. src' = [src EXCEPT ![e] = t]
  OBVIOUS
<1> HIDE DEF t
<1> QED  BY <1>2, <1>3, SourceMoves

(* The same for the destination thread, as long as it does not list s.     *)
LEMMA DestMoves ==
  ASSUME TypeOK, NEW s \in Services, NEW d \in Edges, NEW t,
         dst' = [dst EXCEPT ![d] = t], entries' = entries, ~ListingAt(d, s),
         t.svc = s /\ t.stage \in {"unpacked", "failed"} => UnpackingAt(d, s),
         t.svc = s /\ t.stage \in {"restored", "started"} => StartingAt(d, s)
  PROVE  DestKept(s) /\ ListKept(s)
<1>1. dst \in [Edges -> Tasks(DstStages)]
  BY DEF TypeOK
<1>2. \A x \in Edges : dst'[x] = IF x = d THEN t ELSE dst[x]
  BY <1>1
<1>3. \A x \in Edges : UnpackingAt(x, s)' => UnpackingAt(x, s)
  BY <1>2 DEF UnpackingAt
<1>4. \A x \in Edges : StartingAt(x, s)' => StartingAt(x, s)
  BY <1>2 DEF StartingAt
<1>5. \A x \in Edges : ListingAt(x, s) => ListingAt(x, s)'
  BY <1>2 DEF ListingAt
<1>6. \A x \in Edges : Len(entries[x][s]) \in Nat
  BY EntryCount
<1>7. ListKept(s)
  BY <1>5, <1>6 DEF ListKept, Entered
<1> QED  BY <1>3, <1>4, <1>7 DEF DestKept

(* It rests or dies,                                                       *)
LEMMA DestEnds ==
  ASSUME TypeOK, NEW s \in Services, NEW d \in Edges, entries' = entries,
         dst[d].stage # "announced", DstRests(d) \/ DstDies(d)
  PROVE  DestKept(s) /\ ListKept(s)
<1>1. Idle.stage = "idle" /\ Dead.stage = "dead"
  BY DEF Idle, Dead
<1>2. ~ListingAt(d, s)
  BY DEF ListingAt
<1>3. CASE DstRests(d)
  BY <1>1, <1>2, <1>3, DestMoves DEF DstRests
<1>4. CASE DstDies(d)
  BY <1>1, <1>2, <1>4, DestMoves DEF DstDies
<1> QED  BY <1>3, <1>4

(* ... takes up a datagram,                                                *)
LEMMA DestGoes ==
  ASSUME TypeOK, NEW s \in Services, NEW d \in Edges, NEW stage, NEW m,
         entries' = entries, dst[d].stage = "idle", DstGoes(d, stage, m),
         stage = "pulled" \/ (stage = "unpacked" /\ m.svc # s)
  PROVE  DestKept(s) /\ ListKept(s)
<1> DEFINE t == [stage |-> stage, svc |-> m.svc, dst |-> d, req |-> m.req]
<1>1. t.stage = stage /\ t.svc = m.svc
  OBVIOUS
<1>2. dst' = [dst EXCEPT ![d] = t] /\ ~ListingAt(d, s)
  BY DEF DstGoes, ListingAt
<1> HIDE DEF t
<1> QED  BY <1>1, <1>2, DestMoves

(* ... or enters its next stage.                                           *)
LEMMA DestStages ==
  ASSUME TypeOK, NEW s \in Services, NEW d \in Edges, NEW stage,
         dst' = [dst EXCEPT ![d].stage = stage], entries' = entries,
         dst[d].stage \in DstStages, ~ListingAt(d, s),
         stage \in {"unpacked", "failed"} /\ dst[d].svc = s => UnpackingAt(d, s),
         stage \in {"restored", "started"} /\ dst[d].svc = s => StartingAt(d, s)
  PROVE  DestKept(s) /\ ListKept(s)
<1> DEFINE t == [dst[d] EXCEPT !.stage = stage]
<1>1. dst[d] \in Tasks(DstStages)
  BY DestUpdate
<1>2. t.stage = stage /\ t.svc = dst[d].svc
  BY <1>1 DEF Tasks, Idle, Dead
<1>3. dst' = [dst EXCEPT ![d] = t]
  OBVIOUS
<1> HIDE DEF t
<1> QED  BY <1>2, <1>3, DestMoves

(* A command taken from a queue loses at most a baton.                     *)
LEMMA QueueTakes ==
  ASSUME TypeOK, NEW s \in Services, NEW e \in Edges, NEW k, Takes(e, k)
  PROVE  QueueKept(s)
<1>1. queue \in [Edges -> Seq(Commands)] /\ queue[e] \in Seq(Commands)
      /\ queue[e] # <<>>
  BY SourceUpdate DEF Takes
<1>2. \A x \in Edges : queue'[x] = IF x = e THEN Tail(queue[e]) ELSE queue[x]
  BY <1>1 DEF Takes
<1> QED  BY <1>1, <1>2, MoveTail DEF QueueKept

(* A datagram taken from the network loses at most a baton.                *)
LEMMA NetReceives ==
  ASSUME TypeOK, NEW s \in Services, NEW e \in Edges, NEW d \in Edges, NEW k,
         Receives(e, d, k)
  PROVE  NetKept(s)
<1>1. net \in [Edges -> [Edges -> Seq(Datagrams)]] /\ net[e][d] \in Seq(Datagrams)
      /\ net[e][d] # <<>>
  BY NetUpdate DEF Receives
<1>2. \A x, y \in Edges :
        net'[x][y] = IF x = e /\ y = d THEN Tail(net[e][d]) ELSE net[x][y]
  BY <1>1 DEF Receives
<1>3. /\ HasMove(Tail(net[e][d]), s) => HasMove(net[e][d], s)
      /\ SingleMove(net[e][d], s) => SingleMove(Tail(net[e][d]), s)
  BY <1>1, MoveTail
<1> QED  BY <1>2, <1>3 DEF NetKept

(* One container changes its state.                                        *)
LEMMA ContainerSet ==
  ASSUME TypeOK, NEW s \in Services, NEW e \in Edges, NEW t \in Services, NEW c,
         container' = [container EXCEPT ![e][t] = c]
  PROVE  /\ \A x \in Edges : Running(x, s)' <=>
              IF x = e /\ t = s THEN c \in RunStates ELSE Running(x, s)
         /\ t # s => RunsKept(s)
         /\ (c \in RunStates <=> Running(e, t)) => RunsKept(s)
<1>1. container \in [Edges -> [Services -> ContainerStates]]
  BY DEF TypeOK
<1>2. \A x \in Edges : Running(x, s)' <=>
        IF x = e /\ t = s THEN c \in RunStates ELSE Running(x, s)
  BY <1>1 DEF Running
<1> QED  BY <1>2 DEF RunsKept

(* One list of entries changes.                                            *)
LEMMA EntriesSet ==
  ASSUME TypeOK, TypeOK', NEW s \in Services, NEW e \in Edges,
         NEW t \in Services, NEW l,
         entries' = [entries EXCEPT ![e][t] = l]
  PROVE  /\ \A x \in Edges :
              entries'[x][s] = IF x = e /\ t = s THEN l ELSE entries[x][s]
         /\ dst' = dst /\ (t # s \/ Len(l) >= Len(entries[e][t])) => ListKept(s)
<1>1. entries \in [Edges -> [Services -> Seq(0 .. RequestCap)]]
  BY DEF TypeOK
<1>2. \A x \in Edges :
        entries'[x][s] = IF x = e /\ t = s THEN l ELSE entries[x][s]
  BY <1>1
<1>3. \A x \in Edges : Len(entries[x][s]) \in Nat
  BY EntryCount
<1>4. ASSUME dst' = dst, t # s \/ Len(l) >= Len(entries[e][t])
      PROVE  ListKept(s)
  <2>1. \A x \in Edges : ListingAt(x, s)' <=> ListingAt(x, s)
    BY <1>4 DEF ListingAt
  <2>2. ASSUME NEW x \in Edges
        PROVE  Len(entries'[x][s]) >= Len(entries[x][s])
    <3>1. CASE x = e /\ t = s
      BY <1>2, <1>4, <3>1
    <3>2. CASE ~(x = e /\ t = s)
      <4>1. entries'[x][s] = entries[x][s]
        BY <1>2, <3>2
      <4> QED  BY <1>3, <4>1
    <3> QED  BY <3>1, <3>2
  <2>3. \A x \in Edges : Len(entries'[x][s]) \in Nat
    <3>1. entries' \in [Edges -> [Services -> Seq(0 .. RequestCap)]]
      BY DEF TypeOK
    <3>2. \A x \in Edges : entries'[x][s] \in Seq(0 .. RequestCap)
      BY <3>1
    <3> QED  BY <3>2, LenProperties
  <2> QED  BY <1>3, <2>1, <2>2, <2>3 DEF ListKept, Entered
<1> QED  BY <1>2, <1>4

(* Steps that leave the baton of every service alone, or lose it.          *)
LEMMA MeasuringStep ==
  ASSUME TypeOK, TypeOK', NEW s \in Services, Inductive(s), NEW e \in Edges,
         PreMeasure(e) \/ Measure(e) \/ MeasureReport(e)
  PROVE  Inductive(s)'
<1> USE DEF dockerVars, edgeVars, srcVars, dstVars, centreVars
<1>1. CASE PreMeasure(e)
  <2>1. SourceKept(s)
    BY <1>1, SourceEnds DEF PreMeasure
  <2>2. QueueKept(s)
    BY <1>1, QueueTakes DEF PreMeasure
  <2>3. NetKept(s) /\ DestKept(s) /\ RunsKept(s) /\ ListKept(s) /\ CentreKept(s)
    BY <1>1, Unchanged DEF PreMeasure
  <2> QED  BY <2>1, <2>2, <2>3, Frame
<1>2. CASE Measure(e)
  <2>1. SourceKept(s)
    <3>1. SrcGoes(e, "measured", Head(queue[e])) \/ SrcDies(e)
      BY <1>2 DEF Measure
    <3> QED  BY <3>1, SourceEnds, SourceGoes
  <2>2. QueueKept(s)
    BY <1>2, QueueTakes DEF Measure
  <2>3. NetKept(s) /\ DestKept(s) /\ RunsKept(s) /\ ListKept(s) /\ CentreKept(s)
    BY <1>2, Unchanged DEF Measure
  <2> QED  BY <2>1, <2>2, <2>3, Frame
<1>3. CASE MeasureReport(e)
  <2>1. SourceKept(s)
    BY <1>3, SourceEnds DEF MeasureReport
  <2>2. QueueKept(s) /\ NetKept(s) /\ DestKept(s) /\ RunsKept(s) /\ ListKept(s)
        /\ CentreKept(s)
    BY <1>3, Unchanged DEF MeasureReport
  <2> QED  BY <2>1, <2>2, Frame
<1> QED  BY <1>1, <1>2, <1>3

(* Handling prepare sends a datagram that is no baton.                     *)
LEMMA PreparingStep ==
  ASSUME TypeOK, TypeOK', NEW s \in Services, Inductive(s), NEW e \in Edges,
         \/ Prepare(e) \/ PrepareCheckpoint(e) \/ PrepareDelta(e)
         \/ PrepareNotify(e)
  PROVE  Inductive(s)'
<1> USE DEF dockerVars, edgeVars, srcVars, dstVars, centreVars
<1>1. CASE Prepare(e)
  <2>1. SourceKept(s)
    <3>1. SrcGoes(e, "preparing", Head(queue[e])) \/ SrcDies(e)
      BY <1>1 DEF Prepare
    <3> QED  BY <3>1, SourceEnds, SourceGoes
  <2>2. QueueKept(s)
    BY <1>1, QueueTakes DEF Prepare
  <2>3. NetKept(s) /\ DestKept(s) /\ RunsKept(s) /\ ListKept(s) /\ CentreKept(s)
    BY <1>1, Unchanged DEF Prepare
  <2> QED  BY <2>1, <2>2, <2>3, Frame
<1>2. CASE PrepareCheckpoint(e)
  <2> DEFINE new == [src EXCEPT ![e].stage = "copied"]
  <2>0. /\ src[e].stage = "preparing" /\ src' = new
        /\ UNCHANGED <<queue, net, dst, container, entries, host, plan, notices>>
    BY <1>2, Zenon DEF PrepareCheckpoint
  <2>1. SourceKept(s)
    BY <2>0, SourceStages DEF SrcStages
  <2>2. QueueKept(s) /\ NetKept(s) /\ DestKept(s) /\ RunsKept(s) /\ ListKept(s)
        /\ CentreKept(s)
    BY <2>0, Unchanged
  <2> QED  BY <2>1, <2>2, Frame, Zenon
<1>3. CASE PrepareDelta(e)
  <2>1. SourceKept(s)
    BY <1>3, SourceStages DEF PrepareDelta, SrcStages
  <2>2. QueueKept(s) /\ NetKept(s) /\ DestKept(s) /\ RunsKept(s) /\ ListKept(s)
        /\ CentreKept(s)
    BY <1>3, Unchanged DEF PrepareDelta
  <2> QED  BY <2>1, <2>2, Frame
<1>4. CASE PrepareNotify(e)
  <2>1. SourceKept(s)
    BY <1>4, SourceEnds DEF PrepareNotify
  <2>2. NetKept(s)
    <3> DEFINE t == src[e].svc
               d == src[e].dst
               m == Datagram("prepare", t, 0)
    <3>1. t \in Services /\ d \in Edges
      BY <1>4, SourceUpdate DEF PrepareNotify, SrcStages
    <3>2. m \in Datagrams /\ ~IsMove(m, s)
      BY <3>1, RequestType DEF Datagram, Datagrams, IsMove
    <3>3. net' = [net EXCEPT ![e][d] = Append(@, m)]
      BY <1>4 DEF PrepareNotify
    <3> HIDE DEF t, d, m
    <3>4. net \in [Edges -> [Edges -> Seq(Datagrams)]]
          /\ net[e][d] \in Seq(Datagrams)
      BY <3>1, NetUpdate
    <3>5. /\ HasMove(Append(net[e][d], m), s) => HasMove(net[e][d], s)
          /\ SingleMove(net[e][d], s) => SingleMove(Append(net[e][d], m), s)
      BY <3>2, <3>4, MoveAppend
    <3>6. \A x, y \in Edges : net'[x][y] =
            IF x = e /\ y = d THEN Append(net[e][d], m) ELSE net[x][y]
      BY <3>1, <3>3, <3>4
    <3> QED  BY <3>5, <3>6 DEF NetKept
  <2>3. CentreKept(s)
    BY <1>4 DEF PrepareNotify, CentreKept, Notice
  <2>4. QueueKept(s) /\ DestKept(s) /\ RunsKept(s) /\ ListKept(s)
    BY <1>4, Unchanged DEF PrepareNotify
  <2> QED  BY <2>1, <2>2, <2>3, <2>4, Frame
<1> QED  BY <1>1, <1>2, <1>3, <1>4

(* A served request triggers measurements and keeps every entry.           *)
LEMMA MonitorStep ==
  ASSUME TypeOK, TypeOK', NEW s \in Services, Inductive(s), NEW e \in Edges,
         NEW t \in Services, MonitorService(e, t)
  PROVE  Inductive(s)'
<1> USE DEF dockerVars, edgeVars, srcVars, dstVars, centreVars
<1>1. QueueKept(s)
  <2>1. /\ queue \in [Edges -> Seq(Commands)] /\ queue[e] \in Seq(Commands)
        /\ entries[e][t] \in Seq(0 .. RequestCap)
    BY SourceUpdate, EdgeUpdate
  <2> DEFINE q == Triggered(e, t)
  <2>2. q \in Seq(Commands) /\ \A i \in 1 .. Len(q) : q[i].cmd # "migrate"
    BY <2>1, TriggeredType
  <2>3. DOMAIN q = 1 .. Len(q)
    BY <2>2, LenProperties
  <2>4. queue' = [queue EXCEPT ![e] = @ \o q]
    BY DEF MonitorService
  <2> HIDE DEF q
  <2>5. ~HasMove(q, s) /\ SingleMove(q, s) /\ \A d : MovesTo(q, s, d)
    BY <2>2, <2>3 DEF HasMove, SingleMove, MovesTo, IsMove
  <2>6. /\ HasMove(queue[e] \o q, s) => HasMove(queue[e], s)
        /\ SingleMove(queue[e], s) => SingleMove(queue[e] \o q, s)
        /\ \A d : MovesTo(queue[e], s, d) => MovesTo(queue[e] \o q, s, d)
    BY <2>1, <2>2, <2>5, MoveConcat
  <2>7. \A x \in Edges : queue'[x] = IF x = e THEN queue[e] \o q ELSE queue[x]
    BY <2>1, <2>4
  <2> QED  BY <2>6, <2>7 DEF QueueKept
<1>2. ListKept(s)
  <2> DEFINE l == [i \in DOMAIN entries[e][t] |-> Bump(entries[e][t][i])]
  <2>1. entries[e][t] \in Seq(0 .. RequestCap)
    BY EdgeUpdate
  <2>2. Len(l) = Len(entries[e][t]) /\ Len(l) \in Nat
    <3> DEFINE n == Len(entries[e][t])
               b(i) == Bump(entries[e][t][i])
               R == 0 .. RequestCap
    <3>1. DOMAIN entries[e][t] = 1 .. n /\ n \in Nat
      BY <2>1, LenProperties
    <3>2. \A i \in 1 .. n : b(i) \in R
      BY <2>1, RequestType, ElementOfSeq
    <3>3. l = [i \in 1 .. n |-> b(i)]
      BY <3>1
    <3> HIDE DEF n, b, R
    <3>4. [i \in 1 .. n |-> b(i)] \in Seq(R)
      BY <3>1, <3>2
    <3>5. Len([i \in 1 .. n |-> b(i)]) = n
      BY <3>1, <3>4, LenProperties
    <3> QED  BY <3>1, <3>3, <3>5 DEF n
  <2>3. entries' = [entries EXCEPT ![e][t] = l]
    BY DEF MonitorService
  <2> HIDE DEF l
  <2>4. Len(l) >= Len(entries[e][t]) /\ dst' = dst
    BY <2>2 DEF MonitorService
  <2> QED  BY <2>3, <2>4, EntriesSet
<1>3. SourceKept(s) /\ NetKept(s) /\ DestKept(s) /\ RunsKept(s) /\ CentreKept(s)
  BY Unchanged DEF MonitorService
<1> QED  BY <1>1, <1>2, <1>3, Frame

(* UDP loses a datagram.                                                   *)
LEMMA LoseStep ==
  ASSUME TypeOK, TypeOK', NEW s \in Services, Inductive(s), NEW e \in Edges,
         NEW d \in Edges, NEW i \in DOMAIN net[e][d], Lose(e, d, i)
  PROVE  Inductive(s)'
<1> USE DEF dockerVars, edgeVars, srcVars, dstVars, centreVars
<1> DEFINE r == SubSeq(net[e][d], 1, i - 1)
                  \o SubSeq(net[e][d], i + 1, Len(net[e][d]))
<1>1. NetKept(s)
  <2>1. net \in [Edges -> [Edges -> Seq(Datagrams)]]
        /\ net[e][d] \in Seq(Datagrams)
    BY NetUpdate
  <2>2. i \in 1 .. Len(net[e][d])
    BY <2>1, LenProperties
  <2>3. /\ HasMove(r, s) => HasMove(net[e][d], s)
        /\ SingleMove(net[e][d], s) => SingleMove(r, s)
    BY <2>1, <2>2, MoveRemoval
  <2>4. net' = [net EXCEPT ![e][d] = r]
    BY DEF Lose
  <2> HIDE DEF r
  <2>5. \A x, y \in Edges : net'[x][y] = IF x = e /\ y = d THEN r ELSE net[x][y]
    BY <2>1, <2>4
  <2> QED  BY <2>3, <2>5 DEF NetKept
<1>2. QueueKept(s) /\ SourceKept(s) /\ DestKept(s) /\ RunsKept(s) /\ ListKept(s)
      /\ CentreKept(s)
  BY Unchanged DEF Lose
<1> QED  BY <1>1, <1>2, Frame

(* A sequence without a move has a single one, to anywhere.                *)
LEMMA NoMove ==
  ASSUME NEW q, NEW s, ~HasMove(q, s)
  PROVE  SingleMove(q, s) /\ \A d : MovesTo(q, s, d)
BY DEF HasMove, SingleMove, MovesTo

(* The source takes the baton: the container is halted.                    *)
LEMMA StopStep ==
  ASSUME TypeOK, TypeOK', NEW s \in Services, s \notin disturbed', Inductive(s),
         NEW e \in Edges, MigrateStop(e)
  PROVE  Inductive(s)'
<1> USE DEF dockerVars, edgeVars, srcVars, dstVars, centreVars
<1> DEFINE c == Head(queue[e])
<1>1. c \in Commands /\ queue[e] \in Seq(Commands) /\ queue[e] # <<>>
      /\ c.cmd = "migrate" /\ Takes(e, "migrate")
  BY SourceUpdate DEF MigrateStop, Takes
<1>2. c.svc \in Services
  BY <1>1 DEF Commands
<1>3. QueueKept(s)
  BY <1>1, QueueTakes
<1>4. NetKept(s) /\ DestKept(s) /\ ListKept(s) /\ CentreKept(s)
  BY Unchanged DEF MigrateStop
<1>5. CASE SrcDies(e) /\ UNCHANGED container
  <2>1. SourceKept(s) /\ RunsKept(s)
    BY <1>5, SourceEnds, Unchanged
  <2> QED  BY <1>3, <1>4, <2>1, Frame
<1>6. CASE ~(SrcDies(e) /\ UNCHANGED container)
  <2>1. PICK ok \in CheckpointOK(e, c.svc) :
          /\ container' = IF ok THEN [container EXCEPT ![e][c.svc] =
                                        Stopped(container[e][c.svc])]
                                ELSE container
          /\ Disturb(c.svc, ~ok)
    BY <1>6 DEF MigrateStop
  <2>2. SrcGoes(e, "stopped", c)
    BY <1>6 DEF MigrateStop
  <2>3. CASE c.svc # s
    <3>1. SourceKept(s)
      BY <2>2, <2>3, SourceGoes
    <3>2. RunsKept(s)
      <4>1. CASE ok
        <5> DEFINE k == Stopped(container[e][c.svc])
        <5>1. container' = [container EXCEPT ![e][c.svc] = k]
          BY <2>1, <4>1
        <5> HIDE DEF c, k
        <5> QED  BY <1>2, <2>3, <5>1, ContainerSet
      <4>2. CASE ~ok
        BY <2>1, <4>2, Unchanged
      <4> QED  BY <4>1, <4>2
    <3> QED  BY <1>3, <1>4, <3>1, <3>2, Frame
  <2>4. CASE c.svc = s
    <3>1. HasMove(queue[e], s) /\ IsMove(c, s)
      BY <1>1, <2>4, MoveTail DEF IsMove
    <3>2. /\ Moving(s) /\ e = host[s] /\ c.dst = plan[s].dst
          /\ SingleMove(queue[e], s)
          /\ ~Halted(s) /\ ~Sent(s) /\ ~Unpacking(s) /\ ~Starting(s)
          /\ ~Announced(s) /\ Ordered(s)
      <4>1. Placed(s) /\ OneBaton(s) /\ Ordered(s)
        BY <3>1 DEF Inductive, Ordered
      <4>2. MovesTo(queue[e], s, plan[s].dst) /\ SingleMove(queue[e], s)
        BY <4>1 DEF Placed, OneBaton
      <4>3. c.dst = plan[s].dst
        BY <1>1, <3>1, <4>2, MoveTail
      <4> QED  BY <3>1, <4>1, <4>2, <4>3 DEF Placed, OneBaton
    <3>3. e # plan[s].dst /\ host[s] \in Edges
      BY <3>2 DEF Inductive, PlanOK, Moving
    <3>4. ok /\ Running(e, s)
      BY <2>1, <2>4 DEF Disturb, CheckpointOK
    <3>5. \A x \in Edges : ~HasMove(queue'[x], s)
      <4>1. queue \in [Edges -> Seq(Commands)]
        BY SourceUpdate
      <4>2. \A x \in Edges :
              queue'[x] = IF x = e THEN Tail(queue[e]) ELSE queue[x]
        BY <1>1, <4>1 DEF Takes
      <4>3. ~HasMove(Tail(queue[e]), s)
        BY <1>1, <3>1, <3>2, MoveTail
      <4>4. \A x \in Edges : HasMove(queue[x], s) => x = e
        BY <3>2 DEF Inductive, Placed
      <4> QED  BY <4>2, <4>3, <4>4
    <3>6. /\ \A x \in Edges : HaltedAt(x, s)' <=> x = e
          /\ \A x \in Edges : LeavingAt(x, s)' => LeavingAt(x, s) \/ x = e
          /\ src'[e].dst = c.dst
      <4>1. src \in [Edges -> Tasks(SrcStages)]
        BY SourceUpdate
      <4>2. \A x \in Edges : x # e => src'[x] = src[x]
        BY <2>2, <4>1 DEF SrcGoes
      <4>3. /\ src'[e].stage = "stopped" /\ src'[e].svc = s
            /\ src'[e].dst = c.dst
        BY <2>2, <2>4, <4>1 DEF SrcGoes
      <4> QED  BY <3>2, <4>2, <4>3 DEF HaltedAt, LeavingAt, Halted
    <3>7. \A x \in Edges : Running(x, s)' <=> Running(x, s) /\ x # e
      <4>1. Stopped(container[e][s]) \notin RunStates
        BY DEF Stopped, RunStates
      <4>2. container' = [container EXCEPT ![e][s] = Stopped(container[e][s])]
        BY <2>1, <2>4, <3>4
      <4> QED  BY <3>4, <4>1, <4>2, ContainerSet
    <3>8. /\ UNCHANGED <<host, plan, notices, net, dst, entries>>
          /\ Moving(s)' /\ Halted(s)' /\ ~Ordered(s)' /\ ~Sent(s)'
          /\ ~Unpacking(s)' /\ ~Starting(s)' /\ ~Announced(s)'
      <4>1. UNCHANGED <<host, plan, notices, net, dst, entries>>
        BY DEF MigrateStop
      <4>2. Halted(s)' /\ ~Ordered(s)'
        BY <3>5, <3>6 DEF Halted, Ordered
      <4>3. Moving(s)'
        BY <3>2, <4>1 DEF Moving
      <4>4. ~Sent(s)' /\ ~Unpacking(s)' /\ ~Starting(s)' /\ ~Announced(s)'
        BY <3>2, <4>1 DEF Sent, Unpacking, Starting, Announced,
           UnpackingAt, StartingAt
      <4> QED  BY <4>1, <4>2, <4>3, <4>4
    <3>9. PlanOK(s)'
      BY <3>8 DEF Inductive, PlanOK
    <3>10. Placed(s)'
      <4>1. \A x \in Edges : ~HasMove(queue'[x], s) /\ MovesTo(queue'[x], s, plan'[s].dst)
        BY <3>5, NoMove
      <4>2. \A x, y \in Edges : ~HasMove(net'[x][y], s)
        BY <3>8 DEF Sent
      <4>3. \A x \in Edges : ~UnpackingAt(x, s)' /\ ~StartingAt(x, s)'
        BY <3>8 DEF Unpacking, Starting
      <4>4. \A n \in notices' : ~(n.kind = "migrated" /\ n.svc = s)
        BY <3>8 DEF Announced
      <4>5. \A x \in Edges : HaltedAt(x, s)' =>
              Moving(s)' /\ x = host'[s] /\ src'[x].dst = plan'[s].dst
        BY <3>2, <3>6, <3>8
      <4> QED  BY <4>1, <4>2, <4>3, <4>4, <4>5 DEF Placed
    <3>11. OneBaton(s)'
      <4>1. \A x \in Edges : SingleMove(queue'[x], s)
        BY <3>5, NoMove
      <4>2. \A x, y \in Edges : SingleMove(net'[x][y], s)
        BY <3>8 DEF Inductive, OneBaton
      <4> QED  BY <3>8, <4>1, <4>2 DEF OneBaton
    <3>12. Runs(s)'
      <4>1. \A x \in Edges : x = plan[s].dst => ~Running(x, s)
        BY <3>2 DEF Inductive, Runs
      <4>2. \A x \in Edges : Running(x, s) => x \in {host[s], plan[s].dst}
        BY <3>2 DEF Inductive, Runs
      <4> QED  BY <3>2, <3>3, <3>7, <3>8, <4>1, <4>2 DEF Runs
    <3>13. Listed(s)'
      <4>1. \A x \in Edges : Entered(x, s)' = Entered(x, s)
        BY <3>8 DEF Entered, ListingAt
      <4>2. Announced(s)' <=> Announced(s)
        BY <3>2, <3>8
      <4> QED  BY <3>2, <3>4, <3>6, <3>7, <3>8, <4>1, <4>2 DEF Inductive, Listed
    <3> QED  BY <3>9, <3>10, <3>11, <3>12, <3>13 DEF Inductive
  <2> QED  BY <2>3, <2>4
<1> QED  BY <1>5, <1>6

(* The source hands the baton to the network, or loses it.                 *)
LEMMA SendStep ==
  ASSUME TypeOK, TypeOK', NEW s \in Services, Inductive(s),
         NEW e \in Edges, MigrateSend(e)
  PROVE  Inductive(s)'
<1> USE DEF dockerVars, edgeVars, srcVars, dstVars, centreVars
<1> DEFINE t == src[e].svc
           d == src[e].dst
           m == Datagram("migrate", t, src[e].req)
<1>1. /\ src[e].stage = "stopped" /\ src[e].stage \in SrcStages
      /\ t \in Services /\ d \in Edges /\ m \in Datagrams
      /\ (IsMove(m, s) <=> t = s)
  <2>1. src[e].stage = "stopped" /\ src[e].stage \in SrcStages
    BY DEF MigrateSend, SrcStages
  <2>2. t \in Services /\ d \in Edges /\ src[e].req \in 0 .. RequestCap
    BY <2>1, SourceUpdate, SMTT(30)
  <2> QED  BY <2>1, <2>2, SMTT(30) DEF Datagram, Datagrams, IsMove
<1>2. QueueKept(s) /\ DestKept(s) /\ RunsKept(s) /\ ListKept(s) /\ CentreKept(s)
  BY Unchanged DEF MigrateSend
<1>3. CASE SrcDies(e) /\ UNCHANGED net
  <2>1. SourceKept(s) /\ NetKept(s)
    BY <1>3, SourceEnds, Unchanged
  <2> QED  BY <1>2, <2>1, Frame
<1>4. CASE ~(SrcDies(e) /\ UNCHANGED net)
  <2>1. /\ net' = [net EXCEPT ![e][d] = Append(net[e][d], m)]
        /\ src' = [src EXCEPT ![e].stage = "sent"]
    BY <1>4 DEF MigrateSend
  <2>2. net \in [Edges -> [Edges -> Seq(Datagrams)]]
        /\ net[e][d] \in Seq(Datagrams)
    BY <1>1, NetUpdate
  <2> HIDE DEF t, d, m
  <2>3. \A x, y \in Edges : net'[x][y] =
          IF x = e /\ y = d THEN Append(net[e][d], m) ELSE net[x][y]
    BY <1>1, <2>1, <2>2
  <2>4. CASE t # s
    <3>1. SourceKept(s)
      BY <1>1, <2>1, <2>4, SourceStages DEF t
    <3>2. NetKept(s)
      <4>1. /\ HasMove(Append(net[e][d], m), s) => HasMove(net[e][d], s)
            /\ SingleMove(net[e][d], s) => SingleMove(Append(net[e][d], m), s)
        BY <1>1, <2>2, <2>4, MoveAppend
      <4> QED  BY <2>3, <4>1 DEF NetKept
    <3> QED  BY <1>2, <3>1, <3>2, Frame
  <2>5. CASE t = s
    <3>1. HaltedAt(e, s)
      BY <1>1, <2>5 DEF HaltedAt, t
    <3>2. /\ Moving(s) /\ e = host[s] /\ d = plan[s].dst
          /\ ~Ordered(s) /\ ~Sent(s) /\ ~Unpacking(s) /\ ~Starting(s)
          /\ ~Announced(s)
      <4>1. Placed(s) /\ OneBaton(s) /\ Halted(s)
        BY <3>1 DEF Inductive, Halted
      <4> QED  BY <3>1, <4>1 DEF Placed, OneBaton, d
    <3>3. \A x \in Edges : HaltedAt(x, s) => x = e
      BY <3>2 DEF Inductive, Placed
    <3>4. /\ \A x, y \in Edges : HasMove(net'[x][y], s) => x = e /\ y = d
          /\ \A x, y \in Edges : SingleMove(net'[x][y], s)
      <4>1. \A x, y \in Edges : ~HasMove(net[x][y], s)
        BY <3>2 DEF Sent
      <4>2. SingleMove(Append(net[e][d], m), s)
        BY <1>1, <2>2, <4>1, NoMove, MoveAppend
      <4> QED  BY <2>3, <4>1, <4>2, NoMove
    <3>5. /\ \A x \in Edges : ~HaltedAt(x, s)'
          /\ \A x \in Edges : LeavingAt(x, s)' <=> LeavingAt(x, s)
      <4>1. src \in [Edges -> Tasks(SrcStages)] /\ src[e] \in Tasks(SrcStages)
        BY SourceUpdate
      <4>2. \A x \in Edges : x # e => src'[x] = src[x]
        BY <2>1, <4>1
      <4>3. src'[e].stage = "sent" /\ src'[e].svc = src[e].svc
        BY <2>1, <4>1 DEF Tasks, Idle, Dead
      <4> QED  BY <1>1, <3>3, <4>2, <4>3 DEF HaltedAt, LeavingAt
    <3>6. /\ UNCHANGED <<host, plan, notices, queue, dst, entries, container>>
          /\ Moving(s)' /\ ~Halted(s)' /\ ~Ordered(s)'
          /\ ~Unpacking(s)' /\ ~Starting(s)' /\ ~Announced(s)'
      <4>1. UNCHANGED <<host, plan, notices, queue, dst, entries, container>>
        BY <1>4 DEF MigrateSend
      <4>2. ~Halted(s)'
        BY <3>5 DEF Halted
      <4>3. Moving(s)'
        BY <3>2, <4>1 DEF Moving
      <4>4. ~Ordered(s)' /\ ~Unpacking(s)' /\ ~Starting(s)' /\ ~Announced(s)'
        BY <3>2, <4>1 DEF Ordered, Unpacking, Starting, Announced,
           UnpackingAt, StartingAt
      <4> QED  BY <4>1, <4>2, <4>3, <4>4, SMTT(30)
    <3>7. PlanOK(s)'
      BY <3>6 DEF Inductive, PlanOK
    <3>8. Placed(s)'
      <4>1. \A x \in Edges : ~HasMove(queue'[x], s)
                             /\ MovesTo(queue'[x], s, plan'[s].dst)
        BY <3>6, NoMove DEF Ordered
      <4>2. \A x, y \in Edges : HasMove(net'[x][y], s) =>
              Moving(s)' /\ x = host'[s] /\ y = plan'[s].dst
        BY <3>2, <3>4, <3>6
      <4>3. \A x \in Edges : ~UnpackingAt(x, s)' /\ ~StartingAt(x, s)'
        BY <3>6 DEF Unpacking, Starting
      <4>4. \A n \in notices' : ~(n.kind = "migrated" /\ n.svc = s)
        BY <3>6 DEF Announced
      <4> QED  BY <3>5, <4>1, <4>2, <4>3, <4>4 DEF Placed
    <3>9. OneBaton(s)'
      <4>1. \A x \in Edges : SingleMove(queue'[x], s)
        BY <3>6, NoMove DEF Ordered
      <4> QED  BY <3>4, <3>6, <4>1 DEF OneBaton
    <3>10. Runs(s)'
      <4>1. \A x \in Edges : Running(x, s)' <=> Running(x, s)
        BY <1>2 DEF RunsKept
      <4>2. Halted(s)
        BY <3>1 DEF Halted
      <4>3. \A x \in Edges : ~Running(x, s)
        BY <3>2, <4>2 DEF Inductive, Runs
      <4> QED  BY <3>2, <3>6, <4>1, <4>3 DEF Runs
    <3>11. Listed(s)'
      <4>1. \A x \in Edges : Entered(x, s)' = Entered(x, s)
        BY <3>6 DEF Entered, ListingAt
      <4>2. \A x \in Edges : Running(x, s)' <=> Running(x, s)
        BY <1>2 DEF RunsKept
      <4> QED  BY <3>2, <3>5, <3>6, <4>1, <4>2 DEF Inductive, Listed
    <3> QED  BY <3>7, <3>8, <3>9, <3>10, <3>11 DEF Inductive
  <2> QED  BY <2>4, <2>5, ZenonT(60)
<1> QED  BY <1>3, <1>4

(* The source drops the entry of the service it has sent.                  *)
LEMMA FinishStep ==
  ASSUME TypeOK, TypeOK', NEW s \in Services, Inductive(s),
         NEW e \in Edges, MigrateFinish(e)
  PROVE  Inductive(s)'
<1> USE DEF dockerVars, edgeVars, srcVars, dstVars, centreVars
<1> DEFINE t == src[e].svc
<1>1. src[e].stage = "sent" /\ t \in Services
  BY SourceUpdate DEF MigrateFinish, SrcStages
<1>2. SourceKept(s)
  BY <1>1, SourceStages DEF MigrateFinish, SrcStages
<1>3. QueueKept(s) /\ NetKept(s) /\ DestKept(s) /\ RunsKept(s) /\ CentreKept(s)
  BY Unchanged DEF MigrateFinish
<1>4. PlanOK(s)' /\ Placed(s)' /\ OneBaton(s)' /\ Runs(s)'
  BY <1>2, <1>3, Frame
<1>5. Listed(s)'
  <2> DEFINE l == IF entries[e][t] = <<>> THEN entries[e][t] ELSE Tail(entries[e][t])
  <2>1. \A x \in Edges : entries'[x][s] = IF x = e /\ t = s THEN l ELSE entries[x][s]
    <3>1. entries' = [entries EXCEPT ![e][t] = l]
      BY DEF MigrateFinish, RemoveEntry
    <3>2. entries \in [Edges -> [Services -> Seq(0 .. RequestCap)]]
      BY EdgeUpdate
    <3> HIDE DEF l, t
    <3> QED  BY <1>1, <3>1, <3>2
  <2>2. Len(l) \in Nat /\ Len(entries[e][t]) \in Nat
        /\ Len(entries[e][t]) <= Len(l) + 1
    <3>1. entries[e][t] \in Seq(0 .. RequestCap)
      BY <1>1, EdgeUpdate
    <3> DEFINE q == entries[e][t]
    <3>2. Len(q) \in Nat /\ (q # <<>> => Len(Tail(q)) = Len(q) - 1)
          /\ (q = <<>> => Len(q) = 0) /\ (q # <<>> => Len(Tail(q)) \in Nat)
      BY <3>1, LenProperties, HeadTailProperties, EmptySeq
    <3>3. (q # <<>> => l = Tail(q)) /\ (q = <<>> => l = q)
      OBVIOUS
    <3> HIDE DEF q, l
    <3>4. Len(l) \in Nat /\ Len(q) \in Nat /\ Len(q) <= Len(l) + 1
      BY <3>2, <3>3
    <3> QED  BY <3>4 DEF q
  <2> HIDE DEF l
  <2>3. t = s => LeavingAt(e, s)
    BY <1>1 DEF LeavingAt
  <2>4. ~LeavingAt(e, s)'
    <3>1. src \in [Edges -> Tasks(SrcStages)] /\ src[e] \in Tasks(SrcStages)
      BY SourceUpdate
    <3>2. src'[e].stage = "dropped"
      BY <3>1 DEF MigrateFinish, Tasks, Idle, Dead
    <3> QED  BY <3>2 DEF LeavingAt
  <2>5. /\ \A x \in Edges : /\ Running(x, s)' <=> Running(x, s)
                            /\ LeavingAt(x, s)' => LeavingAt(x, s)
                            /\ ListingAt(x, s)' <=> ListingAt(x, s)
        /\ host'[s] = host[s] /\ (Announced(s)' <=> Announced(s))
    BY <1>2, <1>3 DEF RunsKept, SourceKept, MigrateFinish, ListingAt, Announced
  <2>6. \A x \in Edges : Len(entries[x][s]) \in Nat
    BY EntryCount
  <2>7. \A x \in Edges : /\ Entered(x, s) \in Nat /\ Entered(x, s)' \in Nat
                         /\ Entered(x, s) <= Entered(x, s)' + 1
                         /\ ~(x = e /\ t = s) => Entered(x, s)' = Entered(x, s)
    <3> TAKE x \in Edges
    <3>1. CASE x = e /\ t = s
      <4>1. entries'[x][s] = l
        BY <2>1, <3>1
      <4> QED  BY <2>2, <2>5, <3>1, <4>1 DEF Entered
    <3>2. CASE ~(x = e /\ t = s)
      <4>1. entries'[x][s] = entries[x][s]
        BY <2>1, <3>2
      <4> QED  BY <2>5, <2>6, <3>2, <4>1 DEF Entered
    <3> QED  BY <3>1, <3>2
  <2> SUFFICES ASSUME NEW x \in Edges
               PROVE  LET runs == Running(x, s)' /\ (x = host'[s] \/ Announced(s)')
                      IN /\ runs \/ LeavingAt(x, s)' => Entered(x, s)' >= 1
                         /\ runs /\ LeavingAt(x, s)' => Entered(x, s)' >= 2
    BY DEF Listed
  <2> DEFINE runs == Running(x, s) /\ (x = host[s] \/ Announced(s))
  <2>8. /\ runs \/ LeavingAt(x, s) => Entered(x, s) >= 1
        /\ runs /\ LeavingAt(x, s) => Entered(x, s) >= 2
    BY DEF Inductive, Listed
  <2>9. Running(x, s)' /\ (x = host'[s] \/ Announced(s)') <=> runs
    BY <2>5
  <2> HIDE DEF runs
  <2>10. CASE x = e /\ t = s
    BY <2>3, <2>4, <2>7, <2>8, <2>9, <2>10
  <2>11. CASE ~(x = e /\ t = s)
    BY <2>5, <2>7, <2>8, <2>9, <2>11
  <2> QED  BY <2>10, <2>11
<1> QED  BY <1>4, <1>5 DEF Inductive

(* It removes the folder.                                                  *)
LEMMA CleanupStep ==
  ASSUME TypeOK, TypeOK', NEW s \in Services, Inductive(s),
         NEW e \in Edges, MigrateCleanup(e)
  PROVE  Inductive(s)'
<1> USE DEF dockerVars, edgeVars, srcVars, dstVars, centreVars
<1>1. SourceKept(s)
  BY SourceEnds DEF MigrateCleanup
<1>2. QueueKept(s) /\ NetKept(s) /\ DestKept(s) /\ RunsKept(s) /\ ListKept(s)
      /\ CentreKept(s)
  BY Unchanged DEF MigrateCleanup
<1> QED  BY <1>1, <1>2, Frame

(* Steps of the destination thread that leave the baton alone.             *)
LEMMA DestQuietStep ==
  ASSUME TypeOK, TypeOK', NEW s \in Services, s \notin disturbed', Inductive(s),
         NEW d \in Edges,
         \/ \E e \in Edges : DestPrepare(e, d)
         \/ DestCreate(d) \/ DestResnap(d) \/ DestResnapDone(d)
  PROVE  Inductive(s)'
<1> USE DEF dockerVars, edgeVars, srcVars, dstVars, centreVars
<1>1. ASSUME NEW e \in Edges, DestPrepare(e, d) PROVE Inductive(s)'
  <2>1. dst[d].stage = "idle" /\ entries' = entries
    BY <1>1, Zenon DEF DestPrepare, Receives
  <2>2. DestKept(s) /\ ListKept(s)
    <3>1. DstGoes(d, "pulled", Head(net[e][d])) \/ DstDies(d)
      BY <1>1, Zenon DEF DestPrepare
    <3> QED  BY <2>1, <3>1, DestEnds, DestGoes, Zenon
  <2>3. NetKept(s)
    BY <1>1, NetReceives, Zenon DEF DestPrepare
  <2>4. QueueKept(s) /\ SourceKept(s) /\ RunsKept(s) /\ CentreKept(s)
    BY <1>1, Unchanged, Zenon DEF DestPrepare
  <2> QED  BY <2>2, <2>3, <2>4, Frame, Zenon
<1>2. CASE DestCreate(d)
  <2> DEFINE t == dst[d].svc
  <2>1. dst[d].stage = "pulled" /\ t \in Services
    BY <1>2, DestUpdate DEF DestCreate, DstStages
  <2>2. DestKept(s) /\ ListKept(s)
    BY <1>2, <2>1, DestEnds DEF DestCreate
  <2>3. RunsKept(s)
    <3>1. container' = [container EXCEPT ![d][t] = "created"]
          /\ Disturb(t, Running(d, t))
      BY <1>2 DEF DestCreate
    <3>2. "created" \notin RunStates
      BY DEF RunStates
    <3> HIDE DEF t
    <3>3. t = s => ~Running(d, t)
      BY <3>1 DEF Disturb
    <3> QED  BY <2>1, <3>1, <3>2, <3>3, ContainerSet
  <2>4. QueueKept(s) /\ SourceKept(s) /\ NetKept(s) /\ CentreKept(s)
    BY <1>2, Unchanged DEF DestCreate
  <2> QED  BY <2>2, <2>3, <2>4, Frame
<1>3. CASE DestResnap(d)
  <2>1. DestKept(s) /\ ListKept(s)
    BY <1>3, DestStages DEF DestResnap, DstStages, ListingAt
  <2>2. QueueKept(s) /\ SourceKept(s) /\ NetKept(s) /\ RunsKept(s)
        /\ CentreKept(s)
    BY <1>3, Unchanged DEF DestResnap
  <2> QED  BY <2>1, <2>2, Frame
<1>4. CASE DestResnapDone(d)
  <2>1. DestKept(s) /\ ListKept(s)
    BY <1>4, DestEnds DEF DestResnapDone
  <2>2. QueueKept(s) /\ SourceKept(s) /\ NetKept(s) /\ RunsKept(s)
        /\ CentreKept(s)
    BY <1>4, Unchanged DEF DestResnapDone
  <2> QED  BY <2>1, <2>2, Frame
<1> QED  BY <1>1, <1>2, <1>3, <1>4

(* The destination takes the baton from the network.                       *)
LEMMA UnpackStep ==
  ASSUME TypeOK, TypeOK', NEW s \in Services, Inductive(s),
         NEW e \in Edges, NEW d \in Edges, DestUnpack(e, d)
  PROVE  Inductive(s)'
<1> USE DEF dockerVars, edgeVars, srcVars, dstVars, centreVars
<1> DEFINE m == Head(net[e][d])
<1>1. /\ m \in Datagrams /\ net[e][d] \in Seq(Datagrams) /\ net[e][d] # <<>>
      /\ m.cmd = "migrate" /\ Receives(e, d, "migrate") /\ dst[d].stage = "idle"
  BY NetUpdate, Zenon DEF DestUnpack, Receives
<1>2. NetKept(s)
  BY <1>1, NetReceives, Zenon
<1>3. QueueKept(s) /\ SourceKept(s) /\ RunsKept(s) /\ CentreKept(s)
      /\ entries' = entries
  BY Unchanged, Zenon DEF DestUnpack
<1>4. ~StartingAt(d, s) /\ ~ListingAt(d, s)
  BY <1>1 DEF StartingAt, ListingAt
<1>5. CASE DstDies(d)
  <2>1. DestKept(s) /\ ListKept(s)
    BY <1>1, <1>3, <1>5, DestEnds
  <2> QED  BY <1>2, <1>3, <2>1, Frame
<1>6. CASE DstGoes(d, "unpacked", m) /\ m.svc # s
  <2>1. DestKept(s) /\ ListKept(s)
    BY <1>1, <1>3, <1>6, DestGoes
  <2> QED  BY <1>2, <1>3, <2>1, Frame
<1>7. CASE DstGoes(d, "unpacked", m) /\ m.svc = s
  <2>1. HasMove(net[e][d], s) /\ IsMove(m, s)
    BY <1>1, <1>7, MoveTail DEF IsMove
  <2>2. /\ Moving(s) /\ e = host[s] /\ d = plan[s].dst
        /\ SingleMove(net[e][d], s)
        /\ ~Ordered(s) /\ ~Halted(s) /\ ~Unpacking(s) /\ ~Starting(s)
        /\ ~Announced(s)
    <3>1. Placed(s) /\ OneBaton(s) /\ Sent(s)
      BY <2>1 DEF Inductive, Sent
    <3> QED  BY <2>1, <3>1 DEF Placed, OneBaton
  <2>3. \A x, y \in Edges : ~HasMove(net'[x][y], s)
    <3>1. net \in [Edges -> [Edges -> Seq(Datagrams)]]
      BY NetUpdate
    <3>2. \A x, y \in Edges : net'[x][y] =
            IF x = e /\ y = d THEN Tail(net[e][d]) ELSE net[x][y]
      BY <1>1, <3>1 DEF Receives
    <3>3. ~HasMove(Tail(net[e][d]), s)
      BY <1>1, <2>1, <2>2, MoveTail
    <3>4. \A x, y \in Edges : HasMove(net[x][y], s) => x = e /\ y = d
      BY <2>2 DEF Inductive, Placed
    <3> QED  BY <3>2, <3>3, <3>4
  <2>4. /\ \A x \in Edges : UnpackingAt(x, s)' <=> x = d
        /\ \A x \in Edges : StartingAt(x, s)' <=> StartingAt(x, s)
        /\ \A x \in Edges : ListingAt(x, s)' <=> ListingAt(x, s)
    <3>1. dst \in [Edges -> Tasks(DstStages)]
      BY DestUpdate
    <3>2. \A x \in Edges : x # d => dst'[x] = dst[x]
      BY <1>7, <3>1 DEF DstGoes
    <3>3. dst'[d].stage = "unpacked" /\ dst'[d].svc = s
      BY <1>7, <3>1 DEF DstGoes
    <3>4. \A x \in Edges : UnpackingAt(x, s)' <=> x = d
      BY <2>2, <3>2, <3>3 DEF UnpackingAt, Unpacking
    <3>5. \A x \in Edges : /\ StartingAt(x, s)' <=> StartingAt(x, s)
                           /\ ListingAt(x, s)' <=> ListingAt(x, s)
      BY <1>4, <3>2, <3>3 DEF StartingAt, ListingAt
    <3> QED  BY <3>4, <3>5
  <2>5. /\ UNCHANGED <<host, plan, notices, queue, src, entries, container>>
        /\ Moving(s)' /\ ~Ordered(s)' /\ ~Halted(s)' /\ ~Sent(s)'
        /\ ~Starting(s)' /\ ~Announced(s)' /\ Unpacking(s)'
    <3>1. UNCHANGED <<host, plan, notices, queue, src, entries, container>>
      BY Zenon DEF DestUnpack
    <3>2. ~Sent(s)' /\ ~Starting(s)' /\ Unpacking(s)'
      BY <2>2, <2>3, <2>4 DEF Sent, Starting, Unpacking
    <3>3. Moving(s)'
      BY <2>2, <3>1 DEF Moving
    <3>4. ~Ordered(s)' /\ ~Halted(s)' /\ ~Announced(s)'
      BY <2>2, <3>1 DEF Ordered, Halted, HaltedAt, Announced
    <3> QED  BY <3>1, <3>2, <3>3, <3>4, Zenon
  <2>6. PlanOK(s)'
    BY <2>5 DEF Inductive, PlanOK
  <2>7. Placed(s)'
    <3>1. \A x \in Edges : ~HasMove(queue'[x], s)
                           /\ MovesTo(queue'[x], s, plan'[s].dst)
      BY <2>5, NoMove DEF Ordered
    <3>2. \A x \in Edges : UnpackingAt(x, s)' \/ StartingAt(x, s)' =>
            Moving(s)' /\ x = plan'[s].dst
      BY <2>2, <2>4, <2>5 DEF Starting
    <3>3. \A x \in Edges : ~HaltedAt(x, s)'
      BY <2>5 DEF Halted
    <3>4. \A n \in notices' : ~(n.kind = "migrated" /\ n.svc = s)
      BY <2>5 DEF Announced
    <3> QED  BY <2>3, <3>1, <3>2, <3>3, <3>4 DEF Placed
  <2>8. OneBaton(s)'
    <3>1. /\ \A x \in Edges : SingleMove(queue'[x], s)
          /\ \A x, y \in Edges : SingleMove(net'[x][y], s)
      BY <2>3, <2>5, NoMove DEF Ordered
    <3> QED  BY <2>5, <3>1 DEF OneBaton
  <2>9. Runs(s)'
    <3>1. \A x \in Edges : Running(x, s)' <=> Running(x, s)
      BY <1>3 DEF RunsKept
    <3>2. Sent(s)
      BY <2>1 DEF Sent
    <3>3. \A x \in Edges : ~Running(x, s)
      BY <2>2, <3>2 DEF Inductive, Runs
    <3> QED  BY <2>5, <3>1, <3>3 DEF Runs
  <2>10. Listed(s)'
    <3>1. \A x \in Edges : /\ Running(x, s)' <=> Running(x, s)
                           /\ LeavingAt(x, s)' <=> LeavingAt(x, s)
      BY <1>3, <2>5 DEF RunsKept, LeavingAt
    <3>2. \A x \in Edges : Entered(x, s)' = Entered(x, s)
      BY <1>3, <2>4, Zenon DEF Entered
    <3> QED  BY <2>2, <2>5, <3>1, <3>2 DEF Inductive, Listed
  <2> QED  BY <2>6, <2>7, <2>8, <2>9, <2>10 DEF Inductive
<1>8. DstDies(d) \/ DstGoes(d, "unpacked", m)
  BY Zenon DEF DestUnpack
<1> QED  BY <1>5, <1>6, <1>7, <1>8, Zenon

(* The destination starts the container, from its checkpoint or its image. *)
LEMMA StartBaton ==
  ASSUME TypeOK, TypeOK', NEW s \in Services, Inductive(s), NEW d \in Edges,
         NEW stage \in {"restored", "started"}, NEW c \in RunStates,
         UnpackingAt(d, s), dst' = [dst EXCEPT ![d].stage = stage],
         container' = [container EXCEPT ![d][s] = c],
         UNCHANGED <<host, plan, notices, queue, src, net, entries>>
  PROVE  Inductive(s)'
<1>1. /\ Moving(s) /\ d = plan[s].dst /\ d # host[s] /\ host[s] \in Edges
      /\ ~Ordered(s) /\ ~Halted(s) /\ ~Sent(s) /\ ~Starting(s)
      /\ ~Announced(s) /\ Unpacking(s)
  <2>1. Placed(s) /\ OneBaton(s) /\ Unpacking(s) /\ PlanOK(s)
    BY DEF Inductive, Unpacking
  <2> QED  BY <2>1 DEF Placed, OneBaton, PlanOK, Moving
<1>2. \A x \in Edges : UnpackingAt(x, s) => x = d
  BY <1>1 DEF Inductive, Placed
<1>3. /\ \A x \in Edges : ~UnpackingAt(x, s)'
      /\ \A x \in Edges : StartingAt(x, s)' <=> x = d
      /\ \A x \in Edges : ListingAt(x, s)' <=> ListingAt(x, s)
  <2>1. dst \in [Edges -> Tasks(DstStages)] /\ dst[d] \in Tasks(DstStages)
    BY DestUpdate
  <2>2. \A x \in Edges : x # d => dst'[x] = dst[x]
    BY <2>1
  <2>3. dst'[d].stage = stage /\ dst'[d].svc = s
    BY <2>1 DEF UnpackingAt, Tasks, Idle, Dead
  <2>4. \A x \in Edges : ~UnpackingAt(x, s)'
    BY <1>2, <2>2, <2>3 DEF UnpackingAt
  <2>5. \A x \in Edges : StartingAt(x, s)' <=> x = d
    BY <1>1, <2>2, <2>3 DEF StartingAt, Starting
  <2>6. \A x \in Edges : ListingAt(x, s)' <=> ListingAt(x, s)
    BY <2>2, <2>3 DEF ListingAt, UnpackingAt
  <2> QED  BY <2>4, <2>5, <2>6
<1>4. \A x \in Edges : Running(x, s)' <=> x = d \/ Running(x, s)
  BY ContainerSet
<1>5. /\ Moving(s)' /\ ~Ordered(s)' /\ ~Halted(s)' /\ ~Sent(s)'
      /\ Starting(s)' /\ ~Announced(s)' /\ ~Unpacking(s)'
  <2>1. Starting(s)' /\ ~Unpacking(s)'
    BY <1>3 DEF Starting, Unpacking
  <2>2. Moving(s)'
    BY <1>1 DEF Moving
  <2>3. ~Ordered(s)' /\ ~Halted(s)' /\ ~Announced(s)' /\ ~Sent(s)'
    BY <1>1 DEF Ordered, Halted, HaltedAt, Announced, Sent
  <2> QED  BY <2>1, <2>2, <2>3
<1>6. PlanOK(s)'
  BY DEF Inductive, PlanOK
<1>7. Placed(s)'
  <2>1. \A x \in Edges : ~HasMove(queue'[x], s)
                         /\ MovesTo(queue'[x], s, plan'[s].dst)
    BY <1>5, NoMove DEF Ordered
  <2>2. \A x, y \in Edges : ~HasMove(net'[x][y], s)
    BY <1>5 DEF Sent
  <2>3. \A x \in Edges : UnpackingAt(x, s)' \/ StartingAt(x, s)' =>
          Moving(s)' /\ x = plan'[s].dst
    BY <1>1, <1>3, <1>5
  <2>4. \A x \in Edges : ~HaltedAt(x, s)'
    BY <1>5 DEF Halted
  <2>5. \A n \in notices' : ~(n.kind = "migrated" /\ n.svc = s)
    BY <1>5 DEF Announced
  <2> QED  BY <2>1, <2>2, <2>3, <2>4, <2>5 DEF Placed
<1>8. OneBaton(s)'
  <2>1. /\ \A x \in Edges : SingleMove(queue'[x], s)
        /\ \A x, y \in Edges : SingleMove(net'[x][y], s)
    BY <1>5, NoMove DEF Ordered, Sent
  <2> QED  BY <1>5, <2>1 DEF OneBaton
<1>9. \A x \in Edges : ~Running(x, s)
  BY <1>1 DEF Inductive, Runs
<1>10. Runs(s)'
  BY <1>1, <1>4, <1>5, <1>9 DEF Runs
<1>11. Listed(s)'
  <2>1. \A x \in Edges : LeavingAt(x, s)' <=> LeavingAt(x, s)
    BY DEF LeavingAt
  <2>2. \A x \in Edges : Entered(x, s)' = Entered(x, s)
    BY <1>3 DEF Entered
  <2>3. \A x \in Edges : ~(Running(x, s)' /\ (x = host'[s] \/ Announced(s)'))
    BY <1>1, <1>4, <1>5, <1>9
  <2>4. \A x \in Edges : LeavingAt(x, s) => Entered(x, s) >= 1
    BY DEF Inductive, Listed
  <2> QED  BY <2>1, <2>2, <2>3, <2>4 DEF Listed
<1> QED  BY <1>6, <1>7, <1>8, <1>10, <1>11 DEF Inductive

(* docker_restore succeeds or fails.                                       *)
LEMMA RestoreStep ==
  ASSUME TypeOK, TypeOK', NEW s \in Services, Inductive(s),
         NEW d \in Edges, DestRestore(d)
  PROVE  Inductive(s)'
<1> USE DEF dockerVars, edgeVars, srcVars, dstVars, centreVars
<1> DEFINE t == dst[d].svc
<1>1. /\ dst[d].stage = "unpacked" /\ dst[d].stage \in DstStages /\ t \in Services
      /\ UNCHANGED <<host, plan, notices, queue, src, net, entries>>
      /\ ~ListingAt(d, s) /\ (t = s => UnpackingAt(d, s))
  BY DestUpdate DEF DestRestore, DstStages, ListingAt, UnpackingAt
<1>2. QueueKept(s) /\ NetKept(s) /\ SourceKept(s) /\ CentreKept(s)
  BY <1>1, Unchanged
<1>3. CASE /\ container' = container
           /\ dst' = [dst EXCEPT ![d].stage = "failed"]
  <2>1. DestKept(s) /\ ListKept(s)
    BY <1>1, <1>3, DestStages
  <2>2. RunsKept(s)
    BY <1>3, Unchanged
  <2> QED  BY <1>2, <2>1, <2>2, Frame
<1>4. CASE /\ container' = [container EXCEPT ![d][t] = "restored"]
           /\ dst' = [dst EXCEPT ![d].stage = "restored"]
  <2>1. CASE t # s
    <3>1. DestKept(s) /\ ListKept(s)
      BY <1>1, <1>4, <2>1, DestStages
    <3>2. RunsKept(s)
      <4> HIDE DEF t
      <4> QED  BY <1>1, <1>4, <2>1, ContainerSet
    <3> QED  BY <1>2, <3>1, <3>2, Frame
  <2>2. CASE t = s
    <3>1. "restored" \in RunStates
      BY DEF RunStates
    <3> QED  BY <1>1, <1>4, <2>2, <3>1, StartBaton
  <2> QED  BY <2>1, <2>2
<1> QED  BY <1>3, <1>4 DEF DestRestore

(* A failed restore is followed by a plain start, a successful one by      *)
(* nothing.                                                                *)
LEMMA StartStep ==
  ASSUME TypeOK, TypeOK', NEW s \in Services, s \notin disturbed', Inductive(s),
         NEW d \in Edges, DestStart(d)
  PROVE  Inductive(s)'
<1> USE DEF dockerVars, edgeVars, srcVars, dstVars, centreVars
<1> DEFINE t == dst[d].svc
<1>1. /\ dst[d].stage \in {"restored", "failed"} /\ dst[d].stage \in DstStages
      /\ t \in Services /\ dst[d].stage # "announced"
      /\ UNCHANGED <<host, plan, notices, queue, src, net, entries>>
      /\ ~ListingAt(d, s)
  BY DestUpdate DEF DestStart, DstStages, ListingAt
<1>2. QueueKept(s) /\ NetKept(s) /\ SourceKept(s) /\ CentreKept(s)
  BY <1>1, Unchanged
<1>3. CASE DstDies(d) /\ UNCHANGED container
  <2>1. DestKept(s) /\ ListKept(s) /\ RunsKept(s)
    BY <1>1, <1>3, DestEnds, Unchanged
  <2> QED  BY <1>2, <2>1, Frame
<1>4. CASE ~(DstDies(d) /\ UNCHANGED container)
  <2>1. dst' = [dst EXCEPT ![d].stage = "started"]
    BY <1>4 DEF DestStart
  <2>2. PICK c : /\ container' = [container EXCEPT ![d][t] = c]
                 /\ Disturb(t, c \notin {"restored", "reset"})
                 /\ dst[d].stage = "restored" => c = container[d][t]
    BY <1>4 DEF DestStart
  <2>3. CASE t # s
    <3>1. DestKept(s) /\ ListKept(s)
      BY <1>1, <2>1, <2>3, DestStages
    <3>2. RunsKept(s)
      <4> HIDE DEF t
      <4> QED  BY <1>1, <2>2, <2>3, ContainerSet
    <3> QED  BY <1>2, <3>1, <3>2, Frame
  <2>4. CASE t = s /\ dst[d].stage = "restored"
    <3>1. DestKept(s) /\ ListKept(s)
      <4>1. StartingAt(d, s)
        BY <2>4 DEF StartingAt
      <4> QED  BY <1>1, <2>1, <4>1, DestStages
    <3>2. RunsKept(s)
      <4>1. container' = [container EXCEPT ![d][s] = container[d][s]]
        BY <2>2, <2>4
      <4>2. container[d][s] \in RunStates <=> Running(d, s)
        BY DEF Running
      <4> QED  BY <4>1, <4>2, ContainerSet
    <3> QED  BY <1>2, <3>1, <3>2, Frame
  <2>5. CASE t = s /\ dst[d].stage = "failed"
    <3>1. c \in RunStates
      BY <2>2, <2>5 DEF Disturb, RunStates
    <3>2. UnpackingAt(d, s)
      BY <2>5 DEF UnpackingAt
    <3>3. container' = [container EXCEPT ![d][s] = c]
      BY <2>2, <2>5
    <3> QED  BY <1>1, <2>1, <3>1, <3>2, <3>3, StartBaton
  <2> QED  BY <1>1, <2>3, <2>4, <2>5
<1> QED  BY <1>3, <1>4

(* The destination announces the service.                                  *)
LEMMA AnnounceStep ==
  ASSUME TypeOK, TypeOK', NEW s \in Services, Inductive(s),
         NEW d \in Edges, DestAnnounce(d)
  PROVE  Inductive(s)'
<1> USE DEF dockerVars, edgeVars, srcVars, dstVars, centreVars
<1> DEFINE t == dst[d].svc
<1>1. dst[d].stage = "started" /\ dst[d].stage \in DstStages /\ t \in Services
      /\ ~ListingAt(d, s)
  BY DestUpdate DEF DestAnnounce, DstStages, ListingAt
<1>2. QueueKept(s) /\ NetKept(s) /\ SourceKept(s) /\ RunsKept(s)
  BY Unchanged DEF DestAnnounce
<1>3. dst' = [dst EXCEPT ![d].stage = "announced"]
      /\ notices' = notices \cup {Notice("migrated", t, d)}
      /\ UNCHANGED <<host, plan, queue, src, net, container, entries>>
  BY DEF DestAnnounce
<1>4. CASE t # s
  <2>1. DestKept(s) /\ ListKept(s)
    BY <1>1, <1>3, <1>4, DestStages
  <2>2. CentreKept(s)
    BY <1>3, <1>4 DEF CentreKept, Notice
  <2> QED  BY <1>2, <2>1, <2>2, Frame
<1>5. CASE t = s
  <2>1. StartingAt(d, s)
    BY <1>1, <1>5 DEF StartingAt
  <2>2. /\ Moving(s) /\ d = plan[s].dst
        /\ ~Ordered(s) /\ ~Halted(s) /\ ~Sent(s) /\ ~Unpacking(s)
        /\ ~Announced(s) /\ Starting(s)
    <3>1. Placed(s) /\ OneBaton(s) /\ Starting(s)
      BY <2>1 DEF Inductive, Starting
    <3> QED  BY <2>1, <3>1 DEF Placed, OneBaton
  <2>3. \A x \in Edges : StartingAt(x, s) => x = d
    BY <2>2 DEF Inductive, Placed
  <2>4. /\ \A x \in Edges : ~UnpackingAt(x, s)' /\ ~StartingAt(x, s)'
        /\ \A x \in Edges : ListingAt(x, s)' <=> x = d \/ ListingAt(x, s)
    <3>1. dst \in [Edges -> Tasks(DstStages)] /\ dst[d] \in Tasks(DstStages)
      BY DestUpdate
    <3>2. \A x \in Edges : x # d => dst'[x] = dst[x]
      BY <1>3, <3>1
    <3>3. dst'[d].stage = "announced" /\ dst'[d].svc = s
      BY <1>3, <1>5, <3>1 DEF Tasks, Idle, Dead
    <3>4. \A x \in Edges : ~UnpackingAt(x, s)' /\ ~StartingAt(x, s)'
      BY <2>2, <2>3, <3>2, <3>3 DEF UnpackingAt, StartingAt, Unpacking
    <3>5. \A x \in Edges : ListingAt(x, s)' <=> x = d \/ ListingAt(x, s)
      BY <3>2, <3>3 DEF ListingAt
    <3> QED  BY <3>4, <3>5
  <2>5. \A n \in notices' : n.kind = "migrated" /\ n.svc = s => n.edge = d
    BY <1>3, <2>2 DEF Announced, Notice
  <2>6. /\ Moving(s)' /\ ~Ordered(s)' /\ ~Halted(s)' /\ ~Sent(s)'
        /\ ~Starting(s)' /\ Announced(s)' /\ ~Unpacking(s)'
    <3>1. ~Starting(s)' /\ ~Unpacking(s)'
      BY <2>4 DEF Starting, Unpacking
    <3>2. Moving(s)'
      BY <1>3, <2>2 DEF Moving
    <3>3. ~Ordered(s)' /\ ~Halted(s)' /\ ~Sent(s)'
      BY <1>3, <2>2 DEF Ordered, Halted, HaltedAt, Sent
    <3>4. Announced(s)'
      <4> DEFINE n == Notice("migrated", t, d)
      <4>1. n \in notices' /\ n.kind = "migrated" /\ n.svc = s
        BY <1>3, <1>5 DEF Notice
      <4> HIDE DEF n
      <4> QED  BY <4>1 DEF Announced
    <3> QED  BY <3>1, <3>2, <3>3, <3>4
  <2>7. PlanOK(s)'
    BY <1>3 DEF Inductive, PlanOK
  <2>8. Placed(s)'
    <3>1. \A x \in Edges : ~HasMove(queue'[x], s)
                           /\ MovesTo(queue'[x], s, plan'[s].dst)
      BY <2>6, NoMove DEF Ordered
    <3>2. \A x, y \in Edges : ~HasMove(net'[x][y], s)
      BY <2>6 DEF Sent
    <3>3. \A x \in Edges : ~HaltedAt(x, s)'
      BY <2>6 DEF Halted
    <3>4. \A n \in notices' : n.kind = "migrated" /\ n.svc = s =>
            Moving(s)' /\ n.edge = plan'[s].dst
      BY <1>3, <2>2, <2>5, <2>6
    <3> QED  BY <2>4, <3>1, <3>2, <3>3, <3>4 DEF Placed
  <2>9. OneBaton(s)'
    <3>1. /\ \A x \in Edges : SingleMove(queue'[x], s)
          /\ \A x, y \in Edges : SingleMove(net'[x][y], s)
      BY <2>6, NoMove DEF Ordered, Sent
    <3> QED  BY <2>6, <3>1 DEF OneBaton
  <2>10. \A x \in Edges : (Running(x, s)' <=> Running(x, s))
                          /\ (Running(x, s) <=> x = d) /\ (x = d => x # host[s])
    <3>1. \A x \in Edges : Running(x, s) => x \in {host[s], plan[s].dst}
      BY <2>2 DEF Inductive, Runs
    <3>2. \A x \in Edges : x = host[s] => ~Running(x, s)
      BY <2>2 DEF Inductive, Runs
    <3>3. \A x \in Edges : x = plan[s].dst => Running(x, s)
      BY <2>2 DEF Inductive, Runs
    <3> QED  BY <1>2, <2>2, <3>1, <3>2, <3>3 DEF RunsKept
  <2>11. Runs(s)'
    BY <1>3, <2>2, <2>6, <2>10 DEF Runs
  <2>12. Listed(s)'
    <3>1. \A x \in Edges : LeavingAt(x, s)' <=> LeavingAt(x, s)
      BY <1>3 DEF LeavingAt
    <3>2. \A x \in Edges : LeavingAt(x, s) => Entered(x, s) >= 1
      BY DEF Inductive, Listed
    <3>3. \A x \in Edges : /\ Entered(x, s) \in Nat
                           /\ Entered(x, s)' = IF x = d THEN Entered(x, s) + 1
                                               ELSE Entered(x, s)
      BY <1>1, <1>3, <2>4, EntryCount DEF Entered
    <3> QED  BY <2>10, <3>1, <3>2, <3>3 DEF Listed
  <2> QED  BY <2>7, <2>8, <2>9, <2>11, <2>12 DEF Inductive
<1> QED  BY <1>4, <1>5

(* ... and lists it.                                                       *)
LEMMA ListStep ==
  ASSUME TypeOK, TypeOK', NEW s \in Services, Inductive(s),
         NEW d \in Edges, DestList(d)
  PROVE  Inductive(s)'
<1> USE DEF dockerVars, edgeVars, srcVars, dstVars, centreVars
<1> DEFINE t == dst[d].svc
           l == Append(entries[d][t], dst[d].req)
<1>1. dst[d].stage = "announced" /\ dst[d].stage \in DstStages /\ t \in Services
      /\ dst[d].req \in 0 .. RequestCap
  BY DestUpdate DEF DestList, DstStages
<1>2. QueueKept(s) /\ NetKept(s) /\ SourceKept(s) /\ RunsKept(s) /\ CentreKept(s)
  BY Unchanged DEF DestList
<1>3. \A x \in Edges : entries'[x][s] = IF x = d /\ t = s THEN l ELSE entries[x][s]
  <2>1. entries' = [entries EXCEPT ![d][t] = l]
    BY DEF DestList, AddEntry
  <2>2. entries \in [Edges -> [Services -> Seq(0 .. RequestCap)]]
    BY EdgeUpdate
  <2> HIDE DEF l, t
  <2> QED  BY <1>1, <2>1, <2>2
<1>4. Len(l) = Len(entries[d][t]) + 1 /\ Len(entries[d][t]) \in Nat
  <2>1. entries[d][t] \in Seq(0 .. RequestCap)
    BY <1>1, EdgeUpdate
  <2> QED  BY <1>1, <2>1, AppendProperties, LenProperties
<1> HIDE DEF l
<1>5. /\ \A x \in Edges : x # d => dst'[x] = dst[x]
      /\ dst'[d].stage = "listed" /\ dst'[d].svc = t
  <2>1. dst \in [Edges -> Tasks(DstStages)] /\ dst[d] \in Tasks(DstStages)
    BY DestUpdate
  <2>2. dst' = [dst EXCEPT ![d].stage = "listed"]
    BY DEF DestList
  <2> QED  BY <2>1, <2>2 DEF Tasks, Idle, Dead
<1>6. DestKept(s)
  <2>1. \A x \in Edges : UnpackingAt(x, s)' => UnpackingAt(x, s)
    BY <1>5 DEF UnpackingAt
  <2>2. \A x \in Edges : StartingAt(x, s)' => StartingAt(x, s)
    BY <1>5 DEF StartingAt
  <2> QED  BY <2>1, <2>2 DEF DestKept
<1>7. ListKept(s)
  <2>1. \A x \in Edges : Len(entries[x][s]) \in Nat
    BY EntryCount
  <2>2. \A x \in Edges : ListingAt(x, s)' <=>
          ListingAt(x, s) /\ ~(x = d /\ t = s)
    BY <1>5 DEF ListingAt
  <2>3. \A x \in Edges : x = d /\ t = s => ListingAt(x, s)
    BY <1>1 DEF ListingAt
  <2> SUFFICES ASSUME NEW x \in Edges
               PROVE  Entered(x, s)' >= Entered(x, s)
    BY DEF ListKept
  <2>4. CASE x = d /\ t = s
    <3>1. Len(entries'[x][s]) = Len(entries[x][s]) + 1
      BY <1>3, <1>4, <2>4
    <3> QED  BY <2>1, <2>2, <2>3, <2>4, <3>1 DEF Entered
  <2>5. CASE ~(x = d /\ t = s)
    <3>1. entries'[x][s] = entries[x][s]
      BY <1>3, <2>5
    <3> QED  BY <2>1, <2>2, <2>5, <3>1 DEF Entered
  <2> QED  BY <2>4, <2>5
<1> QED  BY <1>2, <1>6, <1>7, Frame

(* A service without a final migration has no baton and runs on its host.  *)
LEMMA AtRest ==
  ASSUME TypeOK, NEW s \in Services, Inductive(s), ~Moving(s)
  PROVE  /\ \A e \in Edges : ~HasMove(queue[e], s)
         /\ \A e, d \in Edges : ~HasMove(net[e][d], s)
         /\ \A e \in Edges : ~HaltedAt(e, s) /\ ~UnpackingAt(e, s)
                             /\ ~StartingAt(e, s)
         /\ \A n \in notices : ~(n.kind = "migrated" /\ n.svc = s)
         /\ \A e \in Edges : Running(e, s) <=> e = host[s]
         /\ ~Announced(s)
BY DEF Inductive, Placed, Runs, Announced

(* What makes the next state inductive if it has no final migration of s.  *)
LEMMA Rests ==
  ASSUME NEW s \in Services, ~Moving(s)', PlanOK(s)', Listed(s)',
         \A e \in Edges : ~HasMove(queue'[e], s),
         \A e, d \in Edges : ~HasMove(net'[e][d], s),
         \A e \in Edges : ~HaltedAt(e, s)' /\ ~UnpackingAt(e, s)'
                          /\ ~StartingAt(e, s)',
         \A n \in notices' : ~(n.kind = "migrated" /\ n.svc = s),
         \A e \in Edges : Running(e, s)' <=> e = host'[s]
  PROVE  Inductive(s)'
<1>1. /\ \A e \in Edges : SingleMove(queue'[e], s) /\ MovesTo(queue'[e], s, plan'[s].dst)
      /\ \A e, d \in Edges : SingleMove(net'[e][d], s)
  BY NoMove
<1>2. Placed(s)'
  BY <1>1 DEF Placed
<1>3. OneBaton(s)'
  <2>1. /\ ~Ordered(s)' /\ ~Halted(s)' /\ ~Sent(s)' /\ ~Unpacking(s)'
        /\ ~Starting(s)' /\ ~Announced(s)'
    BY DEF Ordered, Halted, Sent, Unpacking, Starting, Announced
  <2> QED  BY <1>1, <2>1 DEF OneBaton
<1>4. Runs(s)'
  BY DEF Runs
<1> QED  BY <1>2, <1>3, <1>4 DEF Inductive

(* Deployments and departures.                                             *)
LEMMA DeployStep ==
  ASSUME TypeOK, TypeOK', NEW s \in Services, Inductive(s),
         NEW t \in Services, NEW e \in Edges, Deploy(t, e)
  PROVE  Inductive(s)'
<1> USE DEF dockerVars, edgeVars, srcVars, dstVars, centreVars
<1>1. /\ host[t] = NoEdge /\ host' = [host EXCEPT ![t] = e]
      /\ UNCHANGED <<queue, src, net, dst, plan, notices>>
  BY DEF Deploy
<1>2. CASE t # s
  <2>1. QueueKept(s) /\ SourceKept(s) /\ NetKept(s) /\ DestKept(s)
    BY <1>1, Unchanged
  <2>2. CentreKept(s)
    <3>1. host'[s] = host[s]
      BY <1>1, <1>2, CentreUpdate
    <3> QED  BY <1>1, <3>1 DEF CentreKept
  <2>3. RunsKept(s) /\ ListKept(s)
    <3>1. CASE UNCHANGED <<container, edgeVars>>
      BY <1>1, <3>1, Unchanged
    <3>2. CASE /\ container' = [container EXCEPT ![e][t] = "deployed"]
               /\ entries' = AddEntry(e, t, 0)
      <4>1. entries' = [entries EXCEPT ![e][t] = Append(entries[e][t], 0)]
        BY <3>2 DEF AddEntry
      <4>2. ListKept(s)
        <5> DEFINE l == Append(entries[e][t], 0)
        <5>1. entries' = [entries EXCEPT ![e][t] = l]
          BY <4>1
        <5> HIDE DEF l
        <5> QED  BY <1>1, <1>2, <5>1, EntriesSet
      <4>3. RunsKept(s)
        BY <1>2, <3>2, ContainerSet
      <4> QED  BY <4>2, <4>3
    <3> QED  BY <3>1, <3>2 DEF Deploy
  <2> QED  BY <2>1, <2>2, <2>3, Frame
<1>3. CASE t = s
  <2>1. host[s] \notin Edges
    BY <1>1, <1>3, MigrateAssumption
  <2>2. ~Moving(s) /\ plan[s].phase = "idle"
    BY <2>1 DEF Inductive, PlanOK, Moving
  <2>3. \A x \in Edges : ~Running(x, s)
    BY <2>1, <2>2, AtRest
  <2>4. container' = [container EXCEPT ![e][s] = "deployed"]
        /\ entries' = [entries EXCEPT ![e][s] = Append(entries[e][s], 0)]
    BY <1>3, <2>3 DEF Deploy, AddEntry
  <2>5. host'[s] = e
    BY <1>1, <1>3, CentreUpdate
  <2>6. \A x \in Edges : Running(x, s)' <=> x = e
    <3>1. "deployed" \in RunStates
      BY DEF RunStates
    <3> QED  BY <2>3, <2>4, <3>1, ContainerSet
  <2>7. \A x \in Edges : entries'[x][s] =
          IF x = e THEN Append(entries[x][s], 0) ELSE entries[x][s]
    <3>1. entries \in [Edges -> [Services -> Seq(0 .. RequestCap)]]
      BY EdgeUpdate
    <3> QED  BY <2>4, <3>1
  <2>8. \A x \in Edges : /\ Len(entries[x][s]) \in Nat
                         /\ Len(Append(entries[x][s], 0)) = Len(entries[x][s]) + 1
    <3>1. \A x \in Edges : entries[x][s] \in Seq(0 .. RequestCap)
      BY EdgeUpdate
    <3> QED  BY <3>1, RequestType, LenProperties, AppendProperties
  <2>9. ~Moving(s)' /\ PlanOK(s)'
    BY <1>1, <2>2 DEF Moving, PlanOK
  <2>10. Listed(s)'
    <3>1. ASSUME NEW x \in Edges
          PROVE  /\ Running(x, s)' \/ LeavingAt(x, s)' => Entered(x, s)' >= 1
                 /\ Running(x, s)' /\ LeavingAt(x, s)' => Entered(x, s)' >= 2
      <4>1. (LeavingAt(x, s)' <=> LeavingAt(x, s))
            /\ (ListingAt(x, s)' <=> ListingAt(x, s))
        BY <1>1 DEF LeavingAt, ListingAt
      <4>2. (LeavingAt(x, s) => Entered(x, s) >= 1) /\ Entered(x, s) \in Nat
        BY EntryCount DEF Inductive, Listed
      <4>3. CASE x = e
        <5>1. Len(entries'[x][s]) = Len(entries[x][s]) + 1
          BY <2>7, <2>8, <4>3
        <5>2. Entered(x, s)' = Entered(x, s) + 1
          BY <2>8, <4>1, <5>1 DEF Entered
        <5> QED  BY <4>1, <4>2, <5>2
      <4>4. CASE x # e
        <5>1. entries'[x][s] = entries[x][s] /\ ~Running(x, s)'
          BY <2>6, <2>7, <4>4
        <5>2. Entered(x, s)' = Entered(x, s)
          BY <4>1, <5>1 DEF Entered
        <5> QED  BY <4>1, <4>2, <5>1, <5>2
      <4> QED  BY <4>3, <4>4
    <3> QED  BY <3>1 DEF Listed
  <2>11. /\ \A x \in Edges : ~HasMove(queue'[x], s)
         /\ \A x, y \in Edges : ~HasMove(net'[x][y], s)
         /\ \A x \in Edges : ~HaltedAt(x, s)' /\ ~UnpackingAt(x, s)'
                             /\ ~StartingAt(x, s)'
         /\ \A n \in notices' : ~(n.kind = "migrated" /\ n.svc = s)
    BY <1>1, <2>2, AtRest DEF HaltedAt, UnpackingAt, StartingAt
  <2> QED  BY <2>5, <2>6, <2>9, <2>10, <2>11, Rests
<1> QED  BY <1>2, <1>3

(* A failed deployment removes nothing that ran for s.                     *)
LEMMA DeployFailsStep ==
  ASSUME TypeOK, TypeOK', NEW s \in Services, Inductive(s),
         NEW t \in Services, NEW e \in Edges, DeployFails(t, e)
  PROVE  Inductive(s)'
<1> USE DEF dockerVars, edgeVars, srcVars, dstVars, centreVars
<1>1. RunsKept(s)
  <2>1. container' = [container EXCEPT ![e][t] = "none"] /\ "none" \notin RunStates
    BY DEF DeployFails, RunStates
  <2>2. t = s => ~Running(e, t)
    <3>1. ASSUME t = s PROVE ~Running(e, s)
      <4>1. host[s] \notin Edges
        BY <3>1, MigrateAssumption DEF DeployFails
      <4>2. ~Moving(s)
        BY <4>1 DEF Inductive, PlanOK, Moving
      <4> QED  BY <4>1, <4>2, AtRest
    <3> QED  BY <3>1
  <2> QED  BY <2>1, <2>2, ContainerSet
<1>2. QueueKept(s) /\ SourceKept(s) /\ NetKept(s) /\ DestKept(s) /\ ListKept(s)
      /\ CentreKept(s)
  BY Unchanged DEF DeployFails
<1> QED  BY <1>1, <1>2, Frame

(* A user who leaves between migrations takes the service with it.         *)
LEMMA LeaveStep ==
  ASSUME TypeOK, TypeOK', NEW s \in Services, s \notin disturbed', Inductive(s),
         NEW t \in Services, Leave(t)
  PROVE  Inductive(s)'
<1> USE DEF dockerVars, edgeVars, srcVars, dstVars, centreVars
<1> DEFINE e == host[t]
           k == IF container[e][t] \in RunStates THEN "none" ELSE container[e][t]
           l == IF entries[e][t] = <<>> THEN entries[e][t] ELSE Tail(entries[e][t])
<1>1. /\ e \in Edges
      /\ host' = [host EXCEPT ![t] = NoEdge] /\ plan' = [plan EXCEPT ![t] = NoPlan]
      /\ UNCHANGED <<queue, src, net, dst, notices>>
  <2>1. e # NoEdge
        /\ host' = [host EXCEPT ![t] = NoEdge] /\ plan' = [plan EXCEPT ![t] = NoPlan]
        /\ UNCHANGED <<queue, src, net, dst, notices>>
    BY DEF Leave
  <2> QED  BY <2>1, CentreUpdate
<1>2. \/ UNCHANGED <<container, entries>>
      \/ /\ container' = [container EXCEPT ![e][t] = k]
         /\ entries' = [entries EXCEPT ![e][t] = l]
  BY DEF Leave, RemoveEntry
<1>3. k \notin RunStates
  BY DEF RunStates
<1> HIDE DEF k, l
<1>4. CASE t # s
  <2>1. QueueKept(s) /\ SourceKept(s) /\ NetKept(s) /\ DestKept(s)
    BY <1>1, Unchanged
  <2>2. CentreKept(s)
    <3>1. host'[s] = host[s] /\ plan'[s] = plan[s]
      BY <1>1, <1>4, CentreUpdate
    <3> QED  BY <1>1, <3>1 DEF CentreKept
  <2>3. RunsKept(s) /\ ListKept(s)
    <3>1. CASE UNCHANGED <<container, entries>>
      BY <1>1, <3>1, Unchanged
    <3>2. CASE /\ container' = [container EXCEPT ![e][t] = k]
               /\ entries' = [entries EXCEPT ![e][t] = l]
      <4> HIDE DEF e
      <4>1. RunsKept(s)
        BY <1>1, <1>4, <3>2, ContainerSet
      <4>2. ListKept(s)
        BY <1>1, <1>4, <3>2, EntriesSet
      <4> QED  BY <4>1, <4>2
    <3> QED  BY <1>2, <3>1, <3>2
  <2> QED  BY <2>1, <2>2, <2>3, Frame
<1>5. CASE t = s
  <2>1. /\ plan[s].phase = "idle" /\ ~Moving(s)
        /\ \A x \in Edges : ~ListingAt(x, s) /\ ~ListingAt(x, s)'
    <3>1. plan[s].phase = "idle" /\ \A x \in Edges : ~ListingAt(x, s)
      BY <1>5 DEF Leave, Disturb
    <3> QED  BY <1>1, <3>1 DEF Moving, ListingAt
  <2>2. \A x \in Edges : /\ ~HasMove(queue[x], s) /\ ~HaltedAt(x, s)
                         /\ ~UnpackingAt(x, s) /\ ~StartingAt(x, s)
                         /\ (Running(x, s) <=> x = e)
    BY <1>5, <2>1, AtRest
  <2>3. /\ \A x \in Edges : entries[x][s] \in Seq(0 .. RequestCap)
        /\ \A x \in Edges : Len(entries[x][s]) \in Nat
        /\ container \in [Edges -> [Services -> ContainerStates]]
        /\ entries \in [Edges -> [Services -> Seq(0 .. RequestCap)]]
    <3>1. \A x \in Edges : entries[x][s] \in Seq(0 .. RequestCap)
      BY EdgeUpdate
    <3> QED  BY <1>1, <3>1, EdgeUpdate, DockerUpdate, LenProperties
  <2>4. /\ container' = [container EXCEPT ![e][s] = k]
        /\ entries' = [entries EXCEPT ![e][s] = l]
        /\ entries[e][s] # <<>>
        /\ LeavingAt(e, s) => Len(entries[e][s]) >= 2
    <3>1. Running(e, s) /\ e = host[s] /\ ~ListingAt(e, s)
      BY <1>1, <1>5, <2>1, <2>2
    <3>2. /\ Len(entries[e][s]) >= 1
          /\ LeavingAt(e, s) => Len(entries[e][s]) >= 2
      BY <1>1, <3>1 DEF Inductive, Listed, Entered
    <3>3. IsListed(e, s) /\ container[e][s] # "none"
      <4>1. entries[e][s] = <<>> => Len(entries[e][s]) = 0
        BY <1>1, <2>3, EmptySeq
      <4> QED  BY <3>1, <3>2, <4>1 DEF IsListed, Running, RunStates
    <3> QED  BY <1>5, <3>2, <3>3 DEF Leave, IsListed, RemoveEntry, k, l
  <2>5. Len(l) = Len(entries[e][s]) - 1
    <3>1. l = Tail(entries[e][s])
      BY <1>5, <2>4 DEF l
    <3>2. entries[e][s] \in Seq(0 .. RequestCap)
      BY <1>1, <2>3
    <3> QED  BY <2>4, <3>1, <3>2, HeadTailProperties
  <2>6. \A x \in Edges : ~Running(x, s)'
    <3>1. \A x \in Edges : Running(x, s)' <=>
            IF x = e THEN k \in RunStates ELSE Running(x, s)
      <4> HIDE DEF e
      <4> QED  BY <1>1, <2>3, <2>4 DEF Running
    <3> QED  BY <1>3, <2>2, <3>1
  <2>7. host'[s] = NoEdge /\ plan'[s] = NoPlan /\ NoEdge \notin Edges
    BY <1>1, <1>5, CentreUpdate, MigrateAssumption
  <2>8. ~Moving(s)' /\ PlanOK(s)'
    BY <2>7 DEF Moving, PlanOK, NoPlan
  <2>9. Listed(s)'
    <3>1. ASSUME NEW x \in Edges
          PROVE  LeavingAt(x, s)' => Entered(x, s)' >= 1
      <4> SUFFICES LeavingAt(x, s)' => Len(entries'[x][s]) >= 1
        BY <2>1 DEF Entered
      <4>1. LeavingAt(x, s)' => LeavingAt(x, s)
        BY <1>1 DEF LeavingAt
      <4>2. LeavingAt(x, s) => Len(entries[x][s]) >= 1
        BY <2>1 DEF Inductive, Listed, Entered
      <4>3. CASE x = e
        <5>1. entries'[x][s] = l
          BY <1>1, <2>3, <2>4, <4>3
        <5> QED  BY <2>3, <2>4, <2>5, <4>1, <4>3, <5>1
      <4>4. CASE x # e
        <5>1. entries'[x][s] = entries[x][s]
          BY <1>1, <2>3, <2>4, <4>4
        <5> QED  BY <4>1, <4>2, <5>1
      <4> QED  BY <4>3, <4>4
    <3> QED  BY <2>6, <3>1 DEF Listed
  <2>10. /\ \A x \in Edges : ~HasMove(queue'[x], s)
         /\ \A x, y \in Edges : ~HasMove(net'[x][y], s)
         /\ \A x \in Edges : ~HaltedAt(x, s)' /\ ~UnpackingAt(x, s)'
                             /\ ~StartingAt(x, s)'
         /\ \A n \in notices' : ~(n.kind = "migrated" /\ n.svc = s)
    BY <1>1, <2>1, AtRest DEF HaltedAt, UnpackingAt, StartingAt
  <2>11. \A x \in Edges : Running(x, s)' <=> x = host'[s]
    BY <2>6, <2>7
  <2> QED  BY <2>8, <2>9, <2>10, <2>11, Rests
<1> QED  BY <1>4, <1>5

(* What the plan of a service without a final migration may become short   *)
(* of one.                                                                 *)
LEMMA PlanStep ==
  ASSUME TypeOK, TypeOK', NEW s \in Services, Inductive(s), ~Moving(s),
         QueueKept(s), UNCHANGED <<src, net, dst, container, entries, host>>,
         \A n : n.kind = "migrated" => (n \in notices' <=> n \in notices),
         plan'[s].phase # "migrate",
         plan'[s].phase # "idle" => host[s] \in Edges /\ plan'[s].dst # host[s]
  PROVE  Inductive(s)'
<1>1. ~Moving(s)' /\ PlanOK(s)'
  BY DEF Moving, PlanOK
<1>2. Listed(s)'
  <2>1. \A x \in Edges : /\ LeavingAt(x, s)' <=> LeavingAt(x, s)
                         /\ Entered(x, s)' = Entered(x, s)
                         /\ Running(x, s)' <=> Running(x, s)
    BY DEF LeavingAt, Entered, ListingAt, Running
  <2>2. Announced(s)' <=> Announced(s)
    BY DEF Announced
  <2> QED  BY <2>1, <2>2 DEF Inductive, Listed
<1>3. /\ \A x \in Edges : ~HasMove(queue'[x], s)
      /\ \A x, y \in Edges : ~HasMove(net'[x][y], s)
      /\ \A x \in Edges : ~HaltedAt(x, s)' /\ ~UnpackingAt(x, s)'
                          /\ ~StartingAt(x, s)'
      /\ \A n \in notices' : ~(n.kind = "migrated" /\ n.svc = s)
  BY AtRest DEF QueueKept, HaltedAt, UnpackingAt, StartingAt
<1>4. \A x \in Edges : Running(x, s)' <=> x = host'[s]
  BY AtRest DEF Running
<1> QED  BY <1>1, <1>2, <1>3, <1>4, Rests

(* The centre orders the final migration of a service that has none: the   *)
(* baton is in the queue of its host, or has been dropped there.           *)
LEMMA LaunchStep ==
  ASSUME TypeOK, TypeOK', NEW s \in Services, Inductive(s), ~Moving(s),
         UNCHANGED <<src, net, dst, container, entries, host, notices>>,
         host[s] \in Edges, Moving(s)', plan'[s].dst # host[s],
         \A x \in Edges : x # host[s] => queue'[x] = queue[x],
         SingleMove(queue'[host[s]], s),
         MovesTo(queue'[host[s]], s, plan'[s].dst)
  PROVE  Inductive(s)'
<1>1. /\ \A x \in Edges : HasMove(queue'[x], s) => x = host[s]
      /\ \A x \in Edges : SingleMove(queue'[x], s)
                          /\ MovesTo(queue'[x], s, plan'[s].dst)
  <2>1. \A x \in Edges : ~HasMove(queue[x], s)
    BY AtRest
  <2>2. \A x \in Edges : SingleMove(queue[x], s)
                         /\ MovesTo(queue[x], s, plan'[s].dst)
    BY <2>1, NoMove
  <2> QED  BY <2>1, <2>2
<1>2. /\ \A x, y \in Edges : ~HasMove(net'[x][y], s)
      /\ \A x \in Edges : ~HaltedAt(x, s)' /\ ~UnpackingAt(x, s)'
                          /\ ~StartingAt(x, s)'
      /\ \A n \in notices' : ~(n.kind = "migrated" /\ n.svc = s)
  BY AtRest DEF HaltedAt, UnpackingAt, StartingAt
<1>3. \A x \in Edges : Running(x, s)' <=> x = host[s]
  BY AtRest DEF Running
<1>4. /\ ~Halted(s)' /\ ~Sent(s)' /\ ~Unpacking(s)' /\ ~Starting(s)'
      /\ ~Announced(s)'
  BY <1>2 DEF Halted, Sent, Unpacking, Starting, Announced
<1>5. PlanOK(s)'
  BY DEF PlanOK
<1>6. Placed(s)'
  BY <1>1, <1>2 DEF Placed
<1>7. OneBaton(s)'
  <2>1. \A x, y \in Edges : SingleMove(net'[x][y], s)
    BY <1>2, NoMove
  <2> QED  BY <1>1, <1>4, <2>1 DEF OneBaton
<1>8. Runs(s)'
  BY <1>3, <1>4 DEF Runs
<1>9. Listed(s)'
  <2>1. \A x \in Edges : /\ LeavingAt(x, s)' <=> LeavingAt(x, s)
                         /\ Entered(x, s)' = Entered(x, s)
                         /\ Running(x, s)' <=> Running(x, s)
    BY DEF LeavingAt, Entered, ListingAt, Running
  <2> QED  BY <1>4, <2>1 DEF Inductive, Listed
<1> QED  BY <1>5, <1>6, <1>7, <1>8, <1>9 DEF Inductive

(* The commands of an order carry at most one baton, for the ordered       *)
(* service, and it is not lost which server they name.                     *)
LEMMA QueueOrder ==
  ASSUME TypeOK, NEW s \in Services, NEW t \in Services, NEW e \in Edges,
         NEW d \in Edges, NEW cmds \in Seq(Commands), Enqueue(e, t, cmds),
         \A i \in DOMAIN cmds : IsMove(cmds[i], s) => cmds[i].dst = d,
         SingleMove(cmds, s)
  PROVE  /\ \A x \in Edges : x # e => queue'[x] = queue[x]
         /\ ~HasMove(cmds, s) => QueueKept(s)
         /\ ~HasMove(queue[e], s) => SingleMove(queue'[e], s)
                                     /\ MovesTo(queue'[e], s, d)
<1>1. queue \in [Edges -> Seq(Commands)] /\ queue[e] \in Seq(Commands)
  BY SourceUpdate
<1>2. \/ queue' = queue
      \/ queue' = [queue EXCEPT ![e] = queue[e] \o cmds]
  BY DEF Enqueue
<1>3. \A x \in Edges : x # e => queue'[x] = queue[x]
  BY <1>1, <1>2
<1>4. queue'[e] = queue[e] \/ queue'[e] = queue[e] \o cmds
  BY <1>1, <1>2
<1>5. MovesTo(cmds, s, d)
  BY DEF MovesTo
<1>6. ~HasMove(queue[e], s) => SingleMove(queue'[e], s) /\ MovesTo(queue'[e], s, d)
  <2>1. ASSUME ~HasMove(queue[e], s)
        PROVE  /\ SingleMove(queue[e], s) /\ MovesTo(queue[e], s, d)
               /\ SingleMove(queue[e] \o cmds, s)
               /\ MovesTo(queue[e] \o cmds, s, d)
    <3>1. SingleMove(queue[e], s) /\ MovesTo(queue[e], s, d)
      BY <2>1, NoMove
    <3> QED  BY <1>1, <1>5, <2>1, <3>1, MoveConcat
  <2> QED  BY <1>4, <2>1
<1>7. ASSUME ~HasMove(cmds, s) PROVE QueueKept(s)
  <2>1. \A x : MovesTo(cmds, s, x)
    BY <1>7, NoMove
  <2>2. /\ HasMove(queue[e] \o cmds, s) => HasMove(queue[e], s)
        /\ SingleMove(queue[e], s) => SingleMove(queue[e] \o cmds, s)
        /\ \A x : MovesTo(queue[e], s, x) => MovesTo(queue[e] \o cmds, s, x)
    BY <1>1, <1>7, <2>1, MoveConcat
  <2> QED  BY <1>3, <1>4, <2>2 DEF QueueKept
<1> QED  BY <1>3, <1>6, <1>7

(* An order puts no baton into the queue of the host.                      *)
LEMMA OrderStep ==
  ASSUME TypeOK, TypeOK', NEW s \in Services, Inductive(s),
         NEW t \in Services, NEW d \in Edges, Order(t, d)
  PROVE  Inductive(s)'
<1> USE DEF dockerVars, edgeVars, srcVars, dstVars, centreVars
<1> DEFINE e == host[t]
           pre == PrepareCmd(e, t, d)
           one == <<pre>>
<1>1. /\ e \in Edges /\ d # e /\ plan[t].phase = "idle"
      /\ UNCHANGED <<dockerVars, edgeVars, src, net, dst, host, notices>>
  BY CentreUpdate DEF Order
<1>2. pre \in Commands
  BY <1>1, OrderCommandType
<1>3. pre.cmd = "prepare"
  BY DEF PrepareCmd, Command
<1>4. plan \in [Services -> Plans]
  BY CentreUpdate
<1>5. /\ Enqueue(e, t, one)
      /\ \E k \in {"prepare", "prepared"} :
           plan' = [plan EXCEPT ![t] = [phase |-> k, dst |-> d]]
  BY DEF Order
<1> HIDE DEF pre
<1>6. one \in Seq(Commands) /\ \A i \in DOMAIN one : one[i] = pre
  BY <1>2
<1> HIDE DEF one
<1>7. /\ ~HasMove(one, s) /\ SingleMove(one, s)
      /\ \A i \in DOMAIN one : IsMove(one[i], s) => one[i].dst = d
  BY <1>3, <1>6 DEF HasMove, SingleMove, IsMove
<1>8. QueueKept(s)
  <2> HIDE DEF e
  <2> QED  BY <1>1, <1>5, <1>6, <1>7, QueueOrder
<1>9. CASE t # s
  <2>1. plan'[s] = plan[s]
    BY <1>4, <1>5, <1>9
  <2>2. CentreKept(s)
    BY <1>1, <2>1 DEF CentreKept
  <2> QED  BY <1>1, <1>8, <2>2, Unchanged, Frame
<1>10. CASE t = s
  <2>1. plan'[s].phase \in {"prepare", "prepared"} /\ plan'[s].dst = d
    BY <1>4, <1>5, <1>10
  <2>2. ~Moving(s)
    BY <1>1, <1>10 DEF Moving
  <2>3. e = host[s]
    BY <1>10
  <2> HIDE DEF e
  <2> QED  BY <1>1, <1>8, <2>1, <2>2, <2>3, PlanStep
<1> QED  BY <1>9, <1>10

(* The order of the prepared migration puts one there.                     *)
LEMMA OrderMigrateStep ==
  ASSUME TypeOK, TypeOK', NEW s \in Services, Inductive(s),
         NEW t \in Services, OrderMigrate(t)
  PROVE  Inductive(s)'
<1> USE DEF dockerVars, edgeVars, srcVars, dstVars, centreVars
<1> DEFINE e == host[t]
           d == plan[t].dst
           mig == MigrateCmd(e, t, d)
           one == <<mig>>
<1>1. /\ plan[t].phase = "prepared" /\ Enqueue(e, t, one)
      /\ plan' = [plan EXCEPT ![t].phase = "migrate"]
      /\ UNCHANGED <<dockerVars, edgeVars, src, net, dst, host, notices>>
  BY DEF OrderMigrate
<1>2. plan \in [Services -> Plans] /\ plan[t] \in Plans
  BY CentreUpdate
<1>3. d \in Edges
  BY <1>1, <1>2 DEF Plans, NoPlan
<1>4. CASE e \in Edges
  <2>1. mig \in Commands
    BY <1>3, <1>4, OrderCommandType
  <2>2. mig.cmd = "migrate" /\ mig.svc = t /\ mig.dst = d
    BY DEF MigrateCmd, Command
  <2> HIDE DEF mig, d
  <2>3. one \in Seq(Commands) /\ \A i \in DOMAIN one : i = 1 /\ one[i] = mig
    BY <2>1
  <2> HIDE DEF one
  <2>4. /\ SingleMove(one, s)
        /\ \A i \in DOMAIN one : IsMove(one[i], s) => one[i].dst = d
        /\ t # s => ~HasMove(one, s)
    BY <2>2, <2>3 DEF HasMove, SingleMove, IsMove
  <2>5. /\ \A x \in Edges : x # e => queue'[x] = queue[x]
        /\ ~HasMove(one, s) => QueueKept(s)
        /\ ~HasMove(queue[e], s) => SingleMove(queue'[e], s)
                                    /\ MovesTo(queue'[e], s, d)
    <3> HIDE DEF e
    <3> QED  BY <1>1, <1>3, <1>4, <2>3, <2>4, QueueOrder
  <2>6. CASE t # s
    <3>1. plan'[s] = plan[s]
      BY <1>1, <1>2, <2>6
    <3>2. CentreKept(s)
      BY <1>1, <3>1 DEF CentreKept
    <3>3. QueueKept(s)
      BY <2>4, <2>5, <2>6
    <3> QED  BY <1>1, <3>2, <3>3, Unchanged, Frame
  <2>7. CASE t = s
    <3>1. plan'[s].phase = "migrate" /\ plan'[s].dst = d
      BY <1>1, <1>2, <2>7 DEF Plans, NoPlan, d
    <3>2. ~Moving(s) /\ Moving(s)' /\ d # host[s]
      BY <1>1, <2>7, <3>1 DEF Moving, Inductive, PlanOK, d
    <3>3. ~HasMove(queue[e], s)
      BY <1>4, <3>2, AtRest
    <3>4. e = host[s]
      BY <2>7
    <3> HIDE DEF e
    <3> QED  BY <1>1, <1>4, <2>5, <3>1, <3>2, <3>3, <3>4, LaunchStep
  <2> QED  BY <2>6, <2>7
<1>5. CASE e \notin Edges
  <2>1. t # s
    BY <1>1, <1>5 DEF Inductive, PlanOK
  <2>2. queue' = queue \/ \E q : queue' = [queue EXCEPT ![e] = q]
    BY <1>1 DEF Enqueue
  <2>3. queue \in [Edges -> Seq(Commands)]
    BY DEF TypeOK
  <2>4. \A x \in Edges : queue'[x] = queue[x]
    BY <1>5, <2>2, <2>3
  <2>5. QueueKept(s)
    BY <2>4 DEF QueueKept
  <2>6. plan'[s] = plan[s]
    BY <1>1, <1>2, <2>1
  <2>7. CentreKept(s)
    BY <1>1, <2>6 DEF CentreKept
  <2> QED  BY <1>1, <2>5, <2>7, Unchanged, Frame
<1> QED  BY <1>4, <1>5

(* The notices reach the centre.                                           *)
LEMMA PreMigratedStep ==
  ASSUME TypeOK, TypeOK', NEW s \in Services, Inductive(s),
         NEW n \in notices, PreMigrated(n)
  PROVE  Inductive(s)'
<1> USE DEF dockerVars, edgeVars, srcVars, dstVars, centreVars
<1> DEFINE t == n.svc
           p == plan[t]
<1>1. /\ t \in Services /\ n.kind = "pre_migrated"
      /\ UNCHANGED <<dockerVars, edgeVars, srcVars, net, dst, host>>
      /\ notices' = notices \ {n}
  BY DEF PreMigrated, TypeOK, Notices
<1>2. \/ plan' = plan
      \/ /\ p.phase = "prepare"
         /\ \/ \E k \in {"prepared", "unscheduled"} :
                 plan' = [plan EXCEPT ![t].phase = k]
            \/ plan' = [plan EXCEPT ![t] = NoPlan]
  BY DEF PreMigrated
<1>3. \A m : m.kind = "migrated" => (m \in notices' <=> m \in notices)
  BY <1>1
<1>4. plan \in [Services -> Plans] /\ p \in Plans
  BY <1>1, CentreUpdate
<1>5. CASE plan'[s] = plan[s]
  <2>1. CentreKept(s)
    BY <1>1, <1>3, <1>5 DEF CentreKept
  <2> QED  BY <1>1, <2>1, Unchanged, Frame
<1>6. CASE plan'[s] # plan[s]
  <2>1. t = s /\ p.phase = "prepare"
    BY <1>1, <1>2, <1>4, <1>6
  <2>2. ~Moving(s) /\ host[s] \in Edges /\ plan[s].dst # host[s]
    BY <2>1 DEF Moving, Inductive, PlanOK
  <2>3. plan'[s].phase = "idle" \/ (plan'[s].phase \in {"prepared", "unscheduled"}
                                    /\ plan'[s].dst = plan[s].dst)
    BY <1>2, <1>4, <1>6, <2>1 DEF Plans, NoPlan
  <2>4. plan'[s].phase # "migrate"
        /\ (plan'[s].phase # "idle" => host[s] \in Edges /\ plan'[s].dst # host[s])
    BY <2>2, <2>3
  <2>5. QueueKept(s)
    BY <1>1, Unchanged
  <2> QED  BY <1>1, <1>3, <2>2, <2>4, <2>5, PlanStep
<1> QED  BY <1>5, <1>6

(* MIGRATED ends the migration: the destination is the new host.           *)
LEMMA MigratedStep ==
  ASSUME TypeOK, TypeOK', NEW s \in Services, Inductive(s),
         NEW n \in notices, Migrated(n)
  PROVE  Inductive(s)'
<1> USE DEF dockerVars, edgeVars, srcVars, dstVars, centreVars
<1> DEFINE t == n.svc
<1>1. /\ t \in Services /\ n \in Notices /\ n.kind = "migrated"
      /\ UNCHANGED <<dockerVars, edgeVars, srcVars, net, dst>>
      /\ notices' = notices \ {n}
  BY DEF Migrated, TypeOK, Notices
<1>2. \/ UNCHANGED <<host, plan>> /\ host[t] = NoEdge
      \/ /\ host' = [host EXCEPT ![t] = n.edge]
         /\ plan' = [plan EXCEPT ![t] = NoPlan]
  BY DEF Migrated
<1>3. CASE t # s
  <2>1. host'[s] = host[s] /\ plan'[s] = plan[s]
    <3>1. /\ host \in [Services -> Edges \cup {NoEdge}]
          /\ plan \in [Services -> Plans]
      BY CentreUpdate
    <3> QED  BY <1>2, <1>3, <3>1
  <2>2. CentreKept(s)
    BY <1>1, <1>3, <2>1 DEF CentreKept
  <2> QED  BY <1>1, <2>2, Unchanged, Frame
<1>4. CASE t = s
  <2>1. /\ Announced(s) /\ Moving(s) /\ n.edge = plan[s].dst
        /\ ~Ordered(s) /\ ~Halted(s) /\ ~Sent(s) /\ ~Unpacking(s) /\ ~Starting(s)
    <3>1. Announced(s) /\ Placed(s) /\ OneBaton(s)
      BY <1>1, <1>4 DEF Announced, Inductive
    <3> QED  BY <1>1, <1>4, <3>1 DEF Placed, OneBaton
  <2>2. host[s] \in Edges /\ plan[s].dst # host[s] /\ NoEdge \notin Edges
    BY <2>1, MigrateAssumption DEF Inductive, PlanOK, Moving
  <2>3. host'[s] = plan[s].dst /\ plan'[s] = NoPlan
    BY <1>2, <1>4, <2>1, <2>2, CentreUpdate
  <2>4. \A m \in notices' : ~(m.kind = "migrated" /\ m.svc = s)
    <3>1. ASSUME NEW m \in notices, m.kind = "migrated", m.svc = s
          PROVE  m = n
      <4>1. m.edge = n.edge
        BY <2>1, <3>1 DEF Inductive, Placed
      <4>2. m \in Notices
        BY DEF TypeOK
      <4> QED  BY <1>1, <1>4, <3>1, <4>1, <4>2 DEF Notices
    <3> QED  BY <1>1, <3>1
  <2>5. \A x \in Edges : Running(x, s)' <=> x = host'[s]
    <3>1. \A x \in Edges : Running(x, s) => x \in {host[s], plan[s].dst}
      BY <2>1 DEF Inductive, Runs
    <3>2. \A x \in Edges : x = host[s] => ~Running(x, s)
      BY <2>1 DEF Inductive, Runs
    <3>3. \A x \in Edges : x = plan[s].dst => Running(x, s)
      BY <2>1 DEF Inductive, Runs
    <3>4. \A x \in Edges : Running(x, s)' <=> Running(x, s)
      BY <1>1 DEF Running
    <3> QED  BY <2>3, <3>1, <3>2, <3>3, <3>4
  <2>6. ~Moving(s)' /\ PlanOK(s)'
    BY <2>3 DEF Moving, PlanOK, NoPlan
  <2>7. /\ \A x \in Edges : ~HasMove(queue'[x], s)
        /\ \A x, y \in Edges : ~HasMove(net'[x][y], s)
        /\ \A x \in Edges : ~HaltedAt(x, s)' /\ ~UnpackingAt(x, s)'
                            /\ ~StartingAt(x, s)'
    BY <1>1, <2>1 DEF Ordered, Sent, Halted, Unpacking, Starting,
       HaltedAt, UnpackingAt, StartingAt
  <2>8. Listed(s)'
    <3>1. \A x \in Edges : /\ LeavingAt(x, s)' <=> LeavingAt(x, s)
                           /\ Entered(x, s)' = Entered(x, s)
                           /\ Running(x, s)' <=> Running(x, s)
      BY <1>1 DEF LeavingAt, Entered, ListingAt, Running
    <3> QED  BY <2>1, <3>1 DEF Inductive, Listed
  <2> QED  BY <2>4, <2>5, <2>6, <2>7, <2>8, Rests
<1> QED  BY <1>3, <1>4

(* All steps together.                                                     *)
LEMMA InductiveStep ==
  ASSUME TypeOK, TypeOK', NEW s \in Services, s \notin disturbed', Inductive(s),
         [Next]_vars
  PROVE  Inductive(s)'
<1>1. CASE UNCHANGED vars
  <2>1. UNCHANGED <<queue, net, src, dst, container, entries, host, plan, notices>>
    BY <1>1 DEF vars, dockerVars, edgeVars, srcVars, dstVars, centreVars
  <2> QED  BY <2>1, Unchanged, Frame
<1>2. ASSUME NEW t \in Services, NEW e \in Edges,
             Deploy(t, e) \/ DeployFails(t, e) \/ Order(t, e) \/ MonitorService(e, t)
      PROVE  Inductive(s)'
  BY <1>2, DeployStep, DeployFailsStep, OrderStep, MonitorStep
<1>3. ASSUME NEW t \in Services, Leave(t) \/ OrderMigrate(t)
      PROVE  Inductive(s)'
  BY <1>3, LeaveStep, OrderMigrateStep
<1>4. ASSUME NEW n \in notices, PreMigrated(n) \/ Migrated(n)
      PROVE  Inductive(s)'
  BY <1>4, PreMigratedStep, MigratedStep
<1>5. ASSUME NEW e \in Edges, SourceStep(e)
      PROVE  Inductive(s)'
  BY <1>5, MeasuringStep, PreparingStep, StopStep, SendStep, FinishStep,
     CleanupStep
     DEF SourceStep
<1>6. ASSUME NEW d \in Edges, DestStep(d)
      PROVE  Inductive(s)'
  <2>1. CASE \E e \in Edges : DestUnpack(e, d)
    BY <2>1, UnpackStep
  <2>2. CASE DestRestore(d) \/ DestStart(d) \/ DestAnnounce(d) \/ DestList(d)
    BY <2>2, RestoreStep, StartStep, AnnounceStep, ListStep
  <2>3. CASE \/ \E e \in Edges : DestPrepare(e, d)
             \/ DestCreate(d) \/ DestResnap(d) \/ DestResnapDone(d)
    BY <2>3, DestQuietStep
  <2> QED  BY <1>6, <2>1, <2>2, <2>3 DEF DestStep
<1>7. ASSUME NEW e \in Edges, NEW d \in Edges, NEW i \in DOMAIN net[e][d],
             Lose(e, d, i)
      PROVE  Inductive(s)'
  BY <1>7, LoseStep
<1> QED  BY <1>1, <1>2, <1>3, <1>4, <1>5, <1>6, <1>7 DEF Next

(* A disturbed service stays disturbed.                                    *)
LEMMA DisturbedGrows ==
  ASSUME [Next]_vars
  PROVE  disturbed \subseteq disturbed'
<1> USE DEF dockerVars, edgeVars, srcVars, dstVars, centreVars
<1>1. CASE UNCHANGED vars
  BY <1>1 DEF vars
<1>2. ASSUME NEW s \in Services, NEW e \in Edges,
             Deploy(s, e) \/ DeployFails(s, e) \/ Order(s, e) \/ MonitorService(e, s)
      PROVE  disturbed \subseteq disturbed'
  BY <1>2 DEF Deploy, DeployFails, Order, Enqueue, Disturb, MonitorService
<1>3. ASSUME NEW s \in Services, Leave(s) \/ OrderMigrate(s)
      PROVE  disturbed \subseteq disturbed'
  BY <1>3 DEF Leave, OrderMigrate, Enqueue, Disturb
<1>4. ASSUME NEW n \in notices, PreMigrated(n) \/ Migrated(n)
      PROVE  disturbed \subseteq disturbed'
  BY <1>4 DEF PreMigrated, Migrated
<1>5. ASSUME NEW e \in Edges, SourceStep(e)
      PROVE  disturbed \subseteq disturbed'
  <2>1. CASE PreMeasure(e) \/ Measure(e) \/ MeasureReport(e)
    BY <2>1, Zenon DEF PreMeasure, Measure, MeasureReport
  <2>2. CASE \/ Prepare(e) \/ PrepareCheckpoint(e) \/ PrepareDelta(e)
             \/ PrepareNotify(e)
    BY <2>2, Zenon DEF Prepare, PrepareCheckpoint, PrepareDelta, PrepareNotify
  <2>3. CASE MigrateStop(e)
    BY <2>3, ZenonT(60) DEF MigrateStop, Disturb
  <2>4. CASE MigrateSend(e) \/ MigrateFinish(e) \/ MigrateCleanup(e)
    BY <2>4 DEF MigrateSend, MigrateFinish, MigrateCleanup
  <2> QED  BY <1>5, <2>1, <2>2, <2>3, <2>4 DEF SourceStep
<1>6. ASSUME NEW d \in Edges, DestStep(d)
      PROVE  disturbed \subseteq disturbed'
  <2>1. CASE \E e \in Edges : DestPrepare(e, d) \/ DestUnpack(e, d)
    BY <2>1, Zenon DEF DestPrepare, DestUnpack
  <2>2. CASE DestCreate(d) \/ DestRestore(d) \/ DestStart(d)
    BY <2>2 DEF DestCreate, DestRestore, DestStart, Disturb
  <2>3. CASE DestAnnounce(d) \/ DestList(d) \/ DestResnap(d) \/ DestResnapDone(d)
    BY <2>3 DEF DestAnnounce, DestList, DestResnap, DestResnapDone
  <2> QED  BY <1>6, <2>1, <2>2, <2>3, Zenon DEF DestStep
<1>7. ASSUME NEW e \in Edges, NEW d \in Edges, NEW i \in DOMAIN net[e][d],
             Lose(e, d, i)
      PROVE  disturbed \subseteq disturbed'
  BY <1>7 DEF Lose
<1> QED  BY <1>1, <1>2, <1>3, <1>4, <1>5, <1>6, <1>7 DEF Next

(* At first there is nothing.                                              *)
LEMMA InductiveInit ==
  ASSUME Init, NEW s \in Services
  PROVE  Inductive(s)
<1>1. host[s] = NoEdge /\ plan[s].phase = "idle" /\ NoEdge \notin Edges
  BY MigrateAssumption DEF Init, NoPlan
<1>2. /\ \A e \in Edges : ~HasMove(queue[e], s)
      /\ \A e, d \in Edges : ~HasMove(net[e][d], s)
  <2>1. ~HasMove(<<>>, s)
    BY DEF HasMove
  <2> QED  BY <2>1 DEF Init
<1>3. \A e \in Edges : ~LeavingAt(e, s) /\ ~HaltedAt(e, s) /\ ~UnpackingAt(e, s)
                       /\ ~StartingAt(e, s)
  BY DEF Init, Idle, LeavingAt, HaltedAt, UnpackingAt, StartingAt
<1>4. notices = {}
  BY DEF Init
<1>5. \A e \in Edges : ~Running(e, s)
  BY DEF Init, Running, RunStates
<1>6. PlanOK(s) /\ ~Moving(s)
  BY <1>1 DEF PlanOK, Moving
<1>7. Placed(s)
  BY <1>2, <1>3, <1>4, NoMove DEF Placed
<1>8. OneBaton(s)
  BY <1>2, <1>3, <1>4, NoMove
     DEF OneBaton, Ordered, Halted, Sent, Unpacking, Starting, Announced
<1>9. Runs(s)
  BY <1>1, <1>5, <1>6 DEF Runs
<1>10. Listed(s)
  BY <1>3, <1>5 DEF Listed
<1> QED  BY <1>6, <1>7, <1>8, <1>9, <1>10 DEF Inductive

(* The baton of the final migration of a service that was not cut into is  *)
(* unique and where the centre's plan says, and the service runs and is    *)
(* listed accordingly.                                                     *)
THEOREM Invariance == Spec => []IInv
<1>1. Init => IInv
  BY InductiveInit DEF IInv
<1>2. TypeOK /\ TypeOK' /\ IInv /\ [Next]_vars => IInv'
  <2> SUFFICES ASSUME TypeOK, TypeOK', IInv, [Next]_vars,
                      NEW s \in Services, s \notin disturbed'
               PROVE  Inductive(s)'
    BY DEF IInv
  <2>1. Inductive(s)
    BY DisturbedGrows DEF IInv
  <2> QED  BY <2>1, InductiveStep
<1> QED  BY <1>1, <1>2, TypeCorrect, PTL DEF Spec

(* What the invariant says of where services run and are listed.           *)
LEMMA Consequences ==
  ASSUME TypeOK, IInv
  PROVE  AtMostOneRunning /\ HostRuns /\ HostLists
<1>1. AtMostOneRunning
  <2> SUFFICES ASSUME NEW s \in Services \ disturbed, NEW e \in Edges,
                      NEW d \in Edges, Running(e, s), Running(d, s)
               PROVE  e = d
    BY DEF AtMostOneRunning
  <2>1. Runs(s) /\ OneBaton(s)
    BY DEF IInv, Inductive
  <2>2. CASE ~Moving(s)
    BY <2>1, <2>2 DEF Runs
  <2>3. CASE Moving(s)
    <3>1. \A x \in Edges : Running(x, s) => x \in {host[s], plan[s].dst}
      BY <2>1, <2>3 DEF Runs
    <3>2. \A x, y \in Edges : x = host[s] /\ y = plan[s].dst =>
            ~(Running(x, s) /\ Running(y, s))
      BY <2>1, <2>3 DEF Runs
    <3> QED  BY <3>1, <3>2
  <2> QED  BY <2>2, <2>3
<1>2. ASSUME NEW s \in Services \ disturbed, host[s] # NoEdge,
             plan[s].phase # "migrate"
      PROVE  /\ Running(host[s], s)
             /\ IsListed(host[s], s) \/ ListingAt(host[s], s)
  <2>1. Inductive(s) /\ ~Moving(s) /\ host[s] \in Edges
    BY <1>2, CentreUpdate DEF IInv, Moving
  <2>2. Running(host[s], s)
    BY <2>1, AtRest
  <2>3. Entered(host[s], s) >= 1
    BY <2>1, <2>2 DEF Inductive, Listed
  <2>4. entries[host[s]][s] = <<>> => Len(entries[host[s]][s]) = 0
    BY EmptySeq
  <2> QED  BY <2>2, <2>3, <2>4 DEF IsListed, Entered
<1> QED  BY <1>1, <1>2 DEF HostRuns, HostLists

(* A service whose migrations were not cut into never runs on two edge     *)
(* servers at once.                                                        *)
THEOREM OnePlace == Spec => []AtMostOneRunning
<1>1. TypeOK /\ IInv => AtMostOneRunning
  BY Consequences
<1> QED  BY <1>1, TypeCorrect, Invariance, PTL

(* While no final migration of such a service is ordered, the server the   *)
(* centre names runs it.                                                   *)
THEOREM HostServes == Spec => []HostRuns
<1>1. TypeOK /\ IInv => HostRuns
  BY Consequences
<1> QED  BY <1>1, TypeCorrect, Invariance, PTL

(* ... and has it in its list of services, or is about to.                 *)
THEOREM HostKnows == Spec => []HostLists
<1>1. TypeOK /\ IInv => HostLists
  BY Consequences
<1> QED  BY <1>1, TypeCorrect, Invariance, PTL
=============================================================================
