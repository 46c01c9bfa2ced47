--------------------------- MODULE Handover_proofs ---------------------------
(* Proofs about Handover: its type, that the controller knows which        *)
(* station a device uses, and that a device is sent away only when one is  *)
(* heard at the threshold or below it.                                     *)
EXTENDS Handover, TLAPS, SequenceTheorems

(* Levels are stored of stations the database knows, so that the planners  *)
(* name no other and devices use no other; a service that moves has        *)
(* somewhere to go.                                                        *)
Types ==
  /\ TypeOK
  /\ \A u \in Users, b \in Stations : rows[u][b] # <<>> => b \in known
  /\ \A u \in Users : phase[u] = "moving" => target[u] \in Servers
  /\ \A u \in Users : ssid[u] \in known

(* The last notice of a device that is connected names its station.        *)
LastNotice(u) ==
  IF notices[u] = <<>> THEN bts[u] ELSE notices[u][Len(notices[u])]
AgreeInv == \A u \in Users : connected[u] => LastNotice(u) = ssid[u]

-----------------------------------------------------------------------------
(* Types.                                                                  *)

LEMMA TypeInit == Init => Types
<1> SUFFICES ASSUME Init PROVE Types
  OBVIOUS
<1>1. \A u \in Users : Start[u].place \in Places /\ Start[u].station \in Registered
  BY HandoverAssumption
<1>2. Registered \subseteq Stations /\ MaxMoves \in Nat
  BY HandoverAssumption
<1>3. /\ orders \in [Users -> Seq(known)] /\ notices \in [Users -> Seq(known)]
      /\ rows \in [Users -> [Stations -> Seq(Nat)]]
  BY DEF Init
<1>4. /\ place \in [Users -> Places] /\ scanned \in [Users -> Places]
      /\ moves \in [Users -> 0 .. MaxMoves] /\ report \in [Users -> Places \cup {NoPlace}]
      /\ known = Registered /\ ssid \in [Users -> Registered] /\ bts = ssid
      /\ connected \in [Users -> BOOLEAN]
  BY <1>1, <1>2 DEF Init
<1>5. /\ server \in [Users -> Servers] /\ target \in [Users -> Servers \cup {NoServer}]
      /\ phase \in [Users -> {"init", "running"}] /\ handover = {} /\ alive = TRUE
  BY DEF Init
<1>6. /\ \A u \in Users, b \in Stations : rows[u][b] = <<>>
      /\ \A u \in Users : phase[u] # "moving"
  BY DEF Init
<1>7. TypeOK
  BY <1>2, <1>3, <1>4, <1>5 DEF TypeOK
<1> QED  BY <1>4, <1>6, <1>7 DEF Types

(* The database only gets to know more stations.                           *)
LEMMA SeqGrows ==
  ASSUME NEW S, NEW T, S \subseteq T
  PROVE  Seq(S) \subseteq Seq(T)
BY SeqDef

(* The planners plan for known stations and for servers there are.         *)
LEMMA PlansKnown ==
  ASSUME TypeOK, NEW r \in [Users -> [Stations -> Seq(Nat)]], NEW u \in Users,
         \A b \in Stations : r[u][b] # <<>> => b \in known,
         NEW x \in Plans(u, r)
  PROVE  x[1] \in known /\ x[2] \in Servers
<1>1. \A b \in MaxRssi(r[u]) : b \in known
  <2> SUFFICES ASSUME NEW b \in MaxRssi(r[u]) PROVE b \in known
    OBVIOUS
  <2>1. b \in Stations /\ ToSet(r[u][b]) # {}
    BY DEF MaxRssi
  <2>2. r[u][b] # <<>>
    BY <2>1 DEF ToSet
  <2> QED  BY <2>1, <2>2
<1>2. /\ bts[u] \in known /\ server[u] \in Servers
      /\ Stay(u)[1] = bts[u] /\ Stay(u)[2] = server[u]
  BY DEF TypeOK, Stay
<1>3. known \subseteq Stations
  BY DEF TypeOK
<1>4. CASE x = Stay(u)
  BY <1>2, <1>4
<1>5. CASE \E b \in MaxRssi(r[u]) :
             x = <<b, IF ServerOf[b] = NoServer THEN server[u] ELSE ServerOf[b]>>
  BY <1>1, <1>2, <1>3, <1>5, HandoverAssumption
<1>6. CASE x \in (MaxRssi(r[u]) \ {bts[u]}) \X Servers
  BY <1>1, <1>6
<1> QED  BY <1>4, <1>5, <1>6 DEF Plans

LEMMA TriggerTypes ==
  ASSUME Types, NEW r \in [Users -> [Stations -> Seq(Nat)]],
         \A u \in Users, b \in Stations : r[u][b] # <<>> => b \in known,
         TriggerOtherPlanners(r)
  PROVE  /\ orders' \in [Users -> Seq(known)] /\ handover' \subseteq Users
         /\ phase' \in [Users -> {"init", "running", "moving"}]
         /\ target' \in [Users -> Servers \cup {NoServer}]
         /\ \A u \in Users : phase'[u] = "moving" => target'[u] \in Servers
<1>1. PICK c \in [Users -> Stations \X Servers] :
        /\ \A u \in Users : c[u] \in Plans(u, r)
        /\ orders' = [u \in Users |-> IF HandsOver(u, c) THEN Append(orders[u], c[u][1])
                                       ELSE orders[u]]
        /\ handover' = handover \cup {u \in Users : HandsOver(u, c)}
        /\ phase' = [u \in Users |-> IF Migrates(u, c) THEN "moving" ELSE phase[u]]
        /\ target' = [u \in Users |-> IF Migrates(u, c) THEN c[u][2] ELSE target[u]]
  BY DEF TriggerOtherPlanners
<1>2. \A u \in Users : c[u][1] \in known /\ c[u][2] \in Servers
  BY <1>1, PlansKnown DEF Types
<1>3. orders' \in [Users -> Seq(known)]
  <2>1. \A u \in Users : /\ orders[u] \in Seq(known)
                         /\ Append(orders[u], c[u][1]) \in Seq(known)
    BY <1>2, AppendProperties DEF Types, TypeOK
  <2> QED  BY <1>1, <2>1
<1> QED  BY <1>1, <1>2, <1>3 DEF Types, TypeOK

LEMMA StoreTypes ==
  ASSUME Types, NEW u \in Users, NEW p \in Places
  PROVE  /\ Store(u, p) \in [Users -> [Stations -> Seq(Nat)]]
         /\ \A v \in Users, b \in Stations : Store(u, p)[v][b] # <<>> => b \in known
<1> DEFINE f == [b \in Stations |->
                   IF b \in Stored(p) \cap known /\ ~IsSuffix(<<Level[b][p]>>, rows[u][b])
                   THEN Append(rows[u][b], Level[b][p]) ELSE rows[u][b]]
<1>1. \A b \in Stations : Level[b][p] \in Nat
  BY HandoverAssumption
<1>2. rows \in [Users -> [Stations -> Seq(Nat)]]
  BY DEF Types, TypeOK
<1>3. f \in [Stations -> Seq(Nat)]
  BY <1>1, <1>2, AppendProperties
<1>4. \A b \in Stations : f[b] # <<>> => b \in known
  BY DEF Types
<1>5. Store(u, p) = [rows EXCEPT ![u] = f]
  BY DEF Store
<1> HIDE DEF f
<1> QED  BY <1>2, <1>3, <1>4, <1>5 DEF Types

LEMMA TypeStep ==
  ASSUME Types, [Next]_vars
  PROVE  Types'
<1> USE DEF deviceVars, radioVars, serviceVars, centreVars
<1>0. TypeOK
  BY DEF Types
<1>1. CASE UNCHANGED vars
  BY <1>1 DEF vars, Types, TypeOK
<1>2. ASSUME NEW u \in Users, Move(u) PROVE Types'
  <2>1. PICK p \in NextTo[place[u]] : place' = [place EXCEPT ![u] = p]
    BY <1>2 DEF Move
  <2>2. p \in Places /\ MaxMoves \in Nat
    BY <1>0, <2>1, HandoverAssumption DEF TypeOK
  <2>3. moves' \in [Users -> 0 .. MaxMoves]
    BY <1>0, <1>2, <2>2 DEF Move, TypeOK
  <2> QED  BY <1>2, <2>1, <2>2, <2>3 DEF Move, Types, TypeOK
<1>3. ASSUME NEW u \in Users, ReportScan(u) \/ ReportAgain(u) PROVE Types'
  <2>1. scanned' \in [Users -> Places]
    BY <1>0, <1>3 DEF ReportScan, ReportAgain, TypeOK
  <2>2. report' \in [Users -> Places \cup {NoPlace}]
    BY <1>0, <1>3, <2>1 DEF ReportScan, ReportAgain, Report, TypeOK
  <2>3. UNCHANGED <<place, moves, ssid, connected, orders, notices, centreVars>>
    BY <1>3 DEF ReportScan, ReportAgain, Report
  <2> QED  BY <2>1, <2>2, <2>3 DEF Types, TypeOK
<1>4. ASSUME NEW u \in Users, ProcessHandover(u) PROVE Types'
  <2>1. orders[u] \in Seq(known) /\ known \subseteq Stations
    BY <1>0 DEF TypeOK
  <2>2. Head(orders[u]) \in known /\ Tail(orders[u]) \in Seq(known)
    BY <1>4, <2>1, HeadTailProperties DEF ProcessHandover
  <2> QED  BY <1>4, <2>1, <2>2 DEF ProcessHandover, Types, TypeOK
<1>5. ASSUME NEW u \in Users, Reconnect(u) PROVE Types'
  <2>1. notices[u] \in Seq(known) /\ ssid[u] \in known
    BY <1>0 DEF Types, TypeOK
  <2>2. Append(notices[u], ssid[u]) \in Seq(known)
    BY <1>5, <2>1, AppendProperties
  <2> QED  BY <1>5, <2>2 DEF Reconnect, Types, TypeOK
<1>6. ASSUME NEW u \in Users, ProcessMonitorEU(u) PROVE Types'
  <2>1. PICK p \in Places : p = report[u]
    BY <1>0, <1>6 DEF ProcessMonitorEU, TypeOK
  <2>2. /\ report' = [report EXCEPT ![u] = NoPlace]
        /\ UNCHANGED <<planner, deviceVars, notices, known, bts, server>>
    BY <1>6 DEF ProcessMonitorEU
  <2>3. CASE UNCHANGED <<rows, orders, phase, target, handover>> /\ alive' = FALSE
    BY <2>2, <2>3 DEF Types, TypeOK
  <2>4. CASE ~(UNCHANGED <<rows, orders, phase, target, handover>> /\ alive' = FALSE)
    <3>1. /\ rows' = Store(u, p) /\ alive' = alive
          /\ \/ TriggerOtherPlanners(rows')
             \/ UNCHANGED <<orders, phase, target, handover>>
      BY <1>6, <2>1, <2>4 DEF ProcessMonitorEU
    <3>2. PICK r \in [Users -> [Stations -> Seq(Nat)]] : r = rows'
      BY <3>1, StoreTypes
    <3>3. \A v \in Users, b \in Stations : r[v][b] # <<>> => b \in known
      BY <3>1, <3>2, StoreTypes
    <3>4. CASE TriggerOtherPlanners(r)
      BY <2>2, <3>1, <3>2, <3>3, <3>4, TriggerTypes DEF Types, TypeOK
    <3>5. CASE UNCHANGED <<orders, phase, target, handover>>
      BY <2>2, <3>1, <3>2, <3>3, <3>5 DEF Types, TypeOK
    <3> QED  BY <3>1, <3>2, <3>4, <3>5
  <2> QED  BY <2>3, <2>4
<1>7. ASSUME NEW u \in Users, ProcessHandovered(u) PROVE Types'
  <2>1. notices[u] \in Seq(known)
    BY <1>0 DEF TypeOK
  <2>2. Head(notices[u]) \in known /\ Tail(notices[u]) \in Seq(known)
    BY <1>7, <2>1, HeadTailProperties DEF ProcessHandovered
  <2> QED  BY <1>7, <2>2 DEF ProcessHandovered, Types, TypeOK
<1>8. ASSUME NEW u \in Users, ProcessAllocated(u) \/ ProcessMigrated(u) PROVE Types'
  <2>1. PICK s \in Servers : ServiceRuns(u, s)
    BY <1>0, <1>8 DEF ProcessAllocated, ProcessMigrated, Types, TypeOK
  <2> QED  BY <2>1 DEF ServiceRuns, Types, TypeOK
<1>9. ASSUME NEW u \in Users, NEW b \in Stations, Age(u, b) PROVE Types'
  <2>1. /\ rows[u][b] # <<>> /\ rows' = [rows EXCEPT ![u][b] = Tail(@)]
        /\ rows \in [Users -> [Stations -> Seq(Nat)]]
    BY <1>0, <1>9 DEF Age, TypeOK
  <2>2. Tail(rows[u][b]) \in Seq(Nat)
    BY <2>1, HeadTailProperties
  <2>3. /\ rows' \in [Users -> [Stations -> Seq(Nat)]]
        /\ \A v \in Users, c \in Stations : rows'[v][c] # <<>> => rows[v][c] # <<>>
    BY <2>1, <2>2
  <2> QED  BY <1>9, <2>3 DEF Age, Types, TypeOK
<1>10. ASSUME NEW b \in Stations, Register(b) PROVE Types'
  <2>1. known' = known \cup {b} /\ Seq(known) \subseteq Seq(known')
    BY <1>10, SeqGrows DEF Register
  <2> QED  BY <1>10, <2>1 DEF Register, Types, TypeOK
<1> QED  BY <1>1, <1>2, <1>3, <1>4, <1>5, <1>6, <1>7, <1>8, <1>9, <1>10
         DEF Next, Device, Centre

-----------------------------------------------------------------------------
(* Stations.                                                               *)

LEMMA AgreeStep ==
  ASSUME Types, AgreeInv, [Next]_vars
  PROVE  AgreeInv'
<1> USE DEF deviceVars, radioVars, serviceVars, centreVars
<1>0. /\ ssid \in [Users -> Stations] /\ connected \in [Users -> BOOLEAN]
      /\ notices \in [Users -> Seq(known)] /\ bts \in [Users -> known]
  BY DEF Types, TypeOK
<1>1. CASE UNCHANGED <<ssid, connected, notices, bts>>
  BY <1>1 DEF AgreeInv, LastNotice
<1>2. ASSUME NEW u \in Users, ProcessHandover(u) PROVE AgreeInv'
  BY <1>0, <1>2 DEF ProcessHandover, AgreeInv, LastNotice
<1>3. ASSUME NEW u \in Users, Reconnect(u) PROVE AgreeInv'
  <2>1. /\ notices' = [notices EXCEPT ![u] = Append(@, ssid[u])]
        /\ connected' = [connected EXCEPT ![u] = TRUE] /\ UNCHANGED <<ssid, bts>>
    BY <1>3 DEF Reconnect
  <2>2. PICK q : q = Append(notices[u], ssid[u])
    OBVIOUS
  <2>3. q # <<>> /\ q[Len(q)] = ssid[u]
    <3>1. notices[u] \in Seq(known) /\ ssid[u] \in known
      BY <1>0 DEF Types
    <3> QED  BY <2>2, <3>1, AppendProperties
  <2>4. LastNotice(u)' = ssid[u]
    BY <1>0, <2>1, <2>2, <2>3 DEF LastNotice
  <2>5. \A v \in Users \ {u} : LastNotice(v)' = LastNotice(v) /\ connected'[v] = connected[v]
    BY <1>0, <2>1 DEF LastNotice
  <2> QED  BY <2>1, <2>4, <2>5 DEF AgreeInv
<1>4. ASSUME NEW u \in Users, ProcessHandovered(u) PROVE AgreeInv'
  <2>1. /\ notices[u] # <<>> /\ notices' = [notices EXCEPT ![u] = Tail(@)]
        /\ bts' = [bts EXCEPT ![u] = Head(notices[u])] /\ UNCHANGED <<ssid, connected>>
    BY <1>4 DEF ProcessHandovered
  <2>2. PICK q \in Seq(known) : q = notices[u]
    BY <1>0
  <2>3. /\ Len(q) \in Nat \ {0} /\ Head(q) = q[1]
        /\ Tail(q) \in Seq(known) /\ Len(Tail(q)) = Len(q) - 1
        /\ \A i \in 1 .. Len(q) - 1 : Tail(q)[i] = q[i + 1]
    BY <2>1, <2>2, HeadTailProperties, LenProperties, EmptySeq
  <2>4. LastNotice(u)' = LastNotice(u)
    <3>1. CASE Len(q) = 1
      <4>1. Tail(q) = <<>>
        <5>1. PICK r \in Seq(known) : r = Tail(q)
          BY <2>3
        <5>2. Len(r) = 0
          BY <2>3, <3>1, <5>1
        <5> QED  BY <5>1, <5>2, EmptySeq
      <4> QED  BY <1>0, <2>1, <2>2, <2>3, <3>1, <4>1 DEF LastNotice
    <3>2. CASE Len(q) # 1
      <4>1. PICK n \in Nat : Len(q) = n + 1 /\ n >= 1
        <5>1. PICK m \in Nat : m = Len(q)
          BY <2>2, LenProperties
        <5>2. m # 0 /\ m # 1
          BY <2>2, <2>3, <3>2, <5>1, EmptySeq
        <5>3. m - 1 \in Nat /\ m = (m - 1) + 1 /\ m - 1 >= 1
          BY <5>2
        <5> QED  BY <5>1, <5>3
      <4>2. Len(Tail(q)) = n /\ Tail(q) # <<>> /\ Tail(q)[n] = q[n + 1]
        BY <2>3, <4>1, EmptySeq
      <4> QED  BY <1>0, <2>1, <2>2, <4>1, <4>2 DEF LastNotice
    <3> QED  BY <3>1, <3>2
  <2>5. \A v \in Users \ {u} : LastNotice(v)' = LastNotice(v)
    BY <1>0, <2>1 DEF LastNotice
  <2> QED  BY <2>1, <2>4, <2>5 DEF AgreeInv
<1>5. ASSUME NEW u \in Users,
             \/ Move(u) \/ ReportScan(u) \/ ReportAgain(u) \/ ProcessMonitorEU(u)
             \/ ProcessAllocated(u) \/ ProcessMigrated(u)
      PROVE  UNCHANGED <<ssid, connected, notices, bts>>
  BY <1>5 DEF Move, ReportScan, ReportAgain, Report, ProcessMonitorEU, ProcessAllocated,
              ProcessMigrated, ServiceRuns
<1>6. (\E u \in Users, b \in Stations : Age(u, b)) \/ (\E b \in Stations : Register(b))
        => UNCHANGED <<ssid, connected, notices, bts>>
  BY DEF Age, Register
<1> QED  BY <1>1, <1>2, <1>3, <1>4, <1>5, <1>6 DEF Next, Device, Centre, vars

THEOREM HandoverInvariant == Spec => [](Types /\ AgreeInv)
<1>1. Init => Types /\ AgreeInv
  BY TypeInit DEF Init, AgreeInv, LastNotice
<1>2. Types /\ AgreeInv /\ [Next]_vars => (Types /\ AgreeInv)'
  BY TypeStep, AgreeStep
<1> QED  BY <1>1, <1>2, PTL DEF Spec

(* Every variable keeps its type: orders and notices name stations of the  *)
(* database only.                                                          *)
THEOREM TypeCorrect == Spec => []TypeOK
<1>1. Types => TypeOK
  BY DEF Types
<1> QED  BY <1>1, HandoverInvariant, PTL

(* The controller knows the station of a device that is connected, once    *)
(* its notices have been handled, whatever orders are on their way.        *)
THEOREM StationsKnown == Spec => []StationAgrees
<1>1. AgreeInv => StationAgrees
  BY DEF AgreeInv, LastNotice, StationAgrees
<1> QED  BY <1>1, HandoverInvariant, PTL

-----------------------------------------------------------------------------
(* The threshold.                                                          *)

(* A level is stored as the last one of its station.                       *)
LEMMA SuffixLast ==
  ASSUME NEW q \in Seq(Nat), NEW l \in Nat, IsSuffix(<<l>>, q)
  PROVE  Last(q) = l
<1>1. PICK s \in Seq(Nat) : s = <<l>>
  <2>1. <<l>> \in Seq(Nat)
    OBVIOUS
  <2> QED  BY <2>1
<1>2. Len(s) = 1 /\ s[1] = l
  BY <1>1
<1> DEFINE a == Reverse(s)
           b == Reverse(q)
<1>3. a = [i \in 1 .. 1 |-> s[(1 - i) + 1]] /\ b = [i \in 1 .. Len(q) |-> q[(Len(q) - i) + 1]]
  BY <1>2 DEF Reverse
<1>4. Len(q) \in Nat
  BY LenProperties
<1>5. a \in Seq(Nat) /\ Len(a) = 1 /\ a[1] = l
  <2>1. a \in [1 .. 1 -> Nat] /\ a[1] = l
    BY <1>2, <1>3
  <2>2. a \in Seq(Nat)
    BY <2>1, SeqDef
  <2>3. Len(a) = 1
    BY <2>1, <2>2, LenProperties
  <2> QED  BY <2>1, <2>2, <2>3
<1>6. b \in Seq(Nat) /\ Len(b) = Len(q) /\ (Len(q) >= 1 => b[1] = q[Len(q)])
  <2>1. \A i \in 1 .. Len(q) : (Len(q) - i) + 1 \in 1 .. Len(q)
    BY <1>4
  <2>2. b \in [1 .. Len(q) -> Nat]
    <3>1. \A i \in 1 .. Len(q) : q[i] \in Nat
      BY ElementOfSeq
    <3> QED  BY <1>3, <2>1, <3>1
  <2>3. b \in Seq(Nat) /\ Len(b) = Len(q)
    <3>1. PICK n \in Nat : n = Len(q)
      BY <1>4
    <3>2. b \in Seq(Nat) /\ DOMAIN b = 1 .. n
      BY <2>2, <3>1, SeqDef
    <3>3. Len(b) \in Nat /\ DOMAIN b = 1 .. Len(b)
      BY <3>2, LenProperties
    <3> QED  BY <3>1, <3>2, <3>3
  <2>4. Len(q) >= 1 => b[1] = q[Len(q)]
    <3>1. Len(q) >= 1 => 1 \in 1 .. Len(q) /\ (Len(q) - 1) + 1 = Len(q)
      BY <1>4
    <3> QED  BY <1>3, <3>1
  <2> QED  BY <2>3, <2>4
<1>7. IsPrefix(a, b)
  BY <1>1 DEF IsSuffix
<1> HIDE DEF a, b
<1>8. Len(a) <= Len(b) /\ SubSeq(a, 1, Len(a)) = SubSeq(b, 1, Len(a))
  BY <1>7 DEF IsPrefix
<1>9. SubSeq(a, 1, 1)[1] = a[1] /\ SubSeq(b, 1, 1)[1] = b[1]
  BY <1>4, <1>5, <1>6, <1>8, SubSeqProperties
<1> QED  BY <1>4, <1>5, <1>6, <1>8, <1>9 DEF Last

(* A device that makes the planner run hears its own station at the        *)
(* threshold or below it, and that is the last level stored of it.         *)
LEMMA TriggerWeak ==
  ASSUME Types, NEW u \in Users, NEW p \in Places, Triggers(u, p)
  PROVE  Last(Store(u, p)[u][bts[u]]) <= Threshold
<1>1. /\ bts[u] \in known /\ bts[u] \in Stations /\ bts[u] \in Stored(p)
      /\ rows \in [Users -> [Stations -> Seq(Nat)]]
  BY DEF Types, TypeOK, Triggers
<1>2. PICK l \in Nat : l = Level[bts[u]][p] /\ l <= Threshold
  BY <1>1, HandoverAssumption DEF Triggers
<1>3. PICK q \in Seq(Nat) : q = rows[u][bts[u]]
  BY <1>1
<1>4. Store(u, p)[u][bts[u]] = IF ~IsSuffix(<<l>>, q) THEN Append(q, l) ELSE q
  BY <1>1, <1>2, <1>3 DEF Store
<1>5. Last(Append(q, l)) = l
  BY AppendProperties DEF Last
<1>6. IsSuffix(<<l>>, q) => Last(q) = l
  BY SuffixLast
<1> QED  BY <1>2, <1>4, <1>5, <1>6

(* A device is sent away only when some device hears its own station at    *)
(* the threshold or below it: the plan a report asks for is one for all.   *)
SomeoneWeak ==
  (\E u \in Users : Len(orders'[u]) > Len(orders[u])) =>
     \E v \in Users : Last(rows'[v][bts[v]]) <= Threshold

LEMMA WeakStep ==
  ASSUME Types, Next
  PROVE  SomeoneWeak
<1> USE DEF deviceVars, radioVars, serviceVars, centreVars
<1>1. orders \in [Users -> Seq(known)]
  BY DEF Types, TypeOK
<1>2. CASE orders' = orders
  <2>1. \A u \in Users : Len(orders[u]) \in Nat
    BY <1>1, LenProperties
  <2> QED  BY <1>2, <2>1 DEF SomeoneWeak
<1>3. ASSUME NEW u \in Users, ProcessHandover(u) PROVE SomeoneWeak
  <2>1. orders[u] # <<>> /\ orders' = [orders EXCEPT ![u] = Tail(@)]
    BY <1>3 DEF ProcessHandover
  <2>2. \A v \in Users : Len(orders[v]) \in Nat
    BY <1>1, LenProperties
  <2>3. Len(Tail(orders[u])) = Len(orders[u]) - 1
    BY <1>1, <2>1, HeadTailProperties
  <2>4. \A v \in Users : ~(Len(orders'[v]) > Len(orders[v]))
    BY <1>1, <2>1, <2>2, <2>3
  <2> QED  BY <2>4 DEF SomeoneWeak
<1>4. ASSUME NEW u \in Users, ProcessMonitorEU(u), orders' # orders PROVE SomeoneWeak
  <2>1. PICK p \in Places : p = report[u]
    BY <1>4 DEF ProcessMonitorEU, Types, TypeOK
  <2>2. Triggers(u, p) /\ rows' = Store(u, p)
    BY <1>4, <2>1 DEF ProcessMonitorEU
  <2> QED  BY <2>2, TriggerWeak DEF SomeoneWeak
<1>5. ASSUME NEW u \in Users,
             \/ Move(u) \/ ReportScan(u) \/ ReportAgain(u) \/ Reconnect(u)
             \/ ProcessHandovered(u) \/ ProcessAllocated(u) \/ ProcessMigrated(u)
      PROVE  orders' = orders
  BY <1>5 DEF Move, ReportScan, ReportAgain, Report, Reconnect, ProcessHandovered,
              ProcessAllocated, ProcessMigrated, ServiceRuns
<1>6. (\E u \in Users, b \in Stations : Age(u, b)) \/ (\E b \in Stations : Register(b))
        => orders' = orders
  BY DEF Age, Register
<1> QED  BY <1>2, <1>3, <1>4, <1>5, <1>6 DEF Next, Device, Centre

THEOREM WeakLeave == Spec => [][SomeoneWeak]_vars
<1>1. Types /\ [Next]_vars => [SomeoneWeak]_vars
  BY WeakStep
<1> QED  BY <1>1, HandoverInvariant, PTL DEF Spec

(* With one device, it is that device which hears its station at the       *)
(* threshold or below it.                                                  *)
THEOREM AloneLeavesWeak ==
  ASSUME NEW x, Users = {x}
  PROVE  Spec => LeavesWeak
<1>1. [SomeoneWeak]_vars => [OnlyWeakLeave]_vars
  BY DEF SomeoneWeak, OnlyWeakLeave
<1> QED  BY <1>1, WeakLeave, PTL DEF LeavesWeak
=============================================================================
