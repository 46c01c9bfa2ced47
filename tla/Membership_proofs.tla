-------------------------- MODULE Membership_proofs --------------------------
(* Proofs about Membership: its type, that the controller keeps no row of  *)
(* a server that is gone, that it has every server that works, and that an *)
(* allocated service runs where its row says.                              *)
(*                                                                         *)
(* The three safety properties rest on the order of the controller's       *)
(* messages: the REGISTER and the last will of a server reach it in the    *)
(* order in which its lives begin and end (RowInv, KnownInv).              *)
EXTENDS Membership, TLAPS, SequenceTheorems, FiniteSetTheorems

Counts == [starts : [Servers -> Nat], faults : Nat, cuts : Nat, breaks : Nat,
           restarts : Nat, discoveries : Nat]
Types == TypeOK /\ count \in Counts

(* A process has a session from its CONNECT on, and messages while it is   *)
(* subscribed; the monitors run only in a process that lives; a controller *)
(* that is down or not connected has no messages.  Without broken           *)
(* connections of edges a process that connects has just been started.     *)
LifeInv ==
  /\ broken => ~up
  /\ ~up => toCentre = <<>>
  /\ \A s \in Servers :
       /\ proc[s] \in {"connecting", "online"} => s \in session
       /\ proc[s] # "online" => inbox[s] = <<>>
       /\ proc[s] \in {"off", "exited"} => ~ready[s]
       /\ count.cuts = 0 =>
            proc[s] # "cut" /\ (proc[s] = "connecting" => ~ready[s])

(* A row, or a REGISTER on its way, of a server without a session is       *)
(* followed by its last will, unless the controller has missed that.       *)
WillAfter(s, i) == \E j \in DOMAIN toCentre : j > i /\ toCentre[j] = Will(s)
RowInv ==
  up \/ broken =>
    /\ \A s \in rows \ (session \cup missed) : WillAfter(s, 0)
    /\ \A i \in DOMAIN toCentre, s \in Servers \ session :
         toCentre[i] = Register(s) => WillAfter(s, i)

(* A server that lives is registered or will be: by a REGISTER on its way, *)
(* which no last will follows, or once it reads a list without it, which   *)
(* is on its way or which it gets with the first one of all.               *)
Registering(s) ==
  \E i \in DOMAIN toCentre : toCentre[i] = Register(s) /\ ~WillAfter(s, i)
NoWill(s) == \A j \in DOMAIN toCentre : toCentre[j] # Will(s)
Lacks(m, s) == m.kind = "updated" /\ s \notin m.servers
Told(s) == \E i \in DOMAIN inbox[s] : Lacks(inbox[s][i], s)
Untold(s) == ~ready[s] /\ \A i \in DOMAIN inbox[s] : inbox[s][i].kind # "updated"
Known(s) == Registering(s) \/ (NoWill(s) /\ (s \in rows \/ Told(s) \/ Untold(s)))
KnownInv ==
  up /\ count.cuts = 0 =>
    \A s \in Servers : proc[s] \in {"connecting", "online"} => Known(s)

(* What a server has said to be deployed is there in its first life.       *)
Deployed(u, s) ==
  /\ count.starts[s] >= 1
  /\ count.starts[s] = 1 /\ proc[s] \in {"connecting", "online", "cut"} =>
       u \in hosts[s]
HostInv ==
  /\ \A s \in Servers : proc[s] # "off" => count.starts[s] >= 1
  /\ \A u \in Users, s \in Servers :
       /\ service[u] = [server |-> s, state |-> "running"] => Deployed(u, s)
       /\ \A i \in DOMAIN toCentre :
            toCentre[i] = Allocated(u, s) => Deployed(u, s)

MembershipInv == LifeInv /\ RowInv /\ KnownInv /\ HostInv

(* All that the controller does.                                           *)
CentreActs ==
  CentreHandles \/ CentreStops \/ CentreStarts \/ CentreDisconnects \/ CentreReconnects

-----------------------------------------------------------------------------
(* Types.                                                                  *)

(* Messages.                                                               *)
LEMMA EdgeMessageType ==
  /\ \A S \in SUBSET Servers : Updated(S) \in EdgeMessages
  /\ \A s \in Servers : Off(s) \in EdgeMessages
  /\ \A u \in Users, b \in BOOLEAN : Deploy(u, b) \in EdgeMessages
BY DEF EdgeMessages, Updated, Off, Deploy

LEMMA CentreMessageType ==
  /\ \A s \in Servers : Register(s) \in CentreMessages /\ Will(s) \in CentreMessages
  /\ \A u \in Users : Discover(u) \in CentreMessages
  /\ \A u \in Users, s \in Servers : Allocated(u, s) \in CentreMessages
BY DEF CentreMessages, Register, Will, Discover, Allocated

LEMMA Heads ==
  ASSUME TypeOK
  PROVE  /\ \A s \in Servers : inbox[s] # <<>> =>
              Head(inbox[s]) \in EdgeMessages /\ Tail(inbox[s]) \in Seq(EdgeMessages)
         /\ toCentre # <<>> =>
              Head(toCentre) \in CentreMessages /\ Tail(toCentre) \in Seq(CentreMessages)
<1>1. toCentre \in Seq(CentreMessages) /\ \A s \in Servers : inbox[s] \in Seq(EdgeMessages)
  BY DEF TypeOK
<1> QED  BY <1>1, HeadTailProperties

LEMMA SendAllType ==
  ASSUME TypeOK, NEW S, NEW m \in EdgeMessages
  PROVE  SendAll(S, m) \in [Servers -> Seq(EdgeMessages)]
<1>1. \A s \in Servers : inbox[s] \in Seq(EdgeMessages)
  BY DEF TypeOK
<1> QED  BY <1>1, AppendProperties DEF SendAll

LEMMA AtCentreType ==
  ASSUME TypeOK, NEW q \in Seq(CentreMessages)
  PROVE  AtCentre(q) \in Seq(CentreMessages)
<1>1. toCentre \in Seq(CentreMessages)
  BY DEF TypeOK
<1> QED  BY <1>1, ConcatProperties DEF AtCentre

(* A finite set can be made a sequence.                                    *)
LEMMA SetToSeqType ==
  ASSUME NEW T, NEW S \in SUBSET T, IsFiniteSet(S)
  PROVE  SetToSeq(S) \in Seq(T) /\ \A i \in DOMAIN SetToSeq(S) : SetToSeq(S)[i] \in S
<1>1. PICK n \in Nat : ExistsBijection(1 .. n, S)
  BY FS_NatBijection
<1>2. Cardinality(S) = n
  BY <1>1, FS_CountingElements
<1>3. PICK f \in [1 .. n -> S] : IsInjective(f)
  <2>1. PICK f \in Bijection(1 .. n, S) : TRUE
    BY <1>1 DEF ExistsBijection
  <2>2. f \in [1 .. n -> S] /\ IsInjective(f)
    BY <2>1 DEF Bijection, Injection, IsInjective
  <2> QED  BY <2>2
<1>4. SetToSeq(S) \in [1 .. n -> S]
  BY <1>2, <1>3 DEF SetToSeq
<1>5. SetToSeq(S) \in Seq(S)
  BY <1>4, SeqDef
<1> QED  BY <1>4, <1>5, SeqDef

LEMMA LostFinite ==
  ASSUME NEW U \in SUBSET Users, NEW b
  PROVE  IsFiniteSet({Deploy(u, b) : u \in U})
<1>1. IsFiniteSet(U)
  BY MembershipAssumption, FS_Subset
<1> DEFINE T == {Deploy(u, b) : u \in U}
           f == [u \in U |-> Deploy(u, b)]
<1>2. f \in Surjection(U, T)
  BY DEF Surjection
<1> HIDE DEF f, T
<1>3. IsFiniteSet(T)
  BY <1>1, <1>2, FS_Surjection
<1> QED  BY <1>3 DEF T

LEMMA TypeInit == Init => Types
<1> SUFFICES ASSUME Init PROVE Types
  OBVIOUS
<1>1. TypeOK
  <2>1. /\ proc \in [Servers -> Processes] /\ service \in [Users -> ServiceRows]
        /\ up \in BOOLEAN /\ broken \in BOOLEAN /\ ready \in [Servers -> BOOLEAN]
    BY DEF Init, Processes, ServiceRows, NoService
  <2>2. /\ neighbors \in [Servers -> SUBSET Servers] /\ hosts \in [Servers -> SUBSET Users]
        /\ inbox \in [Servers -> Seq(EdgeMessages)] /\ session \subseteq Servers
        /\ watches \in [Servers -> SUBSET Users] /\ rows \subseteq Servers
        /\ toCentre \in Seq(CentreMessages) /\ missed \subseteq Servers
        /\ redeployed \subseteq Users \X Servers \X Servers
    BY DEF Init
  <2> QED  BY <2>1, <2>2 DEF TypeOK
<1>2. count \in Counts
  BY DEF Init, Counts
<1> QED  BY <1>1, <1>2 DEF Types

LEMMA TypeEdge ==
  ASSUME Types, NEW s \in Servers,
         \/ EdgeStarts(s) \/ EdgeSubscribes(s) \/ EdgeReconnects(s)
         \/ EdgeHandles(s) \/ BrokerNotices(s) \/ Faults(s)
  PROVE  Types'
<1> USE DEF Types, edgeVars, brokerVars, dbVars, linkVars
<1>1. /\ Off(s) \in EdgeMessages
      /\ \A S : SendAll(S, Off(s)) \in [Servers -> Seq(EdgeMessages)]
  BY EdgeMessageType, SendAllType
<1>2. /\ AtCentre(<<Will(s)>>) \in Seq(CentreMessages)
      /\ AtCentre(<<Register(s)>>) \in Seq(CentreMessages)
      /\ AtCentre(<<Will(s)>> \o <<Register(s)>>) \in Seq(CentreMessages)
      /\ AtCentre(<<>> \o <<Register(s)>>) \in Seq(CentreMessages)
      /\ AtCentre(<<Will(s)>> \o <<>>) \in Seq(CentreMessages)
      /\ AtCentre(<<>> \o <<>>) \in Seq(CentreMessages)
      /\ \A u \in Users : AtCentre(<<Allocated(u, s)>>) \in Seq(CentreMessages)
  <2>1. /\ <<>> \in Seq(CentreMessages)
        /\ \A m \in CentreMessages : <<m>> \in Seq(CentreMessages)
        /\ \A p, q \in Seq(CentreMessages) : p \o q \in Seq(CentreMessages)
    BY ConcatProperties
  <2> QED  BY <2>1, CentreMessageType, AtCentreType
<1>3. inbox[s] # <<>> => Head(inbox[s]) \in EdgeMessages
                         /\ Tail(inbox[s]) \in Seq(EdgeMessages)
  BY Heads
<1>4. CASE BrokerNotices(s)
  BY <1>1, <1>2, <1>4 DEF BrokerNotices, TypeOK
<1>5. ASSUME NEW q, Connect(s, q), q \in {<<>>, <<Register(s)>>}
      PROVE  /\ proc' \in [Servers -> Processes] /\ session' \subseteq Servers
             /\ inbox' \in [Servers -> Seq(EdgeMessages)]
             /\ watches' \in [Servers -> SUBSET Users]
             /\ toCentre' \in Seq(CentreMessages) /\ missed' \subseteq Servers
  BY <1>1, <1>2, <1>5 DEF Connect, TypeOK, Processes
<1>6. CASE EdgeStarts(s)
  <2>1. /\ Connect(s, <<Register(s)>>)
        /\ count' = [count EXCEPT !.starts[s] = @ + 1]
        /\ UNCHANGED <<ready, neighbors, hosts, up, broken, dbVars, redeployed>>
    BY <1>6 DEF EdgeStarts
  <2>2. count' \in Counts
    BY <2>1 DEF Counts
  <2> QED  BY <1>5, <2>1, <2>2 DEF TypeOK
<1>7. CASE EdgeReconnects(s)
  BY <1>5, <1>7 DEF EdgeReconnects, TypeOK
<1>8. ASSUME NEW how \in Processes, Ends(s, how)
      PROVE  /\ proc' \in [Servers -> Processes] /\ ready' \in [Servers -> BOOLEAN]
             /\ neighbors' \in [Servers -> SUBSET Servers]
             /\ hosts' \in [Servers -> SUBSET Users]
             /\ inbox' \in [Servers -> Seq(EdgeMessages)]
  BY <1>8 DEF Ends, TypeOK
<1>9. CASE EdgeCrashes(s)
  <2>1. count' \in Counts
    BY <1>9 DEF EdgeCrashes, Counts
  <2> QED  BY <1>8, <1>9, <2>1 DEF EdgeCrashes, TypeOK, Processes
<1>10. CASE EdgeFails(s)
  BY <1>8, <1>10 DEF EdgeFails, TypeOK, Processes
<1>11. CASE EdgeSubscribes(s)
  BY <1>11 DEF EdgeSubscribes, TypeOK, Processes
<1>12. CASE ConnectionBreaks(s)
  <2>1. count' = [count EXCEPT !.cuts = @ + 1]
    BY <1>12 DEF ConnectionBreaks
  <2>2. count' \in Counts
    BY <2>1 DEF Counts
  <2> QED  BY <1>12, <2>2 DEF ConnectionBreaks, TypeOK, Processes
<1>13. CASE EdgeUpdates(s)
  <2>1. /\ inbox[s] # <<>> /\ Head(inbox[s]).kind = "updated"
        /\ inbox' = [inbox EXCEPT ![s] = Tail(@)]
        /\ neighbors' = [neighbors EXCEPT ![s] = @ \cup (Head(inbox[s]).servers \ {s})]
        /\ ready' = [ready EXCEPT ![s] = TRUE]
        /\ toCentre' \in {toCentre, AtCentre(<<Register(s)>>)}
        /\ UNCHANGED <<proc, hosts, brokerVars, up, linkVars, dbVars, redeployed, count>>
    BY <1>13 DEF EdgeUpdates, EdgeTakes
  <2>2. Head(inbox[s]).servers \subseteq Servers
    BY <1>3, <2>1 DEF EdgeMessages
  <2> QED  BY <1>2, <1>3, <2>1, <2>2 DEF TypeOK
<1>14. CASE EdgeForgets(s)
  BY <1>3, <1>14 DEF EdgeForgets, EdgeTakes, TypeOK
<1>15. CASE EdgeDeploys(s)
  <2>1. PICK u \in Users : u = Head(inbox[s]).user
    BY <1>3, <1>15 DEF EdgeDeploys, EdgeTakes, EdgeMessages
  <2> QED  BY <1>2, <1>3, <1>15, <2>1 DEF EdgeDeploys, EdgeTakes, TypeOK
<1> QED  BY <1>4, <1>6, <1>7, <1>9, <1>10, <1>11, <1>12, <1>13, <1>14, <1>15
         DEF EdgeHandles, Faults

LEMMA TypeCentre ==
  ASSUME Types, CentreActs
  PROVE  Types'
<1> USE DEF Types, edgeVars, brokerVars, dbVars, linkVars
<1>1. toCentre # <<>> => Head(toCentre) \in CentreMessages
                         /\ Tail(toCentre) \in Seq(CentreMessages)
  BY Heads
<1>2. rows \subseteq Servers /\ service \in [Users -> ServiceRows]
  BY DEF TypeOK
<1>3. ASSUME CentreExits, UNCHANGED <<edgeVars, brokerVars, missed, count>>
      PROVE  Types'
  <2>1. <<>> \in Seq(CentreMessages) /\ FALSE \in BOOLEAN
    OBVIOUS
  <2> QED  BY <1>3, <2>1 DEF CentreExits, TypeOK
<1>4. CASE CentreRegisters
  <2>1. PICK s \in Servers : s = Head(toCentre).server
    BY <1>1, <1>4 DEF CentreRegisters, CentreTakes, CentreMessages
  <2>2. SendAll(Online, Updated(rows \cup {s})) \in [Servers -> Seq(EdgeMessages)]
    BY <1>2, EdgeMessageType, SendAllType
  <2> QED  BY <1>1, <1>4, <2>1, <2>2 DEF CentreRegisters, CentreTakes, TypeOK
<1>5. CASE CentreLosesEdge
  <2> DEFINE s == Head(toCentre).server
             lost == {u \in Users : service[u].server = s}
  <2>1. s \in Servers
    BY <1>1, <1>5 DEF CentreLosesEdge, CentreTakes, CentreMessages
  <2>2. ASSUME NEW P \in [lost -> rows],
               inbox' = [x \in Servers |->
                     IF x \notin Online THEN inbox[x]
                     ELSE inbox[x] \o
                       SetToSeq({Deploy(u, FALSE) : u \in {v \in lost : P[v] = x}})],
               redeployed' = redeployed \cup {<<u, s, P[u]>> : u \in lost},
               service' = service, rows' = rows \ {s}, toCentre' = Tail(toCentre),
               UNCHANGED <<up, linkVars, edgeVars, brokerVars, count>>
        PROVE  Types'
    <3>1. ASSUME NEW x \in Servers
          PROVE  inbox[x] \o SetToSeq({Deploy(u, FALSE) : u \in {v \in lost : P[v] = x}})
                   \in Seq(EdgeMessages)
      <4> DEFINE U == {v \in lost : P[v] = x}
                 M == {Deploy(u, FALSE) : u \in U}
      <4>1. IsFiniteSet(M) /\ M \in SUBSET EdgeMessages
        BY LostFinite, EdgeMessageType
      <4> HIDE DEF M
      <4>2. SetToSeq(M) \in Seq(EdgeMessages)
        BY <4>1, SetToSeqType
      <4>3. inbox[x] \o SetToSeq(M) \in Seq(EdgeMessages)
        BY <4>2, ConcatProperties DEF TypeOK
      <4> QED  BY <4>3 DEF M
    <3>2. inbox' \in [Servers -> Seq(EdgeMessages)]
      BY <2>2, <3>1 DEF TypeOK
    <3>3. redeployed' \subseteq Users \X Servers \X Servers
      <4>1. \A u \in lost : P[u] \in Servers
        BY <1>2, <2>2
      <4> QED  BY <2>1, <2>2, <4>1 DEF TypeOK
    <3>4. toCentre' \in Seq(CentreMessages)
      BY <1>1, <1>5, <2>2 DEF CentreLosesEdge, CentreTakes
    <3> QED  BY <2>2, <3>2, <3>3, <3>4 DEF TypeOK
  <2>3. UNCHANGED <<edgeVars, brokerVars, missed, count>>
    BY <1>5 DEF CentreLosesEdge
  <2>4. CASE CentreExits
    BY <1>3, <2>3, <2>4
  <2>5. CASE ~CentreExits
    <3>1. PICK P \in [lost -> rows] :
            /\ inbox' = [x \in Servers |->
                  IF x \notin Online THEN inbox[x]
                  ELSE inbox[x] \o
                    SetToSeq({Deploy(u, FALSE) : u \in {v \in lost : P[v] = x}})]
            /\ redeployed' = redeployed \cup {<<u, s, P[u]>> : u \in lost}
            /\ service' = service /\ rows' = rows \ {s}
            /\ toCentre' = Tail(toCentre) /\ UNCHANGED <<up, broken>>
      BY <1>5, <2>5 DEF CentreLosesEdge, AfterLoss
    <3> QED  BY <2>2, <2>3, <3>1
  <2> QED  BY <2>4, <2>5
<1>6. CASE CentreDiscovers
  <2>1. PICK u \in Users : u = Head(toCentre).user
    BY <1>1, <1>6 DEF CentreDiscovers, CentreTakes, CentreMessages
  <2>2. /\ \A S : SendAll(S, Deploy(u, TRUE)) \in [Servers -> Seq(EdgeMessages)]
        /\ Places(u) \subseteq Servers
    BY <1>2, EdgeMessageType, SendAllType DEF Places
  <2>3. \/ CentreExits
        \/ /\ toCentre' = Tail(toCentre) /\ UNCHANGED <<up, broken, rows, redeployed>>
           /\ \/ UNCHANGED inbox
              \/ \E S : inbox' = SendAll(S, Deploy(u, TRUE))
           /\ \/ UNCHANGED service
              \/ \E s \in Places(u) :
                   service' = [service EXCEPT ![u] = [server |-> s, state |-> "init"]]
    BY <1>6, <2>1 DEF CentreDiscovers
  <2>4. toCentre # <<>> /\ UNCHANGED <<edgeVars, brokerVars, missed, count>>
    BY <1>6 DEF CentreDiscovers, CentreTakes
  <2>5. CASE CentreExits
    BY <1>3, <2>4, <2>5
  <2>6. CASE ~CentreExits
    <3>1. inbox' \in [Servers -> Seq(EdgeMessages)]
      BY <2>2, <2>3, <2>6 DEF TypeOK
    <3>2. service' \in [Users -> ServiceRows]
      <4>1. \A s \in Servers : [server |-> s, state |-> "init"] \in ServiceRows
        BY DEF ServiceRows
      <4> QED  BY <1>2, <2>2, <2>3, <2>6, <4>1
    <3> QED  BY <1>1, <2>3, <2>4, <2>6, <3>1, <3>2 DEF TypeOK
  <2> QED  BY <2>5, <2>6
<1>7. CASE CentreAllocates
  <2>1. PICK u \in Users, s \in Servers :
          u = Head(toCentre).user /\ s = Head(toCentre).server
    BY <1>1, <1>7 DEF CentreAllocates, CentreTakes, CentreMessages
  <2>2. toCentre # <<>> /\ UNCHANGED <<edgeVars, brokerVars, missed, count>>
    BY <1>7 DEF CentreAllocates, CentreTakes
  <2>3. CASE CentreExits
    BY <1>3, <2>2, <2>3
  <2>4. CASE ~CentreExits
    <3>1. /\ service' = [service EXCEPT ![u] =
                [server |-> s,
                 state |-> IF @.state = "none" THEN "orphan" ELSE "running"]]
          /\ toCentre' = Tail(toCentre)
          /\ UNCHANGED <<up, broken, rows, inbox, redeployed>>
      BY <1>7, <2>1, <2>4 DEF CentreAllocates
    <3>2. service' \in [Users -> ServiceRows]
      BY <1>2, <3>1 DEF ServiceRows
    <3> QED  BY <1>1, <2>2, <3>1, <3>2 DEF TypeOK
  <2> QED  BY <2>3, <2>4
<1>8. CASE CentreStops
  BY <1>3, <1>8 DEF CentreStops
<1>9. CASE CentreStarts
  <2>1. SendAll(Online, Updated({})) \in [Servers -> Seq(EdgeMessages)]
    BY EdgeMessageType, SendAllType
  <2>2. count' \in Counts
    BY <1>9 DEF CentreStarts, Counts
  <2> QED  BY <1>9, <2>1, <2>2
           DEF CentreStarts, NewTables, TypeOK, ServiceRows, NoService
<1>10. CASE CentreDisconnects
  <2>1. count' \in Counts /\ <<>> \in Seq(CentreMessages)
    BY <1>10 DEF CentreDisconnects, Counts
  <2>2. missed' \subseteq Servers /\ up' \in BOOLEAN /\ broken' \in BOOLEAN
    BY <1>10 DEF CentreDisconnects, TypeOK
  <2> QED  BY <1>10, <2>1, <2>2 DEF CentreDisconnects, TypeOK
<1>11. CASE CentreReconnects
  <2>1. SendAll(Online, Updated(rows)) \in [Servers -> Seq(EdgeMessages)]
    BY <1>2, EdgeMessageType, SendAllType
  <2> QED  BY <1>11, <2>1 DEF CentreReconnects, TypeOK
<1> QED  BY <1>4, <1>5, <1>6, <1>7, <1>8, <1>9, <1>10, <1>11
         DEF CentreActs, CentreHandles

LEMMA TypeStep ==
  ASSUME Types, [Next]_vars
  PROVE  Types'
<1>1. CASE UNCHANGED vars
  BY <1>1 DEF vars, Types, TypeOK, edgeVars, brokerVars, dbVars, linkVars
<1>2. ASSUME NEW u \in Users, UserDiscovers(u)
      PROVE  Types'
  <2>1. count' \in Counts
    BY <1>2 DEF UserDiscovers, Types, Counts
  <2>2. toCentre' \in Seq(CentreMessages)
    <3>1. TypeOK /\ <<Discover(u)>> \in Seq(CentreMessages)
      BY CentreMessageType DEF Types
    <3> QED  BY <1>2, <3>1, AtCentreType DEF UserDiscovers
  <2> QED  BY <1>2, <2>1, <2>2
           DEF UserDiscovers, Types, TypeOK, edgeVars, brokerVars, dbVars, linkVars
<1> QED  BY <1>1, <1>2, TypeEdge, TypeCentre DEF Next, CentreActs

(* Every variable keeps its type.                                          *)
THEOREM TypeCorrect == Spec => [](TypeOK /\ count \in Counts)
<1>1. Init => Types
  BY TypeInit
<1>2. Types /\ [Next]_vars => Types'
  BY TypeStep
<1>3. Types <=> TypeOK /\ count \in Counts
  BY DEF Types
<1> QED  BY <1>1, <1>2, <1>3, PTL DEF Spec

-----------------------------------------------------------------------------
(* The controller's queue.                                                 *)

LEMMA CentreAppend ==
  ASSUME TypeOK, NEW q \in Seq(CentreMessages), toCentre' = toCentre \o q
  PROVE  /\ Len(toCentre) \in Nat /\ DOMAIN toCentre = 1 .. Len(toCentre)
         /\ Len(q) \in Nat /\ DOMAIN q = 1 .. Len(q)
         /\ DOMAIN toCentre' = 1 .. Len(toCentre) + Len(q)
         /\ \A i \in DOMAIN toCentre : toCentre'[i] = toCentre[i]
         /\ \A j \in DOMAIN q : toCentre'[Len(toCentre) + j] = q[j]
<1>1. toCentre \in Seq(CentreMessages)
  BY DEF TypeOK
<1>2. /\ Len(toCentre) \in Nat /\ DOMAIN toCentre = 1 .. Len(toCentre)
      /\ Len(q) \in Nat /\ DOMAIN q = 1 .. Len(q)
  BY <1>1, LenProperties
<1>3. /\ toCentre' \in Seq(CentreMessages)
      /\ Len(toCentre') = Len(toCentre) + Len(q)
      /\ \A i \in 1 .. Len(toCentre) + Len(q) :
           toCentre'[i] = IF i <= Len(toCentre) THEN toCentre[i]
                          ELSE q[i - Len(toCentre)]
  BY <1>1, ConcatProperties
<1>4. DOMAIN toCentre' = 1 .. Len(toCentre) + Len(q)
  BY <1>3, LenProperties
<1>5. \A i \in DOMAIN toCentre : toCentre'[i] = toCentre[i]
  BY <1>2, <1>3
<1>6. ASSUME NEW j \in DOMAIN q PROVE toCentre'[Len(toCentre) + j] = q[j]
  <2>1. /\ Len(toCentre) + j \in 1 .. Len(toCentre) + Len(q)
        /\ ~(Len(toCentre) + j <= Len(toCentre))
        /\ (Len(toCentre) + j) - Len(toCentre) = j
    BY <1>2
  <2> QED  BY <1>3, <2>1
<1> QED  BY <1>2, <1>4, <1>5, <1>6

LEMMA CentreTail ==
  ASSUME TypeOK, toCentre # <<>>, toCentre' = Tail(toCentre)
  PROVE  /\ Len(toCentre) \in Nat /\ DOMAIN toCentre = 1 .. Len(toCentre)
         /\ Head(toCentre) = toCentre[1] /\ 1 \in DOMAIN toCentre
         /\ DOMAIN toCentre' = 1 .. Len(toCentre) - 1
         /\ \A i \in DOMAIN toCentre' : toCentre'[i] = toCentre[i + 1]
<1>1. toCentre \in Seq(CentreMessages)
  BY DEF TypeOK
<1>2. /\ Len(toCentre) \in Nat /\ DOMAIN toCentre = 1 .. Len(toCentre)
      /\ Len(toCentre) # 0
  BY <1>1, LenProperties, EmptySeq
<1>3. /\ toCentre' \in Seq(CentreMessages) /\ Len(toCentre') = Len(toCentre) - 1
      /\ Head(toCentre) = toCentre[1]
      /\ \A i \in 1 .. Len(toCentre') : toCentre'[i] = toCentre[i + 1]
  BY <1>1, HeadTailProperties
<1> QED  BY <1>2, <1>3, LenProperties

(* What a step adds to the queue, if the controller is up to get it.       *)
LEMMA Sends ==
  ASSUME NEW q, up, toCentre' = AtCentre(q)
  PROVE  toCentre' = toCentre \o q
BY DEF AtCentre

LEMMA ConnectSends ==
  ASSUME NEW s \in Servers, NEW p \in {<<>>, <<Register(s)>>}, Connect(s, p)
  PROVE  \E q \in Seq(CentreMessages) :
           /\ toCentre' = AtCentre(q)
           /\ \A j \in DOMAIN q : q[j] = Will(s) \/ q[j] = Register(s)
           /\ p # <<>> => Len(q) \in DOMAIN q /\ q[Len(q)] = Register(s)
<1>1. p \in Seq(CentreMessages) /\ <<Will(s)>> \in Seq(CentreMessages)
  <2>1. /\ <<>> \in Seq(CentreMessages)
        /\ \A m \in CentreMessages : <<m>> \in Seq(CentreMessages)
    OBVIOUS
  <2> QED  BY <2>1, CentreMessageType
<1>2. \A j \in DOMAIN p : p[j] = Register(s)
  OBVIOUS
<1>3. p # <<>> => Len(p) \in DOMAIN p /\ p[Len(p)] = Register(s)
  OBVIOUS
<1>4. CASE s \notin session
  <2>1. <<>> \o p = p
    BY <1>1, ConcatEmptySeq
  <2> QED  BY <1>1, <1>2, <1>3, <1>4, <2>1 DEF Connect
<1>5. CASE s \in session
  <2> DEFINE w == <<Will(s)>>
             q == w \o p
  <2>1. Len(w) = 1 /\ w[1] = Will(s) /\ Len(p) \in {0, 1} /\ DOMAIN p = 1 .. Len(p)
    OBVIOUS
  <2>2. w \in Seq(CentreMessages)
    BY <1>1
  <2> HIDE DEF w
  <2>3. q \in Seq(CentreMessages) /\ Len(q) = 1 + Len(p)
        /\ \A i \in 1 .. 1 + Len(p) : q[i] = IF i <= 1 THEN w[i] ELSE p[i - 1]
    <3>1. q \in Seq(CentreMessages) /\ Len(q) = Len(w) + Len(p)
          /\ \A i \in 1 .. Len(w) + Len(p) :
               q[i] = IF i <= Len(w) THEN w[i] ELSE p[i - Len(w)]
      BY <1>1, <2>2, ConcatProperties
    <3> QED  BY <2>1, <3>1
  <2>4. toCentre' = AtCentre(q)
    BY <1>5 DEF Connect, w
  <2> HIDE DEF q
  <2>5. DOMAIN q = 1 .. 1 + Len(p)
    BY <2>3, LenProperties
  <2>6. ASSUME NEW j \in DOMAIN q PROVE q[j] = Will(s) \/ q[j] = Register(s)
    <3>1. CASE j = 1
      BY <2>1, <2>3, <2>5, <3>1
    <3>2. CASE j # 1
      <4>1. j - 1 \in DOMAIN p /\ q[j] = p[j - 1]
        BY <2>1, <2>3, <2>5, <3>2
      <4> QED  BY <1>2, <4>1
    <3> QED  BY <3>1, <3>2
  <2>7. ASSUME p # <<>> PROVE Len(q) \in DOMAIN q /\ q[Len(q)] = Register(s)
    <3>1. Len(p) = 1
      BY <2>7, <1>1, <2>1, EmptySeq
    <3>2. Len(q) = 2 /\ 2 \in DOMAIN q /\ q[2] = p[1]
      BY <2>3, <2>5, <3>1
    <3> QED  BY <1>3, <2>7, <3>1, <3>2
  <2> QED  BY <2>3, <2>4, <2>6, <2>7
<1> QED  BY <1>4, <1>5

LEMMA Kinds ==
  /\ \A s : /\ Will(s).kind = "will" /\ Will(s).server = s
            /\ Register(s).kind = "register" /\ Register(s).server = s
  /\ \A u : Discover(u).kind = "discover"
  /\ \A u, s : /\ Allocated(u, s).kind = "allocated"
               /\ Allocated(u, s).user = u /\ Allocated(u, s).server = s
BY DEF Will, Register, Discover, Allocated

-----------------------------------------------------------------------------
(* Lives.                                                                  *)
LEMMA LifeSame ==
  ASSUME LifeInv, UNCHANGED <<edgeVars, inbox, session, up, broken, toCentre, count>>
  PROVE  LifeInv'
BY DEF LifeInv, edgeVars

(* A message sent to subscribers reaches no other process.                 *)
LEMMA SendAllAt ==
  ASSUME NEW S, NEW m, NEW s \in Servers
  PROVE  /\ s \in S => SendAll(S, m)[s] = Append(inbox[s], m)
         /\ s \notin S => SendAll(S, m)[s] = inbox[s]
BY DEF SendAll

LEMMA LifeEdge ==
  ASSUME Types, LifeInv, NEW s \in Servers,
         \/ EdgeStarts(s) \/ EdgeSubscribes(s) \/ EdgeReconnects(s)
         \/ EdgeHandles(s) \/ BrokerNotices(s) \/ Faults(s)
  PROVE  LifeInv'
<1> USE DEF edgeVars, brokerVars, dbVars, linkVars
<1>1. /\ proc \in [Servers -> Processes] /\ ready \in [Servers -> BOOLEAN]
      /\ inbox \in [Servers -> Seq(EdgeMessages)] /\ count \in Counts
  BY DEF Types, TypeOK
<1>2. \A q : ~up => AtCentre(q) = <<>>
  BY DEF LifeInv, AtCentre
<1>3. \A x \in Servers \ Online : SendAll(Online \ {s}, Off(s))[x] = inbox[x]
  BY SendAllAt
<1>4. CASE EdgeStarts(s)
  <2>1. count'.cuts = count.cuts
    BY <1>1, <1>4 DEF EdgeStarts, Counts
  <2> QED  BY <1>1, <1>2, <1>3, <1>4, <2>1
           DEF EdgeStarts, Connect, LifeInv, Online
<1>5. CASE EdgeReconnects(s)
  BY <1>1, <1>2, <1>3, <1>5 DEF EdgeReconnects, Connect, LifeInv, Online
<1>6. CASE BrokerNotices(s)
  BY <1>1, <1>2, <1>3, <1>6 DEF BrokerNotices, LifeInv, Online
<1>7. CASE EdgeSubscribes(s)
  BY <1>1, <1>7 DEF EdgeSubscribes, LifeInv
<1>8. CASE EdgeCrashes(s)
  <2>1. count'.cuts = count.cuts
    BY <1>1, <1>8 DEF EdgeCrashes, Counts
  <2> QED  BY <1>1, <1>8, <2>1 DEF EdgeCrashes, Ends, LifeInv
<1>9. CASE ConnectionBreaks(s)
  <2>1. count' = [count EXCEPT !.cuts = @ + 1]
    BY <1>9 DEF ConnectionBreaks
  <2>2. count'.cuts # 0
    BY <1>1, <2>1 DEF Counts
  <2> QED  BY <1>1, <1>9, <2>2 DEF ConnectionBreaks, LifeInv
<1>10. CASE EdgeUpdates(s)
  BY <1>1, <1>2, <1>10 DEF EdgeUpdates, EdgeTakes, LifeInv
<1>11. CASE EdgeForgets(s)
  BY <1>1, <1>11 DEF EdgeForgets, EdgeTakes, LifeInv
<1>12. CASE EdgeDeploys(s)
  BY <1>1, <1>2, <1>12 DEF EdgeDeploys, EdgeTakes, LifeInv
<1>13. CASE EdgeFails(s)
  BY <1>1, <1>13 DEF EdgeFails, Ends, LifeInv
<1> QED  BY <1>4, <1>5, <1>6, <1>7, <1>8, <1>9, <1>10, <1>11, <1>12, <1>13
         DEF EdgeHandles, Faults

(* The controller's steps: its messages go to subscribers only.            *)
LEMMA CentreEffect ==
  ASSUME Types, CentreActs
  PROVE  /\ UNCHANGED <<edgeVars, brokerVars>>
         /\ count'.cuts = count.cuts /\ count'.starts = count.starts
         /\ ~up' => toCentre' = <<>>
         /\ (broken => ~up) => (broken' => ~up')
         /\ \A x \in Servers \ Online : inbox'[x] = inbox[x]
<1> USE DEF edgeVars, brokerVars, dbVars, linkVars
<1>1. CASE CentreExits /\ UNCHANGED <<edgeVars, brokerVars, count>>
  BY <1>1 DEF CentreExits
<1>2. CASE CentreRegisters
  BY <1>2, SendAllAt DEF CentreRegisters, CentreTakes
<1>3. CASE CentreLosesEdge /\ ~CentreExits
  <2>1. up' = up /\ up /\ UNCHANGED <<broken, edgeVars, brokerVars, count>>
    BY <1>3 DEF CentreLosesEdge, CentreTakes
  <2>2. \A x \in Servers \ Online : inbox'[x] = inbox[x]
    BY <1>3 DEF CentreLosesEdge
  <2> QED  BY <2>1, <2>2
<1>4. CASE CentreDiscovers /\ ~CentreExits
  <2>1. up' = up /\ up /\ UNCHANGED <<broken, edgeVars, brokerVars, count>>
    BY <1>4 DEF CentreDiscovers, CentreTakes
  <2>2. inbox' = inbox \/ \E S, m : inbox' = SendAll(Online \cap S, m)
    BY <1>4 DEF CentreDiscovers
  <2>3. \A x \in Servers \ Online : inbox'[x] = inbox[x]
    BY <2>2 DEF SendAll
  <2> QED  BY <2>1, <2>3
<1>5. CASE CentreAllocates /\ ~CentreExits
  <2>1. up' = up /\ up /\ UNCHANGED <<broken, edgeVars, brokerVars, count, inbox>>
    BY <1>5 DEF CentreAllocates, CentreTakes
  <2> QED  BY <2>1
<1>6. CASE CentreStarts
  <2>1. count' = [count EXCEPT !.restarts = @ + 1]
    BY <1>6 DEF CentreStarts
  <2>2. count'.cuts = count.cuts /\ count'.starts = count.starts
    BY <2>1 DEF Types, Counts
  <2> QED  BY <1>6, <2>2, SendAllAt DEF CentreStarts
<1>7. CASE CentreDisconnects
  <2>1. count' = [count EXCEPT !.breaks = @ + 1]
    BY <1>7 DEF CentreDisconnects
  <2>2. count'.cuts = count.cuts /\ count'.starts = count.starts
    BY <2>1 DEF Types, Counts
  <2> QED  BY <1>7, <2>2 DEF CentreDisconnects
<1>8. CASE CentreReconnects
  BY <1>8, SendAllAt DEF CentreReconnects
<1>9. CentreExits /\ (CentreLosesEdge \/ CentreDiscovers \/ CentreAllocates \/ CentreStops)
        => UNCHANGED <<edgeVars, brokerVars, count>>
  BY DEF CentreLosesEdge, CentreDiscovers, CentreAllocates, CentreStops
<1> QED  BY <1>1, <1>2, <1>3, <1>4, <1>5, <1>6, <1>7, <1>8, <1>9
         DEF CentreActs, CentreHandles, CentreStops

LEMMA LifeStep ==
  ASSUME Types, LifeInv, [Next]_vars
  PROVE  LifeInv'
<1>1. CASE UNCHANGED vars
  BY <1>1, LifeSame DEF vars, brokerVars, linkVars
<1>2. CASE CentreActs
  BY <1>2, CentreEffect DEF LifeInv, Online, edgeVars, brokerVars
<1>3. ASSUME NEW u \in Users, UserDiscovers(u)
      PROVE  LifeInv'
  <2>1. count' = [count EXCEPT !.discoveries = @ + 1]
    BY <1>3 DEF UserDiscovers
  <2>2. count'.cuts = count.cuts
    BY <2>1 DEF Types, Counts
  <2> QED  BY <1>3, <2>2
           DEF UserDiscovers, AtCentre, LifeInv, edgeVars, brokerVars, linkVars
<1> QED  BY <1>1, <1>2, <1>3, LifeEdge DEF Next, CentreActs

-----------------------------------------------------------------------------
(* Rows.                                                                   *)

(* A REGISTER is sent by a server with a session, and a session ends with  *)
(* a last will.                                                            *)
LEMMA RowAppend ==
  ASSUME TypeOK, RowInv, up, NEW q \in Seq(CentreMessages), toCentre' = toCentre \o q,
         rows' = rows, missed \subseteq missed' \cup session',
         \A s \in session \ session' : \E j \in DOMAIN q : q[j] = Will(s),
         \A j \in DOMAIN q, s \in Servers : q[j] = Register(s) => s \in session'
  PROVE  RowInv'
<1> DEFINE n == Len(toCentre)
<1>1. /\ n \in Nat /\ DOMAIN toCentre = 1 .. n
      /\ Len(q) \in Nat /\ DOMAIN q = 1 .. Len(q)
      /\ DOMAIN toCentre' = 1 .. n + Len(q)
      /\ \A i \in DOMAIN toCentre : toCentre'[i] = toCentre[i]
      /\ \A j \in DOMAIN q : toCentre'[n + j] = q[j]
  BY CentreAppend
<1> HIDE DEF n
<1>2. ASSUME NEW s, NEW i, WillAfter(s, i) PROVE WillAfter(s, i)'
  <2>1. DOMAIN toCentre \subseteq DOMAIN toCentre'
    BY <1>1
  <2> QED  BY <1>1, <1>2, <2>1 DEF WillAfter
<1>3. ASSUME NEW s \in session \ session', NEW i \in 0 .. n PROVE WillAfter(s, i)'
  <2>1. PICK j \in DOMAIN q : q[j] = Will(s)
    BY <1>3
  <2>2. n + j \in DOMAIN toCentre' /\ n + j > i
    BY <1>1
  <2> QED  BY <1>1, <2>1, <2>2 DEF WillAfter
<1>4. \A s \in rows' \ (session' \cup missed') : WillAfter(s, 0)'
  <2>1. 0 \in 0 .. n
    BY <1>1
  <2> QED  BY <1>2, <1>3, <2>1 DEF RowInv
<1>5. ASSUME NEW i \in DOMAIN toCentre', NEW s \in Servers \ session',
             toCentre'[i] = Register(s)
      PROVE  WillAfter(s, i)'
  <2>1. CASE i \in DOMAIN toCentre
    <3>1. toCentre[i] = Register(s) /\ i \in 0 .. n
      BY <1>1, <1>5, <2>1
    <3> QED  BY <1>2, <1>3, <2>1, <3>1 DEF RowInv
  <2>2. CASE i \notin DOMAIN toCentre
    <3>1. i - n \in DOMAIN q /\ n + (i - n) = i
      BY <1>1, <2>2
    <3> QED  BY <1>1, <1>5, <3>1
  <2> QED  BY <2>1, <2>2
<1> QED  BY <1>4, <1>5 DEF RowInv

(* A row is made for a server whose REGISTER is handled, and removed with  *)
(* its last will.                                                          *)
LEMMA RowTail ==
  ASSUME TypeOK, RowInv, up, toCentre # <<>>, toCentre' = Tail(toCentre),
         session' = session, missed' = missed,
         \A s \in rows' \ rows : s \in Servers /\ Head(toCentre) = Register(s),
         \A s : Head(toCentre) = Will(s) => s \notin rows'
  PROVE  RowInv'
<1> DEFINE n == Len(toCentre)
<1>1. /\ n \in Nat /\ DOMAIN toCentre = 1 .. n
      /\ Head(toCentre) = toCentre[1] /\ 1 \in DOMAIN toCentre
      /\ DOMAIN toCentre' = 1 .. n - 1
      /\ \A i \in DOMAIN toCentre' : toCentre'[i] = toCentre[i + 1]
  BY CentreTail
<1> HIDE DEF n
<1>2. ASSUME NEW s, NEW i \in Nat, NEW j \in DOMAIN toCentre, j > i + 1,
             toCentre[j] = Will(s)
      PROVE  WillAfter(s, i)'
  <2>1. j - 1 \in DOMAIN toCentre' /\ j - 1 > i /\ (j - 1) + 1 = j
    BY <1>1, <1>2
  <2> QED  BY <1>1, <1>2, <2>1 DEF WillAfter
<1>3. ASSUME NEW s \in rows' \ (session' \cup missed')
      PROVE  WillAfter(s, 0)'
  <2>1. CASE s \in rows
    <3>1. PICK j \in DOMAIN toCentre : j > 0 /\ toCentre[j] = Will(s)
      BY <1>3, <2>1 DEF RowInv, WillAfter
    <3>2. j # 1
      BY <1>1, <1>3, <3>1
    <3>3. 0 \in Nat /\ j > 0 + 1
      BY <1>1, <3>1, <3>2
    <3> QED  BY <1>2, <3>1, <3>3
  <2>2. CASE s \notin rows
    <3>1. s \in Servers \ session /\ toCentre[1] = Register(s)
      BY <1>1, <1>3, <2>2
    <3>2. PICK j \in DOMAIN toCentre : j > 1 /\ toCentre[j] = Will(s)
      BY <1>1, <3>1 DEF RowInv, WillAfter
    <3> QED  BY <1>2, <3>2
  <2> QED  BY <2>1, <2>2
<1>4. ASSUME NEW i \in DOMAIN toCentre', NEW s \in Servers \ session',
             toCentre'[i] = Register(s)
      PROVE  WillAfter(s, i)'
  <2>1. i \in Nat /\ i + 1 \in DOMAIN toCentre /\ toCentre[i + 1] = Register(s)
    BY <1>1, <1>4
  <2>2. PICK j \in DOMAIN toCentre : j > i + 1 /\ toCentre[j] = Will(s)
    BY <1>4, <2>1 DEF RowInv, WillAfter
  <2> QED  BY <1>2, <2>1, <2>2
<1> QED  BY <1>3, <1>4 DEF RowInv

LEMMA RowSame ==
  ASSUME RowInv, UNCHANGED <<up, broken, rows, session, missed, toCentre>>
  PROVE  RowInv'
BY DEF RowInv, WillAfter

LEMMA RowSends ==
  ASSUME TypeOK, RowInv, up, NEW m \in CentreMessages, toCentre' = AtCentre(<<m>>),
         rows' = rows, missed \subseteq missed' \cup session',
         \A s \in session \ session' : m = Will(s),
         \A s \in Servers : m = Register(s) => s \in session'
  PROVE  RowInv'
<1>1. PICK q \in Seq(CentreMessages) : q = <<m>>
  <2>1. <<m>> \in Seq(CentreMessages)
    OBVIOUS
  <2> QED  BY <2>1
<1>2. DOMAIN q = {1} /\ q[1] = m
  BY <1>1
<1>3. toCentre' = toCentre \o q
  BY <1>1, Sends
<1> QED  BY <1>2, <1>3, RowAppend

LEMMA RowEdge ==
  ASSUME Types, LifeInv, RowInv, NEW s \in Servers,
         \/ EdgeStarts(s) \/ EdgeSubscribes(s) \/ EdgeReconnects(s)
         \/ EdgeHandles(s) \/ BrokerNotices(s) \/ Faults(s)
  PROVE  RowInv'
<1> USE DEF edgeVars, brokerVars, dbVars, linkVars
<1>1. TypeOK
  BY DEF Types
<1>2. up' = up /\ rows' = rows
  BY DEF EdgeStarts, EdgeSubscribes, EdgeReconnects, EdgeHandles, EdgeUpdates,
     EdgeForgets, EdgeDeploys, EdgeFails, BrokerNotices, Faults, EdgeCrashes,
     ConnectionBreaks
<1>3. CASE ~up
  <2>1. toCentre = <<>> /\ toCentre' = <<>>
    <3>1. toCentre = <<>> /\ \A q : AtCentre(q) = toCentre
      BY <1>3 DEF LifeInv, AtCentre
    <3>2. toCentre' = toCentre \/ \E q : toCentre' = AtCentre(q)
      BY DEF EdgeStarts, EdgeSubscribes, EdgeReconnects, EdgeHandles, EdgeUpdates,
         EdgeForgets, EdgeDeploys, EdgeFails, BrokerNotices, Faults, EdgeCrashes,
         ConnectionBreaks, Connect
    <3> QED  BY <3>1, <3>2
  <2>2. broken' = broken /\ (broken => session \cup missed \subseteq session' \cup missed')
    BY DEF EdgeStarts, EdgeSubscribes, EdgeReconnects, EdgeHandles, EdgeUpdates,
       EdgeForgets, EdgeDeploys, EdgeFails, BrokerNotices, Faults, EdgeCrashes,
       ConnectionBreaks, Connect
  <2> QED  BY <1>2, <1>3, <2>1, <2>2 DEF RowInv, WillAfter
<1>4. ASSUME up, missed \subseteq missed' \cup session',
             NEW q \in Seq(CentreMessages), toCentre' = AtCentre(q),
             \A x \in session \ session' : \E j \in DOMAIN q : q[j] = Will(x),
             \A j \in DOMAIN q, x \in Servers : q[j] = Register(x) => x \in session'
      PROVE  RowInv'
  BY <1>1, <1>2, <1>4, Sends, RowAppend
<1>5. CASE BrokerNotices(s)
  <2>1. /\ session' = session \ {s} /\ toCentre' = AtCentre(<<Will(s)>>)
        /\ Will(s) \in CentreMessages /\ missed \subseteq missed'
    BY <1>5, CentreMessageType DEF BrokerNotices
  <2>2. \A x \in Servers : Will(s) # Register(x)
    BY Kinds
  <2> QED  BY <1>1, <1>2, <1>3, <2>1, <2>2, RowSends
<1>6. ASSUME up, NEW p \in {<<>>, <<Register(s)>>}, Connect(s, p) PROVE RowInv'
  <2>1. PICK q \in Seq(CentreMessages) :
           /\ toCentre' = AtCentre(q)
           /\ \A j \in DOMAIN q : q[j] = Will(s) \/ q[j] = Register(s)
    BY <1>6, ConnectSends
  <2>2. session' = session \cup {s} /\ missed' = missed \ {s}
    BY <1>6 DEF Connect
  <2>3. \A j \in DOMAIN q, x \in Servers : q[j] = Register(x) => x \in session'
    BY <2>1, <2>2, Kinds
  <2> QED  BY <1>4, <1>6, <2>1, <2>2, <2>3
<1>7. CASE EdgeStarts(s) \/ EdgeReconnects(s)
  BY <1>3, <1>6, <1>7 DEF EdgeStarts, EdgeReconnects
<1>8. CASE EdgeUpdates(s)
  <2>1. session' = session /\ s \in session /\ UNCHANGED linkVars
    BY <1>8 DEF EdgeUpdates, EdgeTakes, LifeInv
  <2>2. CASE toCentre' = toCentre
    BY <1>2, <2>1, <2>2, RowSame
  <2>3. CASE toCentre' = AtCentre(<<Register(s)>>)
    <3>1. /\ Register(s) \in CentreMessages
          /\ \A x \in Servers : Register(s) = Register(x) => x \in session'
      BY <2>1, CentreMessageType, Kinds
    <3> QED  BY <1>1, <1>2, <1>3, <2>1, <2>3, <3>1, RowSends
  <2> QED  BY <1>8, <2>2, <2>3 DEF EdgeUpdates
<1>9. CASE EdgeDeploys(s)
  <2>1. PICK u \in Users : u = Head(inbox[s]).user
    BY <1>1, <1>9, Heads DEF EdgeDeploys, EdgeTakes, EdgeMessages
  <2>2. /\ session' = session /\ toCentre' = AtCentre(<<Allocated(u, s)>>)
        /\ Allocated(u, s) \in CentreMessages /\ UNCHANGED linkVars
    BY <1>9, <2>1, CentreMessageType DEF EdgeDeploys
  <2>3. \A x \in Servers : Allocated(u, s) # Register(x)
    BY Kinds
  <2> QED  BY <1>1, <1>2, <1>3, <2>2, <2>3, RowSends
<1>10. CASE EdgeSubscribes(s) \/ EdgeForgets(s) \/ EdgeFails(s) \/ Faults(s)
  BY <1>10, RowSame DEF EdgeSubscribes, EdgeForgets, EdgeFails, Faults,
     EdgeCrashes, ConnectionBreaks
<1> QED  BY <1>3, <1>5, <1>7, <1>8, <1>9, <1>10 DEF EdgeHandles

LEMMA RowCentre ==
  ASSUME Types, LifeInv, RowInv, CentreActs
  PROVE  RowInv'
<1> USE DEF edgeVars, brokerVars, dbVars, linkVars
<1>1. TypeOK
  BY DEF Types
<1>2. CASE CentreExits
  BY <1>2 DEF CentreExits, RowInv
<1>3. toCentre # <<>> => Head(toCentre) \in CentreMessages
  BY <1>1, Heads
<1>4. CASE CentreRegisters
  <2>1. /\ up /\ toCentre # <<>> /\ toCentre' = Tail(toCentre)
        /\ session' = session /\ missed' = missed
        /\ rows' = rows \cup {Head(toCentre).server}
        /\ Head(toCentre).kind = "register"
    BY <1>4 DEF CentreRegisters, CentreTakes
  <2>2. /\ Head(toCentre).server \in Servers
        /\ Head(toCentre) = Register(Head(toCentre).server)
    BY <1>3, <2>1 DEF CentreMessages, Register
  <2> QED  BY <1>1, <2>1, <2>2, Kinds, RowTail
<1>5. CASE CentreLosesEdge /\ ~CentreExits
  <2>1. /\ up /\ toCentre # <<>> /\ toCentre' = Tail(toCentre)
        /\ session' = session /\ missed' = missed
        /\ rows' = rows \ {Head(toCentre).server}
        /\ Head(toCentre).kind = "will"
    BY <1>5 DEF CentreLosesEdge, CentreTakes
  <2> QED  BY <1>1, <2>1, Kinds, RowTail
<1>6. CASE (CentreDiscovers \/ CentreAllocates) /\ ~CentreExits
  <2>1. /\ up /\ toCentre # <<>> /\ toCentre' = Tail(toCentre)
        /\ session' = session /\ missed' = missed
        /\ rows' = rows
        /\ Head(toCentre).kind \in {"discover", "allocated"}
    BY <1>6 DEF CentreDiscovers, CentreAllocates, CentreTakes
  <2> QED  BY <1>1, <2>1, Kinds, RowTail
<1>7. CASE CentreStarts
  BY <1>7 DEF CentreStarts, NewTables, RowInv, LifeInv
<1>8. CASE CentreDisconnects
  <2>1. /\ up /\ toCentre' = <<>> /\ UNCHANGED <<rows, session>>
        /\ missed' = missed \cup {s \in Servers \ session : Contains(toCentre, Will(s))}
    BY <1>8 DEF CentreDisconnects
  <2>2. ASSUME NEW s \in rows \ (session \cup missed) PROVE s \in missed'
    <3>1. PICK j \in DOMAIN toCentre : toCentre[j] = Will(s)
      BY <2>1, <2>2 DEF RowInv, WillAfter
    <3>2. Contains(toCentre, Will(s)) /\ s \in Servers
      <4>1. /\ toCentre \in Seq(CentreMessages) /\ s \in Servers
        BY <1>1, <2>2 DEF TypeOK
      <4> QED  BY <3>1, <4>1 DEF Contains
    <3> QED  BY <2>1, <2>2, <3>2
  <2> QED  BY <2>1, <2>2 DEF RowInv
<1>9. CASE CentreReconnects
  BY <1>9 DEF CentreReconnects, RowInv, WillAfter
<1> QED  BY <1>2, <1>4, <1>5, <1>6, <1>7, <1>8, <1>9
         DEF CentreActs, CentreHandles, CentreStops

LEMMA RowStep ==
  ASSUME Types, LifeInv, RowInv, [Next]_vars
  PROVE  RowInv'
<1> USE DEF edgeVars, brokerVars, dbVars, linkVars
<1>1. CASE UNCHANGED vars
  BY <1>1, RowSame DEF vars
<1>2. ASSUME NEW u \in Users, UserDiscovers(u) PROVE RowInv'
  <2>1. /\ UNCHANGED <<up, broken, missed, rows, session>>
        /\ toCentre' = AtCentre(<<Discover(u)>>) /\ Discover(u) \in CentreMessages
    BY <1>2, CentreMessageType DEF UserDiscovers
  <2>2. \A x \in Servers : Discover(u) # Register(x)
    BY Kinds
  <2>3. CASE ~up
    BY <2>1, <2>3, RowSame DEF AtCentre
  <2> QED  BY <2>1, <2>2, <2>3, RowSends DEF Types
<1> QED  BY <1>1, <1>2, RowEdge, RowCentre DEF Next, CentreActs

-----------------------------------------------------------------------------
(* The servers that live.                                                  *)

LEMMA RegisteringAppend ==
  ASSUME TypeOK, NEW s, NEW q \in Seq(CentreMessages), toCentre' = toCentre \o q
  PROVE  /\ (\A j \in DOMAIN q : q[j] # Will(s)) =>
              (Registering(s) => Registering(s)') /\ (NoWill(s) => NoWill(s)')
         /\ Len(q) \in DOMAIN q /\ q[Len(q)] = Register(s) => Registering(s)'
<1> DEFINE n == Len(toCentre)
<1>1. /\ n \in Nat /\ DOMAIN toCentre = 1 .. n
      /\ Len(q) \in Nat /\ DOMAIN q = 1 .. Len(q)
      /\ DOMAIN toCentre' = 1 .. n + Len(q)
      /\ \A i \in DOMAIN toCentre : toCentre'[i] = toCentre[i]
      /\ \A j \in DOMAIN q : toCentre'[n + j] = q[j]
  BY CentreAppend
<1> HIDE DEF n
<1>2. ASSUME NEW i \in DOMAIN toCentre', i \notin DOMAIN toCentre
      PROVE  i - n \in DOMAIN q /\ toCentre'[i] = q[i - n]
  <2>1. i - n \in DOMAIN q /\ n + (i - n) = i
    BY <1>1, <1>2
  <2> QED  BY <1>1, <2>1
<1>3. DOMAIN toCentre \subseteq DOMAIN toCentre'
  BY <1>1
<1>4. ASSUME \A j \in DOMAIN q : q[j] # Will(s)
      PROVE  (Registering(s) => Registering(s)') /\ (NoWill(s) => NoWill(s)')
  BY <1>1, <1>2, <1>3, <1>4 DEF Registering, NoWill, WillAfter
<1>5. ASSUME Len(q) \in DOMAIN q, q[Len(q)] = Register(s)
      PROVE  Registering(s)'
  <2>1. /\ n + Len(q) \in DOMAIN toCentre' /\ toCentre'[n + Len(q)] = Register(s)
        /\ \A j \in DOMAIN toCentre' : ~(j > n + Len(q))
    BY <1>1, <1>5
  <2> QED  BY <2>1 DEF Registering, WillAfter
<1> QED  BY <1>4, <1>5

LEMMA RegisteringTail ==
  ASSUME TypeOK, NEW s, toCentre # <<>>, toCentre' = Tail(toCentre)
  PROVE  /\ Registering(s) =>
              Registering(s)' \/ (Head(toCentre) = Register(s) /\ NoWill(s)')
         /\ NoWill(s) => NoWill(s)' /\ Head(toCentre) # Will(s)
<1> DEFINE n == Len(toCentre)
<1>1. /\ n \in Nat /\ DOMAIN toCentre = 1 .. n
      /\ Head(toCentre) = toCentre[1] /\ 1 \in DOMAIN toCentre
      /\ DOMAIN toCentre' = 1 .. n - 1
      /\ \A i \in DOMAIN toCentre' : toCentre'[i] = toCentre[i + 1]
  BY CentreTail
<1> HIDE DEF n
<1>2. ASSUME NEW i \in DOMAIN toCentre' PROVE i + 1 \in DOMAIN toCentre
  BY <1>1
<1>3. NoWill(s) => NoWill(s)' /\ Head(toCentre) # Will(s)
  BY <1>1, <1>2 DEF NoWill
<1>4. ASSUME NEW i \in DOMAIN toCentre, toCentre[i] = Register(s), ~WillAfter(s, i)
      PROVE  Registering(s)' \/ (Head(toCentre) = Register(s) /\ NoWill(s)')
  <2>1. CASE i = 1
    <3>1. ASSUME NEW j \in DOMAIN toCentre' PROVE toCentre'[j] # Will(s)
      <4>1. j + 1 \in DOMAIN toCentre /\ j + 1 > i
        BY <1>1, <2>1
      <4> QED  BY <1>1, <1>4, <4>1 DEF WillAfter
    <3> QED  BY <1>1, <1>4, <2>1, <3>1 DEF NoWill
  <2>2. CASE i # 1
    <3>1. i - 1 \in DOMAIN toCentre' /\ (i - 1) + 1 = i
      BY <1>1, <2>2
    <3>2. ASSUME NEW j \in DOMAIN toCentre', j > i - 1 PROVE toCentre'[j] # Will(s)
      <4>1. j + 1 \in DOMAIN toCentre /\ j + 1 > i
        BY <1>1, <3>2
      <4> QED  BY <1>1, <1>4, <4>1 DEF WillAfter
    <3> QED  BY <1>1, <1>4, <3>1, <3>2 DEF Registering, WillAfter
  <2> QED  BY <2>1, <2>2
<1> QED  BY <1>3, <1>4 DEF Registering

(* What comes to the inbox of a server, and what it has read.              *)
LEMMA InboxAppend ==
  ASSUME TypeOK, NEW s \in Servers, NEW q \in Seq(EdgeMessages),
         inbox'[s] = inbox[s] \o q
  PROVE  /\ Told(s) => Told(s)'
         /\ (\E j \in DOMAIN q : Lacks(q[j], s)) => Told(s)'
         /\ Untold(s) /\ ready'[s] = ready[s]
              /\ (\A j \in DOMAIN q : q[j].kind # "updated") => Untold(s)'
<1> DEFINE p == inbox[s]
           n == Len(p)
<1>1. p \in Seq(EdgeMessages)
  BY DEF TypeOK
<1> HIDE DEF p
<1>2. /\ n \in Nat /\ DOMAIN p = 1 .. n /\ Len(q) \in Nat /\ DOMAIN q = 1 .. Len(q)
      /\ p \o q \in Seq(EdgeMessages) /\ DOMAIN (p \o q) = 1 .. n + Len(q)
      /\ \A i \in 1 .. n + Len(q) : (p \o q)[i] = IF i <= n THEN p[i] ELSE q[i - n]
  <2>1. /\ p \o q \in Seq(EdgeMessages) /\ Len(p \o q) = n + Len(q)
        /\ \A i \in 1 .. n + Len(q) : (p \o q)[i] = IF i <= n THEN p[i] ELSE q[i - n]
    BY <1>1, ConcatProperties
  <2> QED  BY <1>1, <2>1, LenProperties
<1>3. ASSUME NEW i \in DOMAIN p PROVE i \in DOMAIN (p \o q) /\ (p \o q)[i] = p[i]
  BY <1>2
<1>4. ASSUME NEW j \in DOMAIN q
      PROVE  n + j \in DOMAIN (p \o q) /\ (p \o q)[n + j] = q[j]
  <2>1. n + j \in 1 .. n + Len(q) /\ ~(n + j <= n) /\ (n + j) - n = j
    BY <1>2
  <2> QED  BY <1>2, <2>1
<1>5. ASSUME NEW i \in DOMAIN (p \o q)
      PROVE  \/ i \in DOMAIN p /\ (p \o q)[i] = p[i]
             \/ i - n \in DOMAIN q /\ (p \o q)[i] = q[i - n]
  BY <1>2
<1>6. inbox[s] = p /\ inbox'[s] = p \o q
  BY DEF p
<1>7. (Told(s) => Told(s)') /\ ((\E j \in DOMAIN q : Lacks(q[j], s)) => Told(s)')
  BY <1>3, <1>4, <1>6 DEF Told
<1>8. Untold(s) /\ ready'[s] = ready[s]
        /\ (\A j \in DOMAIN q : q[j].kind # "updated") => Untold(s)'
  BY <1>5, <1>6 DEF Untold
<1> QED  BY <1>7, <1>8

LEMMA InboxGets ==
  ASSUME TypeOK, NEW s \in Servers, NEW m \in EdgeMessages,
         inbox'[s] = Append(inbox[s], m)
  PROVE  /\ Told(s) => Told(s)'
         /\ Lacks(m, s) => Told(s)'
         /\ Untold(s) /\ ready'[s] = ready[s] /\ m.kind # "updated" => Untold(s)'
<1>1. PICK q \in Seq(EdgeMessages) : q = <<m>>
  <2>1. <<m>> \in Seq(EdgeMessages)
    OBVIOUS
  <2> QED  BY <2>1
<1>2. DOMAIN q = {1} /\ q[1] = m
  BY <1>1
<1>3. inbox'[s] = inbox[s] \o q
  <2>1. inbox[s] \in Seq(EdgeMessages)
    BY DEF TypeOK
  <2> QED  BY <1>1, <2>1, AppendIsConcat
<1> QED  BY <1>2, <1>3, InboxAppend

LEMMA InboxTail ==
  ASSUME TypeOK, NEW s \in Servers, inbox[s] # <<>>, inbox'[s] = Tail(inbox[s])
  PROVE  /\ Told(s) /\ ~Lacks(Head(inbox[s]), s) => Told(s)'
         /\ Untold(s) /\ ready'[s] = ready[s] => Untold(s)'
         /\ Untold(s) => Head(inbox[s]).kind # "updated"
<1> DEFINE p == inbox[s]
<1>1. p \in Seq(EdgeMessages) /\ p # <<>>
  BY DEF TypeOK
<1> HIDE DEF p
<1>2. /\ Len(p) \in Nat /\ DOMAIN p = 1 .. Len(p) /\ Len(p) # 0 /\ Head(p) = p[1]
      /\ DOMAIN Tail(p) = 1 .. Len(p) - 1
      /\ \A i \in 1 .. Len(p) - 1 : Tail(p)[i] = p[i + 1]
  <2>1. Tail(p) \in Seq(EdgeMessages) /\ Len(Tail(p)) = Len(p) - 1 /\ Head(p) = p[1]
        /\ \A i \in 1 .. Len(Tail(p)) : Tail(p)[i] = p[i + 1]
    BY <1>1, HeadTailProperties
  <2> QED  BY <1>1, <2>1, LenProperties, EmptySeq
<1>3. ASSUME NEW i \in DOMAIN p, i # 1
      PROVE  i - 1 \in DOMAIN Tail(p) /\ Tail(p)[i - 1] = p[i]
  BY <1>2, <1>3
<1>4. ASSUME NEW i \in DOMAIN Tail(p)
      PROVE  i + 1 \in DOMAIN p /\ Tail(p)[i] = p[i + 1]
  BY <1>2
<1>5. inbox[s] = p /\ inbox'[s] = Tail(p) /\ 1 \in DOMAIN p
  BY <1>2 DEF p
<1> QED  BY <1>2, <1>3, <1>4, <1>5 DEF Told, Untold

(* Nothing that says that x lives is lost.                                 *)
LEMMA KnownKept ==
  ASSUME TypeOK, NEW x \in Servers, Known(x), ready'[x] = ready[x],
         x \in rows => x \in rows',
         \/ inbox'[x] = inbox[x]
         \/ \E m \in EdgeMessages : m.kind # "updated" /\ inbox'[x] = Append(inbox[x], m),
         \/ toCentre' = toCentre
         \/ \E q \in Seq(CentreMessages) :
              toCentre' = toCentre \o q /\ \A j \in DOMAIN q : q[j] # Will(x)
  PROVE  Known(x)'
<1>1. (Told(x) => Told(x)') /\ (Untold(x) => Untold(x)')
  <2>1. CASE inbox'[x] = inbox[x]
    BY <2>1 DEF Told, Untold
  <2>2. CASE inbox'[x] # inbox[x]
    BY <2>2, InboxGets
  <2> QED  BY <2>1, <2>2
<1>2. (Registering(x) => Registering(x)') /\ (NoWill(x) => NoWill(x)')
  <2>1. CASE toCentre' = toCentre
    BY <2>1 DEF Registering, NoWill, WillAfter
  <2>2. ASSUME NEW q \in Seq(CentreMessages), toCentre' = toCentre \o q,
               \A j \in DOMAIN q : q[j] # Will(x)
        PROVE  (Registering(x) => Registering(x)') /\ (NoWill(x) => NoWill(x)')
    BY <2>2, RegisteringAppend
  <2> QED  BY <2>1, <2>2
<1> QED  BY <1>1, <1>2 DEF Known

(* One message for the controller, which is up, as a sequence.             *)
LEMMA SendsOne ==
  ASSUME up, NEW m \in CentreMessages, toCentre' = AtCentre(<<m>>)
  PROVE  \E q \in Seq(CentreMessages) :
           /\ toCentre' = toCentre \o q
           /\ \A j \in DOMAIN q : q[j] = m
           /\ Len(q) \in DOMAIN q /\ q[Len(q)] = m
<1>1. PICK q \in Seq(CentreMessages) : q = <<m>>
  <2>1. <<m>> \in Seq(CentreMessages)
    OBVIOUS
  <2> QED  BY <2>1
<1>2. DOMAIN q = {1} /\ q[1] = m /\ Len(q) = 1
  BY <1>1
<1> QED  BY <1>1, <1>2, Sends

(* What a step of one edge server does to another.                         *)
LEMMA EdgeOthers ==
  ASSUME Types, up, NEW s \in Servers, NEW x \in Servers \ {s},
         \/ EdgeStarts(s) \/ EdgeSubscribes(s) \/ EdgeReconnects(s)
         \/ EdgeHandles(s) \/ BrokerNotices(s) \/ Faults(s)
  PROVE  /\ ready'[x] = ready[x] /\ proc'[x] = proc[x]
         /\ \/ inbox'[x] = inbox[x]
            \/ \E m \in EdgeMessages :
                 m.kind # "updated" /\ inbox'[x] = Append(inbox[x], m)
         /\ \/ toCentre' = toCentre
            \/ \E q \in Seq(CentreMessages) :
                 toCentre' = toCentre \o q /\ \A j \in DOMAIN q : q[j] # Will(x)
<1> USE DEF edgeVars, brokerVars, dbVars, linkVars
<1>1. /\ proc \in [Servers -> Processes] /\ ready \in [Servers -> BOOLEAN]
      /\ inbox \in [Servers -> Seq(EdgeMessages)] /\ TypeOK
  BY DEF Types, TypeOK
<1>2. Off(s) \in EdgeMessages /\ Off(s).kind # "updated"
  BY EdgeMessageType DEF Off
<1>3. inbox' = SendAll(Online \ {s}, Off(s)) =>
        \/ inbox'[x] = inbox[x]
        \/ \E m \in EdgeMessages :
             m.kind # "updated" /\ inbox'[x] = Append(inbox[x], m)
  BY <1>2, SendAllAt
<1>4. ASSUME NEW m \in CentreMessages, m # Will(x), toCentre' = AtCentre(<<m>>)
      PROVE  \E q \in Seq(CentreMessages) :
               toCentre' = toCentre \o q /\ \A j \in DOMAIN q : q[j] # Will(x)
  <2>1. PICK q \in Seq(CentreMessages) :
          toCentre' = toCentre \o q /\ \A j \in DOMAIN q : q[j] = m
    BY <1>4, SendsOne
  <2>2. \A j \in DOMAIN q : q[j] # Will(x)
    BY <1>4, <2>1
  <2> QED  BY <2>1, <2>2
<1>5. CASE BrokerNotices(s)
  <2>1. Will(s) \in CentreMessages /\ Will(s) # Will(x)
    BY CentreMessageType, Kinds
  <2>2. /\ toCentre' = AtCentre(<<Will(s)>>) /\ UNCHANGED <<ready, proc>>
        /\ inbox' = SendAll(Online \ {s}, Off(s))
    BY <1>5 DEF BrokerNotices
  <2> QED  BY <1>3, <1>4, <2>1, <2>2
<1>6. ASSUME NEW p \in {<<>>, <<Register(s)>>}, Connect(s, p), UNCHANGED ready
      PROVE  /\ ready'[x] = ready[x] /\ proc'[x] = proc[x]
             /\ \/ inbox'[x] = inbox[x]
                \/ \E m \in EdgeMessages :
                     m.kind # "updated" /\ inbox'[x] = Append(inbox[x], m)
             /\ \E q \in Seq(CentreMessages) :
                  toCentre' = toCentre \o q /\ \A j \in DOMAIN q : q[j] # Will(x)
  <2>1. PICK q \in Seq(CentreMessages) :
           /\ toCentre' = AtCentre(q)
           /\ \A j \in DOMAIN q : q[j] = Will(s) \/ q[j] = Register(s)
    BY <1>6, ConnectSends
  <2>2. toCentre' = toCentre \o q /\ \A j \in DOMAIN q : q[j] # Will(x)
    <3>1. Will(s) # Will(x) /\ Register(s) # Will(x)
      BY Kinds
    <3>2. toCentre' = toCentre \o q
      BY <2>1, Sends
    <3> QED  BY <2>1, <3>1, <3>2
  <2>3. /\ proc' = [proc EXCEPT ![s] = "connecting"]
        /\ inbox' = inbox \/ inbox' = SendAll(Online \ {s}, Off(s))
    BY <1>6 DEF Connect
  <2> QED  BY <1>1, <1>3, <1>6, <2>2, <2>3
<1>7. CASE EdgeStarts(s) \/ EdgeReconnects(s)
  BY <1>6, <1>7 DEF EdgeStarts, EdgeReconnects
<1>8. ASSUME NEW how, Ends(s, how)
      PROVE  /\ ready'[x] = ready[x] /\ proc'[x] = proc[x] /\ inbox'[x] = inbox[x]
  BY <1>1, <1>8 DEF Ends
<1>9. CASE EdgeFails(s) \/ EdgeCrashes(s)
  BY <1>8, <1>9 DEF EdgeFails, EdgeCrashes
<1>10. CASE EdgeSubscribes(s) \/ ConnectionBreaks(s) \/ EdgeForgets(s)
  BY <1>1, <1>10 DEF EdgeSubscribes, ConnectionBreaks, EdgeForgets
<1>11. CASE EdgeUpdates(s)
  <2>1. /\ ready' = [ready EXCEPT ![s] = TRUE] /\ proc' = proc
        /\ inbox' = [inbox EXCEPT ![s] = Tail(@)]
        /\ toCentre' \in {toCentre, AtCentre(<<Register(s)>>)}
    BY <1>11 DEF EdgeUpdates
  <2>2. Register(s) \in CentreMessages /\ Register(s) # Will(x)
    BY CentreMessageType, Kinds
  <2> QED  BY <1>1, <1>4, <2>1, <2>2
<1>12. CASE EdgeDeploys(s)
  <2>1. PICK u \in Users : u = Head(inbox[s]).user
    BY <1>1, <1>12, Heads DEF EdgeDeploys, EdgeTakes, EdgeMessages
  <2>2. /\ UNCHANGED <<ready, proc>> /\ toCentre' = AtCentre(<<Allocated(u, s)>>)
        /\ inbox' = [inbox EXCEPT ![s] = Tail(@)]
        /\ Allocated(u, s) \in CentreMessages /\ Allocated(u, s) # Will(x)
    BY <1>12, <2>1, CentreMessageType, Kinds DEF EdgeDeploys
  <2> QED  BY <1>1, <1>4, <2>2
<1> QED  BY <1>5, <1>7, <1>9, <1>10, <1>11, <1>12 DEF EdgeHandles, Faults

(* ... and to itself.                                                      *)
LEMMA EdgeItself ==
  ASSUME Types, LifeInv, up, NEW s \in Servers, count.cuts = 0,
         proc'[s] \in {"connecting", "online"},
         proc[s] \in {"connecting", "online"} => Known(s),
         \/ EdgeStarts(s) \/ EdgeSubscribes(s) \/ EdgeReconnects(s)
         \/ EdgeHandles(s) \/ BrokerNotices(s) \/ Faults(s)
  PROVE  Known(s)'
<1> USE DEF edgeVars, brokerVars, dbVars, linkVars
<1>1. /\ proc \in [Servers -> Processes] /\ ready \in [Servers -> BOOLEAN]
      /\ inbox \in [Servers -> Seq(EdgeMessages)] /\ TypeOK
  BY DEF Types, TypeOK
<1>2. CASE EdgeStarts(s)
  <2>1. <<Register(s)>> \in {<<>>, <<Register(s)>>} /\ <<Register(s)>> # <<>>
    OBVIOUS
  <2>2. PICK q \in Seq(CentreMessages) :
          toCentre' = AtCentre(q) /\ Len(q) \in DOMAIN q /\ q[Len(q)] = Register(s)
    BY <1>2, <2>1, ConnectSends DEF EdgeStarts
  <2>3. Registering(s)'
    BY <1>1, <2>2, Sends, RegisteringAppend
  <2> QED  BY <2>3 DEF Known
<1>3. ~EdgeReconnects(s)
  BY DEF EdgeReconnects, LifeInv
<1>4. ~BrokerNotices(s) /\ ~EdgeCrashes(s) /\ ~ConnectionBreaks(s) /\ ~EdgeFails(s)
  BY <1>1 DEF BrokerNotices, EdgeCrashes, ConnectionBreaks, EdgeFails, Ends
<1>5. CASE EdgeSubscribes(s)
  <2>1. UNCHANGED <<ready, inbox, rows, toCentre>> /\ proc[s] = "connecting"
    BY <1>5 DEF EdgeSubscribes
  <2> QED  BY <1>1, <2>1, KnownKept
<1>6. ASSUME EdgeHandles(s), ~EdgeFails(s)
      PROVE  Known(s) /\ inbox[s] # <<>> /\ inbox'[s] = Tail(inbox[s]) /\ rows' = rows
  BY <1>1, <1>6 DEF EdgeHandles, EdgeUpdates, EdgeForgets, EdgeDeploys, EdgeTakes
<1>7. CASE EdgeUpdates(s)
  <2>1. /\ Head(inbox[s]).kind = "updated" /\ EdgeHandles(s)
        /\ toCentre' = IF s \in Head(inbox[s]).servers THEN toCentre
                       ELSE AtCentre(<<Register(s)>>)
    BY <1>7 DEF EdgeUpdates, EdgeTakes, EdgeHandles, IsRegistered
  <2>2. CASE s \in Head(inbox[s]).servers
    <3>1. ~Lacks(Head(inbox[s]), s) /\ ~Untold(s)
      BY <1>1, <1>4, <1>6, <2>1, <2>2, InboxTail DEF Lacks
    <3>2. Told(s) => Told(s)'
      BY <1>1, <1>4, <1>6, <2>1, <3>1, InboxTail
    <3>3. (Registering(s) => Registering(s)') /\ (NoWill(s) => NoWill(s)')
      BY <2>1, <2>2 DEF Registering, NoWill, WillAfter
    <3> QED  BY <1>4, <1>6, <2>1, <3>1, <3>2, <3>3 DEF Known
  <2>3. CASE s \notin Head(inbox[s]).servers
    <3>1. Registering(s)'
      BY <1>1, <2>1, <2>3, CentreMessageType, SendsOne, RegisteringAppend
    <3> QED  BY <3>1 DEF Known
  <2> QED  BY <2>2, <2>3
<1>8. CASE EdgeForgets(s) \/ EdgeDeploys(s)
  <2>1. Head(inbox[s]).kind # "updated" /\ EdgeHandles(s) /\ ready' = ready
    BY <1>8 DEF EdgeForgets, EdgeDeploys, EdgeTakes, EdgeHandles
  <2>2. (Told(s) => Told(s)') /\ (Untold(s) => Untold(s)')
    BY <1>1, <1>4, <1>6, <2>1, InboxTail DEF Lacks
  <2>3. (Registering(s) => Registering(s)') /\ (NoWill(s) => NoWill(s)')
    <3>1. CASE EdgeForgets(s)
      BY <3>1 DEF EdgeForgets, Registering, NoWill, WillAfter
    <3>2. CASE EdgeDeploys(s)
      <4>1. PICK u \in Users : u = Head(inbox[s]).user
        BY <1>1, <3>2, Heads DEF EdgeDeploys, EdgeTakes, EdgeMessages
      <4>2. /\ toCentre' = AtCentre(<<Allocated(u, s)>>)
            /\ Allocated(u, s) \in CentreMessages /\ Allocated(u, s) # Will(s)
        BY <3>2, <4>1, CentreMessageType, Kinds DEF EdgeDeploys
      <4>3. PICK q \in Seq(CentreMessages) :
              toCentre' = toCentre \o q /\ \A j \in DOMAIN q : q[j] = Allocated(u, s)
        BY <4>2, SendsOne
      <4>4. \A j \in DOMAIN q : q[j] # Will(s)
        BY <4>2, <4>3
      <4> QED  BY <1>1, <4>3, <4>4, RegisteringAppend
    <3> QED  BY <1>8, <3>1, <3>2
  <2> QED  BY <1>4, <1>6, <2>1, <2>2, <2>3 DEF Known
<1> QED  BY <1>2, <1>3, <1>4, <1>5, <1>7, <1>8 DEF EdgeHandles, Faults

LEMMA KnownEdge ==
  ASSUME Types, LifeInv, KnownInv, NEW s \in Servers,
         \/ EdgeStarts(s) \/ EdgeSubscribes(s) \/ EdgeReconnects(s)
         \/ EdgeHandles(s) \/ BrokerNotices(s) \/ Faults(s)
  PROVE  KnownInv'
<1> USE DEF edgeVars, brokerVars, dbVars, linkVars
<1>1. up' = up /\ rows' = rows /\ TypeOK
  BY DEF EdgeStarts, EdgeSubscribes, EdgeReconnects, EdgeHandles, EdgeUpdates,
     EdgeForgets, EdgeDeploys, EdgeFails, BrokerNotices, Faults, EdgeCrashes,
     ConnectionBreaks, Types
<1>2. count'.cuts = 0 => count.cuts = 0
  <2>1. \/ UNCHANGED count
        \/ count' = [count EXCEPT !.starts[s] = @ + 1]
        \/ count' = [count EXCEPT !.faults = @ + 1]
        \/ count' = [count EXCEPT !.cuts = @ + 1]
    BY DEF EdgeStarts, EdgeSubscribes, EdgeReconnects, EdgeHandles, EdgeUpdates,
       EdgeForgets, EdgeDeploys, EdgeFails, BrokerNotices, Faults, EdgeCrashes,
       ConnectionBreaks
  <2> QED  BY <2>1 DEF Types, Counts
<1> SUFFICES ASSUME up', count'.cuts = 0, NEW x \in Servers,
                    proc'[x] \in {"connecting", "online"}
             PROVE  Known(x)'
  BY DEF KnownInv
<1>3. up /\ count.cuts = 0
        /\ \A y \in Servers : proc[y] \in {"connecting", "online"} => Known(y)
  BY <1>1, <1>2 DEF KnownInv
<1>4. CASE x = s
  BY <1>3, <1>4, EdgeItself
<1>5. CASE x # s
  <2>1. x \in Servers \ {s}
    BY <1>5
  <2> QED  BY <1>1, <1>3, <2>1, EdgeOthers, KnownKept
<1> QED  BY <1>4, <1>5

(* A handled REGISTER makes a row; a last will is not that of a server     *)
(* that lives, which has no last will on its way after its REGISTER.       *)
LEMMA KnownCentre ==
  ASSUME Types, LifeInv, KnownInv, CentreActs
  PROVE  KnownInv'
<1> USE DEF edgeVars, brokerVars, dbVars, linkVars
<1>1. /\ TypeOK /\ UNCHANGED <<proc, ready>> /\ count'.cuts = count.cuts
      /\ \A y \in Servers \ Online : inbox'[y] = inbox[y]
  BY CentreEffect DEF Types
<1> SUFFICES ASSUME up', count.cuts = 0, NEW x \in Servers,
                    proc[x] \in {"connecting", "online"}
             PROVE  Known(x)'
  BY <1>1 DEF KnownInv
<1>2. up => Known(x)
  BY DEF KnownInv
<1>3. ~CentreExits
  BY DEF CentreExits
<1>4. toCentre # <<>> => Head(toCentre) \in CentreMessages
  BY <1>1, Heads
<1>5. ASSUME inbox'[x] = inbox[x] \/ (\E m \in EdgeMessages :
                m.kind # "updated" /\ inbox'[x] = Append(inbox[x], m))
      PROVE  (Told(x) => Told(x)') /\ (Untold(x) => Untold(x)')
  <2>1. CASE inbox'[x] = inbox[x]
    BY <1>1, <2>1 DEF Told, Untold
  <2>2. CASE inbox'[x] # inbox[x]
    BY <1>1, <1>5, <2>2, InboxGets
  <2> QED  BY <2>1, <2>2
<1>6. CASE CentreRegisters
  <2> DEFINE R == rows \cup {Head(toCentre).server}
  <2>1. /\ up /\ toCentre # <<>> /\ toCentre' = Tail(toCentre)
        /\ rows' = R /\ inbox' = SendAll(Online, Updated(R))
        /\ Head(toCentre).kind = "register"
    BY <1>6 DEF CentreRegisters, CentreTakes
  <2>2. R \subseteq Servers
    BY <1>1, <1>4, <2>1 DEF TypeOK, CentreMessages
  <2> HIDE DEF R
  <2>3. Updated(R) \in EdgeMessages /\ (x \notin R => Lacks(Updated(R), x))
    BY <2>2, EdgeMessageType DEF Lacks, Updated
  <2>4. CASE Registering(x)
    <3>1. Registering(x)' \/ (Head(toCentre) = Register(x) /\ NoWill(x)')
      BY <1>1, <2>1, <2>4, RegisteringTail
    <3>2. Head(toCentre) = Register(x) => x \in rows'
      BY <2>1, Kinds DEF R
    <3> QED  BY <3>1, <3>2 DEF Known
  <2>5. CASE NoWill(x) /\ (x \in rows \/ Told(x) \/ Untold(x))
    <3>1. NoWill(x)'
      BY <1>1, <2>1, <2>5, RegisteringTail
    <3>2. x \in rows => x \in rows'
      BY <2>1 DEF R
    <3>3. CASE x \in Online
      <4>1. inbox'[x] = Append(inbox[x], Updated(R))
        BY <2>1, <3>3, SendAllAt
      <4>2. (Told(x) => Told(x)') /\ (x \notin rows' => Told(x)')
        BY <1>1, <2>1, <2>3, <4>1, InboxGets
      <4> QED  BY <2>5, <3>1, <3>2, <4>2 DEF Known
    <3>4. CASE x \notin Online
      BY <1>1, <1>5, <2>5, <3>1, <3>2, <3>4 DEF Known
    <3> QED  BY <3>3, <3>4
  <2> QED  BY <1>2, <2>1, <2>4, <2>5 DEF Known
<1>7. ASSUME up, toCentre # <<>>, toCentre' = Tail(toCentre),
             Head(toCentre).kind # "register",
             x \in rows => x \in rows' \/ Head(toCentre) = Will(x),
             inbox'[x] = inbox[x] \/ (\E q \in Seq(EdgeMessages) :
                /\ inbox'[x] = inbox[x] \o q
                /\ \A j \in DOMAIN q : q[j].kind # "updated")
      PROVE  Known(x)'
  <2>1. Head(toCentre) # Register(x)
    BY <1>7, Kinds
  <2>2. /\ Registering(x) => Registering(x)'
        /\ NoWill(x) => NoWill(x)' /\ Head(toCentre) # Will(x)
    BY <1>1, <1>7, <2>1, RegisteringTail
  <2>3. (Told(x) => Told(x)') /\ (Untold(x) => Untold(x)')
    <3>1. CASE inbox'[x] = inbox[x]
      BY <1>5, <3>1
    <3>2. CASE inbox'[x] # inbox[x]
      BY <1>1, <1>7, <3>2, InboxAppend
    <3> QED  BY <3>1, <3>2
  <2> QED  BY <1>2, <1>7, <2>2, <2>3 DEF Known
<1>8. CASE CentreLosesEdge
  <2> DEFINE s == Head(toCentre).server
             lost == {u \in Users : service[u].server = s}
  <2>1. /\ up /\ toCentre # <<>> /\ Head(toCentre).kind = "will"
        /\ toCentre' = Tail(toCentre) /\ rows' = rows \ {s}
    BY <1>3, <1>8 DEF CentreLosesEdge, CentreTakes
  <2>2. s = x => Head(toCentre) = Will(x)
    BY <1>4, <2>1 DEF CentreMessages, Will
  <2>3. PICK P \in [lost -> rows] :
          inbox' = [y \in Servers |->
                  IF y \notin Online THEN inbox[y]
                  ELSE inbox[y] \o
                    SetToSeq({Deploy(u, FALSE) : u \in {v \in lost : P[v] = y}})]
    BY <1>3, <1>8 DEF CentreLosesEdge
  <2> DEFINE U == {v \in lost : P[v] = x}
             M == {Deploy(u, FALSE) : u \in U}
  <2>4. IsFiniteSet(M) /\ M \in SUBSET EdgeMessages
    BY LostFinite, EdgeMessageType
  <2>5. \A m \in M : m.kind # "updated"
    BY DEF Deploy
  <2>6. inbox'[x] = inbox[x] \/ inbox'[x] = inbox[x] \o SetToSeq(M)
    BY <2>3
  <2> HIDE DEF M, s
  <2>7. /\ SetToSeq(M) \in Seq(EdgeMessages)
        /\ \A j \in DOMAIN SetToSeq(M) : SetToSeq(M)[j].kind # "updated"
    BY <2>4, <2>5, SetToSeqType
  <2> QED  BY <1>7, <2>1, <2>2, <2>6, <2>7
<1>9. CASE CentreDiscovers
  <2>1. PICK u \in Users : u = Head(toCentre).user
    BY <1>4, <1>9 DEF CentreDiscovers, CentreTakes, CentreMessages
  <2>2. /\ up /\ toCentre # <<>> /\ Head(toCentre).kind = "discover"
        /\ toCentre' = Tail(toCentre) /\ rows' = rows
    BY <1>3, <1>9 DEF CentreDiscovers, CentreTakes
  <2>3. inbox' = inbox \/ \E S : inbox' = SendAll(S, Deploy(u, TRUE))
    BY <1>3, <1>9, <2>1 DEF CentreDiscovers
  <2>4. PICK m \in EdgeMessages : m = Deploy(u, TRUE)
    BY EdgeMessageType
  <2>5. m.kind # "updated"
    BY <2>4 DEF Deploy
  <2>6. inbox'[x] = inbox[x] \/ inbox'[x] = Append(inbox[x], m)
    <3>1. CASE inbox' = inbox
      BY <3>1
    <3>2. CASE inbox' # inbox
      <4>1. PICK S : inbox' = SendAll(S, m)
        BY <2>3, <2>4, <3>2
      <4> QED  BY <4>1, SendAllAt
    <3> QED  BY <3>1, <3>2
  <2>7. <<m>> \in Seq(EdgeMessages)
    OBVIOUS
  <2>8. PICK q \in Seq(EdgeMessages) : q = <<m>>
    BY <2>7
  <2>9. Append(inbox[x], m) = inbox[x] \o q
    <3>1. inbox[x] \in Seq(EdgeMessages)
      BY <1>1 DEF TypeOK
    <3> QED  BY <2>8, <3>1, AppendIsConcat
  <2>10. \A j \in DOMAIN q : q[j].kind # "updated"
    BY <2>5, <2>8
  <2> QED  BY <1>7, <2>2, <2>6, <2>9, <2>10
<1>10. CASE CentreAllocates
  <2>1. /\ up /\ toCentre # <<>> /\ Head(toCentre).kind = "allocated"
        /\ toCentre' = Tail(toCentre) /\ rows' = rows /\ inbox' = inbox
    BY <1>3, <1>10 DEF CentreAllocates, CentreTakes
  <2> QED  BY <1>7, <2>1
<1>11. CASE CentreStarts
  <2>1. /\ toCentre' = <<>> /\ inbox' = SendAll(Online, Updated({}))
    BY <1>11 DEF CentreStarts, NewTables, LifeInv
  <2>2. NoWill(x)'
    BY <2>1 DEF NoWill
  <2>3. CASE x \in Online
    <3>1. Updated({}) \in EdgeMessages /\ Lacks(Updated({}), x)
      BY EdgeMessageType DEF Lacks, Updated
    <3>2. inbox'[x] = Append(inbox[x], Updated({}))
      BY <2>1, <2>3, SendAllAt
    <3>3. Told(x)'
      BY <1>1, <3>1, <3>2, InboxGets
    <3> QED  BY <2>2, <3>3 DEF Known
  <2>4. CASE x \notin Online
    <3>1. proc[x] = "connecting"
      BY <2>4 DEF Online
    <3>2. inbox'[x] = <<>> /\ ~ready'[x]
      BY <1>1, <2>4, <3>1 DEF LifeInv
    <3> QED  BY <2>2, <3>2 DEF Known, Untold
  <2> QED  BY <2>3, <2>4
<1>12. CASE CentreReconnects
  <2>1. toCentre' = <<>> /\ rows' = rows /\ inbox' = SendAll(Online, Updated(rows))
    BY <1>12 DEF CentreReconnects, LifeInv
  <2>2. NoWill(x)'
    BY <2>1 DEF NoWill
  <2>3. CASE x \in Online /\ x \notin rows
    <3>1. rows \subseteq Servers
      BY <1>1 DEF TypeOK
    <3>2. Updated(rows) \in EdgeMessages /\ Lacks(Updated(rows), x)
      BY <2>3, <3>1, EdgeMessageType DEF Lacks, Updated
    <3>3. inbox'[x] = Append(inbox[x], Updated(rows))
      BY <2>1, <2>3, SendAllAt
    <3>4. Told(x)'
      BY <1>1, <3>2, <3>3, InboxGets
    <3> QED  BY <2>2, <3>4 DEF Known
  <2>4. CASE x \notin Online
    <3>1. proc[x] = "connecting"
      BY <2>4 DEF Online
    <3>2. inbox'[x] = <<>> /\ ~ready'[x]
      BY <1>1, <2>4, <3>1 DEF LifeInv
    <3> QED  BY <2>2, <3>2 DEF Known, Untold
  <2> QED  BY <2>1, <2>2, <2>3, <2>4 DEF Known
<1>13. ~CentreDisconnects
  BY DEF CentreDisconnects
<1> QED  BY <1>3, <1>6, <1>8, <1>9, <1>10, <1>11, <1>12, <1>13
         DEF CentreActs, CentreHandles, CentreStops

LEMMA KnownStep ==
  ASSUME Types, LifeInv, KnownInv, [Next]_vars
  PROVE  KnownInv'
<1> USE DEF edgeVars, brokerVars, dbVars, linkVars
<1>1. CASE UNCHANGED vars
  BY <1>1 DEF vars, KnownInv, Known, Registering, WillAfter, NoWill, Told, Untold
<1>2. ASSUME NEW u \in Users, UserDiscovers(u) PROVE KnownInv'
  <2>1. /\ UNCHANGED <<up, rows, proc, ready, inbox>>
        /\ toCentre' = AtCentre(<<Discover(u)>>)
        /\ count' = [count EXCEPT !.discoveries = @ + 1]
        /\ Discover(u) \in CentreMessages
    BY <1>2, CentreMessageType DEF UserDiscovers
  <2>2. count'.cuts = count.cuts
    BY <2>1 DEF Types, Counts
  <2> SUFFICES ASSUME up, count.cuts = 0, NEW x \in Servers,
                      proc[x] \in {"connecting", "online"}
               PROVE  Known(x)'
    BY <2>1, <2>2 DEF KnownInv
  <2>3. Known(x)
    BY DEF KnownInv
  <2>4. PICK q \in Seq(CentreMessages) :
          toCentre' = toCentre \o q /\ \A j \in DOMAIN q : q[j] = Discover(u)
    BY <2>1, SendsOne
  <2>5. \A j \in DOMAIN q : q[j] # Will(x)
    BY <2>4, Kinds
  <2> QED  BY <2>1, <2>3, <2>4, <2>5, KnownKept DEF Types
<1> QED  BY <1>1, <1>2, KnownEdge, KnownCentre DEF Next, CentreActs

-----------------------------------------------------------------------------
(* Services.                                                               *)

(* The queue gets nothing, loses its first message or all of them, or gets *)
(* answers of servers that have the service.                               *)
LEMMA HostKept ==
  ASSUME TypeOK, HostInv,
         \A x \in Servers : proc'[x] # "off" => count'.starts[x] >= 1,
         \A u \in Users, x \in Servers : Deployed(u, x) => Deployed(u, x)',
         \A u \in Users, x \in Servers :
           service'[u] = [server |-> x, state |-> "running"] =>
             service[u] = [server |-> x, state |-> "running"] \/ Deployed(u, x)',
         \/ toCentre' = toCentre
         \/ toCentre' = <<>>
         \/ toCentre # <<>> /\ toCentre' = Tail(toCentre)
         \/ \E q \in Seq(CentreMessages) :
              /\ toCentre' = toCentre \o q
              /\ \A j \in DOMAIN q, u \in Users, x \in Servers :
                   q[j] = Allocated(u, x) => Deployed(u, x)'
  PROVE  HostInv'
<1>1. ASSUME NEW u \in Users, NEW x \in Servers, NEW i \in DOMAIN toCentre',
             toCentre'[i] = Allocated(u, x)
      PROVE  Deployed(u, x)'
  <2>1. \A j \in DOMAIN toCentre : toCentre[j] = Allocated(u, x) => Deployed(u, x)'
    BY DEF HostInv
  <2>2. CASE toCentre' = toCentre
    BY <1>1, <2>1, <2>2
  <2>3. CASE toCentre' = <<>>
    BY <1>1, <2>3
  <2>4. CASE toCentre # <<>> /\ toCentre' = Tail(toCentre)
    <3>1. i + 1 \in DOMAIN toCentre /\ toCentre'[i] = toCentre[i + 1]
      <4>1. /\ Len(toCentre) \in Nat /\ DOMAIN toCentre = 1 .. Len(toCentre)
            /\ DOMAIN toCentre' = 1 .. Len(toCentre) - 1
            /\ \A k \in DOMAIN toCentre' : toCentre'[k] = toCentre[k + 1]
        BY <2>4, CentreTail, Zenon
      <4>2. i \in DOMAIN toCentre' /\ toCentre'[i] = toCentre[i + 1]
        BY <4>1, Zenon
      <4>3. PICK n \in Nat : n = Len(toCentre)
        BY <4>1, Zenon
      <4>4. i \in 1 .. n - 1
        BY <4>1, <4>2, <4>3, Zenon
      <4>5. i + 1 \in 1 .. n
        BY <4>4
      <4> QED  BY <4>1, <4>2, <4>3, <4>5, Zenon
    <3> QED  BY <1>1, <2>1, <3>1, Zenon
  <2>5. ASSUME NEW q \in Seq(CentreMessages), toCentre' = toCentre \o q,
               \A j \in DOMAIN q : q[j] = Allocated(u, x) => Deployed(u, x)'
        PROVE  Deployed(u, x)'
    <3> DEFINE n == Len(toCentre)
    <3>1. /\ n \in Nat /\ DOMAIN toCentre = 1 .. n
          /\ Len(q) \in Nat /\ DOMAIN q = 1 .. Len(q)
          /\ DOMAIN toCentre' = 1 .. n + Len(q)
          /\ \A k \in DOMAIN toCentre : toCentre'[k] = toCentre[k]
          /\ \A j \in DOMAIN q : toCentre'[n + j] = q[j]
      BY <2>5, CentreAppend
    <3> HIDE DEF n
    <3>2. CASE i \in DOMAIN toCentre
      BY <1>1, <2>1, <3>1, <3>2
    <3>3. CASE i \notin DOMAIN toCentre
      <4>1. i - n \in DOMAIN q /\ n + (i - n) = i
        BY <1>1, <3>1, <3>3
      <4> QED  BY <1>1, <2>5, <3>1, <4>1
    <3> QED  BY <3>2, <3>3
  <2> QED  BY <2>2, <2>3, <2>4, <2>5
<1>2. \A u \in Users, x \in Servers :
        service'[u] = [server |-> x, state |-> "running"] => Deployed(u, x)'
  BY DEF HostInv
<1> QED  BY <1>1, <1>2 DEF HostInv

(* A process that is started again is in its second life; one that has     *)
(* lost its services is over.                                              *)
LEMMA DeployedKept ==
  ASSUME Types, HostInv, NEW s \in Servers,
         \/ EdgeStarts(s) \/ EdgeSubscribes(s) \/ EdgeReconnects(s)
         \/ EdgeHandles(s) \/ BrokerNotices(s) \/ Faults(s)
  PROVE  /\ \A x \in Servers : proc'[x] # "off" => count'.starts[x] >= 1
         /\ \A u \in Users, x \in Servers : Deployed(u, x) => Deployed(u, x)'
<1> USE DEF edgeVars, brokerVars, dbVars, linkVars
<1>1. /\ proc \in [Servers -> Processes] /\ hosts \in [Servers -> SUBSET Users]
      /\ count.starts \in [Servers -> Nat] /\ count \in Counts
  BY DEF Types, TypeOK, Counts
<1>2. \A x \in Servers : proc[x] # "off" => count.starts[x] >= 1
  BY DEF HostInv
<1>3. CASE EdgeStarts(s)
  <2>1. /\ proc' = [proc EXCEPT ![s] = "connecting"] /\ hosts' = hosts
        /\ count' = [count EXCEPT !.starts[s] = @ + 1]
    BY <1>3 DEF EdgeStarts, Connect
  <2>2. count'.starts = [count.starts EXCEPT ![s] = @ + 1]
    BY <1>1, <2>1 DEF Counts
  <2> QED  BY <1>1, <1>2, <2>1, <2>2 DEF Deployed
<1>4. ASSUME proc'[s] \in {"off", "exited"} \/ hosts[s] \subseteq hosts'[s],
             proc'[s] # proc[s] => proc[s] \in {"connecting", "online", "cut"},
             \A x \in Servers \ {s} : proc'[x] = proc[x] /\ hosts'[x] = hosts[x],
             count'.starts = count.starts
      PROVE  /\ \A x \in Servers : proc'[x] # "off" => count'.starts[x] >= 1
             /\ \A u \in Users, x \in Servers : Deployed(u, x) => Deployed(u, x)'
  BY <1>1, <1>2, <1>4 DEF Deployed
<1>5. CASE EdgeReconnects(s) \/ EdgeSubscribes(s)
  BY <1>1, <1>4, <1>5 DEF EdgeReconnects, EdgeSubscribes, Connect
<1>6. CASE BrokerNotices(s)
  BY <1>1, <1>4, <1>6 DEF BrokerNotices
<1>7. CASE EdgeCrashes(s)
  <2>1. count'.starts = count.starts
    BY <1>1, <1>7 DEF EdgeCrashes, Counts
  <2> QED  BY <1>1, <1>4, <1>7, <2>1 DEF EdgeCrashes, Ends
<1>8. CASE ConnectionBreaks(s)
  <2>1. count'.starts = count.starts
    BY <1>1, <1>8 DEF ConnectionBreaks, Counts
  <2> QED  BY <1>1, <1>4, <1>8, <2>1 DEF ConnectionBreaks
<1>9. CASE EdgeUpdates(s) \/ EdgeForgets(s)
  BY <1>1, <1>4, <1>9 DEF EdgeUpdates, EdgeForgets
<1>10. CASE EdgeDeploys(s)
  BY <1>1, <1>4, <1>10 DEF EdgeDeploys
<1>11. CASE EdgeFails(s)
  BY <1>1, <1>4, <1>11 DEF EdgeFails, EdgeTakes, Ends
<1> QED  BY <1>3, <1>5, <1>6, <1>7, <1>8, <1>9, <1>10, <1>11
         DEF EdgeHandles, Faults

LEMMA HostEdge ==
  ASSUME Types, LifeInv, HostInv, NEW s \in Servers,
         \/ EdgeStarts(s) \/ EdgeSubscribes(s) \/ EdgeReconnects(s)
         \/ EdgeHandles(s) \/ BrokerNotices(s) \/ Faults(s)
  PROVE  HostInv'
<1> USE DEF edgeVars, brokerVars, dbVars, linkVars
<1>1. /\ \A x \in Servers : proc'[x] # "off" => count'.starts[x] >= 1
      /\ \A u \in Users, x \in Servers : Deployed(u, x) => Deployed(u, x)'
  BY DeployedKept
<1>2. service' = service
  BY DEF EdgeStarts, EdgeSubscribes, EdgeReconnects, EdgeHandles, EdgeUpdates,
     EdgeForgets, EdgeDeploys, EdgeFails, BrokerNotices, Faults, EdgeCrashes,
     ConnectionBreaks
<1>3. ~up => \A q : AtCentre(q) = toCentre
  BY DEF AtCentre
<1> DEFINE Fits(q) ==
             /\ q \in Seq(CentreMessages) /\ toCentre' = toCentre \o q
             /\ \A j \in DOMAIN q, u \in Users, x \in Servers :
                  q[j] = Allocated(u, x) => Deployed(u, x)'
<1>4. toCentre' = toCentre \/ \E q : Fits(q)
  <2>1. ASSUME NEW m \in CentreMessages, toCentre' = AtCentre(<<m>>),
               \A u \in Users, x \in Servers : m = Allocated(u, x) => Deployed(u, x)'
        PROVE  toCentre' = toCentre \/ \E q : Fits(q)
    <3>1. CASE ~up
      BY <1>3, <2>1, <3>1
    <3>2. CASE up
      <4>1. PICK q \in Seq(CentreMessages) :
              toCentre' = toCentre \o q /\ \A j \in DOMAIN q : q[j] = m
        BY <2>1, <3>2, SendsOne
      <4> QED  BY <2>1, <4>1
    <3> QED  BY <3>1, <3>2
  <2>2. ASSUME NEW p \in {<<>>, <<Register(s)>>}, Connect(s, p)
        PROVE  toCentre' = toCentre \/ \E q : Fits(q)
    <3>1. PICK q \in Seq(CentreMessages) :
            /\ toCentre' = AtCentre(q)
            /\ \A j \in DOMAIN q : q[j] = Will(s) \/ q[j] = Register(s)
      BY <2>2, ConnectSends
    <3>2. \A j \in DOMAIN q : \A u, x : q[j] # Allocated(u, x)
      BY <3>1, Kinds
    <3>3. CASE ~up
      BY <1>3, <3>1, <3>3
    <3>4. CASE up
      BY <3>1, <3>2, <3>4, Sends
    <3> QED  BY <3>3, <3>4
  <2>3. CASE EdgeStarts(s) \/ EdgeReconnects(s)
    BY <2>2, <2>3 DEF EdgeStarts, EdgeReconnects
  <2>4. CASE BrokerNotices(s)
    <3>1. toCentre' = AtCentre(<<Will(s)>>) /\ Will(s) \in CentreMessages
      BY <2>4, CentreMessageType DEF BrokerNotices
    <3>2. \A u, x : Will(s) # Allocated(u, x)
      BY Kinds
    <3> QED  BY <2>1, <3>1, <3>2
  <2>5. CASE EdgeUpdates(s)
    <3>1. /\ toCentre' = toCentre \/ toCentre' = AtCentre(<<Register(s)>>)
          /\ Register(s) \in CentreMessages
      BY <2>5, CentreMessageType DEF EdgeUpdates
    <3>2. \A u, x : Register(s) # Allocated(u, x)
      BY Kinds
    <3> QED  BY <2>1, <3>1, <3>2
  <2>6. CASE EdgeDeploys(s)
    <3>1. inbox[s] # <<>> /\ Head(inbox[s]) \in EdgeMessages
          /\ Head(inbox[s]).kind = "deploy"
      BY <2>6, Heads DEF EdgeDeploys, EdgeTakes, Types
    <3>2. PICK u \in Users : u = Head(inbox[s]).user
      BY <3>1 DEF EdgeMessages
    <3>3. /\ toCentre' = AtCentre(<<Allocated(u, s)>>)
          /\ hosts' = [hosts EXCEPT ![s] = @ \cup {u}]
          /\ proc' = proc /\ count' = count /\ proc[s] = "online"
      BY <2>6, <3>2 DEF EdgeDeploys, EdgeTakes
    <3>4. Deployed(u, s)'
      BY <3>3 DEF Deployed, HostInv, Types, TypeOK
    <3>5. \A v, x : Allocated(u, s) = Allocated(v, x) => v = u /\ x = s
      BY Kinds
    <3>6. PICK m \in CentreMessages : m = Allocated(u, s)
      BY CentreMessageType
    <3>7. ASSUME NEW v \in Users, NEW x \in Servers, m = Allocated(v, x)
          PROVE  Deployed(v, x)'
      <4>1. v = u /\ x = s
        BY <3>5, <3>6, <3>7
      <4> QED  BY <3>4, <4>1
    <3> QED  BY <2>1, <3>3, <3>6, <3>7
  <2>7. CASE EdgeSubscribes(s) \/ EdgeForgets(s) \/ EdgeFails(s) \/ Faults(s)
    BY <2>7 DEF EdgeSubscribes, EdgeForgets, EdgeFails, Faults, EdgeCrashes,
                ConnectionBreaks
  <2> QED  BY <2>3, <2>4, <2>5, <2>6, <2>7 DEF EdgeHandles
<1> QED  BY <1>1, <1>2, <1>4, HostKept DEF Types

LEMMA HostCentre ==
  ASSUME Types, LifeInv, HostInv, CentreActs
  PROVE  HostInv'
<1>1. /\ UNCHANGED <<proc, hosts>> /\ count'.starts = count.starts
      /\ service \in [Users -> ServiceRows]
  BY CentreEffect DEF edgeVars, Types, TypeOK
<1>2. /\ \A x \in Servers : proc'[x] # "off" => count'.starts[x] >= 1
      /\ \A u \in Users, x \in Servers : Deployed(u, x) => Deployed(u, x)'
  BY <1>1 DEF HostInv, Deployed
<1> DEFINE Running(s) == [server |-> s, state |-> "running"]
           Kept == \A u \in Users, x \in Servers :
             service'[u] = Running(x) => service[u] = Running(x) \/ Deployed(u, x)'
           Shorter == \/ toCentre' = toCentre \/ toCentre' = <<>>
                      \/ toCentre # <<>> /\ toCentre' = Tail(toCentre)
<1>3. Kept /\ Shorter => HostInv'
  BY <1>2, HostKept DEF Types
<1>4. CASE CentreExits
  BY <1>3, <1>4 DEF CentreExits, dbVars
<1>5. CASE CentreRegisters
  BY <1>3, <1>5 DEF CentreRegisters, CentreTakes
<1>6. CASE CentreLosesEdge /\ ~CentreExits
  BY <1>3, <1>6 DEF CentreLosesEdge, CentreTakes, AfterLoss
<1>7. CASE CentreDiscovers /\ ~CentreExits
  <2>1. Shorter
    BY <1>7 DEF CentreDiscovers, CentreTakes
  <2>2. \/ service' = service
        \/ \E u, s : service' = [service EXCEPT ![u] = [server |-> s, state |-> "init"]]
    BY <1>7 DEF CentreDiscovers
  <2>3. ASSUME NEW u \in Users, NEW x \in Servers, service'[u] = Running(x)
        PROVE  service[u] = Running(x)
    <3>1. CASE service' = service
      BY <2>3, <3>1
    <3>2. ASSUME NEW v, NEW s,
                 service' = [service EXCEPT ![v] = [server |-> s, state |-> "init"]]
          PROVE  service[u] = Running(x)
      <4>1. CASE u = v
        <5>1. service'[u].state = "init"
          BY <1>1, <3>2, <4>1
        <5> QED  BY <2>3, <5>1
      <4>2. CASE u # v
        BY <1>1, <2>3, <3>2, <4>2
      <4> QED  BY <4>1, <4>2
    <3> QED  BY <2>2, <3>1, <3>2
  <2> QED  BY <1>3, <2>1, <2>3
<1>8. CASE CentreAllocates /\ ~CentreExits
  <2>1. /\ toCentre # <<>> /\ Head(toCentre) \in CentreMessages
        /\ Head(toCentre).kind = "allocated" /\ toCentre' = Tail(toCentre)
    BY <1>8, Heads DEF CentreAllocates, CentreTakes, Types
  <2>2. PICK u \in Users, s \in Servers : Head(toCentre) = Allocated(u, s)
    BY <2>1 DEF CentreMessages, Allocated
  <2>3. /\ Head(toCentre).user = u /\ Head(toCentre).server = s
        /\ Head(toCentre) = toCentre[1] /\ 1 \in DOMAIN toCentre
    BY <2>1, <2>2, Kinds, CentreTail DEF Types
  <2>4. Deployed(u, s)
    BY <2>2, <2>3 DEF HostInv
  <2>5. PICK st : service' = [service EXCEPT ![u] = [server |-> s, state |-> st]]
    BY <1>8, <2>3 DEF CentreAllocates
  <2>6. ASSUME NEW v \in Users, NEW x \in Servers, service'[v] = Running(x)
        PROVE  service[v] = Running(x) \/ Deployed(v, x)'
    <3>1. CASE v = u
      <4>1. service'[v].server = s
        BY <1>1, <2>5, <3>1
      <4>2. x = s
        BY <2>6, <4>1
      <4> QED  BY <1>2, <2>4, <3>1, <4>2
    <3>2. CASE v # u
      BY <1>1, <2>5, <2>6, <3>2
    <3> QED  BY <3>1, <3>2
  <2> QED  BY <1>3, <2>1, <2>6
<1>9. CASE CentreStarts
  <2>1. service' = [u \in Users |-> NoService] /\ toCentre' = toCentre
    BY <1>9 DEF CentreStarts
  <2>2. \A x : Running(x) # NoService
    BY DEF NoService
  <2> QED  BY <1>3, <2>1, <2>2
<1>10. CASE CentreDisconnects \/ CentreReconnects
  BY <1>3, <1>10 DEF CentreDisconnects, CentreReconnects, dbVars
<1> QED  BY <1>4, <1>5, <1>6, <1>7, <1>8, <1>9, <1>10
         DEF CentreActs, CentreHandles, CentreStops

LEMMA HostStep ==
  ASSUME Types, LifeInv, HostInv, [Next]_vars
  PROVE  HostInv'
<1>1. CASE UNCHANGED vars
  BY <1>1 DEF vars, edgeVars, dbVars, HostInv, Deployed
<1>2. ASSUME NEW u \in Users, UserDiscovers(u) PROVE HostInv'
  <2>1. /\ UNCHANGED <<proc, hosts, service, up>>
        /\ toCentre' = AtCentre(<<Discover(u)>>)
        /\ count' = [count EXCEPT !.discoveries = @ + 1]
    BY <1>2 DEF UserDiscovers, edgeVars, dbVars
  <2>2. count'.starts = count.starts
    BY <2>1 DEF Types, Counts
  <2>3. /\ \A x \in Servers : proc'[x] # "off" => count'.starts[x] >= 1
        /\ \A v \in Users, x \in Servers : Deployed(v, x) => Deployed(v, x)'
    BY <2>1, <2>2 DEF HostInv, Deployed
  <2>4. CASE ~up
    BY <2>1, <2>3, <2>4, HostKept DEF AtCentre, Types
  <2>5. CASE up
    <3>1. PICK m \in CentreMessages : m = Discover(u)
      BY CentreMessageType
    <3>2. PICK q \in Seq(CentreMessages) :
            toCentre' = toCentre \o q /\ \A j \in DOMAIN q : q[j] = m
      BY <2>1, <2>5, <3>1, SendsOne
    <3>3. \A v, x : m # Allocated(v, x)
      BY <3>1, Kinds
    <3> QED  BY <2>1, <2>3, <3>2, <3>3, HostKept DEF Types
  <2> QED  BY <2>4, <2>5
<1> QED  BY <1>1, <1>2, HostEdge, HostCentre DEF Next, CentreActs

-----------------------------------------------------------------------------
(* The invariant and what follows from it.                                 *)

LEMMA MembershipInit == Init => MembershipInv
<1> SUFFICES ASSUME Init PROVE MembershipInv
  OBVIOUS
<1>1. /\ up = TRUE /\ broken = FALSE /\ toCentre = <<>> /\ rows = {}
      /\ proc = [s \in Servers |-> "off"] /\ ready = [s \in Servers |-> FALSE]
      /\ inbox = [s \in Servers |-> <<>>] /\ service = [u \in Users |-> NoService]
  BY DEF Init
<1>2. \A x : [server |-> x, state |-> "running"] # NoService
  BY DEF NoService
<1>3. LifeInv /\ RowInv /\ KnownInv
  BY <1>1 DEF LifeInv, RowInv, KnownInv
<1>4. HostInv
  BY <1>1, <1>2 DEF HostInv
<1> QED  BY <1>3, <1>4 DEF MembershipInv

THEOREM MembershipInvariant == Spec => [](Types /\ MembershipInv)
<1>1. Init => Types /\ MembershipInv
  BY TypeInit, MembershipInit
<1>2. Types /\ MembershipInv /\ [Next]_vars => (Types /\ MembershipInv)'
  BY TypeStep, LifeStep, RowStep, KnownStep, HostStep DEF MembershipInv
<1> QED  BY <1>1, <1>2, PTL DEF Spec

(* The controller keeps no row of a server that is gone: the last will of  *)
(* a server without a session and with a row is on its way, unless it was  *)
(* published while the controller itself was not connected.                *)
THEOREM RowsLive == Spec => []NoDeadRow
<1>1. MembershipInv => NoDeadRow
  BY DEF MembershipInv, RowInv, WillAfter, NoDeadRow
<1> QED  BY <1>1, MembershipInvariant, PTL

(* The controller has every server that works, when no message is on its   *)
(* way and no connection has been broken.                                  *)
THEOREM LiveServersKnown == Spec => []LiveRegistered
<1>1. KnownInv => LiveRegistered
  <2> SUFFICES ASSUME KnownInv, up, toCentre = <<>>, \A s \in Servers : inbox[s] = <<>>,
                      count.cuts = 0, NEW s \in Online, ready[s]
               PROVE  s \in rows
    BY DEF LiveRegistered, Quiet
  <2>1. s \in Servers /\ Known(s)
    BY DEF Online, KnownInv
  <2>2. ~Registering(s) /\ ~Told(s) /\ ~Untold(s)
    BY <2>1 DEF Registering, Told, Untold
  <2> QED  BY <2>1, <2>2 DEF Known
<1> QED  BY <1>1, MembershipInvariant, PTL DEF MembershipInv

(* A service that has been allocated runs where its row says, in the first *)
(* life of that server.                                                    *)
THEOREM ServicesRun == Spec => []HostRuns
<1>1. Types /\ HostInv => HostRuns
  <2> SUFFICES ASSUME Types, HostInv, NEW u \in Users,
                      service[u].state = "running", service[u].server \in Online,
                      count.starts[service[u].server] = 1
               PROVE  u \in hosts[service[u].server]
    BY DEF HostRuns
  <2>1. PICK s \in Servers : s = service[u].server /\ proc[s] = "online"
    BY DEF Online
  <2>2. service[u] = [server |-> s, state |-> "running"]
    <3>1. service[u] \in ServiceRows
      BY DEF Types, TypeOK
    <3> QED  BY <2>1, <3>1 DEF ServiceRows, NoService
  <2>3. Deployed(u, s)
    BY <2>2 DEF HostInv
  <2> QED  BY <2>1, <2>3 DEF Deployed
<1> QED  BY <1>1, MembershipInvariant, PTL DEF MembershipInv
=============================================================================
