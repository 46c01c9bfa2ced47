----------------------- MODULE CentralController_proofs -----------------------
(* Proofs about CentralController: its type; that nothing ends the         *)
(* controller while every user looks for its service once; that it knows   *)
(* where a service runs when notices keep their order; and, for a          *)
(* threshold planner, that its two records of a migration agree and orders *)
(* are given once and to the right server.                                 *)
EXTENDS CentralController, TLAPS, SequenceTheorems, WellFoundedInduction

-----------------------------------------------------------------------------
(* Messages in a queue.                                                    *)

Msgs(q) == {q[i] : i \in DOMAIN q}
Is(m, u, k) == m.user = u /\ m.kind = k
Has(q, u, k) == \E m \in Msgs(q) : Is(m, u, k)
Single(q, u, k) ==
  \A i, j \in DOMAIN q : Is(q[i], u, k) /\ Is(q[j], u, k) => i = j
Before(q, u, k, l) ==
  \A i, j \in DOMAIN q : Is(q[i], u, k) /\ Is(q[j], u, l) => i < j

(* The last message that says where the service of a user runs.            *)
Says(m, u) == m.user = u /\ m.kind \in {"allocated", "migrated"}
LastIs(q, u, s) ==
  \E i \in DOMAIN q : /\ Says(q[i], u) /\ q[i].from = s
                      /\ \A j \in DOMAIN q : j > i => ~Says(q[j], u)

(* A message is put at the end.                                            *)
LEMMA Added ==
  ASSUME NEW S, NEW q \in Seq(S), NEW x \in S
  PROVE  /\ Append(q, x) \in Seq(S)
         /\ Msgs(Append(q, x)) = Msgs(q) \cup {x}
         /\ DOMAIN Append(q, x) = 1 .. Len(q) + 1
         /\ Append(q, x)[Len(q) + 1] = x
         /\ \A i \in DOMAIN q : Append(q, x)[i] = q[i]
         /\ \A u, k : Single(q, u, k) /\ ~(Is(x, u, k) /\ Has(q, u, k)) =>
              Single(Append(q, x), u, k)
         /\ \A u, k, l : Before(q, u, k, l) /\ ~(Is(x, u, k) /\ (Has(q, u, l) \/ k = l)) =>
              Before(Append(q, x), u, k, l)
         /\ \A u, s : LastIs(Append(q, x), u, s) <=>
              IF Says(x, u) THEN s = x.from ELSE LastIs(q, u, s)
<1> DEFINE r == Append(q, x)
<1>1. /\ r \in Seq(S) /\ Len(r) = Len(q) + 1
      /\ \A i \in 1 .. Len(q) : r[i] = q[i]
      /\ r[Len(q) + 1] = x
  BY AppendProperties
<1>2. Len(q) \in Nat /\ DOMAIN q = 1 .. Len(q) /\ DOMAIN r = 1 .. Len(r)
  BY <1>1, LenProperties, Zenon
<1> HIDE DEF r
<1>3. PICK n \in Nat : n = Len(q)
  BY <1>2
<1>4. /\ DOMAIN q = 1 .. n /\ DOMAIN r = 1 .. n + 1
      /\ \A i \in 1 .. n : r[i] = q[i]
      /\ r[n + 1] = x
  BY <1>1, <1>2, <1>3
<1>5. /\ \A i \in 1 .. n + 1 : i \in 1 .. n \/ i = n + 1
      /\ \A i \in 1 .. n : i \in 1 .. n + 1 /\ i < n + 1
      /\ n + 1 \in 1 .. n + 1
  OBVIOUS
<1>6. Msgs(r) = Msgs(q) \cup {x}
  BY <1>4, <1>5 DEF Msgs
<1>7. \A i \in DOMAIN q : q[i] \in Msgs(q)
  BY DEF Msgs
<1>8. ASSUME NEW u, NEW k, Single(q, u, k), ~(Is(x, u, k) /\ Has(q, u, k))
      PROVE  Single(r, u, k)
  BY <1>4, <1>5, <1>7, <1>8 DEF Single, Has
<1>9. ASSUME NEW u, NEW k, NEW l, Before(q, u, k, l),
             ~(Is(x, u, k) /\ (Has(q, u, l) \/ k = l))
      PROVE  Before(r, u, k, l)
  <2> SUFFICES ASSUME NEW i \in DOMAIN r, NEW j \in DOMAIN r, Is(r[i], u, k), Is(r[j], u, l)
               PROVE  i < j
    BY DEF Before
  <2>1. CASE i \in 1 .. n /\ j \in 1 .. n
    BY <1>4, <1>9, <2>1 DEF Before
  <2>2. CASE i = n + 1
    BY <1>4, <1>5, <1>7, <1>9, <2>2 DEF Has, Is
  <2>3. CASE i \in 1 .. n /\ j = n + 1
    BY <1>5, <2>3
  <2> QED  BY <1>4, <1>5, <2>1, <2>2, <2>3
<1>10. ASSUME NEW u, NEW s
       PROVE  LastIs(r, u, s) <=> IF Says(x, u) THEN s = x.from ELSE LastIs(q, u, s)
  <2>1. CASE Says(x, u)
    <3>1. \A i \in 1 .. n : n + 1 > i
      OBVIOUS
    <3>2. \A j \in 1 .. n + 1 : ~(j > n + 1)
      OBVIOUS
    <3> QED  BY <1>4, <1>5, <2>1, <3>1, <3>2 DEF LastIs
  <2>2. CASE ~Says(x, u)
    <3>1. \A i \in 1 .. n + 1 : Says(r[i], u) <=> i \in 1 .. n /\ Says(q[i], u)
      BY <1>4, <1>5, <2>2
    <3> QED  BY <1>4, <1>5, <2>2, <3>1 DEF LastIs
  <2> QED  BY <2>1, <2>2
<1> QED  BY <1>1, <1>3, <1>4, <1>6, <1>8, <1>9, <1>10 DEF r

(* The message at a position is taken out.                                 *)
Without(q, p) == SubSeq(q, 1, p - 1) \o SubSeq(q, p + 1, Len(q))

LEMMA WithoutAt ==
  ASSUME NEW S, NEW q \in Seq(S), NEW p \in DOMAIN q
  PROVE  /\ Without(q, p) \in Seq(S)
         /\ Len(q) - 1 \in Nat /\ DOMAIN Without(q, p) = 1 .. Len(q) - 1
         /\ \A i \in 1 .. Len(q) - 1 :
              Without(q, p)[i] = q[IF i < p THEN i ELSE i + 1]
<1> DEFINE a == SubSeq(q, 1, p - 1)
           b == SubSeq(q, p + 1, Len(q))
           r == a \o b
<1>1. PICK n \in Nat : n = Len(q) /\ DOMAIN q = 1 .. n
  BY LenProperties
<1>2. p \in Int /\ p >= 1 /\ p <= n
  BY <1>1
<1>3. \A i \in 1 .. n : q[i] \in S
  BY <1>1, ElementOfSeq
<1>4. /\ a \in Seq(S) /\ Len(a) = p - 1
      /\ \A i \in 1 .. p - 1 : a[i] = q[i]
  <2>1. 1 \in Int /\ p - 1 \in Int /\ \A i \in 1 .. p - 1 : q[i] \in S
    BY <1>2, <1>3
  <2>2. /\ a \in Seq(S) /\ Len(a) = IF 1 <= p - 1 THEN (p - 1) - 1 + 1 ELSE 0
        /\ \A i \in 1 .. (p - 1) - 1 + 1 : a[i] = q[1 + i - 1]
    BY <2>1, SubSeqProperties
  <2> HIDE DEF a
  <2> QED  BY <1>2, <2>2
<1>5. /\ b \in Seq(S) /\ Len(b) = n - p
      /\ \A i \in 1 .. n - p : b[i] = q[p + i]
  <2>1. p + 1 \in Int /\ n \in Int /\ \A i \in p + 1 .. n : q[i] \in S
    BY <1>2, <1>3
  <2>2. /\ b \in Seq(S) /\ Len(b) = IF p + 1 <= n THEN n - (p + 1) + 1 ELSE 0
        /\ \A i \in 1 .. n - (p + 1) + 1 : b[i] = q[(p + 1) + i - 1]
    BY <1>1, <2>1, SubSeqProperties
  <2> HIDE DEF b
  <2> QED  BY <1>2, <2>2
<1> HIDE DEF a, b
<1>6. /\ r \in Seq(S) /\ Len(r) = Len(a) + Len(b)
      /\ \A i \in 1 .. Len(a) + Len(b) : r[i] = IF i <= Len(a) THEN a[i] ELSE b[i - Len(a)]
  BY <1>4, <1>5, ConcatProperties
<1> HIDE DEF r
<1>7. DOMAIN r = 1 .. n - 1
  BY <1>2, <1>4, <1>5, <1>6, LenProperties
<1>8. ASSUME NEW i \in 1 .. n - 1 PROVE r[i] = q[IF i < p THEN i ELSE i + 1]
  <2>1. i \in Int /\ 1 <= i /\ i <= n - 1 /\ Len(a) + Len(b) = n - 1 /\ Len(a) = p - 1
    BY <1>2, <1>4, <1>5
  <2>2. i \in 1 .. Len(a) + Len(b)
    BY <2>1
  <2>3. r[i] = IF i <= p - 1 THEN a[i] ELSE b[i - (p - 1)]
    BY <1>6, <2>1, <2>2
  <2>4. CASE i < p
    <3>1. i \in 1 .. p - 1
      BY <1>2, <2>1, <2>4
    <3>2. i <= p - 1
      BY <1>2, <2>1, <2>4
    <3> QED  BY <1>4, <2>3, <2>4, <3>1, <3>2
  <2>5. CASE ~(i < p)
    <3>1. i - (p - 1) \in 1 .. n - p /\ p + (i - (p - 1)) = i + 1
      BY <1>2, <2>1, <2>5, SMTT(30)
    <3>2. ~(i <= p - 1)
      BY <1>2, <2>1, <2>5
    <3> QED  BY <1>5, <2>3, <2>5, <3>1, <3>2
  <2> QED  BY <2>4, <2>5
<1>9. n - 1 \in Nat
  BY <1>2
<1> QED  BY <1>1, <1>6, <1>7, <1>8, <1>9 DEF Without, r, a, b

LEMMA Removed ==
  ASSUME NEW S, NEW q \in Seq(S), NEW p \in DOMAIN q
  PROVE  /\ Without(q, p) \in Seq(S)
         /\ Msgs(q) = Msgs(Without(q, p)) \cup {q[p]}
         /\ \A u, k : Single(q, u, k) => Single(Without(q, p), u, k)
         /\ \A u, k : Single(q, u, k) /\ Is(q[p], u, k) => ~Has(Without(q, p), u, k)
         /\ \A u, k, l : Before(q, u, k, l) => Before(Without(q, p), u, k, l)
         /\ \A u, s : ~Says(q[p], u) => (LastIs(Without(q, p), u, s) <=> LastIs(q, u, s))
         /\ \A u, s : LastIs(Without(q, p), u, s) /\ p = 1 => LastIs(q, u, s)
         /\ \A u : Says(q[p], u) /\ (\A m \in Msgs(Without(q, p)) : ~Says(m, u)) =>
              LastIs(q, u, q[p].from)
<1> DEFINE r == Without(q, p)
<1>1. PICK n \in Nat : n = Len(q) /\ DOMAIN q = 1 .. n
  BY LenProperties
<1>2. /\ r \in Seq(S) /\ DOMAIN r = 1 .. n - 1
      /\ \A i \in 1 .. n - 1 : r[i] = q[IF i < p THEN i ELSE i + 1]
  BY <1>1, WithoutAt
<1> HIDE DEF r
<1>3. PICK f : f = [i \in 1 .. n - 1 |-> IF i < p THEN i ELSE i + 1]
  OBVIOUS
<1>4. /\ \A i \in DOMAIN r : f[i] \in DOMAIN q /\ f[i] # p /\ r[i] = q[f[i]]
      /\ \A i, j \in DOMAIN r : (i < j <=> f[i] < f[j]) /\ (f[i] = f[j] => i = j)
  BY <1>1, <1>2, <1>3
<1>5. ASSUME NEW i \in DOMAIN q, i # p PROVE \E j \in DOMAIN r : f[j] = i
  <2>1. CASE i < p
    BY <1>1, <1>2, <1>3, <2>1
  <2>2. CASE i > p
    <3>1. i - 1 \in DOMAIN r /\ f[i - 1] = i
      BY <1>1, <1>2, <1>3, <2>2
    <3> QED  BY <3>1
  <2> QED  BY <1>1, <1>5, <2>1, <2>2
<1>6. Msgs(q) = Msgs(r) \cup {q[p]}
  BY <1>4, <1>5 DEF Msgs
<1>7. ASSUME NEW u, NEW k, Single(q, u, k) PROVE Single(r, u, k)
  BY <1>4, <1>7 DEF Single
<1>8. ASSUME NEW u, NEW k, Single(q, u, k), Is(q[p], u, k) PROVE ~Has(r, u, k)
  BY <1>4, <1>8 DEF Single, Has, Msgs
<1>9. ASSUME NEW u, NEW k, NEW l, Before(q, u, k, l) PROVE Before(r, u, k, l)
  BY <1>4, <1>9 DEF Before
<1>10. ASSUME NEW u, NEW s, LastIs(r, u, s), ~Says(q[p], u) \/ p = 1
       PROVE  LastIs(q, u, s)
  <2>1. PICK i \in DOMAIN r : /\ Says(r[i], u) /\ r[i].from = s
                              /\ \A j \in DOMAIN r : j > i => ~Says(r[j], u)
    BY <1>10 DEF LastIs
  <2>2. ASSUME NEW j \in DOMAIN q, j > f[i] PROVE ~Says(q[j], u)
    <3>1. CASE j = p
      <4>1. p = 1 => FALSE
        BY <1>1, <1>2, <1>4, <2>1, <2>2, <3>1
      <4> QED  BY <1>10, <3>1, <4>1
    <3>2. CASE j # p
      <4>1. PICK l \in DOMAIN r : f[l] = j
        BY <1>5, <3>2
      <4> QED  BY <1>4, <2>1, <2>2, <4>1
    <3> QED  BY <3>1, <3>2
  <2> QED  BY <1>4, <2>1, <2>2 DEF LastIs
<1>11. ASSUME NEW u, NEW s, LastIs(q, u, s), ~Says(q[p], u) PROVE LastIs(r, u, s)
  <2>1. PICK i \in DOMAIN q : /\ Says(q[i], u) /\ q[i].from = s
                              /\ \A j \in DOMAIN q : j > i => ~Says(q[j], u)
    BY <1>11 DEF LastIs
  <2>2. PICK l \in DOMAIN r : f[l] = i
    BY <1>5, <1>11, <2>1
  <2>3. \A j \in DOMAIN r : j > l => f[j] > i
    BY <1>1, <1>2, <1>4, <2>2
  <2> QED  BY <1>4, <2>1, <2>2, <2>3 DEF LastIs
<1>12. ASSUME NEW u, Says(q[p], u), \A m \in Msgs(r) : ~Says(m, u)
       PROVE  LastIs(q, u, q[p].from)
  <2>1. \A j \in DOMAIN q : j > p => ~Says(q[j], u)
    BY <1>4, <1>5, <1>12 DEF Msgs
  <2> QED  BY <1>12, <2>1 DEF LastIs
<1>13. \A u, s : ~Says(q[p], u) => (LastIs(r, u, s) <=> LastIs(q, u, s))
  BY <1>10, <1>11
<1>14. \A u, s : LastIs(r, u, s) /\ p = 1 => LastIs(q, u, s)
  BY <1>10
<1>15. \A u : Says(q[p], u) /\ (\A m \in Msgs(r) : ~Says(m, u)) => LastIs(q, u, q[p].from)
  BY <1>12
<1> QED  BY <1>2, <1>6, <1>7, <1>8, <1>9, <1>13, <1>14, <1>15 DEF r

(* Nothing changes for a user when a message about another one is put at   *)
(* the end or taken out.                                                   *)
SameFor(q, r, u) ==
  /\ \A m : m.user = u => (m \in Msgs(r) <=> m \in Msgs(q))
  /\ \A k : Single(q, u, k) => Single(r, u, k)
  /\ \A k, l : Before(q, u, k, l) => Before(r, u, k, l)
  /\ \A s : LastIs(q, u, s) <=> LastIs(r, u, s)

LEMMA SameQueue == \A q, u : SameFor(q, q, u)
BY DEF SameFor

LEMMA SameAdded ==
  ASSUME NEW S, NEW q \in Seq(S), NEW x \in S, NEW u, x.user # u
  PROVE  SameFor(q, Append(q, x), u)
BY Added DEF SameFor, Is, Says

LEMMA SameRemoved ==
  ASSUME NEW S, NEW q \in Seq(S), NEW p \in DOMAIN q, NEW u, q[p].user # u
  PROVE  SameFor(q, Without(q, p), u)
BY Removed DEF SameFor, Is, Says

(* The first message is taken out.                                         *)
LEMMA TailRemoved ==
  ASSUME NEW S, NEW q \in Seq(S), q # <<>>
  PROVE  1 \in DOMAIN q /\ Head(q) = q[1] /\ Tail(q) = Without(q, 1)
<1>1. PICK n \in Nat : n = Len(q) /\ n # 0 /\ DOMAIN q = 1 .. n
  BY LenProperties, EmptySeq
<1>2. SubSeq(q, 1, 1 - 1) = <<>>
  BY SubSeqEmpty
<1>3. Tail(q) = SubSeq(q, 2, Len(q)) /\ Tail(q) \in Seq(S)
  BY TailIsSubSeq, HeadTailProperties
<1>4. <<>> \o SubSeq(q, 2, Len(q)) = SubSeq(q, 2, Len(q))
  BY <1>3, ConcatEmptySeq
<1>5. 1 \in DOMAIN q /\ Head(q) = q[1]
  BY <1>1
<1> QED  BY <1>2, <1>3, <1>4, <1>5 DEF Without

-----------------------------------------------------------------------------
(* The type, with what goes with each kind of order, notice and of work of *)
(* the MQTT thread.                                                        *)

OrderSet ==
  [kind : {"deploy", "destroy"}, user : Users, app : Apps, plan : {NoPlan}]
  \cup [kind : {"pre_migrate", "migrate"}, user : Users, app : Apps, plan : PlanSet]
  \cup [kind : {"handover"}, user : Users, app : {NoApp}, plan : PlanSet]

MessageSet ==
  [kind : {"allocated"}, user : Users, app : Apps, from : Servers, plan : {NoPlan}]
  \cup [kind : {"pre_migrated", "migrated"}, user : Users, app : Apps,
        from : Servers, plan : PlanSet]
  \cup [kind : {"handovered"}, user : Users, app : {NoApp}, from : Users, plan : PlanSet]
  \cup [kind : {"leave"}, user : Users, app : {NoApp}, from : Users, plan : {NoPlan}]

WorkSet ==
  {Idle, Dead}
  \cup [at : {"planning"}, n : Nat, todo : SUBSET (Users \X PlanSet)]
  \cup [at : {"pre_migrated", "estimating"}, user : Users, plan : PlanSet, m : SUBSET Bits]
  \cup [at : {"handovered"}, user : Users, m : SUBSET Bits]

Types ==
  /\ setup \in SetupSet
  /\ user \in [Users -> UserRows]
  /\ service \in [Users -> [Apps -> ServiceRows]]
  /\ mstate \in [Users -> {Unknown} \cup SUBSET Bits]
  /\ migPlan \in [Users -> PlanSet \cup {NoPlan}]
  /\ hoPlan \in [Users -> PlanSet \cup {NoPlan}]
  /\ mqtt \in WorkSet
  /\ mqtt.at \in {"pre_migrated", "estimating"} =>
       GetService(mqtt.user) # NoRow /\ mstate[mqtt.user] # Unknown
  /\ timers \subseteq Timers
  /\ \A t \in timers : mstate[t.user] # Unknown
  /\ inbox \in [Servers \cup Users -> Seq(OrderSet)]
  /\ runs \subseteq Users \X Apps \X Servers
  /\ present \subseteq Users
  /\ notices \in Seq(MessageSet)
  /\ discoveries \in [Users -> 0 .. setup.discoveries]
  /\ plans \in 0 .. MaxPlans

-----------------------------------------------------------------------------
(* While every user looks for its service once.                            *)

Boxes == Servers \cup Users
Sent(r, u, k) == Has(inbox[r], u, k)
Told(u, k) == Has(notices, u, k)
Deploying(u) == \E r \in Boxes : Sent(r, u, "deploy")

(* Nobody has heard of a user that has not looked for its service yet.     *)
Unheard(u) ==
  /\ user[u] = NoUser /\ mstate[u] = Unknown /\ u \notin present
  /\ \A a \in Apps : service[u][a] = NoRow
  /\ \A r \in Boxes : \A m \in Msgs(inbox[r]) : m.user # u
  /\ \A m \in Msgs(notices) : m.user # u
  /\ \A t \in timers : t.user # u
  /\ \A c \in runs : c[1] # u

(* A user that has a row has one service, and every message is about it.   *)
Mine(u) ==
  /\ GetService(u) # NoRow
  /\ \A a \in Apps \ {user[u].app} : service[u][a] = NoRow
  /\ \A r \in Boxes : \A m \in Msgs(inbox[r]) :
       m.user = u => m.app \in {NoApp, user[u].app} /\ m.kind # "destroy"
  /\ \A m \in Msgs(notices) : m.user = u => m.app \in {NoApp, user[u].app}
  /\ \A t \in timers : t.user = u => t.app = user[u].app

(* A service is deployed and allocated once.                               *)
DeployedOnce(u) ==
  /\ \A r, s \in Boxes : Sent(r, u, "deploy") /\ Sent(s, u, "deploy") => r = s
  /\ \A r \in Boxes : Single(inbox[r], u, "deploy")
  /\ Single(notices, u, "allocated")
  /\ ~(Deploying(u) /\ Told(u, "allocated"))
  /\ user[u] = NoUser /\ (Deploying(u) \/ Told(u, "allocated")) =>
       \A a \in Apps : service[u][a] = NoRow

(* What a user says comes before its last will, which comes once.          *)
LeavesLast(u) ==
  /\ \A m \in Msgs(notices) :
       m.user = u /\ m.kind \in {"handovered", "leave"} => m.from = u
  /\ u \in present \/ Told(u, "handovered") \/ Told(u, "leave") => user[u] # NoUser
  /\ Told(u, "leave") => u \notin present
  /\ Single(notices, u, "leave")
  /\ Before(notices, u, "handovered", "leave")

OnceOf(u) ==
  /\ discoveries[u] = 0 => Unheard(u)
  /\ user[u] # NoUser => Mine(u)
  /\ DeployedOnce(u)
  /\ LeavesLast(u)
  /\ \A r \in Boxes : Sent(r, u, "handover") => r = u

(* The MQTT thread works for users that have a row.                        *)
WorkInv ==
  /\ mqtt.at = "planning" => \A x \in mqtt.todo : user[x[1]] # NoUser
  /\ mqtt.at \in {"pre_migrated", "estimating", "handovered"} => user[mqtt.user] # NoUser
  /\ Alive

OnceInv == WorkInv /\ \A u \in Users : OnceOf(u)

-----------------------------------------------------------------------------
(* Under a threshold planner a migration begins when the earlier one, or   *)
(* the deployment, has been reported.                                      *)

At(u) == GetService(u).server
State(u) == GetService(u).state
Ordered(u) == \E r \in Boxes : Sent(r, u, "migrate")
Prepared(u) == (\E r \in Boxes : Sent(r, u, "pre_migrate")) \/ Told(u, "pre_migrated")
Moving(u) == Ordered(u) \/ Told(u, "migrated")
PaceOf(u) ==
  /\ \A r, s \in Boxes : Sent(r, u, "migrate") /\ Sent(s, u, "migrate") => r = s
  /\ \A r \in Boxes : Single(inbox[r], u, "migrate")
  /\ Single(notices, u, "migrated")
  /\ ~(Ordered(u) /\ Told(u, "migrated"))
  /\ Deploying(u) \/ Told(u, "allocated") => State(u) = "init"
  /\ Moving(u) => State(u) \in {"pre_migrate", "pre_migrated"}
  /\ Prepared(u) => State(u) # "init"
  /\ State(u) = "running" => "MIGRATE" \notin mstate[u]
PaceInv ==
  /\ timers = {} /\ migPlan = [u \in Users |-> NoPlan]
  /\ mqtt.at \in {"idle", "dead", "planning", "handovered"}
  /\ mqtt.at = "handovered" => mqtt.m = mstate[mqtt.user]
  /\ \A u \in Users : user[u] # NoUser => PaceOf(u)

-----------------------------------------------------------------------------
(* Where the service of a user runs: where the last notice on its way says *)
(* or, without one, where its row says.                                    *)

RunsAt(u, s) == {c \in runs : c[1] = u} = {<<u, user[u].app, s>>}
HostOf(u) ==
  /\ Deploying(u) => ~Told(u, "migrated") /\ \A c \in runs : c[1] # u
  /\ ~Deploying(u) /\ ~Told(u, "allocated") /\ ~Told(u, "migrated") => RunsAt(u, At(u))
  /\ \A s \in Servers : LastIs(notices, u, s) => RunsAt(u, s)
HostInv == \A u \in Users : user[u] # NoUser => HostOf(u)

-----------------------------------------------------------------------------
(* How a migration goes on when, besides, notices keep their order and     *)
(* nobody leaves.                                                          *)

MoveOf(u) ==
  /\ mstate[u] # Unknown /\ "PRE_MIGRATED" \notin mstate[u]
  /\ "MIGRATE" \in mstate[u] <=> Moving(u)
  /\ "PRE_MIGRATE" \in mstate[u] <=> Moving(u)
  /\ State(u) \in {"pre_migrate", "pre_migrated"} => Moving(u)
  /\ State(u) = "init" => Deploying(u) \/ Told(u, "allocated")
  /\ Prepared(u) => Moving(u)

LinesOf(u) ==
  /\ \A r \in Boxes, k \in {"deploy", "pre_migrate", "migrate"} : Sent(r, u, k) => r = At(u)
  /\ Single(inbox[At(u)], u, "pre_migrate") /\ Single(notices, u, "pre_migrated")
  /\ Sent(At(u), u, "pre_migrate") => Ordered(u) /\ ~Told(u, "pre_migrated")
  /\ Before(inbox[At(u)], u, "pre_migrate", "migrate")
  /\ Before(notices, u, "pre_migrated", "migrated")
  /\ \A m \in Msgs(inbox[At(u)]) : Is(m, u, "migrate") => m.plan.server # At(u)

CalmInv ==
  /\ \A m \in Msgs(notices) : m.kind # "leave"
  /\ \A u \in Users : user[u] = NoUser => discoveries[u] = 0
  /\ \A u \in Users : user[u] # NoUser => MoveOf(u) /\ LinesOf(u)

-----------------------------------------------------------------------------
(* Types.                                                                  *)

LEMMA Sets ==
  ASSUME setup' = setup
  PROVE  /\ PlanSet' = PlanSet /\ OrderSet' = OrderSet /\ MessageSet' = MessageSet
         /\ WorkSet' = WorkSet /\ Timers' = Timers /\ MaxPlans' = MaxPlans
<1>1. MaxPlans' = MaxPlans
  BY DEF MaxPlans
<1>2. PlanSet' = PlanSet
  BY <1>1 DEF PlanSet
<1> QED  BY <1>1, <1>2 DEF OrderSet, MessageSet, WorkSet, Timers

LEMMA PlanFacts ==
  /\ \A p \in PlanSet : p.bts \in Stations /\ p.server \in Servers /\ p # NoPlan
  /\ NoPlan.server = NoServer /\ NoServer \notin Boxes
BY CentralAssumption DEF PlanSet, NoPlan, Plan, Boxes

LEMMA BitFacts ==
  /\ Unknown \notin SUBSET Bits /\ INIT \in SUBSET Bits /\ RUNNING \in SUBSET Bits
  /\ {"PRE_MIGRATE", "PRE_MIGRATED", "MIGRATE", "HANDOVER", "HANDOVERED"} \subseteq Bits
BY DEF Unknown, INIT, RUNNING, Bits

(* The row a user refers to.                                               *)
LEMMA RowFacts ==
  ASSUME Types, NEW u \in Users
  PROVE  /\ GetService(u) \in ServiceRows
         /\ GetService(u) # NoRow =>
              /\ user[u] # NoUser /\ user[u].app \in Apps /\ user[u].bts \in Stations
              /\ GetService(u) = service[u][user[u].app]
              /\ GetService(u).server \in Servers
              /\ GetService(u).state \in {"init", "running", "pre_migrate", "pre_migrated"}
         /\ user[u] = NoUser => GetService(u) = NoRow
         /\ user[u] # NoUser => user[u].bts \in Stations /\ user[u].app \in Apps \cup {NoApp}
<1>1. user[u] \in UserRows /\ service[u] \in [Apps -> ServiceRows]
  BY DEF Types
<1> QED  BY <1>1 DEF GetService, UserRows, ServiceRows, NoUser, NoRow

(* Rows that replace others.                                               *)
LEMMA RowTypes ==
  ASSUME Types, NEW u \in Users
  PROVE  /\ \A x \in {"running", "pre_migrate", "pre_migrated"} :
              GetService(u) # NoRow =>
                SetState(u, x) \in [Users -> [Apps -> ServiceRows]]
         /\ \A a \in Apps, s \in Servers :
              UpdateService(u, a, s) \in [Users -> [Apps -> ServiceRows]]
         /\ Destroyed(u) \in [Users -> [Apps -> ServiceRows]]
<1> DEFINE R == [Users -> [Apps -> ServiceRows]]
<1>1. service \in R /\ service[u] \in [Apps -> ServiceRows]
  BY DEF Types
<1>2. NoRow \in ServiceRows
  BY DEF ServiceRows
<1>3. ASSUME NEW x \in {"running", "pre_migrate", "pre_migrated"}, GetService(u) # NoRow
      PROVE  SetState(u, x) \in R
  <2>1. PICK a \in Apps : a = user[u].app /\ service[u][a] # NoRow
    BY <1>3, RowFacts
  <2>2. [service[u][a] EXCEPT !.state = x] \in ServiceRows
    BY <1>1, <2>1 DEF ServiceRows
  <2>3. SetState(u, x) = [service EXCEPT ![u] =
          [service[u] EXCEPT ![a] = [service[u][a] EXCEPT !.state = x]]]
    BY <1>1, <2>1 DEF SetState
  <2> QED  BY <1>1, <2>2, <2>3
<1>4. ASSUME NEW a \in Apps, NEW s \in Servers PROVE UpdateService(u, a, s) \in R
  <2>1. [server |-> s, state |-> "running"] \in ServiceRows
    BY DEF ServiceRows
  <2>2. \A x \in Apps :
          (CASE x = a -> [server |-> s, state |-> "running"]
             [] x # a /\ x = user[u].app -> NoRow
             [] OTHER -> service[u][x]) \in ServiceRows
    BY <1>1, <1>2, <2>1
  <2> QED  BY <1>1, <2>2 DEF UpdateService
<1>5. Destroyed(u) \in R
  BY <1>1, <1>2, RowFacts DEF Destroyed
<1> QED  BY <1>3, <1>4, <1>5

(* Orders and notices that are put into queues and taken out.              *)
LEMMA BoxTypes ==
  ASSUME Types, NEW r \in Boxes
  PROVE  /\ inbox[r] \in Seq(OrderSet)
         /\ \A o \in OrderSet : [inbox EXCEPT ![r] = Append(@, o)] \in [Boxes -> Seq(OrderSet)]
         /\ inbox[r] # <<>> =>
              /\ Head(inbox[r]) \in OrderSet
              /\ [inbox EXCEPT ![r] = Tail(@)] \in [Boxes -> Seq(OrderSet)]
<1>1. inbox \in [Boxes -> Seq(OrderSet)]
  BY DEF Types, Boxes
<1>2. PICK q \in Seq(OrderSet) : q = inbox[r]
  BY <1>1
<1>3. \A o \in OrderSet : Append(q, o) \in Seq(OrderSet)
  BY AppendProperties
<1>4. q # <<>> => Head(q) \in OrderSet /\ Tail(q) \in Seq(OrderSet)
  BY HeadTailProperties
<1> QED  BY <1>1, <1>2, <1>3, <1>4

LEMMA NoticeTypes ==
  ASSUME Types
  PROVE  /\ \A m \in MessageSet : Append(notices, m) \in Seq(MessageSet)
         /\ \A i \in DOMAIN notices : notices[i] \in MessageSet /\ Rest(i) \in Seq(MessageSet)
<1>1. PICK q \in Seq(MessageSet) : q = notices
  BY DEF Types
<1>2. \A m \in MessageSet : Append(q, m) \in Seq(MessageSet)
  BY AppendProperties
<1>3. \A i \in DOMAIN q : q[i] \in MessageSet /\ Without(q, i) \in Seq(MessageSet)
  BY Removed, ElementOfSeq, LenProperties
<1>4. \A i : Rest(i) = Without(notices, i)
  BY DEF Rest, Without
<1> QED  BY <1>1, <1>2, <1>3, <1>4

LEMMA OrderTypes ==
  /\ \A u \in Users, a \in Apps : Order("deploy", u, a, NoPlan) \in OrderSet
  /\ \A u \in Users, a \in Apps : Order("destroy", u, a, NoPlan) \in OrderSet
  /\ \A u \in Users, a \in Apps, p \in PlanSet :
       Order("pre_migrate", u, a, p) \in OrderSet /\ Order("migrate", u, a, p) \in OrderSet
  /\ \A u \in Users, p \in PlanSet : Order("handover", u, NoApp, p) \in OrderSet
BY DEF Order, OrderSet

LEMMA OrderKinds ==
  ASSUME NEW o \in OrderSet
  PROVE  /\ o.user \in Users
         /\ o.kind \in {"deploy", "destroy"} => o.app \in Apps /\ o.plan = NoPlan
         /\ o.kind \in {"pre_migrate", "migrate"} => o.app \in Apps /\ o.plan \in PlanSet
         /\ o.kind = "handover" => o.app = NoApp /\ o.plan \in PlanSet
BY DEF OrderSet

LEMMA MessageKinds ==
  ASSUME NEW m \in MessageSet
  PROVE  /\ m.user \in Users
         /\ m.kind = "allocated" => m.app \in Apps /\ m.from \in Servers
         /\ m.kind \in {"pre_migrated", "migrated"} =>
              m.app \in Apps /\ m.from \in Servers /\ m.plan \in PlanSet
         /\ m.kind = "handovered" => m.app = NoApp /\ m.from \in Users /\ m.plan \in PlanSet
         /\ m.kind = "leave" => m.app = NoApp /\ m.from \in Users
BY DEF MessageSet

LEMMA MessageTypes ==
  /\ \A u \in Users, a \in Apps, s \in Servers :
       Notice("allocated", u, a, s, NoPlan) \in MessageSet
  /\ \A u \in Users, a \in Apps, s \in Servers, p \in PlanSet :
       /\ Notice("pre_migrated", u, a, s, p) \in MessageSet
       /\ Notice("migrated", u, a, s, p) \in MessageSet
  /\ \A u \in Users, p \in PlanSet : Notice("handovered", u, NoApp, u, p) \in MessageSet
  /\ \A u \in Users : Notice("leave", u, NoApp, u, NoPlan) \in MessageSet
BY DEF Notice, MessageSet

LEMMA WorkTypes ==
  ASSUME Types
  PROVE  /\ Idle \in WorkSet /\ Dead \in WorkSet /\ Idle.at = "idle" /\ Dead.at = "dead"
         /\ mqtt.at = "planning" =>
              /\ mqtt.todo \subseteq Users \X PlanSet
              /\ \A x : [mqtt EXCEPT !.todo = @ \ {x}] \in WorkSet
                        /\ [mqtt EXCEPT !.todo = @ \ {x}].at = "planning"
                        /\ [mqtt EXCEPT !.todo = @ \ {x}].todo = mqtt.todo \ {x}
         /\ mqtt.at \in {"pre_migrated", "estimating"} =>
              /\ mqtt.user \in Users /\ mqtt.plan \in PlanSet /\ mqtt.m \in SUBSET Bits
              /\ [mqtt EXCEPT !.at = "estimating"] \in WorkSet
              /\ [mqtt EXCEPT !.at = "estimating"].at = "estimating"
              /\ [mqtt EXCEPT !.at = "estimating"].user = mqtt.user
         /\ mqtt.at = "handovered" => mqtt.user \in Users /\ mqtt.m \in SUBSET Bits
         /\ mqtt.at \in {"idle", "dead", "planning", "pre_migrated", "estimating", "handovered"}
         /\ mqtt.at = "dead" => mqtt = Dead
<1>1. mqtt \in WorkSet
  BY DEF Types
<1>2. Idle \in WorkSet /\ Dead \in WorkSet /\ Idle.at = "idle" /\ Dead.at = "dead"
  BY DEF WorkSet, Idle, Dead
<1>3. ASSUME mqtt.at = "planning"
      PROVE  /\ mqtt.todo \subseteq Users \X PlanSet
             /\ \A x : [mqtt EXCEPT !.todo = @ \ {x}] \in WorkSet
                       /\ [mqtt EXCEPT !.todo = @ \ {x}].at = "planning"
                       /\ [mqtt EXCEPT !.todo = @ \ {x}].todo = mqtt.todo \ {x}
  <2>1. mqtt \in [at : {"planning"}, n : Nat, todo : SUBSET (Users \X PlanSet)]
    BY <1>1, <1>3 DEF WorkSet, Idle, Dead
  <2> QED  BY <2>1 DEF WorkSet
<1>4. ASSUME mqtt.at \in {"pre_migrated", "estimating"}
      PROVE  /\ mqtt.user \in Users /\ mqtt.plan \in PlanSet /\ mqtt.m \in SUBSET Bits
             /\ [mqtt EXCEPT !.at = "estimating"] \in WorkSet
             /\ [mqtt EXCEPT !.at = "estimating"].at = "estimating"
             /\ [mqtt EXCEPT !.at = "estimating"].user = mqtt.user
  <2>1. mqtt \in [at : {"pre_migrated", "estimating"}, user : Users, plan : PlanSet,
                  m : SUBSET Bits]
    BY <1>1, <1>4 DEF WorkSet, Idle, Dead
  <2> QED  BY <2>1 DEF WorkSet
<1>5. ASSUME mqtt.at = "handovered" PROVE mqtt.user \in Users /\ mqtt.m \in SUBSET Bits
  BY <1>1, <1>5 DEF WorkSet, Idle, Dead
<1>6. /\ mqtt.at \in {"idle", "dead", "planning", "pre_migrated", "estimating", "handovered"}
      /\ mqtt.at = "dead" => mqtt = Dead
  BY <1>1 DEF WorkSet, Idle, Dead
<1> QED  BY <1>2, <1>3, <1>4, <1>5, <1>6

LEMMA TypeInit == Init => Types
<1> SUFFICES ASSUME Init PROVE Types
  OBVIOUS
<1>1. setup \in SetupSet
  BY CentralAssumption DEF Init
<1>2. setup.discoveries \in Nat /\ setup.plans \in Nat
  BY <1>1 DEF SetupSet
<1>3. <<>> \in Seq(OrderSet) /\ <<>> \in Seq(MessageSet)
  BY EmptySeq
<1>4. Idle \in WorkSet /\ Idle.at = "idle"
  BY DEF WorkSet, Idle
<1>5. NoUser \in UserRows /\ NoRow \in ServiceRows
  BY DEF UserRows, ServiceRows
<1> QED  BY <1>1, <1>2, <1>3, <1>4, <1>5 DEF Init, Types, MaxPlans

(* Timers and their changes.                                               *)
LEMMA TimerTypes ==
  /\ \A t \in Timers : \A stage \in {"read", "published"}, m \in SUBSET Bits :
       /\ [t EXCEPT !.stage = stage, !.m = m] \in Timers
       /\ [t EXCEPT !.stage = stage, !.m = m].user = t.user
       /\ [t EXCEPT !.stage = stage, !.m = m].app = t.app
  /\ \A t \in Timers : t.user \in Users /\ t.plan \in PlanSet /\ t.src \in Servers
                       /\ t.app \in Apps /\ t.m \in SUBSET Bits
                       /\ t.kind \in {"pre_migration", "migration", "handover"}
BY DEF Timers

(* What a user does to the rows of users and to the bits is of the type.   *)
LEMMA TypeDiscover ==
  ASSUME Types, setup' = setup, NEW u \in setup.users, NEW a \in setup.apps,
         \/ DiscoverWait(u, a) \/ DiscoverAgain(u, a)
         \/ \E b \in setup.stations, s \in Servers : DiscoverNew(u, a, b, s)
  PROVE  Types'
<1>0. /\ PlanSet' = PlanSet /\ OrderSet' = OrderSet /\ MessageSet' = MessageSet
      /\ WorkSet' = WorkSet /\ Timers' = Timers /\ MaxPlans' = MaxPlans
  BY Sets
<1>1. u \in Users /\ a \in Apps /\ setup.stations \subseteq Stations
  BY DEF Types, SetupSet
<1>2. /\ discoveries' \in [Users -> 0 .. setup.discoveries] /\ present' \subseteq Users
      /\ mqtt = Idle
  <2>1. setup.discoveries \in Nat /\ discoveries[u] \in 0 .. setup.discoveries
    BY <1>1 DEF Types, SetupSet
  <2>2. /\ discoveries[u] < setup.discoveries /\ present' = present \cup {u} /\ mqtt = Idle
        /\ discoveries' = [discoveries EXCEPT ![u] = @ + 1]
    BY DEF DiscoverWait, DiscoverAgain, DiscoverNew, MayDiscover, MqttIdle
  <2>3. discoveries[u] + 1 \in 0 .. setup.discoveries
    BY <2>1, <2>2
  <2> QED  BY <1>1, <2>2, <2>3 DEF Types
<1>3. CASE DiscoverWait(u, a)
  BY <1>0, <1>2, <1>3 DEF Types, DiscoverWait, dbVars, planVars, GetService
<1>4. CASE DiscoverAgain(u, a)
  <2>1. GetService(u).server \in Boxes
    BY <1>1, <1>4, RowFacts DEF DiscoverAgain, Known, Boxes
  <2>2. inbox' \in [Boxes -> Seq(OrderSet)]
    BY <1>1, <1>4, <2>1, BoxTypes, OrderTypes DEF DiscoverAgain, Publish
  <2> QED  BY <1>0, <1>2, <1>4, <2>2 DEF Types, DiscoverAgain, dbVars, planVars, GetService, Boxes
<1>5. ASSUME NEW b \in setup.stations, NEW s \in Servers, DiscoverNew(u, a, b, s)
      PROVE  Types'
  <2> DEFINE old == GetService(u)
  <2>1. Destroyed(u) \in [Users -> [Apps -> ServiceRows]]
    BY <1>1, RowTypes
  <2>2. old # NoRow => DestroyOrder(u) \in OrderSet /\ old.server \in Boxes
    BY <1>1, RowFacts, OrderTypes DEF DestroyOrder, Boxes
  <2>3. Idle.at = "idle" /\ Dead.at = "dead" /\ Idle \in WorkSet /\ Dead \in WorkSet
    BY WorkTypes
  <2>4. inbox \in [Boxes -> Seq(OrderSet)]
    BY DEF Types, Boxes
  <2>5. CASE Destroyed(u)[u][a] # NoRow
    <3>1. /\ user' = [user EXCEPT ![u] = [bts |-> b, app |-> IF old = NoRow THEN @.app ELSE NoApp]]
          /\ mqtt' = Dead /\ mstate' = mstate /\ service' = Destroyed(u)
          /\ inbox' = IF old = NoRow THEN inbox
                      ELSE [inbox EXCEPT ![old.server] = Append(@, DestroyOrder(u))]
          /\ UNCHANGED <<planVars, timers, runs, notices, plans>>
      BY <1>5, <2>5 DEF DiscoverNew
    <3>2. user[u].app \in Apps \cup {NoApp}
      BY <1>1 DEF Types, UserRows, NoUser
    <3>3. user' \in [Users -> UserRows]
      BY <1>1, <3>1, <3>2 DEF Types, UserRows
    <3>4. inbox' \in [Boxes -> Seq(OrderSet)]
      BY <2>2, <2>4, <3>1, BoxTypes
    <3> HIDE DEF old
    <3> QED  BY <1>0, <1>2, <2>1, <2>3, <3>1, <3>3, <3>4 DEF Types, planVars, Boxes
  <2>6. CASE Destroyed(u)[u][a] = NoRow
    <3>1. /\ user' = [user EXCEPT ![u] = [bts |-> b, app |-> a]]
          /\ service' = [Destroyed(u) EXCEPT ![u][a] = [server |-> s, state |-> "init"]]
          /\ mstate' = [mstate EXCEPT ![u] = INIT]
          /\ mqtt' = mqtt
          /\ UNCHANGED <<planVars, timers, runs, notices, plans>>
      BY <1>5, <2>6 DEF DiscoverNew
    <3>2. inbox' = [r \in DOMAIN inbox |->
               inbox[r]
               \o (IF r = old.server THEN <<DestroyOrder(u)>> ELSE <<>>)
               \o (IF r = s THEN <<Order("deploy", u, a, NoPlan)>> ELSE <<>>)]
      BY <1>5, <2>6 DEF DiscoverNew
    <3>3. user' \in [Users -> UserRows] /\ mstate' \in [Users -> {Unknown} \cup SUBSET Bits]
      BY <1>1, <3>1, BitFacts DEF Types, UserRows
    <3>4. service' \in [Users -> [Apps -> ServiceRows]]
      <4>1. [server |-> s, state |-> "init"] \in ServiceRows
        BY DEF ServiceRows
      <4> QED  BY <1>1, <2>1, <3>1, <4>1
    <3>5. \A t \in timers : mstate'[t.user] # Unknown
      BY <1>1, <3>1, BitFacts DEF Types
    <3>6. inbox' \in [Boxes -> Seq(OrderSet)]
      <4>1. ASSUME NEW r \in Boxes
            PROVE inbox[r] \o (IF r = old.server THEN <<DestroyOrder(u)>> ELSE <<>>)
                  \o (IF r = s THEN <<Order("deploy", u, a, NoPlan)>> ELSE <<>>) \in Seq(OrderSet)
        <5>1. PICK q \in Seq(OrderSet) : q = inbox[r]
          BY <2>4
        <5>2. PICK x : x = IF r = old.server THEN <<DestroyOrder(u)>> ELSE <<>>
          OBVIOUS
        <5>3. PICK y : y = IF r = s THEN <<Order("deploy", u, a, NoPlan)>> ELSE <<>>
          OBVIOUS
        <5>4. r = old.server => old # NoRow
          BY <1>1, RowFacts, CentralAssumption DEF NoRow, Boxes
        <5>5. x \in Seq(OrderSet)
          BY <2>2, <5>2, <5>4, EmptySeq
        <5>6. y \in Seq(OrderSet)
          BY <1>1, <5>3, EmptySeq, OrderTypes
        <5>7. (q \o x) \o y \in Seq(OrderSet)
          BY <5>5, <5>6, ConcatProperties
        <5> QED  BY <5>1, <5>2, <5>3, <5>7
      <4> QED  BY <2>4, <3>2, <4>1
    <3> QED  BY <1>0, <1>2, <2>3, <3>1, <3>3, <3>4, <3>5, <3>6 DEF Types, planVars, Boxes
  <2> QED  BY <2>5, <2>6
<1> QED  BY <1>3, <1>4, <1>5

LEMMA TypeNotice ==
  ASSUME Types, setup' = setup, NEW i \in DOMAIN notices,
         \/ AllocatedKnown(i) \/ AllocatedUnknown(i)
         \/ PreMigratedThreshold(i) \/ PreMigratedRead(i)
         \/ Migrated(i) \/ HandoveredRead(i) \/ Left(i)
  PROVE  Types'
<1>0. /\ PlanSet' = PlanSet /\ OrderSet' = OrderSet /\ MessageSet' = MessageSet
      /\ WorkSet' = WorkSet /\ Timers' = Timers /\ MaxPlans' = MaxPlans
  BY Sets
<1>1. PICK n \in MessageSet : n = notices[i]
  BY NoticeTypes
<1>2. PICK u \in Users : u = n.user
  BY MessageKinds
<1>3. notices' \in Seq(MessageSet) /\ mqtt = Idle
  BY NoticeTypes DEF AllocatedKnown, AllocatedUnknown, PreMigratedThreshold,
     PreMigratedRead, Migrated, HandoveredRead, Left, Receive, MqttIdle
<1>4. Idle.at = "idle" /\ Dead.at = "dead" /\ Idle \in WorkSet /\ Dead \in WorkSet
  BY WorkTypes
<1>5. \A m \in SUBSET Bits : m # Unknown
  BY BitFacts
<1>t. /\ user \in [Users -> UserRows] /\ NoUser \in UserRows
      /\ service \in [Users -> [Apps -> ServiceRows]]
      /\ mstate \in [Users -> {Unknown} \cup SUBSET Bits]
      /\ inbox \in [Boxes -> Seq(OrderSet)]
      /\ \A x \in timers : x.user \in Users /\ mstate[x.user] # Unknown
  BY TimerTypes DEF Types, Boxes, UserRows
<1>6. CASE AllocatedKnown(i)
  <2>1. n.app \in Apps /\ n.from \in Servers
    BY <1>1, <1>6, MessageKinds DEF AllocatedKnown, Receive
  <2>2. /\ mstate' = [mstate EXCEPT ![u] = RUNNING]
        /\ service' = service \/ service' = UpdateService(u, n.app, n.from)
        /\ mqtt' = Dead \/ mqtt' = mqtt
        /\ UNCHANGED <<user, planVars, timers, worldVars, boundVars>>
    BY <1>1, <1>2, <1>6 DEF AllocatedKnown
  <2>3. service' \in [Users -> [Apps -> ServiceRows]]
    BY <2>1, <2>2, RowTypes DEF Types
  <2>k. /\ mstate' \in [Users -> {Unknown} \cup SUBSET Bits]
        /\ \A x \in timers : mstate'[x.user] # Unknown
    BY <1>t, <1>5, <2>2, BitFacts
  <2> QED  BY <1>0, <1>3, <1>4, <2>2, <2>3, <2>k
           DEF Types, planVars, worldVars, boundVars
<1>7. CASE AllocatedUnknown(i)
  <2>1. n.app \in Apps /\ n.from \in Servers
    BY <1>1, <1>7, MessageKinds DEF AllocatedUnknown, Receive
  <2>2. /\ mstate' = [mstate EXCEPT ![u] = RUNNING]
        /\ \/ UNCHANGED dbVars
           \/ /\ service' = [service EXCEPT ![u][n.app] =
                              [server |-> n.from, state |-> "running"]]
              /\ user' = Refers(u, n.app)
        /\ mqtt' = Dead \/ mqtt' = mqtt
        /\ UNCHANGED <<planVars, timers, worldVars, boundVars>>
    BY <1>1, <1>2, <1>7 DEF AllocatedUnknown
  <2>3. service' \in [Users -> [Apps -> ServiceRows]]
    <3>1. [server |-> n.from, state |-> "running"] \in ServiceRows
      BY <2>1 DEF ServiceRows
    <3>2. [service EXCEPT ![u][n.app] = [server |-> n.from, state |-> "running"]]
            \in [Users -> [Apps -> ServiceRows]]
      BY <1>t, <2>1, <3>1
    <3> QED  BY <1>t, <2>2, <3>2 DEF dbVars
  <2>4. user' \in [Users -> UserRows]
    <3>1. user[u] # NoUser => [user[u] EXCEPT !.app = n.app] \in UserRows
      BY <2>1 DEF Types, UserRows
    <3>2. Refers(u, n.app) \in [Users -> UserRows]
      <4>1. CASE user[u] = NoUser
        <5>1. Refers(u, n.app) = [user EXCEPT ![u] = [user[u] EXCEPT !.app = user[u].app]]
          BY <4>1 DEF Refers, Types
        <5>2. [user[u] EXCEPT !.app = user[u].app] = NoUser
          BY <4>1 DEF NoUser
        <5> QED  BY <1>t, <5>1, <5>2
      <4>2. CASE user[u] # NoUser
        <5>1. Refers(u, n.app) = [user EXCEPT ![u] = [user[u] EXCEPT !.app = n.app]]
          BY <4>2 DEF Refers, Types
        <5> QED  BY <1>t, <3>1, <4>2, <5>1
      <4> QED  BY <4>1, <4>2
    <3> QED  BY <2>2, <3>2 DEF Types, dbVars
  <2>k. /\ mstate' \in [Users -> {Unknown} \cup SUBSET Bits]
        /\ \A x \in timers : mstate'[x.user] # Unknown
    BY <1>t, <1>5, <2>2, BitFacts
  <2> QED  BY <1>0, <1>3, <1>4, <2>2, <2>3, <2>4, <2>k
           DEF Types, planVars, worldVars, boundVars
<1>8. CASE PreMigratedThreshold(i)
  <2>1. n.app \in Apps /\ n.from \in Servers /\ n.plan \in PlanSet
    BY <1>1, <1>8, MessageKinds DEF PreMigratedThreshold, Receive
  <2>2. service' \in [Users -> [Apps -> ServiceRows]]
    BY <1>1, <1>2, <1>8, RowTypes DEF PreMigratedThreshold, Types
  <2>3. /\ UNCHANGED <<user, hoPlan, mqtt, timers, runs, present, boundVars>>
        /\ mstate' = mstate \/ (MigrationAllowed(u) /\ mstate' = [mstate EXCEPT ![u] = @ \cup {"MIGRATE"}])
        /\ \/ migPlan' = migPlan \/ migPlan' = PlanDropped(u)
           \/ migPlan' = [migPlan EXCEPT ![u] = NoPlan]
    BY <1>1, <1>2, <1>8 DEF PreMigratedThreshold
  <2>4. /\ mstate' \in [Users -> {Unknown} \cup SUBSET Bits]
        /\ \A v \in Users : mstate[v] # Unknown => mstate'[v] # Unknown
    <3>1. MigrationAllowed(u) => mstate[u] \in SUBSET Bits
      BY DEF Types, MigrationAllowed
    <3>2. MigrationAllowed(u) => mstate[u] \cup {"MIGRATE"} \in SUBSET Bits
      BY <3>1, BitFacts
    <3> QED  BY <1>t, <1>5, <2>3, <3>2
  <2>5. migPlan' \in [Users -> PlanSet \cup {NoPlan}]
    BY <2>3 DEF Types, PlanDropped
  <2>6. inbox' \in [Boxes -> Seq(OrderSet)]
    <3>1. CASE inbox' = inbox
      BY <3>1 DEF Types, Boxes
    <3>2. CASE inbox' # inbox
      <4>1. /\ GetService(u) # NoRow /\ migPlan[u] # NoPlan
            /\ Publish(GetService(u).server, Order("migrate", u, user[u].app, migPlan[u]))
        BY <1>1, <1>2, <1>8, <3>2 DEF PreMigratedThreshold
      <4>2. /\ GetService(u).server \in Boxes /\ user[u].app \in Apps /\ migPlan[u] \in PlanSet
        BY <4>1, RowFacts DEF Types, Boxes
      <4>3. Order("migrate", u, user[u].app, migPlan[u]) \in OrderSet
        BY <4>2, OrderTypes
      <4> QED  BY <4>1, <4>2, <4>3, BoxTypes DEF Publish
    <3> QED  BY <3>1, <3>2
  <2>k. \A x \in timers : mstate'[x.user] # Unknown
    BY <1>t, <2>4
  <2> QED  BY <1>0, <1>3, <1>4, <2>2, <2>3, <2>4, <2>5, <2>6, <2>k
           DEF Types, Boxes, boundVars
<1>9. CASE PreMigratedRead(i)
  <2>1. n.app \in Apps /\ n.from \in Servers /\ n.plan \in PlanSet
    BY <1>1, <1>9, MessageKinds DEF PreMigratedRead, Receive
  <2>2. service' \in [Users -> [Apps -> ServiceRows]]
    BY <1>1, <1>2, <1>9, RowTypes DEF PreMigratedRead, Types
  <2>3. /\ UNCHANGED <<user, mstate, planVars, timers, worldVars, boundVars>>
        /\ \/ mqtt' = Idle
           \/ /\ GetService(u) # NoRow /\ service' = SetState(u, "pre_migrated")
              /\ mstate[u] # Unknown
              /\ mqtt' = [at |-> "pre_migrated", user |-> u, plan |-> n.plan, m |-> mstate[u]]
    BY <1>1, <1>2, <1>3, <1>9 DEF PreMigratedRead
  <2>4. mqtt' \in WorkSet
    <3>1. mstate[u] # Unknown => mstate[u] \in SUBSET Bits
      BY DEF Types
    <3>2. mstate[u] # Unknown =>
            [at |-> "pre_migrated", user |-> u, plan |-> n.plan, m |-> mstate[u]] \in WorkSet
      BY <2>1, <3>1 DEF WorkSet
    <3> QED  BY <1>4, <2>3, <3>2
  <2>5. mqtt'.at \in {"pre_migrated", "estimating"} =>
          GetService(mqtt.user)' # NoRow /\ mstate'[mqtt'.user] # Unknown
    <3>1. CASE mqtt' = Idle
      BY <1>4, <3>1
    <3>2. CASE mqtt' # Idle
      <4>1. mqtt'.user = u
        BY <2>3, <3>2
      <4>2. PICK a \in Apps : a = user[u].app
        BY <2>3, <3>2, RowFacts
      <4>3. service'[u][a] = [service[u][a] EXCEPT !.state = "pre_migrated"]
        BY <2>3, <3>2, <4>2 DEF SetState, Types
      <4>4. a # NoApp
        BY <4>2, CentralAssumption
      <4>5. service[u][a] # NoRow /\ service[u][a] \in ServiceRows
        BY <2>3, <3>2, <4>2, <4>4, RowFacts DEF Types
      <4>6. service'[u][a].state = "pre_migrated"
        BY <4>3, <4>5 DEF ServiceRows
      <4>7. mstate'[u] # Unknown
        BY <2>3, <3>2
      <4> QED  BY <2>3, <4>1, <4>2, <4>4, <4>6, <4>7 DEF GetService, NoRow
    <3> QED  BY <3>1, <3>2
  <2> QED  BY <1>0, <1>3, <2>2, <2>3, <2>4, <2>5 DEF Types, planVars, worldVars, boundVars
<1>10. CASE Migrated(i)
  <2>1. n.app \in Apps /\ n.from \in Servers
    BY <1>1, <1>10, MessageKinds DEF Migrated, Receive
  <2>2. /\ mstate' = mstate \/ mstate' = MigratedBits(u)
        /\ service' = service \/ service' = UpdateService(u, n.app, n.from)
        /\ mqtt' = Dead \/ mqtt' = mqtt
        /\ UNCHANGED <<user, planVars, timers, worldVars, boundVars>>
    BY <1>1, <1>2, <1>10 DEF Migrated, MigratedRow
  <2>3. service' \in [Users -> [Apps -> ServiceRows]]
    BY <2>1, <2>2, RowTypes DEF Types
  <2>4. /\ mstate' \in [Users -> {Unknown} \cup SUBSET Bits]
        /\ \A v \in Users : mstate[v] # Unknown => mstate'[v] # Unknown
    BY <1>t, <1>5, <2>2, BitFacts DEF MigratedBits
  <2>k. \A x \in timers : mstate'[x.user] # Unknown
    BY <1>t, <2>4
  <2> QED  BY <1>0, <1>3, <1>4, <2>2, <2>3, <2>4, <2>k DEF Types, planVars, worldVars, boundVars
<1>11. CASE HandoveredRead(i)
  <2>1. n.plan \in PlanSet
    BY <1>1, <1>11, MessageKinds DEF HandoveredRead, Receive
  <2>2. /\ UNCHANGED <<service, mstate, planVars, timers, worldVars, boundVars>>
        /\ \/ mqtt' = Dead /\ user' = user
           \/ /\ user[u] # NoUser /\ user' = [user EXCEPT ![u].bts = n.plan.bts]
              /\ \/ mqtt' = Idle
                 \/ /\ mstate[u] \notin {Unknown, RUNNING}
                    /\ mqtt' = [at |-> "handovered", user |-> u, m |-> mstate[u]]
    BY <1>1, <1>2, <1>11 DEF HandoveredRead
  <2>3. user' \in [Users -> UserRows]
    <3>1. user[u] # NoUser => [user[u] EXCEPT !.bts = n.plan.bts] \in UserRows
      BY <2>1, PlanFacts DEF Types, UserRows
    <3> QED  BY <2>2, <3>1 DEF Types
  <2>4. mqtt' \in WorkSet /\ mqtt'.at \notin {"pre_migrated", "estimating"}
    <3>1. mstate[u] # Unknown => mstate[u] \in SUBSET Bits
      BY DEF Types
    <3>2. mstate[u] # Unknown => [at |-> "handovered", user |-> u, m |-> mstate[u]] \in WorkSet
      BY <3>1 DEF WorkSet
    <3> QED  BY <1>4, <2>2, <3>2
  <2> QED  BY <1>0, <1>3, <2>2, <2>3, <2>4 DEF Types, planVars, worldVars, boundVars
<1>12. CASE Left(i)
  <2>1. UNCHANGED <<mstate, planVars, mqtt, timers, runs, present, boundVars>>
    BY <1>12 DEF Left
  <2>2. CASE GetService(u) = NoRow
    <3>1. user' = user /\ service' = service /\ inbox' = inbox
      BY <1>1, <1>2, <1>12, <2>2 DEF Left, dbVars
    <3> QED  BY <1>0, <1>3, <1>4, <2>1, <3>1 DEF Types, planVars, boundVars
  <2>3. CASE GetService(u) # NoRow
    <3>1. /\ service' = Destroyed(u) /\ user' = [user EXCEPT ![u] = NoUser]
          /\ inbox' = [inbox EXCEPT ![GetService(u).server] = Append(@, DestroyOrder(u))]
      BY <1>1, <1>2, <1>12, <2>3 DEF Left, UserGone, Publish
    <3>2. service' \in [Users -> [Apps -> ServiceRows]] /\ user' \in [Users -> UserRows]
      BY <1>t, <3>1, RowTypes
    <3>3. DestroyOrder(u) \in OrderSet /\ GetService(u).server \in Boxes
      BY <2>3, RowFacts, OrderTypes DEF DestroyOrder, Boxes
    <3>4. inbox' \in [Boxes -> Seq(OrderSet)]
      BY <3>1, <3>3, BoxTypes
    <3> QED  BY <1>0, <1>3, <1>4, <2>1, <3>2, <3>4 DEF Types, planVars, boundVars, Boxes
  <2> QED  BY <2>2, <2>3
<1> QED  BY <1>6, <1>7, <1>8, <1>9, <1>10, <1>11, <1>12

(* A plan that is handled: it is one of those computed.                    *)
LEMMA PlannedTypes ==
  ASSUME Types, NEW x, NextPlan(x)
  PROVE  /\ x[1] \in Users /\ x[2] \in PlanSet
         /\ mqtt' \in WorkSet /\ mqtt'.at \in {"idle", "dead", "planning"}
         /\ mqtt'.at = "planning" => mqtt'.todo \subseteq mqtt.todo
         /\ GetService(x[1]) # NoRow => mqtt' # Dead
         /\ mqtt.at = "planning" /\ x \in mqtt.todo
<1>1. mqtt.at = "planning" /\ x \in mqtt.todo /\ mqtt.todo \subseteq Users \X PlanSet
  BY WorkTypes DEF NextPlan
<1>2. /\ mqtt' = Dead \/ mqtt' = Idle \/ mqtt' = [mqtt EXCEPT !.todo = @ \ {x}]
      /\ GetService(x[1]) # NoRow =>
           mqtt' = Idle \/ mqtt' = [mqtt EXCEPT !.todo = @ \ {x}]
  BY DEF NextPlan
<1>3. Idle.at = "idle" /\ Dead.at = "dead" /\ Idle \in WorkSet /\ Dead \in WorkSet
  BY WorkTypes
<1>4. PICK w \in WorkSet : /\ w = [mqtt EXCEPT !.todo = @ \ {x}]
                           /\ w.at = "planning" /\ w.todo = mqtt.todo \ {x}
  BY <1>1, WorkTypes
<1>5. mqtt' \in WorkSet /\ mqtt'.at \in {"idle", "dead", "planning"}
  BY <1>2, <1>3, <1>4
<1>6. mqtt'.at = "planning" => mqtt'.todo \subseteq mqtt.todo
  BY <1>2, <1>3, <1>4
<1>7. GetService(x[1]) # NoRow => mqtt' # Dead
  BY <1>2, <1>3, <1>4
<1>8. x[1] \in Users /\ x[2] \in PlanSet
  BY <1>1
<1> QED  BY <1>1, <1>5, <1>6, <1>7, <1>8

LEMMA TypeContinue ==
  ASSUME Types, Continue
  PROVE  Types'
<1>0. /\ PlanSet' = PlanSet /\ OrderSet' = OrderSet /\ MessageSet' = MessageSet
      /\ WorkSet' = WorkSet /\ Timers' = Timers /\ MaxPlans' = MaxPlans /\ setup' = setup
  BY Sets DEF Continue
<1>t. /\ user \in [Users -> UserRows] /\ NoUser \in UserRows
      /\ service \in [Users -> [Apps -> ServiceRows]]
      /\ mstate \in [Users -> {Unknown} \cup SUBSET Bits]
      /\ inbox \in [Boxes -> Seq(OrderSet)]
      /\ hoPlan \in [Users -> PlanSet \cup {NoPlan}]
      /\ migPlan \in [Users -> PlanSet \cup {NoPlan}]
      /\ \A x \in timers : x \in Timers /\ x.user \in Users /\ mstate[x.user] # Unknown
  BY TimerTypes DEF Types, Boxes, UserRows
<1>5. \A m \in SUBSET Bits : m # Unknown
  BY BitFacts
<1>6. ASSUME NEW x \in mqtt.todo, NothingPlanned(x) PROVE Types'
  <2>1. NextPlan(x) /\ UNCHANGED <<dbVars, mstate, planVars, timers, worldVars, notices, boundVars>>
    BY <1>6 DEF NothingPlanned
  <2> QED  BY <1>0, <2>1, PlannedTypes DEF Types, dbVars, planVars, worldVars, boundVars
<1>7. ASSUME NEW x \in mqtt.todo, PlanThreshold(x) PROVE Types'
  <2>0. PICK u \in Users, p \in PlanSet : u = x[1] /\ p = x[2]
    BY <1>7, PlannedTypes DEF PlanThreshold
  <2>1. /\ NextPlan(x) /\ GetService(u) # NoRow /\ mstate[u] # Unknown
        /\ UNCHANGED <<user, timers, runs, present, notices, boundVars>>
        /\ service' = service \/ service' = SetState(u, "pre_migrate")
    BY <2>0, <1>7 DEF PlanThreshold
  <2>2. hoPlan' \in [Users -> PlanSet \cup {NoPlan}] /\ migPlan' \in [Users -> PlanSet \cup {NoPlan}]
    <3>1. hoPlan[u] \in PlanSet \cup {NoPlan} /\ migPlan[u] \in PlanSet \cup {NoPlan}
      BY <1>t
    <3>2. PICK v \in PlanSet \cup {NoPlan} : hoPlan' = [hoPlan EXCEPT ![u] = v]
      BY <2>0, <1>7, <3>1 DEF PlanThreshold
    <3>3. PICK w \in PlanSet \cup {NoPlan} : migPlan' = [migPlan EXCEPT ![u] = w]
      BY <2>0, <1>7, <3>1 DEF PlanThreshold
    <3> QED  BY <1>t, <3>2, <3>3
  <2>3. service' \in [Users -> [Apps -> ServiceRows]]
    BY <1>t, <2>1, RowTypes
  <2>4. mstate' \in [Users -> {Unknown} \cup SUBSET Bits]
        /\ \A t \in timers : mstate'[t.user] # Unknown
    <3>1. PICK s : mstate' = [mstate EXCEPT ![u] = mstate[u] \cup s]
                   /\ s \subseteq {"HANDOVER", "PRE_MIGRATE", "MIGRATE"}
      <4>1. PICK h, m, t : mstate' = [mstate EXCEPT ![u] = ThresholdBits(u, p, h, m)
                                         \cup (IF t THEN {"MIGRATE"} ELSE {})]
        BY <2>0, <1>7 DEF PlanThreshold
      <4>2. ThresholdBits(u, p, h, m) \cup (IF t THEN {"MIGRATE"} ELSE {})
              = mstate[u] \cup ((IF h THEN {"HANDOVER"} ELSE {})
                                \cup (IF m THEN {"PRE_MIGRATE"} ELSE {})
                                \cup (IF t THEN {"MIGRATE"} ELSE {}))
        BY DEF ThresholdBits
      <4>3. ((IF h THEN {"HANDOVER"} ELSE {}) \cup (IF m THEN {"PRE_MIGRATE"} ELSE {})
             \cup (IF t THEN {"MIGRATE"} ELSE {})) \subseteq {"HANDOVER", "PRE_MIGRATE", "MIGRATE"}
        OBVIOUS
      <4> QED  BY <4>1, <4>2, <4>3
    <3>2. mstate[u] \in SUBSET Bits /\ s \subseteq Bits
      BY <1>t, <2>1, <3>1, BitFacts
    <3>3. mstate[u] \cup s \in SUBSET Bits
      BY <3>2
    <3> QED  BY <1>t, <1>5, <3>1, <3>3
  <2>5. inbox' \in [Boxes -> Seq(OrderSet)]
    <3>0. PICK c, d, e, w :
            /\ c = (p.bts # user[u].bts /\ mstate[u] \cap {"HANDOVER", "HANDOVERED"} = {})
            /\ d = StartsMigration(u, p)
            /\ e = (StartsMigration(u, p) /\ "MIGRATE" \notin mstate[u])
            /\ w = Source(u, p)
      BY Zenon
    <3>1. inbox' = [r \in DOMAIN inbox |-> inbox[r]
          \o (IF r = u /\ c THEN <<Order("handover", u, NoApp, p)>> ELSE <<>>)
          \o (IF r = w /\ d THEN <<Order("pre_migrate", u, user[u].app, p)>> ELSE <<>>)
          \o (IF r = w /\ e THEN <<Order("migrate", u, user[u].app, p)>> ELSE <<>>)]
      BY <2>0, <3>0, <1>7, Zenon DEF PlanThreshold
    <3>2. user[u].app \in Apps
      BY <2>1, RowFacts
    <3>3. ASSUME NEW r \in Boxes PROVE inbox'[r] \in Seq(OrderSet)
      <4>1. PICK q \in Seq(OrderSet) : q = inbox[r]
        BY <1>t
      <4>2. PICK y : y = IF r = u /\ c THEN <<Order("handover", u, NoApp, p)>> ELSE <<>>
        OBVIOUS
      <4>3. PICK z : z = IF r = w /\ d THEN <<Order("pre_migrate", u, user[u].app, p)>> ELSE <<>>
        OBVIOUS
      <4>4. PICK l : l = IF r = w /\ e THEN <<Order("migrate", u, user[u].app, p)>> ELSE <<>>
        OBVIOUS
      <4>5. y \in Seq(OrderSet)
        BY <4>2, EmptySeq, OrderTypes
      <4>6. z \in Seq(OrderSet)
        BY <3>2, <4>3, EmptySeq, OrderTypes
      <4>7. l \in Seq(OrderSet)
        BY <3>2, <4>4, EmptySeq, OrderTypes
      <4>8. ((q \o y) \o z) \o l \in Seq(OrderSet)
        <5>1. q \o y \in Seq(OrderSet)
          BY <4>5, ConcatProperties
        <5>2. (q \o y) \o z \in Seq(OrderSet)
          BY <4>6, <5>1, ConcatProperties
        <5> QED  BY <4>7, <5>2, ConcatProperties
      <4> QED  BY <1>t, <3>1, <4>1, <4>2, <4>3, <4>4, <4>8
    <3> QED  BY <1>t, <3>1, <3>3
  <2> QED  BY <1>0, <2>1, <2>2, <2>3, <2>4, <2>5, PlannedTypes DEF Types, boundVars, Boxes
<1>8. ASSUME NEW x \in mqtt.todo, PlanMove(x) \/ PlanHandover(x) \/ PlanPassedOver(x) PROVE Types'
  <2>0. PICK u \in Users, p \in PlanSet : u = x[1] /\ p = x[2]
    BY <1>8, PlannedTypes DEF PlanMove, PlanHandover, PlanPassedOver
  <2>1. /\ NextPlan(x) /\ GetService(u) # NoRow /\ mstate[u] # Unknown
        /\ UNCHANGED <<dbVars, mstate, worldVars, notices, boundVars>>
    BY <2>0, <1>8 DEF PlanMove, PlanHandover, PlanPassedOver
  <2>2. hoPlan' \in [Users -> PlanSet \cup {NoPlan}] /\ migPlan' \in [Users -> PlanSet \cup {NoPlan}]
    <3>1. /\ hoPlan[u] \in PlanSet \cup {NoPlan} /\ migPlan[u] \in PlanSet \cup {NoPlan}
          /\ hoPlan = [hoPlan EXCEPT ![u] = hoPlan[u]] /\ migPlan = [migPlan EXCEPT ![u] = migPlan[u]]
      BY <1>t
    <3>2. PICK v \in PlanSet \cup {NoPlan} : hoPlan' = [hoPlan EXCEPT ![u] = v]
      BY <2>0, <1>8, <3>1 DEF PlanMove, PlanHandover, PlanPassedOver, planVars
    <3>3. PICK w \in PlanSet \cup {NoPlan} : migPlan' = [migPlan EXCEPT ![u] = w]
      BY <2>0, <1>8, <3>1 DEF PlanMove, PlanHandover, PlanPassedOver, planVars
    <3> QED  BY <1>t, <3>2, <3>3
  <2>3. /\ timers' \subseteq Timers
        /\ \A t \in timers' : mstate'[t.user] # Unknown
    <3>1. PICK k \in {"pre_migration", "handover"}, s \in Servers :
            timers' = timers \/ timers' = timers \cup {Timer(k, u, user[u].app, s, p)}
      <4>1. GetService(u).server \in Servers /\ p.server \in Servers
        BY <2>1, RowFacts, PlanFacts
      <4>2. CASE PlanMove(x)
        BY <2>0, <4>1, <4>2 DEF PlanMove, Source, Waiting
      <4>3. CASE PlanHandover(x)
        BY <2>0, <4>1, <4>3 DEF PlanHandover, Waiting
      <4>4. CASE PlanPassedOver(x)
        BY <4>1, <4>4 DEF PlanPassedOver
      <4> QED  BY <1>8, <4>2, <4>3, <4>4
    <3>2. /\ Timer(k, u, user[u].app, s, p) \in Timers
          /\ Timer(k, u, user[u].app, s, p).user = u
      <4>1. user[u].app \in Apps
        BY <2>1, RowFacts
      <4> QED  BY <3>1, <4>1 DEF Timer, Timers
    <3>3. mstate' = mstate /\ timers \subseteq Timers
      BY <2>1 DEF Types
    <3>4. ASSUME NEW t \in timers' PROVE t \in Timers /\ mstate'[t.user] # Unknown
      <4>1. t \in timers \/ t = Timer(k, u, user[u].app, s, p)
        BY <3>1
      <4> QED  BY <1>t, <2>1, <3>2, <3>3, <4>1
    <3> QED  BY <3>4
  <2> QED  BY <1>0, <2>1, <2>2, <2>3, PlannedTypes DEF Types, dbVars, worldVars, boundVars, Boxes
<1>9. CASE PreMigratedMark
  <2>1. /\ mqtt.at = "pre_migrated" /\ mqtt.user \in Users /\ mqtt.m \in SUBSET Bits
        /\ mstate' = [mstate EXCEPT ![mqtt.user] = mqtt.m \cup {"PRE_MIGRATED"}]
        /\ mqtt' = [mqtt EXCEPT !.at = "estimating"]
        /\ UNCHANGED <<dbVars, planVars, timers, worldVars, notices, boundVars>>
    BY <1>9, WorkTypes DEF PreMigratedMark
  <2>2. mqtt.m \cup {"PRE_MIGRATED"} \in SUBSET Bits
    BY <2>1, BitFacts
  <2>3. mstate' \in [Users -> {Unknown} \cup SUBSET Bits]
        /\ \A t \in timers : mstate'[t.user] # Unknown
    BY <1>t, <1>5, <2>1, <2>2
  <2>4. mqtt' \in WorkSet /\ mqtt'.user = mqtt.user /\ GetService(mqtt.user) # NoRow
    BY <2>1, WorkTypes DEF Types
  <2>5. GetService(mqtt.user)' # NoRow /\ mstate'[mqtt'.user] # Unknown
    BY <1>t, <1>5, <2>1, <2>2, <2>4 DEF GetService, dbVars
  <2> QED  BY <1>0, <2>1, <2>3, <2>4, <2>5 DEF Types, dbVars, planVars, worldVars, boundVars
<1>10. CASE PreMigratedUnknown
  <2>1. mqtt' = Idle /\ UNCHANGED <<dbVars, mstate, planVars, timers, worldVars, notices, boundVars>>
    BY <1>10 DEF PreMigratedUnknown
  <2> QED  BY <1>0, <2>1, WorkTypes DEF Types, dbVars, planVars, worldVars, boundVars
<1>11. CASE PreMigratedStays
  <2>1. PICK u \in Users : u = mqtt.user /\ GetService(u) # NoRow
    BY <1>11, WorkTypes DEF PreMigratedStays, Types
  <2>2. /\ service' = SetState(u, "running") /\ mstate' = [mstate EXCEPT ![u] = RUNNING]
        /\ migPlan' = [migPlan EXCEPT ![u] = NoPlan]
        /\ hoPlan' = [hoPlan EXCEPT ![u] = NoPlan]
        /\ mqtt' = Idle
        /\ UNCHANGED <<user, timers, worldVars, notices, boundVars>>
    BY <1>11, <2>1 DEF PreMigratedStays
  <2>3. /\ service' \in [Users -> [Apps -> ServiceRows]]
        /\ migPlan' \in [Users -> PlanSet \cup {NoPlan}]
        /\ hoPlan' \in [Users -> PlanSet \cup {NoPlan}]
    BY <1>t, <2>1, <2>2, RowTypes
  <2>4. mstate' \in [Users -> {Unknown} \cup SUBSET Bits]
        /\ \A t \in timers : mstate'[t.user] # Unknown
    BY <1>t, <1>5, <2>2, BitFacts
  <2> QED  BY <1>0, <2>2, <2>3, <2>4, WorkTypes DEF Types, worldVars, boundVars
<1>12. CASE PreMigratedSchedule
  <2>1. PICK u \in Users : u = mqtt.user /\ GetService(u) # NoRow
    BY <1>12, WorkTypes DEF PreMigratedSchedule, Types
  <2>2. PICK s \in Servers, a \in Apps : s = GetService(u).server /\ a = user[u].app
    BY <2>1, RowFacts
  <2>3. mqtt' = Idle /\ UNCHANGED <<dbVars, mstate, planVars, worldVars, notices, boundVars>>
    BY <1>12 DEF PreMigratedSchedule
  <2>4. \A t \in timers' : \/ t \in timers
                           \/ hoPlan[u] # NoPlan /\ t = Timer("handover", u, a, s, hoPlan[u])
                           \/ migPlan[u] # NoPlan /\ t = Timer("migration", u, a, s, migPlan[u])
    BY <1>12, <2>1, <2>2 DEF PreMigratedSchedule
  <2>5. mstate[u] # Unknown
    BY <1>12, <2>1 DEF PreMigratedSchedule, Types
  <2>6. ASSUME NEW t \in timers' PROVE t \in Timers /\ mstate'[t.user] # Unknown
    <3>1. hoPlan[u] \in PlanSet \cup {NoPlan} /\ migPlan[u] \in PlanSet \cup {NoPlan}
      BY <1>t
    <3>2. t \in timers \/ (t \in Timers /\ t.user = u)
      <4>1. hoPlan[u] \in PlanSet =>
              /\ Timer("handover", u, a, s, hoPlan[u]) \in Timers
              /\ Timer("handover", u, a, s, hoPlan[u]).user = u
        BY DEF Timer, Timers
      <4>2. migPlan[u] \in PlanSet =>
              /\ Timer("migration", u, a, s, migPlan[u]) \in Timers
              /\ Timer("migration", u, a, s, migPlan[u]).user = u
        BY DEF Timer, Timers
      <4> QED  BY <2>4, <3>1, <4>1, <4>2
    <3> QED  BY <1>t, <2>3, <2>5, <3>2
  <2> QED  BY <1>0, <2>3, <2>6, WorkTypes DEF Types, dbVars, planVars, worldVars, boundVars
<1>13. CASE HandoveredWrite
  <2>1. /\ mqtt.at = "handovered" /\ mqtt.user \in Users /\ mqtt.m \in SUBSET Bits
        /\ mstate' = [mstate EXCEPT ![mqtt.user] = HandoveredBits(mqtt.m)]
        /\ mqtt' = Idle
        /\ UNCHANGED <<dbVars, planVars, timers, worldVars, notices, boundVars>>
    BY <1>13, WorkTypes DEF HandoveredWrite
  <2>2. HandoveredBits(mqtt.m) \in SUBSET Bits
    BY <2>1, BitFacts DEF HandoveredBits
  <2>3. mstate' \in [Users -> {Unknown} \cup SUBSET Bits]
        /\ \A t \in timers : mstate'[t.user] # Unknown
    BY <1>t, <1>5, <2>1, <2>2
  <2> QED  BY <1>0, <2>1, <2>3, WorkTypes DEF Types, dbVars, planVars, worldVars, boundVars
<1> QED  BY <1>6, <1>7, <1>8, <1>9, <1>10, <1>11, <1>12, <1>13 DEF Continue

LEMMA TypeTimers ==
  ASSUME Types, RunTimers
  PROVE  Types'
<1>0. /\ PlanSet' = PlanSet /\ OrderSet' = OrderSet /\ MessageSet' = MessageSet
      /\ WorkSet' = WorkSet /\ Timers' = Timers /\ MaxPlans' = MaxPlans /\ setup' = setup
  BY Sets DEF RunTimers
<1>1. PICK t \in timers : TimerExpires(t) \/ TimerPublishes(t) \/ TimerEnds(t)
  BY DEF RunTimers
<1>t. /\ mstate \in [Users -> {Unknown} \cup SUBSET Bits]
      /\ inbox \in [Boxes -> Seq(OrderSet)]
      /\ hoPlan \in [Users -> PlanSet \cup {NoPlan}]
      /\ migPlan \in [Users -> PlanSet \cup {NoPlan}]
      /\ timers \subseteq Timers /\ t \in Timers
      /\ \A x \in timers : x \in Timers /\ x.user \in Users /\ mstate[x.user] # Unknown
      /\ \A m \in SUBSET Bits : m # Unknown
  BY <1>1, TimerTypes, BitFacts DEF Types, Boxes
<1>2. PICK u \in Users : u = t.user /\ mstate[u] \in SUBSET Bits
  BY <1>1, <1>t
<1>3. /\ UNCHANGED <<dbVars, mqtt, runs, present, notices, boundVars>>
  BY <1>1 DEF TimerExpires, TimerPublishes, TimerEnds, worldVars
<1>4. CASE TimerExpires(t)
  <2>1. /\ UNCHANGED <<mstate, hoPlan, inbox>>
        /\ \/ Replace(t, "read", mstate[u]) /\ migPlan' = migPlan
           \/ Finish(t) /\ (migPlan' = migPlan \/ migPlan' = PlanDropped(u))
    BY <1>2, <1>4 DEF TimerExpires, worldVars
  <2>2. migPlan' \in [Users -> PlanSet \cup {NoPlan}]
    BY <1>t, <2>1 DEF PlanDropped
  <2>3. ASSUME NEW x \in timers' PROVE x \in Timers /\ mstate'[x.user] # Unknown
    <3>1. x \in timers \/ x = [t EXCEPT !.stage = "read", !.m = mstate[u]]
      BY <2>1 DEF Replace, Finish
    <3>2. /\ [t EXCEPT !.stage = "read", !.m = mstate[u]] \in Timers
          /\ [t EXCEPT !.stage = "read", !.m = mstate[u]].user = u
      BY <1>t, <1>2, TimerTypes
    <3> QED  BY <1>t, <1>2, <1>1, <2>1, <3>1, <3>2
  <2> QED  BY <1>0, <1>3, <2>1, <2>2, <2>3 DEF Types, dbVars, boundVars, GetService
<1>5. CASE TimerPublishes(t)
  <2>1. /\ UNCHANGED planVars
        /\ mstate' = [mstate EXCEPT ![u] = TimerBits(t)]
        /\ Publish(IF t.kind = "handover" THEN u ELSE t.src, TimerOrder(t))
        /\ Replace(t, "published", {})
    BY <1>2, <1>5 DEF TimerPublishes
  <2>2. TimerBits(t) \in SUBSET Bits
    BY <1>t, <1>2, BitFacts, TimerTypes DEF TimerBits
  <2>3. TimerOrder(t) \in OrderSet
    BY <1>t, OrderTypes, TimerTypes DEF TimerOrder
  <2>4. inbox' \in [Boxes -> Seq(OrderSet)]
    <3>1. (IF t.kind = "handover" THEN u ELSE t.src) \in Boxes
      BY <1>t, TimerTypes DEF Boxes
    <3> QED  BY <2>1, <2>3, <3>1, BoxTypes DEF Publish
  <2>5. /\ mstate' \in [Users -> {Unknown} \cup SUBSET Bits]
        /\ \A v \in Users : mstate[v] # Unknown => mstate'[v] # Unknown
    BY <1>t, <2>1, <2>2
  <2>6. ASSUME NEW x \in timers' PROVE x \in Timers /\ mstate'[x.user] # Unknown
    <3>1. x \in timers \/ x = [t EXCEPT !.stage = "published", !.m = {}]
      BY <2>1 DEF Replace
    <3>2. /\ [t EXCEPT !.stage = "published", !.m = {}] \in Timers
          /\ [t EXCEPT !.stage = "published", !.m = {}].user = u
      BY <1>t, <1>2, TimerTypes
    <3> QED  BY <1>t, <1>2, <1>1, <2>5, <3>1, <3>2
  <2>7. mqtt.at \in {"pre_migrated", "estimating"} => mqtt.user \in Users
    BY WorkTypes
  <2> QED  BY <1>0, <1>3, <2>1, <2>4, <2>5, <2>6, <2>7
           DEF Types, dbVars, boundVars, planVars, GetService, Boxes
<1>6. CASE TimerEnds(t)
  <2>1. /\ UNCHANGED <<mstate, inbox>> /\ Finish(t)
        /\ migPlan' = migPlan \/ migPlan' = [migPlan EXCEPT ![u] = NoPlan]
        /\ hoPlan' = hoPlan \/ hoPlan' = [hoPlan EXCEPT ![u] = NoPlan]
    BY <1>2, <1>6 DEF TimerEnds, worldVars
  <2>2. migPlan' \in [Users -> PlanSet \cup {NoPlan}] /\ hoPlan' \in [Users -> PlanSet \cup {NoPlan}]
    BY <1>t, <2>1
  <2> QED  BY <1>0, <1>3, <2>1, <2>2 DEF Types, dbVars, boundVars, Finish, GetService
<1> QED  BY <1>1, <1>4, <1>5, <1>6

LEMMA TypeOutside ==
  ASSUME Types, Outside
  PROVE  Types'
<1>0. /\ PlanSet' = PlanSet /\ OrderSet' = OrderSet /\ MessageSet' = MessageSet
      /\ WorkSet' = WorkSet /\ Timers' = Timers /\ MaxPlans' = MaxPlans /\ setup' = setup
      /\ UNCHANGED <<dbVars, mstate, planVars, mqtt, timers, boundVars>>
  BY Sets DEF Outside
<1> DEFINE Typed ==
             /\ inbox' \in [Boxes -> Seq(OrderSet)] /\ runs' \subseteq Users \X Apps \X Servers
             /\ present' \subseteq Users /\ notices' \in Seq(MessageSet)
<1>1. Typed => Types'
  BY <1>0 DEF Types, dbVars, planVars, boundVars, GetService, Boxes
<1>t. /\ inbox \in [Boxes -> Seq(OrderSet)] /\ runs \subseteq Users \X Apps \X Servers
      /\ present \subseteq Users /\ notices \in Seq(MessageSet)
  BY DEF Types, Boxes
<1>2. ASSUME NEW r \in Boxes, NEW k, Take(r, k)
      PROVE  /\ inbox' \in [Boxes -> Seq(OrderSet)] /\ present' \subseteq Users
             /\ Head(inbox[r]) \in OrderSet /\ Head(inbox[r]).kind = k
  BY <1>2, <1>t, BoxTypes DEF Take
<1>3. ASSUME NEW s \in Servers, EdgeDeploys(s) \/ EdgePreMigrates(s)
      PROVE  Typed
  <2>1. s \in Boxes /\ (Take(s, "deploy") \/ Take(s, "pre_migrate"))
    BY <1>3 DEF Boxes, EdgeDeploys, EdgePreMigrates
  <2>2. PICK o \in OrderSet : o = Head(inbox[s]) /\ o.kind \in {"deploy", "pre_migrate"}
    BY <1>2, <2>1
  <2>3. \/ notices' = notices
        \/ notices' = Append(notices, Notice("allocated", o.user, o.app, s, NoPlan))
        \/ o.kind = "pre_migrate" /\ notices' = Append(notices, Notice("pre_migrated", o.user, o.app, s, o.plan))
    BY <1>3, <2>2 DEF EdgeDeploys, EdgePreMigrates, Tell, Take
  <2>4. notices' \in Seq(MessageSet)
    BY <1>t, <2>2, <2>3, OrderKinds, MessageTypes, NoticeTypes
  <2>5. runs' \subseteq Users \X Apps \X Servers
    BY <1>t, <1>3, <2>2, OrderKinds DEF EdgeDeploys, EdgePreMigrates
  <2> QED  BY <1>2, <2>1, <2>4, <2>5
<1>4. ASSUME NEW s \in Servers, EdgeDestroys(s) PROVE Typed
  BY <1>2, <1>t, <1>4 DEF EdgeDestroys, Boxes
<1>5. ASSUME NEW s \in Servers, EdgeMigrates(s) PROVE Typed
  <2>1. s \in Boxes /\ Take(s, "migrate")
    BY <1>5 DEF Boxes, EdgeMigrates
  <2>2. PICK o \in OrderSet : /\ o = Head(inbox[s]) /\ o.kind = "migrate"
                              /\ o.user \in Users /\ o.app \in Apps /\ o.plan \in PlanSet
                              /\ o.plan.server \in Servers
    BY <1>2, <2>1, OrderKinds, PlanFacts
  <2>3. \/ UNCHANGED <<runs, notices>>
        \/ /\ runs' = (runs \ {<<o.user, o.app, s>>}) \cup {<<o.user, o.app, o.plan.server>>}
           /\ notices' = Append(notices, Notice("migrated", o.user, o.app, o.plan.server, o.plan))
    BY <1>5, <2>2 DEF EdgeMigrates, Tell
  <2>4. Notice("migrated", o.user, o.app, o.plan.server, o.plan) \in MessageSet
    BY <2>2, MessageTypes
  <2>5. notices' \in Seq(MessageSet)
    BY <1>t, <2>3, <2>4, NoticeTypes
  <2>6. runs' \subseteq Users \X Apps \X Servers
    BY <1>t, <2>2, <2>3
  <2> QED  BY <1>2, <2>1, <2>5, <2>6
<1>6. ASSUME NEW u \in Users, UserHandsOver(u) PROVE Typed
  <2>1. u \in Boxes /\ Take(u, "handover")
    BY <1>6 DEF Boxes, UserHandsOver
  <2>2. PICK o \in OrderSet : /\ o = Head(inbox[u]) /\ o.plan \in PlanSet
    BY <1>2, <2>1, OrderKinds
  <2>3. Notice("handovered", u, NoApp, u, o.plan) \in MessageSet
    BY <2>2, MessageTypes
  <2> QED  BY <1>2, <1>t, <1>6, <2>1, <2>2, <2>3, NoticeTypes DEF UserHandsOver, Tell
<1>7. ASSUME NEW u \in Users, UserLeaves(u) PROVE Typed
  BY <1>t, <1>7, MessageTypes, NoticeTypes DEF UserLeaves, Tell
<1> QED  BY <1>1, <1>3, <1>4, <1>5, <1>6, <1>7 DEF Outside

LEMMA TypePlanning ==
  ASSUME Types, Planning
  PROVE  Types'
<1>0. /\ PlanSet' = PlanSet /\ OrderSet' = OrderSet /\ MessageSet' = MessageSet
      /\ WorkSet' = WorkSet /\ Timers' = Timers /\ MaxPlans' = MaxPlans /\ setup' = setup
  BY Sets DEF Planning
<1>1. PICK u \in Users : ComputePlan(u)
  BY DEF Planning
<1>2. /\ plans < MaxPlans /\ plans' = plans + 1
      /\ UNCHANGED <<dbVars, mstate, planVars, timers, worldVars, notices, discoveries>>
  BY <1>1 DEF ComputePlan, Reports
<1>3. MaxPlans \in Nat /\ plans \in 0 .. MaxPlans /\ setup.stations \subseteq Stations
  BY DEF Types, SetupSet, MaxPlans
<1>4. plans + 1 \in 1 .. MaxPlans /\ plans + 1 \in Nat /\ plans + 1 \in 0 .. MaxPlans
  BY <1>2, <1>3
<1>5. PICK S \in SUBSET Users : \E P \in [S -> setup.stations \X Servers] :
        mqtt' = [at |-> "planning", n |-> plans + 1,
                 todo |-> {<<v, Plan(P[v][1], P[v][2], plans + 1)>> : v \in S}]
  BY <1>1, Zenon DEF ComputePlan, PlansOf
<1>p. PICK P \in [S -> setup.stations \X Servers] :
        mqtt' = [at |-> "planning", n |-> plans + 1,
                 todo |-> {<<v, Plan(P[v][1], P[v][2], plans + 1)>> : v \in S}]
  BY <1>5
<1>6. {<<v, Plan(P[v][1], P[v][2], plans + 1)>> : v \in S} \subseteq Users \X PlanSet
  <2>1. ASSUME NEW v \in S PROVE Plan(P[v][1], P[v][2], plans + 1) \in PlanSet
    <3>1. P[v] \in setup.stations \X Servers
      BY <1>p
    <3> QED  BY <1>3, <1>4, <3>1 DEF Plan, PlanSet
  <2> QED  BY <2>1
<1>7. mqtt' \in WorkSet /\ mqtt'.at = "planning"
  BY <1>4, <1>p, <1>6 DEF WorkSet
<1> QED  BY <1>0, <1>2, <1>4, <1>7 DEF Types, dbVars, planVars, worldVars

LEMMA TypeStep == Types /\ [Next]_vars => Types'
<1> SUFFICES ASSUME Types, [Next]_vars PROVE Types'
  OBVIOUS
<1>1. CASE UNCHANGED vars
  <2>1. setup' = setup
    BY <1>1 DEF vars
  <2> QED  BY <1>1, <2>1, Sets
           DEF vars, Types, dbVars, planVars, worldVars, boundVars, GetService
<1>2. HandleNotice => Types'
  BY TypeNotice DEF HandleNotice
<1>3. Discover => Types'
  BY TypeDiscover DEF Discover
<1> QED  BY <1>1, <1>2, <1>3, TypeContinue, TypeTimers, TypeOutside, TypePlanning DEF Next

(* Every state is of the right type.                                       *)
THEOREM TypeCorrect == Spec => []TypeOK
<1>1. Types => TypeOK
  <2> SUFFICES ASSUME Types PROVE TypeOK
    OBVIOUS
  <2>1. OrderSet \subseteq Orders /\ MessageSet \subseteq NoticeSet
    BY DEF OrderSet, Orders, MessageSet, NoticeSet
  <2>2. \A r \in Boxes : inbox[r] \in Seq(Orders)
    BY <2>1, BoxTypes, SeqMonotonic
  <2>3. inbox \in [Servers \cup Users -> Seq(Orders)]
    BY <2>2 DEF Types, Boxes
  <2>4. PICK q \in Seq(MessageSet) : q = notices
    BY DEF Types
  <2>5. notices \in Seq(NoticeSet)
    BY <2>1, <2>4, SeqMonotonic
  <2>6. mqtt.at \in {"idle", "dead", "planning", "pre_migrated", "estimating", "handovered"}
    BY WorkTypes
  <2> QED  BY <2>3, <2>5, <2>6 DEF Types, TypeOK
<1>2. Spec => []Types
  BY TypeInit, TypeStep, PTL DEF Spec
<1> QED  BY <1>1, <1>2, PTL

-----------------------------------------------------------------------------
(* Every step is about one user, and changes nothing for the others.       *)

About(w) ==
  \A v \in Users \ {w} :
    /\ user'[v] = user[v] /\ service'[v] = service[v] /\ mstate'[v] = mstate[v]
    /\ discoveries'[v] = discoveries[v] /\ (v \in present' <=> v \in present)
    /\ \A r \in Boxes : SameFor(inbox[r], inbox'[r], v)
    /\ SameFor(notices, notices', v)
    /\ \A t \in timers' : t.user = v => \E x \in timers : x.user = v /\ x.app = t.app
    /\ {c \in runs' : c[1] = v} = {c \in runs : c[1] = v}

LEMMA SameHas ==
  ASSUME NEW q, NEW r, NEW u, SameFor(q, r, u)
  PROVE  \A k : Has(r, u, k) <=> Has(q, u, k)
BY DEF SameFor, Has, Is

LEMMA OthersDeployed ==
  ASSUME NEW w, About(w), NEW v \in Users \ {w}
  PROVE  /\ \A k : \A r \in Boxes : Sent(r, v, k)' <=> Sent(r, v, k)
         /\ \A k : Told(v, k)' <=> Told(v, k)
         /\ Deploying(v)' <=> Deploying(v)
         /\ GetService(v)' = GetService(v) /\ At(v)' = At(v) /\ State(v)' = State(v)
<1>1. \A k : \A r \in Boxes : Sent(r, v, k)' <=> Sent(r, v, k)
  BY SameHas DEF About, Sent
<1>2. \A k : Told(v, k)' <=> Told(v, k)
  BY SameHas DEF About, Told
<1>3. GetService(v)' = GetService(v)
  BY DEF About, GetService
<1> QED  BY <1>1, <1>2, <1>3 DEF Deploying, At, State

LEMMA OthersOnce ==
  ASSUME NEW w, About(w), NEW v \in Users \ {w}, OnceOf(v)
  PROVE  OnceOf(v)'
<1>1. discoveries'[v] = 0 => Unheard(v)'
  <2> SUFFICES ASSUME Unheard(v) PROVE Unheard(v)'
    BY DEF About, OnceOf
  <2>1. \A r \in Boxes : \A m \in Msgs(inbox'[r]) : m.user # v
    BY DEF About, Unheard, SameFor
  <2>2. \A m \in Msgs(notices') : m.user # v
    BY DEF About, Unheard, SameFor
  <2>3. (\A t \in timers' : t.user # v) /\ \A c \in runs' : c[1] # v
    BY DEF About, Unheard
  <2> QED  BY <2>1, <2>2, <2>3 DEF About, Unheard
<1>2. user'[v] # NoUser => Mine(v)'
  <2> SUFFICES ASSUME Mine(v) PROVE Mine(v)'
    BY DEF About, OnceOf
  <2>1. \A r \in Boxes : \A m \in Msgs(inbox'[r]) :
          m.user = v => m.app \in {NoApp, user'[v].app} /\ m.kind # "destroy"
    BY DEF About, Mine, SameFor
  <2>2. \A m \in Msgs(notices') : m.user = v => m.app \in {NoApp, user'[v].app}
    BY DEF About, Mine, SameFor
  <2>3. \A t \in timers' : t.user = v => t.app = user'[v].app
    BY DEF About, Mine
  <2>4. GetService(v)' # NoRow /\ \A a \in Apps \ {user'[v].app} : service'[v][a] = NoRow
    BY OthersDeployed DEF About, Mine
  <2> QED  BY <2>1, <2>2, <2>3, <2>4 DEF Mine
<1>3. DeployedOnce(v)'
  <2>1. (\A r \in Boxes : Single(inbox'[r], v, "deploy")) /\ Single(notices', v, "allocated")
    BY DEF OnceOf, DeployedOnce, About, SameFor
  <2>2. user'[v] = user[v] /\ service'[v] = service[v]
    BY DEF About
  <2> QED  BY <2>1, <2>2, OthersDeployed DEF OnceOf, DeployedOnce
<1>4. LeavesLast(v)'
  <2>1. \A m \in Msgs(notices') : m.user = v /\ m.kind \in {"handovered", "leave"} => m.from = v
    BY DEF OnceOf, LeavesLast, About, SameFor
  <2>2. Single(notices', v, "leave") /\ Before(notices', v, "handovered", "leave")
    BY DEF OnceOf, LeavesLast, About, SameFor
  <2>3. user'[v] = user[v] /\ (v \in present' <=> v \in present)
    BY DEF About
  <2> QED  BY <2>1, <2>2, <2>3, OthersDeployed DEF OnceOf, LeavesLast
<1> QED  BY <1>1, <1>2, <1>3, <1>4, OthersDeployed DEF OnceOf

LEMMA OthersHost ==
  ASSUME NEW w, About(w), NEW v \in Users \ {w}, HostOf(v)
  PROVE  HostOf(v)'
<1>1. {c \in runs' : c[1] = v} = {c \in runs : c[1] = v} /\ user'[v] = user[v]
  BY DEF About
<1>2. \A s : RunsAt(v, s)' <=> RunsAt(v, s)
  BY <1>1 DEF RunsAt
<1>3. \A s : LastIs(notices', v, s) <=> LastIs(notices, v, s)
  BY DEF About, SameFor
<1>4. (\A c \in runs : c[1] # v) => \A c \in runs' : c[1] # v
  BY <1>1
<1>5. PICK h : h = At(v) /\ h = At(v)'
  BY OthersDeployed
<1> QED  BY <1>2, <1>3, <1>4, <1>5, OthersDeployed DEF HostOf

LEMMA OthersPace ==
  ASSUME NEW w, About(w), NEW v \in Users \ {w}, PaceOf(v)
  PROVE  /\ PaceOf(v)'
         /\ Ordered(v)' <=> Ordered(v)
         /\ Prepared(v)' <=> Prepared(v)
         /\ Moving(v)' <=> Moving(v)
<1>1. /\ \A r \in Boxes : Sent(r, v, "migrate")' <=> Sent(r, v, "migrate")
      /\ \A r \in Boxes : Sent(r, v, "pre_migrate")' <=> Sent(r, v, "pre_migrate")
      /\ Told(v, "migrated")' <=> Told(v, "migrated")
      /\ Told(v, "pre_migrated")' <=> Told(v, "pre_migrated")
      /\ Told(v, "allocated")' <=> Told(v, "allocated")
      /\ Deploying(v)' <=> Deploying(v)
      /\ State(v)' = State(v)
  BY OthersDeployed
<1>2. /\ Ordered(v)' <=> Ordered(v)
      /\ Prepared(v)' <=> Prepared(v)
      /\ Moving(v)' <=> Moving(v)
  BY <1>1 DEF Ordered, Prepared, Moving
<1>3. (\A r \in Boxes : Single(inbox'[r], v, "migrate")) /\ Single(notices', v, "migrated")
  BY DEF About, SameFor, PaceOf
<1>4. mstate'[v] = mstate[v]
  BY DEF About
<1> QED  BY <1>1, <1>2, <1>3, <1>4 DEF PaceOf

LEMMA OthersMove ==
  ASSUME NEW w, About(w), NEW v \in Users \ {w}, PaceOf(v), MoveOf(v), LinesOf(v),
         At(v) \in Boxes
  PROVE  MoveOf(v)' /\ LinesOf(v)'
<1>1. PICK h \in Boxes : h = At(v) /\ h = At(v)'
  BY OthersDeployed
<1>2. SameFor(inbox[h], inbox'[h], v) /\ SameFor(notices, notices', v)
  BY DEF About
<1>3. /\ Ordered(v)' <=> Ordered(v)
      /\ Prepared(v)' <=> Prepared(v)
      /\ Moving(v)' <=> Moving(v)
  BY OthersPace
<1>4. mstate'[v] = mstate[v]
  BY DEF About
<1>5. MoveOf(v)'
  BY <1>3, <1>4, OthersDeployed DEF MoveOf
<1>6. \A m \in Msgs(inbox'[h]) : Is(m, v, "migrate") => m.plan.server # h
  BY <1>1, <1>2 DEF SameFor, LinesOf, Is
<1>7. /\ Single(inbox'[h], v, "pre_migrate") /\ Single(notices', v, "pre_migrated")
      /\ Before(inbox'[h], v, "pre_migrate", "migrate")
      /\ Before(notices', v, "pre_migrated", "migrated")
  BY <1>1, <1>2 DEF SameFor, LinesOf
<1>8. \A r \in Boxes, k \in {"deploy", "pre_migrate", "migrate"} : Sent(r, v, k)' => r = h
  BY <1>1, OthersDeployed DEF LinesOf
<1>9. Sent(h, v, "pre_migrate")' => Ordered(v)' /\ ~Told(v, "pre_migrated")'
  BY <1>1, <1>3, OthersDeployed DEF LinesOf
<1> QED  BY <1>1, <1>5, <1>6, <1>7, <1>8, <1>9 DEF LinesOf

-----------------------------------------------------------------------------
(* What happens to the queues.                                             *)

LEMMA Posted ==
  ASSUME Types, NEW r \in Boxes, NEW o \in OrderSet,
         inbox' = [inbox EXCEPT ![r] = Append(@, o)]
  PROVE  /\ \A v : v # o.user => \A s \in Boxes : SameFor(inbox[s], inbox'[s], v)
         /\ \A s \in Boxes : s # r => inbox'[s] = inbox[s]
         /\ Msgs(inbox'[r]) = Msgs(inbox[r]) \cup {o}
         /\ \A k, v : \A s \in Boxes :
              Sent(s, v, k)' <=> Sent(s, v, k) \/ (s = r /\ v = o.user /\ k = o.kind)
         /\ \A v, k : Single(inbox[r], v, k) /\ ~(Is(o, v, k) /\ Sent(r, v, k)) =>
              Single(inbox'[r], v, k)
         /\ \A v, k, l : Before(inbox[r], v, k, l) /\ ~(Is(o, v, k) /\ (Sent(r, v, l) \/ k = l)) =>
              Before(inbox'[r], v, k, l)
<1>1. inbox \in [Boxes -> Seq(OrderSet)]
  BY DEF Types, Boxes
<1>2. PICK q \in Seq(OrderSet) : q = inbox[r]
  BY <1>1
<1>3. inbox'[r] = Append(q, o) /\ \A s \in Boxes : s # r => inbox'[s] = inbox[s]
  BY <1>1, <1>2
<1>4. /\ Msgs(Append(q, o)) = Msgs(q) \cup {o}
      /\ \A v, k : Single(q, v, k) /\ ~(Is(o, v, k) /\ Has(q, v, k)) =>
           Single(Append(q, o), v, k)
      /\ \A v, k, l : Before(q, v, k, l) /\ ~(Is(o, v, k) /\ (Has(q, v, l) \/ k = l)) =>
           Before(Append(q, o), v, k, l)
  BY Added
<1>5. \A v : v # o.user => SameFor(q, Append(q, o), v)
  BY SameAdded
<1>6. \A v, k : Has(Append(q, o), v, k) <=> Has(q, v, k) \/ Is(o, v, k)
  BY <1>4 DEF Has
<1>7. \A v : v # o.user => \A s \in Boxes : SameFor(inbox[s], inbox'[s], v)
  BY <1>2, <1>3, <1>5, SameQueue
<1>8. \A k, v : \A s \in Boxes :
        Sent(s, v, k)' <=> Sent(s, v, k) \/ (s = r /\ v = o.user /\ k = o.kind)
  BY <1>2, <1>3, <1>6 DEF Sent, Is
<1> QED  BY <1>2, <1>3, <1>4, <1>7, <1>8 DEF Sent

LEMMA Taken ==
  ASSUME Types, NEW r \in Boxes, inbox[r] # <<>>,
         inbox' = [inbox EXCEPT ![r] = Tail(@)],
         NEW o, o = Head(inbox[r])
  PROVE  /\ o \in OrderSet /\ o \in Msgs(inbox[r])
         /\ \A v : v # o.user => \A s \in Boxes : SameFor(inbox[s], inbox'[s], v)
         /\ \A s \in Boxes : s # r => inbox'[s] = inbox[s]
         /\ Msgs(inbox[r]) = Msgs(inbox'[r]) \cup {o}
         /\ \A k, v : \A s \in Boxes : Sent(s, v, k)' => Sent(s, v, k)
         /\ \A k, v : \A s \in Boxes : v # o.user \/ k # o.kind => (Sent(s, v, k) => Sent(s, v, k)')
         /\ Sent(r, o.user, o.kind)
         /\ Single(inbox[r], o.user, o.kind) => ~Sent(r, o.user, o.kind)'
         /\ \A v, k : Single(inbox[r], v, k) => Single(inbox'[r], v, k)
         /\ \A v, k, l : Before(inbox[r], v, k, l) => Before(inbox'[r], v, k, l)
         /\ \A k : Before(inbox[r], o.user, k, o.kind) => ~Sent(r, o.user, k)
<1>1. inbox \in [Boxes -> Seq(OrderSet)]
  BY DEF Types, Boxes
<1>2. PICK q \in Seq(OrderSet) : q = inbox[r] /\ q # <<>>
  BY <1>1
<1>3. 1 \in DOMAIN q /\ o = q[1] /\ Tail(q) = Without(q, 1)
  BY <1>2, TailRemoved
<1>4. PICK p : p = Without(q, 1)
  OBVIOUS
<1>5. inbox'[r] = p /\ \A s \in Boxes : s # r => inbox'[s] = inbox[s]
  BY <1>1, <1>2, <1>3, <1>4
<1>6. /\ Msgs(q) = Msgs(p) \cup {o}
      /\ \A v, k : Single(q, v, k) => Single(p, v, k)
      /\ \A v, k : Single(q, v, k) /\ Is(o, v, k) => ~Has(p, v, k)
      /\ \A v, k, l : Before(q, v, k, l) => Before(p, v, k, l)
  BY <1>3, <1>4, Removed
<1>7. \A v : v # o.user => SameFor(q, p, v)
  BY <1>3, <1>4, SameRemoved
<1>8. o \in OrderSet
  BY <1>3, ElementOfSeq, LenProperties
<1>9. \A v, k : /\ Has(p, v, k) => Has(q, v, k)
                /\ Has(q, v, k) /\ ~Is(o, v, k) => Has(p, v, k)
  BY <1>6 DEF Has
<1>10. Has(q, o.user, o.kind)
  BY <1>6 DEF Has, Is
<1>11. \A k : Before(q, o.user, k, o.kind) => ~Has(q, o.user, k)
  <2> SUFFICES ASSUME NEW k, Before(q, o.user, k, o.kind), NEW j \in DOMAIN q, Is(q[j], o.user, k)
               PROVE  FALSE
    BY DEF Has, Msgs
  <2>1. j < 1
    BY <1>3 DEF Before, Is
  <2>2. j \in 1 .. Len(q) /\ Len(q) \in Nat
    BY LenProperties
  <2> QED  BY <2>1, <2>2
<1>12. \A v : v # o.user => \A s \in Boxes : SameFor(inbox[s], inbox'[s], v)
  BY <1>2, <1>5, <1>7, SameQueue
<1>13. /\ \A k, v : \A s \in Boxes : Sent(s, v, k)' => Sent(s, v, k)
       /\ \A k, v : \A s \in Boxes : v # o.user \/ k # o.kind => (Sent(s, v, k) => Sent(s, v, k)')
  BY <1>2, <1>5, <1>9 DEF Sent, Is
<1>14. /\ Sent(r, o.user, o.kind)
       /\ Single(inbox[r], o.user, o.kind) => ~Sent(r, o.user, o.kind)'
       /\ \A k : Before(inbox[r], o.user, k, o.kind) => ~Sent(r, o.user, k)
  BY <1>2, <1>5, <1>6, <1>10, <1>11 DEF Sent, Is
<1>15. /\ \A v, k : Single(inbox[r], v, k) => Single(inbox'[r], v, k)
       /\ \A v, k, l : Before(inbox[r], v, k, l) => Before(inbox'[r], v, k, l)
       /\ Msgs(inbox[r]) = Msgs(inbox'[r]) \cup {o} /\ o \in Msgs(inbox[r])
  BY <1>2, <1>5, <1>6
<1> QED  BY <1>5, <1>8, <1>12, <1>13, <1>14, <1>15

LEMMA Announced ==
  ASSUME Types, NEW n \in MessageSet, notices' = Append(notices, n)
  PROVE  /\ \A v : v # n.user => SameFor(notices, notices', v)
         /\ Msgs(notices') = Msgs(notices) \cup {n}
         /\ \A k, v : Told(v, k)' <=> Told(v, k) \/ (v = n.user /\ k = n.kind)
         /\ \A v, k : Single(notices, v, k) /\ ~(Is(n, v, k) /\ Told(v, k)) =>
              Single(notices', v, k)
         /\ \A v, k, l : Before(notices, v, k, l) /\ ~(Is(n, v, k) /\ (Told(v, l) \/ k = l)) =>
              Before(notices', v, k, l)
         /\ \A v, s : LastIs(notices', v, s) <=>
              IF Says(n, v) THEN s = n.from ELSE LastIs(notices, v, s)
<1>1. PICK q \in Seq(MessageSet) : q = notices
  BY DEF Types
<1>2. /\ Msgs(Append(q, n)) = Msgs(q) \cup {n}
      /\ \A v, k : Single(q, v, k) /\ ~(Is(n, v, k) /\ Has(q, v, k)) =>
           Single(Append(q, n), v, k)
      /\ \A v, k, l : Before(q, v, k, l) /\ ~(Is(n, v, k) /\ (Has(q, v, l) \/ k = l)) =>
           Before(Append(q, n), v, k, l)
      /\ \A v, s : LastIs(Append(q, n), v, s) <=>
           IF Says(n, v) THEN s = n.from ELSE LastIs(q, v, s)
  BY Added
<1>3. \A v : v # n.user => SameFor(q, Append(q, n), v)
  BY SameAdded
<1>4. \A v, k : Has(Append(q, n), v, k) <=> Has(q, v, k) \/ Is(n, v, k)
  BY <1>2 DEF Has
<1> QED  BY <1>1, <1>2, <1>3, <1>4 DEF Told, Is

LEMMA Handled ==
  ASSUME Types, NEW i \in DOMAIN notices, notices' = Rest(i), NEW n, n = notices[i]
  PROVE  /\ n \in MessageSet /\ n \in Msgs(notices)
         /\ \A v : v # n.user => SameFor(notices, notices', v)
         /\ Msgs(notices) = Msgs(notices') \cup {n}
         /\ \A k, v : Told(v, k)' => Told(v, k)
         /\ \A k, v : v # n.user \/ k # n.kind => (Told(v, k) => Told(v, k)')
         /\ Told(n.user, n.kind)
         /\ Single(notices, n.user, n.kind) => ~Told(n.user, n.kind)'
         /\ \A v, k : Single(notices, v, k) => Single(notices', v, k)
         /\ \A v, k, l : Before(notices, v, k, l) => Before(notices', v, k, l)
         /\ \A v, s : ~Says(n, v) => (LastIs(notices', v, s) <=> LastIs(notices, v, s))
         /\ \A v, s : i = 1 /\ LastIs(notices', v, s) => LastIs(notices, v, s)
         /\ \A v : Says(n, v) /\ (\A m \in Msgs(notices') : ~Says(m, v)) =>
              LastIs(notices, v, n.from)
         /\ \A k : i = 1 /\ Before(notices, n.user, k, n.kind) => ~Told(n.user, k)
<1>1. PICK q \in Seq(MessageSet) : q = notices
  BY DEF Types
<1>2. PICK p : p = Without(q, i)
  OBVIOUS
<1>3. i \in DOMAIN q /\ n = q[i] /\ notices' = p
  BY <1>1, <1>2 DEF Rest, Without
<1>4. /\ Msgs(q) = Msgs(p) \cup {n}
      /\ \A v, k : Single(q, v, k) => Single(p, v, k)
      /\ \A v, k : Single(q, v, k) /\ Is(n, v, k) => ~Has(p, v, k)
      /\ \A v, k, l : Before(q, v, k, l) => Before(p, v, k, l)
      /\ \A v, s : ~Says(n, v) => (LastIs(p, v, s) <=> LastIs(q, v, s))
      /\ \A v, s : LastIs(p, v, s) /\ i = 1 => LastIs(q, v, s)
      /\ \A v : Says(n, v) /\ (\A m \in Msgs(p) : ~Says(m, v)) => LastIs(q, v, n.from)
  <2>1. Msgs(q) = Msgs(p) \cup {q[i]}
    BY <1>2, <1>3, Removed
  <2>2. \A v, k : Single(q, v, k) => Single(p, v, k)
    BY <1>2, <1>3, Removed
  <2>3. \A v, k : Single(q, v, k) /\ Is(q[i], v, k) => ~Has(p, v, k)
    BY <1>2, <1>3, Removed
  <2>4. \A v, k, l : Before(q, v, k, l) => Before(p, v, k, l)
    BY <1>2, <1>3, Removed
  <2>5. \A v, s : ~Says(q[i], v) => (LastIs(p, v, s) <=> LastIs(q, v, s))
    BY <1>2, <1>3, Removed
  <2>6. \A v, s : LastIs(p, v, s) /\ i = 1 => LastIs(q, v, s)
    BY <1>2, <1>3, Removed
  <2>7. ASSUME NEW v, Says(n, v), \A m \in Msgs(p) : ~Says(m, v) PROVE LastIs(q, v, n.from)
    BY <1>2, <1>3, <2>7, Removed
  <2> QED  BY <1>3, <2>1, <2>2, <2>3, <2>4, <2>5, <2>6, <2>7
<1>5. \A v : v # n.user => SameFor(q, p, v)
  BY <1>2, <1>3, SameRemoved
<1>6. n \in MessageSet
  BY <1>3, ElementOfSeq, LenProperties
<1>7. \A v, k : /\ Has(p, v, k) => Has(q, v, k)
                /\ Has(q, v, k) /\ ~Is(n, v, k) => Has(p, v, k)
  BY <1>4 DEF Has
<1>8. Has(q, n.user, n.kind)
  BY <1>4 DEF Has, Is
<1>9. \A k : i = 1 /\ Before(q, n.user, k, n.kind) => ~Has(q, n.user, k)
  <2> SUFFICES ASSUME i = 1, NEW k, Before(q, n.user, k, n.kind), NEW j \in DOMAIN q,
                      Is(q[j], n.user, k)
               PROVE  FALSE
    BY DEF Has, Msgs
  <2>1. j < 1
    BY <1>3 DEF Before, Is
  <2>2. j \in 1 .. Len(q) /\ Len(q) \in Nat
    BY LenProperties
  <2> QED  BY <2>1, <2>2
<1>10. /\ \A k, v : Told(v, k)' => Told(v, k)
       /\ \A k, v : v # n.user \/ k # n.kind => (Told(v, k) => Told(v, k)')
       /\ Told(n.user, n.kind)
       /\ Single(notices, n.user, n.kind) => ~Told(n.user, n.kind)'
       /\ \A k : i = 1 /\ Before(notices, n.user, k, n.kind) => ~Told(n.user, k)
  BY <1>1, <1>3, <1>4, <1>7, <1>8, <1>9 DEF Told, Is
<1> QED  BY <1>1, <1>3, <1>4, <1>5, <1>6, <1>10

-----------------------------------------------------------------------------
(* Whom the steps are about.                                               *)

LEMMA AboutEdges ==
  ASSUME Types, NEW s \in Servers,
         EdgeDeploys(s) \/ EdgeDestroys(s) \/ EdgePreMigrates(s) \/ EdgeMigrates(s),
         UNCHANGED <<setup, dbVars, mstate, planVars, mqtt, timers, boundVars>>,
         NEW o, o = Head(inbox[s])
  PROVE  About(o.user)
<1>1. /\ s \in Boxes /\ inbox[s] # <<>> /\ inbox' = [inbox EXCEPT ![s] = Tail(@)]
      /\ present' = present
  BY DEF Boxes, EdgeDeploys, EdgeDestroys, EdgePreMigrates, EdgeMigrates, Take
<1>2. /\ o \in OrderSet
      /\ \A v : v # o.user => \A r \in Boxes : SameFor(inbox[r], inbox'[r], v)
  BY <1>1, Taken
<1>3. o.kind \in {"deploy", "destroy", "pre_migrate", "migrate"}
  BY DEF EdgeDeploys, EdgeDestroys, EdgePreMigrates, EdgeMigrates, Take
<1>4. \/ notices' = notices
      \/ \E n \in MessageSet : n.user = o.user /\ notices' = Append(notices, n)
  <2>1. CASE EdgeDeploys(s)
    <3>1. Notice("allocated", o.user, o.app, s, NoPlan) \in MessageSet
      BY <1>2, <2>1, OrderKinds, MessageTypes DEF EdgeDeploys, Take
    <3> QED  BY <2>1, <3>1 DEF EdgeDeploys, Tell, Notice
  <2>2. CASE EdgeDestroys(s)
    BY <2>2 DEF EdgeDestroys
  <2>3. CASE EdgePreMigrates(s)
    <3>1. Notice("pre_migrated", o.user, o.app, s, o.plan) \in MessageSet
      BY <1>2, <2>3, OrderKinds, MessageTypes DEF EdgePreMigrates, Take
    <3> QED  BY <2>3, <3>1 DEF EdgePreMigrates, Tell, Notice
  <2>4. CASE EdgeMigrates(s)
    <3>1. Notice("migrated", o.user, o.app, o.plan.server, o.plan) \in MessageSet
      BY <1>2, <2>4, OrderKinds, PlanFacts, MessageTypes DEF EdgeMigrates, Take
    <3> QED  BY <2>4, <3>1 DEF EdgeMigrates, Tell, Notice
  <2> QED  BY <2>1, <2>2, <2>3, <2>4
<1>5. \A v : v # o.user => SameFor(notices, notices', v)
  BY <1>4, Announced, SameQueue
<1>6. \A v : v # o.user => {c \in runs' : c[1] = v} = {c \in runs : c[1] = v}
  BY DEF EdgeDeploys, EdgeDestroys, EdgePreMigrates, EdgeMigrates
<1> QED  BY <1>1, <1>2, <1>5, <1>6 DEF About, dbVars, boundVars

LEMMA AboutUsers ==
  ASSUME Types, NEW u \in Users, UserHandsOver(u) \/ UserLeaves(u),
         UNCHANGED <<setup, dbVars, mstate, planVars, mqtt, timers, boundVars>>,
         \A v \in Users : OnceOf(v)
  PROVE  About(u)
<1>1. runs' = runs /\ u \in Boxes
  BY DEF UserHandsOver, UserLeaves, Boxes
<1>2. \A v : v # u => \A r \in Boxes : SameFor(inbox[r], inbox'[r], v)
  <2>1. CASE UserHandsOver(u)
    <3>1. PICK o : o = Head(inbox[u])
      OBVIOUS
    <3>2. inbox[u] # <<>> /\ o.kind = "handover" /\ inbox' = [inbox EXCEPT ![u] = Tail(@)]
      BY <2>1, <3>1 DEF UserHandsOver, Take
    <3>3. o \in OrderSet /\ o \in Msgs(inbox[u])
      BY <1>1, <3>1, <3>2, Taken
    <3>4. o.user = u
      BY <1>1, <3>2, <3>3, OrderKinds DEF OnceOf, Sent, Has, Is
    <3> QED  BY <1>1, <3>1, <3>2, <3>4, Taken
  <2>2. CASE UserLeaves(u)
    BY <2>2, SameQueue DEF UserLeaves
  <2> QED  BY <2>1, <2>2
<1>3. \A v : v # u => SameFor(notices, notices', v)
  <2>1. \/ notices' = notices
        \/ \E n \in MessageSet : n.user = u /\ notices' = Append(notices, n)
    <3>1. CASE UserHandsOver(u)
      <4>1. PICK p : p = Head(inbox[u]).plan
        OBVIOUS
      <4>2. p \in PlanSet
        BY <1>1, <3>1, <4>1, BoxTypes, OrderKinds DEF UserHandsOver, Take
      <4> QED  BY <3>1, <4>1, <4>2, MessageTypes DEF UserHandsOver, Tell, Notice
    <3>2. CASE UserLeaves(u)
      BY <3>2, MessageTypes DEF UserLeaves, Tell, Notice
    <3> QED  BY <3>1, <3>2
  <2> QED  BY <2>1, Announced, SameQueue
<1>4. \A v : v # u => (v \in present' <=> v \in present)
  BY DEF UserHandsOver, UserLeaves, Take
<1> QED  BY <1>1, <1>2, <1>3, <1>4 DEF About, dbVars, boundVars

-----------------------------------------------------------------------------
(* Every user that looks for its service once keeps to it.                 *)

(* It is enough to look at the user a step is about.                       *)
LEMMA OnceFrom ==
  ASSUME OnceInv, NEW w \in Users, About(w), OnceOf(w)', WorkInv'
  PROVE  OnceInv'
BY OthersOnce DEF OnceInv

LEMMA OnceEdges ==
  ASSUME Types, OnceInv, NEW s \in Servers,
         EdgeDeploys(s) \/ EdgeDestroys(s) \/ EdgePreMigrates(s) \/ EdgeMigrates(s),
         UNCHANGED <<setup, dbVars, mstate, planVars, mqtt, timers, boundVars>>
  PROVE  OnceInv'
<1>1. PICK o : o = Head(inbox[s])
  OBVIOUS
<1>2. /\ s \in Boxes /\ inbox[s] # <<>> /\ inbox' = [inbox EXCEPT ![s] = Tail(@)]
      /\ present' = present
  BY DEF Boxes, EdgeDeploys, EdgeDestroys, EdgePreMigrates, EdgeMigrates, Take
<1>3. PICK w \in Users : w = o.user
  BY <1>1, <1>2, BoxTypes, OrderKinds
<1>4. About(w)
  BY <1>1, <1>3, AboutEdges
<1>5. OnceOf(w)
  BY DEF OnceInv
<1>6. /\ o \in OrderSet /\ o \in Msgs(inbox[s])
      /\ \A r \in Boxes : Msgs(inbox'[r]) \subseteq Msgs(inbox[r])
      /\ \A k : \A r \in Boxes : Sent(r, w, k)' => Sent(r, w, k)
      /\ \A k : \A r \in Boxes : Single(inbox[r], w, k) => Single(inbox'[r], w, k)
      /\ Sent(s, w, o.kind) /\ (Single(inbox[s], w, o.kind) => ~Sent(s, w, o.kind)')
  <2>1. /\ o \in OrderSet /\ o \in Msgs(inbox[s])
        /\ \A r \in Boxes : r # s => inbox'[r] = inbox[r]
        /\ Msgs(inbox[s]) = Msgs(inbox'[s]) \cup {o}
        /\ \A k : Single(inbox[s], w, k) => Single(inbox'[s], w, k)
    BY <1>1, <1>2, Taken
  <2>2. /\ \A k : \A r \in Boxes : Sent(r, w, k)' => Sent(r, w, k)
        /\ Sent(s, w, o.kind) /\ (Single(inbox[s], w, o.kind) => ~Sent(s, w, o.kind)')
    BY <1>1, <1>2, <1>3, Taken
  <2>3. \A r \in Boxes : Msgs(inbox'[r]) \subseteq Msgs(inbox[r])
    BY <2>1
  <2>4. \A k : \A r \in Boxes : Single(inbox[r], w, k) => Single(inbox'[r], w, k)
    BY <2>1
  <2> QED  BY <2>1, <2>2, <2>3, <2>4
<1>7. o.kind \in {"deploy", "destroy", "pre_migrate", "migrate"}
  BY <1>1 DEF EdgeDeploys, EdgeDestroys, EdgePreMigrates, EdgeMigrates, Take
<1>8. \/ notices' = notices
      \/ \E n \in MessageSet : /\ n.user = w /\ n.app = o.app /\ notices' = Append(notices, n)
                               /\ \/ n.kind = "allocated" /\ o.kind = "deploy"
                                  \/ n.kind \in {"pre_migrated", "migrated"}
  <2>1. CASE EdgeDeploys(s)
    <3>1. Notice("allocated", w, o.app, s, NoPlan) \in MessageSet /\ o.kind = "deploy"
      BY <1>1, <1>6, <2>1, OrderKinds, MessageTypes DEF EdgeDeploys, Take
    <3> QED  BY <1>1, <1>3, <2>1, <3>1 DEF EdgeDeploys, Tell, Notice
  <2>2. CASE EdgeDestroys(s)
    BY <2>2 DEF EdgeDestroys
  <2>3. CASE EdgePreMigrates(s)
    <3>1. Notice("pre_migrated", w, o.app, s, o.plan) \in MessageSet
      BY <1>1, <1>6, <2>3, OrderKinds, MessageTypes DEF EdgePreMigrates, Take
    <3> QED  BY <1>1, <1>3, <2>3, <3>1 DEF EdgePreMigrates, Tell, Notice
  <2>4. CASE EdgeMigrates(s)
    <3>1. Notice("migrated", w, o.app, o.plan.server, o.plan) \in MessageSet
      BY <1>1, <1>6, <2>4, OrderKinds, PlanFacts, MessageTypes DEF EdgeMigrates, Take
    <3> QED  BY <1>1, <1>3, <2>4, <3>1 DEF EdgeMigrates, Tell, Notice
  <2> QED  BY <2>1, <2>2, <2>3, <2>4
<1>9. discoveries[w] # 0
  BY <1>2, <1>3, <1>5, <1>6 DEF OnceOf, Unheard
<1>10. UNCHANGED <<user, service, discoveries, timers, mqtt, present>>
  BY <1>2 DEF dbVars, boundVars
<1>11. GetService(w)' = GetService(w)
  BY <1>10 DEF GetService
<1>12. user'[w] # NoUser => Mine(w)'
  <2> SUFFICES ASSUME Mine(w) PROVE Mine(w)'
    BY <1>5, <1>10 DEF OnceOf
  <2>1. o.app \in {NoApp, user[w].app}
    BY <1>2, <1>3, <1>6 DEF Mine
  <2>2. \A m \in Msgs(notices') : m.user = w => m.app \in {NoApp, user[w].app}
    BY <1>8, <2>1, Announced DEF Mine
  <2> QED  BY <1>6, <1>10, <1>11, <2>2 DEF Mine
<1>13. DeployedOnce(w)'
  <2>1. \A r \in Boxes : Single(inbox'[r], w, "deploy")
    BY <1>5, <1>6 DEF OnceOf, DeployedOnce
  <2>2. Deploying(w)' => Deploying(w)
    BY <1>6 DEF Deploying
  <2>3. CASE Told(w, "allocated")' => Told(w, "allocated")
    <3>1. Single(notices', w, "allocated")
      <4>1. o.kind = "deploy" => ~Told(w, "allocated")
        BY <1>2, <1>5, <1>6 DEF OnceOf, DeployedOnce, Deploying
      <4> QED  BY <1>5, <1>8, <4>1, Announced DEF OnceOf, DeployedOnce, Is
    <3> QED  BY <1>5, <1>6, <1>10, <2>1, <2>2, <2>3, <3>1 DEF OnceOf, DeployedOnce
  <2>4. CASE Told(w, "allocated")' /\ ~Told(w, "allocated")
    <3>1. o.kind = "deploy"
      BY <1>8, <2>4, Announced DEF Told
    <3>2. Single(notices', w, "allocated")
      BY <1>5, <1>8, <2>4, Announced DEF OnceOf, DeployedOnce
    <3>3. ~Deploying(w)'
      BY <1>2, <1>5, <1>6, <3>1 DEF OnceOf, DeployedOnce, Deploying
    <3>4. Deploying(w)
      BY <1>2, <1>6, <3>1 DEF Deploying
    <3> QED  BY <1>5, <1>6, <1>10, <2>1, <3>2, <3>3, <3>4 DEF OnceOf, DeployedOnce
  <2> QED  BY <2>3, <2>4
<1>14. LeavesLast(w)'
  <2>1. /\ \A k \in {"handovered", "leave"} : Told(w, k)' <=> Told(w, k)
        /\ \A m \in Msgs(notices') : m.kind \in {"handovered", "leave"} => m \in Msgs(notices)
        /\ Single(notices', w, "leave") /\ Before(notices', w, "handovered", "leave")
    BY <1>5, <1>8, Announced DEF OnceOf, LeavesLast, Told, Is
  <2> QED  BY <1>5, <1>10, <2>1 DEF OnceOf, LeavesLast
<1>15. OnceOf(w)'
  BY <1>5, <1>6, <1>9, <1>10, <1>12, <1>13, <1>14 DEF OnceOf
<1>16. WorkInv'
  BY <1>10 DEF OnceInv, WorkInv, Alive
<1> QED  BY <1>4, <1>15, <1>16, OnceFrom

LEMMA OnceUsers ==
  ASSUME Types, OnceInv, NEW u \in Users, UserHandsOver(u) \/ UserLeaves(u),
         UNCHANGED <<setup, dbVars, mstate, planVars, mqtt, timers, boundVars>>
  PROVE  OnceInv'
<1>1. OnceOf(u) /\ About(u)
  BY AboutUsers DEF OnceInv
<1>2. UNCHANGED <<user, service, discoveries, timers, mqtt>> /\ u \in Boxes
  BY DEF dbVars, boundVars, Boxes
<1>3. GetService(u)' = GetService(u)
  BY <1>2 DEF GetService
<1>4. /\ \A r \in Boxes : Msgs(inbox'[r]) \subseteq Msgs(inbox[r])
      /\ \A k : \A r \in Boxes : Sent(r, u, k)' => Sent(r, u, k)
      /\ \A k : \A r \in Boxes : Single(inbox[r], u, k) => Single(inbox'[r], u, k)
  <2>1. CASE UserHandsOver(u)
    BY <1>2, <2>1, Taken DEF UserHandsOver, Take
  <2>2. CASE UserLeaves(u)
    BY <2>2 DEF UserLeaves, Sent
  <2> QED  BY <2>1, <2>2
<1>5. \/ notices' = notices /\ present' = present
      \/ \E n \in MessageSet :
           /\ n.user = u /\ n.app = NoApp /\ n.from = u /\ notices' = Append(notices, n)
           /\ u \in present
           /\ \/ n.kind = "leave" /\ present' = present \ {u}
              \/ n.kind = "handovered" /\ present' = present
  <2>1. CASE UserHandsOver(u)
    <3>1. PICK p : p = Head(inbox[u]).plan
      OBVIOUS
    <3>2. p \in PlanSet
      BY <1>2, <2>1, <3>1, BoxTypes, OrderKinds DEF UserHandsOver, Take
    <3> QED  BY <2>1, <3>1, <3>2, MessageTypes DEF UserHandsOver, Tell, Notice, Take
  <2>2. CASE UserLeaves(u)
    BY <2>2, MessageTypes DEF UserLeaves, Tell, Notice
  <2> QED  BY <2>1, <2>2
<1>6. discoveries'[u] = 0 => Unheard(u)'
  <2> SUFFICES ASSUME Unheard(u) PROVE Unheard(u)'
    BY <1>1, <1>2 DEF OnceOf
  <2>1. notices' = notices /\ present' = present
    BY <1>5 DEF Unheard
  <2>2. runs' = runs
    BY DEF UserHandsOver, UserLeaves
  <2> QED  BY <1>2, <1>4, <2>1, <2>2 DEF Unheard
<1>7. user'[u] # NoUser => Mine(u)'
  <2> SUFFICES ASSUME Mine(u) PROVE Mine(u)'
    BY <1>1, <1>2 DEF OnceOf
  <2>1. \A m \in Msgs(notices') : m.user = u => m.app \in {NoApp, user[u].app}
    BY <1>5, Announced DEF Mine
  <2> QED  BY <1>2, <1>3, <1>4, <2>1 DEF Mine
<1>8. DeployedOnce(u)'
  <2>1. Told(u, "allocated")' <=> Told(u, "allocated")
    BY <1>5, Announced DEF Told
  <2>2. Single(notices', u, "allocated")
    BY <1>1, <1>5, Announced DEF OnceOf, DeployedOnce, Is
  <2>3. Deploying(u)' => Deploying(u)
    BY <1>4 DEF Deploying
  <2> QED  BY <1>1, <1>2, <1>4, <2>1, <2>2, <2>3 DEF OnceOf, DeployedOnce
<1>9. LeavesLast(u)'
  <2>1. CASE notices' = notices /\ present' = present
    BY <1>1, <1>2, <2>1 DEF OnceOf, LeavesLast, Told
  <2>2. ASSUME NEW n \in MessageSet, n.user = u, n.from = u, notices' = Append(notices, n),
               u \in present, n.kind \in {"leave", "handovered"},
               n.kind = "leave" => u \notin present', n.kind # "leave" => present' = present
        PROVE  LeavesLast(u)'
    <3>1. LeavesLast(u) /\ user[u] # NoUser /\ ~Told(u, "leave")
      BY <1>1, <2>2 DEF OnceOf, LeavesLast
    <3>2. \A m \in Msgs(notices') : m \in Msgs(notices) \/ m = n
      BY <2>2, Announced
    <3>3. Single(notices', u, "leave") /\ Before(notices', u, "handovered", "leave")
      BY <2>2, <3>1, Announced DEF LeavesLast, Is
    <3>4. Told(u, "leave")' => n.kind = "leave"
      BY <2>2, <3>1, Announced
    <3> QED  BY <1>2, <2>2, <3>1, <3>2, <3>3, <3>4 DEF LeavesLast
  <2> QED  BY <1>5, <2>1, <2>2
<1>10. OnceOf(u)'
  BY <1>1, <1>4, <1>6, <1>7, <1>8, <1>9 DEF OnceOf
<1>11. WorkInv'
  BY <1>2 DEF OnceInv, WorkInv, Alive
<1> QED  BY <1>1, <1>10, <1>11, OnceFrom

(* A step that neither deploys nor ends a service.                         *)
Ordinary(w) ==
  /\ discoveries[w] # 0 /\ discoveries' = discoveries /\ present' = present
  /\ (user'[w] = NoUser <=> user[w] = NoUser) /\ user'[w].app = user[w].app
  /\ GetService(w) # NoRow => GetService(w)' # NoRow
  /\ \A a \in Apps : service[w][a] = NoRow => service'[w][a] = NoRow
  /\ \A r \in Boxes : \A m \in Msgs(inbox'[r]) : m.user = w =>
       \/ m \in Msgs(inbox[r])
       \/ /\ m.kind \in {"pre_migrate", "migrate", "handover"}
          /\ user[w] # NoUser => m.app \in {NoApp, user[w].app}
          /\ m.kind = "handover" => r = w
  /\ \A r \in Boxes : Single(inbox[r], w, "deploy") => Single(inbox'[r], w, "deploy")
  /\ Msgs(notices') \subseteq Msgs(notices)
  /\ \A k : Single(notices, w, k) => Single(notices', w, k)
  /\ \A k, l : Before(notices, w, k, l) => Before(notices', w, k, l)
  /\ \A t \in timers' : t.user = w =>
       t.app = user[w].app \/ \E x \in timers : x.user = w /\ x.app = t.app

LEMMA OnceOrdinary ==
  ASSUME NEW w \in Users, OnceOf(w), Ordinary(w)
  PROVE  OnceOf(w)'
<1>1. Told(w, "allocated")' => Told(w, "allocated")
  BY DEF Ordinary, Told, Has
<1>2. Told(w, "leave")' => Told(w, "leave")
  BY DEF Ordinary, Told, Has
<1>3. Told(w, "handovered")' => Told(w, "handovered")
  BY DEF Ordinary, Told, Has
<1>4. \A r \in Boxes : Sent(r, w, "deploy")' => Sent(r, w, "deploy")
  BY DEF Ordinary, Sent, Has, Is
<1>5. user'[w] # NoUser => Mine(w)'
  <2> SUFFICES ASSUME Mine(w), user[w] # NoUser PROVE Mine(w)'
    BY DEF OnceOf, Ordinary
  <2>1. \A r \in Boxes : \A m \in Msgs(inbox'[r]) :
          m.user = w => m.app \in {NoApp, user'[w].app} /\ m.kind # "destroy"
    BY DEF Ordinary, Mine
  <2>2. \A m \in Msgs(notices') : m.user = w => m.app \in {NoApp, user'[w].app}
    BY DEF Ordinary, Mine
  <2>3. \A t \in timers' : t.user = w => t.app = user'[w].app
    BY DEF Ordinary, Mine
  <2>4. GetService(w)' # NoRow /\ \A a \in Apps \ {user'[w].app} : service'[w][a] = NoRow
    BY DEF Ordinary, Mine
  <2> QED  BY <2>1, <2>2, <2>3, <2>4 DEF Mine
<1>6. DeployedOnce(w)'
  <2>1. Deploying(w)' => Deploying(w)
    BY <1>4 DEF Deploying
  <2>2. (\A r \in Boxes : Single(inbox'[r], w, "deploy")) /\ Single(notices', w, "allocated")
    BY DEF Ordinary, OnceOf, DeployedOnce
  <2>3. user'[w] = NoUser /\ (Deploying(w)' \/ Told(w, "allocated")') =>
          \A a \in Apps : service'[w][a] = NoRow
    BY <1>1, <2>1 DEF Ordinary, OnceOf, DeployedOnce
  <2> QED  BY <1>1, <1>4, <2>1, <2>2, <2>3 DEF OnceOf, DeployedOnce
<1>7. LeavesLast(w)'
  BY <1>2, <1>3 DEF Ordinary, OnceOf, LeavesLast
<1>8. \A r \in Boxes : Sent(r, w, "handover")' => r = w
  BY DEF Ordinary, OnceOf, Sent, Has, Is
<1> QED  BY <1>5, <1>6, <1>7, <1>8 DEF OnceOf, Ordinary

LEMMA TimerChanges ==
  ASSUME Types, NEW t \in timers,
         TimerExpires(t) \/ TimerPublishes(t) \/ TimerEnds(t)
  PROVE  \A x \in timers' : x \in timers \/ (x.user = t.user /\ x.app = t.app)
<1>1. PICK u, a : u = t.user /\ a = t.app
  OBVIOUS
<1>2. \A stage, m : /\ [t EXCEPT !.stage = stage, !.m = m].user = u
                   /\ [t EXCEPT !.stage = stage, !.m = m].app = a
  BY <1>1 DEF Types, Timers
<1>3. \/ timers' = timers \ {t}
      \/ \E stage, m : timers' = (timers \ {t}) \cup {[t EXCEPT !.stage = stage, !.m = m]}
  BY DEF TimerExpires, TimerPublishes, TimerEnds, Replace, Finish
<1>4. ASSUME NEW stage, NEW m,
             timers' = (timers \ {t}) \cup {[t EXCEPT !.stage = stage, !.m = m]}
      PROVE  \A x \in timers' : x \in timers \/ (x.user = u /\ x.app = a)
  <2>1. PICK y : y = [t EXCEPT !.stage = stage, !.m = m]
    OBVIOUS
  <2>2. y.user = u /\ y.app = a
    BY <1>2, <2>1
  <2> QED  BY <1>4, <2>1, <2>2
<1> QED  BY <1>1, <1>3, <1>4

LEMMA AboutTimers ==
  ASSUME Types, RunTimers, NEW t \in timers,
         TimerExpires(t) \/ TimerPublishes(t) \/ TimerEnds(t)
  PROVE  About(t.user)
<1>1. t \in Timers /\ UNCHANGED <<user, service, discoveries, present, runs, notices>>
  BY DEF Types, TimerExpires, TimerPublishes, TimerEnds, dbVars, boundVars, worldVars
<1>2. \A v \in Users : v # t.user => mstate'[v] = mstate[v]
  BY DEF Types, TimerExpires, TimerPublishes, TimerEnds
<1>3. \A v : v # t.user => \A r \in Boxes : SameFor(inbox[r], inbox'[r], v)
  <2>1. CASE inbox' = inbox
    BY <2>1, SameQueue
  <2>2. CASE TimerPublishes(t)
    <3>1. PICK r \in Boxes, o \in OrderSet :
            o.user = t.user /\ inbox' = [inbox EXCEPT ![r] = Append(@, o)]
      <4>1. TimerOrder(t) \in OrderSet /\ TimerOrder(t).user = t.user
        BY <1>1, OrderTypes, TimerTypes DEF TimerOrder, Order
      <4>2. (IF t.kind = "handover" THEN t.user ELSE t.src) \in Boxes
        BY <1>1, TimerTypes DEF Boxes
      <4> QED  BY <2>2, <4>1, <4>2 DEF TimerPublishes, Publish
    <3> QED  BY <3>1, Posted
  <2> QED  BY <2>1, <2>2 DEF TimerExpires, TimerEnds, worldVars
<1>4. \A x \in timers' : x.user # t.user => x \in timers
  BY TimerChanges
<1> QED  BY <1>1, <1>2, <1>3, <1>4, SameQueue DEF About

LEMMA OnceTimers ==
  ASSUME Types, OnceInv, RunTimers
  PROVE  OnceInv'
<1>1. PICK t \in timers : TimerExpires(t) \/ TimerPublishes(t) \/ TimerEnds(t)
  BY DEF RunTimers
<1>2. PICK w \in Users : w = t.user /\ t \in Timers
  BY <1>1, TimerTypes DEF Types
<1>3. About(w) /\ OnceOf(w)
  BY <1>1, <1>2, AboutTimers DEF OnceInv
<1>4. UNCHANGED <<user, service, discoveries, present, mqtt, notices>>
  BY <1>1 DEF TimerExpires, TimerPublishes, TimerEnds, dbVars, boundVars, worldVars
<1>5. user[w] # NoUser => t.app = user[w].app
  BY <1>2, <1>3 DEF OnceOf, Mine
<1>6. /\ \A r \in Boxes : \A m \in Msgs(inbox'[r]) : m.user = w =>
           \/ m \in Msgs(inbox[r])
           \/ /\ m.kind \in {"pre_migrate", "migrate", "handover"}
              /\ user[w] # NoUser => m.app \in {NoApp, user[w].app}
              /\ m.kind = "handover" => r = w
      /\ \A r \in Boxes : Single(inbox[r], w, "deploy") => Single(inbox'[r], w, "deploy")
  <2>1. CASE inbox' = inbox
    BY <2>1
  <2>2. CASE TimerPublishes(t)
    <3>1. PICK r \in Boxes : r = IF t.kind = "handover" THEN w ELSE t.src
      BY <1>2, TimerTypes DEF Boxes
    <3>2. PICK o \in OrderSet :
            /\ o = TimerOrder(t) /\ o.kind \in {"pre_migrate", "migrate", "handover"}
            /\ o.app \in {NoApp, t.app} /\ (o.kind = "handover" => t.kind = "handover")
            /\ o.user = t.user
      <4>1. /\ t.user \in Users /\ t.plan \in PlanSet /\ t.app \in Apps
            /\ t.kind \in {"pre_migration", "migration", "handover"}
        BY <1>2, TimerTypes
      <4>2. TimerOrder(t) \in OrderSet
        BY <4>1, OrderTypes DEF TimerOrder
      <4>3. /\ TimerOrder(t).kind \in {"pre_migrate", "migrate", "handover"}
            /\ TimerOrder(t).app \in {NoApp, t.app}
            /\ TimerOrder(t).kind = "handover" => t.kind = "handover"
            /\ TimerOrder(t).user = t.user
        BY <4>1 DEF TimerOrder, Order
      <4> QED  BY <4>2, <4>3
    <3>3. inbox' = [inbox EXCEPT ![r] = Append(@, o)]
      BY <1>2, <2>2, <3>1, <3>2 DEF TimerPublishes, Publish
    <3>4. /\ \A s \in Boxes : s # r => inbox'[s] = inbox[s]
          /\ Msgs(inbox'[r]) = Msgs(inbox[r]) \cup {o}
          /\ Single(inbox[r], w, "deploy") => Single(inbox'[r], w, "deploy")
      BY <3>2, <3>3, Posted DEF Is
    <3> QED  BY <1>5, <3>1, <3>2, <3>4
  <2> QED  BY <1>1, <2>1, <2>2 DEF TimerExpires, TimerEnds, worldVars
<1>7. \A x \in timers' : x.user = w => \E y \in timers : y.user = w /\ y.app = x.app
  BY <1>1, <1>2, TimerChanges
<1>8. discoveries[w] # 0
  BY <1>1, <1>2, <1>3 DEF OnceOf, Unheard
<1>9. GetService(w)' = GetService(w)
  BY <1>4 DEF GetService
<1>10. Ordinary(w)
  BY <1>4, <1>6, <1>7, <1>8, <1>9 DEF Ordinary
<1>11. WorkInv'
  BY <1>4 DEF OnceInv, WorkInv, Alive
<1> QED  BY <1>3, <1>10, <1>11, OnceFrom, OnceOrdinary

(* What the writes to the rows of services leave.                          *)
LEMMA RowsAfter ==
  ASSUME Types, NEW u \in Users, GetService(u) # NoRow
  PROVE  /\ \A x : /\ SetState(u, x)[u][user[u].app] = [server |-> At(u), state |-> x]
                   /\ \A a \in Apps \ {user[u].app} : SetState(u, x)[u][a] = service[u][a]
                   /\ \A v \in Users \ {u} : SetState(u, x)[v] = service[v]
         /\ \A s : /\ UpdateService(u, user[u].app, s)[u][user[u].app] =
                        [server |-> s, state |-> "running"]
                   /\ \A a \in Apps \ {user[u].app} :
                        UpdateService(u, user[u].app, s)[u][a] = service[u][a]
                   /\ \A v \in Users \ {u} : UpdateService(u, user[u].app, s)[v] = service[v]
         /\ Destroyed(u)[u][user[u].app] = NoRow
         /\ \A a \in Apps \ {user[u].app} : Destroyed(u)[u][a] = service[u][a]
         /\ \A v \in Users \ {u} : Destroyed(u)[v] = service[v]
         /\ \A x : [server |-> At(u), state |-> x] # NoRow
         /\ \A s \in Servers : \A x : [server |-> s, state |-> x] # NoRow
<1>1. PICK a \in Apps : /\ a = user[u].app /\ GetService(u) = service[u][a]
                        /\ service[u][a] # NoRow /\ At(u) = service[u][a].server
  BY RowFacts DEF At
<1>2. service \in [Users -> [Apps -> ServiceRows]] /\ service[u][a] \in ServiceRows
  BY DEF Types
<1>3. \A x : [service[u][a] EXCEPT !.state = x] = [server |-> At(u), state |-> x]
  BY <1>1, <1>2 DEF ServiceRows
<1>4. ASSUME NEW x
      PROVE  /\ SetState(u, x)[u][a] = [server |-> At(u), state |-> x]
             /\ \A b \in Apps \ {a} : SetState(u, x)[u][b] = service[u][b]
             /\ \A v \in Users \ {u} : SetState(u, x)[v] = service[v]
  <2>1. SetState(u, x) = [service EXCEPT ![u] =
          [service[u] EXCEPT ![a] = [service[u][a] EXCEPT !.state = x]]]
    BY <1>1, <1>2 DEF SetState
  <2> QED  BY <1>2, <1>3, <2>1
<1>5. ASSUME NEW s
      PROVE  /\ UpdateService(u, a, s)[u][a] = [server |-> s, state |-> "running"]
             /\ \A b \in Apps \ {a} : UpdateService(u, a, s)[u][b] = service[u][b]
             /\ \A v \in Users \ {u} : UpdateService(u, a, s)[v] = service[v]
  <2>1. UpdateService(u, a, s) = [service EXCEPT ![u] = [x \in Apps |->
          IF x = a THEN [server |-> s, state |-> "running"] ELSE service[u][x]]]
    BY <1>1 DEF UpdateService
  <2> QED  BY <1>2, <2>1
<1>6. /\ Destroyed(u)[u][a] = NoRow
      /\ \A b \in Apps \ {a} : Destroyed(u)[u][b] = service[u][b]
      /\ \A v \in Users \ {u} : Destroyed(u)[v] = service[v]
  BY <1>1, <1>2 DEF Destroyed
<1>7. At(u) \in Servers /\ NoServer \notin Servers
  BY RowFacts, CentralAssumption DEF At
<1>8. \A s \in Servers : \A x : [server |-> s, state |-> x] # NoRow
  BY <1>7 DEF NoRow
<1> QED  BY <1>1, <1>4, <1>5, <1>6, <1>7, <1>8

(* The row of a user that keeps to its service.                            *)
LEMMA RowAfter ==
  ASSUME Types, NEW u \in Users, GetService(u) # NoRow, user'[u].app = user[u].app
  PROVE  GetService(u)' = service'[u][user[u].app]
BY RowFacts, CentralAssumption DEF GetService

(* The seven handlers.                                                     *)
Notices(i) == \/ AllocatedKnown(i) \/ AllocatedUnknown(i)
              \/ PreMigratedThreshold(i) \/ PreMigratedRead(i)
              \/ Migrated(i) \/ HandoveredRead(i) \/ Left(i)

LEMMA NoticeStarts ==
  ASSUME Types, NEW i \in DOMAIN notices, Notices(i)
  PROVE  /\ notices' = Rest(i) /\ mqtt = Idle /\ Arrived(i)
         /\ UNCHANGED <<timers, runs, present, discoveries, plans>>
BY DEF Notices, AllocatedKnown, AllocatedUnknown, PreMigratedThreshold, PreMigratedRead,
   Migrated, HandoveredRead, Left, Receive, MqttIdle, worldVars, boundVars

(* What a handler publishes.                                               *)
LEMMA NoticePosts ==
  ASSUME Types, NEW i \in DOMAIN notices, Notices(i), NEW w, w = notices[i].user
  PROVE  \/ inbox' = inbox
         \/ /\ GetService(w) # NoRow /\ At(w) \in Boxes
            /\ \E o \in OrderSet :
                 /\ inbox' = [inbox EXCEPT ![At(w)] = Append(@, o)]
                 /\ o.user = w /\ o.app = user[w].app
                 /\ \/ o.kind = "migrate" /\ PreMigratedThreshold(i) /\ o.plan = migPlan[w]
                       /\ MigrationAllowed(w) /\ migPlan[w] # NoPlan
                    \/ o.kind = "destroy" /\ Left(i)
<1>1. w \in Users
  BY NoticeTypes, MessageKinds
<1>2. CASE PreMigratedThreshold(i) /\ inbox' # inbox
  <2>1. /\ GetService(w) # NoRow /\ migPlan[w] # NoPlan /\ MigrationAllowed(w)
        /\ inbox' = [inbox EXCEPT ![At(w)] = Append(@, Order("migrate", w, user[w].app, migPlan[w]))]
    BY <1>2 DEF PreMigratedThreshold, Publish, At
  <2>2. /\ At(w) \in Boxes /\ user[w].app \in Apps /\ migPlan[w] \in PlanSet
    BY <1>1, <2>1, RowFacts DEF Types, Boxes, At
  <2>3. PICK o \in OrderSet : o = Order("migrate", w, user[w].app, migPlan[w])
    BY <1>1, <2>2, OrderTypes
  <2>4. o.user = w /\ o.app = user[w].app /\ o.kind = "migrate" /\ o.plan = migPlan[w]
    BY <2>3 DEF Order
  <2> QED  BY <1>2, <2>1, <2>2, <2>3, <2>4
<1>3. CASE Left(i) /\ inbox' # inbox
  <2>1. /\ GetService(w) # NoRow
        /\ inbox' = [inbox EXCEPT ![At(w)] = Append(@, Order("destroy", w, user[w].app, NoPlan))]
    BY <1>3 DEF Left, Publish, At, DestroyOrder
  <2>2. At(w) \in Boxes /\ user[w].app \in Apps
    BY <1>1, <2>1, RowFacts DEF Boxes, At
  <2>3. PICK o \in OrderSet : o = Order("destroy", w, user[w].app, NoPlan)
    BY <1>1, <2>2, OrderTypes
  <2>4. o.user = w /\ o.app = user[w].app /\ o.kind = "destroy"
    BY <2>3 DEF Order
  <2> QED  BY <1>3, <2>1, <2>2, <2>3, <2>4
<1> QED  BY <1>2, <1>3 DEF Notices, AllocatedKnown, AllocatedUnknown, PreMigratedRead,
            Migrated, HandoveredRead, worldVars

LEMMA AboutNotice ==
  ASSUME Types, NEW i \in DOMAIN notices, Notices(i), NEW w, w = notices[i].user
  PROVE  w \in Users /\ About(w)
<1>1. w \in Users /\ notices' = Rest(i)
  BY NoticeTypes, MessageKinds, NoticeStarts
<1>2. \A v : v # w => SameFor(notices, notices', v)
  BY <1>1, Handled
<1>3. \A v : v # w => \A r \in Boxes : SameFor(inbox[r], inbox'[r], v)
  <2>1. CASE inbox' = inbox
    BY <2>1, SameQueue
  <2>2. CASE inbox' # inbox
    <3>1. PICK r \in Boxes, o \in OrderSet :
            o.user = w /\ inbox' = [inbox EXCEPT ![r] = Append(@, o)]
      BY <2>2, NoticePosts
    <3> QED  BY <3>1, Posted
  <2> QED  BY <2>1, <2>2
<1>t. /\ user \in [Users -> UserRows] /\ service \in [Users -> [Apps -> ServiceRows]]
      /\ mstate \in [Users -> {Unknown} \cup SUBSET Bits]
  BY DEF Types
<1>4. \A v \in Users \ {w} : user'[v] = user[v] /\ mstate'[v] = mstate[v]
  BY <1>1, <1>t DEF Notices, AllocatedKnown, AllocatedUnknown, PreMigratedThreshold,
     PreMigratedRead, Migrated, HandoveredRead, Left, Refers, UserGone, MigratedBits, dbVars
<1>5. \A v \in Users \ {w} : service'[v] = service[v]
  <2>1. \A v \in Users \ {w} : \A x :
          /\ SetState(w, x)[v] = service[v] /\ Destroyed(w)[v] = service[v]
          /\ \A a : UpdateService(w, a, x)[v] = service[v]
    BY <1>1, <1>t DEF SetState, UpdateService, Destroyed
  <2>2. CASE AllocatedUnknown(i)
    BY <1>t, <2>2 DEF AllocatedUnknown, dbVars
  <2>3. CASE ~AllocatedUnknown(i)
    <3>1. \/ service' = service \/ service' = SetState(w, "pre_migrated")
          \/ service' = Destroyed(w) \/ \E a, s : service' = UpdateService(w, a, s)
      BY <2>3 DEF Notices, AllocatedKnown, PreMigratedThreshold,
         PreMigratedRead, Migrated, MigratedRow, HandoveredRead, Left, dbVars
    <3> QED  BY <2>1, <3>1
  <2> QED  BY <2>2, <2>3
<1> QED  BY <1>1, <1>2, <1>3, <1>4, <1>5, NoticeStarts DEF About

(* A step that only writes to the row a user refers to leaves it one.      *)
KeepsRow(u) ==
  \/ service' = service
  \/ GetService(u) # NoRow /\ \E x : service' = SetState(u, x)
  \/ GetService(u) # NoRow /\ \E s \in Servers : service' = UpdateService(u, user[u].app, s)

LEMMA RowKept ==
  ASSUME Types, NEW u \in Users, user'[u].app = user[u].app, KeepsRow(u)
  PROVE  /\ GetService(u) # NoRow => GetService(u)' # NoRow
         /\ \A a \in Apps : service[u][a] = NoRow => service'[u][a] = NoRow
<1>1. CASE service' = service
  BY <1>1 DEF GetService
<1>2. CASE GetService(u) # NoRow /\ service' # service
  <2>1. PICK a \in Apps : a = user[u].app /\ service[u][a] # NoRow
    BY <1>2, RowFacts
  <2>2. service'[u][a] # NoRow /\ \A b \in Apps \ {a} : service'[u][b] = service[u][b]
    <3>1. CASE \E x : service' = SetState(u, x)
      <4>1. PICK x : service' = SetState(u, x)
        BY <3>1
      <4>2. /\ SetState(u, x)[u][a] = [server |-> At(u), state |-> x]
            /\ [server |-> At(u), state |-> x] # NoRow
            /\ \A b \in Apps \ {a} : SetState(u, x)[u][b] = service[u][b]
        BY <1>2, <2>1, RowsAfter
      <4> QED  BY <4>1, <4>2
    <3>2. CASE \E s \in Servers : service' = UpdateService(u, a, s)
      <4>1. PICK s \in Servers : service' = UpdateService(u, a, s)
        BY <3>2
      <4>2. /\ UpdateService(u, a, s)[u][a] = [server |-> s, state |-> "running"]
            /\ [server |-> s, state |-> "running"] # NoRow
            /\ \A b \in Apps \ {a} : UpdateService(u, a, s)[u][b] = service[u][b]
        BY <1>2, <2>1, RowsAfter
      <4> QED  BY <4>1, <4>2
    <3> QED  BY <1>2, <2>1, <3>1, <3>2 DEF KeepsRow
  <2>3. GetService(u)' = service'[u][a]
    BY <1>2, <2>1, RowAfter
  <2> QED  BY <2>1, <2>2, <2>3
<1> QED  BY <1>1, <1>2 DEF KeepsRow

(* A notice about where a service runs names the service its user has.     *)
LEMMA NamesService ==
  ASSUME Types, NEW m \in Msgs(notices), m \in MessageSet,
         NEW w, w = m.user, OnceOf(w), user[w] # NoUser,
         m.kind \in {"allocated", "migrated"}
  PROVE  m.app = user[w].app /\ m.from \in Servers /\ ~NameTaken(w, m.app)
<1>1. m.app \in Apps /\ m.from \in Servers
  BY MessageKinds
<1> QED  BY <1>1, CentralAssumption DEF OnceOf, Mine, NameTaken, Renames

LEMMA OnceNotice ==
  ASSUME Types, OnceInv, NEW i \in DOMAIN notices, Notices(i), setup' = setup
  PROVE  OnceInv'
<1>1. PICK n \in MessageSet : n = notices[i] /\ n \in Msgs(notices)
  BY NoticeTypes DEF Msgs
<1>2. PICK w \in Users : w = n.user
  BY MessageKinds
<1>3. About(w) /\ OnceOf(w)
  BY <1>1, <1>2, AboutNotice DEF OnceInv
<1>4. /\ notices' = Rest(i) /\ mqtt = Idle /\ Arrived(i)
      /\ UNCHANGED <<timers, runs, present, discoveries, plans>>
  BY NoticeStarts
<1>5. /\ Msgs(notices') \subseteq Msgs(notices)
      /\ \A k : Single(notices, w, k) => Single(notices', w, k)
      /\ \A k, l : Before(notices, w, k, l) => Before(notices', w, k, l)
      /\ \A k : Told(w, k)' => Told(w, k)
      /\ Told(w, n.kind)
      /\ Single(notices, w, n.kind) => ~Told(w, n.kind)'
  BY <1>1, <1>2, <1>4, Handled
<1>6. discoveries[w] # 0
  BY <1>1, <1>2, <1>3 DEF OnceOf, Unheard
<1>7. Idle # Dead /\ Idle.at = "idle"
  BY WorkTypes
<1>t. user[w] \in UserRows /\ user \in [Users -> UserRows] /\ service \in [Users -> [Apps -> ServiceRows]]
  BY DEF Types
<1>8. CASE AllocatedUnknown(i)
  <2>1. GetService(w) = NoRow /\ n.kind = "allocated"
    BY <1>1, <1>2, <1>8 DEF AllocatedUnknown, Receive
  <2>2. user[w] = NoUser
    BY <1>3, <2>1 DEF OnceOf, Mine
  <2>3. \A a \in Apps : service[w][a] = NoRow
    BY <1>3, <1>5, <2>1, <2>2 DEF OnceOf, DeployedOnce
  <2>4. ~Deploying(w) /\ ~Told(w, "allocated")'
    BY <1>3, <1>5, <2>1 DEF OnceOf, DeployedOnce
  <2>5. mqtt' = mqtt /\ inbox' = inbox /\ user' = Refers(w, n.app)
    BY <1>1, <1>2, <1>8, <2>1, <2>3, MessageKinds DEF AllocatedUnknown, worldVars
  <2>6. user'[w] = NoUser
    BY <1>t, <2>2, <2>5 DEF Refers, NoUser
  <2>7. DeployedOnce(w)'
    <3>1. ~Deploying(w)'
      BY <2>4, <2>5 DEF Deploying, Sent
    <3>2. (\A r \in Boxes : Single(inbox'[r], w, "deploy")) /\ Single(notices', w, "allocated")
      BY <1>3, <1>5, <2>5 DEF OnceOf, DeployedOnce
    <3> QED  BY <2>4, <3>1, <3>2 DEF DeployedOnce, Deploying
  <2>8. LeavesLast(w)'
    BY <1>3, <1>4, <1>5, <2>2, <2>6 DEF OnceOf, LeavesLast
  <2>9. OnceOf(w)'
    <3>1. \A r \in Boxes : Sent(r, w, "handover")' => r = w
      BY <1>3, <2>5 DEF OnceOf, Sent
    <3> QED  BY <1>4, <1>6, <2>6, <2>7, <2>8, <3>1 DEF OnceOf
  <2>10. WorkInv'
    BY <1>4, <1>7, <2>5 DEF WorkInv, Alive
  <2> QED  BY <1>3, <2>9, <2>10, OnceFrom
<1>9. CASE Left(i)
  <2>1. n.kind = "leave" /\ UNCHANGED <<mqtt, mstate>>
    BY <1>1, <1>9 DEF Left, Receive
  <2>2. user[w] # NoUser /\ w \notin present /\ ~Told(w, "leave")'
    BY <1>3, <1>5, <2>1 DEF OnceOf, LeavesLast
  <2>3. Mine(w) /\ GetService(w) # NoRow
    BY <1>3, <2>2 DEF OnceOf, Mine
  <2>4. service' = Destroyed(w) /\ user'[w] = NoUser
    BY <1>1, <1>2, <1>9, <1>t, <2>3 DEF Left, UserGone
  <2>5. PICK r \in Boxes, o \in OrderSet :
          /\ inbox' = [inbox EXCEPT ![r] = Append(@, o)]
          /\ o.user = w /\ o.kind = "destroy"
    <3>1. /\ At(w) \in Boxes /\ DestroyOrder(w) \in OrderSet
          /\ DestroyOrder(w).user = w /\ DestroyOrder(w).kind = "destroy"
      BY <2>3, RowFacts, OrderTypes DEF DestroyOrder, Boxes, At, Order
    <3>2. inbox' = [inbox EXCEPT ![At(w)] = Append(@, DestroyOrder(w))]
      BY <1>1, <1>2, <1>9, <2>3 DEF Left, Publish, At
    <3> QED  BY <3>1, <3>2
  <2>6. ~Told(w, "handovered")'
    <3> SUFFICES ASSUME NEW j \in DOMAIN notices, Is(notices[j], w, "handovered") PROVE FALSE
      BY <1>5 DEF Told, Has, Msgs
    <3>1. j < i
      BY <1>1, <1>2, <1>3, <2>1 DEF OnceOf, LeavesLast, Before, Is
    <3>2. notices[j].from = w /\ n.from = w
      BY <1>1, <1>2, <1>3, <2>1 DEF OnceOf, LeavesLast, Is, Msgs
    <3>3. PICK l \in Nat : DOMAIN notices = 1 .. l
      BY LenProperties DEF Types
    <3>4. j \in 1 .. i - 1
      BY <3>1, <3>3
    <3> QED  BY <1>1, <1>4, <3>2, <3>4 DEF Arrived
  <2>7. \A r1 \in Boxes : /\ Sent(r1, w, "deploy")' <=> Sent(r1, w, "deploy")
                          /\ Sent(r1, w, "handover")' <=> Sent(r1, w, "handover")
                          /\ Single(inbox[r1], w, "deploy") => Single(inbox'[r1], w, "deploy")
    <3>1. ~Is(o, w, "deploy") /\ ~Is(o, w, "handover")
      BY <2>5 DEF Is
    <3>2. /\ \A s \in Boxes : s # r => inbox'[s] = inbox[s]
          /\ \A v, k : Single(inbox[r], v, k) /\ ~(Is(o, v, k) /\ Sent(r, v, k)) =>
              Single(inbox'[r], v, k)
          /\ \A k, v : \A s \in Boxes :
               Sent(s, v, k)' <=> Sent(s, v, k) \/ (s = r /\ v = o.user /\ k = o.kind)
      BY <2>5, Posted
    <3>3. Single(inbox[r], w, "deploy") => Single(inbox'[r], w, "deploy")
      BY <3>1, <3>2
    <3> QED  BY <2>5, <3>2, <3>3
  <2>8. \A a \in Apps : service'[w][a] = NoRow
    BY <2>3, <2>4, RowsAfter DEF Mine
  <2>9. DeployedOnce(w)'
    <3>1. Deploying(w)' <=> Deploying(w)
      BY <2>7 DEF Deploying
    <3>2. Single(notices', w, "allocated") /\ (Told(w, "allocated")' => Told(w, "allocated"))
      BY <1>3, <1>5 DEF OnceOf, DeployedOnce
    <3> QED  BY <1>3, <2>7, <2>8, <3>1, <3>2 DEF OnceOf, DeployedOnce
  <2>10. LeavesLast(w)'
    BY <1>3, <1>4, <1>5, <2>2, <2>6 DEF OnceOf, LeavesLast
  <2>11. OnceOf(w)'
    BY <1>3, <1>4, <1>6, <2>4, <2>7, <2>9, <2>10 DEF OnceOf
  <2>12. WorkInv'
    BY <1>4, <1>7, <2>1 DEF WorkInv, Alive
  <2> QED  BY <1>3, <2>11, <2>12, OnceFrom
<1>10. CASE ~AllocatedUnknown(i) /\ ~Left(i)
  <2>1. /\ user'[w].app = user[w].app /\ (user'[w] = NoUser <=> user[w] = NoUser)
        /\ \/ mqtt' = Idle
           \/ mqtt'.at \in {"pre_migrated", "handovered"} /\ mqtt'.user = w /\ user[w] # NoUser
        /\ KeepsRow(w)
    <3>1. CASE AllocatedKnown(i)
      <4>1. user[w] # NoUser /\ n.kind = "allocated" /\ GetService(w) # NoRow
        BY <1>1, <1>2, <3>1, RowFacts DEF AllocatedKnown, Receive
      <4>2. n.app = user[w].app /\ n.from \in Servers /\ ~NameTaken(w, n.app)
        BY <1>1, <1>2, <1>3, <4>1, NamesService
      <4> QED  BY <1>1, <1>2, <1>4, <3>1, <4>1, <4>2 DEF AllocatedKnown, KeepsRow
    <3>2. CASE PreMigratedThreshold(i)
      BY <1>1, <1>2, <1>4, <3>2 DEF PreMigratedThreshold, KeepsRow
    <3>3. CASE PreMigratedRead(i)
      <4>1. /\ user' = user
            /\ \/ service' = service /\ mqtt' = Idle
               \/ /\ GetService(w) # NoRow /\ service' = SetState(w, "pre_migrated")
                  /\ mqtt' = Idle \/ (mqtt'.at = "pre_migrated" /\ mqtt'.user = w)
        BY <1>1, <1>2, <1>4, <3>3 DEF PreMigratedRead
      <4>2. GetService(w) # NoRow => user[w] # NoUser
        BY RowFacts
      <4> QED  BY <4>1, <4>2 DEF KeepsRow
    <3>4. CASE Migrated(i)
      <4>1. n.kind = "migrated"
        BY <1>1, <3>4 DEF Migrated, Receive
      <4>2. GetService(w) # NoRow => n.app = user[w].app /\ n.from \in Servers /\ ~NameTaken(w, n.app)
        BY <1>1, <1>2, <1>3, <4>1, NamesService, RowFacts
      <4> QED  BY <1>1, <1>2, <1>4, <3>4, <4>2 DEF Migrated, MigratedRow, KeepsRow
    <3>5. CASE HandoveredRead(i)
      <4>1. n.kind = "handovered" /\ service' = service
        BY <1>1, <3>5 DEF HandoveredRead, Receive
      <4>2. user[w] # NoUser
        BY <1>3, <1>5, <4>1 DEF OnceOf, LeavesLast
      <4>3. user' = [user EXCEPT ![w].bts = n.plan.bts]
        BY <1>1, <1>2, <3>5, <4>2 DEF HandoveredRead
      <4>4. user'[w].app = user[w].app /\ user'[w] # NoUser
        <5>1. user'[w] = [user[w] EXCEPT !.bts = n.plan.bts]
          BY <1>t, <4>3
        <5>2. n.plan.bts \in Stations /\ user[w] \in [bts : Stations, app : Apps \cup {NoApp}]
          BY <1>t, <4>1, <4>2, MessageKinds, PlanFacts DEF UserRows
        <5>3. user'[w].app = user[w].app /\ user'[w].bts # NoStation
          BY <5>1, <5>2, CentralAssumption
        <5> QED  BY <5>3 DEF NoUser
      <4>5. mqtt' = Idle \/ (mqtt'.at = "handovered" /\ mqtt'.user = w)
        BY <1>1, <1>2, <3>5, <4>2 DEF HandoveredRead
      <4> QED  BY <4>1, <4>2, <4>4, <4>5 DEF KeepsRow
    <3> QED  BY <1>10, <3>1, <3>2, <3>3, <3>4, <3>5 DEF Notices
  <2>2. /\ GetService(w) # NoRow => GetService(w)' # NoRow
        /\ \A a \in Apps : service[w][a] = NoRow => service'[w][a] = NoRow
    BY <2>1, RowKept
  <2>3. /\ \A r \in Boxes : \A m \in Msgs(inbox'[r]) : m.user = w =>
             m \in Msgs(inbox[r]) \/ (m.kind = "migrate" /\ m.app = user[w].app)
        /\ \A r \in Boxes : Single(inbox[r], w, "deploy") => Single(inbox'[r], w, "deploy")
    <3>1. CASE inbox' = inbox
      BY <3>1
    <3>2. CASE inbox' # inbox
      <4>1. PICK r \in Boxes, o \in OrderSet :
              /\ inbox' = [inbox EXCEPT ![r] = Append(@, o)]
              /\ o.user = w /\ o.app = user[w].app /\ o.kind = "migrate"
        BY <1>1, <1>2, <1>10, <3>2, NoticePosts
      <4>2. /\ \A s \in Boxes : s # r => inbox'[s] = inbox[s]
            /\ Msgs(inbox'[r]) = Msgs(inbox[r]) \cup {o}
            /\ \A v, k : Single(inbox[r], v, k) /\ ~(Is(o, v, k) /\ Sent(r, v, k)) =>
                 Single(inbox'[r], v, k)
        BY <4>1, Posted
      <4>3. Single(inbox[r], w, "deploy") => Single(inbox'[r], w, "deploy")
        BY <4>1, <4>2 DEF Is
      <4> QED  BY <4>1, <4>2, <4>3
    <3> QED  BY <3>1, <3>2
  <2>4. Ordinary(w)
    BY <1>4, <1>5, <1>6, <2>1, <2>2, <2>3 DEF Ordinary
  <2>5. WorkInv'
    BY <1>7, <2>1, WorkTypes DEF WorkInv, Alive
  <2> QED  BY <1>3, <2>4, <2>5, OnceFrom, OnceOrdinary
<1> QED  BY <1>8, <1>9, <1>10

-----------------------------------------------------------------------------
(* What a threshold planner orders.                                        *)

LEMMA Joined ==
  ASSUME NEW S, NEW q \in Seq(S), NEW x \in S
  PROVE  q \o <<x>> = Append(q, x) /\ q \o <<>> = q /\ Append(q, x) # q
<1>1. q \o <<x>> = Append(q, x) /\ q \o <<>> = q
  BY AppendIsConcat, ConcatEmptySeq
<1>2. Len(Append(q, x)) = Len(q) + 1 /\ Len(q) \in Nat
  BY AppendProperties, LenProperties
<1> QED  BY <1>1, <1>2

LEMMA SameTwice ==
  ASSUME NEW p, NEW q, NEW r, NEW u, SameFor(p, q, u), SameFor(q, r, u)
  PROVE  SameFor(p, r, u)
BY DEF SameFor

(* One message, or none, is put at the end.                                *)
LEMMA MaybeAdded ==
  ASSUME NEW S, NEW q \in Seq(S), NEW x \in S, NEW r \in Seq(S), r \in {q, Append(q, x)}
  PROVE  /\ \A m : m \in Msgs(r) <=> m \in Msgs(q) \/ (r # q /\ m = x)
         /\ \A v : v # x.user => SameFor(q, r, v)
         /\ \A u, k : Has(r, u, k) <=> Has(q, u, k) \/ (r # q /\ Is(x, u, k))
         /\ \A u, k : Single(q, u, k) /\ ~(Is(x, u, k) /\ Has(q, u, k)) => Single(r, u, k)
         /\ \A u, k, l : Before(q, u, k, l) /\ ~(Is(x, u, k) /\ (Has(q, u, l) \/ k = l)) =>
              Before(r, u, k, l)
<1>1. CASE r # q
  <2>1. PICK p : p = Append(q, x)
    OBVIOUS
  <2>2. r = p
    BY <1>1, <2>1
  <2>3. /\ p \in Seq(S) /\ Msgs(p) = Msgs(q) \cup {x}
        /\ \A u, k : Single(q, u, k) /\ ~(Is(x, u, k) /\ Has(q, u, k)) => Single(p, u, k)
        /\ \A u, k, l : Before(q, u, k, l) /\ ~(Is(x, u, k) /\ (Has(q, u, l) \/ k = l)) =>
             Before(p, u, k, l)
    BY <2>1, Added
  <2>4. \A v : v # x.user => SameFor(q, p, v)
    BY <2>1, SameAdded
  <2>5. \A u, k : Has(p, u, k) <=> Has(q, u, k) \/ Is(x, u, k)
    BY <2>3 DEF Has
  <2> QED  BY <1>1, <2>2, <2>3, <2>4, <2>5
<1>2. CASE r = q
  BY <1>2, SameQueue
<1> QED  BY <1>1, <1>2

(* The orders of a threshold planner, put at the end one after the other.  *)
PutAfter(q, a, b, r, x, y, z, u) ==
  /\ q \in Seq(OrderSet) /\ a \in Seq(OrderSet) /\ b \in Seq(OrderSet) /\ r \in Seq(OrderSet)
  /\ x \in OrderSet /\ y \in OrderSet /\ z \in OrderSet
  /\ Is(x, u, "handover") /\ Is(y, u, "pre_migrate") /\ Is(z, u, "migrate")
  /\ a \in {q, Append(q, x)} /\ b \in {a, Append(a, y)} /\ r \in {b, Append(b, z)}

LEMMA ThreeAdded ==
  ASSUME NEW q, NEW a, NEW b, NEW r, NEW x, NEW y, NEW z, NEW u,
         PutAfter(q, a, b, r, x, y, z, u)
  PROVE  /\ \A m : m \in Msgs(r) <=>
              m \in Msgs(q) \/ (a # q /\ m = x) \/ (b # a /\ m = y) \/ (r # b /\ m = z)
         /\ \A v : v # u => SameFor(q, r, v)
         /\ Single(q, u, "deploy") => Single(r, u, "deploy")
         /\ \A k : Single(q, u, k) /\ ~Has(q, u, k) => Single(r, u, k)
         /\ Before(q, u, "pre_migrate", "migrate") /\ ~Has(q, u, "migrate") =>
              Before(r, u, "pre_migrate", "migrate")
<1>3. /\ q \in Seq(OrderSet) /\ a \in Seq(OrderSet) /\ b \in Seq(OrderSet) /\ r \in Seq(OrderSet)
      /\ x \in OrderSet /\ y \in OrderSet /\ z \in OrderSet
      /\ Is(x, u, "handover") /\ Is(y, u, "pre_migrate") /\ Is(z, u, "migrate")
      /\ a \in {q, Append(q, x)} /\ b \in {a, Append(a, y)} /\ r \in {b, Append(b, z)}
  BY DEF PutAfter
<1>4. x.user = u /\ y.user = u /\ z.user = u
  BY <1>3 DEF Is
<1>5. /\ \A m : m \in Msgs(a) <=> m \in Msgs(q) \/ (a # q /\ m = x)
      /\ \A v : v # x.user => SameFor(q, a, v)
      /\ \A w, k : Has(a, w, k) <=> Has(q, w, k) \/ (a # q /\ Is(x, w, k))
      /\ \A w, k : Single(q, w, k) /\ ~(Is(x, w, k) /\ Has(q, w, k)) => Single(a, w, k)
      /\ \A w, k, l : Before(q, w, k, l) /\ ~(Is(x, w, k) /\ (Has(q, w, l) \/ k = l)) =>
           Before(a, w, k, l)
  BY <1>3, MaybeAdded
<1>6. /\ \A m : m \in Msgs(b) <=> m \in Msgs(a) \/ (b # a /\ m = y)
      /\ \A v : v # y.user => SameFor(a, b, v)
      /\ \A w, k : Has(b, w, k) <=> Has(a, w, k) \/ (b # a /\ Is(y, w, k))
      /\ \A w, k : Single(a, w, k) /\ ~(Is(y, w, k) /\ Has(a, w, k)) => Single(b, w, k)
      /\ \A w, k, l : Before(a, w, k, l) /\ ~(Is(y, w, k) /\ (Has(a, w, l) \/ k = l)) =>
           Before(b, w, k, l)
  BY <1>3, MaybeAdded
<1>7. /\ \A m : m \in Msgs(r) <=> m \in Msgs(b) \/ (r # b /\ m = z)
      /\ \A v : v # z.user => SameFor(b, r, v)
      /\ \A w, k : Single(b, w, k) /\ ~(Is(z, w, k) /\ Has(b, w, k)) => Single(r, w, k)
      /\ \A w, k, l : Before(b, w, k, l) /\ ~(Is(z, w, k) /\ (Has(b, w, l) \/ k = l)) =>
           Before(r, w, k, l)
  BY <1>3, MaybeAdded
<1>8. \A k : /\ Is(x, u, k) <=> k = "handover"
             /\ Is(y, u, k) <=> k = "pre_migrate"
             /\ Is(z, u, k) <=> k = "migrate"
  BY <1>3 DEF Is
<1>9. \A v : v # u => SameFor(q, r, v)
  <2> SUFFICES ASSUME NEW v, v # u PROVE SameFor(q, r, v)
    OBVIOUS
  <2>1. SameFor(q, a, v) /\ SameFor(a, b, v) /\ SameFor(b, r, v)
    BY <1>4, <1>5, <1>6, <1>7
  <2> QED  BY <2>1, SameTwice
<1>10. Single(q, u, "deploy") => Single(r, u, "deploy")
  <2>1. ~Is(x, u, "deploy") /\ ~Is(y, u, "deploy") /\ ~Is(z, u, "deploy")
    BY <1>8
  <2> QED  BY <1>5, <1>6, <1>7, <2>1
<1>11. ASSUME NEW k, Single(q, u, k), ~Has(q, u, k) PROVE Single(r, u, k)
  <2>1. Single(a, u, k)
    BY <1>5, <1>11
  <2>2. Has(a, u, k) => Is(x, u, k)
    BY <1>5, <1>11
  <2>3. Single(b, u, k)
    BY <1>6, <1>8, <2>1, <2>2
  <2>4. Has(b, u, k) => Is(x, u, k) \/ Is(y, u, k)
    BY <1>6, <2>2
  <2> QED  BY <1>7, <1>8, <2>3, <2>4
<1>12. ASSUME Before(q, u, "pre_migrate", "migrate"), ~Has(q, u, "migrate")
       PROVE  Before(r, u, "pre_migrate", "migrate")
  <2>1. Before(a, u, "pre_migrate", "migrate")
    BY <1>5, <1>8, <1>12
  <2>2. ~Has(a, u, "migrate")
    BY <1>5, <1>8, <1>12
  <2>3. Before(b, u, "pre_migrate", "migrate")
    BY <1>6, <1>8, <2>1, <2>2
  <2> QED  BY <1>7, <1>8, <2>3
<1>13. \A m : m \in Msgs(r) <=> m \in Msgs(q) \/ (a # q /\ m = x) \/ (b # a /\ m = y) \/ (r # b /\ m = z)
  BY <1>5, <1>6, <1>7
<1> QED  BY <1>9, <1>10, <1>11, <1>12, <1>13

(* What is ordered by PlanThreshold for the plan x.                        *)
HandsOver(x) == /\ x[2].bts # user[x[1]].bts
                /\ mstate[x[1]] \cap {"HANDOVER", "HANDOVERED"} = {}
Moves(x) == StartsMigration(x[1], x[2])
Sends(x) == Moves(x) /\ "MIGRATE" \notin mstate[x[1]]

LEMMA ThresholdPosts ==
  ASSUME Types, NEW x, PlanThreshold(x), NEW u, u = x[1], NEW p, p = x[2], NEW r \in Boxes
  PROVE  /\ u \in Users /\ p \in PlanSet /\ GetService(u) # NoRow /\ user[u].app \in Apps
         /\ \A m : m \in Msgs(inbox'[r]) <=>
              \/ m \in Msgs(inbox[r])
              \/ r = u /\ HandsOver(x) /\ m = Order("handover", u, NoApp, p)
              \/ r = At(u) /\ Moves(x) /\ m = Order("pre_migrate", u, user[u].app, p)
              \/ r = At(u) /\ Sends(x) /\ m = Order("migrate", u, user[u].app, p)
         /\ \A v : v # u => SameFor(inbox[r], inbox'[r], v)
         /\ Single(inbox[r], u, "deploy") => Single(inbox'[r], u, "deploy")
         /\ \A k : Single(inbox[r], u, k) /\ ~Sent(r, u, k) => Single(inbox'[r], u, k)
         /\ Before(inbox[r], u, "pre_migrate", "migrate") /\ ~Sent(r, u, "migrate") =>
              Before(inbox'[r], u, "pre_migrate", "migrate")
<1>1. u \in Users /\ p \in PlanSet /\ GetService(u) # NoRow /\ user[u].app \in Apps
  BY PlannedTypes, RowFacts DEF PlanThreshold
<1>2. PICK c, d, e, w :
        c = HandsOver(x) /\ d = Moves(x) /\ e = Sends(x) /\ w = At(u)
  BY Zenon
<1>3. inbox' = [s \in DOMAIN inbox |-> inbox[s]
      \o (IF s = u /\ c THEN <<Order("handover", u, NoApp, p)>> ELSE <<>>)
      \o (IF s = w /\ d THEN <<Order("pre_migrate", u, user[u].app, p)>> ELSE <<>>)
      \o (IF s = w /\ e THEN <<Order("migrate", u, user[u].app, p)>> ELSE <<>>)]
  BY <1>2, Zenon DEF PlanThreshold, HandsOver, Moves, Sends, At, Source
<1>4. PICK q \in Seq(OrderSet) : q = inbox[r]
  BY DEF Types, Boxes
<1>5. PICK a \in OrderSet : a = Order("handover", u, NoApp, p)
  BY <1>1, OrderTypes
<1>6. PICK b \in OrderSet : b = Order("pre_migrate", u, user[u].app, p)
  BY <1>1, OrderTypes
<1>7. PICK g \in OrderSet : g = Order("migrate", u, user[u].app, p)
  BY <1>1, OrderTypes
<1>8. Is(a, u, "handover") /\ Is(b, u, "pre_migrate") /\ Is(g, u, "migrate")
  BY <1>5, <1>6, <1>7 DEF Is, Order
<1>9. DOMAIN inbox = Boxes
  BY DEF Types, Boxes
<1>10. PICK f : f = IF r = u /\ c THEN Append(q, a) ELSE q
  OBVIOUS
<1>11. PICK h : h = IF r = w /\ d THEN Append(f, b) ELSE f
  OBVIOUS
<1>12. PICK l : l = IF r = w /\ e THEN Append(h, g) ELSE h
  OBVIOUS
<1>13. f \in Seq(OrderSet) /\ h \in Seq(OrderSet) /\ l \in Seq(OrderSet)
  BY <1>10, <1>11, <1>12, AppendProperties
<1>14. /\ f \in {q, Append(q, a)} /\ (f # q <=> r = u /\ c)
       /\ h \in {f, Append(f, b)} /\ (h # f <=> r = w /\ d)
       /\ l \in {h, Append(h, g)} /\ (l # h <=> r = w /\ e)
  BY <1>10, <1>11, <1>12, <1>13, Joined
<1>15. inbox'[r] = l
  <2>1. inbox'[r] = q \o (IF r = u /\ c THEN <<a>> ELSE <<>>)
                      \o (IF r = w /\ d THEN <<b>> ELSE <<>>)
                      \o (IF r = w /\ e THEN <<g>> ELSE <<>>)
    BY <1>3, <1>4, <1>5, <1>6, <1>7, <1>9
  <2>2. f = q \o (IF r = u /\ c THEN <<a>> ELSE <<>>)
    BY <1>10, Joined
  <2>3. h = f \o (IF r = w /\ d THEN <<b>> ELSE <<>>)
    BY <1>11, <1>13, Joined
  <2>4. l = h \o (IF r = w /\ e THEN <<g>> ELSE <<>>)
    BY <1>12, <1>13, Joined
  <2> QED  BY <2>1, <2>2, <2>3, <2>4
<1>16. /\ \A m : m \in Msgs(l) <=>
            m \in Msgs(q) \/ (f # q /\ m = a) \/ (h # f /\ m = b) \/ (l # h /\ m = g)
       /\ \A v : v # u => SameFor(q, l, v)
       /\ Single(q, u, "deploy") => Single(l, u, "deploy")
       /\ \A k : Single(q, u, k) /\ ~Has(q, u, k) => Single(l, u, k)
       /\ Before(q, u, "pre_migrate", "migrate") /\ ~Has(q, u, "migrate") =>
            Before(l, u, "pre_migrate", "migrate")
  <2>1. PutAfter(q, f, h, l, a, b, g, u)
    BY <1>8, <1>13, <1>14 DEF PutAfter
  <2> QED  BY <2>1, ThreeAdded
<1>17. \A m : m \in Msgs(l) <=>
         \/ m \in Msgs(q)
         \/ r = u /\ HandsOver(x) /\ m = Order("handover", u, NoApp, p)
         \/ r = At(u) /\ Moves(x) /\ m = Order("pre_migrate", u, user[u].app, p)
         \/ r = At(u) /\ Sends(x) /\ m = Order("migrate", u, user[u].app, p)
  BY <1>2, <1>5, <1>6, <1>7, <1>14, <1>16
<1> QED  BY <1>1, <1>4, <1>15, <1>16, <1>17 DEF Sent

-----------------------------------------------------------------------------
(* The steps in which the MQTT thread goes on with what it has begun.      *)

Planned(x) == \/ NothingPlanned(x) \/ PlanThreshold(x)
              \/ PlanMove(x) \/ PlanHandover(x) \/ PlanPassedOver(x)
Answers == \/ PreMigratedMark \/ PreMigratedUnknown \/ PreMigratedStays
           \/ PreMigratedSchedule \/ HandoveredWrite

LEMMA PlannedChanges ==
  ASSUME Types, NEW x, Planned(x), NEW u, u = x[1]
  PROVE  /\ u \in Users /\ x[2] \in PlanSet /\ NextPlan(x)
         /\ UNCHANGED <<user, notices, runs, present, discoveries>>
         /\ \A t \in timers' : t \in timers \/ (t.user = u /\ t.app = user[u].app)
         /\ KeepsRow(u)
         /\ mstate' = mstate \/ \E m : mstate' = [mstate EXCEPT ![u] = m]
         /\ inbox' = inbox \/ PlanThreshold(x)
<1>1. u \in Users /\ x[2] \in PlanSet /\ NextPlan(x)
  BY PlannedTypes, Zenon DEF Planned, NothingPlanned, PlanThreshold, PlanMove, PlanHandover,
     PlanPassedOver
<1>2. UNCHANGED <<user, notices, runs, present, discoveries>>
  BY Zenon DEF Planned, NothingPlanned, PlanThreshold, PlanMove, PlanHandover, PlanPassedOver,
     dbVars, worldVars, boundVars
<1>3. \A t \in timers' : t \in timers \/ (t.user = u /\ t.app = user[u].app)
  <2>1. \/ timers' = timers
        \/ \E k, s : timers' = timers \cup {Timer(k, u, user[u].app, s, x[2])}
    BY Zenon DEF Planned, NothingPlanned, PlanThreshold, PlanMove, PlanHandover, PlanPassedOver, Waiting
  <2>2. \A k, s : /\ Timer(k, u, user[u].app, s, x[2]).user = u
                  /\ Timer(k, u, user[u].app, s, x[2]).app = user[u].app
    BY Zenon DEF Timer
  <2> QED  BY <2>1, <2>2, Zenon
<1>4. KeepsRow(u)
  BY Zenon DEF Planned, NothingPlanned, PlanThreshold, PlanMove, PlanHandover, PlanPassedOver,
     dbVars, KeepsRow
<1>5. /\ mstate' = mstate \/ \E m : mstate' = [mstate EXCEPT ![u] = m]
      /\ inbox' = inbox \/ PlanThreshold(x)
  BY Zenon DEF Planned, NothingPlanned, PlanThreshold, PlanMove, PlanHandover, PlanPassedOver, worldVars
<1> QED  BY <1>1, <1>2, <1>3, <1>4, <1>5, Zenon

LEMMA RowsOfOthers ==
  ASSUME Types, NEW u \in Users, KeepsRow(u)
  PROVE  \A v \in Users \ {u} : service'[v] = service[v]
<1>1. service \in [Users -> [Apps -> ServiceRows]]
  BY DEF Types
<1> QED  BY <1>1 DEF KeepsRow, SetState, UpdateService

LEMMA AboutPlanned ==
  ASSUME Types, NEW x, Planned(x)
  PROVE  About(x[1])
<1>1. PICK u \in Users : u = x[1]
  BY PlannedChanges
<1>2. /\ UNCHANGED <<user, notices, runs, present, discoveries>>
      /\ \A t \in timers' : t \in timers \/ t.user = u
      /\ KeepsRow(u)
      /\ mstate' = mstate \/ \E m : mstate' = [mstate EXCEPT ![u] = m]
      /\ inbox' = inbox \/ PlanThreshold(x)
  BY <1>1, PlannedChanges
<1>3. \A v \in Users \ {u} : service'[v] = service[v] /\ mstate'[v] = mstate[v]
  BY <1>2, RowsOfOthers DEF Types
<1>4. \A v : v # u => \A r \in Boxes : SameFor(inbox[r], inbox'[r], v)
  BY <1>1, <1>2, ThresholdPosts, SameQueue
<1> QED  BY <1>1, <1>2, <1>3, <1>4, SameQueue DEF About

LEMMA AnswerChanges ==
  ASSUME Types, Answers, NEW u, u = mqtt.user
  PROVE  /\ u \in Users /\ mqtt.at \in {"pre_migrated", "estimating", "handovered"}
         /\ UNCHANGED <<user, notices, inbox, runs, present, discoveries>>
         /\ \A t \in timers' : t \in timers \/ (t.user = u /\ t.app = user[u].app)
         /\ KeepsRow(u)
         /\ mstate' = mstate \/ \E m : mstate' = [mstate EXCEPT ![u] = m]
         /\ mqtt' = Idle \/ (PreMigratedMark /\ mqtt'.at = "estimating" /\ mqtt'.user = u)
<1>1. /\ mqtt.at \in {"pre_migrated", "estimating", "handovered"}
      /\ UNCHANGED <<user, notices, inbox, runs, present, discoveries>>
  BY DEF Answers, PreMigratedMark, PreMigratedUnknown, PreMigratedStays, PreMigratedSchedule,
     HandoveredWrite, dbVars, worldVars, boundVars
<1>2. u \in Users
  BY <1>1, WorkTypes
<1>3. \A t \in timers' : t \in timers \/ (t.user = u /\ t.app = user[u].app)
  <2>1. CASE PreMigratedSchedule
    <3>1. \A k, s, p : /\ Timer(k, u, user[u].app, s, p).user = u
                       /\ Timer(k, u, user[u].app, s, p).app = user[u].app
      BY DEF Timer
    <3> QED  BY <2>1, <3>1 DEF PreMigratedSchedule
  <2>2. CASE ~PreMigratedSchedule
    BY <2>2 DEF Answers, PreMigratedMark, PreMigratedUnknown, PreMigratedStays, HandoveredWrite
  <2> QED  BY <2>1, <2>2
<1>4. KeepsRow(u)
  <2>1. CASE PreMigratedStays
    BY <2>1 DEF PreMigratedStays, Types, KeepsRow
  <2>2. CASE ~PreMigratedStays
    BY <2>2 DEF Answers, PreMigratedMark, PreMigratedUnknown, PreMigratedSchedule,
       HandoveredWrite, dbVars, KeepsRow
  <2> QED  BY <2>1, <2>2
<1>5. mstate' = mstate \/ \E m : mstate' = [mstate EXCEPT ![u] = m]
  BY DEF Answers, PreMigratedMark, PreMigratedUnknown, PreMigratedStays, PreMigratedSchedule,
     HandoveredWrite
<1>6. mqtt' = Idle \/ (PreMigratedMark /\ mqtt'.at = "estimating" /\ mqtt'.user = u)
  BY WorkTypes DEF Answers, PreMigratedMark, PreMigratedUnknown, PreMigratedStays,
     PreMigratedSchedule, HandoveredWrite
<1> QED  BY <1>1, <1>2, <1>3, <1>4, <1>5, <1>6

LEMMA AboutAnswers ==
  ASSUME Types, Answers
  PROVE  About(mqtt.user)
<1>1. PICK u \in Users : u = mqtt.user
  BY AnswerChanges
<1>2. /\ UNCHANGED <<user, notices, inbox, runs, present, discoveries>>
      /\ \A t \in timers' : t \in timers \/ t.user = u
      /\ KeepsRow(u)
      /\ mstate' = mstate \/ \E m : mstate' = [mstate EXCEPT ![u] = m]
  BY <1>1, AnswerChanges
<1>3. \A v \in Users \ {u} : service'[v] = service[v] /\ mstate'[v] = mstate[v]
  BY <1>2, RowsOfOthers DEF Types
<1> QED  BY <1>1, <1>2, <1>3, SameQueue DEF About

LEMMA OncePlanned ==
  ASSUME Types, OnceInv, NEW x, Planned(x)
  PROVE  OnceInv'
<1>1. PICK u \in Users : u = x[1]
  BY PlannedChanges
<1>2. /\ x[2] \in PlanSet /\ NextPlan(x)
      /\ UNCHANGED <<user, notices, runs, present, discoveries>>
      /\ \A t \in timers' : t \in timers \/ (t.user = u /\ t.app = user[u].app)
      /\ KeepsRow(u)
      /\ inbox' = inbox \/ PlanThreshold(x)
  BY <1>1, PlannedChanges
<1>3. /\ mqtt' \in WorkSet /\ mqtt'.at \in {"idle", "dead", "planning"}
      /\ mqtt'.at = "planning" => mqtt'.todo \subseteq mqtt.todo
      /\ GetService(u) # NoRow => mqtt' # Dead
      /\ mqtt.at = "planning" /\ x \in mqtt.todo
  BY <1>1, <1>2, PlannedTypes
<1>4. OnceOf(u) /\ user[u] # NoUser /\ About(u)
  BY <1>1, <1>3, AboutPlanned DEF OnceInv, WorkInv
<1>5. GetService(u) # NoRow /\ discoveries[u] # 0
  BY <1>4 DEF OnceOf, Mine, Unheard
<1>6. /\ \A r \in Boxes : \A m \in Msgs(inbox'[r]) : m.user = u =>
           \/ m \in Msgs(inbox[r])
           \/ /\ m.kind \in {"pre_migrate", "migrate", "handover"}
              /\ m.app \in {NoApp, user[u].app}
              /\ m.kind = "handover" => r = u
      /\ \A r \in Boxes : Single(inbox[r], u, "deploy") => Single(inbox'[r], u, "deploy")
  <2>1. CASE inbox' = inbox
    BY <2>1
  <2>2. CASE PlanThreshold(x)
    <3>1. PICK p : p = x[2]
      OBVIOUS
    <3>2. ASSUME NEW r \in Boxes
          PROVE  /\ \A m : m \in Msgs(inbox'[r]) <=>
                      \/ m \in Msgs(inbox[r])
                      \/ r = u /\ HandsOver(x) /\ m = Order("handover", u, NoApp, p)
                      \/ r = At(u) /\ Moves(x) /\ m = Order("pre_migrate", u, user[u].app, p)
                      \/ r = At(u) /\ Sends(x) /\ m = Order("migrate", u, user[u].app, p)
                 /\ Single(inbox[r], u, "deploy") => Single(inbox'[r], u, "deploy")
      BY <1>1, <2>2, <3>1, ThresholdPosts
    <3>3. \A k, a, q : Order(k, u, a, q).kind = k /\ Order(k, u, a, q).app = a
      BY DEF Order
    <3> QED  BY <3>2, <3>3
  <2> QED  BY <1>2, <2>1, <2>2
<1>7. /\ GetService(u)' # NoRow
      /\ \A a \in Apps : service[u][a] = NoRow => service'[u][a] = NoRow
  BY <1>2, <1>5, RowKept
<1>8. Ordinary(u)
  BY <1>2, <1>5, <1>6, <1>7 DEF Ordinary
<1>9. WorkInv'
  BY <1>2, <1>3, <1>5 DEF OnceInv, WorkInv, Alive
<1> QED  BY <1>4, <1>8, <1>9, OnceFrom, OnceOrdinary

LEMMA OnceAnswers ==
  ASSUME Types, OnceInv, Answers
  PROVE  OnceInv'
<1>1. PICK u \in Users : u = mqtt.user
  BY AnswerChanges
<1>2. /\ mqtt.at \in {"pre_migrated", "estimating", "handovered"}
      /\ UNCHANGED <<user, notices, inbox, runs, present, discoveries>>
      /\ \A t \in timers' : t \in timers \/ (t.user = u /\ t.app = user[u].app)
      /\ KeepsRow(u)
      /\ mqtt' = Idle \/ (PreMigratedMark /\ mqtt'.at = "estimating" /\ mqtt'.user = u)
  BY <1>1, AnswerChanges
<1>3. OnceOf(u) /\ user[u] # NoUser /\ About(u)
  BY <1>1, <1>2, AboutAnswers DEF OnceInv, WorkInv
<1>4. discoveries[u] # 0
  BY <1>3 DEF OnceOf, Unheard
<1>5. /\ GetService(u) # NoRow => GetService(u)' # NoRow
      /\ \A a \in Apps : service[u][a] = NoRow => service'[u][a] = NoRow
  BY <1>2, RowKept
<1>6. Ordinary(u)
  BY <1>2, <1>4, <1>5 DEF Ordinary
<1>7. WorkInv'
  BY <1>2, <1>3, WorkTypes DEF WorkInv, Alive
<1> QED  BY <1>3, <1>6, <1>7, OnceFrom, OnceOrdinary

-----------------------------------------------------------------------------
(* The one discovery of a user finds nothing of an earlier one.            *)

Discovers(u, a, b, s) ==
  /\ Unheard(u) /\ u \in Users /\ a \in Apps /\ b \in Stations /\ s \in Servers
  /\ user' = [user EXCEPT ![u] = [bts |-> b, app |-> a]]
  /\ service' = [service EXCEPT ![u][a] = [server |-> s, state |-> "init"]]
  /\ mstate' = [mstate EXCEPT ![u] = INIT]
  /\ inbox' = [inbox EXCEPT ![s] = Append(@, Order("deploy", u, a, NoPlan))]
  /\ present' = present \cup {u}
  /\ discoveries' = [discoveries EXCEPT ![u] = @ + 1]
  /\ UNCHANGED <<planVars, mqtt, timers, runs, notices, plans>>

LEMMA DiscoverOnce ==
  ASSUME Types, Once, \A u \in Users : OnceOf(u), Discover
  PROVE  \E u, a, b, s : Discovers(u, a, b, s)
<1>1. PICK u \in setup.users, a \in setup.apps :
        \/ DiscoverWait(u, a)
        \/ DiscoverAgain(u, a)
        \/ \E b \in setup.stations, s \in Servers : DiscoverNew(u, a, b, s)
  BY DEF Discover
<1>2. u \in Users /\ a \in Apps /\ setup.stations \subseteq Stations
  BY DEF Types, SetupSet
<1>3. MayDiscover(u)
  BY <1>1 DEF DiscoverWait, DiscoverAgain, DiscoverNew
<1>4. Unheard(u)
  <2>1. discoveries[u] \in 0 .. setup.discoveries /\ discoveries[u] < setup.discoveries
    BY <1>2, <1>3 DEF Types, MayDiscover
  <2>2. discoveries[u] = 0
    BY <2>1 DEF Once
  <2> QED  BY <1>2, <2>2 DEF OnceOf
<1>5. GetService(u) = NoRow /\ ~Known(u, a)
  BY <1>4 DEF Unheard, GetService, NoUser, Known
<1>6. PICK b \in Stations, s \in Servers : DiscoverNew(u, a, b, s)
  BY <1>1, <1>2, <1>5 DEF DiscoverWait, DiscoverAgain
<1>7. Destroyed(u) = service /\ service[u][a] = NoRow
  BY <1>2, <1>4, <1>5 DEF Destroyed, Unheard
<1>8. /\ user' = [user EXCEPT ![u] = [bts |-> b, app |-> a]]
      /\ service' = [service EXCEPT ![u][a] = [server |-> s, state |-> "init"]]
      /\ mstate' = [mstate EXCEPT ![u] = INIT]
      /\ inbox' = [r \in DOMAIN inbox |->
           inbox[r]
           \o (IF r = GetService(u).server THEN <<DestroyOrder(u)>> ELSE <<>>)
           \o (IF r = s THEN <<Order("deploy", u, a, NoPlan)>> ELSE <<>>)]
      /\ UNCHANGED <<planVars, mqtt, timers, runs, notices, plans>>
  BY <1>6, <1>7 DEF DiscoverNew
<1>9. inbox' = [inbox EXCEPT ![s] = Append(@, Order("deploy", u, a, NoPlan))]
  <2>1. PICK o \in OrderSet : o = Order("deploy", u, a, NoPlan)
    BY <1>2, OrderTypes
  <2>2. inbox \in [Boxes -> Seq(OrderSet)]
    BY DEF Types, Boxes
  <2>3. ASSUME NEW r \in Boxes
        PROVE  inbox'[r] = IF r = s THEN Append(inbox[r], o) ELSE inbox[r]
    <3>1. GetService(u).server \notin Boxes
      BY <1>5, CentralAssumption DEF NoRow, Boxes
    <3>2. PICK q \in Seq(OrderSet) : q = inbox[r]
      BY <2>2
    <3>3. inbox'[r] = (q \o <<>>) \o (IF r = s THEN <<o>> ELSE <<>>)
      BY <1>8, <2>1, <2>2, <3>1, <3>2
    <3>4. q \o <<>> = q /\ q \o <<o>> = Append(q, o)
      BY Joined
    <3> QED  BY <3>2, <3>3, <3>4
  <2> QED  BY <1>8, <2>1, <2>2, <2>3
<1> QED  BY <1>2, <1>3, <1>4, <1>6, <1>8, <1>9 DEF Discovers, MayDiscover

LEMMA AboutDiscovers ==
  ASSUME Types, NEW u, NEW a, NEW b, NEW s, Discovers(u, a, b, s),
         NEW o, o = Order("deploy", u, a, NoPlan)
  PROVE  /\ About(u) /\ u \in Users /\ a \in Apps /\ s \in Boxes
         /\ o \in OrderSet /\ Is(o, u, "deploy") /\ o.app = a
         /\ user'[u] = [bts |-> b, app |-> a] /\ user'[u] # NoUser
         /\ GetService(u)' = [server |-> s, state |-> "init"] /\ GetService(u)' # NoRow
         /\ \A x \in Apps \ {a} : service'[u][x] = NoRow
         /\ \A r \in Boxes : \A m \in Msgs(inbox'[r]) : m.user = u => r = s /\ m = o
         /\ \A r \in Boxes : \A k : Sent(r, u, k)' <=> r = s /\ k = "deploy"
         /\ \A r \in Boxes : \A k : Single(inbox'[r], u, k)
         /\ \A k : ~Told(u, k)' /\ ~Told(u, k)
         /\ UNCHANGED <<notices, timers, runs, mqtt>>
<1>1. /\ Unheard(u) /\ u \in Users /\ a \in Apps /\ b \in Stations /\ s \in Servers
      /\ user' = [user EXCEPT ![u] = [bts |-> b, app |-> a]]
      /\ service' = [service EXCEPT ![u][a] = [server |-> s, state |-> "init"]]
      /\ mstate' = [mstate EXCEPT ![u] = INIT]
      /\ inbox' = [inbox EXCEPT ![s] = Append(@, o)]
      /\ present' = present \cup {u}
      /\ discoveries' = [discoveries EXCEPT ![u] = @ + 1]
      /\ UNCHANGED <<timers, runs, notices, mqtt>>
  BY DEF Discovers
<1>2. o \in OrderSet /\ Is(o, u, "deploy") /\ o.app = a /\ s \in Boxes
  BY <1>1, OrderTypes DEF Is, Order, Boxes
<1>t. /\ user \in [Users -> UserRows] /\ service \in [Users -> [Apps -> ServiceRows]]
      /\ mstate \in [Users -> {Unknown} \cup SUBSET Bits]
      /\ discoveries \in [Users -> 0 .. setup.discoveries]
  BY DEF Types
<1>3. /\ \A v : v # u => \A r \in Boxes : SameFor(inbox[r], inbox'[r], v)
      /\ \A r \in Boxes : r # s => inbox'[r] = inbox[r]
      /\ Msgs(inbox'[s]) = Msgs(inbox[s]) \cup {o}
      /\ \A v, k : Single(inbox[s], v, k) /\ ~(Is(o, v, k) /\ Sent(s, v, k)) =>
           Single(inbox'[s], v, k)
  BY <1>1, <1>2, Posted DEF Is
<1>4. \A r \in Boxes : \A k : ~Sent(r, u, k) /\ Single(inbox[r], u, k)
  BY <1>1 DEF Unheard, Sent, Has, Is, Single, Msgs
<1>5. \A r \in Boxes : \A m \in Msgs(inbox'[r]) : m.user = u => r = s /\ m = o
  BY <1>1, <1>3 DEF Unheard
<1>6. \A r \in Boxes : \A k : Sent(r, u, k)' <=> r = s /\ k = "deploy"
  BY <1>2, <1>3, <1>5 DEF Sent, Has, Is
<1>7. \A r \in Boxes : \A k : Single(inbox'[r], u, k)
  BY <1>3, <1>4
<1>8. \A k : ~Told(u, k)' /\ ~Told(u, k)
  BY <1>1 DEF Unheard, Told, Has, Is
<1>9. user'[u] = [bts |-> b, app |-> a] /\ user'[u] # NoUser
  BY <1>1, <1>t, CentralAssumption DEF NoUser
<1>10. /\ GetService(u)' = [server |-> s, state |-> "init"] /\ GetService(u)' # NoRow
       /\ \A x \in Apps \ {a} : service'[u][x] = NoRow
  <2>1. service'[u][a] = [server |-> s, state |-> "init"]
        /\ \A x \in Apps \ {a} : service'[u][x] = service[u][x]
    BY <1>1, <1>t
  <2>2. [server |-> s, state |-> "init"] # NoRow
    BY <1>1, CentralAssumption DEF NoRow
  <2>3. GetService(u)' = service'[u][a]
    BY <1>1, <1>9, CentralAssumption DEF GetService
  <2> QED  BY <1>1, <2>1, <2>2, <2>3 DEF Unheard
<1>11. About(u)
  <2>1. \A v \in Users \ {u} :
          /\ user'[v] = user[v] /\ service'[v] = service[v] /\ mstate'[v] = mstate[v]
          /\ discoveries'[v] = discoveries[v] /\ (v \in present' <=> v \in present)
    BY <1>1, <1>t
  <2> QED  BY <1>1, <1>3, <2>1, SameQueue DEF About
<1> QED  BY <1>1, <1>2, <1>5, <1>6, <1>7, <1>8, <1>9, <1>10, <1>11

LEMMA Deployed ==
  ASSUME Types, NEW u, NEW a, NEW b, NEW s, Discovers(u, a, b, s)
  PROVE  /\ About(u) /\ u \in Users /\ s \in Servers /\ s \in Boxes /\ user'[u].app = a
         /\ State(u)' = "init" /\ At(u)' = s
         /\ \A r \in Boxes : \A k : Sent(r, u, k)' <=> r = s /\ k = "deploy"
         /\ \A r \in Boxes : \A k : Single(inbox'[r], u, k)
         /\ \A k : ~Told(u, k)' /\ ~Told(u, k)
         /\ mstate' = [mstate EXCEPT ![u] = INIT] /\ Unheard(u)
         /\ UNCHANGED <<timers, mqtt, runs, migPlan, notices>>
<1>1. PICK o : o = Order("deploy", u, a, NoPlan)
  OBVIOUS
<1>2. /\ About(u) /\ u \in Users /\ s \in Boxes /\ user'[u] = [bts |-> b, app |-> a]
      /\ GetService(u)' = [server |-> s, state |-> "init"]
      /\ \A r \in Boxes : \A k : Sent(r, u, k)' <=> r = s /\ k = "deploy"
      /\ \A r \in Boxes : \A k : Single(inbox'[r], u, k)
      /\ \A k : ~Told(u, k)' /\ ~Told(u, k)
  BY <1>1, AboutDiscovers
<1> QED  BY <1>2 DEF Discovers, State, At, planVars

LEMMA OnceDiscover ==
  ASSUME Types, Once, OnceInv, Discover
  PROVE  OnceInv'
<1>1. PICK u, a, b, s : Discovers(u, a, b, s)
  BY DiscoverOnce DEF OnceInv
<1>2. PICK o : o = Order("deploy", u, a, NoPlan)
  OBVIOUS
<1>3. /\ About(u) /\ u \in Users /\ a \in Apps /\ s \in Boxes
      /\ o \in OrderSet /\ Is(o, u, "deploy") /\ o.app = a
      /\ user'[u] = [bts |-> b, app |-> a] /\ user'[u] # NoUser
      /\ GetService(u)' # NoRow
      /\ \A x \in Apps \ {a} : service'[u][x] = NoRow
      /\ \A r \in Boxes : \A m \in Msgs(inbox'[r]) : m.user = u => r = s /\ m = o
      /\ \A r \in Boxes : \A k : Sent(r, u, k)' <=> r = s /\ k = "deploy"
      /\ \A r \in Boxes : \A k : Single(inbox'[r], u, k)
      /\ \A k : ~Told(u, k)' /\ ~Told(u, k)
      /\ UNCHANGED <<notices, timers, runs, mqtt>>
  BY <1>1, <1>2, AboutDiscovers
<1>4. Unheard(u) /\ discoveries'[u] # 0
  <2>1. Unheard(u) /\ discoveries' = [discoveries EXCEPT ![u] = @ + 1]
    BY <1>1 DEF Discovers
  <2>2. discoveries \in [Users -> 0 .. setup.discoveries] /\ setup.discoveries \in Nat
    BY DEF Types, SetupSet
  <2>3. discoveries'[u] = discoveries[u] + 1 /\ discoveries[u] \in Nat
    BY <1>3, <2>1, <2>2
  <2> QED  BY <2>1, <2>3
<1>5. user'[u].app = a
  BY <1>3
<1>6. Mine(u)'
  <2>1. \A m \in Msgs(notices') : m.user # u
    BY <1>3, <1>4 DEF Unheard
  <2>2. \A t \in timers' : t.user # u
    BY <1>3, <1>4 DEF Unheard
  <2>3. o.kind # "destroy"
    BY <1>3 DEF Is
  <2> QED  BY <1>3, <1>5, <2>1, <2>2, <2>3 DEF Mine
<1>7. Single(notices', u, "allocated") /\ Single(notices', u, "leave")
      /\ Before(notices', u, "handovered", "leave")
  BY <1>3, <1>4 DEF Unheard, Single, Before, Is, Msgs
<1>8. DeployedOnce(u)'
  BY <1>3, <1>7 DEF DeployedOnce
<1>9. LeavesLast(u)'
  <2>1. \A m \in Msgs(notices') : m.user # u
    BY <1>3, <1>4 DEF Unheard
  <2> QED  BY <1>3, <1>7, <2>1 DEF LeavesLast
<1>10. OnceOf(u)'
  BY <1>3, <1>4, <1>6, <1>8, <1>9 DEF OnceOf
<1>11. WorkInv'
  <2>1. \A v \in Users : user[v] # NoUser => user'[v] # NoUser
    BY <1>3 DEF About
  <2>2. mqtt.at = "planning" => \A x \in mqtt.todo : x[1] \in Users
    BY WorkTypes
  <2>3. mqtt.at \in {"pre_migrated", "estimating", "handovered"} => mqtt.user \in Users
    BY WorkTypes
  <2> QED  BY <1>3, <2>1, <2>2, <2>3 DEF OnceInv, WorkInv, Alive
<1> QED  BY <1>3, <1>10, <1>11, OnceFrom

(* A planner begins with the users that have a row.                        *)
LEMMA PlanningChanges ==
  ASSUME Types, Planning
  PROVE  /\ UNCHANGED <<setup, user, service, mstate, planVars, timers, inbox, runs, present,
                        notices, discoveries>>
         /\ mqtt'.at = "planning" /\ mqtt = Idle
         /\ \A x \in mqtt'.todo : x[1] \in Users /\ user[x[1]] # NoUser
<1>1. PICK u \in Users : ComputePlan(u) /\ setup' = setup
  BY DEF Planning
<1>2. PICK S \in (SUBSET {v \in Users : user[v] # NoUser}) \ {{}} :
        \E P \in PlansOf(S) :
          mqtt' = [at |-> "planning", n |-> plans + 1,
                   todo |-> {<<v, Plan(P[v][1], P[v][2], plans + 1)>> : v \in S}]
  BY <1>1 DEF ComputePlan
<1>3. PICK P :
        mqtt' = [at |-> "planning", n |-> plans + 1,
                 todo |-> {<<v, Plan(P[v][1], P[v][2], plans + 1)>> : v \in S}]
  BY <1>2
<1>4. mqtt'.at = "planning" /\ \A x \in mqtt'.todo : x[1] \in Users /\ user[x[1]] # NoUser
  BY <1>2, <1>3
<1> QED  BY <1>1, <1>4 DEF ComputePlan, Reports, MqttIdle, dbVars, worldVars, boundVars

LEMMA OncePlanning ==
  ASSUME Types, OnceInv, Planning
  PROVE  OnceInv'
<1>1. /\ UNCHANGED <<setup, user, service, mstate, planVars, timers, inbox, runs, present,
                     notices, discoveries>>
      /\ mqtt'.at = "planning"
      /\ \A x \in mqtt'.todo : x[1] \in Users /\ user[x[1]] # NoUser
  BY PlanningChanges
<1>2. \A u \in Users : OnceOf(u)'
  <2> SUFFICES ASSUME NEW u \in Users PROVE OnceOf(u)'
    OBVIOUS
  <2>2. OnceOf(u) /\ GetService(u)' = GetService(u)
    BY <1>1 DEF OnceInv, GetService
  <2>3. Mine(u)' <=> Mine(u)
    BY <1>1, <2>2 DEF Mine
  <2>4. DeployedOnce(u)' <=> DeployedOnce(u)
    BY <1>1 DEF DeployedOnce, Deploying, Sent, Told
  <2>5. LeavesLast(u)' <=> LeavesLast(u)
    BY <1>1 DEF LeavesLast, Told
  <2>6. Unheard(u)' <=> Unheard(u)
    BY <1>1 DEF Unheard
  <2>7. \A r : Sent(r, u, "handover")' <=> Sent(r, u, "handover")
    BY <1>1 DEF Sent
  <2> QED  BY <1>1, <2>2, <2>3, <2>4, <2>5, <2>6, <2>7 DEF OnceOf
<1>3. WorkInv'
  BY <1>1, WorkTypes DEF WorkInv, Alive
<1> QED  BY <1>2, <1>3 DEF OnceInv

-----------------------------------------------------------------------------
(* Nothing ends the controller.                                            *)

LEMMA Nobody ==
  ASSUME Init
  PROVE  /\ \A u \in Users : user[u] = NoUser /\ Unheard(u)
         /\ mqtt = Idle /\ timers = {} /\ notices = <<>> /\ runs = {} /\ present = {}
         /\ migPlan = [u \in Users |-> NoPlan]
         /\ \A r \in Boxes : inbox[r] = <<>>
<1>1. /\ \A u \in Users : user[u] = NoUser /\ mstate[u] = Unknown
      /\ \A u \in Users, a \in Apps : service[u][a] = NoRow
      /\ mqtt = Idle /\ timers = {} /\ notices = <<>> /\ runs = {} /\ present = {}
      /\ migPlan = [u \in Users |-> NoPlan]
      /\ \A r \in Boxes : inbox[r] = <<>>
  BY DEF Init, Boxes
<1>2. Msgs(<<>>) = {}
  BY DEF Msgs
<1> QED  BY <1>1, <1>2 DEF Unheard

LEMMA OnceInit ==
  ASSUME Init
  PROVE  OnceInv
<1>1. /\ \A u \in Users : user[u] = NoUser /\ Unheard(u)
      /\ mqtt = Idle /\ notices = <<>> /\ present = {}
      /\ \A r \in Boxes : inbox[r] = <<>>
  BY Nobody
<1>2. \A u, k, l : /\ ~Has(<<>>, u, k) /\ Single(<<>>, u, k) /\ Before(<<>>, u, k, l)
                   /\ Msgs(<<>>) = {}
  BY DEF Has, Msgs, Single, Before
<1>3. WorkInv
  BY <1>1 DEF WorkInv, Alive, Idle, Dead
<1>4. ASSUME NEW u \in Users PROVE OnceOf(u)
  <2>1. \A k : (\A r \in Boxes : ~Sent(r, u, k)) /\ ~Told(u, k)
    BY <1>1, <1>2 DEF Sent, Told
  <2>2. DeployedOnce(u)
    BY <1>1, <1>2, <2>1 DEF DeployedOnce, Deploying
  <2>3. LeavesLast(u)
    BY <1>1, <1>2, <2>1 DEF LeavesLast
  <2> QED  BY <1>1, <2>1, <2>2, <2>3 DEF OnceOf
<1> QED  BY <1>3, <1>4 DEF OnceInv

LEMMA OnceOutside ==
  ASSUME Types, OnceInv, Outside
  PROVE  OnceInv'
<1>1. UNCHANGED <<setup, dbVars, mstate, planVars, mqtt, timers, boundVars>>
  BY DEF Outside
<1>2. ASSUME NEW s \in Servers,
             EdgeDeploys(s) \/ EdgeDestroys(s) \/ EdgePreMigrates(s) \/ EdgeMigrates(s)
      PROVE  OnceInv'
  BY <1>1, <1>2, OnceEdges
<1>3. ASSUME NEW u \in Users, UserHandsOver(u) \/ UserLeaves(u)
      PROVE  OnceInv'
  BY <1>1, <1>3, OnceUsers
<1> QED  BY <1>2, <1>3 DEF Outside

LEMMA OnceStutters ==
  ASSUME OnceInv, UNCHANGED vars
  PROVE  OnceInv'
<1>1. UNCHANGED <<user, service, mstate, mqtt, timers, inbox, runs, present, notices,
                  discoveries>>
  BY DEF vars, dbVars, worldVars, boundVars
<1>2. ASSUME NEW u \in Users PROVE OnceOf(u)'
  <2>1. GetService(u)' = GetService(u)
    BY <1>1 DEF GetService
  <2>2. Mine(u)' <=> Mine(u)
    BY <1>1, <2>1 DEF Mine
  <2>3. DeployedOnce(u)' <=> DeployedOnce(u)
    BY <1>1 DEF DeployedOnce, Deploying, Sent, Told
  <2>4. LeavesLast(u)' <=> LeavesLast(u)
    BY <1>1 DEF LeavesLast, Told
  <2>5. Unheard(u)' <=> Unheard(u)
    BY <1>1 DEF Unheard
  <2>6. \A r : Sent(r, u, "handover")' <=> Sent(r, u, "handover")
    BY <1>1 DEF Sent
  <2> QED  BY <1>1, <2>2, <2>3, <2>4, <2>5, <2>6 DEF OnceInv, OnceOf
<1>3. WorkInv'
  BY <1>1 DEF OnceInv, WorkInv, Alive
<1> QED  BY <1>2, <1>3 DEF OnceInv

LEMMA OnceStep ==
  ASSUME Types, Once, OnceInv, [Next]_vars
  PROVE  OnceInv'
<1>1. CASE HandleNotice
  BY <1>1, OnceNotice DEF HandleNotice, Notices
<1>2. CASE Continue
  <2>1. (\E x : Planned(x)) \/ Answers
    BY <1>2 DEF Continue, Planned, Answers
  <2> QED  BY <2>1, OncePlanned, OnceAnswers
<1>3. CASE RunTimers
  BY <1>3, OnceTimers
<1>4. CASE Outside
  BY <1>4, OnceOutside
<1>5. CASE Discover
  BY <1>5, OnceDiscover
<1>6. CASE Planning
  BY <1>6, OncePlanning
<1>7. CASE UNCHANGED vars
  BY <1>7, OnceStutters
<1> QED  BY <1>1, <1>2, <1>3, <1>4, <1>5, <1>6, <1>7 DEF Next

(* No step changes how the controller is set up.                           *)
LEMMA SetupStays == [Next]_vars => setup' = setup
BY DEF Next, HandleNotice, Continue, RunTimers, Outside, Discover, Planning, vars

LEMMA OnceAlways == Spec => [](Types /\ (Once => OnceInv))
<1>1. Init => Types /\ (Once => OnceInv)
  BY TypeInit, OnceInit
<1>2. Types /\ (Once => OnceInv) /\ [Next]_vars => (Types /\ (Once => OnceInv))'
  BY TypeStep, OnceStep, SetupStays DEF Once
<1> QED  BY <1>1, <1>2, PTL DEF Spec

(* While every user looks for its service once, no handler raises and the  *)
(* MQTT thread goes on: in whatever order the notices of different senders *)
(* arrive, whoever leaves when, whichever planner is used and however the  *)
(* timer threads cut in, process_allocated and process_migrated find their *)
(* row, process_eu_notification of a handover its user, and a plan its     *)
(* service.                                                                *)
THEOREM ControllerLives == Spec => [](Once => Alive)
<1>1. Types /\ (Once => OnceInv) => (Once => Alive)
  BY DEF OnceInv, WorkInv
<1> QED  BY <1>1, OnceAlways, PTL

-----------------------------------------------------------------------------
(* The pace of migrations under a threshold planner.                       *)

Stays == UNCHANGED <<setup, dbVars, mstate, planVars, mqtt, timers, boundVars>>
Edge(s) == EdgeDeploys(s) \/ EdgeDestroys(s) \/ EdgePreMigrates(s) \/ EdgeMigrates(s)

(* What an edge server does with the order o, and tells with n.            *)
EdgeTells(s, o, n) ==
  /\ n.user = o.user /\ n.app = o.app /\ notices' = Append(notices, n)
  /\ \/ /\ o.kind = "deploy" /\ n.kind = "allocated" /\ n.from = s
        /\ runs' = runs \cup {<<o.user, o.app, s>>}
     \/ o.kind = "pre_migrate" /\ n.kind = "pre_migrated" /\ runs' = runs
     \/ /\ o.kind = "migrate" /\ n.kind = "migrated"
        /\ <<o.user, o.app, s>> \in runs /\ n.from # s
        /\ runs' = (runs \ {<<o.user, o.app, s>>}) \cup {<<o.user, o.app, n.from>>}

LEMMA EdgeDoes ==
  ASSUME Types, NEW s \in Servers, Edge(s), NEW o, o = Head(inbox[s])
  PROVE  /\ s \in Boxes /\ inbox[s] # <<>> /\ inbox' = [inbox EXCEPT ![s] = Tail(@)]
         /\ present' = present
         /\ o \in OrderSet /\ o.user \in Users
         /\ o.kind \in {"deploy", "destroy", "pre_migrate", "migrate"}
         /\ \/ /\ notices' = notices /\ (o.kind = "deploy" => setup.failing)
               /\ runs' = runs \/ o.kind = "destroy"
               /\ o.kind = "migrate" =>
                    o.plan.server = s \/ <<o.user, o.app, s>> \notin runs
            \/ \E n \in MessageSet : EdgeTells(s, o, n)
<1>1. /\ s \in Boxes /\ inbox[s] # <<>> /\ inbox' = [inbox EXCEPT ![s] = Tail(@)]
      /\ present' = present
  BY DEF Boxes, Edge, EdgeDeploys, EdgeDestroys, EdgePreMigrates, EdgeMigrates, Take
<1>2. o \in OrderSet /\ o.user \in Users
  BY <1>1, BoxTypes, OrderKinds
<1>3. CASE EdgeDeploys(s)
  <2>1. o.kind = "deploy" /\ Notice("allocated", o.user, o.app, s, NoPlan) \in MessageSet
    BY <1>2, <1>3, OrderKinds, MessageTypes DEF EdgeDeploys, Take
  <2> QED  BY <1>1, <1>2, <1>3, <2>1 DEF EdgeDeploys, Tell, Notice, EdgeTells
<1>4. CASE EdgeDestroys(s)
  BY <1>1, <1>2, <1>4 DEF EdgeDestroys, Take
<1>5. CASE EdgePreMigrates(s)
  <2>1. o.kind = "pre_migrate" /\ Notice("pre_migrated", o.user, o.app, s, o.plan) \in MessageSet
    BY <1>2, <1>5, OrderKinds, MessageTypes DEF EdgePreMigrates, Take
  <2> QED  BY <1>1, <1>2, <1>5, <2>1 DEF EdgePreMigrates, Tell, Notice, EdgeTells
<1>6. CASE EdgeMigrates(s)
  <2>1. /\ o.kind = "migrate"
        /\ Notice("migrated", o.user, o.app, o.plan.server, o.plan) \in MessageSet
    BY <1>2, <1>6, OrderKinds, PlanFacts, MessageTypes DEF EdgeMigrates, Take
  <2> QED  BY <1>1, <1>2, <1>6, <2>1 DEF EdgeMigrates, Tell, Notice, EdgeTells
<1> QED  BY <1>3, <1>4, <1>5, <1>6 DEF Edge

(* It is enough to look at the user a step is about.                       *)
LEMMA PaceFrom ==
  ASSUME PaceInv, NEW w \in Users, About(w), user'[w] # NoUser => PaceOf(w)',
         timers' = {}, migPlan' = [u \in Users |-> NoPlan],
         mqtt'.at \in {"idle", "dead", "planning", "handovered"},
         mqtt'.at = "handovered" => mqtt'.m = mstate'[mqtt'.user]
  PROVE  PaceInv'
<1>1. \A v \in Users \ {w} : user'[v] = user[v]
  BY DEF About
<1> QED  BY <1>1, OthersPace DEF PaceInv

(* Nothing is ordered and nothing told that was not before.                *)
PaceKept(w) ==
  /\ State(w)' = State(w) /\ mstate'[w] = mstate[w]
  /\ Deploying(w)' \/ Told(w, "allocated")' => Deploying(w) \/ Told(w, "allocated")
  /\ Moving(w)' => Moving(w)
  /\ Prepared(w)' => Prepared(w)
  /\ \A r \in Boxes : Sent(r, w, "migrate")' => Sent(r, w, "migrate")
  /\ \A r \in Boxes : Single(inbox[r], w, "migrate") => Single(inbox'[r], w, "migrate")
  /\ Single(notices', w, "migrated")
  /\ ~(Ordered(w)' /\ Told(w, "migrated")')

LEMMA KeepsPace ==
  ASSUME NEW w, PaceOf(w), PaceKept(w)
  PROVE  PaceOf(w)'
BY DEF PaceOf, PaceKept

LEMMA PaceEdges ==
  ASSUME Types, OnceInv, PaceInv, NEW s \in Servers, Edge(s), Stays
  PROVE  PaceInv'
<1>1. PICK o : o = Head(inbox[s])
  OBVIOUS
<1>2. PICK w \in Users : w = o.user
  BY <1>1, EdgeDoes
<1>3. About(w)
  BY <1>1, <1>2, AboutEdges DEF Edge, Stays
<1>4. UNCHANGED <<user, service, mstate, mqtt, timers, migPlan>>
  BY DEF Stays, dbVars, planVars
<1>5. ASSUME user'[w] # NoUser PROVE PaceOf(w)'
  <2>1. PaceOf(w) /\ Mine(w)
    BY <1>4, <1>5 DEF PaceInv, OnceInv, OnceOf
  <2>2. /\ \A k : \A r \in Boxes : Sent(r, w, k)' => Sent(r, w, k)
        /\ \A r \in Boxes : Single(inbox[r], w, "migrate") => Single(inbox'[r], w, "migrate")
        /\ Sent(s, w, o.kind) /\ (Single(inbox[s], w, o.kind) => ~Sent(s, w, o.kind)')
        /\ s \in Boxes
    <3>1. s \in Boxes /\ inbox[s] # <<>> /\ inbox' = [inbox EXCEPT ![s] = Tail(@)]
      BY <1>1, EdgeDoes
    <3>2. /\ \A r \in Boxes : r # s => inbox'[r] = inbox[r]
          /\ \A v, k : Single(inbox[s], v, k) => Single(inbox'[s], v, k)
          /\ \A k, v : \A r \in Boxes : Sent(r, v, k)' => Sent(r, v, k)
          /\ Sent(s, o.user, o.kind)
          /\ Single(inbox[s], o.user, o.kind) => ~Sent(s, o.user, o.kind)'
      BY <1>1, <3>1, Taken
    <3> QED  BY <1>2, <3>1, <3>2
  <2>3. /\ Deploying(w)' => Deploying(w)
        /\ Ordered(w)' => Ordered(w)
        /\ (\E r \in Boxes : Sent(r, w, "pre_migrate")') =>
             \E r \in Boxes : Sent(r, w, "pre_migrate")
    BY <2>2 DEF Deploying, Ordered
  <2>4. State(w)' = State(w)
    BY <1>4 DEF State, GetService
  <2>5. CASE notices' = notices
    <3>1. \A k : Told(w, k)' <=> Told(w, k)
      BY <2>5 DEF Told
    <3> QED  BY <1>4, <2>1, <2>2, <2>3, <2>4, <2>5, <3>1, KeepsPace
             DEF PaceOf, PaceKept, Moving, Prepared
  <2>6. ASSUME NEW n \in MessageSet, n.user = w, notices' = Append(notices, n),
               \/ n.kind = "allocated" /\ o.kind = "deploy"
               \/ n.kind = "pre_migrated" /\ o.kind = "pre_migrate"
        PROVE  PaceOf(w)'
    <3>1. \A k, v : Told(v, k)' <=> Told(v, k) \/ (v = n.user /\ k = n.kind)
      BY <2>6, Announced
    <3>2. Told(w, "migrated")' <=> Told(w, "migrated")
      BY <2>6, <3>1
    <3>3. Single(notices', w, "migrated")
      <4>1. ~Is(n, w, "migrated") /\ Single(notices, w, "migrated")
        BY <2>1, <2>6 DEF Is, PaceOf
      <4>2. \A v, k : Single(notices, v, k) /\ ~(Is(n, v, k) /\ Told(v, k)) =>
              Single(notices', v, k)
        BY <2>6, Announced
      <4> QED  BY <4>1, <4>2
    <3>4. Told(w, "allocated")' => Told(w, "allocated") \/ Deploying(w)
      BY <2>2, <2>6, <3>1 DEF Deploying
    <3>5. Prepared(w)' => Prepared(w)
      BY <2>2, <2>3, <2>6, <3>1 DEF Prepared
    <3> QED  BY <1>4, <2>1, <2>2, <2>3, <2>4, <3>2, <3>3, <3>4, <3>5, KeepsPace
             DEF PaceOf, PaceKept, Moving
  <2>7. ASSUME NEW n \in MessageSet, n.user = w, notices' = Append(notices, n),
               n.kind = "migrated", o.kind = "migrate"
        PROVE  PaceOf(w)'
    <3>1. \A k, v : Told(v, k)' <=> Told(v, k) \/ (v = n.user /\ k = n.kind)
      BY <2>7, Announced
    <3>2. Ordered(w) /\ ~Told(w, "migrated")
      BY <2>1, <2>2, <2>7 DEF Ordered, PaceOf
    <3>3. Single(notices', w, "migrated")
      <4>1. \A v, k : Single(notices, v, k) /\ ~(Is(n, v, k) /\ Told(v, k)) =>
              Single(notices', v, k)
        BY <2>7, Announced
      <4> QED  BY <2>1, <3>2, <4>1 DEF PaceOf
    <3>4. ~Ordered(w)'
      BY <2>1, <2>2, <2>7 DEF Ordered, PaceOf
    <3>5. /\ Told(w, "allocated")' => Told(w, "allocated")
          /\ Prepared(w)' => Prepared(w)
          /\ Moving(w)
      BY <2>2, <2>3, <2>7, <3>1, <3>2 DEF Prepared, Moving
    <3> QED  BY <1>4, <2>1, <2>2, <2>3, <2>4, <3>3, <3>4, <3>5, KeepsPace DEF PaceOf, PaceKept
  <2>8. notices' = notices \/ \E n \in MessageSet : EdgeTells(s, o, n)
    BY <1>1, EdgeDoes
  <2>9. ASSUME NEW n \in MessageSet, EdgeTells(s, o, n) PROVE PaceOf(w)'
    BY <1>2, <2>6, <2>7, <2>9 DEF EdgeTells
  <2> QED  BY <2>5, <2>8, <2>9
<1> QED  BY <1>3, <1>4, <1>5, PaceFrom DEF PaceInv

(* The row of a service after it is changed.                               *)
LEMMA NewRow ==
  ASSUME Types, NEW u \in Users, GetService(u) # NoRow, user'[u].app = user[u].app
  PROVE  /\ service' = service => State(u)' = State(u) /\ At(u)' = At(u)
         /\ \A x : service' = SetState(u, x) => State(u)' = x /\ At(u)' = At(u)
         /\ \A s : service' = UpdateService(u, user[u].app, s) =>
              State(u)' = "running" /\ At(u)' = s
<1>1. GetService(u)' = service'[u][user[u].app]
  BY RowAfter
<1>2. GetService(u) = service[u][user[u].app]
  BY RowFacts
<1>3. \A x : service' = SetState(u, x) => GetService(u)' = [server |-> At(u), state |-> x]
  BY <1>1, RowsAfter
<1>4. \A s : service' = UpdateService(u, user[u].app, s) =>
        GetService(u)' = [server |-> s, state |-> "running"]
  BY <1>1, RowsAfter
<1>5. service' = service => State(u)' = State(u) /\ At(u)' = At(u)
  BY <1>1, <1>2 DEF State, At
<1>6. \A x : service' = SetState(u, x) => State(u)' = x /\ At(u)' = At(u)
  BY <1>3 DEF State, At
<1>7. \A s : service' = UpdateService(u, user[u].app, s) =>
        State(u)' = "running" /\ At(u)' = s
  BY <1>4 DEF State, At
<1> QED  BY <1>5, <1>6, <1>7

(* What the handler of a notice does for a user that keeps its row.        *)
LEMMA NoticeDoes ==
  ASSUME Types, OnceInv, NEW i \in DOMAIN notices, Notices(i),
         NEW n, n = notices[i], NEW w, w = n.user, user'[w] # NoUser
  PROVE  /\ w \in Users /\ OnceOf(w) /\ user[w] # NoUser /\ GetService(w) # NoRow
         /\ user'[w].app = user[w].app
         /\ n.kind \in {"allocated", "migrated"} =>
              /\ n.from \in Servers /\ State(w)' = "running" /\ At(w)' = n.from
              /\ mstate' = [mstate EXCEPT ![w] = RUNNING] \/ mstate' = MigratedBits(w)
              /\ UNCHANGED <<inbox, mqtt, migPlan>>
         /\ n.kind = "pre_migrated" => State(w)' = "pre_migrated" /\ At(w)' = At(w)
         /\ n.kind = "handovered" =>
              /\ State(w)' = State(w) /\ At(w)' = At(w)
              /\ mqtt' = Idle \/ mqtt' = [at |-> "handovered", user |-> w, m |-> mstate[w]]
              /\ UNCHANGED <<inbox, mstate, migPlan>>
         /\ n.kind \in {"allocated", "migrated", "pre_migrated", "handovered"}
<1>1. n \in MessageSet /\ n \in Msgs(notices)
  BY NoticeTypes DEF Msgs
<1>2. w \in Users
  BY <1>1, MessageKinds
<1>3. About(w) /\ OnceOf(w)
  BY <1>2, AboutNotice DEF OnceInv
<1>4. Told(w, n.kind)
  BY <1>1 DEF Told, Has, Is
<1>5. /\ notices' = Rest(i) /\ mqtt = Idle
      /\ UNCHANGED <<timers, runs, present, discoveries, plans>>
  BY NoticeStarts
<1>t. user[w] \in UserRows /\ user \in [Users -> UserRows] /\ service \in [Users -> [Apps -> ServiceRows]]
  BY <1>2 DEF Types
<1>6. user[w] # NoUser => Mine(w) /\ GetService(w) # NoRow
  BY <1>3 DEF OnceOf, Mine
<1>7. CASE AllocatedKnown(i)
  <2>1. n.kind = "allocated" /\ GetService(w) # NoRow /\ user' = user
    BY <1>7 DEF AllocatedKnown, Receive
  <2>2. user[w] # NoUser
    BY <1>2, <2>1, RowFacts
  <2>3. n.app = user[w].app /\ n.from \in Servers /\ ~NameTaken(w, n.app)
    BY <1>1, <1>2, <1>3, <2>1, <2>2, NamesService
  <2>4. service' = UpdateService(w, user[w].app, n.from)
    BY <1>7, <2>3 DEF AllocatedKnown
  <2>5. State(w)' = "running" /\ At(w)' = n.from
    BY <1>2, <2>1, <2>4, NewRow
  <2> QED  BY <1>2, <1>3, <1>7, <2>1, <2>2, <2>3, <2>5 DEF AllocatedKnown, worldVars, planVars
<1>8. CASE AllocatedUnknown(i)
  <2>1. n.kind = "allocated" /\ user[w] = NoUser
    BY <1>6, <1>8 DEF AllocatedUnknown, Receive
  <2>2. user' = user \/ user' = Refers(w, n.app)
    BY <1>8 DEF AllocatedUnknown, dbVars
  <2>3. user'[w] = NoUser
    BY <1>2, <1>t, <2>1, <2>2 DEF Refers, NoUser
  <2> QED  BY <2>3
<1>9. CASE PreMigratedThreshold(i) \/ PreMigratedRead(i)
  <2>1. n.kind = "pre_migrated" /\ user' = user
    BY <1>9 DEF PreMigratedThreshold, PreMigratedRead, Receive
  <2>2. service' = SetState(w, "pre_migrated")
    BY <1>6, <1>9, <2>1 DEF PreMigratedThreshold, PreMigratedRead
  <2>3. State(w)' = "pre_migrated" /\ At(w)' = At(w)
    BY <1>2, <1>6, <2>1, <2>2, NewRow
  <2> QED  BY <1>2, <1>3, <1>6, <2>1, <2>3
<1>10. CASE Migrated(i)
  <2>1. n.kind = "migrated" /\ user' = user
    BY <1>10 DEF Migrated, Receive
  <2>2. n.app = user[w].app /\ n.from \in Servers /\ ~NameTaken(w, n.app)
    BY <1>1, <1>2, <1>3, <2>1, NamesService
  <2>3. service' = UpdateService(w, user[w].app, n.from) /\ mstate' = MigratedBits(w) /\ mqtt' = mqtt
    BY <1>6, <1>10, <2>1, <2>2 DEF Migrated, MigratedRow
  <2>4. State(w)' = "running" /\ At(w)' = n.from
    BY <1>2, <1>6, <2>1, <2>3, NewRow
  <2> QED  BY <1>2, <1>3, <1>6, <1>10, <2>1, <2>2, <2>3, <2>4 DEF Migrated, worldVars, planVars
<1>11. CASE HandoveredRead(i)
  <2>1. n.kind = "handovered" /\ service' = service
    BY <1>11 DEF HandoveredRead, Receive
  <2>2. user[w] # NoUser
    BY <1>3, <1>4, <2>1 DEF OnceOf, LeavesLast
  <2>3. user' = [user EXCEPT ![w].bts = n.plan.bts]
    BY <1>11, <2>2 DEF HandoveredRead
  <2>4. user'[w].app = user[w].app
    BY <1>2, <1>t, <2>2, <2>3 DEF UserRows
  <2>5. State(w)' = State(w) /\ At(w)' = At(w)
    BY <1>2, <1>6, <2>1, <2>2, <2>4, NewRow
  <2>6. mqtt' = Idle \/ mqtt' = [at |-> "handovered", user |-> w, m |-> mstate[w]]
    BY <1>11, <2>2 DEF HandoveredRead
  <2> QED  BY <1>2, <1>3, <1>6, <1>11, <2>1, <2>2, <2>4, <2>5, <2>6
           DEF HandoveredRead, worldVars, planVars
<1>12. CASE Left(i)
  <2>1. user[w] # NoUser
    <3>1. n.kind = "leave"
      BY <1>12 DEF Left, Receive
    <3> QED  BY <1>3, <1>4, <3>1 DEF OnceOf, LeavesLast
  <2>2. user' = UserGone(w)
    BY <1>6, <1>12, <2>1 DEF Left
  <2> QED  BY <1>2, <1>t, <2>2 DEF UserGone
<1> QED  BY <1>7, <1>8, <1>9, <1>10, <1>11, <1>12 DEF Notices

(* A handler takes a notice and, under a threshold planner, posts nothing. *)
LEMMA PaceNotice ==
  ASSUME Types, OnceInv, PaceInv, ~Optimized, NEW i \in DOMAIN notices, Notices(i)
  PROVE  PaceInv'
<1>1. PICK n \in MessageSet : n = notices[i] /\ n \in Msgs(notices)
  BY NoticeTypes DEF Msgs
<1>2. PICK w \in Users : w = n.user
  BY MessageKinds
<1>3. About(w)
  BY <1>1, <1>2, AboutNotice
<1>4. /\ notices' = Rest(i) /\ mqtt = Idle /\ timers' = timers
      /\ Idle.at = "idle" /\ Dead.at = "dead"
  BY NoticeStarts, WorkTypes
<1>5. migPlan' = migPlan
  <2>1. migPlan[w] = NoPlan
    BY DEF PaceInv
  <2> QED  BY <1>1, <1>2, <2>1 DEF Notices, AllocatedKnown, AllocatedUnknown,
           PreMigratedThreshold, PreMigratedRead, Migrated, HandoveredRead, Left, planVars
<1>6. /\ mqtt'.at \in {"idle", "dead", "handovered"}
      /\ mqtt'.at = "handovered" => mqtt'.m = mstate'[mqtt'.user]
  <2>1. CASE HandoveredRead(i)
    <3>1. /\ mstate' = mstate
          /\ mqtt' \in {Idle, Dead, [at |-> "handovered", user |-> w, m |-> mstate[w]]}
      BY <1>1, <1>2, <2>1 DEF HandoveredRead
    <3> QED  BY <1>4, <3>1
  <2>2. CASE ~HandoveredRead(i)
    <3>1. mqtt' \in {Idle, Dead}
      BY <1>4, <2>2 DEF Notices, AllocatedKnown, AllocatedUnknown, PreMigratedThreshold,
         PreMigratedRead, Migrated, Left
    <3> QED  BY <1>4, <3>1
  <2> QED  BY <2>1, <2>2
<1>7. ASSUME user'[w] # NoUser PROVE PaceOf(w)'
  <2>1. PICK told :
          /\ told = n.kind /\ OnceOf(w) /\ user[w] # NoUser
          /\ told \in {"allocated", "migrated"} =>
               /\ State(w)' = "running"
               /\ mstate' = [mstate EXCEPT ![w] = RUNNING] \/ mstate' = MigratedBits(w)
               /\ inbox' = inbox
          /\ told = "pre_migrated" => State(w)' = "pre_migrated"
          /\ told = "handovered" => State(w)' = State(w) /\ inbox' = inbox /\ mstate' = mstate
          /\ told \in {"allocated", "migrated", "pre_migrated", "handovered"}
    BY <1>1, <1>2, <1>7, NoticeDoes
  <2>2. PaceOf(w)
    BY <2>1 DEF PaceInv
  <2>3. told = "pre_migrated" => inbox' = inbox /\ mstate' = mstate
    <3>1. migPlan[w] = NoPlan
      BY DEF PaceInv
    <3>2. PreMigratedThreshold(i) => inbox' = inbox /\ mstate' = mstate
      BY <1>1, <1>2, <3>1 DEF PreMigratedThreshold
    <3> QED  BY <1>1, <2>1, <3>2 DEF Notices, AllocatedKnown, AllocatedUnknown, PreMigratedRead,
             Migrated, HandoveredRead, Left, Receive
  <2>4. inbox' = inbox
    BY <2>1, <2>3
  <2>5. /\ \A k : Told(w, k)' => Told(w, k)
        /\ \A k : Single(notices, w, k) => Single(notices', w, k)
        /\ Told(w, told)
        /\ Single(notices, w, told) => ~Told(w, told)'
    BY <1>1, <1>2, <1>4, <2>1, Handled
  <2>6. /\ \A r \in Boxes : \A k : Sent(r, w, k)' <=> Sent(r, w, k)
        /\ Deploying(w)' <=> Deploying(w)
        /\ Ordered(w)' <=> Ordered(w)
    BY <2>4 DEF Sent, Deploying, Ordered
  <2>7. Prepared(w)' => Prepared(w)
    BY <2>5, <2>6 DEF Prepared
  <2>8. Moving(w)' => Moving(w)
    BY <2>5, <2>6 DEF Moving
  <2>9. mstate[w] \in {Unknown} \cup SUBSET Bits /\ mstate \in [Users -> {Unknown} \cup SUBSET Bits]
    BY DEF Types
  <2>10. /\ Deploying(w)' \/ Told(w, "allocated")' => State(w)' = "init"
         /\ Moving(w)' => State(w)' \in {"pre_migrate", "pre_migrated"}
         /\ Prepared(w)' => State(w)' # "init"
         /\ State(w)' = "running" => "MIGRATE" \notin mstate'[w]
    <3>1. CASE told = "allocated"
      <4>1. State(w) = "init" /\ ~Moving(w) /\ ~Prepared(w)
        BY <2>2, <2>5, <3>1 DEF PaceOf
      <4>2. ~Told(w, "allocated")' /\ ~Deploying(w)
        BY <2>1, <2>5, <3>1 DEF OnceOf, DeployedOnce
      <4>3. "MIGRATE" \notin mstate'[w]
        BY <2>1, <2>9, <3>1 DEF RUNNING, MigratedBits, Unknown
      <4> QED  BY <2>6, <2>7, <2>8, <4>1, <4>2, <4>3
    <3>2. CASE told = "migrated"
      <4>1. State(w) \in {"pre_migrate", "pre_migrated"} /\ ~Ordered(w)
        BY <2>2, <2>5, <3>2 DEF PaceOf, Moving
      <4>2. ~Moving(w)'
        BY <2>2, <2>5, <2>6, <3>2, <4>1 DEF PaceOf, Moving
      <4>3. ~(Deploying(w)' \/ Told(w, "allocated")')
        BY <2>2, <2>5, <2>6, <4>1 DEF PaceOf
      <4>4. "MIGRATE" \notin mstate'[w]
        BY <2>1, <2>9, <3>2 DEF RUNNING, MigratedBits, Unknown
      <4>5. State(w)' = "running"
        BY <2>1, <3>2
      <4> QED  BY <4>2, <4>3, <4>4, <4>5
    <3>3. CASE told = "pre_migrated"
      <4>1. State(w) # "init"
        BY <2>2, <2>5, <3>3 DEF PaceOf, Prepared
      <4>2. ~(Deploying(w)' \/ Told(w, "allocated")')
        BY <2>2, <2>5, <2>6, <4>1 DEF PaceOf
      <4>3. State(w)' = "pre_migrated"
        BY <2>1, <3>3
      <4> QED  BY <4>2, <4>3
    <3>4. CASE told = "handovered"
      BY <2>1, <2>2, <2>5, <2>6, <2>7, <2>8, <3>4 DEF PaceOf
    <3> QED  BY <2>1, <3>1, <3>2, <3>3, <3>4
  <2>11. /\ \A r \in Boxes : Single(inbox'[r], w, "migrate")
         /\ Single(notices', w, "migrated")
    BY <2>2, <2>4, <2>5 DEF PaceOf
  <2>12. /\ \A r, s \in Boxes : Sent(r, w, "migrate")' /\ Sent(s, w, "migrate")' => r = s
         /\ ~(Ordered(w)' /\ Told(w, "migrated")')
    BY <2>2, <2>5, <2>6 DEF PaceOf
  <2> QED  BY <2>10, <2>11, <2>12 DEF PaceOf
<1> QED  BY <1>3, <1>4, <1>5, <1>6, <1>7, PaceFrom DEF PaceInv

(* A planner that moves nothing sends a handover at most.                  *)
LEMMA ThresholdKeeps ==
  ASSUME Types, NEW x, PlanThreshold(x), ~Moves(x), NEW u, u = x[1], NEW r \in Boxes
  PROVE  /\ \A k : k # "handover" /\ Single(inbox[r], u, k) => Single(inbox'[r], u, k)
         /\ Before(inbox[r], u, "pre_migrate", "migrate") =>
              Before(inbox'[r], u, "pre_migrate", "migrate")
<1>1. PICK p \in PlanSet : p = x[2] /\ u \in Users
  BY PlannedTypes DEF PlanThreshold
<1>2. PICK q \in Seq(OrderSet) : q = inbox[r]
  BY DEF Types, Boxes
<1>3. PICK a \in OrderSet : a = Order("handover", u, NoApp, p)
  BY <1>1, OrderTypes
<1>4. DOMAIN inbox = Boxes
  BY DEF Types, Boxes
<1>5. PICK c : c = HandsOver(x)
  OBVIOUS
<1>6. ~Sends(x)
  BY DEF Sends
<1>7. inbox' = [s \in DOMAIN inbox |-> inbox[s]
      \o (IF s = u /\ c THEN <<Order("handover", u, NoApp, p)>> ELSE <<>>)
      \o <<>> \o <<>>]
  <2>1. PICK d, e, w : d = Moves(x) /\ e = Sends(x) /\ w = At(u)
    BY Zenon
  <2>2. inbox' = [s \in DOMAIN inbox |-> inbox[s]
      \o (IF s = u /\ c THEN <<Order("handover", u, NoApp, p)>> ELSE <<>>)
      \o (IF s = w /\ d THEN <<Order("pre_migrate", u, user[u].app, p)>> ELSE <<>>)
      \o (IF s = w /\ e THEN <<Order("migrate", u, user[u].app, p)>> ELSE <<>>)]
    BY <1>1, <1>5, <2>1 DEF PlanThreshold, HandsOver, Moves, Sends, At, Source
  <2>3. d = FALSE /\ e = FALSE
    BY <1>6, <2>1 DEF Sends, Moves, StartsMigration
  <2> QED  BY <2>2, <2>3
<1>8. PICK l : l = q \o (IF r = u /\ c THEN <<a>> ELSE <<>>)
  OBVIOUS
<1>9. l \in {q, Append(q, a)} /\ l \in Seq(OrderSet)
  BY <1>8, Joined, AppendProperties
<1>10. inbox'[r] = l
  <2>1. inbox'[r] = q \o (IF r = u /\ c THEN <<a>> ELSE <<>>) \o <<>> \o <<>>
    BY <1>2, <1>3, <1>4, <1>7
  <2>2. l \o <<>> = l
    BY <1>9, ConcatEmptySeq
  <2> QED  BY <1>8, <2>1, <2>2
<1>11. \A k : Is(a, u, k) <=> k = "handover"
  BY <1>3 DEF Is, Order
<1>12. /\ \A v, k : Single(q, v, k) /\ ~(Is(a, v, k) /\ Has(q, v, k)) => Single(l, v, k)
       /\ \A v, k, m : Before(q, v, k, m) /\ ~(Is(a, v, k) /\ (Has(q, v, m) \/ k = m)) =>
            Before(l, v, k, m)
  BY <1>9, MaybeAdded
<1>13. \A k : k # "handover" /\ Single(q, u, k) => Single(l, u, k)
  BY <1>11, <1>12
<1>14. Before(q, u, "pre_migrate", "migrate") => Before(l, u, "pre_migrate", "migrate")
  BY <1>11, <1>12
<1> QED  BY <1>2, <1>10, <1>13, <1>14

(* What a threshold planner sends, by kind, and what it leaves.            *)
LEMMA ThresholdSent ==
  ASSUME Types, NEW x, PlanThreshold(x), NEW u, u = x[1]
  PROVE  /\ \A r \in Boxes :
              /\ Sent(r, u, "deploy")' <=> Sent(r, u, "deploy")
              /\ Sent(r, u, "pre_migrate")' <=>
                   Sent(r, u, "pre_migrate") \/ (r = At(u) /\ Moves(x))
              /\ Sent(r, u, "migrate")' <=> Sent(r, u, "migrate") \/ (r = At(u) /\ Sends(x))
         /\ u \in Users /\ GetService(u) # NoRow /\ UNCHANGED <<user, notices>>
         /\ At(u)' = At(u) /\ State(u)' = IF Moves(x) THEN "pre_migrate" ELSE State(u)
         /\ Moves(x) => State(u) = "running" /\ x[2].server # At(u)
         /\ \A b \in {"PRE_MIGRATE", "PRE_MIGRATED", "MIGRATE"} :
              b \in mstate'[u] <=> \/ b \in mstate[u]
                                   \/ b = "PRE_MIGRATE" /\ Moves(x)
                                   \/ b = "MIGRATE" /\ Sends(x)
         /\ mstate'[u] # Unknown
<1>1. PICK p \in PlanSet : p = x[2]
  BY PlannedTypes DEF PlanThreshold
<1>2. u \in Users /\ GetService(u) # NoRow /\ UNCHANGED <<user, notices>>
  BY PlannedTypes DEF PlanThreshold
<1>3. ASSUME NEW r \in Boxes
      PROVE  /\ Sent(r, u, "deploy")' <=> Sent(r, u, "deploy")
             /\ Sent(r, u, "pre_migrate")' <=>
                  Sent(r, u, "pre_migrate") \/ (r = At(u) /\ Moves(x))
             /\ Sent(r, u, "migrate")' <=> Sent(r, u, "migrate") \/ (r = At(u) /\ Sends(x))
  <2>1. PICK o, q, t : /\ o = Order("handover", u, NoApp, p)
                       /\ q = Order("pre_migrate", u, user[u].app, p)
                       /\ t = Order("migrate", u, user[u].app, p)
    OBVIOUS
  <2>2. /\ o.user = u /\ o.kind = "handover" /\ q.user = u /\ q.kind = "pre_migrate"
        /\ t.user = u /\ t.kind = "migrate"
    BY <2>1 DEF Order
  <2>3. \A m : m \in Msgs(inbox'[r]) <=>
              \/ m \in Msgs(inbox[r])
              \/ r = u /\ HandsOver(x) /\ m = o
              \/ r = At(u) /\ Moves(x) /\ m = q
              \/ r = At(u) /\ Sends(x) /\ m = t
    BY <1>1, <2>1, ThresholdPosts
  <2> QED  BY <2>2, <2>3 DEF Sent, Has, Is
<1>4. PICK b, c, d : b = HandsOver(x) /\ c = Moves(x) /\ d = Sends(x)
  OBVIOUS
<1>5. /\ service' = IF c THEN SetState(u, "pre_migrate") ELSE service
      /\ \E h : mstate' = [mstate EXCEPT ![u] = ThresholdBits(u, p, h, c)
                                                \cup (IF d THEN {"MIGRATE"} ELSE {})]
  BY <1>1, <1>4 DEF PlanThreshold, Moves, Sends
<1>6. At(u)' = At(u) /\ State(u)' = IF c THEN "pre_migrate" ELSE State(u)
  BY <1>2, <1>5, NewRow
<1>7. c => State(u) = "running" /\ p.server # At(u)
  BY <1>1, <1>2, <1>4, RowFacts DEF Moves, StartsMigration, MigratingStates, State, At
<1>8. mstate \in [Users -> {Unknown} \cup SUBSET Bits]
  BY DEF Types
<1>9. PICK h : mstate'[u] = ThresholdBits(u, p, h, c) \cup (IF d THEN {"MIGRATE"} ELSE {})
  BY <1>2, <1>5, <1>8
<1>10. mstate[u] # Unknown /\ mstate[u] \in SUBSET Bits
  BY <1>2, <1>8 DEF PlanThreshold
<1>11. mstate'[u] \in SUBSET Bits
  BY <1>9, <1>10, BitFacts DEF ThresholdBits
<1>12. \A e \in {"PRE_MIGRATE", "PRE_MIGRATED", "MIGRATE"} :
         e \in mstate'[u] <=> \/ e \in mstate[u]
                              \/ e = "PRE_MIGRATE" /\ c
                              \/ e = "MIGRATE" /\ d
  BY <1>9 DEF ThresholdBits
<1> QED  BY <1>1, <1>2, <1>3, <1>4, <1>6, <1>7, <1>11, <1>12, BitFacts

LEMMA PaceSame ==
  ASSUME NEW w, PaceOf(w), UNCHANGED <<user, service, inbox, notices>>,
         "MIGRATE" \in mstate'[w] => "MIGRATE" \in mstate[w]
  PROVE  PaceOf(w)'
<1>1. /\ \A r : \A k : Sent(r, w, k)' <=> Sent(r, w, k)
      /\ \A k : Told(w, k)' <=> Told(w, k)
  BY DEF Sent, Told
<1>2. /\ Ordered(w)' <=> Ordered(w)
      /\ Deploying(w)' <=> Deploying(w)
      /\ Prepared(w)' <=> Prepared(w)
      /\ Moving(w)' <=> Moving(w)
  BY <1>1 DEF Ordered, Deploying, Prepared, Moving
<1>3. State(w)' = State(w)
  BY DEF State, GetService
<1> QED  BY <1>1, <1>2, <1>3 DEF PaceOf

(* A plan is carried out at once: both orders, or none.                    *)
LEMMA PacePlanned ==
  ASSUME Types, OnceInv, PaceInv, ~Optimized, NEW x, Planned(x)
  PROVE  PaceInv'
<1>1. PICK u \in Users : u = x[1]
  BY PlannedChanges
<1>2. /\ NextPlan(x) /\ mqtt'.at \in {"idle", "dead", "planning"}
      /\ mqtt.at = "planning" /\ x \in mqtt.todo
      /\ About(u)
  BY <1>1, PlannedChanges, PlannedTypes, AboutPlanned
<1>3. OnceOf(u) /\ user[u] # NoUser /\ PaceOf(u)
  BY <1>1, <1>2 DEF OnceInv, WorkInv, PaceInv
<1>4. migPlan = [v \in Users |-> NoPlan] /\ timers = {}
  BY DEF PaceInv
<1>5. CASE NothingPlanned(x)
  <2>1. UNCHANGED <<user, service, inbox, notices, mstate, migPlan, timers>>
    BY <1>5 DEF NothingPlanned, dbVars, planVars, worldVars
  <2>2. PaceOf(u)'
    BY <1>3, <2>1, PaceSame
  <2> QED  BY <1>2, <1>4, <2>1, <2>2, PaceFrom
<1>6. CASE PlanThreshold(x)
  <2>1. PICK c, d, h : c = Moves(x) /\ d = Sends(x) /\ h = At(u)
    OBVIOUS
  <2>2. /\ \A r \in Boxes :
              /\ Sent(r, u, "deploy")' <=> Sent(r, u, "deploy")
              /\ Sent(r, u, "pre_migrate")' <=> Sent(r, u, "pre_migrate") \/ (r = h /\ c)
              /\ Sent(r, u, "migrate")' <=> Sent(r, u, "migrate") \/ (r = h /\ d)
        /\ UNCHANGED <<user, notices>>
        /\ State(u)' = IF c THEN "pre_migrate" ELSE State(u)
        /\ c => State(u) = "running"
        /\ "MIGRATE" \in mstate'[u] <=> "MIGRATE" \in mstate[u] \/ d
    BY <1>1, <1>6, <2>1, ThresholdSent
  <2>3. c <=> d
    BY <1>1, <1>3, <2>1, <2>2 DEF PaceOf, Sends
  <2>4. \A k : Told(u, k)' <=> Told(u, k)
    BY <2>2 DEF Told
  <2>5. migPlan' = migPlan /\ timers' = timers
    <3>1. migPlan' = [migPlan EXCEPT ![u] = IF d THEN NoPlan ELSE IF c THEN x[2] ELSE @]
      BY <1>1, <1>6, <2>1 DEF PlanThreshold, Moves, Sends
    <3> QED  BY <1>4, <1>6, <2>3, <3>1 DEF PlanThreshold
  <2>6. \A r \in Boxes : Single(inbox'[r], u, "migrate")
    <3> SUFFICES ASSUME NEW r \in Boxes PROVE Single(inbox'[r], u, "migrate")
      OBVIOUS
    <3>1. CASE ~Sent(r, u, "migrate")
      <4>1. \A k : Single(inbox[r], u, k) /\ ~Sent(r, u, k) => Single(inbox'[r], u, k)
        BY <1>1, <1>6, ThresholdPosts
      <4> QED  BY <1>3, <3>1, <4>1 DEF PaceOf
    <3>2. CASE Sent(r, u, "migrate")
      <4>1. State(u) # "running"
        BY <1>3, <3>2 DEF PaceOf, Moving, Ordered
      <4>2. ~c /\ ~d
        BY <2>2, <2>3, <4>1
      <4>3. Single(inbox[r], u, "migrate") => Single(inbox'[r], u, "migrate")
        BY <1>1, <1>6, <2>1, <4>2, ThresholdKeeps
      <4> QED  BY <1>3, <4>3 DEF PaceOf
    <3> QED  BY <3>1, <3>2
  <2>7. ASSUME c PROVE PaceOf(u)'
    <3>1. State(u) = "running" /\ State(u)' = "pre_migrate"
      BY <2>2, <2>7
    <3>2. ~Moving(u) /\ ~Deploying(u) /\ ~Told(u, "allocated")
      BY <1>3, <3>1 DEF PaceOf
    <3>3. (\A r \in Boxes : Sent(r, u, "migrate")' => r = h) /\ ~Told(u, "migrated")'
      BY <2>2, <2>4, <3>2 DEF Moving, Ordered
    <3>4. ~Deploying(u)' /\ ~Told(u, "allocated")'
      BY <2>2, <2>4, <3>2 DEF Deploying
    <3>5. Single(notices', u, "migrated")
      BY <1>3, <2>2 DEF PaceOf
    <3> QED  BY <2>6, <3>1, <3>3, <3>4, <3>5 DEF PaceOf
  <2>8. ASSUME ~c PROVE PaceOf(u)'
    <3>1. /\ Deploying(u)' <=> Deploying(u)
          /\ Ordered(u)' <=> Ordered(u)
          /\ (\E r \in Boxes : Sent(r, u, "pre_migrate")') <=>
               \E r \in Boxes : Sent(r, u, "pre_migrate")
      BY <2>2, <2>3, <2>8 DEF Deploying, Ordered
    <3>2. /\ Prepared(u)' <=> Prepared(u)
          /\ Moving(u)' <=> Moving(u)
      BY <2>4, <3>1 DEF Prepared, Moving
    <3>3. State(u)' = State(u) /\ ("MIGRATE" \in mstate'[u] <=> "MIGRATE" \in mstate[u])
      BY <2>2, <2>3, <2>8
    <3>4. Single(notices', u, "migrated")
      BY <1>3, <2>2 DEF PaceOf
    <3>5. \A r \in Boxes : Sent(r, u, "migrate")' <=> Sent(r, u, "migrate")
      BY <2>2, <2>3, <2>8
    <3> QED  BY <1>3, <2>4, <2>6, <3>1, <3>2, <3>3, <3>4, <3>5 DEF PaceOf
  <2> QED  BY <1>2, <1>4, <2>5, <2>7, <2>8, PaceFrom
<1> QED  BY <1>5, <1>6 DEF Planned, PlanMove, PlanHandover, PlanPassedOver

(* The answers that are given back: only a handover is, here.              *)
LEMMA PaceAnswers ==
  ASSUME Types, OnceInv, PaceInv, Answers
  PROVE  PaceInv'
<1>1. PICK u \in Users : u = mqtt.user
  BY AnswerChanges
<1>2. mqtt.at = "handovered" /\ HandoveredWrite
  <2>1. mqtt.at \in {"idle", "dead", "planning", "handovered"}
    BY DEF PaceInv
  <2> QED  BY <2>1 DEF Answers, PreMigratedMark, PreMigratedUnknown, PreMigratedStays,
           PreMigratedSchedule, HandoveredWrite
<1>3. /\ mqtt' = Idle /\ UNCHANGED <<user, service, inbox, notices, timers, migPlan>>
      /\ mstate' = [mstate EXCEPT ![u] = HandoveredBits(mstate[u])]
  BY <1>1, <1>2 DEF HandoveredWrite, PaceInv, dbVars, planVars, worldVars
<1>4. About(u) /\ user[u] # NoUser
  BY <1>1, <1>2, AboutAnswers DEF OnceInv, WorkInv
<1>5. PaceOf(u)
  BY <1>4 DEF PaceInv
<1>6. "MIGRATE" \in mstate'[u] => "MIGRATE" \in mstate[u]
  <2>1. mstate'[u] = HandoveredBits(mstate[u])
    BY <1>3 DEF Types
  <2> QED  BY <2>1 DEF HandoveredBits, RUNNING
<1>7. PaceOf(u)'
  BY <1>3, <1>5, <1>6, PaceSame
<1>8. Idle.at = "idle"
  BY WorkTypes
<1> QED  BY <1>3, <1>4, <1>7, <1>8, PaceFrom DEF PaceInv

(* What a user does to the queues.                                         *)
LEMMA UserSays ==
  ASSUME Types, NEW u \in Users, UserHandsOver(u) \/ UserLeaves(u)
  PROVE  /\ \A r \in Boxes :
              /\ Msgs(inbox'[r]) \subseteq Msgs(inbox[r])
              /\ \A k : k # "handover" => (Sent(r, u, k)' <=> Sent(r, u, k))
              /\ \A k : Single(inbox[r], u, k) => Single(inbox'[r], u, k)
              /\ \A k, l : Before(inbox[r], u, k, l) => Before(inbox'[r], u, k, l)
         /\ \A k : k \notin {"handovered", "leave"} =>
              /\ Told(u, k)' <=> Told(u, k)
              /\ Single(notices, u, k) => Single(notices', u, k)
              /\ \A l : Before(notices, u, k, l) => Before(notices', u, k, l)
         /\ \A s : LastIs(notices', u, s) <=> LastIs(notices, u, s)
         /\ \/ notices' = notices
            \/ \E n \in MessageSet : /\ notices' = Append(notices, n) /\ n.user = u
                                     /\ n.kind = "handovered" \/ (n.kind = "leave" /\ setup.leaving)
         /\ runs' = runs
<1>1. ASSUME NEW r \in Boxes
      PROVE  /\ Msgs(inbox'[r]) \subseteq Msgs(inbox[r])
             /\ \A k : k # "handover" => (Sent(r, u, k)' <=> Sent(r, u, k))
             /\ \A k : Single(inbox[r], u, k) => Single(inbox'[r], u, k)
             /\ \A k, l : Before(inbox[r], u, k, l) => Before(inbox'[r], u, k, l)
  <2>1. CASE UserHandsOver(u)
    <3>1. PICK o : o = Head(inbox[u])
      OBVIOUS
    <3>2. /\ u \in Boxes /\ inbox[u] # <<>> /\ inbox' = [inbox EXCEPT ![u] = Tail(@)]
          /\ o.kind = "handover"
      BY <2>1, <3>1 DEF UserHandsOver, Take, Boxes
    <3>3. /\ \A s \in Boxes : s # u => inbox'[s] = inbox[s]
          /\ Msgs(inbox[u]) = Msgs(inbox'[u]) \cup {o}
          /\ \A k, v : \A s \in Boxes : Sent(s, v, k)' => Sent(s, v, k)
          /\ \A k, v : \A s \in Boxes :
               v # o.user \/ k # o.kind => (Sent(s, v, k) => Sent(s, v, k)')
          /\ \A v, k : Single(inbox[u], v, k) => Single(inbox'[u], v, k)
          /\ \A v, k, l : Before(inbox[u], v, k, l) => Before(inbox'[u], v, k, l)
      BY <3>1, <3>2, Taken
    <3>4. \A k : k # "handover" => (Sent(r, u, k)' <=> Sent(r, u, k))
      BY <3>2, <3>3
    <3>5. Msgs(inbox'[r]) \subseteq Msgs(inbox[r])
      BY <3>3
    <3>6. \A k : Single(inbox[r], u, k) => Single(inbox'[r], u, k)
      BY <3>3
    <3>7. \A k, l : Before(inbox[r], u, k, l) => Before(inbox'[r], u, k, l)
      BY <3>3
    <3> QED  BY <3>4, <3>5, <3>6, <3>7
  <2>2. CASE UserLeaves(u)
    BY <2>2 DEF UserLeaves, Sent
  <2> QED  BY <2>1, <2>2
<1>2. \/ notices' = notices
      \/ \E n \in MessageSet : /\ notices' = Append(notices, n) /\ n.user = u
                               /\ n.kind = "handovered" \/ (n.kind = "leave" /\ setup.leaving)
  <2>1. CASE UserLeaves(u)
    <3>1. Notice("leave", u, NoApp, u, NoPlan) \in MessageSet
      BY MessageTypes
    <3> QED  BY <2>1, <3>1 DEF UserLeaves, Tell, Notice
  <2>2. CASE UserHandsOver(u)
    <3>1. u \in Boxes /\ inbox[u] # <<>> /\ Head(inbox[u]).kind = "handover"
      BY <2>2 DEF UserHandsOver, Take, Boxes
    <3>2. Head(inbox[u]).plan \in PlanSet
      BY <3>1, BoxTypes, OrderKinds
    <3>3. Notice("handovered", u, NoApp, u, Head(inbox[u]).plan) \in MessageSet
      BY <3>2, MessageTypes
    <3> QED  BY <2>2, <3>3 DEF UserHandsOver, Tell, Notice
  <2> QED  BY <2>1, <2>2
<1>3. CASE notices' = notices
  BY <1>1, <1>2, <1>3 DEF Told, UserHandsOver, UserLeaves
<1>4. ASSUME NEW n \in MessageSet, notices' = Append(notices, n), n.user = u,
             n.kind \in {"handovered", "leave"}
      PROVE  /\ \A k : k \notin {"handovered", "leave"} =>
                  /\ Told(u, k)' <=> Told(u, k)
                  /\ Single(notices, u, k) => Single(notices', u, k)
                  /\ \A l : Before(notices, u, k, l) => Before(notices', u, k, l)
             /\ \A s : LastIs(notices', u, s) <=> LastIs(notices, u, s)
  <2>1. /\ \A k, v : Told(v, k)' <=> Told(v, k) \/ (v = n.user /\ k = n.kind)
        /\ \A v, k : Single(notices, v, k) /\ ~(Is(n, v, k) /\ Told(v, k)) =>
             Single(notices', v, k)
        /\ \A v, k, l : Before(notices, v, k, l) /\ ~(Is(n, v, k) /\ (Told(v, l) \/ k = l)) =>
             Before(notices', v, k, l)
        /\ \A v, s : LastIs(notices', v, s) <=>
             IF Says(n, v) THEN s = n.from ELSE LastIs(notices, v, s)
    BY <1>4, Announced
  <2>2. ~Says(n, u) /\ \A k : k \notin {"handovered", "leave"} => ~Is(n, u, k)
    BY <1>4 DEF Says, Is
  <2>3. \A k : k \notin {"handovered", "leave"} =>
          /\ Told(u, k)' <=> Told(u, k)
          /\ Single(notices, u, k) => Single(notices', u, k)
    BY <1>4, <2>1, <2>2
  <2>4. \A k : k \notin {"handovered", "leave"} =>
          \A l : Before(notices, u, k, l) => Before(notices', u, k, l)
    BY <2>1, <2>2
  <2>5. \A s : LastIs(notices', u, s) <=> LastIs(notices, u, s)
    BY <2>1, <2>2
  <2> QED  BY <2>3, <2>4, <2>5
<1>5. runs' = runs
  BY DEF UserHandsOver, UserLeaves
<1>6. CASE \E n \in MessageSet : /\ notices' = Append(notices, n) /\ n.user = u
                                 /\ n.kind = "handovered" \/ (n.kind = "leave" /\ setup.leaving)
  <2>1. PICK n \in MessageSet : /\ notices' = Append(notices, n) /\ n.user = u
                                /\ n.kind = "handovered" \/ (n.kind = "leave" /\ setup.leaving)
    BY <1>6
  <2>2. n.kind \in {"handovered", "leave"}
    BY <2>1
  <2>3. /\ \A k : k \notin {"handovered", "leave"} =>
             /\ Told(u, k)' <=> Told(u, k)
             /\ Single(notices, u, k) => Single(notices', u, k)
             /\ \A l : Before(notices, u, k, l) => Before(notices', u, k, l)
        /\ \A s : LastIs(notices', u, s) <=> LastIs(notices, u, s)
    BY <1>4, <2>1, <2>2
  <2> QED  BY <1>1, <1>5, <1>6, <2>3
<1> QED  BY <1>2, <1>3, <1>6

LEMMA PaceUsers ==
  ASSUME Types, OnceInv, PaceInv, NEW u \in Users, UserHandsOver(u) \/ UserLeaves(u), Stays
  PROVE  PaceInv'
<1>1. UNCHANGED <<user, service, mstate, mqtt, timers, migPlan>>
  BY DEF Stays, dbVars, planVars
<1>2. About(u)
  BY AboutUsers DEF Stays, OnceInv
<1>3. ASSUME user'[u] # NoUser PROVE PaceOf(u)'
  <2>1. PaceOf(u)
    BY <1>1, <1>3 DEF PaceInv
  <2>2. \A r \in Boxes : /\ \A k : k # "handover" => (Sent(r, u, k)' <=> Sent(r, u, k))
                         /\ Single(inbox[r], u, "migrate") => Single(inbox'[r], u, "migrate")
    BY UserSays
  <2>3. /\ \A k : k \notin {"handovered", "leave"} => (Told(u, k)' <=> Told(u, k))
        /\ Single(notices', u, "migrated")
    BY <2>1, UserSays DEF PaceOf
  <2>4. /\ Deploying(u)' => Deploying(u)
        /\ Ordered(u)' => Ordered(u)
        /\ (\E r \in Boxes : Sent(r, u, "pre_migrate")') => \E r \in Boxes : Sent(r, u, "pre_migrate")
    BY <2>2 DEF Deploying, Ordered
  <2>5. /\ Prepared(u)' => Prepared(u)
        /\ Moving(u)' => Moving(u)
    BY <2>3, <2>4 DEF Prepared, Moving
  <2>6. State(u)' = State(u)
    BY <1>1 DEF State, GetService
  <2> QED  BY <1>1, <2>1, <2>2, <2>3, <2>4, <2>5, <2>6, KeepsPace DEF PaceOf, PaceKept
<1> QED  BY <1>1, <1>2, <1>3, PaceFrom DEF PaceInv

LEMMA PaceDiscover ==
  ASSUME Types, Once, OnceInv, PaceInv, Discover
  PROVE  PaceInv'
<1>1. PICK u, a, b, s : Discovers(u, a, b, s)
  BY DiscoverOnce DEF OnceInv
<1>2. /\ About(u) /\ u \in Users /\ s \in Boxes /\ State(u)' = "init"
      /\ \A r \in Boxes : \A k : Sent(r, u, k)' <=> r = s /\ k = "deploy"
      /\ \A r \in Boxes : \A k : Single(inbox'[r], u, k)
      /\ \A k : ~Told(u, k)' /\ ~Told(u, k)
      /\ mstate' = [mstate EXCEPT ![u] = INIT] /\ Unheard(u)
      /\ UNCHANGED <<timers, mqtt, migPlan, notices>>
  BY <1>1, Deployed
<1>3. ~Ordered(u)' /\ ~Prepared(u)' /\ ~Moving(u)'
  BY <1>2 DEF Ordered, Prepared, Moving
<1>4. Single(notices', u, "migrated")
  BY <1>2 DEF Told, Has, Single, Msgs
<1>7. PaceOf(u)'
  BY <1>2, <1>3, <1>4 DEF PaceOf
<1>8. mqtt.at = "handovered" => mqtt.user \in Users /\ mqtt.user # u
  BY <1>2, WorkTypes DEF OnceInv, WorkInv, Unheard
<1>9. mqtt.at = "handovered" => mstate'[mqtt.user] = mstate[mqtt.user]
  BY <1>2, <1>8 DEF Types
<1> QED  BY <1>2, <1>7, <1>9, PaceFrom DEF PaceInv

LEMMA PaceStutters ==
  ASSUME PaceInv, UNCHANGED <<user, service, inbox, notices, mstate, timers, migPlan>>,
         mqtt' = mqtt \/ mqtt'.at = "planning"
  PROVE  PaceInv'
BY PaceSame DEF PaceInv

LEMMA PaceInit == ASSUME Init PROVE PaceInv
<1>1. /\ \A u \in Users : user[u] = NoUser
      /\ mqtt = Idle /\ timers = {} /\ migPlan = [u \in Users |-> NoPlan]
  BY Nobody
<1>2. mqtt.at = "idle"
  BY <1>1 DEF Idle
<1> QED  BY <1>1, <1>2 DEF PaceInv

LEMMA PaceStep ==
  ASSUME Types, Once, ~Optimized, OnceInv, PaceInv, [Next]_vars
  PROVE  PaceInv'
<1>1. CASE HandleNotice
  BY <1>1, PaceNotice DEF HandleNotice, Notices
<1>2. CASE Continue
  <2>1. (\E x : Planned(x)) \/ Answers
    BY <1>2 DEF Continue, Planned, Answers
  <2> QED  BY <2>1, PacePlanned, PaceAnswers
<1>3. CASE RunTimers
  BY <1>3 DEF RunTimers, PaceInv
<1>4. CASE Outside
  <2>1. Stays
    BY <1>4 DEF Outside, Stays
  <2> QED  BY <1>4, <2>1, PaceEdges, PaceUsers DEF Outside, Edge
<1>5. CASE Discover
  BY <1>5, PaceDiscover
<1>6. CASE Planning
  BY <1>6, PlanningChanges, PaceStutters DEF planVars
<1>7. CASE UNCHANGED vars
  BY <1>7, PaceStutters DEF vars, dbVars, planVars, worldVars
<1> QED  BY <1>1, <1>2, <1>3, <1>4, <1>5, <1>6, <1>7 DEF Next

LEMMA PaceAlways ==
  Spec => [](Types /\ (Once => OnceInv) /\ (Once /\ ~Optimized => PaceInv))
<1> DEFINE I == Types /\ (Once => OnceInv) /\ (Once /\ ~Optimized => PaceInv)
<1>1. Init => I
  BY TypeInit, OnceInit, PaceInit
<1>2. I /\ [Next]_vars => I'
  <2> SUFFICES ASSUME I, [Next]_vars PROVE I'
    OBVIOUS
  <2>1. setup' = setup
    BY SetupStays
  <2>2. (Once' <=> Once) /\ (Optimized' <=> Optimized)
    BY <2>1 DEF Once, Optimized
  <2>3. Types' /\ (Once => OnceInv')
    BY TypeStep, OnceStep
  <2>4. Once /\ ~Optimized => PaceInv'
    BY PaceStep
  <2> QED  BY <2>2, <2>3, <2>4
<1> QED  BY <1>1, <1>2, PTL DEF Spec

-----------------------------------------------------------------------------
(* Where services run, when notices keep their order or the planner is a   *)
(* threshold planner, which waits for MIGRATED before it moves again.      *)

LEMMA HostFrom ==
  ASSUME HostInv, NEW w \in Users, About(w), user'[w] # NoUser => HostOf(w)'
  PROVE  HostInv'
<1>1. \A v \in Users \ {w} : user'[v] = user[v]
  BY DEF About
<1> QED  BY <1>1, OthersHost DEF HostInv

(* Nothing that bears on the host of w happens.                            *)
HostKept(w) ==
  /\ user'[w].app = user[w].app /\ At(w)' = At(w) /\ runs' = runs
  /\ Deploying(w)' <=> Deploying(w)
  /\ \A k \in {"allocated", "migrated"} : Told(w, k)' <=> Told(w, k)
  /\ \A s : LastIs(notices', w, s) <=> LastIs(notices, w, s)

LEMMA KeepsHost ==
  ASSUME NEW w, HostOf(w), HostKept(w)
  PROVE  HostOf(w)'
<1>1. PICK h : h = At(w) /\ h = At(w)'
  BY DEF HostKept
<1>2. \A s : RunsAt(w, s)' <=> RunsAt(w, s)
  BY DEF HostKept, RunsAt
<1> QED  BY <1>1, <1>2 DEF HostOf, HostKept

(* If a notice says where a service runs, one of them is the last to.      *)
LEMMA SomeLast ==
  ASSUME Types, NEW w, Told(w, "allocated") \/ Told(w, "migrated")
  PROVE  \E s \in Servers : LastIs(notices, w, s)
<1>1. PICK q \in Seq(MessageSet) : q = notices
  BY DEF Types
<1>2. PICK l \in Nat : l = Len(q) /\ DOMAIN q = 1 .. l
  BY <1>1, LenProperties
<1> DEFINE D == {i \in DOMAIN q : Says(q[i], w)}
           T == {l - i : i \in D}
           R == {x \in Nat \X Nat : x[1] < x[2]}
<1>3. D # {} /\ D \subseteq 1 .. l
  BY <1>1, <1>2 DEF Told, Has, Msgs, Is, Says
<1>4. T \in SUBSET Nat /\ T # {}
  <2>1. \A i \in 1 .. l : l - i \in Nat
    BY <1>2
  <2> HIDE DEF D
  <2> QED  BY <1>3, <2>1
<1>5. IsWellFoundedOn(R, Nat)
  BY NatLessThanWellFounded DEF OpToRel
<1> HIDE DEF T, R
<1>6. PICK k \in T : \A y \in T : ~(<<y, k>> \in R)
  BY <1>4, <1>5, WFMin
<1>7. PICK i \in DOMAIN q : k = l - i /\ Says(q[i], w)
  BY DEF T
<1>8. ASSUME NEW h \in DOMAIN q, h > i PROVE ~Says(q[h], w)
  <2> SUFFICES ASSUME Says(q[h], w) PROVE FALSE
    OBVIOUS
  <2>1. l - h \in T
    BY DEF T
  <2>2. ~(l - h < k)
    BY <1>4, <1>6, <2>1 DEF R
  <2> QED  BY <1>2, <1>7, <1>8, <2>2
<1>9. q[i] \in MessageSet
  BY <1>2, <1>7, ElementOfSeq
<1>10. q[i].from \in Servers
  BY <1>7, <1>9, MessageKinds DEF Says
<1> QED  BY <1>1, <1>7, <1>8, <1>10 DEF LastIs

LEMMA NoLast ==
  ASSUME NEW w, NEW s, LastIs(notices, w, s)
  PROVE  Told(w, "allocated") \/ Told(w, "migrated")
BY DEF LastIs, Says, Told, Has, Is, Msgs

LEMMA Longer == ASSUME NEW S, NEW q \in Seq(S), NEW x \in S PROVE Append(q, x) # q
BY Joined

(* Containers that are started, moved or not.                              *)
LEMMA HostEdges ==
  ASSUME Types, OnceInv, HostInv, ~setup.failing, NEW s \in Servers, Edge(s), Stays
  PROVE  HostInv'
<1>1. PICK o : o = Head(inbox[s])
  OBVIOUS
<1>2. PICK w \in Users : w = o.user
  BY <1>1, EdgeDoes
<1>3. About(w)
  BY <1>1, <1>2, AboutEdges DEF Edge, Stays
<1>4. UNCHANGED <<user, service>>
  BY DEF Stays, dbVars
<1>5. ASSUME user'[w] # NoUser PROVE HostOf(w)'
  <2>1. HostOf(w) /\ Mine(w) /\ DeployedOnce(w)
    BY <1>4, <1>5 DEF HostInv, OnceInv, OnceOf
  <2>2. PICK a : a = user[w].app /\ a = user'[w].app
    BY <1>4
  <2>3. PICK h : h = At(w) /\ h = At(w)'
    BY <1>4 DEF At, GetService
  <2>4. /\ s \in Boxes /\ o \in Msgs(inbox[s])
        /\ \A k : \A r \in Boxes : Sent(r, w, k)' => Sent(r, w, k)
        /\ \A k : \A r \in Boxes : k # o.kind => (Sent(r, w, k) => Sent(r, w, k)')
        /\ \A r \in Boxes : r # s => inbox'[r] = inbox[r]
        /\ Sent(s, w, o.kind) /\ (Single(inbox[s], w, o.kind) => ~Sent(s, w, o.kind)')
    <3>1. s \in Boxes /\ inbox[s] # <<>> /\ inbox' = [inbox EXCEPT ![s] = Tail(@)]
      BY <1>1, EdgeDoes
    <3>2. /\ \A r \in Boxes : r # s => inbox'[r] = inbox[r]
          /\ \A k, v : \A r \in Boxes : Sent(r, v, k)' => Sent(r, v, k)
          /\ \A k, v : \A r \in Boxes :
               v # o.user \/ k # o.kind => (Sent(r, v, k) => Sent(r, v, k)')
          /\ Sent(s, o.user, o.kind) /\ o \in Msgs(inbox[s])
          /\ Single(inbox[s], o.user, o.kind) => ~Sent(s, o.user, o.kind)'
      BY <1>1, <3>1, Taken
    <3> QED  BY <1>2, <3>1, <3>2
  <2>5. o.app \in {NoApp, a} /\ o.kind # "destroy"
    BY <1>2, <2>1, <2>2, <2>4 DEF Mine
  <2>6. o.kind # "deploy" => (Deploying(w)' <=> Deploying(w))
    BY <2>4 DEF Deploying
  <2>7. o.kind = "deploy" => Deploying(w) /\ ~Deploying(w)'
    BY <2>1, <2>4 DEF Deploying, DeployedOnce
  <2>8. CASE notices' = notices
    <3>1. runs' = runs /\ o.kind # "deploy"
      <4>1. \A n \in MessageSet : Append(notices, n) # notices
        BY Longer DEF Types
      <4>2. \A n \in MessageSet : ~EdgeTells(s, o, n)
        BY <2>8, <4>1 DEF EdgeTells
      <4> QED  BY <1>1, <2>5, <4>2, EdgeDoes
    <3> QED  BY <2>1, <2>2, <2>3, <2>6, <2>8, <3>1, KeepsHost DEF HostKept, Told
  <2>9. ASSUME NEW n \in MessageSet, EdgeTells(s, o, n) PROVE HostOf(w)'
    <3>1. n.user = w /\ n.app = o.app /\ notices' = Append(notices, n)
      BY <1>2, <2>9 DEF EdgeTells
    <3>2. /\ \A k : Told(w, k)' <=> Told(w, k) \/ k = n.kind
          /\ \A t : LastIs(notices', w, t) <=>
               IF Says(n, w) THEN t = n.from ELSE LastIs(notices, w, t)
      <4>1. /\ \A k, v : Told(v, k)' <=> Told(v, k) \/ (v = n.user /\ k = n.kind)
            /\ \A v, t : LastIs(notices', v, t) <=>
                 IF Says(n, v) THEN t = n.from ELSE LastIs(notices, v, t)
        BY <3>1, Announced
      <4> QED  BY <3>1, <4>1
    <3>3. n.kind \in {"allocated", "pre_migrated", "migrated"} /\ n.app \in Apps /\ n.app = a
      <4>1. n.kind \in {"allocated", "pre_migrated", "migrated"}
        BY <2>9 DEF EdgeTells
      <4> QED  BY <2>5, <3>1, <4>1, MessageKinds, CentralAssumption
    <3>4. CASE n.kind = "allocated"
      <4>1. /\ o.kind = "deploy" /\ n.from = s /\ runs' = runs \cup {<<w, a, s>>}
        BY <1>2, <2>9, <3>1, <3>3, <3>4 DEF EdgeTells
      <4>2. \A c \in runs : c[1] # w
        BY <2>1, <2>7, <4>1 DEF HostOf
      <4>3. RunsAt(w, s)'
        BY <2>2, <4>1, <4>2 DEF RunsAt
      <4>4. \A t : LastIs(notices', w, t) => t = s
        BY <3>1, <3>2, <3>4, <4>1 DEF Says
      <4>5. ~Deploying(w)' /\ Told(w, "allocated")'
        BY <2>7, <3>2, <3>4, <4>1
      <4> QED  BY <4>3, <4>4, <4>5 DEF HostOf
    <3>5. CASE n.kind = "pre_migrated"
      <4>1. runs' = runs /\ o.kind # "deploy" /\ ~Says(n, w)
        BY <2>9, <3>5 DEF EdgeTells, Says
      <4> QED  BY <2>1, <2>2, <2>3, <2>6, <3>2, <3>5, <4>1, KeepsHost DEF HostKept
    <3>6. CASE n.kind = "migrated"
      <4>1. PICK d : d = n.from
        OBVIOUS
      <4>2. /\ o.kind = "migrate" /\ <<w, a, s>> \in runs /\ d # s
            /\ runs' = (runs \ {<<w, a, s>>}) \cup {<<w, a, d>>}
        BY <1>2, <2>9, <3>1, <3>3, <3>6, <4>1 DEF EdgeTells
      <4>3. ~Deploying(w)
        BY <2>1, <4>2 DEF HostOf
      <4>4. PICK t : RunsAt(w, t)
        <5>1. CASE Told(w, "allocated") \/ Told(w, "migrated")
          BY <2>1, <5>1, SomeLast DEF HostOf
        <5>2. CASE ~(Told(w, "allocated") \/ Told(w, "migrated"))
          BY <2>1, <4>3, <5>2 DEF HostOf
        <5> QED  BY <5>1, <5>2
      <4>5. {c \in runs : c[1] = w} = {<<w, a, s>>}
        BY <2>2, <4>2, <4>4 DEF RunsAt
      <4>6. RunsAt(w, d)'
        <5>1. \A c \in runs' : c[1] = w => c = <<w, a, d>>
          BY <4>2, <4>5
        <5>2. <<w, a, d>> \in runs' /\ <<w, a, d>>[1] = w
          BY <4>2
        <5> QED  BY <2>2, <5>1, <5>2 DEF RunsAt
      <4>7. \A r : LastIs(notices', w, r) => r = d
        BY <3>1, <3>2, <3>6, <4>1 DEF Says
      <4>8. ~Deploying(w)' /\ Told(w, "migrated")'
        BY <2>6, <3>2, <3>6, <4>2, <4>3
      <4> QED  BY <4>6, <4>7, <4>8 DEF HostOf
    <3> QED  BY <3>3, <3>4, <3>5, <3>6
  <2>10. notices' = notices \/ \E n \in MessageSet : EdgeTells(s, o, n)
    BY <1>1, EdgeDoes
  <2> QED  BY <2>8, <2>9, <2>10
<1> QED  BY <1>3, <1>5, HostFrom

(* The controller learns where a service runs from the last notice that    *)
(* says so; the other notices change nothing about it.                     *)
LEMMA HostNotice ==
  ASSUME Types, OnceInv, InOrder \/ (~Optimized /\ PaceInv), ~Optimized => PaceInv, HostInv,
         NEW i \in DOMAIN notices, Notices(i)
  PROVE  HostInv'
<1>1. PICK n \in MessageSet : n = notices[i] /\ n \in Msgs(notices)
  BY NoticeTypes DEF Msgs
<1>2. PICK w \in Users : w = n.user
  BY MessageKinds
<1>3. About(w)
  BY <1>1, <1>2, AboutNotice
<1>4. notices' = Rest(i) /\ runs' = runs /\ Arrived(i)
  BY NoticeStarts
<1>5. ASSUME user'[w] # NoUser PROVE HostOf(w)'
  <2>1. PICK told :
          /\ told = n.kind /\ OnceOf(w) /\ user[w] # NoUser /\ user'[w].app = user[w].app
          /\ told \in {"allocated", "migrated"} =>
               n.from \in Servers /\ At(w)' = n.from /\ inbox' = inbox
          /\ told \in {"pre_migrated", "handovered"} => At(w)' = At(w)
          /\ told = "handovered" => inbox' = inbox
          /\ told \in {"allocated", "migrated", "pre_migrated", "handovered"}
    BY <1>1, <1>2, <1>5, NoticeDoes
  <2>2. HostOf(w) /\ DeployedOnce(w) /\ (~Optimized => PaceOf(w))
    BY <2>1 DEF HostInv, OnceOf, PaceInv
  <2>3. told = "pre_migrated" => inbox' = inbox
    <3>1. PreMigratedThreshold(i) => inbox' = inbox
      <4>1. PreMigratedThreshold(i) => migPlan[w] = NoPlan
        BY DEF PaceInv, PreMigratedThreshold
      <4> QED  BY <1>1, <1>2, <4>1 DEF PreMigratedThreshold
    <3> QED  BY <1>1, <2>1, <3>1 DEF Notices, AllocatedKnown, AllocatedUnknown, PreMigratedRead,
             Migrated, HandoveredRead, Left, Receive, worldVars
  <2>4. Deploying(w)' <=> Deploying(w)
    BY <2>1, <2>3 DEF Deploying, Sent
  <2>5. /\ \A k : Told(w, k)' => Told(w, k)
        /\ \A k : k # told => (Told(w, k) => Told(w, k)')
        /\ Told(w, told)
        /\ Single(notices, w, told) => ~Told(w, told)'
        /\ \A s : ~Says(n, w) => (LastIs(notices', w, s) <=> LastIs(notices, w, s))
        /\ \A s : i = 1 /\ LastIs(notices', w, s) => LastIs(notices, w, s)
        /\ Says(n, w) /\ (\A m \in Msgs(notices') : ~Says(m, w)) => LastIs(notices, w, n.from)
    <3>1. /\ \A k, v : Told(v, k)' => Told(v, k)
          /\ \A k, v : v # n.user \/ k # n.kind => (Told(v, k) => Told(v, k)')
          /\ Told(n.user, n.kind)
          /\ Single(notices, n.user, n.kind) => ~Told(n.user, n.kind)'
      BY <1>1, <1>4, Handled
    <3>2. /\ \A v, s : ~Says(n, v) => (LastIs(notices', v, s) <=> LastIs(notices, v, s))
          /\ \A v, s : i = 1 /\ LastIs(notices', v, s) => LastIs(notices, v, s)
          /\ \A v : Says(n, v) /\ (\A m \in Msgs(notices') : ~Says(m, v)) =>
               LastIs(notices, v, n.from)
      BY <1>1, <1>4, Handled
    <3> QED  BY <1>2, <2>1, <3>1, <3>2
  <2>6. CASE told \in {"pre_migrated", "handovered"}
    <3>1. ~Says(n, w)
      BY <2>1, <2>6 DEF Says
    <3>2. \A k \in {"allocated", "migrated"} : Told(w, k)' <=> Told(w, k)
      BY <2>5, <2>6
    <3> QED  BY <1>4, <2>1, <2>2, <2>4, <2>5, <2>6, <3>1, <3>2, KeepsHost DEF HostKept
  <2>7. CASE told \in {"allocated", "migrated"}
    <3>1. PICK d : d = n.from /\ d = At(w)' /\ d \in Servers /\ Says(n, w)
      BY <1>2, <2>1, <2>7 DEF Says
    <3>2. \A s : RunsAt(w, s)' <=> RunsAt(w, s)
      BY <1>4, <2>1 DEF RunsAt
    <3>3. Deploying(w)' => ~Told(w, "migrated")' /\ \A c \in runs' : c[1] # w
      BY <1>4, <2>2, <2>4, <2>5 DEF HostOf
    <3>4. ASSUME ~Told(w, "allocated")', ~Told(w, "migrated")' PROVE RunsAt(w, d)'
      <4>1. \A m \in Msgs(notices') : ~Says(m, w)
        BY <3>4 DEF Told, Has, Is, Says
      <4>2. LastIs(notices, w, d)
        BY <2>5, <3>1, <4>1
      <4> QED  BY <2>2, <3>1, <3>2, <4>2 DEF HostOf
    <3>5. ASSUME NEW s \in Servers, LastIs(notices', w, s) PROVE RunsAt(w, s)'
      <4>1. CASE i = 1
        BY <2>2, <2>5, <3>2, <3>5, <4>1 DEF HostOf
      <4>2. CASE i # 1
        <5>1. ~InOrder
          <6>1. PICK l \in Nat : DOMAIN notices = 1 .. l
            BY LenProperties DEF Types
          <6>2. 1 \in 1 .. i - 1
            BY <4>2, <6>1
          <6> QED  BY <1>4, <6>2 DEF Arrived
        <5>2. PaceOf(w)
          BY <2>2, <5>1
        <5>3. Told(w, "allocated") => ~Told(w, "migrated")
          BY <5>2 DEF PaceOf, Moving
        <5>4. Single(notices, w, told)
          BY <2>2, <2>7, <5>2 DEF PaceOf, DeployedOnce
        <5>5. ~Told(w, "allocated")' /\ ~Told(w, "migrated")'
          BY <2>5, <2>7, <5>3, <5>4
        <5>6. Told(w, "allocated")' \/ Told(w, "migrated")'
          BY <3>5 DEF LastIs, Says, Told, Has, Is, Msgs
        <5> QED  BY <5>5, <5>6
      <4> QED  BY <4>1, <4>2
    <3> QED  BY <3>1, <3>3, <3>4, <3>5 DEF HostOf
  <2> QED  BY <2>1, <2>6, <2>7
<1> QED  BY <1>3, <1>5, HostFrom

LEMMA HostUsers ==
  ASSUME Types, OnceInv, HostInv, NEW u \in Users, UserHandsOver(u) \/ UserLeaves(u), Stays
  PROVE  HostInv'
<1>1. UNCHANGED <<user, service>>
  BY DEF Stays, dbVars
<1>2. About(u)
  BY AboutUsers DEF Stays, OnceInv
<1>3. ASSUME user'[u] # NoUser PROVE HostOf(u)'
  <2>1. HostOf(u) /\ runs' = runs
    BY <1>1, <1>3 DEF HostInv, UserHandsOver, UserLeaves
  <2>2. At(u)' = At(u)
    BY <1>1 DEF At, GetService
  <2>3. /\ \A r \in Boxes : Sent(r, u, "deploy")' <=> Sent(r, u, "deploy")
        /\ \A k : k \notin {"handovered", "leave"} => (Told(u, k)' <=> Told(u, k))
        /\ \A s : LastIs(notices', u, s) <=> LastIs(notices, u, s)
    BY UserSays
  <2>4. Deploying(u)' <=> Deploying(u)
    BY <2>3 DEF Deploying
  <2> QED  BY <1>1, <2>1, <2>2, <2>3, <2>4, KeepsHost DEF HostKept
<1> QED  BY <1>2, <1>3, HostFrom

(* Planners, answers and timers move no container by themselves.           *)
LEMMA HostSame ==
  ASSUME HostInv, NEW w \in Users, About(w), UNCHANGED <<user, notices, runs>>,
         user[w] # NoUser => At(w)' = At(w) /\ (Deploying(w)' <=> Deploying(w))
  PROVE  HostInv'
<1>1. ASSUME user'[w] # NoUser PROVE HostOf(w)'
  <2>1. HostOf(w) /\ At(w)' = At(w) /\ (Deploying(w)' <=> Deploying(w))
    BY <1>1 DEF HostInv
  <2>2. \A k : Told(w, k)' <=> Told(w, k)
    BY DEF Told
  <2> QED  BY <2>1, <2>2, KeepsHost DEF HostKept
<1> QED  BY <1>1, HostFrom

LEMMA HostPlanned ==
  ASSUME Types, HostInv, NEW x, Planned(x)
  PROVE  HostInv'
<1>1. PICK u \in Users : u = x[1]
  BY PlannedChanges
<1>2. About(u) /\ UNCHANGED <<user, notices, runs>>
  BY <1>1, AboutPlanned, PlannedChanges
<1>3. CASE PlanThreshold(x)
  <2>1. /\ At(u)' = At(u)
        /\ \A r \in Boxes : Sent(r, u, "deploy")' <=> Sent(r, u, "deploy")
    BY <1>1, <1>3, ThresholdSent
  <2>2. Deploying(u)' <=> Deploying(u)
    BY <2>1 DEF Deploying
  <2> QED  BY <1>2, <2>1, <2>2, HostSame
<1>4. CASE ~PlanThreshold(x)
  <2>1. inbox' = inbox /\ service' = service
    BY <1>4 DEF Planned, NothingPlanned, PlanMove, PlanHandover, PlanPassedOver, dbVars, worldVars
  <2>2. At(u)' = At(u) /\ (Deploying(u)' <=> Deploying(u))
    BY <1>2, <2>1 DEF At, GetService, Deploying, Sent
  <2> QED  BY <1>2, <2>2, HostSame
<1> QED  BY <1>3, <1>4

LEMMA HostAnswers ==
  ASSUME Types, HostInv, Answers
  PROVE  HostInv'
<1>1. PICK u \in Users : u = mqtt.user
  BY AnswerChanges
<1>2. About(u) /\ UNCHANGED <<user, notices, inbox, runs>>
  BY <1>1, AboutAnswers, AnswerChanges
<1>3. At(u)' = At(u)
  <2>1. CASE PreMigratedStays
    <3>1. GetService(u) # NoRow /\ service' = SetState(u, "running")
      BY <1>1, <2>1 DEF PreMigratedStays, Types
    <3> QED  BY <1>2, <3>1, NewRow
  <2>2. CASE ~PreMigratedStays
    <3>1. service' = service
      BY <2>2 DEF Answers, PreMigratedMark, PreMigratedUnknown, PreMigratedSchedule,
         HandoveredWrite, dbVars
    <3> QED  BY <1>2, <3>1 DEF At, GetService
  <2> QED  BY <2>1, <2>2
<1>4. Deploying(u)' <=> Deploying(u)
  BY <1>2 DEF Deploying, Sent
<1> QED  BY <1>2, <1>3, <1>4, HostSame

LEMMA HostTimers ==
  ASSUME Types, HostInv, RunTimers
  PROVE  HostInv'
<1>1. PICK t \in timers : TimerExpires(t) \/ TimerPublishes(t) \/ TimerEnds(t)
  BY DEF RunTimers
<1>2. PICK w \in Users : w = t.user /\ t \in Timers
  BY <1>1, TimerTypes DEF Types
<1>3. About(w)
  BY <1>1, <1>2, AboutTimers
<1>4. UNCHANGED <<user, service, runs, notices>>
  BY <1>1 DEF TimerExpires, TimerPublishes, TimerEnds, dbVars, worldVars
<1>5. At(w)' = At(w)
  BY <1>4 DEF At, GetService
<1>6. Deploying(w)' <=> Deploying(w)
  <2>1. CASE inbox' = inbox
    BY <2>1 DEF Deploying, Sent
  <2>2. CASE TimerPublishes(t)
    <3>1. PICK r \in Boxes : r = IF t.kind = "handover" THEN w ELSE t.src
      BY <1>2, TimerTypes DEF Boxes
    <3>2. PICK o \in OrderSet : o = TimerOrder(t) /\ o.kind # "deploy"
      <4>1. /\ t.user \in Users /\ t.plan \in PlanSet /\ t.app \in Apps
            /\ t.kind \in {"pre_migration", "migration", "handover"}
        BY <1>2, TimerTypes
      <4>2. TimerOrder(t) \in OrderSet /\ TimerOrder(t).kind # "deploy"
        BY <4>1, OrderTypes DEF TimerOrder, Order
      <4> QED  BY <4>2
    <3>3. inbox' = [inbox EXCEPT ![r] = Append(@, o)]
      BY <1>2, <2>2, <3>1, <3>2 DEF TimerPublishes, Publish
    <3>4. \A k, v : \A s \in Boxes :
            Sent(s, v, k)' <=> Sent(s, v, k) \/ (s = r /\ v = o.user /\ k = o.kind)
      BY <3>3, Posted
    <3> QED  BY <3>2, <3>4 DEF Deploying
  <2> QED  BY <1>1, <2>1, <2>2 DEF TimerExpires, TimerEnds, worldVars
<1> QED  BY <1>3, <1>4, <1>5, <1>6, HostSame

LEMMA HostDiscover ==
  ASSUME Types, Once, OnceInv, HostInv, Discover
  PROVE  HostInv'
<1>1. PICK u, a, b, s : Discovers(u, a, b, s)
  BY DiscoverOnce DEF OnceInv
<1>2. /\ About(u) /\ u \in Users /\ s \in Boxes
      /\ \A r \in Boxes : \A k : Sent(r, u, k)' <=> r = s /\ k = "deploy"
      /\ \A k : ~Told(u, k)' /\ ~Told(u, k)
      /\ Unheard(u) /\ UNCHANGED <<runs, notices>>
  BY <1>1, Deployed
<1>3. Deploying(u)' /\ \A c \in runs' : c[1] # u
  BY <1>2 DEF Deploying, Unheard
<1>4. \A t : ~LastIs(notices', u, t)
  BY <1>2, NoLast
<1> QED  BY <1>2, <1>3, <1>4, HostFrom DEF HostOf

LEMMA HostStutters ==
  ASSUME HostInv, UNCHANGED <<user, service, inbox, notices, runs>>
  PROVE  HostInv'
<1>1. ASSUME NEW w \in Users, HostOf(w) PROVE HostOf(w)'
  <2>1. /\ At(w)' = At(w)
        /\ Deploying(w)' <=> Deploying(w)
        /\ \A k : Told(w, k)' <=> Told(w, k)
    BY DEF At, GetService, Deploying, Sent, Told
  <2> QED  BY <1>1, <2>1, KeepsHost DEF HostKept
<1> QED  BY <1>1 DEF HostInv

LEMMA HostInit == ASSUME Init PROVE HostInv
BY Nobody DEF HostInv

LEMMA HostStep ==
  ASSUME Types, Once, OnceInv, ~setup.failing, InOrder \/ ~Optimized,
         ~Optimized => PaceInv, HostInv, [Next]_vars
  PROVE  HostInv'
<1>1. CASE HandleNotice
  BY <1>1, HostNotice DEF HandleNotice, Notices
<1>2. CASE Continue
  <2>1. (\E x : Planned(x)) \/ Answers
    BY <1>2 DEF Continue, Planned, Answers
  <2> QED  BY <2>1, HostPlanned, HostAnswers
<1>3. CASE RunTimers
  BY <1>3, HostTimers
<1>4. CASE Outside
  <2>1. Stays
    BY <1>4 DEF Outside, Stays
  <2> QED  BY <1>4, <2>1, HostEdges, HostUsers DEF Outside, Edge
<1>5. CASE Discover
  BY <1>5, HostDiscover
<1>6. CASE Planning
  BY <1>6, PlanningChanges, HostStutters
<1>7. CASE UNCHANGED vars
  BY <1>7, HostStutters DEF vars, dbVars, worldVars
<1> QED  BY <1>1, <1>2, <1>3, <1>4, <1>5, <1>6, <1>7 DEF Next

LEMMA HostAlways ==
  Spec => [](/\ Types /\ (Once => OnceInv) /\ (Once /\ ~Optimized => PaceInv)
             /\ Once /\ ~setup.failing /\ (InOrder \/ ~Optimized) => HostInv)
<1> DEFINE I == Types /\ (Once => OnceInv) /\ (Once /\ ~Optimized => PaceInv)
           J == Once /\ ~setup.failing /\ (InOrder \/ ~Optimized) => HostInv
<1>1. Init => J
  BY HostInit
<1>2. I /\ J /\ [Next]_vars => J'
  <2> SUFFICES ASSUME I, J, [Next]_vars PROVE J'
    OBVIOUS
  <2>1. setup' = setup
    BY SetupStays
  <2>2. (Once' <=> Once) /\ (Optimized' <=> Optimized) /\ (InOrder' <=> InOrder)
    BY <2>1 DEF Once, Optimized, InOrder
  <2>3. Once /\ ~setup.failing /\ (InOrder \/ ~Optimized) => HostInv'
    BY HostStep
  <2> QED  BY <2>1, <2>2, <2>3
<1>3. Spec => []I
  BY PaceAlways
<1> QED  BY <1>1, <1>2, <1>3, PTL DEF Spec

(* Once every order for a user is carried out and reported, the row of its *)
(* service names the server of the one container of it, whoever leaves     *)
(* when: with a threshold planner in whatever order the notices of         *)
(* different senders arrive, with timers when they arrive as published.    *)
THEOREM HostsKnown == Spec => []HostKnown
<1>1. ASSUME Types, OnceInv, HostInv, NEW u \in Users, Quiet(u), GetService(u) # NoRow
      PROVE  {r \in runs : r[1] = u} = {<<u, user[u].app, GetService(u).server>>}
  <2>1. user[u] # NoUser /\ HostOf(u)
    BY <1>1, RowFacts DEF HostInv
  <2>2. \A i \in DOMAIN notices : notices[i].user = u =>
          notices[i].kind \notin {"allocated", "migrated"}
    <3> SUFFICES ASSUME NEW i \in DOMAIN notices, notices[i].user = u,
                        notices[i].kind \in {"allocated", "migrated"}
                 PROVE  FALSE
      OBVIOUS
    <3> DEFINE K == {"deploy", "allocated", "pre_migrate", "pre_migrated", "migrate", "migrated"}
               D == {<<"notices", j>> : j \in {j \in DOMAIN notices :
                          notices[j].user = u /\ notices[j].kind \in K}}
    <3>1. <<"notices", i>> \in D
      OBVIOUS
    <3>2. D \subseteq OnTheWay(u, K)
      BY DEF OnTheWay
    <3>3. OnTheWay(u, K) = {}
      BY <1>1 DEF Quiet
    <3> QED  BY <3>1, <3>2, <3>3
  <2>3. ~Told(u, "allocated") /\ ~Told(u, "migrated")
    BY <2>2 DEF Told, Has, Is, Msgs
  <2>4. ~Deploying(u)
    <3> SUFFICES ASSUME NEW r \in Servers \cup Users, NEW i \in DOMAIN inbox[r],
                        inbox[r][i].user = u, inbox[r][i].kind = "deploy"
                 PROVE  FALSE
      BY DEF Deploying, Sent, Has, Is, Msgs, Boxes
    <3> DEFINE K == {"deploy", "allocated", "pre_migrate", "pre_migrated", "migrate", "migrated"}
               D(s) == {<<s, j>> : j \in {j \in DOMAIN inbox[s] :
                          inbox[s][j].user = u /\ inbox[s][j].kind \in K}}
    <3>1. <<r, i>> \in D(r)
      OBVIOUS
    <3>2. <<r, i>> \in UNION {D(s) : s \in Servers \cup Users}
      BY <3>1
    <3>3. UNION {D(s) : s \in Servers \cup Users} \subseteq OnTheWay(u, K)
      BY DEF OnTheWay
    <3>4. OnTheWay(u, K) = {}
      BY <1>1 DEF Quiet
    <3> QED  BY <3>2, <3>3, <3>4
  <2> QED  BY <2>1, <2>3, <2>4 DEF HostOf, RunsAt, At
<1>2. /\ Types /\ (Once => OnceInv) /\ (Once /\ ~Optimized => PaceInv)
      /\ Once /\ ~setup.failing /\ (InOrder \/ ~Optimized) => HostInv
      => HostKnown
  BY <1>1 DEF HostKnown
<1> QED  BY <1>2, HostAlways, PTL

-----------------------------------------------------------------------------
(* How a migration goes on when notices keep their order and nobody        *)
(* leaves.                                                                 *)

(* It is enough to look at the user a step is about.                       *)
LEMMA CalmFrom ==
  ASSUME Types, OnceInv, PaceInv, CalmInv, NEW w \in Users, About(w),
         user'[w] # NoUser => MoveOf(w)' /\ LinesOf(w)',
         user'[w] = NoUser => user[w] = NoUser /\ discoveries'[w] = discoveries[w],
         \A m \in Msgs(notices') : m.kind # "leave"
  PROVE  CalmInv'
<1>1. ASSUME NEW v \in Users \ {w}, user'[v] # NoUser PROVE MoveOf(v)' /\ LinesOf(v)'
  <2>1. user[v] # NoUser
    BY <1>1 DEF About
  <2>2. PaceOf(v) /\ MoveOf(v) /\ LinesOf(v) /\ GetService(v) # NoRow
    BY <2>1 DEF PaceInv, CalmInv, OnceInv, OnceOf, Mine
  <2>3. At(v) \in Boxes
    BY <2>2, RowFacts DEF At, Boxes
  <2> QED  BY <2>2, <2>3, OthersMove
<1>2. ASSUME NEW v \in Users \ {w}, user'[v] = NoUser PROVE discoveries'[v] = 0
  BY <1>2 DEF About, CalmInv
<1>3. user'[w] = NoUser => discoveries'[w] = 0
  BY DEF CalmInv
<1> QED  BY <1>1, <1>2, <1>3 DEF CalmInv

(* Only an order to hand over goes, or only bits of a handover change.     *)
CalmKept(w) ==
  /\ State(w)' = State(w) /\ At(w)' = At(w) /\ mstate'[w] # Unknown
  /\ \A b \in {"PRE_MIGRATE", "PRE_MIGRATED", "MIGRATE"} : b \in mstate'[w] <=> b \in mstate[w]
  /\ \A r \in Boxes : \A k \in {"deploy", "pre_migrate", "migrate"} :
       Sent(r, w, k)' <=> Sent(r, w, k)
  /\ \A k \in {"allocated", "pre_migrated", "migrated"} : Told(w, k)' <=> Told(w, k)
  /\ \A r \in Boxes :
       /\ Single(inbox[r], w, "pre_migrate") => Single(inbox'[r], w, "pre_migrate")
       /\ Before(inbox[r], w, "pre_migrate", "migrate") =>
            Before(inbox'[r], w, "pre_migrate", "migrate")
       /\ \A m \in Msgs(inbox'[r]) : Is(m, w, "migrate") => m \in Msgs(inbox[r])
  /\ Single(notices, w, "pre_migrated") => Single(notices', w, "pre_migrated")
  /\ Before(notices, w, "pre_migrated", "migrated") =>
       Before(notices', w, "pre_migrated", "migrated")

LEMMA KeepsCalm ==
  ASSUME NEW w, MoveOf(w), LinesOf(w), CalmKept(w), At(w) \in Boxes
  PROVE  MoveOf(w)' /\ LinesOf(w)'
<1>1. PICK h \in Boxes : h = At(w) /\ h = At(w)'
  BY DEF CalmKept
<1>2. /\ \A r \in Boxes : \A k \in {"deploy", "pre_migrate", "migrate"} :
           Sent(r, w, k)' <=> Sent(r, w, k)
      /\ \A k \in {"allocated", "pre_migrated", "migrated"} : Told(w, k)' <=> Told(w, k)
  BY DEF CalmKept
<1>3. Deploying(w)' <=> Deploying(w)
  BY <1>2 DEF Deploying
<1>4. Ordered(w)' <=> Ordered(w)
  BY <1>2 DEF Ordered
<1>5. Prepared(w)' <=> Prepared(w)
  BY <1>2 DEF Prepared
<1>6. Moving(w)' <=> Moving(w)
  BY <1>2, <1>4 DEF Moving
<1>7. MoveOf(w)'
  BY <1>2, <1>3, <1>5, <1>6 DEF MoveOf, CalmKept
<1>8. /\ Single(inbox'[h], w, "pre_migrate") /\ Single(notices', w, "pre_migrated")
      /\ Before(inbox'[h], w, "pre_migrate", "migrate")
      /\ Before(notices', w, "pre_migrated", "migrated")
      /\ \A m \in Msgs(inbox'[h]) : Is(m, w, "migrate") => m.plan.server # h
  BY <1>1 DEF LinesOf, CalmKept
<1>9. \A r \in Boxes, k \in {"deploy", "pre_migrate", "migrate"} : Sent(r, w, k)' => r = h
  BY <1>1, <1>2 DEF LinesOf
<1>10. Sent(h, w, "pre_migrate")' => Ordered(w)' /\ ~Told(w, "pre_migrated")'
  BY <1>1, <1>2, <1>4 DEF LinesOf
<1> QED  BY <1>1, <1>7, <1>8, <1>9, <1>10 DEF LinesOf

(* An order to move a service is at the server that runs it.               *)
LEMMA MovedAtHost ==
  ASSUME Types, OnceInv, PaceInv, HostInv, CalmInv, NEW s \in Servers,
         NEW o \in Msgs(inbox[s]), o \in OrderSet, NEW w \in Users, w = o.user,
         o.kind \in {"pre_migrate", "migrate"}
  PROVE  /\ s = At(w) /\ user[w] # NoUser /\ o.app = user[w].app
         /\ <<w, o.app, s>> \in runs
         /\ o.kind = "migrate" => o.plan.server # s
<1>1. s \in Boxes /\ Sent(s, w, o.kind)
  BY DEF Boxes, Sent, Has, Is
<1>2. OnceOf(w) /\ discoveries[w] # 0
  BY <1>1 DEF OnceInv, OnceOf, Unheard
<1>3. user[w] # NoUser
  BY <1>2 DEF CalmInv
<1>4. Mine(w) /\ PaceOf(w) /\ HostOf(w) /\ MoveOf(w) /\ LinesOf(w)
  BY <1>2, <1>3 DEF OnceOf, PaceInv, HostInv, CalmInv
<1>5. s = At(w)
  BY <1>1, <1>4 DEF LinesOf
<1>6. o.app = user[w].app
  BY <1>1, <1>4, OrderKinds, CentralAssumption DEF Mine
<1>7. Ordered(w)
  BY <1>1, <1>4, <1>5 DEF LinesOf, Ordered
<1>8. ~Deploying(w) /\ ~Told(w, "allocated") /\ ~Told(w, "migrated")
  BY <1>4, <1>7 DEF PaceOf, Moving
<1>9. RunsAt(w, s)
  BY <1>4, <1>5, <1>8 DEF HostOf
<1>10. o.kind = "migrate" => o.plan.server # s
  BY <1>4, <1>5 DEF LinesOf, Is
<1> QED  BY <1>3, <1>5, <1>6, <1>9, <1>10 DEF RunsAt

(* An edge server carries an order out and tells: the notice takes the     *)
(* place of the order.                                                     *)
LEMMA CalmEdges ==
  ASSUME Types, OnceInv, PaceInv, HostInv, CalmInv, ~setup.failing,
         NEW s \in Servers, Edge(s), Stays
  PROVE  CalmInv'
<1>1. PICK o \in OrderSet : o = Head(inbox[s])
  BY EdgeDoes
<1>2. PICK w \in Users : w = o.user
  BY <1>1, EdgeDoes
<1>3. About(w)
  BY <1>1, <1>2, AboutEdges DEF Edge, Stays
<1>4. UNCHANGED <<user, service, mstate, discoveries>>
  BY DEF Stays, dbVars, boundVars
<1>5. /\ s \in Boxes /\ o \in Msgs(inbox[s])
      /\ \A r \in Boxes : r # s => inbox'[r] = inbox[r]
      /\ Msgs(inbox'[s]) \subseteq Msgs(inbox[s])
      /\ \A k : \A r \in Boxes : Sent(r, w, k)' => Sent(r, w, k)
      /\ \A k : \A r \in Boxes : k # o.kind => (Sent(r, w, k) => Sent(r, w, k)')
      /\ Sent(s, w, o.kind) /\ (Single(inbox[s], w, o.kind) => ~Sent(s, w, o.kind)')
      /\ \A k : Single(inbox[s], w, k) => Single(inbox'[s], w, k)
      /\ \A k, l : Before(inbox[s], w, k, l) => Before(inbox'[s], w, k, l)
      /\ \A k : Before(inbox[s], w, k, o.kind) => ~Sent(s, w, k)
  <2>1. s \in Boxes /\ inbox[s] # <<>> /\ inbox' = [inbox EXCEPT ![s] = Tail(@)]
    BY <1>1, EdgeDoes
  <2>2. /\ o \in Msgs(inbox[s])
        /\ \A r \in Boxes : r # s => inbox'[r] = inbox[r]
        /\ Msgs(inbox[s]) = Msgs(inbox'[s]) \cup {o}
        /\ \A k, v : \A r \in Boxes : Sent(r, v, k)' => Sent(r, v, k)
        /\ \A k, v : \A r \in Boxes :
             v # o.user \/ k # o.kind => (Sent(r, v, k) => Sent(r, v, k)')
    BY <1>1, <2>1, Taken
  <2>3. /\ Sent(s, o.user, o.kind)
        /\ Single(inbox[s], o.user, o.kind) => ~Sent(s, o.user, o.kind)'
        /\ \A k : Before(inbox[s], o.user, k, o.kind) => ~Sent(s, o.user, k)
    BY <1>1, <2>1, Taken
  <2>4. /\ \A v, k : Single(inbox[s], v, k) => Single(inbox'[s], v, k)
        /\ \A v, k, l : Before(inbox[s], v, k, l) => Before(inbox'[s], v, k, l)
    BY <1>1, <2>1, Taken
  <2> QED  BY <1>2, <2>1, <2>2, <2>3, <2>4
<1>6. /\ OnceOf(w) /\ user[w] # NoUser /\ user'[w] # NoUser
  <2>1. OnceOf(w) /\ discoveries[w] # 0
    BY <1>2, <1>5 DEF OnceInv, OnceOf, Unheard
  <2> QED  BY <1>4, <2>1 DEF CalmInv
<1>7. Mine(w) /\ DeployedOnce(w) /\ PaceOf(w) /\ MoveOf(w) /\ LinesOf(w)
  BY <1>6 DEF OnceOf, PaceInv, CalmInv
<1>8. o.kind \in {"deploy", "pre_migrate", "migrate"}
  BY <1>1, <1>2, <1>5, <1>7, EdgeDoes, Zenon DEF Mine
<1>9. s = At(w) /\ At(w)' = At(w) /\ State(w)' = State(w)
  BY <1>4, <1>5, <1>7, <1>8, Zenon DEF LinesOf, At, State, GetService
<1>10. o.kind \in {"pre_migrate", "migrate"} =>
         <<o.user, o.app, s>> \in runs /\ (o.kind = "migrate" => o.plan.server # s)
  BY <1>2, <1>5, MovedAtHost
<1>11. PICK n \in MessageSet : EdgeTells(s, o, n)
  <2>1. \A n \in MessageSet : Append(notices, n) # notices
    BY Longer DEF Types
  <2>2. CASE o.kind \in {"deploy", "migrate"}
    BY <1>1, <1>10, <2>2, EdgeDoes
  <2>3. CASE o.kind = "pre_migrate"
    <3>1. EdgePreMigrates(s)
      BY <1>1, <2>3 DEF Edge, EdgeDeploys, EdgeDestroys, EdgePreMigrates, EdgeMigrates, Take
    <3>2. PICK n \in MessageSet : n = Notice("pre_migrated", o.user, o.app, s, o.plan)
      BY <2>3, OrderKinds DEF Notice, MessageSet
    <3>3. notices' = Append(notices, n)
      BY <1>1, <1>10, <2>3, <3>1, <3>2 DEF EdgePreMigrates, Tell
    <3>4. notices' # notices
      BY <2>1, <3>3
    <3> QED  BY <1>1, <3>4, EdgeDoes
  <2> QED  BY <1>8, <2>2, <2>3
<1>12. PICK told : told = n.kind
  OBVIOUS
<1>13. /\ told \in {"allocated", "pre_migrated", "migrated"}
       /\ n.user = w /\ notices' = Append(notices, n)
       /\ told = "allocated" <=> o.kind = "deploy"
       /\ told = "pre_migrated" <=> o.kind = "pre_migrate"
       /\ told = "migrated" <=> o.kind = "migrate"
  BY <1>2, <1>8, <1>11, <1>12 DEF EdgeTells
<1>14. /\ \A k : Told(w, k)' <=> Told(w, k) \/ k = told
       /\ \A k : Single(notices, w, k) /\ ~(k = told /\ Told(w, k)) => Single(notices', w, k)
       /\ \A k, l : Before(notices, w, k, l) /\ ~(k = told /\ (Told(w, l) \/ k = l)) =>
            Before(notices', w, k, l)
       /\ Msgs(notices') = Msgs(notices) \cup {n}
  <2>1. /\ \A k, v : Told(v, k)' <=> Told(v, k) \/ (v = n.user /\ k = n.kind)
        /\ Msgs(notices') = Msgs(notices) \cup {n}
        /\ \A v, k : Single(notices, v, k) /\ ~(Is(n, v, k) /\ Told(v, k)) =>
             Single(notices', v, k)
        /\ \A v, k, l : Before(notices, v, k, l) /\ ~(Is(n, v, k) /\ (Told(v, l) \/ k = l)) =>
             Before(notices', v, k, l)
    BY <1>13, Announced
  <2>2. \A k : Is(n, w, k) <=> k = told
    BY <1>12, <1>13 DEF Is
  <2> QED  BY <1>12, <1>13, <2>1, <2>2
<1>15. \A m \in Msgs(notices') : m.kind # "leave"
  BY <1>12, <1>13, <1>14 DEF CalmInv
<1>16. /\ Single(inbox'[s], w, "pre_migrate") /\ Before(inbox'[s], w, "pre_migrate", "migrate")
       /\ \A m \in Msgs(inbox'[s]) : Is(m, w, "migrate") => m.plan.server # s
       /\ \A r \in Boxes, k \in {"deploy", "pre_migrate", "migrate"} : Sent(r, w, k)' => r = s
  BY <1>5, <1>7, <1>9 DEF LinesOf
<1>17. MoveOf(w)' /\ LinesOf(w)'
  <2>1. CASE told = "allocated"
    <3>1. ~Moving(w)' /\ ~Moving(w)
      <4>1. State(w) = "init"
        BY <1>5, <1>7, <1>13, <2>1 DEF PaceOf, Deploying
      <4>2. ~Moving(w)
        BY <1>7, <4>1 DEF PaceOf
      <4> QED  BY <1>5, <1>14, <2>1, <4>2 DEF Moving, Ordered
    <3>2. ~Prepared(w)' /\ ~Prepared(w)
      <4>1. ~Prepared(w)
        BY <1>7, <3>1 DEF MoveOf
      <4> QED  BY <1>5, <1>14, <2>1, <4>1 DEF Prepared
    <3>3. Told(w, "allocated")'
      BY <1>14, <2>1
    <3>4. MoveOf(w)'
      BY <1>4, <1>7, <1>9, <3>1, <3>2, <3>3 DEF MoveOf
    <3>5. Single(notices', w, "pre_migrated") /\ Before(notices', w, "pre_migrated", "migrated")
      BY <1>7, <1>14, <2>1 DEF LinesOf
    <3>6. ~Sent(s, w, "pre_migrate")'
      BY <1>5, <3>2 DEF Prepared
    <3> QED  BY <1>9, <1>16, <3>4, <3>5, <3>6 DEF LinesOf
  <2>2. CASE told = "pre_migrated"
    <3>1. Ordered(w) /\ ~Told(w, "pre_migrated") /\ ~Told(w, "migrated") /\ ~Deploying(w)
      <4>1. Ordered(w) /\ ~Told(w, "pre_migrated")
        BY <1>5, <1>7, <1>9, <1>13, <2>2 DEF LinesOf
      <4> QED  BY <1>7, <4>1 DEF PaceOf, Moving
    <3>2. Ordered(w)'
      BY <1>5, <1>13, <2>2, <3>1 DEF Ordered
    <3>3. Moving(w) /\ Moving(w)'
      BY <3>1, <3>2 DEF Moving
    <3>4. State(w) # "init"
      BY <1>7, <3>3 DEF PaceOf
    <3>5. MoveOf(w)'
      BY <1>4, <1>7, <1>9, <3>3, <3>4 DEF MoveOf
    <3>6. Single(notices', w, "pre_migrated") /\ Before(notices', w, "pre_migrated", "migrated")
      BY <1>7, <1>14, <2>2, <3>1 DEF LinesOf
    <3>7. ~Sent(s, w, "pre_migrate")'
      BY <1>5, <1>7, <1>9, <1>13, <2>2 DEF LinesOf
    <3> QED  BY <1>9, <1>16, <3>5, <3>6, <3>7 DEF LinesOf
  <2>3. CASE told = "migrated"
    <3>1. Ordered(w)
      BY <1>5, <1>13, <2>3 DEF Ordered
    <3>2. Moving(w) /\ Moving(w)'
      BY <1>14, <2>3, <3>1 DEF Moving
    <3>3. State(w) # "init"
      BY <1>7, <3>2 DEF PaceOf
    <3>4. MoveOf(w)'
      BY <1>4, <1>7, <1>9, <3>2, <3>3 DEF MoveOf
    <3>5. Single(notices', w, "pre_migrated") /\ Before(notices', w, "pre_migrated", "migrated")
      BY <1>7, <1>14, <2>3 DEF LinesOf
    <3>6. ~Sent(s, w, "pre_migrate")'
      BY <1>5, <1>7, <1>9, <1>13, <2>3 DEF LinesOf
    <3> QED  BY <1>9, <1>16, <3>4, <3>5, <3>6 DEF LinesOf
  <2> QED  BY <1>13, <2>1, <2>2, <2>3
<1> QED  BY <1>3, <1>6, <1>15, <1>17, CalmFrom

(* The controller hears of a deployment or of a move that is over: nothing *)
(* is on its way for the service any more.                                 *)
LEMMA CalmReported ==
  ASSUME NEW w, MoveOf(w)', At(w)' \in Boxes, LinesOf(w),
         \A r \in Boxes : \A k \in {"deploy", "pre_migrate", "migrate"} : ~Sent(r, w, k)',
         Single(notices', w, "pre_migrated"), Before(notices', w, "pre_migrated", "migrated")
  PROVE  LinesOf(w)'
<1>1. PICK h \in Boxes : h = At(w)'
  OBVIOUS
<1>2. /\ ~Sent(h, w, "pre_migrate")' /\ ~Sent(h, w, "migrate")'
      /\ \A r \in Boxes, k \in {"deploy", "pre_migrate", "migrate"} : Sent(r, w, k)' => r = h
  OBVIOUS
<1>3. /\ Single(inbox'[h], w, "pre_migrate") /\ Before(inbox'[h], w, "pre_migrate", "migrate")
      /\ \A m \in Msgs(inbox'[h]) : Is(m, w, "migrate") => m.plan.server # h
  BY <1>2 DEF Sent, Has, Msgs, Single, Before
<1> QED  BY <1>1, <1>2, <1>3 DEF LinesOf

LEMMA CalmNotice ==
  ASSUME Types, OnceInv, PaceInv, CalmInv, InOrder, ~Optimized,
         NEW i \in DOMAIN notices, Notices(i)
  PROVE  CalmInv'
<1>1. PICK n \in MessageSet : n = notices[i] /\ n \in Msgs(notices)
  BY NoticeTypes DEF Msgs
<1>2. PICK w \in Users : w = n.user
  BY MessageKinds
<1>3. About(w)
  BY <1>1, <1>2, AboutNotice
<1>4. notices' = Rest(i) /\ Arrived(i) /\ discoveries' = discoveries
  BY NoticeStarts
<1>5. i = 1
  <2>1. PICK l \in Nat : DOMAIN notices = 1 .. l
    BY LenProperties DEF Types
  <2>2. i # 1 => 1 \in 1 .. i - 1
    BY <2>1
  <2> QED  BY <1>4, <2>2 DEF Arrived
<1>6. /\ \A k : Told(w, k)' => Told(w, k)
      /\ \A k : k # n.kind => (Told(w, k) => Told(w, k)')
      /\ Told(w, n.kind) /\ Msgs(notices') \subseteq Msgs(notices)
      /\ Single(notices, w, n.kind) => ~Told(w, n.kind)'
      /\ \A k : Single(notices, w, k) => Single(notices', w, k)
      /\ \A k, l : Before(notices, w, k, l) => Before(notices', w, k, l)
      /\ \A k : Before(notices, w, k, n.kind) => ~Told(w, k)
  <2>1. /\ \A k, v : Told(v, k)' => Told(v, k)
        /\ \A k, v : v # n.user \/ k # n.kind => (Told(v, k) => Told(v, k)')
        /\ Told(n.user, n.kind) /\ Msgs(notices) = Msgs(notices') \cup {n}
        /\ Single(notices, n.user, n.kind) => ~Told(n.user, n.kind)'
    BY <1>1, <1>4, Handled
  <2>2. /\ \A v, k : Single(notices, v, k) => Single(notices', v, k)
        /\ \A v, k, l : Before(notices, v, k, l) => Before(notices', v, k, l)
        /\ \A k : i = 1 /\ Before(notices, n.user, k, n.kind) => ~Told(n.user, k)
    BY <1>1, <1>4, Handled
  <2> QED  BY <1>2, <1>5, <2>1, <2>2
<1>7. \A m \in Msgs(notices') : m.kind # "leave"
  BY <1>6 DEF CalmInv
<1>8. user'[w] # NoUser
  <2>1. user[w] # NoUser
    BY <1>1, <1>2 DEF CalmInv, OnceInv, OnceOf, Unheard
  <2>2. ~Left(i)
    BY <1>1 DEF CalmInv, Left, Receive
  <2>3. ~(user'[w] = NoUser)
    <3>1. GetService(w) # NoRow /\ user[w].app \in Apps
      BY <2>1, RowFacts DEF OnceInv, OnceOf, Mine
    <3>2. user' = user \/ \E b : user' = [user EXCEPT ![w].bts = b]
      BY <1>1, <1>2, <2>1, <2>2, <3>1 DEF Notices, AllocatedKnown, AllocatedUnknown,
         PreMigratedThreshold, PreMigratedRead, Migrated, HandoveredRead
    <3>3. user'[w].app = user[w].app
      <4>1. user \in [Users -> UserRows] /\ user[w] \in UserRows
        BY DEF Types
      <4>2. \A r \in UserRows : \A b : [r EXCEPT !.bts = b].app = r.app
        BY DEF UserRows, NoUser
      <4>3. CASE user' = user
        BY <4>3
      <4>4. ASSUME NEW b, user' = [user EXCEPT ![w].bts = b] PROVE user'[w].app = user[w].app
        <5>1. user'[w] = [user[w] EXCEPT !.bts = b]
          BY <4>1, <4>4
        <5> QED  BY <4>1, <4>2, <5>1
      <4> QED  BY <3>2, <4>3, <4>4
    <3> QED  BY <3>1, <3>3, CentralAssumption DEF NoUser
  <2> QED  BY <2>3
<1>9. PICK told :
        /\ told = n.kind /\ OnceOf(w) /\ user[w] # NoUser
        /\ told \in {"allocated", "migrated"} =>
             /\ n.from \in Servers /\ State(w)' = "running" /\ At(w)' = n.from
             /\ mstate' = [mstate EXCEPT ![w] = RUNNING] \/ mstate' = MigratedBits(w)
             /\ inbox' = inbox
        /\ told = "pre_migrated" => State(w)' = "pre_migrated" /\ At(w)' = At(w)
        /\ told = "handovered" =>
             State(w)' = State(w) /\ At(w)' = At(w) /\ inbox' = inbox /\ mstate' = mstate
        /\ told \in {"allocated", "migrated", "pre_migrated", "handovered"}
  BY <1>1, <1>2, <1>8, NoticeDoes
<1>10. DeployedOnce(w) /\ PaceOf(w) /\ MoveOf(w) /\ LinesOf(w) /\ Mine(w)
  BY <1>9 DEF OnceOf, PaceInv, CalmInv
<1>11. told = "pre_migrated" => inbox' = inbox /\ mstate' = mstate
  <2>1. migPlan[w] = NoPlan
    BY DEF PaceInv
  <2>2. PreMigratedThreshold(i) => inbox' = inbox /\ mstate' = mstate
    BY <1>1, <1>2, <2>1 DEF PreMigratedThreshold
  <2> QED  BY <1>1, <1>9, <2>2 DEF Notices, AllocatedKnown, AllocatedUnknown, PreMigratedRead,
           Migrated, HandoveredRead, Left, Receive
<1>12. inbox' = inbox
  BY <1>9, <1>11
<1>13. /\ \A r \in Boxes : \A k : Sent(r, w, k)' <=> Sent(r, w, k)
       /\ Deploying(w)' <=> Deploying(w)
       /\ Ordered(w)' <=> Ordered(w)
  BY <1>12 DEF Sent, Deploying, Ordered
<1>14. /\ Single(notices', w, "pre_migrated")
       /\ Before(notices', w, "pre_migrated", "migrated")
  BY <1>6, <1>10 DEF LinesOf
<1>15. MoveOf(w)' /\ LinesOf(w)'
  <2>1. CASE told = "handovered"
    <3>1. At(w) \in Boxes
      BY <1>10, RowFacts DEF Mine, At, Boxes
    <3>2. \A k \in {"allocated", "pre_migrated", "migrated"} : Told(w, k)' <=> Told(w, k)
      BY <1>6, <1>9, <2>1
    <3>3. mstate[w] # Unknown
      BY <1>10 DEF MoveOf
    <3>4. CalmKept(w)
      BY <1>6, <1>9, <1>12, <1>13, <1>14, <2>1, <3>2, <3>3 DEF CalmKept
    <3> QED  BY <1>10, <3>1, <3>4, KeepsCalm
  <2>2. CASE told = "pre_migrated"
    <3>1. Moving(w)' /\ Moving(w) /\ State(w) # "init"
      <4>1. Moving(w)
        BY <1>6, <1>9, <1>10, <2>2 DEF MoveOf, Prepared
      <4>2. State(w) # "init"
        BY <1>10, <4>1 DEF PaceOf
      <4> QED  BY <1>6, <1>9, <1>13, <2>2, <4>1, <4>2 DEF Moving
    <3>2. MoveOf(w)'
      BY <1>9, <1>10, <1>11, <2>2, <3>1 DEF MoveOf
    <3>3. PICK h : h = At(w) /\ h = At(w)'
      BY <1>9, <2>2
    <3>4. Sent(h, w, "pre_migrate")' => Ordered(w)' /\ ~Told(w, "pre_migrated")'
      <4>1. Sent(h, w, "pre_migrate")' => Sent(h, w, "pre_migrate")
        BY <1>12 DEF Sent
      <4> QED  BY <1>6, <1>10, <1>13, <3>3, <4>1 DEF LinesOf
    <3>5. \A r \in Boxes, k \in {"deploy", "pre_migrate", "migrate"} : Sent(r, w, k)' => r = h
      BY <1>10, <1>13, <3>3 DEF LinesOf
    <3>6. /\ Single(inbox'[h], w, "pre_migrate")
          /\ Before(inbox'[h], w, "pre_migrate", "migrate")
          /\ \A m \in Msgs(inbox'[h]) : Is(m, w, "migrate") => m.plan.server # h
      BY <1>10, <1>12, <3>3 DEF LinesOf
    <3> QED  BY <1>14, <3>2, <3>3, <3>4, <3>5, <3>6 DEF LinesOf
  <2>3. CASE told \in {"allocated", "migrated"}
    <3>1. /\ ~Ordered(w) /\ ~Told(w, "migrated")' /\ ~Deploying(w)
          /\ ~Prepared(w)'
      <4>1. CASE told = "allocated"
        <5>1. State(w) = "init" /\ ~Deploying(w)
          BY <1>6, <1>9, <1>10, <4>1 DEF PaceOf, DeployedOnce
        <5>2. ~Moving(w) /\ ~Prepared(w)
          BY <1>10, <5>1 DEF PaceOf
        <5> QED  BY <1>6, <1>13, <5>1, <5>2 DEF Moving, Prepared
      <4>2. CASE told = "migrated"
        <5>1. ~Ordered(w) /\ ~Told(w, "migrated")'
          BY <1>6, <1>9, <1>10, <4>2 DEF PaceOf
        <5>2. State(w) # "init"
          BY <1>6, <1>9, <1>10, <4>2 DEF PaceOf, Moving
        <5>3. ~Deploying(w)
          BY <1>10, <5>2 DEF PaceOf
        <5>4. ~Told(w, "pre_migrated")
          BY <1>6, <1>9, <1>10, <4>2 DEF LinesOf
        <5>5. \A r \in Boxes : ~Sent(r, w, "pre_migrate")
          BY <1>10, <5>1 DEF LinesOf
        <5> QED  BY <1>6, <1>13, <5>1, <5>3, <5>4, <5>5 DEF Prepared
      <4> QED  BY <2>3, <4>1, <4>2
    <3>2. ~Moving(w)' /\ ~Deploying(w)'
      BY <1>13, <3>1 DEF Moving
    <3>3. mstate'[w] = RUNNING
      BY <1>9, <1>10, <2>3 DEF MigratedBits, MoveOf, Types
    <3>4. MoveOf(w)'
      <4>1. RUNNING # Unknown /\ \A b \in {"PRE_MIGRATE", "PRE_MIGRATED", "MIGRATE"} : b \notin RUNNING
        BY BitFacts DEF RUNNING, Unknown
      <4> QED  BY <1>9, <2>3, <3>1, <3>2, <3>3, <4>1 DEF MoveOf
    <3>5. At(w)' \in Boxes
      BY <1>9, <2>3 DEF Boxes
    <3>6. \A r \in Boxes : \A k \in {"deploy", "pre_migrate", "migrate"} : ~Sent(r, w, k)'
      BY <3>1, <3>2, <1>13 DEF Prepared, Ordered, Deploying
    <3> QED  BY <1>10, <1>14, <3>4, <3>5, <3>6, CalmReported
  <2> QED  BY <1>9, <2>1, <2>2, <2>3
<1> QED  BY <1>3, <1>7, <1>8, <1>15, CalmFrom

LEMMA CalmUsers ==
  ASSUME Types, OnceInv, PaceInv, CalmInv, ~setup.leaving,
         NEW u \in Users, UserHandsOver(u) \/ UserLeaves(u), Stays
  PROVE  CalmInv'
<1>1. UNCHANGED <<user, service, mstate, discoveries>>
  BY DEF Stays, dbVars, boundVars
<1>2. About(u)
  BY AboutUsers DEF Stays, OnceInv
<1>3. \A m \in Msgs(notices') : m.kind # "leave"
  <2>1. CASE notices' = notices
    BY <2>1 DEF CalmInv
  <2>2. ASSUME NEW n \in MessageSet, notices' = Append(notices, n), n.kind = "handovered"
        PROVE  \A m \in Msgs(notices') : m.kind # "leave"
    <3>1. Msgs(notices') = Msgs(notices) \cup {n}
      BY <2>2, Announced
    <3> QED  BY <2>2, <3>1 DEF CalmInv
  <2> QED  BY <2>1, <2>2, UserSays
<1>4. ASSUME user'[u] # NoUser PROVE MoveOf(u)' /\ LinesOf(u)'
  <2>1. MoveOf(u) /\ LinesOf(u) /\ Mine(u)
    BY <1>1, <1>4 DEF CalmInv, OnceInv, OnceOf
  <2>2. At(u) \in Boxes
    BY <2>1, RowFacts DEF Mine, At, Boxes
  <2>3. State(u)' = State(u) /\ At(u)' = At(u)
    BY <1>1 DEF State, At, GetService
  <2>4. /\ \A r \in Boxes :
             /\ Msgs(inbox'[r]) \subseteq Msgs(inbox[r])
             /\ \A k : k # "handover" => (Sent(r, u, k)' <=> Sent(r, u, k))
             /\ \A k : Single(inbox[r], u, k) => Single(inbox'[r], u, k)
             /\ \A k, l : Before(inbox[r], u, k, l) => Before(inbox'[r], u, k, l)
        /\ \A k : k \notin {"handovered", "leave"} =>
             /\ Told(u, k)' <=> Told(u, k)
             /\ Single(notices, u, k) => Single(notices', u, k)
             /\ \A l : Before(notices, u, k, l) => Before(notices', u, k, l)
    BY UserSays
  <2>5. mstate[u] # Unknown
    BY <2>1 DEF MoveOf
  <2>6. CalmKept(u)
    BY <1>1, <2>3, <2>4, <2>5 DEF CalmKept
  <2> QED  BY <2>1, <2>2, <2>6, KeepsCalm
<1> QED  BY <1>1, <1>2, <1>3, <1>4, CalmFrom

(* Nothing happens in any queue, or to any row.                            *)
LEMMA CalmSame ==
  ASSUME Types, OnceInv, CalmInv, NEW u \in Users, user[u] # NoUser, mstate'[u] # Unknown,
         UNCHANGED <<user, service, inbox, notices>>,
         \A b \in {"PRE_MIGRATE", "PRE_MIGRATED", "MIGRATE"} : b \in mstate'[u] <=> b \in mstate[u]
  PROVE  MoveOf(u)' /\ LinesOf(u)'
<1>1. MoveOf(u) /\ LinesOf(u) /\ Mine(u)
  BY DEF CalmInv, OnceInv, OnceOf
<1>2. At(u) \in Boxes
  BY <1>1, RowFacts DEF Mine, At, Boxes
<1>3. State(u)' = State(u) /\ At(u)' = At(u)
  BY DEF State, At, GetService
<1>4. /\ \A r \in Boxes : \A k : Sent(r, u, k)' <=> Sent(r, u, k)
      /\ \A k : Told(u, k)' <=> Told(u, k)
  BY DEF Sent, Told
<1>5. CalmKept(u)
  BY <1>3, <1>4 DEF CalmKept
<1> QED  BY <1>1, <1>2, <1>5, KeepsCalm

(* A plan is carried out at once: the preparation, then the move.          *)
LEMMA CalmPlanned ==
  ASSUME Types, OnceInv, PaceInv, CalmInv, ~Optimized, NEW x, Planned(x)
  PROVE  CalmInv'
<1>1. PICK u \in Users : u = x[1]
  BY PlannedChanges
<1>2. /\ mqtt.at = "planning" /\ x \in mqtt.todo /\ About(u)
      /\ UNCHANGED <<user, notices, discoveries>>
  <2>1. NextPlan(x) /\ UNCHANGED <<user, notices, discoveries>>
    BY PlannedChanges
  <2> QED  BY <1>1, <2>1, AboutPlanned DEF NextPlan
<1>3. OnceOf(u) /\ user[u] # NoUser /\ PaceOf(u) /\ MoveOf(u) /\ LinesOf(u) /\ Mine(u)
  BY <1>1, <1>2 DEF OnceInv, WorkInv, PaceInv, CalmInv, OnceOf
<1>4. \A m \in Msgs(notices') : m.kind # "leave"
  BY <1>2 DEF CalmInv
<1>5. CASE NothingPlanned(x)
  <2>1. UNCHANGED <<user, service, inbox, notices, mstate>>
    BY <1>5 DEF NothingPlanned, dbVars, worldVars
  <2>2. mstate[u] # Unknown
    BY <1>3 DEF MoveOf
  <2>3. MoveOf(u)' /\ LinesOf(u)'
    BY <1>3, <2>1, <2>2, CalmSame
  <2> QED  BY <1>2, <1>3, <1>4, <2>3, CalmFrom
<1>6. CASE PlanThreshold(x)
  <2>1. PICK c, d : c = Moves(x) /\ d = Sends(x)
    OBVIOUS
  <2>2. PICK h \in Boxes : h = At(u)
    BY <1>3, RowFacts DEF Mine, At, Boxes
  <2>3. /\ \A r \in Boxes :
              /\ Sent(r, u, "deploy")' <=> Sent(r, u, "deploy")
              /\ Sent(r, u, "pre_migrate")' <=> Sent(r, u, "pre_migrate") \/ (r = h /\ c)
              /\ Sent(r, u, "migrate")' <=> Sent(r, u, "migrate") \/ (r = h /\ d)
        /\ h = At(u)' /\ State(u)' = IF c THEN "pre_migrate" ELSE State(u)
        /\ c => State(u) = "running" /\ x[2].server # h
        /\ \A b \in {"PRE_MIGRATE", "PRE_MIGRATED", "MIGRATE"} :
             b \in mstate'[u] <=> \/ b \in mstate[u]
                                  \/ b = "PRE_MIGRATE" /\ c
                                  \/ b = "MIGRATE" /\ d
        /\ mstate'[u] # Unknown
    BY <1>1, <1>6, <2>1, <2>2, ThresholdSent
  <2>4. c <=> d
    BY <1>1, <1>3, <2>1, <2>3 DEF PaceOf, Sends
  <2>5. \A k : Told(u, k)' <=> Told(u, k)
    BY <1>2 DEF Told
  <2>6. \A m \in Msgs(inbox'[h]) : Is(m, u, "migrate") =>
          m \in Msgs(inbox[h]) \/ (c /\ m.plan = x[2])
    <3>1. /\ \A m : m \in Msgs(inbox'[h]) <=>
               \/ m \in Msgs(inbox[h])
               \/ h = u /\ HandsOver(x) /\ m = Order("handover", u, NoApp, x[2])
               \/ h = At(u) /\ Moves(x) /\ m = Order("pre_migrate", u, user[u].app, x[2])
               \/ h = At(u) /\ Sends(x) /\ m = Order("migrate", u, user[u].app, x[2])
      BY <1>1, <1>6, <2>2, ThresholdPosts
    <3>2. /\ \A a, p : Order("handover", u, a, p).kind = "handover"
          /\ \A a, p : Order("pre_migrate", u, a, p).kind = "pre_migrate"
          /\ \A a, p : Order("migrate", u, a, p).plan = p
      BY DEF Order
    <3> QED  BY <2>1, <2>4, <3>1, <3>2 DEF Is
  <2>7. ASSUME c PROVE MoveOf(u)' /\ LinesOf(u)'
    <3>1. State(u) = "running" /\ State(u)' = "pre_migrate" /\ x[2].server # h /\ d
      BY <2>3, <2>4, <2>7
    <3>2. ~Moving(u) /\ ~Prepared(u) /\ ~Deploying(u) /\ ~Told(u, "allocated")
      BY <1>3, <3>1 DEF PaceOf, MoveOf
    <3>3. Ordered(u)' /\ Moving(u)'
      BY <2>3, <3>1 DEF Ordered, Moving
    <3>4. "PRE_MIGRATE" \in mstate'[u] /\ "MIGRATE" \in mstate'[u]
          /\ "PRE_MIGRATED" \notin mstate'[u]
      BY <1>3, <2>3, <2>7, <3>1 DEF MoveOf
    <3>5. MoveOf(u)'
      BY <2>3, <3>1, <3>3, <3>4 DEF MoveOf
    <3>6. ~Sent(h, u, "pre_migrate") /\ ~Sent(h, u, "migrate") /\ ~Told(u, "pre_migrated")'
      BY <2>5, <3>2 DEF Prepared, Moving, Ordered
    <3>7. Single(inbox'[h], u, "pre_migrate") /\ Before(inbox'[h], u, "pre_migrate", "migrate")
      <4>1. /\ \A k : Single(inbox[h], u, k) /\ ~Sent(h, u, k) => Single(inbox'[h], u, k)
            /\ Before(inbox[h], u, "pre_migrate", "migrate") /\ ~Sent(h, u, "migrate") =>
                 Before(inbox'[h], u, "pre_migrate", "migrate")
        BY <1>1, <1>6, ThresholdPosts
      <4> QED  BY <1>3, <2>2, <3>6, <4>1 DEF LinesOf
    <3>8. \A m \in Msgs(inbox'[h]) : Is(m, u, "migrate") => m.plan.server # h
      BY <1>3, <2>2, <2>6, <3>1 DEF LinesOf
    <3>9. \A r \in Boxes, k \in {"deploy", "pre_migrate", "migrate"} : Sent(r, u, k)' => r = h
      BY <1>3, <2>2, <2>3 DEF LinesOf
    <3>10. Single(notices', u, "pre_migrated") /\ Before(notices', u, "pre_migrated", "migrated")
      BY <1>2, <1>3 DEF LinesOf
    <3> QED  BY <2>3, <3>3, <3>5, <3>6, <3>7, <3>8, <3>9, <3>10 DEF LinesOf
  <2>8. ASSUME ~c PROVE MoveOf(u)' /\ LinesOf(u)'
    <3>1. \A r \in Boxes :
            /\ \A k : k # "handover" /\ Single(inbox[r], u, k) => Single(inbox'[r], u, k)
            /\ Before(inbox[r], u, "pre_migrate", "migrate") =>
                 Before(inbox'[r], u, "pre_migrate", "migrate")
      BY <1>1, <1>6, <2>1, <2>8, ThresholdKeeps
    <3>2. \A r \in Boxes : \A m \in Msgs(inbox'[r]) : Is(m, u, "migrate") => m \in Msgs(inbox[r])
      <4> SUFFICES ASSUME NEW r \in Boxes
                   PROVE  \A m \in Msgs(inbox'[r]) : Is(m, u, "migrate") => m \in Msgs(inbox[r])
        OBVIOUS
      <4>1. \A m : m \in Msgs(inbox'[r]) <=>
               \/ m \in Msgs(inbox[r])
               \/ r = u /\ HandsOver(x) /\ m = Order("handover", u, NoApp, x[2])
               \/ r = At(u) /\ Moves(x) /\ m = Order("pre_migrate", u, user[u].app, x[2])
               \/ r = At(u) /\ Sends(x) /\ m = Order("migrate", u, user[u].app, x[2])
        BY <1>1, <1>6, ThresholdPosts
      <4>2. \A a, p : Order("handover", u, a, p).kind = "handover"
        BY DEF Order
      <4> QED  BY <2>1, <2>4, <2>8, <4>1, <4>2 DEF Is
    <3>3. /\ \A r \in Boxes : \A k \in {"deploy", "pre_migrate", "migrate"} :
               Sent(r, u, k)' <=> Sent(r, u, k)
          /\ State(u)' = State(u) /\ At(u)' = At(u)
          /\ \A b \in {"PRE_MIGRATE", "PRE_MIGRATED", "MIGRATE"} : b \in mstate'[u] <=> b \in mstate[u]
      BY <2>2, <2>3, <2>4, <2>8
    <3>4. CalmKept(u)
      BY <1>2, <2>3, <2>5, <3>1, <3>2, <3>3 DEF CalmKept
    <3> QED  BY <1>3, <2>2, <3>4, KeepsCalm
  <2> QED  BY <1>2, <1>3, <1>4, <2>7, <2>8, CalmFrom
<1> QED  BY <1>5, <1>6 DEF Planned, PlanMove, PlanHandover, PlanPassedOver

(* The answer to a handover is written into the bits as they are.          *)
LEMMA CalmAnswers ==
  ASSUME Types, OnceInv, PaceInv, CalmInv, Answers
  PROVE  CalmInv'
<1>1. PICK u \in Users : u = mqtt.user
  BY AnswerChanges
<1>2. mqtt.at = "handovered" /\ HandoveredWrite
  <2>1. mqtt.at \in {"idle", "dead", "planning", "handovered"}
    BY DEF PaceInv
  <2> QED  BY <2>1 DEF Answers, PreMigratedMark, PreMigratedUnknown, PreMigratedStays,
           PreMigratedSchedule, HandoveredWrite
<1>3. /\ UNCHANGED <<user, service, inbox, notices, discoveries>>
      /\ mstate' = [mstate EXCEPT ![u] = HandoveredBits(mstate[u])]
  BY <1>1, <1>2 DEF HandoveredWrite, PaceInv, dbVars, worldVars, boundVars
<1>4. About(u) /\ user[u] # NoUser
  BY <1>1, <1>2, AboutAnswers DEF OnceInv, WorkInv
<1>5. MoveOf(u)
  BY <1>4 DEF CalmInv
<1>6. mstate'[u] = HandoveredBits(mstate[u]) /\ mstate[u] \in SUBSET Bits
  BY <1>3, <1>5 DEF Types, MoveOf
<1>7. mstate'[u] \in SUBSET Bits
  BY <1>6 DEF HandoveredBits, RUNNING, Bits
<1>8. \A b \in {"PRE_MIGRATE", "PRE_MIGRATED", "MIGRATE"} : b \in mstate'[u] <=> b \in mstate[u]
  BY <1>5, <1>6 DEF HandoveredBits, RUNNING, MoveOf
<1>9. MoveOf(u)' /\ LinesOf(u)'
  BY <1>3, <1>4, <1>7, <1>8, BitFacts, CalmSame
<1>10. \A m \in Msgs(notices') : m.kind # "leave"
  BY <1>3 DEF CalmInv
<1> QED  BY <1>3, <1>4, <1>9, <1>10, CalmFrom

LEMMA CalmDiscover ==
  ASSUME Types, Once, OnceInv, PaceInv, CalmInv, Discover
  PROVE  CalmInv'
<1>1. PICK u, a, b, s : Discovers(u, a, b, s)
  BY DiscoverOnce DEF OnceInv
<1>2. /\ About(u) /\ u \in Users /\ s \in Boxes
      /\ State(u)' = "init" /\ At(u)' = s
      /\ \A r \in Boxes : \A k : Sent(r, u, k)' <=> r = s /\ k = "deploy"
      /\ \A r \in Boxes : \A k : Single(inbox'[r], u, k)
      /\ \A k : ~Told(u, k)'
      /\ mstate' = [mstate EXCEPT ![u] = INIT]
      /\ notices' = notices
  BY <1>1, Deployed
<1>3. user'[u] # NoUser
  BY <1>1, AboutDiscovers
<1>4. mstate'[u] = INIT
  BY <1>2 DEF Types
<1>5. Deploying(u)' /\ ~Moving(u)' /\ ~Prepared(u)'
  BY <1>2 DEF Deploying, Moving, Ordered, Prepared
<1>6. MoveOf(u)'
  <2>1. INIT # Unknown /\ \A x : x \notin INIT
    BY BitFacts DEF INIT, Unknown
  <2> QED  BY <1>2, <1>4, <1>5, <2>1 DEF MoveOf
<1>7. ~Sent(s, u, "pre_migrate")' /\ ~Sent(s, u, "migrate")'
  BY <1>2
<1>8. /\ Before(inbox'[s], u, "pre_migrate", "migrate")
      /\ \A m \in Msgs(inbox'[s]) : Is(m, u, "migrate") => m.plan.server # s
  BY <1>7 DEF Sent, Has, Msgs, Before
<1>9. Single(notices', u, "pre_migrated") /\ Before(notices', u, "pre_migrated", "migrated")
  BY <1>2 DEF Told, Has, Msgs, Single, Before
<1>10. LinesOf(u)'
  BY <1>2, <1>7, <1>8, <1>9 DEF LinesOf
<1>11. \A m \in Msgs(notices') : m.kind # "leave"
  BY <1>2 DEF CalmInv
<1> QED  BY <1>2, <1>3, <1>6, <1>10, <1>11, CalmFrom

LEMMA CalmStutters ==
  ASSUME Types, OnceInv, CalmInv,
         UNCHANGED <<user, service, inbox, notices, mstate, discoveries>>
  PROVE  CalmInv'
<1>1. ASSUME NEW u \in Users, user'[u] # NoUser PROVE MoveOf(u)' /\ LinesOf(u)'
  <2>1. mstate[u] # Unknown
    BY <1>1 DEF CalmInv, MoveOf
  <2> QED  BY <1>1, <2>1, CalmSame
<1> QED  BY <1>1 DEF CalmInv

LEMMA CalmInit == ASSUME Init PROVE CalmInv
<1>1. \A u \in Users : user[u] = NoUser
  BY Nobody
<1>2. Msgs(notices) = {}
  BY Nobody DEF Msgs
<1> QED  BY <1>1, <1>2 DEF CalmInv, Init

LEMMA CalmStep ==
  ASSUME Types, Calm, OnceInv, PaceInv, HostInv, CalmInv, [Next]_vars
  PROVE  CalmInv'
<1>1. Once /\ InOrder /\ ~setup.leaving /\ ~setup.failing /\ ~Optimized
  BY DEF Calm, InOrder
<1>2. CASE HandleNotice
  BY <1>1, <1>2, CalmNotice DEF HandleNotice, Notices
<1>3. CASE Continue
  <2>1. (\E x : Planned(x)) \/ Answers
    BY <1>3 DEF Continue, Planned, Answers
  <2> QED  BY <1>1, <2>1, CalmPlanned, CalmAnswers
<1>4. CASE RunTimers
  BY <1>4 DEF RunTimers, PaceInv
<1>5. CASE Outside
  <2>1. Stays
    BY <1>5 DEF Outside, Stays
  <2> QED  BY <1>1, <1>5, <2>1, CalmEdges, CalmUsers DEF Outside, Edge
<1>6. CASE Discover
  BY <1>1, <1>6, CalmDiscover
<1>7. CASE Planning
  BY <1>7, PlanningChanges, CalmStutters
<1>8. CASE UNCHANGED vars
  BY <1>8, CalmStutters DEF vars, dbVars, worldVars, boundVars
<1> QED  BY <1>2, <1>3, <1>4, <1>5, <1>6, <1>7, <1>8 DEF Next

LEMMA CalmAlways ==
  Spec => [](Types /\ (Calm => OnceInv /\ PaceInv /\ HostInv /\ CalmInv))
<1> DEFINE I == /\ Types /\ (Once => OnceInv) /\ (Once /\ ~Optimized => PaceInv)
                /\ Once /\ ~setup.failing /\ (InOrder \/ ~Optimized) => HostInv
           J == Calm => CalmInv
<1>1. Init => J
  BY CalmInit
<1>2. I /\ J /\ [Next]_vars => J'
  <2> SUFFICES ASSUME I, J, [Next]_vars PROVE J'
    OBVIOUS
  <2>1. setup' = setup
    BY SetupStays
  <2>2. Calm' <=> Calm
    BY <2>1 DEF Calm, Once, Optimized
  <2>3. Calm => CalmInv'
    <3> SUFFICES ASSUME Calm PROVE CalmInv'
      OBVIOUS
    <3>1. Once /\ ~setup.failing /\ ~Optimized
      BY DEF Calm
    <3> QED  BY <3>1, CalmStep
  <2> QED  BY <2>2, <2>3
<1>3. I /\ J => Types /\ (Calm => OnceInv /\ PaceInv /\ HostInv /\ CalmInv)
  BY DEF Calm
<1>4. Spec => []I
  BY HostAlways
<1> QED  BY <1>1, <1>2, <1>3, <1>4, PTL DEF Spec

(* Of an order and the notice that answers it one is on its way.           *)
LEMMA OnlyOne ==
  ASSUME NEW u \in Users, NEW k, NEW l,
         \A r, s \in Boxes : Sent(r, u, k) /\ Sent(s, u, k) => r = s,
         \A r \in Boxes : Single(inbox[r], u, k),
         Single(notices, u, l),
         \A r \in Boxes : Sent(r, u, k) => ~Told(u, l),
         \A r \in Boxes : \A m \in Msgs(inbox[r]) : m.kind # l,
         \A m \in Msgs(notices) : m.kind # k
  PROVE  AtMostOne(OnTheWay(u, {k, l}))
<1> DEFINE N == {<<"notices", i>> : i \in {i \in DOMAIN notices :
                    notices[i].user = u /\ notices[i].kind \in {k, l}}}
           B(r) == {<<r, i>> : i \in {i \in DOMAIN inbox[r] :
                    inbox[r][i].user = u /\ inbox[r][i].kind \in {k, l}}}
<1>1. \A x \in N : \E i \in DOMAIN notices : x = <<"notices", i>> /\ Is(notices[i], u, l)
  BY DEF Msgs, Is
<1>2. \A r \in Boxes : \A x \in B(r) :
        \E i \in DOMAIN inbox[r] : x = <<r, i>> /\ Is(inbox[r][i], u, k)
  BY DEF Msgs, Is
<1>3. \A x \in N : Told(u, l)
  BY <1>1 DEF Told, Has, Msgs
<1>4. \A r \in Boxes : \A x \in B(r) : Sent(r, u, k)
  BY <1>2 DEF Sent, Has, Msgs
<1>5. \A x, y \in N : x = y
  BY <1>1 DEF Single
<1>6. \A r, s \in Boxes : \A x \in B(r) : \A y \in B(s) : x = y
  <2> SUFFICES ASSUME NEW r \in Boxes, NEW s \in Boxes, NEW x \in B(r), NEW y \in B(s)
               PROVE  x = y
    OBVIOUS
  <2>1. r = s
    BY <1>4
  <2>2. PICK i \in DOMAIN inbox[r] : x = <<r, i>> /\ Is(inbox[r][i], u, k)
    BY <1>2
  <2>3. PICK j \in DOMAIN inbox[r] : y = <<r, j>> /\ Is(inbox[r][j], u, k)
    BY <1>2, <2>1
  <2> QED  BY <2>2, <2>3 DEF Single
<1>7. \A x \in OnTheWay(u, {k, l}) : x \in N \/ \E r \in Boxes : x \in B(r)
  BY DEF OnTheWay, Boxes
<1> HIDE DEF N, B
<1> QED  BY <1>3, <1>4, <1>5, <1>6, <1>7 DEF AtMostOne

(* While notices keep their order and nobody leaves, the state of a        *)
(* service and migration_state tell the same, whatever is on its way: a    *)
(* service is moving exactly when its row says pre_migrate or pre_migrated,*)
(* and exactly then the bits that hold the planner back are set.           *)
THEOREM StatesAgree == Spec => []StateAgrees
<1>1. ASSUME Types, OnceInv, PaceInv, CalmInv, NEW u \in Users, GetService(u) # NoRow
      PROVE  GetService(u).state \in {"init", "running"} <=> mstate[u] \cap Migrating = {}
  <2>1. user[u] # NoUser /\ State(u) \in {"init", "running", "pre_migrate", "pre_migrated"}
    BY <1>1, RowFacts DEF State
  <2>2. PaceOf(u) /\ MoveOf(u)
    BY <1>1, <2>1 DEF PaceInv, CalmInv
  <2>3. Moving(u) <=> State(u) \in {"pre_migrate", "pre_migrated"}
    BY <2>2 DEF PaceOf, MoveOf
  <2>4. Moving(u) <=> mstate[u] \cap Migrating # {}
    BY <2>2 DEF MoveOf, Migrating
  <2> QED  BY <2>1, <2>3, <2>4 DEF State
<1>2. Types /\ (Calm => OnceInv /\ PaceInv /\ HostInv /\ CalmInv) => StateAgrees
  BY <1>1 DEF StateAgrees
<1> QED  BY <1>2, CalmAlways, PTL

(* And no service is told to prepare or to move while the last order of    *)
(* that kind is not reported: of each order and its report one is on its   *)
(* way at most.                                                            *)
THEOREM MigratesOnce == Spec => []OneMigration
<1>1. ASSUME Types, OnceInv, PaceInv, CalmInv, NEW u \in Users
      PROVE  AtMostOne(Preparations(u)) /\ AtMostOne(Migrations(u))
  <2>1. /\ \A r \in Boxes : \A m \in Msgs(inbox[r]) : m.kind \notin {"pre_migrated", "migrated"}
        /\ \A m \in Msgs(notices) : m.kind \notin {"pre_migrate", "migrate"}
    <3>1. \A o \in OrderSet : o.kind \notin {"pre_migrated", "migrated"}
      BY DEF OrderSet
    <3>2. \A m \in MessageSet : m.kind \notin {"pre_migrate", "migrate"}
      BY DEF MessageSet
    <3>3. \A r \in Boxes : \A m \in Msgs(inbox[r]) : m \in OrderSet
      BY <1>1, BoxTypes, ElementOfSeq, LenProperties DEF Msgs
    <3>4. \A m \in Msgs(notices) : m \in MessageSet
      BY <1>1, NoticeTypes DEF Msgs
    <3> QED  BY <3>1, <3>2, <3>3, <3>4
  <2>2. CASE user[u] = NoUser
    <3>1. Unheard(u)
      BY <1>1, <2>2 DEF CalmInv, OnceInv, OnceOf
    <3>2. \A k : \A r \in Boxes : ~Sent(r, u, k)
      BY <3>1 DEF Unheard, Sent, Has, Is
    <3>3. \A k : ~Told(u, k)
      BY <3>1 DEF Unheard, Told, Has, Is
    <3>4. /\ \A k : \A r \in Boxes : Single(inbox[r], u, k)
          /\ \A k : Single(notices, u, k)
      BY <3>2, <3>3 DEF Sent, Told, Has, Msgs, Single
    <3>5. AtMostOne(Preparations(u))
      BY <2>1, <3>2, <3>4, OnlyOne DEF Preparations
    <3>6. AtMostOne(Migrations(u))
      BY <2>1, <3>2, <3>4, OnlyOne DEF Migrations
    <3> QED  BY <3>5, <3>6
  <2>3. CASE user[u] # NoUser
    <3>1. PaceOf(u) /\ MoveOf(u) /\ LinesOf(u)
      BY <1>1, <2>3 DEF PaceInv, CalmInv
    <3>2. AtMostOne(Migrations(u))
      <4>1. /\ \A r, s \in Boxes : Sent(r, u, "migrate") /\ Sent(s, u, "migrate") => r = s
            /\ \A r \in Boxes : Single(inbox[r], u, "migrate")
            /\ Single(notices, u, "migrated")
            /\ \A r \in Boxes : Sent(r, u, "migrate") => ~Told(u, "migrated")
        BY <3>1 DEF PaceOf, Ordered
      <4> QED  BY <2>1, <4>1, OnlyOne DEF Migrations
    <3>3. AtMostOne(Preparations(u))
      <4>1. /\ \A r \in Boxes : Sent(r, u, "pre_migrate") => r = At(u)
            /\ Single(notices, u, "pre_migrated")
            /\ \A r \in Boxes : Sent(r, u, "pre_migrate") => ~Told(u, "pre_migrated")
        BY <3>1 DEF LinesOf
      <4>2. \A r \in Boxes : Single(inbox[r], u, "pre_migrate")
        <5> SUFFICES ASSUME NEW r \in Boxes PROVE Single(inbox[r], u, "pre_migrate")
          OBVIOUS
        <5>1. CASE r = At(u)
          BY <3>1, <5>1 DEF LinesOf
        <5>2. CASE r # At(u)
          BY <4>1, <5>2 DEF Sent, Has, Msgs, Single
        <5> QED  BY <5>1, <5>2
      <4> QED  BY <2>1, <4>1, <4>2, OnlyOne DEF Preparations
    <3> QED  BY <3>2, <3>3
  <2> QED  BY <2>2, <2>3
<1>2. Types /\ (Calm => OnceInv /\ PaceInv /\ HostInv /\ CalmInv) => OneMigration
  BY <1>1 DEF OneMigration
<1> QED  BY <1>2, CalmAlways, PTL

(* So an order to prepare or to move, when its turn comes, finds the       *)
(* service on the server it was sent to, which drops no order.             *)
THEOREM OrdersReachHost == Spec => []MovesFromHost
<1>1. ASSUME Types, OnceInv, PaceInv, HostInv, CalmInv, NEW s \in Servers, inbox[s] # <<>>,
             Head(inbox[s]).kind \in {"pre_migrate", "migrate"}
      PROVE  <<Head(inbox[s]).user, Head(inbox[s]).app, s>> \in runs
  <2>1. s \in Boxes
    BY DEF Boxes
  <2>2. PICK o \in OrderSet : o = Head(inbox[s])
    BY <1>1, <2>1, BoxTypes
  <2>3. o \in Msgs(inbox[s])
    <3>1. PICK q \in Seq(OrderSet) : q = inbox[s]
      BY <1>1, <2>1, BoxTypes
    <3>2. 1 \in DOMAIN q /\ Head(q) = q[1]
      BY <1>1, <3>1, TailRemoved
    <3> QED  BY <2>2, <3>1, <3>2 DEF Msgs
  <2> QED  BY <1>1, <2>2, <2>3, OrderKinds, MovedAtHost
<1>2. Types /\ (Calm => OnceInv /\ PaceInv /\ HostInv /\ CalmInv) => MovesFromHost
  BY <1>1 DEF MovesFromHost
<1> QED  BY <1>2, CalmAlways, PTL
=============================================================================
