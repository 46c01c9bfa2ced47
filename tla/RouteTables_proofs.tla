------------------------- MODULE RouteTables_proofs -------------------------
(* What the kernel holds for the end users of a host is what their tables  *)
(* say, and a simulation that ends leaves only the default routes: for any *)
(* users, marks, table numbers and speeds.                                 *)
(*                                                                         *)
(* Two users may share a mark (MarksUnique fails), so neither a filter nor *)
(* a rule belongs to one user.  The invariant counts: as many copies of a  *)
(* filter as users hold it, as many rules of a mark as users have it.      *)
EXTENDS RouteTables, TLAPS, SequenceTheorems, FiniteSetTheorems,
        FunctionTheorems, WellFoundedInduction

-----------------------------------------------------------------------------
(* The types of the variables, and of the values a thread carries through  *)
(* the steps of set_filter.                                                *)
Steps == {"idle", "delete", "avail", "create", "mark", "rule", "dest", "dead"}
Stages == {"tables", "speeds", "run", "stop", "rule", "filter", "line",
           "ended", "failed"}

ProcessTypes ==
  /\ table \in [UserSet -> [mark : Marks \cup {None}, dest : Dests \cup {None},
                            have_filter : BOOLEAN, id : TableIds \cup {0, None}]]
  /\ speed \in [UserSet -> Speeds \cup {None}]
  /\ mqtt \in [UserSet -> [at : Steps, dest : Dests \cup {None},
                           mark : Marks \cup {None}]]
  /\ main \in Stages
  /\ todo \in Seq(UserSet) /\ IsInjective(todo)
  /\ main \in {"filter", "line"} => todo # <<>>

KernelTypes ==
  /\ lines \subseteq [id : TableIds \cup {None}, user : UserSet]
  /\ filters \in [DOMAIN filters -> Nat \ {0}]
  /\ DOMAIN filters \subseteq [dest : Dests, mark : Marks]
  /\ rules \subseteq [mark : Marks, user : UserSet] /\ IsFiniteSet(rules)
  /\ tc \in [root : BOOLEAN, filters : SUBSET [mark : Marks, user : UserSet]]

(* A thread that replaces a filter keeps its mark, one that asks for a     *)
(* mark has none, and one that has created a filter knows mark and place.  *)
Carried(u) ==
  /\ mqtt[u].at \notin {"idle", "dead"} => mqtt[u].dest # None
  /\ MqttAt(u, "delete") => table[u].mark # None
  /\ mqtt[u].at \in {"delete", "create"} /\ table[u].mark # None =>
       mqtt[u].mark = table[u].mark
  /\ mqtt[u].at \in {"avail", "mark"} => table[u].mark = None
  /\ mqtt[u].at \in {"mark", "rule", "dest"} => mqtt[u].mark # None
  /\ mqtt[u].at \in {"rule", "dest"} => table[u].mark = mqtt[u].mark

Types ==
  /\ ProcessTypes /\ KernelTypes
  /\ count \in [interrupts : Nat, crashes : Nat, filters : [UserSet -> Nat]]
  /\ \A u \in UserSet : Carried(u)
  /\ tc.filters # {} \/ main = "run" => tc.root

-----------------------------------------------------------------------------
(* The filters of tc are those of the tables that say so.                  *)
Limited ==
  /\ main \in {"tables", "speeds"} =>
       /\ \A u \in UserSet : table[u].mark = None /\ ~table[u].have_filter
       /\ \A u \in UserSet : speed[u] = None /\ MqttAt(u, "idle")
  /\ main = "run" =>
       /\ tc.filters = {[mark |-> table[u].mark, user |-> u] :
                          u \in {v \in UserSet : table[v].have_filter}}
       /\ \A u \in UserSet : table[u].have_filter => table[u].mark # None
       /\ \A u \in UserSet : speed[u] # None => table[u].have_filter

-----------------------------------------------------------------------------
(* The main thread has still to delete the filter, or the rule, of a user. *)
Unreleased(u, stages) ==
  \/ main \in {"tables", "speeds", "run", "stop"}
  \/ main \in stages /\ u \in ToSet(todo)
  \/ main \in {"rule", "filter", "line"} \ stages /\ u \in ToSet(Tail(todo))

(* The filter a user stands for, and whether it stands for one.            *)
Held(u) == IF mqtt[u].at \in {"mark", "rule", "dest"}
           THEN Filter(mqtt[u].dest, mqtt[u].mark)
           ELSE Filter(table[u].dest, table[u].mark)

Holds(u) ==
  /\ Unreleased(u, {"rule", "filter"})
  /\ \/ mqtt[u].at \in {"mark", "rule", "dest"}
     \/ mqtt[u].at \in {"idle", "delete"} /\ table[u].mark # None

HasRule(u) ==
  /\ Unreleased(u, {"rule"})
  /\ table[u].mark # None /\ ~MqttAt(u, "rule")

Copies(f, B) == IF BagIn(f, B) THEN B[f] ELSE 0

Holders(f) == {u \in UserSet : Holds(u) /\ Held(u) = f}
RuledBy(m) == {u \in UserSet : HasRule(u) /\ table[u].mark = m}
RulesOf(m) == {r \in rules : r.mark = m}

(* The main thread: it releases for all users, one after the other, when   *)
(* no thread is in set_filter, and never gives up.                         *)
Order ==
  /\ main # "failed"
  /\ main \in {"tables", "speeds", "run", "stop"} => todo = Users
  /\ main = "filter" => table[Head(todo)].mark # None
  /\ main = "ended" => todo = <<>> /\ tc = NoQdisc
  /\ main \in {"rule", "filter", "line", "ended"} => Stopped
  /\ main = "tables" => lines = {}
  /\ main \in {"tables", "speeds"} => tc = NoQdisc /\ rules = {}

Counted ==
  /\ \A f : Copies(f, filters) = Cardinality(Holders(f))
  /\ \A m : Cardinality(RulesOf(m)) = Cardinality(RuledBy(m))
  /\ main \in {"run", "stop"} =>
       rules = {[mark |-> table[u].mark, user |-> u] : u \in {v \in UserSet : HasRule(v)}}
  /\ \A u \in UserSet : MqttAt(u, "dead") => table[u].mark = None
  /\ \A l \in lines : \E u \in ToSet(todo) : table[u].id = l.id

Kept == Undisturbed => Order /\ Counted

(* Every user that has been run has a default route.                       *)
Routing ==
  /\ routes \subseteq UserSet
  /\ main \notin {"tables", "speeds", "failed"} => routes = UserSet

IInv == Types /\ Limited /\ Kept /\ Routing

-----------------------------------------------------------------------------
(* There are finitely many users, each named once.                         *)
LEMMA UserFacts ==
  /\ IsFiniteSet(UserSet)
  /\ Users \in Seq(UserSet) /\ IsInjective(Users)
<1>1. Users \in Seq(UserSet) /\ IsInjective(Users)
  BY RouteAssumption DEF UserSet
<1>2. Len(Users) \in Nat /\ DOMAIN Users = 1 .. Len(Users)
  BY <1>1, LenProperties
<1>3. IsFiniteSet(1 .. Len(Users))
  BY <1>2, FS_Interval
<1>4. IsFiniteSet({Users[i] : i \in DOMAIN Users})
  <2> DEFINE T == {Users[i] : i \in 1 .. Len(Users)}
  <2>1. Users \in Surjection(1 .. Len(Users), T)
    BY <1>1, <1>2 DEF Surjection
  <2> QED  BY <1>2, <1>3, <2>1, FS_Surjection
<1> QED  BY <1>1, <1>4 DEF UserSet, ToSet

(* A number that is free is one of the range.                              *)
LEMMA FreeNumber ==
  ASSUME NEW range \in SUBSET Nat, NEW used
  PROVE  FirstFree(range, used) \in range \cup {None}
<1>1. CASE range \subseteq used
  BY <1>1 DEF FirstFree
<1>2. CASE ~(range \subseteq used)
  <2> DEFINE T == range \ used
             R == {x \in Nat \X Nat : x[1] < x[2]}
  <2>1. T \in SUBSET Nat /\ T # {}
    BY <1>2
  <2>2. IsWellFoundedOn(R, Nat)
    BY NatLessThanWellFounded DEF OpToRel
  <2> HIDE DEF T, R
  <2>3. PICK i \in T : \A j \in T : ~(<<j, i>> \in R)
    BY <2>1, <2>2, WFMin
  <2>4. \A j \in T : i <= j
    <3> TAKE j \in T
    <3>1. i \in Nat /\ j \in Nat /\ ~(j < i)
      BY <2>1, <2>3 DEF R
    <3> QED  BY <3>1
  <2>5. (CHOOSE n \in T : \A j \in T : n <= j) \in T
    BY <2>3, <2>4
  <2> QED  BY <1>2, <2>5 DEF FirstFree, T
<1> QED  BY <1>1, <1>2

(* One more copy of a filter, and one copy less.                           *)
LEMMA OneCopyMore ==
  ASSUME NEW B, B \in [DOMAIN B -> Nat \ {0}], NEW f
  PROVE  LET C == B (+) SetToBag({f}) IN
         /\ C \in [DOMAIN C -> Nat \ {0}] /\ DOMAIN C = DOMAIN B \cup {f}
         /\ \A g : /\ Copies(g, B) \in Nat
                   /\ Copies(g, C) = Copies(g, B) + (IF g = f THEN 1 ELSE 0)
BY DEF Copies, BagIn, BagToSet, SetToBag, (+)

LEMMA OneCopyLess ==
  ASSUME NEW B, B \in [DOMAIN B -> Nat \ {0}], NEW f, BagIn(f, B)
  PROVE  LET C == B (-) SetToBag({f}) IN
         /\ C \in [DOMAIN C -> Nat \ {0}] /\ DOMAIN C \subseteq DOMAIN B
         /\ \A g : /\ Copies(g, B) \in Nat
                   /\ Copies(g, C) = Copies(g, B) - (IF g = f THEN 1 ELSE 0)
BY DEF Copies, BagIn, BagToSet, SetToBag, (-)

(* Two sets that differ in one element at most.                            *)
LEMMA OneElement ==
  ASSUME NEW A, IsFiniteSet(A), NEW B, NEW u,
         \A v : v # u => (v \in A <=> v \in B)
  PROVE  /\ Cardinality(A) \in Nat /\ Cardinality(B) \in Nat
         /\ IsFiniteSet(B)
         /\ (u \in A <=> u \in B) => Cardinality(B) = Cardinality(A)
         /\ u \in A /\ u \notin B => Cardinality(B) = Cardinality(A) - 1
         /\ u \notin A /\ u \in B => Cardinality(B) = Cardinality(A) + 1
<1>1. Cardinality(A) \in Nat
  BY FS_CardinalityType
<1>2. CASE u \in A <=> u \in B
  BY <1>1, <1>2, A = B
<1>3. CASE u \in A /\ u \notin B
  <2>1. B = A \ {u}
    BY <1>3
  <2>2. IsFiniteSet(B) /\ Cardinality(B) = Cardinality(A) - 1
    BY <1>3, <2>1, FS_RemoveElement
  <2>3. Cardinality(B) \in Nat
    BY <2>2, FS_CardinalityType
  <2> QED  BY <1>1, <1>3, <2>2, <2>3
<1>4. CASE u \notin A /\ u \in B
  <2>1. B = A \cup {u}
    BY <1>4
  <2>2. IsFiniteSet(B) /\ Cardinality(B) = Cardinality(A) + 1
    BY <1>4, <2>1, FS_AddElement
  <2>3. Cardinality(B) \in Nat
    BY <2>2, FS_CardinalityType
  <2> QED  BY <1>1, <1>4, <2>2, <2>3
<1> QED  BY <1>2, <1>3, <1>4

-----------------------------------------------------------------------------
(* Types.                                                                  *)
LEMMA TypesInit == Init => Types
<1> SUFFICES ASSUME Init PROVE Types
  OBVIOUS
<1>1. ProcessTypes
  BY UserFacts DEF Init, Started, ProcessTypes, Entry, Steps, Stages
<1>2. KernelTypes
  BY FS_EmptySet DEF Init, KernelTypes, NoQdisc, EmptyBag, SetToBag
<1>3. \A u \in UserSet : Carried(u)
  BY DEF Init, Started, Carried, MqttAt
<1>4. count \in [interrupts : Nat, crashes : Nat, filters : [UserSet -> Nat]]
  BY DEF Init
<1>5. tc.filters = {} /\ main = "tables"
  BY DEF Init, Started, NoQdisc
<1> QED  BY <1>1, <1>2, <1>3, <1>4, <1>5 DEF Types

(* A step of the thread of one user leaves the others where they are.      *)
LEMMA ThreadTo ==
  ASSUME Types, NEW u \in UserSet, NEW a \in Steps,
         mqtt' = [mqtt EXCEPT ![u].at = a]
  PROVE  /\ mqtt' \in [UserSet -> [at : Steps, dest : Dests \cup {None},
                                  mark : Marks \cup {None}]]
         /\ mqtt'[u].at = a /\ mqtt'[u].dest = mqtt[u].dest
         /\ mqtt'[u].mark = mqtt[u].mark
         /\ \A v \in UserSet \ {u} : mqtt'[v] = mqtt[v]
BY DEF Types, ProcessTypes

(* The same for the entry of one user in the tables.                       *)
LEMMA MarkTo ==
  ASSUME Types, NEW u \in UserSet, NEW m \in Marks \cup {None},
         table' = [table EXCEPT ![u].mark = m]
  PROVE  /\ table' \in [UserSet -> [mark : Marks \cup {None}, dest : Dests \cup {None},
                            have_filter : BOOLEAN, id : TableIds \cup {0, None}]]
         /\ table'[u].mark = m /\ table'[u].dest = table[u].dest
         /\ table'[u].have_filter = table[u].have_filter
         /\ table'[u].id = table[u].id
         /\ \A v \in UserSet \ {u} : table'[v] = table[v]
BY ZenonT(60) DEF Types, ProcessTypes

LEMMA DestTo ==
  ASSUME Types, NEW u \in UserSet, NEW d \in Dests \cup {None},
         table' = [table EXCEPT ![u].dest = d]
  PROVE  /\ table' \in [UserSet -> [mark : Marks \cup {None}, dest : Dests \cup {None},
                            have_filter : BOOLEAN, id : TableIds \cup {0, None}]]
         /\ table'[u].mark = table[u].mark /\ table'[u].dest = d
         /\ table'[u].have_filter = table[u].have_filter
         /\ table'[u].id = table[u].id
         /\ \A v \in UserSet \ {u} : table'[v] = table[v]
BY ZenonT(60) DEF Types, ProcessTypes

(* set_filter keeps the types.                                             *)
LEMMA FilterTypes ==
  ASSUME Types, NEW u \in UserSet,
         \/ \E d \in Dests : SetFilter(u, d)
         \/ DeleteOldFilter(u) \/ GetAvailMark(u) \/ CreateFilter(u)
         \/ SetMark(u) \/ CreateRule(u) \/ SetDest(u)
  PROVE  Types'
<1> USE RouteAssumption
<1>1. CASE \E d \in Dests : SetFilter(u, d)
  <2>1. PICK d \in Dests : SetFilter(u, d)
    BY <1>1
  <2>2. ProcessTypes'
    BY <2>1 DEF Types, ProcessTypes, SetFilter, Steps
  <2>3. KernelTypes'
    BY <2>1 DEF Types, KernelTypes, SetFilter, kernel
  <2>4. \A v \in UserSet : Carried(v)'
    BY <2>1 DEF Types, ProcessTypes, Carried, MqttAt, SetFilter
  <2>5. count' \in [interrupts : Nat, crashes : Nat, filters : [UserSet -> Nat]]
    <3>1. count \in [interrupts : Nat, crashes : Nat, filters : [UserSet -> Nat]]
      BY DEF Types
    <3>2. count' = [count EXCEPT !.filters[u] = count.filters[u] + 1]
      BY <2>1 DEF SetFilter
    <3>3. count.filters[u] + 1 \in Nat
      BY <3>1
    <3> QED  BY <3>1, <3>2, <3>3
  <2>6. tc' = tc /\ main' = main
    BY <2>1 DEF SetFilter, kernel
  <2> QED  BY <2>2, <2>3, <2>4, <2>5, <2>6 DEF Types
<1>2. CASE DeleteOldFilter(u)
  <2> DEFINE old == Filter(table[u].dest, table[u].mark)
  <2>1. PICK a \in {"create", "dead"} : mqtt' = [mqtt EXCEPT ![u].at = a]
    BY <1>2 DEF DeleteOldFilter
  <2>2. ProcessTypes'
    BY <1>2, <2>1, ThreadTo DEF Types, ProcessTypes, DeleteOldFilter, Steps
  <2>3. KernelTypes'
    <3>1. CASE BagIn(old, filters)
      <4>1. filters' = filters (-) SetToBag({old})
        BY <1>2, <3>1 DEF DeleteOldFilter
      <4>2. /\ filters' \in [DOMAIN filters' -> Nat \ {0}]
            /\ DOMAIN filters' \subseteq DOMAIN filters
        <5> HIDE DEF old
        <5> QED  BY <3>1, <4>1, OneCopyLess DEF Types, KernelTypes
      <4> QED  BY <1>2, <4>2 DEF Types, KernelTypes, DeleteOldFilter
    <3>2. CASE ~BagIn(old, filters)
      BY <1>2, <3>2 DEF Types, KernelTypes, DeleteOldFilter
    <3> QED  BY <3>1, <3>2
  <2>4. \A v \in UserSet : Carried(v)'
    <3> TAKE v \in UserSet
    <3>1. Carried(v) /\ table'[v] = table[v] /\ MqttAt(u, "delete")
      BY <1>2 DEF Types, DeleteOldFilter
    <3>2. CASE v # u
      BY <2>1, <3>1, <3>2, ThreadTo DEF Carried, MqttAt, Steps
    <3>3. CASE v = u
      BY <2>1, <3>1, <3>3, ThreadTo DEF Carried, MqttAt, Steps
    <3> QED  BY <3>2, <3>3
  <2> QED  BY <1>2, <2>2, <2>3, <2>4 DEF Types, DeleteOldFilter
<1>3. CASE GetAvailMark(u)
  <2>1. AvailMark \in Marks \cup {None}
    BY FreeNumber DEF AvailMark
  <2>2. ProcessTypes'
    <3>1. /\ mqtt' = [mqtt EXCEPT ![u].mark = AvailMark, ![u].at = "create"]
          /\ UNCHANGED <<table, speed, main, todo>>
      BY <1>3 DEF GetAvailMark
    <3>2. mqtt' \in [UserSet -> [at : Steps, dest : Dests \cup {None},
                                mark : Marks \cup {None}]]
      <4> DEFINE marked == [mqtt EXCEPT ![u].mark = AvailMark]
      <4>1. marked \in [UserSet -> [at : Steps, dest : Dests \cup {None},
                                    mark : Marks \cup {None}]]
        BY <2>1 DEF Types, ProcessTypes
      <4>2. mqtt' = [marked EXCEPT ![u].at = "create"]
        BY <3>1
      <4> HIDE DEF marked
      <4> QED  BY <4>1, <4>2, ZenonT(60) DEF Steps
    <3> QED  BY <3>1, <3>2 DEF Types, ProcessTypes
  <2>3. KernelTypes'
    BY <1>3 DEF Types, KernelTypes, GetAvailMark, kernel
  <2>4. \A v \in UserSet : Carried(v)'
    BY <1>3 DEF Types, ProcessTypes, Carried, MqttAt, GetAvailMark
  <2> QED  BY <1>3, <2>2, <2>3, <2>4 DEF Types, GetAvailMark, kernel
<1>4. CASE CreateFilter(u)
  <2> DEFINE new == Filter(mqtt[u].dest, mqtt[u].mark)
  <2>1. MqttAt(u, "create") /\ mqtt[u].dest \in Dests
    BY <1>4 DEF Types, ProcessTypes, Carried, CreateFilter, MqttAt
  <2>2. PICK a \in {"mark", "dest", "dead"} :
          /\ mqtt' = [mqtt EXCEPT ![u].at = a]
          /\ a # "dead" => mqtt[u].mark # None
          /\ a = "mark" <=> mqtt[u].mark # None /\ table[u].mark = None
    BY <1>4 DEF CreateFilter
  <2>3. ProcessTypes'
    BY <1>4, <2>2, ThreadTo DEF Types, ProcessTypes, CreateFilter, Steps
  <2>4. KernelTypes'
    <3>1. CASE mqtt[u].mark # None
      <4>1. filters' = filters (+) SetToBag({new})
        BY <1>4, <3>1 DEF CreateFilter
      <4>2. /\ filters' \in [DOMAIN filters' -> Nat \ {0}]
            /\ DOMAIN filters' = DOMAIN filters \cup {new}
        <5> HIDE DEF new
        <5> QED  BY <4>1, OneCopyMore DEF Types, KernelTypes
      <4>3. new \in [dest : Dests, mark : Marks]
        BY <2>1, <3>1 DEF Types, ProcessTypes, Filter
      <4> QED  BY <1>4, <4>2, <4>3 DEF Types, KernelTypes, CreateFilter
    <3>2. CASE mqtt[u].mark = None
      BY <1>4, <3>2 DEF Types, KernelTypes, CreateFilter
    <3> QED  BY <3>1, <3>2
  <2>5. \A v \in UserSet : Carried(v)'
    <3> TAKE v \in UserSet
    <3>1. Carried(v) /\ table'[v] = table[v]
      BY <1>4 DEF Types, CreateFilter
    <3>2. CASE v # u
      BY <2>2, <3>1, <3>2, ThreadTo DEF Carried, MqttAt, Steps
    <3>3. CASE v = u
      BY <2>1, <2>2, <3>1, <3>3, ThreadTo DEF Carried, MqttAt, Steps
    <3> QED  BY <3>2, <3>3
  <2> QED  BY <1>4, <2>3, <2>4, <2>5 DEF Types, CreateFilter
<1>5. CASE SetMark(u)
  <2>1. /\ mqtt' = [mqtt EXCEPT ![u].at = "rule"] /\ MqttAt(u, "mark")
        /\ table' = [table EXCEPT ![u].mark = mqtt[u].mark]
        /\ mqtt[u].mark \in Marks \cup {None}
    BY <1>5 DEF SetMark, Types, ProcessTypes
  <2>2. ProcessTypes'
    <3>1. table' \in [UserSet -> [mark : Marks \cup {None}, dest : Dests \cup {None},
                                  have_filter : BOOLEAN, id : TableIds \cup {0, None}]]
      BY <2>1, MarkTo
    <3> QED  BY <1>5, <2>1, <3>1, ThreadTo DEF Types, ProcessTypes, SetMark, Steps
  <2>3. KernelTypes'
    BY <1>5 DEF Types, KernelTypes, SetMark, kernel
  <2>4. \A v \in UserSet : Carried(v)'
    <3> TAKE v \in UserSet
    <3>1. Carried(v)
      BY DEF Types
    <3>2. CASE v # u
      BY <2>1, <3>1, <3>2, ThreadTo, MarkTo DEF Carried, MqttAt, Steps
    <3>3. CASE v = u
      <4>1. /\ mqtt'[u].at = "rule" /\ mqtt'[u].dest = mqtt[u].dest
            /\ mqtt'[u].mark = mqtt[u].mark
        BY <2>1, ThreadTo DEF Steps
      <4>3. table'[u].mark = mqtt[u].mark
        BY <2>1 DEF Types, ProcessTypes
      <4>2. mqtt[u].dest # None /\ mqtt[u].mark # None
        BY <2>1, <3>1, <3>3 DEF Carried, MqttAt
      <4> QED  BY <3>3, <4>1, <4>2, <4>3 DEF Carried, MqttAt
    <3> QED  BY <3>2, <3>3
  <2> QED  BY <1>5, <2>2, <2>3, <2>4 DEF Types, SetMark, kernel
<1>6. CASE CreateRule(u)
  <2>1. mqtt[u].mark \in Marks
    BY <1>6 DEF Types, ProcessTypes, Carried, CreateRule, MqttAt
  <2>2. ProcessTypes'
    <3>1. PICK a \in Steps : mqtt' = [mqtt EXCEPT ![u].at = a]
      BY <1>6 DEF CreateRule, Steps
    <3>2. UNCHANGED <<table, speed, main, todo>>
      BY <1>6 DEF CreateRule
    <3> QED  BY <3>1, <3>2, ThreadTo DEF Types, ProcessTypes
  <2>3. KernelTypes'
    <3>1. IsFiniteSet(rules')
      BY <1>6, FS_AddElement DEF Types, KernelTypes, CreateRule
    <3> QED  BY <1>6, <2>1, <3>1 DEF Types, KernelTypes, CreateRule
  <2>4. \A v \in UserSet : Carried(v)'
    BY <1>6 DEF Types, ProcessTypes, Carried, MqttAt, CreateRule
  <2> QED  BY <1>6, <2>2, <2>3, <2>4 DEF Types, CreateRule
<1>7. CASE SetDest(u)
  <2>2. ProcessTypes'
    <3>1. mqtt' \in [UserSet -> [at : Steps, dest : Dests \cup {None},
                                 mark : Marks \cup {None}]]
      BY <1>7 DEF Types, ProcessTypes, SetDest, Steps
    <3>2. table' = [table EXCEPT ![u].dest = mqtt[u].dest]
          /\ mqtt[u].dest \in Dests \cup {None}
      BY <1>7 DEF Types, ProcessTypes, SetDest, NewDest
    <3>3. table' \in [UserSet -> [mark : Marks \cup {None}, dest : Dests \cup {None},
                                  have_filter : BOOLEAN, id : TableIds \cup {0, None}]]
      BY <3>2, DestTo
    <3> QED  BY <1>7, <3>1, <3>3 DEF Types, ProcessTypes, SetDest
  <2>3. KernelTypes'
    BY <1>7 DEF Types, KernelTypes, SetDest, kernel
  <2>4. \A v \in UserSet : Carried(v)'
    BY <1>7 DEF Types, ProcessTypes, Carried, MqttAt, SetDest
  <2> QED  BY <1>7, <2>2, <2>3, <2>4 DEF Types, SetDest, kernel
<1> QED  BY <1>1, <1>2, <1>3, <1>4, <1>5, <1>6, <1>7

(* allocate_tables gives numbers of the range, and names the users.        *)
LEMMA AllocateParts ==
  ASSUME Types, AllocateTables, main' # "failed"
  PROVE  /\ main' = "speeds"
         /\ \A l \in lines' \ lines :
              /\ l \in [id : TableIds \cup {None}, user : UserSet]
              /\ \E u \in UserSet : table'[u].id = l.id
         /\ table' \in [UserSet -> [mark : Marks \cup {None}, dest : Dests \cup {None},
                            have_filter : BOOLEAN, id : TableIds \cup {0, None}]]
         /\ \A u \in UserSet : /\ table'[u] = [table[u] EXCEPT !.id = table'[u].id]
                               /\ table'[u].mark = table[u].mark
                               /\ table'[u].dest = table[u].dest
                               /\ table'[u].have_filter = table[u].have_filter
<1> DEFINE at(u) == CHOOSE i \in DOMAIN Users : Users[i] = u
<1>1. PICK id \in [DOMAIN Users -> TableIds \cup {None}] :
        /\ lines' = lines \cup {[id |-> id[i], user |-> Users[i]] : i \in DOMAIN Users}
        /\ table' = [u \in UserSet |-> [table[u] EXCEPT !.id = id[at(u)]]]
        /\ main' = "speeds"
  BY DEF AllocateTables, Allocated, AllocatedFrom
<1>2. \A u \in UserSet : at(u) \in DOMAIN Users /\ Users[at(u)] = u
  BY DEF UserSet, ToSet
<1>3. \A i \in DOMAIN Users : Users[i] \in UserSet /\ at(Users[i]) = i
  <2> TAKE i \in DOMAIN Users
  <2>1. Users[i] \in UserSet
    BY DEF UserSet, ToSet
  <2> QED  BY <1>2, <2>1, UserFacts DEF IsInjective
<1> HIDE DEF at
<1>4. \A l \in lines' \ lines :
        /\ l \in [id : TableIds \cup {None}, user : UserSet]
        /\ \E u \in UserSet : table'[u].id = l.id
  <2> TAKE l \in lines' \ lines
  <2>1. PICK i \in DOMAIN Users : l = [id |-> id[i], user |-> Users[i]]
    BY <1>1
  <2>2. table'[Users[i]].id = id[i]
    BY <1>1, <1>3 DEF Types, ProcessTypes
  <2> QED  BY <1>3, <2>1, <2>2
<1>5. \A u \in UserSet : id[at(u)] \in TableIds \cup {None}
  BY <1>2
<1>6. \A u \in UserSet : table[u] \in [mark : Marks \cup {None},
        dest : Dests \cup {None}, have_filter : BOOLEAN, id : TableIds \cup {0, None}]
  BY DEF Types, ProcessTypes
<1>7. \A u \in UserSet : table'[u] = [table[u] EXCEPT !.id = id[at(u)]]
  BY <1>1
<1>8. \A u \in UserSet :
        /\ table'[u].id = id[at(u)] /\ table'[u].mark = table[u].mark
        /\ table'[u].dest = table[u].dest
        /\ table'[u].have_filter = table[u].have_filter
        /\ table'[u] \in [mark : Marks \cup {None}, dest : Dests \cup {None},
                          have_filter : BOOLEAN, id : TableIds \cup {0, None}]
  BY <1>5, <1>6, <1>7, ZenonT(60)
<1>9. table' = [u \in UserSet |-> table'[u]]
  BY <1>1
<1> QED  BY <1>1, <1>4, <1>7, <1>8, <1>9

(* Whose turn it is: the main thread goes through the users in order.      *)
LEMMA Rest ==
  ASSUME Types
  PROVE  /\ todo # <<>> => /\ Head(todo) \in UserSet
                           /\ Tail(todo) \in Seq(UserSet) /\ IsInjective(Tail(todo))
                           /\ ToSet(Tail(todo)) = ToSet(todo) \ {Head(todo)}
                           /\ Head(todo) \in ToSet(todo)
         /\ ToSet(Users) = UserSet /\ ToSet(todo) \subseteq UserSet
         /\ todo = <<>> => ToSet(todo) = {}
<1>1. PICK q \in Seq(UserSet) : q = todo /\ IsInjective(q)
  BY DEF Types, ProcessTypes
<1>2. Len(q) \in Nat /\ DOMAIN q = 1 .. Len(q)
  BY LenProperties
<1>3. \A i \in DOMAIN q : q[i] \in UserSet
  BY <1>2, ElementOfSeq
<1>4. ASSUME q # <<>>
      PROVE  /\ Head(q) \in UserSet
             /\ Tail(q) \in Seq(UserSet) /\ IsInjective(Tail(q))
             /\ ToSet(Tail(q)) = ToSet(q) \ {Head(q)}
             /\ Head(q) \in ToSet(q)
  <2>1. /\ Head(q) = q[1] /\ 1 \in DOMAIN q
        /\ Tail(q) \in Seq(UserSet) /\ DOMAIN Tail(q) = 1 .. (Len(q) - 1)
        /\ \A i \in 1 .. (Len(q) - 1) : Tail(q)[i] = q[i + 1]
    BY <1>2, <1>4, HeadTailProperties, EmptySeq, LenProperties
  <2>2. IsInjective(Tail(q))
    BY <1>1, <1>2, <2>1 DEF IsInjective
  <2>3. \A x : x \in ToSet(Tail(q)) => x \in ToSet(q) /\ x # Head(q)
    BY <1>1, <1>2, <2>1 DEF IsInjective, ToSet
  <2>4. \A x : x \in ToSet(q) /\ x # Head(q) => x \in ToSet(Tail(q))
    <3> SUFFICES ASSUME NEW i \in DOMAIN q, q[i] # q[1]
                 PROVE  q[i] \in ToSet(Tail(q))
      BY <2>1 DEF ToSet
    <3>1. i - 1 \in 1 .. (Len(q) - 1) /\ Tail(q)[i - 1] = q[i]
      BY <1>2, <2>1
    <3> QED  BY <2>1, <3>1 DEF ToSet
  <2> QED  BY <1>3, <2>1, <2>2, <2>3, <2>4 DEF ToSet
<1>5. ToSet(q) \subseteq UserSet
  BY <1>3 DEF ToSet
<1>6. q = <<>> => ToSet(q) = {}
  BY DEF ToSet
<1> QED  BY <1>1, <1>4, <1>5, <1>6 DEF UserSet

(* set_speed keeps the types, and is for a user with a mark.               *)
LEMMA SpeedParts ==
  ASSUME Types, NEW u \in UserSet, NEW s \in Speeds, SetSpeed(u, s)
  PROVE  \/ /\ main' = "stop" /\ UNCHANGED <<table, speed, tc>>
         \/ /\ main' = main /\ table[u].mark \in Marks
            /\ tc'.root = tc.root
            /\ tc'.filters = IF NeedsFilter(u)
                 THEN tc.filters \cup {[mark |-> table[u].mark, user |-> u]}
                 ELSE tc.filters
            /\ tc' \in [root : BOOLEAN, filters : SUBSET [mark : Marks, user : UserSet]]
            /\ table' \in [UserSet -> [mark : Marks \cup {None}, dest : Dests \cup {None},
                               have_filter : BOOLEAN, id : TableIds \cup {0, None}]]
            /\ table'[u].have_filter
            /\ \A v \in UserSet : /\ v # u => table'[v] = table[v]
                                  /\ table'[v].mark = table[v].mark
                                  /\ table'[v].dest = table[v].dest
                                  /\ table'[v].id = table[v].id
            /\ speed' = [speed EXCEPT ![u] = s]
<1>1. CASE main' = "stop" /\ UNCHANGED <<table, speed, tc>>
  BY <1>1
<1>2. CASE ~(main' = "stop" /\ UNCHANGED <<table, speed, tc>>)
  <2>1. /\ table[u].mark # None /\ UNCHANGED main
        /\ IF NeedsFilter(u)
           THEN tc' = [tc EXCEPT !.filters = @ \cup {[mark |-> table[u].mark, user |-> u]}]
           ELSE UNCHANGED tc
        /\ table' = [table EXCEPT ![u].have_filter = TRUE]
        /\ speed' = [speed EXCEPT ![u] = s]
    BY <1>2 DEF SetSpeed
  <2>2. table[u].mark \in Marks /\ tc \in
          [root : BOOLEAN, filters : SUBSET [mark : Marks, user : UserSet]]
    BY <2>1 DEF Types, ProcessTypes, KernelTypes
  <2>3. /\ tc'.root = tc.root
        /\ tc'.filters = IF NeedsFilter(u)
             THEN tc.filters \cup {[mark |-> table[u].mark, user |-> u]}
             ELSE tc.filters
        /\ tc' \in [root : BOOLEAN, filters : SUBSET [mark : Marks, user : UserSet]]
    <3>1. CASE NeedsFilter(u)
      BY <2>1, <2>2, <3>1
    <3>2. CASE ~NeedsFilter(u)
      BY <2>1, <2>2, <3>2
    <3> QED  BY <3>1, <3>2
  <2>4. /\ table' \in [UserSet -> [mark : Marks \cup {None}, dest : Dests \cup {None},
                               have_filter : BOOLEAN, id : TableIds \cup {0, None}]]
        /\ table'[u].have_filter
        /\ \A v \in UserSet : /\ v # u => table'[v] = table[v]
                              /\ table'[v].mark = table[v].mark
                              /\ table'[v].dest = table[v].dest
                              /\ table'[v].id = table[v].id
    <3>1. table \in [UserSet -> [mark : Marks \cup {None}, dest : Dests \cup {None},
                               have_filter : BOOLEAN, id : TableIds \cup {0, None}]]
      BY DEF Types, ProcessTypes
    <3> QED  BY <2>1, <3>1
  <2> QED  BY <2>1, <2>2, <2>3, <2>4
<1> QED  BY <1>1, <1>2

(* Every step keeps the types.                                             *)
LEMMA TypesStep == Types /\ [Next]_vars => Types'
<1> SUFFICES ASSUME Types, [Next]_vars PROVE Types'
  OBVIOUS
<1>1. ASSUME NEW u \in UserSet, UserSteps(u) PROVE Types'
  <2>1. CASE \E s \in Speeds : SetSpeed(u, s)
    <3>1. PICK s \in Speeds : SetSpeed(u, s)
      BY <2>1
    <3>2. UNCHANGED <<mqtt, todo, lines, filters, rules, count>> /\ main = "run"
      BY <3>1 DEF SetSpeed
    <3>3. CASE main' = "stop" /\ UNCHANGED <<table, speed, tc>>
      BY <3>2, <3>3 DEF Types, ProcessTypes, KernelTypes, Carried, MqttAt, Stages
    <3>4. CASE ~(main' = "stop" /\ UNCHANGED <<table, speed, tc>>)
      <4>1. /\ main' = main /\ tc'.root = tc.root
            /\ tc' \in [root : BOOLEAN, filters : SUBSET [mark : Marks, user : UserSet]]
            /\ table' \in [UserSet -> [mark : Marks \cup {None}, dest : Dests \cup {None},
                               have_filter : BOOLEAN, id : TableIds \cup {0, None}]]
            /\ \A v \in UserSet : table'[v].mark = table[v].mark
            /\ speed' = [speed EXCEPT ![u] = s]
        BY <3>1, <3>4, SpeedParts
      <4>2. ProcessTypes'
        BY <3>2, <4>1 DEF Types, ProcessTypes
      <4>3. KernelTypes'
        BY <3>2, <4>1 DEF Types, KernelTypes
      <4>4. \A v \in UserSet : Carried(v)'
        BY <3>2, <4>1 DEF Types, Carried, MqttAt
      <4> QED  BY <3>2, <4>1, <4>2, <4>3, <4>4 DEF Types
    <3> QED  BY <3>3, <3>4
  <2> QED  BY <1>1, <2>1, FilterTypes DEF UserSteps
<1>2. CASE AllocateTables
  <2>1. UNCHANGED <<speed, mqtt, todo, filters, rules, tc, count>>
    BY <1>2 DEF AllocateTables
  <2>2. CASE main' = "failed"
    <3>1. UNCHANGED <<table, lines>>
      BY <1>2, <2>2 DEF AllocateTables, Allocated, AllocatedFrom
    <3> QED  BY <2>1, <2>2, <3>1 DEF Types, ProcessTypes, KernelTypes, Carried, MqttAt, Stages
  <2>3. CASE main' # "failed"
    <3>1. ProcessTypes'
      BY <1>2, <2>1, <2>3, AllocateParts DEF Types, ProcessTypes, Stages
    <3>2. KernelTypes'
      BY <1>2, <2>1, <2>3, AllocateParts DEF Types, KernelTypes
    <3>3. \A v \in UserSet : Carried(v)'
      <4>1. \A v \in UserSet : table'[v].mark = table[v].mark
        BY <1>2, <2>3, AllocateParts
      <4> QED  BY <2>1, <4>1 DEF Types, Carried, MqttAt
    <3>4. main' = "speeds"
      BY <1>2, <2>3, AllocateParts
    <3> QED  BY <2>1, <3>1, <3>2, <3>3, <3>4 DEF Types
  <2> QED  BY <2>2, <2>3
<1>3. CASE AllocateSpeeds
  <2>1. UNCHANGED <<table, speed, mqtt, todo, lines, filters, rules, count>>
    BY <1>3 DEF AllocateSpeeds
  <2>2. \/ main' = "failed" /\ tc' = tc
        \/ main' = "run" /\ tc' = [root |-> TRUE, filters |-> {}]
    BY <1>3 DEF AllocateSpeeds
  <2>3. ProcessTypes'
    BY <2>1, <2>2 DEF Types, ProcessTypes, Stages
  <2>4. KernelTypes'
    <3>1. tc' \in [root : BOOLEAN, filters : SUBSET [mark : Marks, user : UserSet]]
      <4>1. [root |-> TRUE, filters |-> {}] \in
              [root : BOOLEAN, filters : SUBSET [mark : Marks, user : UserSet]]
        OBVIOUS
      <4> QED  BY <2>2, <4>1 DEF Types, KernelTypes
    <3> QED  BY <2>1, <3>1 DEF Types, KernelTypes
  <2>5. tc'.filters # {} \/ main' = "run" => tc'.root
    BY <2>2 DEF Types
  <2> QED  BY <2>1, <2>3, <2>4, <2>5 DEF Types, Carried, MqttAt
<1>4. CASE EndsLoop \/ Terminates
  BY <1>4, UserFacts
     DEF EndsLoop, Terminates, Types, ProcessTypes, KernelTypes, kernel, Carried, MqttAt, Stages
<1>5. CASE ReleaseRule
  <2>1. UNCHANGED <<table, speed, mqtt, todo, lines, filters, tc, count>>
    BY <1>5 DEF ReleaseRule
  <2>2. main' \in {"line", "filter", "failed"} /\ rules' \subseteq rules
    BY <1>5 DEF ReleaseRule
  <2>3. IsFiniteSet(rules')
    BY <2>2, FS_Subset DEF Types, KernelTypes
  <2>4. todo # <<>>
    BY <1>5 DEF ReleaseRule
  <2>5. ProcessTypes'
    BY <2>1, <2>2, <2>4 DEF Types, ProcessTypes, Stages
  <2>6. KernelTypes'
    BY <2>1, <2>2, <2>3 DEF Types, KernelTypes
  <2> QED  BY <2>1, <2>2, <2>5, <2>6 DEF Types, Carried, MqttAt
<1>6. CASE ReleaseFilter
  <2> DEFINE old == Filter(table[Head(todo)].dest, table[Head(todo)].mark)
  <2>1. UNCHANGED <<table, speed, mqtt, todo, lines, rules, tc, count>>
    BY <1>6 DEF ReleaseFilter
  <2>2. CASE BagIn(old, filters)
    <3>1. main' = "line" /\ filters' = filters (-) SetToBag({old})
      BY <1>6, <2>2 DEF ReleaseFilter
    <3>2. /\ filters' \in [DOMAIN filters' -> Nat \ {0}]
          /\ DOMAIN filters' \subseteq DOMAIN filters
      <4> HIDE DEF old
      <4> QED  BY <2>2, <3>1, OneCopyLess DEF Types, KernelTypes
    <3>3. todo # <<>>
      BY <1>6 DEF ReleaseFilter, Types, ProcessTypes
    <3>4. ProcessTypes'
      BY <2>1, <3>1, <3>3 DEF Types, ProcessTypes, Stages
    <3>5. KernelTypes'
      BY <2>1, <3>2 DEF Types, KernelTypes
    <3> QED  BY <2>1, <3>1, <3>4, <3>5 DEF Types, Carried, MqttAt
  <2>3. CASE ~BagIn(old, filters)
    <3>1. main' = "failed" /\ filters' = filters
      BY <1>6, <2>3 DEF ReleaseFilter
    <3> QED  BY <2>1, <3>1 DEF Types, ProcessTypes, KernelTypes, Carried, MqttAt, Stages
  <2> QED  BY <2>2, <2>3
<1>7. CASE ReleaseLine
  <2>1. /\ UNCHANGED <<table, speed, mqtt, filters, rules, tc, count>>
        /\ lines' \subseteq lines /\ main' = "rule" /\ todo' = Tail(todo)
    BY <1>7 DEF ReleaseLine
  <2>2. todo' \in Seq(UserSet) /\ IsInjective(todo)'
    BY <1>7, <2>1, Rest DEF ReleaseLine, Types, ProcessTypes
  <2> QED  BY <2>1, <2>2 DEF Types, ProcessTypes, KernelTypes, Carried, MqttAt, Stages
<1>8. CASE Clears
  BY <1>8 DEF Clears, NoQdisc, Types, ProcessTypes, KernelTypes, Carried, MqttAt, Stages
<1>9. CASE Interrupt
  <2>1. ProcessTypes'
    BY <1>9, UserFacts DEF Interrupt, Types, ProcessTypes, Stages
  <2>2. KernelTypes'
    BY <1>9 DEF Interrupt, Types, KernelTypes, kernel
  <2>3. \A v \in UserSet : Carried(v)'
    BY <1>9 DEF Interrupt, Types, Carried, MqttAt
  <2> QED  BY <1>9, <2>1, <2>2, <2>3 DEF Interrupt, Types, kernel
<1>10. CASE Crash
  <2>1. ProcessTypes'
    BY <1>10, UserFacts DEF Crash, Entry, ProcessTypes, Stages, Steps
  <2>2. KernelTypes'
    BY <1>10 DEF Crash, Types, KernelTypes, kernel
  <2>3. \A v \in UserSet : Carried(v)'
    BY <1>10 DEF Crash, Carried, MqttAt
  <2> QED  BY <1>10, <2>1, <2>2, <2>3 DEF Crash, Types, kernel
<1>11. CASE UNCHANGED vars
  BY <1>11 DEF vars, process, kernel, Types, ProcessTypes, KernelTypes, Carried, MqttAt
<1> QED  BY <1>1, <1>2, <1>3, <1>4, <1>5, <1>6, <1>7, <1>8, <1>9, <1>10, <1>11 DEF Next

-----------------------------------------------------------------------------
(* The speeds.                                                             *)
LEMMA LimitedInit == Init => Limited
<1> SUFFICES ASSUME Init PROVE Limited
  OBVIOUS
<1>1. main = "tables"
  BY DEF Init, Started
<1>2. \A u \in UserSet : /\ table[u].mark = None /\ ~table[u].have_filter
                         /\ speed[u] = None /\ mqtt[u].at = "idle"
  BY DEF Init, Started, Entry
<1> QED  BY <1>1, <1>2 DEF Limited, MqttAt

(* Before the users run, no thread does anything; a user gets its mark     *)
(* before its speed, and keeps it.                                         *)
LEMMA FilterLimited ==
  ASSUME Types, Limited, NEW u \in UserSet,
         \/ \E d \in Dests : SetFilter(u, d)
         \/ DeleteOldFilter(u) \/ GetAvailMark(u) \/ CreateFilter(u)
         \/ SetMark(u) \/ CreateRule(u) \/ SetDest(u)
  PROVE  Limited'
<1>1. UNCHANGED <<main, tc, speed>>
  BY DEF SetFilter, DeleteOldFilter, GetAvailMark, CreateFilter, SetMark, CreateRule,
         SetDest, kernel
<1>2. main \notin {"tables", "speeds"}
  BY DEF SetFilter, DeleteOldFilter, GetAvailMark, CreateFilter, SetMark, CreateRule,
         SetDest, Limited, MqttAt
<1>3. \A v \in UserSet : /\ table'[v].have_filter = table[v].have_filter
                         /\ table[v].mark = None \/ table'[v].mark = table[v].mark
  <2>1. CASE SetMark(u)
    <3>1. /\ table' = [table EXCEPT ![u].mark = mqtt[u].mark]
          /\ mqtt[u].mark \in Marks \cup {None} /\ table[u].mark = None
      BY <2>1 DEF SetMark, Types, ProcessTypes, Carried, MqttAt
    <3> QED  BY <3>1, MarkTo
  <2>2. CASE SetDest(u)
    <3>1. /\ table' = [table EXCEPT ![u].dest = mqtt[u].dest]
          /\ mqtt[u].dest \in Dests \cup {None}
      BY <2>2 DEF SetDest, NewDest, Types, ProcessTypes
    <3> QED  BY <3>1, DestTo
  <2>3. CASE table' = table
    BY <2>3
  <2> QED  BY <2>1, <2>2, <2>3 DEF SetFilter, DeleteOldFilter, GetAvailMark, CreateFilter, CreateRule
<1>4. main = "run" => tc.filters = {[mark |-> table'[v].mark, user |-> v] :
                                      v \in {w \in UserSet : table'[w].have_filter}}
  BY <1>3 DEF Limited
<1> QED  BY <1>1, <1>2, <1>3, <1>4 DEF Limited

(* Every step keeps what holds of the speeds.                              *)
LEMMA LimitedStep == Types /\ Limited /\ [Next]_vars => Limited'
<1> SUFFICES ASSUME Types, Limited, [Next]_vars PROVE Limited'
  OBVIOUS
<1>1. ASSUME NEW u \in UserSet, UserSteps(u) PROVE Limited'
  <2>1. CASE \E s \in Speeds : SetSpeed(u, s)
    <3>1. PICK s \in Speeds : SetSpeed(u, s)
      BY <2>1
    <3>2. main = "run" /\ UNCHANGED mqtt
      BY <3>1 DEF SetSpeed
    <3>3. CASE main' = "stop" /\ UNCHANGED <<table, speed, tc>>
      BY <3>2, <3>3 DEF Limited
    <3>4. CASE ~(main' = "stop" /\ UNCHANGED <<table, speed, tc>>)
      <4>1. /\ main' = main /\ table[u].mark # None
            /\ tc'.filters = IF NeedsFilter(u)
                 THEN tc.filters \cup {[mark |-> table[u].mark, user |-> u]}
                 ELSE tc.filters
            /\ table'[u].have_filter
            /\ \A v \in UserSet : /\ v # u => table'[v] = table[v]
                                  /\ table'[v].mark = table[v].mark
            /\ speed' = [speed EXCEPT ![u] = s]
        BY <3>1, <3>4, SpeedParts, RouteAssumption
      <4>2. tc'.filters = {[mark |-> table'[v].mark, user |-> v] :
                             v \in {w \in UserSet : table'[w].have_filter}}
        <5>1. tc.filters = {[mark |-> table[v].mark, user |-> v] :
                             v \in {w \in UserSet : table[w].have_filter}}
          BY <3>2 DEF Limited
        <5>2. \A v \in UserSet : table'[v].have_filter <=> table[v].have_filter \/ v = u
          BY <4>1
        <5>3. CASE NeedsFilter(u)
          <6>1. tc'.filters = tc.filters \cup {[mark |-> table[u].mark, user |-> u]}
            BY <4>1, <5>3
          <6> QED  BY <4>1, <5>1, <5>2, <6>1
        <5>4. CASE ~NeedsFilter(u)
          <6>1. tc'.filters = tc.filters /\ table[u].have_filter
            BY <4>1, <5>4 DEF NeedsFilter
          <6> QED  BY <4>1, <5>1, <5>2, <6>1
        <5> QED  BY <5>3, <5>4
      <4>3. \A v \in UserSet : table'[v].have_filter => table'[v].mark # None
        BY <3>2, <4>1 DEF Limited
      <4>4. \A v \in UserSet : speed'[v] # None => table'[v].have_filter
        BY <3>2, <4>1 DEF Limited, Types, ProcessTypes
      <4> QED  BY <3>2, <4>1, <4>2, <4>3, <4>4 DEF Limited
    <3> QED  BY <3>3, <3>4
  <2> QED  BY <1>1, <2>1, FilterLimited DEF UserSteps
<1>2. CASE AllocateTables
  <2>1. UNCHANGED <<speed, mqtt>> /\ main = "tables"
    BY <1>2 DEF AllocateTables
  <2>2. CASE main' = "failed"
    BY <2>2 DEF Limited
  <2>3. CASE main' # "failed"
    <3>1. \A u \in UserSet : table'[u].mark = None /\ ~table'[u].have_filter
      BY <1>2, <2>1, <2>3, AllocateParts DEF Limited
    <3>4. main' = "speeds"
      BY <1>2, <2>3, AllocateParts
    <3> QED  BY <2>1, <3>1, <3>4 DEF Limited, MqttAt
  <2> QED  BY <2>2, <2>3
<1>3. CASE AllocateSpeeds
  <2>1. UNCHANGED <<table, speed, mqtt>> /\ main = "speeds"
    BY <1>3 DEF AllocateSpeeds
  <2>2. \/ main' = "failed"
        \/ main' = "run" /\ tc' = [root |-> TRUE, filters |-> {}]
    BY <1>3 DEF AllocateSpeeds
  <2>3. \A u \in UserSet : ~table[u].have_filter /\ speed[u] = None
    BY <2>1 DEF Limited
  <2>4. main' = "run" => tc'.filters = {}
    BY <2>2
  <2> QED  BY <2>1, <2>2, <2>3, <2>4 DEF Limited
<1>4. CASE main' \notin {"tables", "speeds", "run"}
  BY <1>4 DEF Limited
<1>5. CASE Crash
  BY <1>5 DEF Crash, Limited, Entry, MqttAt
<1>6. CASE UNCHANGED vars
  BY <1>6 DEF vars, process, kernel, Limited, MqttAt
<1>7. EndsLoop \/ Terminates \/ ReleaseRule \/ ReleaseFilter \/ ReleaseLine \/ Clears
        \/ Interrupt => main' \notin {"tables", "speeds", "run"}
  BY DEF EndsLoop, Terminates, ReleaseRule, ReleaseFilter, ReleaseLine, Clears, Interrupt
<1> QED  BY <1>1, <1>2, <1>3, <1>4, <1>5, <1>6, <1>7 DEF Next

-----------------------------------------------------------------------------
(* The counts.                                                             *)

(* There are finitely many holders of a filter and users of a mark.        *)
LEMMA CountFacts ==
  /\ \A f : IsFiniteSet(Holders(f)) /\ Cardinality(Holders(f)) \in Nat
  /\ \A m : IsFiniteSet(RuledBy(m)) /\ Cardinality(RuledBy(m)) \in Nat
<1>1. \A f : Holders(f) \subseteq UserSet
  BY DEF Holders
<1>2. \A m : RuledBy(m) \subseteq UserSet
  BY DEF RuledBy
<1> QED  BY <1>1, <1>2, UserFacts, FS_Subset, FS_CardinalityType

(* A filter somebody holds is there, and so is a rule somebody has.        *)
LEMMA Present ==
  ASSUME Types, Counted, NEW u \in UserSet
  PROVE  /\ Holds(u) => BagIn(Held(u), filters)
         /\ HasRule(u) => \E r \in rules : r.mark = table[u].mark
<1>1. ASSUME Holds(u) PROVE BagIn(Held(u), filters)
  <2>1. Holders(Held(u)) # {}
    BY <1>1 DEF Holders
  <2>2. Cardinality(Holders(Held(u))) # 0
    BY <2>1, CountFacts, FS_EmptySet
  <2> QED  BY <2>2 DEF Counted, Copies
<1>2. ASSUME HasRule(u) PROVE RulesOf(table[u].mark) # {}
  <2>1. RuledBy(table[u].mark) # {}
    BY <1>2 DEF RuledBy
  <2>2. Cardinality(RuledBy(table[u].mark)) # 0
    BY <2>1, CountFacts, FS_EmptySet
  <2>3. Cardinality({}) = 0
    BY FS_EmptySet
  <2> QED  BY <2>2, <2>3 DEF Counted
<1> QED  BY <1>1, <1>2 DEF RulesOf

(* The counts of a step that changes what one user stands for, at most:    *)
(* the filters change by a copy, the rules by a rule, as the user does.    *)
LEMMA CountStep ==
  ASSUME Types, Counted, NEW u,
         \A v \in UserSet \ {u} : /\ Holds(v)' <=> Holds(v)
                                  /\ Holds(v) => Held(v)' = Held(v)
                                  /\ HasRule(v)' <=> HasRule(v)
                                  /\ HasRule(v) => table'[v].mark = table[v].mark
  PROVE  /\ \A f : LET was == u \in Holders(f)
                       is == u \in Holders(f)'
                       n == Cardinality(Holders(f))
                   IN  /\ n \in Nat
                       /\ (was <=> is) => Cardinality(Holders(f)') = n
                       /\ was /\ ~is => Cardinality(Holders(f)') = n - 1
                       /\ ~was /\ is => Cardinality(Holders(f)') = n + 1
         /\ \A m : LET was == u \in RuledBy(m)
                       is == u \in RuledBy(m)'
                       n == Cardinality(RuledBy(m))
                   IN  /\ n \in Nat
                       /\ (was <=> is) => Cardinality(RuledBy(m)') = n
                       /\ was /\ ~is => Cardinality(RuledBy(m)') = n - 1
                       /\ ~was /\ is => Cardinality(RuledBy(m)') = n + 1
<1>1. \A f : \A v : v # u => (v \in Holders(f) <=> v \in Holders(f)')
  BY DEF Holders
<1>2. \A m : \A v : v # u => (v \in RuledBy(m) <=> v \in RuledBy(m)')
  BY DEF RuledBy
<1> QED  BY <1>1, <1>2, CountFacts, OneElement

(* A step that leaves what every user stands for.                          *)
LEMMA CountSame ==
  ASSUME Types, Counted, filters' = filters, rules' = rules,
         \A v \in UserSet : /\ Holds(v)' <=> Holds(v)
                            /\ Holds(v) => Held(v)' = Held(v)
                            /\ HasRule(v)' <=> HasRule(v)
                            /\ HasRule(v) => table'[v].mark = table[v].mark
  PROVE  /\ \A f : Copies(f, filters') = Cardinality(Holders(f)')
         /\ \A m : Cardinality(RulesOf(m)') = Cardinality(RuledBy(m)')
         /\ main \in {"run", "stop"} =>
              rules' = {[mark |-> table'[u].mark, user |-> u] :
                          u \in {v \in UserSet : HasRule(v)'}}
<1>1. \A f : Holders(f)' = Holders(f)
  BY DEF Holders
<1>2. \A m : RuledBy(m)' = RuledBy(m) /\ RulesOf(m)' = RulesOf(m)
  BY DEF RuledBy, RulesOf
<1>3. main \in {"run", "stop"} => 
        rules = {[mark |-> table[u].mark, user |-> u] : u \in {v \in UserSet : HasRule(v)}}
  BY DEF Counted
<1>4. {[mark |-> table[u].mark, user |-> u] : u \in {v \in UserSet : HasRule(v)}}
        = {[mark |-> table'[u].mark, user |-> u] : u \in {v \in UserSet : HasRule(v)'}}
  OBVIOUS
<1> QED  BY <1>1, <1>2, <1>3, <1>4 DEF Counted

LEMMA KeptInit == Init => Kept
<1> SUFFICES ASSUME Init PROVE Order /\ Counted
  BY DEF Kept
<1>1. Order
  BY DEF Init, Started, Order
<1>2. \A u \in UserSet : ~Holds(u) /\ ~HasRule(u) /\ ~MqttAt(u, "dead")
  BY DEF Init, Started, Holds, HasRule, Entry, MqttAt
<1>3. \A f : Cardinality(Holders(f)) = 0
  <2>1. \A f : Holders(f) = {}
    BY <1>2 DEF Holders
  <2> QED  BY <2>1, FS_EmptySet
<1>4. \A m : RulesOf(m) = {} /\ RuledBy(m) = {}
  BY <1>2 DEF RuledBy, RulesOf, Init
<1>5. \A f : Copies(f, filters) = 0
  BY DEF Init, Copies, BagIn, BagToSet, EmptyBag, SetToBag
<1> QED  BY <1>1, <1>2, <1>3, <1>4, <1>5 DEF Counted, Init, Started

(* A thread works in set_filter only between the set-up and the release.   *)
LEMMA Working ==
  ASSUME Types, Limited, Order, NEW u \in UserSet, mqtt[u].at \notin {"idle", "dead"}
  PROVE  main \in {"run", "stop"}
BY DEF Limited, Order, Stopped, MqttAt, Types, ProcessTypes, Stages

(* What a step of one thread leaves: the main thread, the other users, and *)
(* with them what these stand for.                                         *)
LEMMA OneThread ==
  ASSUME Types, Order, Counted, main \in {"run", "stop"},
         UNCHANGED <<main, todo, lines, tc>>, NEW u \in UserSet,
         \A v \in UserSet \ {u} : table'[v] = table[v] /\ mqtt'[v] = mqtt[v],
         table'[u].id = table[u].id,
         MqttAt(u, "dead")' => table'[u].mark = None
  PROVE  /\ \A v \in UserSet \ {u} : /\ Holds(v)' <=> Holds(v)
                                     /\ Held(v)' = Held(v)
                                     /\ HasRule(v)' <=> HasRule(v)
                                     /\ table'[v].mark = table[v].mark
         /\ Unreleased(u, {"rule"}) /\ Unreleased(u, {"rule", "filter"})
         /\ Unreleased(u, {"rule"})' /\ Unreleased(u, {"rule", "filter"})'
         /\ Order'
         /\ \A v \in UserSet : MqttAt(v, "dead")' => table'[v].mark = None
         /\ \A l \in lines' : \E v \in ToSet(todo') : table'[v].id = l.id
<1>1. \A v : /\ Unreleased(v, {"rule"}) /\ Unreleased(v, {"rule", "filter"})
             /\ Unreleased(v, {"rule"})' /\ Unreleased(v, {"rule", "filter"})'
  BY DEF Unreleased
<1>2. \A v \in UserSet \ {u} : /\ Holds(v)' <=> Holds(v)
                               /\ Held(v)' = Held(v)
                               /\ HasRule(v)' <=> HasRule(v)
                               /\ table'[v].mark = table[v].mark
  BY <1>1 DEF Holds, Held, HasRule, MqttAt
<1>3. Order'
  BY DEF Order
<1>4. \A v \in UserSet : MqttAt(v, "dead")' => table'[v].mark = None
  BY DEF Counted, MqttAt
<1>5. \A l \in lines' : \E v \in ToSet(todo') : table'[v].id = l.id
  <2>1. \A v \in UserSet : table'[v].id = table[v].id
    OBVIOUS
  <2> QED  BY <2>1, Rest DEF Counted
<1> QED  BY <1>1, <1>2, <1>3, <1>4, <1>5

(* No copy of a filter is added or taken unless the user of the thread     *)
(* stands for one more or for one less.                                    *)
LEMMA FilterKept ==
  ASSUME Types, Types', Limited, Order, Counted, NEW u \in UserSet,
         \/ \E d \in Dests : SetFilter(u, d)
         \/ DeleteOldFilter(u) \/ GetAvailMark(u) \/ CreateFilter(u)
         \/ SetMark(u) \/ CreateRule(u) \/ SetDest(u)
  PROVE  Order' /\ Counted'
<1> DEFINE Alike == /\ Holds(u)' <=> Holds(u)
                    /\ Holds(u) => Held(u)' = Held(u)
                    /\ HasRule(u)' <=> HasRule(u)
                    /\ HasRule(u) => table'[u].mark = table[u].mark
<1>1. UNCHANGED <<main, todo, lines, tc>>
  BY DEF SetFilter, DeleteOldFilter, GetAvailMark, CreateFilter, SetMark, CreateRule,
         SetDest, kernel
<1>2. main \in {"run", "stop"}
  <2>1. CASE \E d \in Dests : SetFilter(u, d)
    BY <2>1 DEF SetFilter
  <2> QED  BY <2>1, Working DEF DeleteOldFilter, GetAvailMark, CreateFilter, SetMark,
           CreateRule, SetDest, MqttAt
<1>3. ASSUME \A v \in UserSet \ {u} : table'[v] = table[v] /\ mqtt'[v] = mqtt[v],
             table'[u].id = table[u].id, MqttAt(u, "dead")' => table'[u].mark = None,
             filters' = filters, rules' = rules, Alike
      PROVE  Order' /\ Counted'
  <2>1. /\ \A v \in UserSet \ {u} : /\ Holds(v)' <=> Holds(v)
                                    /\ Held(v)' = Held(v)
                                    /\ HasRule(v)' <=> HasRule(v)
                                    /\ table'[v].mark = table[v].mark
        /\ Order'
        /\ \A v \in UserSet : MqttAt(v, "dead")' => table'[v].mark = None
        /\ \A l \in lines' : \E v \in ToSet(todo') : table'[v].id = l.id
    BY <1>1, <1>2, <1>3, OneThread
  <2>2. \A v \in UserSet : /\ Holds(v)' <=> Holds(v)
                           /\ Holds(v) => Held(v)' = Held(v)
                           /\ HasRule(v)' <=> HasRule(v)
                           /\ HasRule(v) => table'[v].mark = table[v].mark
    BY <1>3, <2>1
  <2>3. /\ \A f : Copies(f, filters') = Cardinality(Holders(f)')
        /\ \A m : Cardinality(RulesOf(m)') = Cardinality(RuledBy(m)')
        /\ main \in {"run", "stop"} =>
             rules' = {[mark |-> table'[v].mark, user |-> v] :
                         v \in {w \in UserSet : HasRule(w)'}}
    BY <1>3, <2>2, CountSame
  <2> QED  BY <1>1, <1>2, <2>1, <2>3 DEF Counted
<1> HIDE DEF Alike
<1>4. CASE \E d \in Dests : SetFilter(u, d)
  <2>1. PICK d \in Dests : SetFilter(u, d)
    BY <1>4
  <2>2. UNCHANGED <<table, filters, rules>> /\ MqttAt(u, "idle")
        /\ mqtt' = [mqtt EXCEPT ![u] =
               [at |-> IF table[u].mark = None THEN "avail" ELSE "delete",
                dest |-> d, mark |-> table[u].mark]]
    BY <2>1 DEF SetFilter, kernel
  <2>3. /\ mqtt'[u].at = IF table[u].mark = None THEN "avail" ELSE "delete"
        /\ \A v \in UserSet \ {u} : mqtt'[v] = mqtt[v]
    BY <2>2 DEF Types, ProcessTypes
  <2>4. Alike
    BY <1>1, <1>2, <2>2, <2>3 DEF Alike, Holds, Held, HasRule, MqttAt, Unreleased
  <2> QED  BY <1>3, <2>2, <2>3, <2>4 DEF MqttAt
<1>5. CASE DeleteOldFilter(u)
  <2> DEFINE old == Filter(table[u].dest, table[u].mark)
  <2>1. MqttAt(u, "delete") /\ table[u].mark # None /\ UNCHANGED <<table, rules>>
    BY <1>5 DEF DeleteOldFilter, Types, Carried
  <2>2. Holds(u) /\ Held(u) = old
    BY <1>2, <2>1 DEF Holds, Held, MqttAt, Unreleased
  <2>3. BagIn(old, filters)
    BY <2>2, Present
  <2>4. filters' = filters (-) SetToBag({old}) /\ mqtt' = [mqtt EXCEPT ![u].at = "create"]
    BY <1>5, <2>3 DEF DeleteOldFilter
  <2>5. mqtt'[u].at = "create" /\ \A v \in UserSet \ {u} : mqtt'[v] = mqtt[v]
    BY <2>4, ThreadTo DEF Steps
  <2>6. /\ \A v \in UserSet \ {u} : /\ Holds(v)' <=> Holds(v)
                                    /\ Held(v)' = Held(v)
                                    /\ HasRule(v)' <=> HasRule(v)
                                    /\ table'[v].mark = table[v].mark
        /\ Order'
        /\ \A v \in UserSet : MqttAt(v, "dead")' => table'[v].mark = None
        /\ \A l \in lines' : \E v \in ToSet(todo') : table'[v].id = l.id
    BY <1>1, <1>2, <2>1, <2>5, OneThread DEF MqttAt
  <2>7. ~Holds(u)' /\ (HasRule(u)' <=> HasRule(u))
    BY <1>1, <2>1, <2>5 DEF Holds, HasRule, MqttAt, Unreleased
  <2>8. \A f : /\ f = old => u \in Holders(f) /\ u \notin Holders(f)'
               /\ f # old => u \notin Holders(f) /\ u \notin Holders(f)'
    BY <2>2, <2>7 DEF Holders
  <2>9. \A f : Cardinality(Holders(f)') = Cardinality(Holders(f)) - (IF f = old THEN 1 ELSE 0)
    BY <2>6, <2>8, CountStep
  <2>10. \A f : Copies(f, filters') = Copies(f, filters) - (IF f = old THEN 1 ELSE 0)
    <3> HIDE DEF old
    <3> QED  BY <2>3, <2>4, OneCopyLess DEF Types, KernelTypes
  <2>11. \A v \in UserSet : /\ HasRule(v)' <=> HasRule(v)
                            /\ table'[v].mark = table[v].mark
    BY <2>1, <2>6, <2>7
  <2>12. \A m : RuledBy(m)' = RuledBy(m) /\ RulesOf(m)' = RulesOf(m)
    BY <2>1, <2>11 DEF RuledBy, RulesOf
  <2>13. rules' = {[mark |-> table'[v].mark, user |-> v] :
                     v \in {w \in UserSet : HasRule(w)'}}
    BY <1>2, <2>1, <2>11 DEF Counted
  <2>14. \A f : Copies(f, filters') = Cardinality(Holders(f)')
    BY <2>9, <2>10 DEF Counted
  <2> QED  BY <2>6, <2>12, <2>13, <2>14 DEF Counted
<1>6. CASE GetAvailMark(u)
  <2>2. UNCHANGED <<table, filters, rules>> /\ MqttAt(u, "avail")
        /\ mqtt' = [mqtt EXCEPT ![u].mark = AvailMark, ![u].at = "create"]
    BY <1>6 DEF GetAvailMark, kernel
  <2>3. mqtt'[u].at = "create" /\ \A v \in UserSet \ {u} : mqtt'[v] = mqtt[v]
    BY <2>2 DEF Types, ProcessTypes
  <2>4. Alike
    BY <1>1, <1>2, <2>2, <2>3 DEF Alike, Holds, Held, HasRule, MqttAt, Unreleased
  <2> QED  BY <1>3, <2>2, <2>3, <2>4 DEF MqttAt
<1>7. CASE CreateFilter(u) /\ mqtt[u].mark = None
  <2>2. UNCHANGED <<table, filters, rules>> /\ MqttAt(u, "create")
        /\ mqtt' = [mqtt EXCEPT ![u].at = "dead"]
    BY <1>7 DEF CreateFilter
  <2>3. mqtt'[u].at = "dead" /\ \A v \in UserSet \ {u} : mqtt'[v] = mqtt[v]
    BY <2>2, ThreadTo DEF Steps
  <2>4. table'[u].mark = None
    BY <1>7, <2>2 DEF Types, Carried, MqttAt
  <2>5. Alike
    BY <1>1, <1>2, <2>2, <2>3, <2>4 DEF Alike, Holds, Held, HasRule, MqttAt, Unreleased
  <2> QED  BY <1>3, <2>2, <2>3, <2>4, <2>5
<1>8. CASE CreateFilter(u) /\ mqtt[u].mark # None
  <2> DEFINE new == Filter(mqtt[u].dest, mqtt[u].mark)
  <2>1. MqttAt(u, "create") /\ UNCHANGED <<table, rules>>
        /\ filters' = filters (+) SetToBag({new})
        /\ mqtt' = [mqtt EXCEPT ![u].at = IF table[u].mark = None THEN "mark" ELSE "dest"]
    BY <1>8 DEF CreateFilter
  <2>2. /\ mqtt'[u].at \in {"mark", "dest"} /\ \A v \in UserSet \ {u} : mqtt'[v] = mqtt[v]
        /\ mqtt'[u].dest = mqtt[u].dest /\ mqtt'[u].mark = mqtt[u].mark
    BY <2>1, ThreadTo DEF Steps
  <2>3. ~Holds(u) /\ Holds(u)' /\ Held(u)' = new /\ (HasRule(u)' <=> HasRule(u))
    BY <1>1, <1>2, <2>1, <2>2 DEF Holds, Held, HasRule, MqttAt, Unreleased
  <2>6. /\ \A v \in UserSet \ {u} : /\ Holds(v)' <=> Holds(v)
                                    /\ Held(v)' = Held(v)
                                    /\ HasRule(v)' <=> HasRule(v)
                                    /\ table'[v].mark = table[v].mark
        /\ Order'
        /\ \A v \in UserSet : MqttAt(v, "dead")' => table'[v].mark = None
        /\ \A l \in lines' : \E v \in ToSet(todo') : table'[v].id = l.id
    BY <1>1, <1>2, <2>1, <2>2, OneThread DEF MqttAt
  <2>8. \A f : /\ f = new => u \notin Holders(f) /\ u \in Holders(f)'
               /\ f # new => u \notin Holders(f) /\ u \notin Holders(f)'
    BY <2>3 DEF Holders
  <2>9. \A f : Cardinality(Holders(f)') = Cardinality(Holders(f)) + (IF f = new THEN 1 ELSE 0)
    BY <2>6, <2>8, CountStep
  <2>10. \A f : Copies(f, filters') = Copies(f, filters) + (IF f = new THEN 1 ELSE 0)
    <3> HIDE DEF new
    <3> QED  BY <2>1, OneCopyMore DEF Types, KernelTypes
  <2>11. \A v \in UserSet : /\ HasRule(v)' <=> HasRule(v)
                            /\ table'[v].mark = table[v].mark
    BY <2>1, <2>3, <2>6
  <2>12. \A m : RuledBy(m)' = RuledBy(m) /\ RulesOf(m)' = RulesOf(m)
    BY <2>1, <2>11 DEF RuledBy, RulesOf
  <2>13. rules' = {[mark |-> table'[v].mark, user |-> v] :
                     v \in {w \in UserSet : HasRule(w)'}}
    BY <1>2, <2>1, <2>11 DEF Counted
  <2>14. \A f : Copies(f, filters') = Cardinality(Holders(f)')
    BY <2>9, <2>10 DEF Counted
  <2> QED  BY <2>6, <2>12, <2>13, <2>14 DEF Counted
<1>9. CASE SetMark(u)
  <2>1. /\ UNCHANGED <<filters, rules>> /\ MqttAt(u, "mark") /\ table[u].mark = None
        /\ mqtt[u].mark # None /\ mqtt[u].mark \in Marks \cup {None}
        /\ mqtt' = [mqtt EXCEPT ![u].at = "rule"]
        /\ table' = [table EXCEPT ![u].mark = mqtt[u].mark]
    BY <1>9 DEF SetMark, kernel, Types, ProcessTypes, Carried, MqttAt
  <2>2. /\ mqtt'[u].at = "rule" /\ mqtt'[u].dest = mqtt[u].dest
        /\ mqtt'[u].mark = mqtt[u].mark
        /\ \A v \in UserSet \ {u} : mqtt'[v] = mqtt[v]
    BY <2>1, ThreadTo DEF Steps
  <2>3. table'[u].id = table[u].id /\ \A v \in UserSet \ {u} : table'[v] = table[v]
    BY <2>1, MarkTo
  <2>4. Alike
    BY <1>1, <1>2, <2>1, <2>2 DEF Alike, Holds, Held, HasRule, MqttAt, Unreleased
  <2> QED  BY <1>3, <2>1, <2>2, <2>3, <2>4 DEF MqttAt
<1>10. CASE CreateRule(u)
  <2> DEFINE r == [mark |-> mqtt[u].mark, user |-> u]
  <2>1. /\ UNCHANGED <<table, filters>> /\ MqttAt(u, "rule") /\ rules' = rules \cup {r}
        /\ table[u].mark = mqtt[u].mark /\ table[u].mark # None
        /\ mqtt' = [mqtt EXCEPT ![u].at = "dest"]
    BY <1>10 DEF CreateRule, Types, Carried, MqttAt
  <2>2. /\ mqtt'[u].at = "dest" /\ mqtt'[u].dest = mqtt[u].dest
        /\ mqtt'[u].mark = mqtt[u].mark
        /\ \A v \in UserSet \ {u} : mqtt'[v] = mqtt[v]
    BY <2>1, ThreadTo DEF Steps
  <2>3. (Holds(u)' <=> Holds(u)) /\ Held(u)' = Held(u) /\ ~HasRule(u) /\ HasRule(u)'
    BY <1>1, <1>2, <2>1, <2>2 DEF Holds, Held, HasRule, MqttAt, Unreleased
  <2>4. /\ \A v \in UserSet \ {u} : /\ Holds(v)' <=> Holds(v)
                                    /\ Held(v)' = Held(v)
                                    /\ HasRule(v)' <=> HasRule(v)
                                    /\ table'[v].mark = table[v].mark
        /\ Order'
        /\ \A v \in UserSet : MqttAt(v, "dead")' => table'[v].mark = None
        /\ \A l \in lines' : \E v \in ToSet(todo') : table'[v].id = l.id
    BY <1>1, <1>2, <2>1, <2>2, OneThread DEF MqttAt
  <2>5. \A f : Holders(f)' = Holders(f)
    BY <2>3, <2>4 DEF Holders
  <2>6. \A f : Copies(f, filters') = Cardinality(Holders(f)')
    BY <2>1, <2>5 DEF Counted
  <2>7. rules = {[mark |-> table[v].mark, user |-> v] : v \in {w \in UserSet : HasRule(w)}}
    BY <1>2 DEF Counted
  <2>8. rules' = {[mark |-> table'[v].mark, user |-> v] :
                     v \in {w \in UserSet : HasRule(w)'}}
    BY <2>1, <2>3, <2>4, <2>7
  <2>9. r \notin rules
    BY <2>3, <2>7
  <2>10. \A m : /\ m = r.mark => u \notin RuledBy(m) /\ u \in RuledBy(m)'
                /\ m # r.mark => u \notin RuledBy(m) /\ u \notin RuledBy(m)'
    BY <2>1, <2>3 DEF RuledBy
  <2>11. \A m : Cardinality(RuledBy(m)') = Cardinality(RuledBy(m)) + (IF m = r.mark THEN 1 ELSE 0)
    <3> HIDE DEF r
    <3>1. \A m : LET was == u \in RuledBy(m)
                     is == u \in RuledBy(m)'
                     n == Cardinality(RuledBy(m))
                 IN  /\ n \in Nat
                     /\ (was <=> is) => Cardinality(RuledBy(m)') = n
                     /\ ~was /\ is => Cardinality(RuledBy(m)') = n + 1
      BY <2>4, CountStep
    <3> QED  BY <2>10, <3>1
  <2>12. \A m : /\ IsFiniteSet(RulesOf(m))
                /\ \A x : x # r => (x \in RulesOf(m) <=> x \in RulesOf(m)')
                /\ m = r.mark => r \notin RulesOf(m) /\ r \in RulesOf(m)'
                /\ m # r.mark => r \notin RulesOf(m) /\ r \notin RulesOf(m)'
    <3> HIDE DEF r
    <3>1. \A m : RulesOf(m) \subseteq rules
      BY DEF RulesOf
    <3>2. \A m : IsFiniteSet(RulesOf(m))
      BY <3>1, FS_Subset DEF Types, KernelTypes
    <3> QED  BY <2>1, <2>9, <3>2 DEF RulesOf
  <2>13. \A m : Cardinality(RulesOf(m)') = Cardinality(RulesOf(m)) + (IF m = r.mark THEN 1 ELSE 0)
    <3> HIDE DEF r
    <3> QED  BY <2>12, OneElement
  <2>14. \A m : Cardinality(RulesOf(m)') = Cardinality(RuledBy(m)')
    BY <2>11, <2>13 DEF Counted
  <2> QED  BY <2>4, <2>6, <2>8, <2>14 DEF Counted
<1>11. CASE SetDest(u)
  <2>1. /\ UNCHANGED <<filters, rules>> /\ MqttAt(u, "dest")
        /\ table[u].mark = mqtt[u].mark /\ table[u].mark # None
        /\ mqtt[u].dest \in Dests \cup {None}
        /\ mqtt' = [mqtt EXCEPT ![u] = [at |-> "idle", dest |-> None, mark |-> None]]
        /\ table' = [table EXCEPT ![u].dest = mqtt[u].dest]
    BY <1>11 DEF SetDest, NewDest, kernel, Types, ProcessTypes, Carried, MqttAt
  <2>2. mqtt'[u].at = "idle" /\ \A v \in UserSet \ {u} : mqtt'[v] = mqtt[v]
    BY <2>1 DEF Types, ProcessTypes
  <2>3. /\ table'[u].id = table[u].id /\ table'[u].mark = table[u].mark
        /\ table'[u].dest = mqtt[u].dest
        /\ \A v \in UserSet \ {u} : table'[v] = table[v]
    BY <2>1, DestTo
  <2>4. Alike
    BY <1>1, <1>2, <2>1, <2>2, <2>3 DEF Alike, Holds, Held, HasRule, MqttAt, Unreleased
  <2> QED  BY <1>3, <2>1, <2>2, <2>3, <2>4 DEF MqttAt
<1> QED  BY <1>4, <1>5, <1>6, <1>7, <1>8, <1>9, <1>10, <1>11

(* When the threads have stopped, every user with a mark stands for its    *)
(* filter and its rule until they are released.                            *)
LEMMA AtRest ==
  ASSUME Types, Order, Counted, main \in {"rule", "filter", "line"}, NEW u \in UserSet
  PROVE  /\ Holds(u) <=> Unreleased(u, {"rule", "filter"}) /\ table[u].mark # None
         /\ HasRule(u) <=> Unreleased(u, {"rule"}) /\ table[u].mark # None
         /\ Held(u) = Filter(table[u].dest, table[u].mark)
         /\ mqtt[u].at \in {"idle", "dead"}
BY DEF Order, Counted, Stopped, Holds, HasRule, Held, MqttAt

(* The release of a rule: one of the rules with the mark of the user goes. *)
LEMMA RuleKept ==
  ASSUME Types, Limited, Order, Counted, ReleaseRule
  PROVE  Order' /\ Counted'
<1>1. /\ main = "rule" /\ todo # <<>>
      /\ UNCHANGED <<table, speed, mqtt, todo, lines, filters, tc, count>>
  BY DEF ReleaseRule
<1>2. PICK h \in UserSet : /\ h = Head(todo) /\ h \in ToSet(todo)
                          /\ ToSet(Tail(todo)) = ToSet(todo) \ {h}
  BY <1>1, Rest
<1>mark. PICK mark : mark = table[h].mark
  OBVIOUS
<1>3. mark # None => HasRule(h)
  BY <1>1, <1>2, <1>mark, AtRest DEF Unreleased
<1>4. \/ mark = None /\ main' = "line" /\ UNCHANGED rules
      \/ mark # None /\ main' = "filter" /\ \E r \in rules :
           r.mark = mark /\ rules' = rules \ {r}
  <2>1. mark # None => \E r \in rules : r.mark = mark
    BY <1>2, <1>3, <1>mark, Present
  <2>2. \A r \in rules : r.mark # None
    BY RouteAssumption DEF Types, KernelTypes
  <2> QED  BY <1>2, <1>mark, <2>1, <2>2 DEF ReleaseRule
<1>5. Order'
  BY <1>1, <1>2, <1>mark, <1>4 DEF Order, Stopped, MqttAt
<1>6. \A v \in UserSet : /\ Holds(v)' <=> Holds(v)
                         /\ Held(v)' = Held(v)
                         /\ table'[v].mark = table[v].mark
  BY <1>1, <1>2, <1>4, <1>mark, AtRest DEF Holds, Held, MqttAt, Unreleased
<1>7. /\ \A v \in UserSet : MqttAt(v, "dead")' => table'[v].mark = None
      /\ \A l \in lines' : \E v \in ToSet(todo') : table'[v].id = l.id
  BY <1>1 DEF Counted, MqttAt
<1>8. \A f : Copies(f, filters') = Cardinality(Holders(f)')
  <2>1. \A f : Holders(f)' = Holders(f)
    BY <1>6 DEF Holders
  <2> QED  BY <1>1, <2>1 DEF Counted
<1>9. \A m : Cardinality(RulesOf(m)') = Cardinality(RuledBy(m)')
  <2>1. CASE mark = None
    <3>1. \A v \in UserSet : HasRule(v)' <=> HasRule(v)
      BY <1>1, <1>2, <1>4, <1>mark, <2>1 DEF HasRule, MqttAt, Unreleased
    <3>2. \A m : RuledBy(m)' = RuledBy(m) /\ RulesOf(m)' = RulesOf(m)
      BY <1>4, <1>6, <2>1, <3>1 DEF RuledBy, RulesOf
    <3> QED  BY <3>2 DEF Counted
  <2>2. CASE mark # None
    <3>1. PICK r \in rules : r.mark = mark /\ rules' = rules \ {r}
      BY <1>4, <2>2
    <3>2. main' = "filter"
      BY <1>4, <2>2
    <3>3. HasRule(h) /\ ~HasRule(h)'
      BY <1>1, <1>2, <1>3, <2>2, <3>2 DEF HasRule, Unreleased
    <3>4. \A v \in UserSet \ {h} : HasRule(v)' <=> HasRule(v)
      BY <1>1, <1>2, <3>2 DEF HasRule, MqttAt, Unreleased
    <3>5. \A m : /\ m = mark => h \in RuledBy(m) /\ h \notin RuledBy(m)'
                 /\ m # mark => h \notin RuledBy(m) /\ h \notin RuledBy(m)'
      BY <1>1, <1>2, <1>mark, <3>3 DEF RuledBy
    <3>6. \A m : LET was == h \in RuledBy(m)
                     is == h \in RuledBy(m)'
                     n == Cardinality(RuledBy(m))
                 IN  /\ n \in Nat
                     /\ (was <=> is) => Cardinality(RuledBy(m)') = n
                     /\ was /\ ~is => Cardinality(RuledBy(m)') = n - 1
      BY <1>6, <3>4, CountStep
    <3>7. \A m : Cardinality(RuledBy(m)') = Cardinality(RuledBy(m)) - (IF m = mark THEN 1 ELSE 0)
      BY <3>5, <3>6
    <3>8. \A m : /\ IsFiniteSet(RulesOf(m))
                 /\ \A x : x # r => (x \in RulesOf(m) <=> x \in RulesOf(m)')
                 /\ m = mark => r \in RulesOf(m) /\ r \notin RulesOf(m)'
                 /\ m # mark => r \notin RulesOf(m) /\ r \notin RulesOf(m)'
      <4>1. \A m : RulesOf(m) \subseteq rules
        BY DEF RulesOf
      <4>2. \A m : IsFiniteSet(RulesOf(m))
        BY <4>1, FS_Subset DEF Types, KernelTypes
      <4> QED  BY <3>1, <4>2 DEF RulesOf
    <3>9. \A m : Cardinality(RulesOf(m)') = Cardinality(RulesOf(m)) - (IF m = mark THEN 1 ELSE 0)
      BY <3>8, OneElement
    <3> QED  BY <3>7, <3>9 DEF Counted
  <2> QED  BY <2>1, <2>2
<1>10. main' \notin {"run", "stop"}
  BY <1>4
<1> QED  BY <1>5, <1>7, <1>8, <1>9, <1>10 DEF Counted

(* The release of a filter: it is there, and one copy of it goes.          *)
LEMMA FilterGone ==
  ASSUME Types, Limited, Order, Counted, ReleaseFilter
  PROVE  Order' /\ Counted'
<1>1. /\ main = "filter" /\ todo # <<>>
      /\ UNCHANGED <<table, speed, mqtt, todo, lines, rules, tc, count>>
  BY DEF ReleaseFilter, Types, ProcessTypes
<1>2. PICK h \in UserSet : /\ h = Head(todo) /\ h \in ToSet(todo)
                          /\ ToSet(Tail(todo)) = ToSet(todo) \ {h}
                          /\ table[h].mark # None
  BY <1>1, Rest DEF Order
<1>3. PICK f0 : f0 = Filter(table[h].dest, table[h].mark) /\ Holds(h) /\ Held(h) = f0
  BY <1>1, <1>2, AtRest DEF Unreleased
<1>4. main' = "line" /\ filters' = filters (-) SetToBag({f0}) /\ BagIn(f0, filters)
  <2>1. BagIn(f0, filters)
    BY <1>2, <1>3, Present
  <2> QED  BY <1>2, <1>3, <2>1 DEF ReleaseFilter
<1>5. Order'
  BY <1>1, <1>4 DEF Order, Stopped, MqttAt
<1>6. \A v \in UserSet : /\ HasRule(v)' <=> HasRule(v)
                         /\ Held(v)' = Held(v)
                         /\ table'[v].mark = table[v].mark
  BY <1>1, <1>2, <1>4, AtRest DEF HasRule, Held, MqttAt, Unreleased
<1>7. /\ \A v \in UserSet : MqttAt(v, "dead")' => table'[v].mark = None
      /\ \A l \in lines' : \E v \in ToSet(todo') : table'[v].id = l.id
  BY <1>1 DEF Counted, MqttAt
<1>8. \A m : RuledBy(m)' = RuledBy(m) /\ RulesOf(m)' = RulesOf(m)
  BY <1>1, <1>6 DEF RuledBy, RulesOf
<1>9. \A f : Copies(f, filters') = Cardinality(Holders(f)')
  <2>1. ~Holds(h)'
    BY <1>1, <1>2, <1>4 DEF Holds, Unreleased
  <2>2. \A v \in UserSet \ {h} : Holds(v)' <=> Holds(v)
    BY <1>1, <1>2, <1>4 DEF Holds, Unreleased
  <2>3. \A f : /\ f = f0 => h \in Holders(f) /\ h \notin Holders(f)'
               /\ f # f0 => h \notin Holders(f) /\ h \notin Holders(f)'
    BY <1>2, <1>3, <1>6, <2>1 DEF Holders
  <2>4. \A f : LET was == h \in Holders(f)
                   is == h \in Holders(f)'
                   n == Cardinality(Holders(f))
               IN  /\ n \in Nat
                   /\ (was <=> is) => Cardinality(Holders(f)') = n
                   /\ was /\ ~is => Cardinality(Holders(f)') = n - 1
    BY <1>6, <2>2, CountStep
  <2>5. \A f : Cardinality(Holders(f)') = Cardinality(Holders(f)) - (IF f = f0 THEN 1 ELSE 0)
    BY <2>3, <2>4
  <2>6. \A f : Copies(f, filters') = Copies(f, filters) - (IF f = f0 THEN 1 ELSE 0)
    BY <1>4, OneCopyLess DEF Types, KernelTypes
  <2> QED  BY <2>5, <2>6 DEF Counted
<1> QED  BY <1>4, <1>5, <1>7, <1>8, <1>9 DEF Counted

(* Every step of an undisturbed simulation keeps the order and the counts. *)
LEMMA KeptStep == Types /\ Types' /\ Limited /\ Kept /\ [Next]_vars => Kept'
<1> SUFFICES ASSUME Types, Types', Limited, Kept, [Next]_vars, Undisturbed'
             PROVE  Order' /\ Counted'
  BY DEF Kept
<1>1. Undisturbed /\ ~Crash /\ ~Interrupt
  <2>1. count \in [interrupts : Nat, crashes : Nat, filters : [UserSet -> Nat]]
    BY DEF Types
  <2>2. ~Crash
    BY <2>1 DEF Crash, Undisturbed
  <2>3. ~Interrupt
    BY <2>1 DEF Interrupt, Undisturbed
  <2>4. UNCHANGED count \/ \E u \in UserSet, d \in Dests : SetFilter(u, d)
    BY <2>2, <2>3 DEF Next, UserSteps, DeleteOldFilter, GetAvailMark, CreateFilter,
         SetMark, CreateRule, SetDest, SetSpeed, AllocateTables, AllocateSpeeds, EndsLoop,
         Terminates, ReleaseRule, ReleaseFilter, ReleaseLine, Clears, vars
  <2>5. ASSUME NEW u \in UserSet, NEW d \in Dests, SetFilter(u, d) PROVE Undisturbed
    BY <2>1, <2>5 DEF SetFilter, Undisturbed
  <2> QED  BY <2>2, <2>3, <2>4, <2>5 DEF Undisturbed
<1>2. Order /\ Counted
  BY <1>1 DEF Kept
<1>3. ASSUME NEW u \in UserSet, UserSteps(u) PROVE Order' /\ Counted'
  <2>1. CASE \E s \in Speeds : SetSpeed(u, s)
    <3>1. PICK s \in Speeds : SetSpeed(u, s)
      BY <2>1
    <3>2. UNCHANGED <<mqtt, todo, lines, filters, rules, count>> /\ main = "run"
      BY <3>1 DEF SetSpeed
    <3>3. \A v \in UserSet : /\ table'[v].mark = table[v].mark
                             /\ table'[v].dest = table[v].dest
                             /\ table'[v].id = table[v].id
      BY <3>1, SpeedParts
    <3>4. main' \in {"run", "stop"}
      BY <3>1 DEF SetSpeed
    <3>5. \A v \in UserSet : /\ Holds(v)' <=> Holds(v)
                             /\ Held(v)' = Held(v)
                             /\ HasRule(v)' <=> HasRule(v)
      BY <3>2, <3>3, <3>4 DEF Holds, Held, HasRule, MqttAt, Unreleased
    <3>6. Order'
      BY <1>2, <3>2, <3>4 DEF Order
    <3>7. /\ \A f : Copies(f, filters') = Cardinality(Holders(f)')
          /\ \A m : Cardinality(RulesOf(m)') = Cardinality(RuledBy(m)')
          /\ rules' = {[mark |-> table'[v].mark, user |-> v] :
                         v \in {w \in UserSet : HasRule(w)'}}
      BY <1>2, <3>2, <3>3, <3>5, CountSame
    <3>8. /\ \A v \in UserSet : MqttAt(v, "dead")' => table'[v].mark = None
          /\ \A l \in lines' : \E v \in ToSet(todo') : table'[v].id = l.id
      BY <1>2, <3>2, <3>3, Rest DEF Counted, MqttAt
    <3> QED  BY <3>6, <3>7, <3>8 DEF Counted
  <2> QED  BY <1>2, <1>3, <2>1, FilterKept DEF UserSteps
<1>4. CASE AllocateTables
  <2>1. /\ UNCHANGED <<speed, mqtt, todo, filters, rules, tc, count>> /\ main = "tables"
        /\ lines = {} /\ rules = {}
    BY <1>2, <1>4 DEF AllocateTables, Order
  <2>2. main' # "failed"
    BY <1>4, <2>1 DEF AllocateTables, Allocated, AllocatedFrom
  <2>3. /\ main' = "speeds"
        /\ \A l \in lines' : \E u \in UserSet : table'[u].id = l.id
        /\ \A v \in UserSet : table'[v].mark = table[v].mark /\ table'[v].dest = table[v].dest
    BY <1>4, <2>1, <2>2, AllocateParts
  <2>4. \A v \in UserSet : /\ Holds(v)' <=> Holds(v)
                           /\ Held(v)' = Held(v)
                           /\ HasRule(v)' <=> HasRule(v)
    BY <2>1, <2>3 DEF Holds, Held, HasRule, MqttAt, Unreleased
  <2>5. Order'
    BY <1>2, <2>1, <2>3 DEF Order
  <2>6. /\ \A f : Copies(f, filters') = Cardinality(Holders(f)')
        /\ \A m : Cardinality(RulesOf(m)') = Cardinality(RuledBy(m)')
    BY <1>2, <2>1, <2>3, <2>4, CountSame
  <2>7. ToSet(todo') = UserSet
    BY <1>2, <2>1, Rest DEF Order
  <2> QED  BY <1>2, <2>1, <2>3, <2>5, <2>6, <2>7 DEF Counted, MqttAt
<1>5. CASE AllocateSpeeds
  <2>1. /\ UNCHANGED <<table, speed, mqtt, todo, lines, filters, rules, count>>
        /\ main = "speeds" /\ main' = "run" /\ rules = {}
    BY <1>2, <1>5 DEF AllocateSpeeds, Order, NoQdisc
  <2>2. \A v \in UserSet : /\ Holds(v)' <=> Holds(v)
                           /\ Held(v)' = Held(v)
                           /\ HasRule(v)' <=> HasRule(v)
                           /\ table'[v].mark = table[v].mark
    BY <2>1 DEF Holds, Held, HasRule, MqttAt, Unreleased
  <2>3. \A v \in UserSet : ~HasRule(v)'
    BY <2>1 DEF HasRule, Limited
  <2>4. Order'
    BY <1>2, <2>1 DEF Order
  <2>5. /\ \A f : Copies(f, filters') = Cardinality(Holders(f)')
        /\ \A m : Cardinality(RulesOf(m)') = Cardinality(RuledBy(m)')
    BY <1>2, <2>1, <2>2, CountSame
  <2>6. {[mark |-> table'[v].mark, user |-> v] : v \in {w \in UserSet : HasRule(w)'}} = {}
    BY <2>3
  <2> QED  BY <1>2, <2>1, <2>4, <2>5, <2>6 DEF Counted, MqttAt
<1>6. CASE EndsLoop \/ Terminates
  <2>1. /\ UNCHANGED <<table, mqtt, lines, filters, rules, tc>>
        /\ todo' = Users /\ todo = Users
        /\ \/ main = "run" /\ main' = "stop"
           \/ main = "stop" /\ main' = "rule" /\ Stopped
    BY <1>2, <1>6 DEF EndsLoop, Terminates, kernel, Order
  <2>2. \A v \in UserSet : v \in ToSet(todo')
    BY <2>1, Rest
  <2>3. \A v \in UserSet : /\ Holds(v)' <=> Holds(v)
                           /\ Held(v)' = Held(v)
                           /\ HasRule(v)' <=> HasRule(v)
                           /\ table'[v].mark = table[v].mark
    BY <2>1, <2>2 DEF Holds, Held, HasRule, MqttAt, Unreleased
  <2>4. Order'
    BY <1>2, <2>1 DEF Order, Stopped, MqttAt
  <2>5. /\ \A f : Copies(f, filters') = Cardinality(Holders(f)')
        /\ \A m : Cardinality(RulesOf(m)') = Cardinality(RuledBy(m)')
        /\ rules' = {[mark |-> table'[v].mark, user |-> v] :
                       v \in {w \in UserSet : HasRule(w)'}}
    BY <1>2, <2>1, <2>3, CountSame
  <2> QED  BY <1>2, <2>1, <2>4, <2>5 DEF Counted, MqttAt
<1>7. CASE ReleaseLine
  <2>1. /\ UNCHANGED <<table, mqtt, filters, rules, tc>>
        /\ main = "line" /\ main' = "rule" /\ todo' = Tail(todo) /\ todo # <<>>
        /\ lines' = {l \in lines : l.id # table[Head(todo)].id}
    BY <1>7 DEF ReleaseLine, Types, ProcessTypes
  <2>2. \A v \in UserSet : /\ Holds(v)' <=> Holds(v)
                           /\ Held(v)' = Held(v)
                           /\ HasRule(v)' <=> HasRule(v)
                           /\ table'[v].mark = table[v].mark
    BY <2>1 DEF Holds, Held, HasRule, MqttAt, Unreleased
  <2>3. Order'
    BY <1>2, <2>1 DEF Order, Stopped, MqttAt
  <2>4. /\ \A f : Copies(f, filters') = Cardinality(Holders(f)')
        /\ \A m : Cardinality(RulesOf(m)') = Cardinality(RuledBy(m)')
    BY <1>2, <2>1, <2>2, CountSame
  <2>5. \A l \in lines' : \E v \in ToSet(todo') : table'[v].id = l.id
    <3> TAKE l \in lines'
    <3>1. PICK v \in ToSet(todo) : table[v].id = l.id
      BY <1>2, <2>1 DEF Counted
    <3>2. v # Head(todo)
      BY <2>1, <3>1
    <3>3. v \in ToSet(todo')
      BY <2>1, <3>1, <3>2, Rest
    <3> QED  BY <2>1, <3>1, <3>3
  <2> QED  BY <1>2, <2>1, <2>3, <2>4, <2>5 DEF Counted, MqttAt
<1>8. CASE Clears
  <2>1. /\ UNCHANGED <<table, mqtt, filters, rules, lines, todo>>
        /\ main = "rule" /\ main' = "ended" /\ todo = <<>> /\ tc' = NoQdisc
    BY <1>8 DEF Clears
  <2>2. ToSet(todo) = {}
    BY <2>1, Rest
  <2>3. \A v \in UserSet : /\ Holds(v)' <=> Holds(v)
                           /\ Held(v)' = Held(v)
                           /\ HasRule(v)' <=> HasRule(v)
                           /\ table'[v].mark = table[v].mark
    BY <2>1, <2>2 DEF Holds, Held, HasRule, MqttAt, Unreleased
  <2>4. Order'
    BY <1>2, <2>1 DEF Order, Stopped, MqttAt
  <2>5. /\ \A f : Copies(f, filters') = Cardinality(Holders(f)')
        /\ \A m : Cardinality(RulesOf(m)') = Cardinality(RuledBy(m)')
    BY <1>2, <2>1, <2>3, CountSame
  <2> QED  BY <1>2, <2>1, <2>4, <2>5 DEF Counted, MqttAt
<1>9. CASE UNCHANGED vars
  <2>1. UNCHANGED <<table, mqtt, main, todo, lines, filters, rules, tc>>
    BY <1>9 DEF vars, process, kernel
  <2>2. \A v \in UserSet : /\ Holds(v)' <=> Holds(v)
                           /\ Held(v)' = Held(v)
                           /\ HasRule(v)' <=> HasRule(v)
                           /\ table'[v].mark = table[v].mark
    BY <2>1 DEF Holds, Held, HasRule, MqttAt, Unreleased
  <2>3. Order'
    BY <1>2, <2>1 DEF Order, Stopped, MqttAt
  <2>4. /\ \A f : Copies(f, filters') = Cardinality(Holders(f)')
        /\ \A m : Cardinality(RulesOf(m)') = Cardinality(RuledBy(m)')
        /\ main \in {"run", "stop"} =>
             rules' = {[mark |-> table'[v].mark, user |-> v] :
                         v \in {w \in UserSet : HasRule(w)'}}
    BY <1>2, <2>1, <2>2, CountSame
  <2> QED  BY <1>2, <2>1, <2>3, <2>4 DEF Counted, MqttAt
<1> QED  BY <1>1, <1>2, <1>3, <1>4, <1>5, <1>6, <1>7, <1>8, <1>9, RuleKept, FilterGone DEF Next

(* Only the run of the users adds default routes, and nothing takes one.   *)
LEMMA RoutingStep == Routing /\ [Next]_vars => Routing'
<1> SUFFICES ASSUME Routing, [Next]_vars PROVE Routing'
  OBVIOUS
<1>1. ASSUME NEW u \in UserSet, UserSteps(u) PROVE Routing'
  <2>1. UNCHANGED routes
    BY <1>1 DEF UserSteps, SetFilter, DeleteOldFilter, GetAvailMark, CreateFilter,
                SetMark, CreateRule, SetDest, SetSpeed, kernel
  <2>2. UNCHANGED main \/ (main = "run" /\ main' = "stop")
    BY <1>1 DEF UserSteps, SetFilter, DeleteOldFilter, GetAvailMark, CreateFilter,
                SetMark, CreateRule, SetDest, SetSpeed
  <2> QED  BY <2>1, <2>2 DEF Routing
<1>2. CASE AllocateTables
  BY <1>2 DEF AllocateTables, Routing
<1>3. CASE AllocateSpeeds
  BY <1>3 DEF AllocateSpeeds, Routing
<1>4. CASE EndsLoop \/ Terminates \/ Clears
  BY <1>4 DEF EndsLoop, Terminates, Clears, Routing, kernel
<1>5. CASE ReleaseRule \/ ReleaseFilter \/ ReleaseLine
  BY <1>5 DEF ReleaseRule, ReleaseFilter, ReleaseLine, Routing
<1>6. CASE Interrupt
  BY <1>6 DEF Interrupt, Routing, kernel
<1>7. CASE Crash
  BY <1>7 DEF Crash, Routing, kernel
<1>8. CASE UNCHANGED vars
  BY <1>8 DEF vars, process, kernel, Routing
<1> QED  BY <1>1, <1>2, <1>3, <1>4, <1>5, <1>6, <1>7, <1>8 DEF Next

LEMMA Invariant == Spec => []IInv
<1>1. Init => IInv
  <2>1. Init => Routing
    BY DEF Init, Started, Routing
  <2> QED  BY <2>1, TypesInit, LimitedInit, KeptInit DEF IInv
<1>2. IInv /\ [Next]_vars => IInv'
  BY TypesStep, LimitedStep, KeptStep, RoutingStep DEF IInv
<1> QED  BY <1>1, <1>2, PTL DEF Spec

-----------------------------------------------------------------------------
(* Every variable keeps its type: a mark in a filter, a rule or a table is *)
(* one of the range, and the lines of rt_tables name a number of the range *)
(* or None (route.py:52, 102-111).                                         *)
THEOREM TypeCorrect == Spec => []TypeOK
<1>1. IInv => TypeOK
  <2> SUFFICES ASSUME Types, Routing PROVE TypeOK
    BY DEF IInv
  <2>1. \A u \in UserSet :
          /\ table[u].mark \in Marks \cup {None}
          /\ table[u].dest \in Dests \cup {None}
          /\ table[u].id \in TableIds \cup {0, None}
          /\ speed[u] \in Speeds \cup {None}
    BY DEF Types, ProcessTypes
  <2>2. main \in Stages
    BY DEF Types, ProcessTypes
  <2>3. \A f \in BagToSet(filters) : f.mark \in Marks /\ f.dest \in Dests
    BY DEF Types, KernelTypes, BagToSet
  <2>4. /\ \A l \in lines : l.id \in TableIds \cup {None} /\ l.user \in UserSet
        /\ \A r \in rules : r.mark \in Marks /\ r.user \in UserSet
        /\ \A f \in tc.filters : f.mark \in Marks /\ f.user \in UserSet
    BY DEF Types, KernelTypes
  <2>5. \A f \in tc.filters : tc.root
    BY DEF Types
  <2> QED  BY <2>1, <2>2, <2>3, <2>4, <2>5 DEF TypeOK, Stages, Routing
<1> QED  BY <1>1, Invariant, PTL

(* Between two calls of set_filter the filter and the rule that take a    *)
(* user's packets through its table are there; if no other user has, or is *)
(* getting, its mark or its destination, they take no other table, and its *)
(* table takes no packets to another place (route.py:123-138): whatever    *)
(* the threads of the other users do meanwhile.                            *)
THEOREM RoutedCorrect == Spec => []Routed
<1>1. IInv => Routed
  <2> SUFFICES ASSUME Types, Order, Counted, main \in {"run", "stop"},
                      NEW u \in UserSet, MqttAt(u, "idle"), table[u].mark # None
               PROVE  /\ u \in Leads(table[u].dest)
                      /\ Alone(u) =>
                           /\ Leads(table[u].dest) = {u}
                           /\ \A d \in Dests \ {table[u].dest} : u \notin Leads(d)
    BY DEF IInv, Kept, Routed
  <2> DEFINE own == Filter(table[u].dest, table[u].mark)
  <2>1. \A v \in UserSet : Unreleased(v, {"rule"}) /\ Unreleased(v, {"rule", "filter"})
    BY DEF Unreleased
  <2>2. HasRule(u) /\ Holds(u) /\ Held(u) = own
    BY <2>1 DEF HasRule, Holds, Held, MqttAt
  <2>3. [mark |-> table[u].mark, user |-> u] \in rules
    BY <2>2 DEF Counted
  <2>4. BagIn(own, filters)
    BY <2>2, Present
  <2>5. u \in Leads(table[u].dest)
    BY <2>3, <2>4 DEF Leads
  <2>6. \A r \in rules : r.user \in UserSet /\ r.mark = table[r.user].mark
    BY DEF Counted
  (* The thread of the user itself rests: it holds the one of its table. *)
  <2>7. ASSUME NEW d, NEW m, BagIn(Filter(d, m), filters), Alone(u),
               m = table[u].mark \/ d = table[u].dest
        PROVE  m = table[u].mark /\ d = table[u].dest
    <3>1. Holders(Filter(d, m)) # {}
      <4>1. Copies(Filter(d, m), filters) # 0
        BY <2>7 DEF Types, KernelTypes, Copies, BagIn, BagToSet
      <4> QED  BY <4>1, FS_EmptySet DEF Counted
    <3>2. PICK v \in UserSet : Held(v) = Filter(d, m)
      BY <3>1 DEF Holders
    <3>3. v = u
      BY <2>7, <3>2 DEF Alone, Held, Filter
    <3> QED  BY <3>2, <3>3, <2>2 DEF Filter
  <2>8. ASSUME Alone(u)
        PROVE  /\ Leads(table[u].dest) = {u}
               /\ \A d \in Dests \ {table[u].dest} : u \notin Leads(d)
    <3>1. ASSUME NEW r \in rules, BagIn(Filter(table[u].dest, r.mark), filters)
          PROVE  r.user = u
      <4>1. r.mark = table[u].mark
        BY <2>7, <2>8, <3>1
      <4> QED  BY <4>1, <2>6, <2>8 DEF Alone
    <3>2. ASSUME NEW d \in Dests, d # table[u].dest, u \in Leads(d)
          PROVE  FALSE
      <4>1. PICK r \in rules : BagIn(Filter(d, r.mark), filters) /\ r.user = u
        BY <3>2 DEF Leads
      <4>2. r.mark = table[u].mark
        BY <4>1, <2>6
      <4> QED  BY <2>7, <2>8, <3>2, <4>1, <4>2
    <3> QED  BY <2>5, <3>1, <3>2 DEF Leads
  <2> QED  BY <2>5, <2>8
<1> QED  BY <1>1, Invariant, PTL

(* The filters of tc send the packets of a mark to the class of the user   *)
(* whose table has it, and a class with a speed has its filter             *)
(* (datarate.py:129-159): also after kills and interrupts.                 *)
THEOREM ShapedCorrect == Spec => []Shaped
<1>1. IInv => Shaped
  <2> SUFFICES ASSUME Limited, main = "run", NEW u \in UserSet
               PROVE  /\ table[u].have_filter <=>
                           [mark |-> table[u].mark, user |-> u] \in tc.filters
                      /\ speed[u] # None => table[u].have_filter
    BY DEF IInv, Shaped
  <2>1. tc.filters = {[mark |-> table[v].mark, user |-> v] :
                        v \in {w \in UserSet : table[w].have_filter}}
    BY DEF Limited
  <2>2. table[u].have_filter <=> [mark |-> table[u].mark, user |-> u] \in tc.filters
    BY <2>1
  <2> QED  BY <2>2 DEF Limited
<1> QED  BY <1>1, Invariant, PTL

(* A simulation that reaches the end of stop without a kill or an          *)
(* interrupt leaves the default routes of its users in the kernel, and     *)
(* nothing else of its own, whatever the threads of the users were doing   *)
(* when it began to stop (route.py:113-121, 140-150).                      *)
THEOREM CleanCorrect == Spec => []Clean
<1>1. IInv => Clean
  <2> SUFFICES ASSUME Types, Order, Counted, main = "ended"
               PROVE  lines = {} /\ filters = EmptyBag /\ rules = {} /\ tc = NoQdisc
    BY DEF IInv, Kept, Clean, Routing
  <2>1. todo = <<>> /\ tc = NoQdisc
    BY DEF Order
  <2>2. ToSet(todo) = {}
    BY <2>1, Rest
  <2>3. \A v \in UserSet : ~Holds(v) /\ ~HasRule(v)
    BY DEF Holds, HasRule, Unreleased
  <2>4. \A f : Copies(f, filters) = 0
    <3>1. \A f : Holders(f) = {}
      BY <2>3 DEF Holders
    <3> QED  BY <3>1, FS_EmptySet DEF Counted
  <2>5. DOMAIN filters = {}
    BY <2>4 DEF Copies, BagIn, BagToSet, Types, KernelTypes
  <2>6. filters = EmptyBag
    BY <2>5 DEF EmptyBag, SetToBag, Types, KernelTypes
  <2>7. rules = {}
    <3>1. \A m : RuledBy(m) = {}
      BY <2>3 DEF RuledBy
    <3>2. \A m : Cardinality(RulesOf(m)) = 0
      BY <3>1, FS_EmptySet DEF Counted
    <3>3. \A m : IsFiniteSet(RulesOf(m))
      <4>1. \A m : RulesOf(m) \subseteq rules
        BY DEF RulesOf
      <4> QED  BY <4>1, FS_Subset DEF Types, KernelTypes
    <3>4. \A m : RulesOf(m) = {}
      BY <3>2, <3>3, FS_EmptySet
    <3> QED  BY <3>4 DEF RulesOf
  <2> QED  BY <2>1, <2>2, <2>6, <2>7 DEF Counted
<1> QED  BY <1>1, Invariant, PTL
=============================================================================
