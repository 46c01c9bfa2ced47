--------------------------- MODULE Estimates_proofs ---------------------------
(* Proofs about Estimates: its type, that a row gets the restore time of   *)
(* its own migration, and that it keeps it.                                *)
(*                                                                         *)
(* The centre looks for the row of a destination's report by its two       *)
(* servers, not by the migration.  It finds the right one because the rows *)
(* and the reports come in the order of the migrations (OrderInv), and the *)
(* row of a report that is next exists and is open (OpenInv).              *)
EXTENDS Estimates, TLAPS, SequenceTheorems, FiniteSetTheorems,
        WellFoundedInduction

Ends(x) == <<x.source, x.dest>> \in Pairs
MoveSet == {m \in [mig : Nat \ {0}, source : Servers, dest : Servers] : Ends(m)}
ReportSet ==
  {r \in [kind : {"source", "dest"}, mig : Nat \ {0}, source : Servers,
          dest : Servers] : Ends(r)}
RecordSet ==
  {x \in [mig : Nat \ {0}, source : Servers, dest : Servers, restore : Nat,
          fresh : BOOLEAN] : Ends(x)}

Types ==
  /\ setup \in [optimized : BOOLEAN, rated : SUBSET Servers,
                faults : SUBSET FaultKinds]
  /\ row \in [there : BOOLEAN, at : Servers, sized : BOOLEAN]
  /\ cpu \subseteq Servers
  /\ rated \in [phi : SUBSET Servers, rho : SUBSET Servers]
  /\ est \in [pairs : SUBSET Pairs, no_connect : 0 .. MaxConnects]
  /\ records \in Seq(RecordSet)
  /\ reports \subseteq ReportSet \cup {ContainerReport}
  /\ service \in [at : Servers, measured : BOOLEAN, move : MoveSet \cup {NoMove}]
  /\ count \in [migrations : Nat, returns : Nat]
  /\ centre \in {"up", "dead"}

(* Moves, reports and rows are about migrations that have begun.           *)
BegunInv ==
  /\ service.move # NoMove => service.move.mig = count.migrations
  /\ \A r \in reports : r.mig <= count.migrations
  /\ \A i \in DOMAIN records : /\ records[i].mig <= count.migrations
                               /\ records[i].restore <= count.migrations

(* The open row of a migration.                                            *)
Open(i, m) == /\ records[i].mig = m.mig /\ records[i].restore = 0
              /\ records[i].source = m.source /\ records[i].dest = m.dest
SourceOf(m) == Report("source", m)
Reported(m) == SourceOf(m) \in reports \/ \E i \in DOMAIN records : Open(i, m)

(* Rows come in the order of the migrations, and before the reports of     *)
(* later ones.  Nothing has been said of a migration that has not left its *)
(* source.                                                                 *)
OrderInv ==
  /\ \A i, j \in DOMAIN records : i < j => records[i].mig < records[j].mig
  /\ \A r \in reports, i \in DOMAIN records :
       /\ r.kind = "source" => records[i].mig < r.mig
       /\ r.kind = "dest" => records[i].mig <= r.mig
  /\ \A r, q \in reports : r.kind = q.kind /\ r.mig = q.mig => r = q
  /\ service.move # NoMove =>
       /\ \A r \in reports : r.kind = "dest" => r.mig # service.move.mig
       /\ service.at = service.move.source =>
            /\ \A r \in reports : r.mig # service.move.mig
            /\ \A i \in DOMAIN records : records[i].mig # service.move.mig

(* A destination that has reported, or will, has its source's report or    *)
(* the open row of it before it.                                           *)
OpenInv ==
  /\ \A r \in reports : r.kind = "dest" => Reported(r)
  /\ service.move # NoMove /\ service.at # service.move.source =>
       Reported(service.move)

(* Where nothing goes wrong, a migration of which the centre has heard, or *)
(* will, is one of a service whose row is there and has its size, and a    *)
(* row is open only until the report of its destination comes.             *)
Smooth == Optimized /\ NothingMissing
Unreported(m) ==
  \/ \E q \in reports : q.kind = "dest" /\ q.mig = m
  \/ service.move # NoMove /\ service.move.mig = m
SmoothInv ==
  /\ cpu = Servers
  /\ rated.phi = Servers /\ rated.rho = Servers
  /\ reports \ {ContainerReport} # {} \/ service.move # NoMove =>
       row.there /\ row.sized
  /\ \A r \in reports : r.kind = "source" => Unreported(r.mig)
  /\ \A i \in DOMAIN records :
       records[i].fresh /\ (records[i].restore = 0 => Unreported(records[i].mig))
AliveInv == /\ Smooth => SmoothInv
            /\ Alive

InOrder == "overtake" \notin Faults
EstimatesInv == BegunInv /\ (InOrder => OrderInv /\ OpenInv /\ RightRestore)

-----------------------------------------------------------------------------
(* Types.                                                                  *)

LEMMA TypeInit == Init => Types
<1> SUFFICES ASSUME Init PROVE Types
  OBVIOUS
<1>1. setup \in [optimized : BOOLEAN, rated : SUBSET Servers,
                faults : SUBSET FaultKinds]
  BY EstimatesAssumption DEF Init
<1>2. <<>> \in Seq(RecordSet) /\ 0 \in 0 .. MaxConnects
  BY EstimatesAssumption
<1> QED  BY <1>1, <1>2 DEF Init, Types

LEMMA ReportType ==
  \A m \in MoveSet, k \in {"source", "dest"} :
    /\ Report(k, m) \in ReportSet
    /\ Report(k, m).kind = k /\ Report(k, m).mig = m.mig
    /\ Report(k, m).source = m.source /\ Report(k, m).dest = m.dest
    /\ Report(k, m) # ContainerReport
BY DEF Report, ReportSet, MoveSet, Ends, ContainerReport

LEMMA MovesType ==
  ASSUME NEW s \in Servers
  PROVE  Moves(s) \subseteq Pairs /\ Cardinality(Moves(s)) \in Nat
<1> DEFINE T == Servers \ {s}
           f == [d \in T |-> <<s, d>>]
<1>1. Moves(s) \subseteq Pairs
  BY DEF Moves, Pairs
<1>2. IsFiniteSet(T)
  BY EstimatesAssumption, FS_Subset
<1>3. f \in Surjection(T, Moves(s))
  BY DEF Surjection, Moves
<1> HIDE DEF f, T
<1>4. IsFiniteSet(Moves(s))
  BY <1>2, <1>3, FS_Surjection
<1> QED  BY <1>1, <1>4, FS_CardinalityType

(* A non-empty set of rows has a latest one.                               *)
LEMMA LatestIn ==
  ASSUME records \in Seq(RecordSet), NEW r, Match(r) # {}
  PROVE  Latest(Match(r)) \in Match(r)
<1> DEFINE n == Len(records)
           M == Match(r)
           T == {n - i : i \in M}
<1>1. n \in Nat /\ M \subseteq 1 .. n
  BY LenProperties DEF Match
<1> HIDE DEF n, M
<1>2. T \in SUBSET Nat /\ T # {}
  BY <1>1 DEF M
<1> DEFINE R == {ss \in Nat \X Nat : ss[1] < ss[2]}
<1>3. IsWellFoundedOn(R, Nat)
  BY NatLessThanWellFounded DEF OpToRel
<1> HIDE DEF R, T
<1>4. PICK x \in T : \A y \in T : ~ (<<y, x>> \in R)
  BY <1>2, <1>3, WFMin
<1>5. \A y \in T : ~ (y < x)
  BY <1>2, <1>4 DEF R
<1>6. PICK i \in M : x = n - i
  BY DEF T
<1>7. \A j \in M : i >= j
  <2> SUFFICES ASSUME NEW j \in M PROVE i >= j
    OBVIOUS
  <2>1. n - j \in T
    BY DEF T
  <2>2. ~ (n - j < n - i)
    BY <1>5, <1>6, <2>1
  <2> QED  BY <1>1, <2>2
<1>8. Latest(M) \in M
  BY <1>6, <1>7 DEF Latest
<1> QED  BY <1>8 DEF M

LEMMA TypeStep ==
  ASSUME Types, [Next]_vars
  PROVE  Types'
<1> USE DEF Types
<1>1. CASE UNCHANGED vars
  BY <1>1 DEF vars
<1>2. CASE Measures
  BY <1>2 DEF Measures
<1>3. CASE ReportsContainer
  BY <1>3 DEF ReportsContainer
<1>4. CASE ReportsSource
  <2>1. service.move \in MoveSet
    BY <1>4 DEF ReportsSource
  <2>2. Report("source", service.move) \in ReportSet /\ service.move.dest \in Servers
    BY <2>1, ReportType DEF MoveSet
  <2> QED  BY <1>4, <2>2 DEF ReportsSource
<1>5. CASE ReportsDest
  <2>1. service.move \in MoveSet
    BY <1>5 DEF ReportsDest
  <2>2. Report("dest", service.move) \in ReportSet
    BY <2>1, ReportType
  <2> QED  BY <1>5, <2>2 DEF ReportsDest
<1>6. ASSUME NEW s \in Servers, LearnsServer(s) PROVE Types'
  BY <1>6 DEF LearnsServer
<1>7. CASE LearnsContainer
  <2>1. /\ Moves(row.at) \subseteq Pairs /\ Cardinality(Moves(row.at)) \in Nat
        /\ MaxConnects \in Nat
    BY MovesType, EstimatesAssumption
  <2>2. est' \in [pairs : SUBSET Pairs, no_connect : 0 .. MaxConnects]
    <3> DEFINE n == est.no_connect + Cardinality(Moves(row.at))
    <3>1. \/ est' = est
          \/ est' = [pairs |-> est.pairs \cup Moves(row.at),
                     no_connect |-> IF n > MaxConnects THEN MaxConnects ELSE n]
      BY <1>7 DEF LearnsContainer
    <3>2. n \in Nat
      BY <2>1
    <3> HIDE DEF n
    <3> QED  BY <2>1, <3>1, <3>2
  <2> QED  BY <1>7, <2>2 DEF LearnsContainer, Survives
<1>8. CASE LearnsSource
  <2>1. PICK r \in reports :
          /\ r.kind = "source" /\ reports' = reports \ {r}
          /\ records' = Append(records, [mig |-> r.mig, source |-> r.source,
                                  dest |-> r.dest, restore |-> 0, fresh |-> TRUE])
          /\ \/ est' = [est EXCEPT !.pairs = @ \cup {<<r.source, r.dest>>}]
             \/ est' = est
          /\ centre' \in {"up", "dead"}
    BY <1>8 DEF LearnsSource, Survives
  <2>2. r \in ReportSet
    BY <2>1 DEF ContainerReport
  <2>3. PICK x \in RecordSet : x = [mig |-> r.mig, source |-> r.source,
                                    dest |-> r.dest, restore |-> 0, fresh |-> TRUE]
    BY <2>2 DEF ReportSet, RecordSet, Ends
  <2>4. records' \in Seq(RecordSet)
    BY <2>1, <2>3, AppendProperties
  <2>5. est' \in [pairs : SUBSET Pairs, no_connect : 0 .. MaxConnects]
    <3>1. <<r.source, r.dest>> \in Pairs
      BY <2>2 DEF ReportSet, Ends
    <3>2. est.pairs \cup {<<r.source, r.dest>>} \in SUBSET Pairs
      BY <3>1
    <3>3. CASE est' = est
      BY <3>3
    <3>4. CASE est' = [est EXCEPT !.pairs = @ \cup {<<r.source, r.dest>>}]
      BY <3>2, <3>4
    <3> QED  BY <2>1, <3>3, <3>4
  <2>6. /\ UNCHANGED <<setup, row, cpu, service, count>> /\ reports' \subseteq reports
    BY <1>8 DEF LearnsSource
  <2>7. rated' \in [phi : SUBSET Servers, rho : SUBSET Servers]
    <3>1. PICK q \in reports :
            /\ q.kind = "source"
            /\ rated' = rated \/ rated' = [rated EXCEPT !.phi = @ \cup {q.source}]
      BY <1>8 DEF LearnsSource
    <3>2. q.source \in Servers
      BY <3>1 DEF ReportSet, ContainerReport
    <3> QED  BY <3>1, <3>2
  <2> QED  BY <2>1, <2>4, <2>5, <2>6, <2>7
<1>9. CASE LearnsDest
  <2>1. PICK r \in reports : r.kind = "dest" /\ records' = Joined(r)
    BY <1>9 DEF LearnsDest
  <2>2. r \in ReportSet
    BY <2>1 DEF ContainerReport
  <2>3. records' \in Seq(RecordSet)
    <3>1. CASE records' = records
      BY <3>1
    <3>2. CASE records' # records
      <4>1. PICK i \in DOMAIN records : records' = [records EXCEPT ![i].restore = r.mig]
        BY <2>1, <3>2, LatestIn, ZenonT(60) DEF Joined, Match
      <4>2. [records[i] EXCEPT !.restore = r.mig] \in RecordSet
        <5>1. records[i] \in RecordSet
          BY <4>1, ElementOfSeq, LenProperties
        <5> QED  BY <2>2, <5>1 DEF ReportSet, RecordSet, Ends
      <4>3. records' = [records EXCEPT ![i] = [records[i] EXCEPT !.restore = r.mig]]
        BY <4>1
      <4> QED  BY <4>2, <4>3, ExceptSeq
    <3> QED  BY <3>1, <3>2
  <2>4. rated' \in [phi : SUBSET Servers, rho : SUBSET Servers]
    <3>1. PICK q \in reports :
            /\ q.kind = "dest"
            /\ rated' = rated \/ rated' = [rated EXCEPT !.rho = @ \cup {q.dest}]
      BY <1>9 DEF LearnsDest
    <3>2. q.dest \in Servers
      BY <3>1 DEF ReportSet, ContainerReport
    <3> QED  BY <3>1, <3>2
  <2> QED  BY <1>9, <2>3, <2>4 DEF LearnsDest, Survives
<1>10. CASE Migrates
  <2>1. PICK d \in Servers \ {row.at} :
          service' = [service EXCEPT !.move =
                       [mig |-> count.migrations + 1, source |-> row.at, dest |-> d]]
    BY <1>10 DEF Migrates
  <2>2. [mig |-> count.migrations + 1, source |-> row.at, dest |-> d] \in MoveSet
    BY DEF MoveSet, Ends, Pairs
  <2>3. count' = [count EXCEPT !.migrations = @ + 1]
    BY <1>10 DEF Migrates
  <2>4. count' \in [migrations : Nat, returns : Nat]
    BY <2>3
  <2>5. service' \in [at : Servers, measured : BOOLEAN, move : MoveSet \cup {NoMove}]
    BY <2>1, <2>2
  <2> QED  BY <1>10, <2>4, <2>5 DEF Migrates
<1>11. CASE Leaves
  <2>1. count' = [count EXCEPT !.returns = @ + 1]
    BY <1>11 DEF Leaves
  <2>2. count' \in [migrations : Nat, returns : Nat]
    BY <2>1
  <2> QED  BY <1>11, <2>2 DEF Leaves
<1>12. CASE Returns
  BY <1>12 DEF Returns
<1>13. CASE Ages
  <2>1. records' = [i \in DOMAIN records |-> [records[i] EXCEPT !.fresh = FALSE]]
    BY <1>13 DEF Ages
  <2>2. \A i \in DOMAIN records : [records[i] EXCEPT !.fresh = FALSE] \in RecordSet
    <3>1. \A i \in DOMAIN records : records[i] \in RecordSet
      BY ElementOfSeq, LenProperties
    <3> QED  BY <3>1, ZenonT(60) DEF RecordSet, Ends
  <2>3. PICK n \in Nat : DOMAIN records = 1 .. n
    BY LenProperties
  <2>4. records' \in Seq(RecordSet)
    <3>1. records' \in [1 .. n -> RecordSet]
      BY <2>1, <2>2, <2>3
    <3> QED  BY <3>1, SeqDef
  <2> QED  BY <1>13, <2>4 DEF Ages
<1> QED  BY <1>1, <1>2, <1>3, <1>4, <1>5, <1>6, <1>7, <1>8, <1>9, <1>10, <1>11,
            <1>12, <1>13 DEF Next

-----------------------------------------------------------------------------
(* The order of rows and reports.                                          *)

LEMMA Kinds ==
  ASSUME Types
  PROVE  /\ \A r \in reports : r.kind \in {"source", "dest"} => r \in ReportSet
         /\ \A r \in reports : r.mig \in Nat
         /\ \A i \in DOMAIN records : records[i] \in RecordSet
         /\ service.move # NoMove => service.move \in MoveSet
         /\ count.migrations \in Nat
<1>1. \A r \in reports : r \in ReportSet \/ r = ContainerReport
  BY DEF Types
<1>2. \A i \in DOMAIN records : records[i] \in RecordSet
  BY ElementOfSeq, LenProperties DEF Types
<1> QED  BY <1>1, <1>2 DEF Types, ContainerReport, ReportSet

(* A step that has nothing to do with a migration.                         *)
LEMMA Apart ==
  ASSUME Types, EstimatesInv, setup' = setup, records' = records,
         reports' \ {ContainerReport} = reports \ {ContainerReport},
         count'.migrations = count.migrations, service'.move = service.move,
         service.move # NoMove => service'.at = service.at
  PROVE  EstimatesInv'
<1>1. /\ ContainerReport.mig = 0 /\ ContainerReport.kind = "container"
      /\ \A m : SourceOf(m) # ContainerReport
  BY DEF ContainerReport, SourceOf, Report
<1>2. /\ \A r \in reports : r \in reports' \/ r = ContainerReport
      /\ \A r \in reports' : r \in reports \/ r = ContainerReport
  OBVIOUS
<1>3. \A m : Reported(m) => Reported(m)'
  BY <1>1, <1>2 DEF Reported, Open
<1>4. BegunInv'
  BY <1>1, <1>2, Kinds DEF EstimatesInv, BegunInv
<1>5. OrderInv => OrderInv'
  <2> SUFFICES ASSUME OrderInv PROVE OrderInv'
    OBVIOUS
  <2>1. \A r, q \in reports' : r.kind = q.kind /\ r.mig = q.mig => r = q
    <3>1. \A r \in reports : r.kind = "container" => r = ContainerReport
      BY DEF Types, ReportSet
    <3> QED  BY <1>1, <1>2, <3>1 DEF OrderInv
  <2>2. service.move # NoMove => service.move.mig # 0
    BY Kinds DEF MoveSet
  <2> QED  BY <1>1, <1>2, <2>1, <2>2 DEF OrderInv
<1>6. OpenInv => OpenInv'
  BY <1>1, <1>2, <1>3 DEF OpenInv
<1> QED  BY <1>4, <1>5, <1>6 DEF EstimatesInv, InOrder, Faults, RightRestore

LEMMA LeavesSource ==
  ASSUME Types, EstimatesInv, ReportsSource
  PROVE  EstimatesInv'
<1> DEFINE r == Report("source", service.move)
<1>1. /\ service.move # NoMove /\ service.move \in MoveSet
      /\ service.at = service.move.source
      /\ service' = [service EXCEPT !.at = service.move.dest]
      /\ reports' = reports \cup {r} /\ UNCHANGED <<setup, records, count>>
  BY Kinds DEF ReportsSource
<1>2. /\ r \in ReportSet /\ r.kind = "source" /\ r.mig = service.move.mig
      /\ r.source = service.move.source /\ r.dest = service.move.dest
      /\ r = SourceOf(service.move)
  BY <1>1, ReportType DEF SourceOf
<1>3. service'.move = service.move /\ service'.at = service.move.dest
      /\ service.move.source # service.move.dest
  BY <1>1 DEF Types, MoveSet, Ends, Pairs
<1> HIDE DEF r
<1>4. r.mig = count.migrations
  BY <1>1, <1>2 DEF EstimatesInv, BegunInv
<1>5. BegunInv'
  BY <1>1, <1>3, <1>4, Kinds DEF EstimatesInv, BegunInv
<1>6. OrderInv => OrderInv'
  <2> SUFFICES ASSUME OrderInv PROVE OrderInv'
    OBVIOUS
  <2>1. \A i \in DOMAIN records : records[i].mig < r.mig
    <3>1. \A i \in DOMAIN records :
            records[i].mig # r.mig /\ records[i].mig <= r.mig /\ records[i].mig \in Nat
      BY <1>1, <1>2, <1>4, Kinds DEF OrderInv, EstimatesInv, BegunInv, RecordSet
    <3>2. r.mig \in Nat
      BY <1>2 DEF ReportSet
    <3> QED  BY <3>1, <3>2
  <2>2. \A q \in reports : q.mig # r.mig
    BY <1>1, <1>2 DEF OrderInv
  <2> QED  BY <1>1, <1>2, <1>3, <2>1, <2>2 DEF OrderInv
<1>7. OpenInv => OpenInv'
  <2>1. \A m : Reported(m) => Reported(m)'
    BY <1>1 DEF Reported, Open
  <2>2. Reported(service.move)'
    BY <1>1, <1>2, <1>3 DEF Reported
  <2> QED  BY <1>1, <1>2, <2>1, <2>2 DEF OpenInv
<1> QED  BY <1>1, <1>5, <1>6, <1>7 DEF EstimatesInv, InOrder, Faults, RightRestore

LEMMA ReachesDest ==
  ASSUME Types, EstimatesInv, ReportsDest
  PROVE  EstimatesInv'
<1>0. PICK r \in ReportSet : r = Report("dest", service.move)
  BY Kinds, ReportType DEF ReportsDest
<1>1. /\ service.move # NoMove /\ service.move \in MoveSet
      /\ service.at = service.move.dest
      /\ service' = [service EXCEPT !.move = NoMove]
      /\ reports' \in {reports, reports \cup {r}} /\ UNCHANGED <<setup, records, count>>
  BY <1>0, Kinds DEF ReportsDest
<1>2. /\ r.kind = "dest" /\ r.mig = service.move.mig
      /\ r.source = service.move.source /\ r.dest = service.move.dest
  BY <1>1, <1>0, ReportType
<1>3. service'.move = NoMove /\ service.at # service.move.source
  BY <1>1 DEF Types, MoveSet, Ends, Pairs
<1>4. SourceOf(r) = SourceOf(service.move)
  BY <1>2 DEF SourceOf, Report
<1>5. r.mig = count.migrations
  BY <1>1, <1>2 DEF EstimatesInv, BegunInv
<1>6. BegunInv'
  BY <1>1, <1>3, <1>5, Kinds DEF EstimatesInv, BegunInv
<1>7. OrderInv => OrderInv'
  <2> SUFFICES ASSUME OrderInv PROVE OrderInv'
    OBVIOUS
  <2>1. \A i \in DOMAIN records : records[i].mig <= r.mig
    BY <1>5 DEF EstimatesInv, BegunInv
  <2>2. \A q \in reports : q.kind = "dest" => q.mig # r.mig
    BY <1>1, <1>2 DEF OrderInv
  <2> QED  BY <1>1, <1>2, <1>3, <2>1, <2>2 DEF OrderInv
<1>8. OpenInv => OpenInv'
  <2> SUFFICES ASSUME OpenInv PROVE OpenInv'
    OBVIOUS
  <2>1. \A m : Reported(m) => Reported(m)'
    BY <1>1 DEF Reported, Open
  <2>2. Reported(r)'
    <3>1. Reported(service.move)
      BY <1>1, <1>3 DEF OpenInv
    <3>2. Reported(r)
      BY <1>2, <1>4, <3>1 DEF Reported, Open
    <3> QED  BY <2>1, <3>2
  <2> QED  BY <1>1, <1>3, <2>1, <2>2 DEF OpenInv
<1> QED  BY <1>1, <1>6, <1>7, <1>8 DEF EstimatesInv, InOrder, Faults, RightRestore

LEMMA Begins ==
  ASSUME Types, EstimatesInv, Migrates
  PROVE  EstimatesInv'
<1>1. PICK d \in Servers \ {row.at} :
        service' = [service EXCEPT !.move =
                     [mig |-> count.migrations + 1, source |-> row.at, dest |-> d]]
  BY DEF Migrates
<1>2. /\ row.at = service.at /\ service.move = NoMove
      /\ count' = [count EXCEPT !.migrations = @ + 1]
      /\ UNCHANGED <<setup, records, reports>>
  BY DEF Migrates
<1>3. /\ count'.migrations = count.migrations + 1 /\ count.migrations \in Nat
      /\ service'.move.mig = count.migrations + 1
      /\ service'.move.source = row.at /\ service'.at = row.at
  BY <1>1, <1>2 DEF Types
<1>4. BegunInv'
  BY <1>2, <1>3, Kinds DEF EstimatesInv, BegunInv, RecordSet
<1>5. OrderInv => OrderInv'
  <2>1. /\ \A r \in reports : r.mig # count.migrations + 1
        /\ \A i \in DOMAIN records : records[i].mig # count.migrations + 1
    BY <1>3, Kinds DEF EstimatesInv, BegunInv
  <2> QED  BY <1>2, <1>3, <2>1 DEF OrderInv
<1>6. OpenInv => OpenInv'
  BY <1>2, <1>3 DEF OpenInv, Reported, Open
<1> QED  BY <1>2, <1>4, <1>5, <1>6 DEF EstimatesInv, InOrder, Faults, RightRestore

LEMMA Aged ==
  ASSUME Types, EstimatesInv, Ages
  PROVE  EstimatesInv'
<1>1. /\ UNCHANGED <<setup, reports, service, count>>
      /\ DOMAIN records' = DOMAIN records
      /\ \A i \in DOMAIN records :
           /\ records'[i].mig = records[i].mig /\ records'[i].restore = records[i].restore
           /\ records'[i].source = records[i].source
           /\ records'[i].dest = records[i].dest
  BY Kinds DEF Ages, RecordSet
<1>2. \A m : Reported(m) => Reported(m)'
  BY <1>1 DEF Reported, Open
<1> QED  BY <1>1, <1>2
         DEF EstimatesInv, BegunInv, OrderInv, OpenInv, InOrder, Faults, RightRestore

(* The report of a source is the next one: it adds the latest row.         *)
LEMMA SourceLearnt ==
  ASSUME Types, EstimatesInv, LearnsSource
  PROVE  EstimatesInv'
<1>1. PICK r \in reports :
        /\ r.kind = "source" /\ InTurn(r) /\ reports' = reports \ {r}
        /\ records' = Append(records, [mig |-> r.mig, source |-> r.source,
                                dest |-> r.dest, restore |-> 0, fresh |-> TRUE])
  BY DEF LearnsSource
<1>2. r \in ReportSet /\ UNCHANGED <<setup, service, count>>
  BY <1>1, Kinds DEF LearnsSource
<1>3. PICK x \in RecordSet : x = [mig |-> r.mig, source |-> r.source,
                                  dest |-> r.dest, restore |-> 0, fresh |-> TRUE]
  BY <1>2 DEF ReportSet, RecordSet, Ends
<1>4. PICK n \in Nat :
        /\ DOMAIN records = 1 .. n /\ DOMAIN records' = 1 .. n + 1
        /\ \A i \in 1 .. n : records'[i] = records[i]
        /\ records'[n + 1] = x
  BY <1>1, <1>3, AppendProperties, LenProperties DEF Types
<1>5. BegunInv'
  <2>1. r.mig <= count.migrations /\ x.mig = r.mig /\ x.restore = 0
    BY <1>1, <1>3 DEF EstimatesInv, BegunInv
  <2>2. \A i \in 1 .. n + 1 : i = n + 1 \/ i \in 1 .. n
    OBVIOUS
  <2>3. \A i \in DOMAIN records' : /\ records'[i].mig <= count.migrations
                                  /\ records'[i].restore <= count.migrations
    BY <1>4, <2>1, <2>2, Kinds DEF EstimatesInv, BegunInv
  <2> QED  BY <1>1, <1>2, <2>3 DEF EstimatesInv, BegunInv
<1>6. ASSUME InOrder, OrderInv PROVE OrderInv'
  <2>1. /\ \A i \in 1 .. n : records[i].mig < r.mig
        /\ r.mig \in Nat /\ x.mig = r.mig
    BY <1>1, <1>2, <1>3, <1>4, <1>6 DEF OrderInv, ReportSet
  <2>2. ASSUME NEW q \in reports'
        PROVE  /\ q.kind = "source" => r.mig < q.mig
               /\ q.kind = "dest" => r.mig <= q.mig
    <3>1. q \in reports /\ q # r /\ q.mig \in Nat
      BY <1>1, <2>2, Kinds
    <3>2. q = ContainerReport \/ q.mig > r.mig \/ (q.mig = r.mig /\ q.kind = "dest")
      BY <1>1, <1>6, <3>1 DEF InTurn, InOrder
    <3> QED  BY <2>1, <3>1, <3>2 DEF ContainerReport
  <2>3. \A i, j \in DOMAIN records' : i < j => records'[i].mig < records'[j].mig
    <3> SUFFICES ASSUME NEW i \in 1 .. n + 1, NEW j \in 1 .. n + 1, i < j
                 PROVE  records'[i].mig < records'[j].mig
      BY <1>4
    <3>1. i \in 1 .. n
      OBVIOUS
    <3>2. CASE j = n + 1
      BY <1>4, <2>1, <3>1, <3>2
    <3>3. CASE j # n + 1
      <4>1. j \in 1 .. n
        BY <3>3
      <4> QED  BY <1>4, <1>6, <3>1, <4>1 DEF OrderInv
    <3> QED  BY <3>2, <3>3
  <2>4. \A q \in reports', i \in DOMAIN records' :
          /\ q.kind = "source" => records'[i].mig < q.mig
          /\ q.kind = "dest" => records'[i].mig <= q.mig
    <3> SUFFICES ASSUME NEW q \in reports', NEW i \in 1 .. n + 1
                 PROVE  /\ q.kind = "source" => records'[i].mig < q.mig
                        /\ q.kind = "dest" => records'[i].mig <= q.mig
      BY <1>4
    <3>1. CASE i = n + 1
      BY <1>4, <2>1, <2>2, <3>1
    <3>2. CASE i # n + 1
      <4>1. i \in 1 .. n /\ q \in reports
        BY <1>1, <3>2
      <4> QED  BY <1>4, <1>6, <4>1 DEF OrderInv
    <3> QED  BY <3>1, <3>2
  <2>5. service.move # NoMove /\ service.at = service.move.source =>
          r.mig # service.move.mig
    BY <1>1, <1>6 DEF OrderInv
  <2>6. \A i \in DOMAIN records' : records'[i].mig = r.mig \/
          (i \in DOMAIN records /\ records'[i] = records[i])
    <3> SUFFICES ASSUME NEW i \in 1 .. n + 1
                 PROVE  records'[i].mig = r.mig \/ (i \in 1 .. n /\ records'[i] = records[i])
      BY <1>4
    <3>1. i = n + 1 \/ i \in 1 .. n
      OBVIOUS
    <3> QED  BY <1>4, <2>1, <3>1
  <2>7. reports' \subseteq reports
    BY <1>1
  <2> QED  BY <1>2, <1>6, <2>3, <2>4, <2>5, <2>6, <2>7 DEF OrderInv
<1>7. \A m : Reported(m) => Reported(m)'
  <2> SUFFICES ASSUME NEW m, Reported(m) PROVE Reported(m)'
    OBVIOUS
  <2>1. CASE SourceOf(m) = r
    <3>1. r.mig = m.mig /\ r.source = m.source /\ r.dest = m.dest
      BY <2>1 DEF SourceOf, Report
    <3>2. n + 1 \in DOMAIN records' /\ Open(n + 1, m)'
      BY <1>3, <1>4, <3>1 DEF Open
    <3> QED  BY <3>2 DEF Reported
  <2>2. CASE SourceOf(m) # r /\ SourceOf(m) \in reports
    BY <1>1, <2>2 DEF Reported
  <2>3. ASSUME NEW i \in DOMAIN records, Open(i, m) PROVE Reported(m)'
    <3>1. i \in DOMAIN records' /\ Open(i, m)'
      BY <1>4, <2>3 DEF Open
    <3> QED  BY <3>1 DEF Reported
  <2> QED  BY <2>1, <2>2, <2>3 DEF Reported
<1>8. OpenInv => OpenInv'
  BY <1>1, <1>2, <1>7 DEF OpenInv
<1>9. RightRestore /\ InOrder => RightRestore'
  <2>1. x.restore = 0
    BY <1>3
  <2>2. \A i \in 1 .. n + 1 : i = n + 1 \/ i \in 1 .. n
    OBVIOUS
  <2> QED  BY <1>2, <1>4, <2>1, <2>2 DEF RightRestore, InOrder, Faults
<1> QED  BY <1>2, <1>5, <1>6, <1>8, <1>9 DEF EstimatesInv, InOrder, Faults

(* What the report of a destination can change: the restore time of one    *)
(* open row.                                                               *)
LEMMA JoinedRow ==
  ASSUME Types, NEW r \in reports, r.kind = "dest", records' = Joined(r)
  PROVE  \/ records' = records
         \/ /\ Latest(Match(r)) \in Match(r)
            /\ records' = [records EXCEPT ![Latest(Match(r))].restore = r.mig]
<1>1. records \in Seq(RecordSet)
  BY DEF Types
<1> QED  BY <1>1, LatestIn DEF Joined

(* The report of a destination is the next one: the latest row between its *)
(* servers is that of its migration.                                       *)
LEMMA DestFinds ==
  ASSUME Types, InOrder, OrderInv, OpenInv, NEW r \in reports, r.kind = "dest", InTurn(r)
  PROVE  Latest(Match(r)) \in DOMAIN records /\ Open(Latest(Match(r)), r)
<1>1. r \in ReportSet
  BY Kinds
<1>2. SourceOf(r) \notin reports
  <2>1. /\ SourceOf(r).kind = "source" /\ SourceOf(r).mig = r.mig
        /\ SourceOf(r) # ContainerReport /\ SourceOf(r) # r
    BY <1>1 DEF SourceOf, Report, ContainerReport
  <2>2. r.mig \in Nat /\ ~(r.mig > r.mig)
    BY <1>1 DEF ReportSet
  <2> QED  BY <2>1, <2>2 DEF InTurn, InOrder
<1>3. PICK k \in DOMAIN records : Open(k, r)
  BY <1>2 DEF OpenInv, Reported
<1>4. k \in Match(r)
  BY <1>3 DEF Open, Match
<1>5. \A j \in Match(r) : k >= j
  <2> SUFFICES ASSUME NEW j \in Match(r) PROVE ~(k < j) /\ k \in Int /\ j \in Int
    OBVIOUS
  <2>1. j \in DOMAIN records /\ records[j].mig <= records[k].mig
    BY <1>3 DEF Match, OrderInv, Open
  <2>2. k \in Int /\ j \in Int
    BY <2>1, LenProperties DEF Types
  <2>3. /\ records[j].mig \in Nat /\ records[k].mig \in Nat
        /\ k < j => records[k].mig < records[j].mig
    BY <2>1, Kinds DEF OrderInv, RecordSet
  <2> QED  BY <2>1, <2>2, <2>3
<1>6. Latest(Match(r)) \in Match(r) /\ \A j \in Match(r) : Latest(Match(r)) >= j
  BY <1>4, <1>5 DEF Latest
<1>7. Latest(Match(r)) = k
  <2>1. k \in Int /\ Latest(Match(r)) \in Int
    BY <1>6, LenProperties DEF Types, Match
  <2> QED  BY <1>4, <1>5, <1>6, <2>1
<1> QED  BY <1>3, <1>7

LEMMA DestLearnt ==
  ASSUME Types, EstimatesInv, LearnsDest
  PROVE  EstimatesInv'
<1>1. PICK r \in reports : /\ r.kind = "dest" /\ InTurn(r)
                           /\ reports' = reports \ {r} /\ records' = Joined(r)
  BY DEF LearnsDest
<1>2. r \in ReportSet /\ UNCHANGED <<setup, service, count>>
  BY <1>1, Kinds DEF LearnsDest
<1>3. PICK k : k = Latest(Match(r))
  OBVIOUS
<1>4. \/ records' = records
      \/ k \in Match(r) /\ records' = [records EXCEPT ![k].restore = r.mig]
  BY <1>1, <1>3, JoinedRow
<1>5. /\ DOMAIN records' = DOMAIN records
      /\ \A i \in DOMAIN records :
           /\ records'[i].mig = records[i].mig
           /\ records'[i].source = records[i].source
           /\ records'[i].dest = records[i].dest
           /\ i # k => records'[i].restore = records[i].restore
           /\ records'[i].restore \in {records[i].restore, r.mig}
  BY <1>4, Kinds DEF Match, RecordSet
<1>6. BegunInv'
  BY <1>1, <1>2, <1>5 DEF EstimatesInv, BegunInv
<1>7. ASSUME InOrder, OrderInv, OpenInv, RightRestore
      PROVE  OrderInv' /\ OpenInv' /\ RightRestore'
  <2>1. k \in DOMAIN records /\ Open(k, r)
    BY <1>1, <1>3, <1>7, DestFinds
  <2>2. OrderInv'
    BY <1>1, <1>2, <1>5, <1>7 DEF OrderInv
  <2>3. RightRestore'
    BY <1>2, <1>5, <1>7, <2>1 DEF RightRestore, Open, InOrder, Faults
  <2>4. \A m : Reported(m) /\ m.mig # r.mig => Reported(m)'
    <3> SUFFICES ASSUME NEW m, Reported(m), m.mig # r.mig PROVE Reported(m)'
      OBVIOUS
    <3>1. SourceOf(m) # r
      BY <1>1 DEF SourceOf, Report
    <3>2. ASSUME NEW i \in DOMAIN records, Open(i, m) PROVE Open(i, m)'
      BY <1>5, <2>1, <3>2 DEF Open
    <3> QED  BY <1>1, <1>5, <3>1, <3>2 DEF Reported
  <2>5. \A q \in reports' : q.kind = "dest" => q.mig # r.mig
    BY <1>1, <1>7 DEF OrderInv
  <2>6. service.move # NoMove => service.move.mig # r.mig
    BY <1>1, <1>7 DEF OrderInv
  <2> QED  BY <1>1, <1>2, <1>7, <2>2, <2>3, <2>4, <2>5, <2>6 DEF OpenInv
<1> QED  BY <1>2, <1>6, <1>7 DEF EstimatesInv, InOrder, Faults

LEMMA SmoothStep ==
  ASSUME Types, EstimatesInv, Smooth, SmoothInv, [Next]_vars
  PROVE  SmoothInv' /\ (Up => Up')
<1>1. \A r \in reports : r \in ReportSet \/ r = ContainerReport
  BY DEF Types
<1>2. InOrder /\ OrderInv /\ OpenInv
  BY DEF Smooth, NothingMissing, InOrder, EstimatesInv
<1>3. ASSUME cpu' = cpu, rated' = rated, centre' = centre, records' = records,
             reports' \ {ContainerReport} = reports \ {ContainerReport},
             service'.move = service.move,
             reports' \ {ContainerReport} # {} \/ service.move # NoMove =>
               row'.there /\ (row.sized => row'.sized)
      PROVE  SmoothInv' /\ (Up => Up')
  <2>1. \A m : Unreported(m) => Unreported(m)'
    BY <1>3 DEF Unreported, ContainerReport
  <2> QED  BY <1>3, <2>1 DEF SmoothInv, Up, ContainerReport
<1>4. CASE UNCHANGED vars
  BY <1>3, <1>4 DEF vars, SmoothInv
<1>5. CASE Measures
  BY <1>3, <1>5 DEF Measures, Types, SmoothInv
<1>6. CASE ReportsContainer
  BY <1>3, <1>6 DEF ReportsContainer, SmoothInv
<1>7. ASSUME NEW s \in Servers, LearnsServer(s) PROVE SmoothInv' /\ (Up => Up')
  BY <1>7 DEF LearnsServer, SmoothInv
<1>8. CASE LearnsContainer
  <2>1. centre' = centre
    BY <1>8 DEF LearnsContainer, CanEstimate, Survives, SmoothInv, Types, Up
  <2>2. row'.there = row.there /\ (row.sized => row'.sized)
    BY <1>8 DEF LearnsContainer, Types
  <2> QED  BY <1>3, <1>8, <2>1, <2>2 DEF LearnsContainer, SmoothInv
<1>9. CASE Leaves
  <2>1. reports \ {ContainerReport} = {} /\ service.move = NoMove
    BY <1>9 DEF Leaves, Smooth, NothingMissing
  <2> QED  BY <1>3, <1>9, <2>1 DEF Leaves, Types
<1>10. CASE Returns
  BY <1>3, <1>10 DEF Returns, SmoothInv
<1>11. CASE ReportsSource
  <2>1. /\ service'.move = service.move /\ service.move # NoMove
        /\ reports' = reports \cup {Report("source", service.move)}
        /\ UNCHANGED <<row, cpu, rated, records, centre>>
    BY <1>11 DEF ReportsSource, Types
  <2>2. \A m : Unreported(m) => Unreported(m)'
    BY <2>1 DEF Unreported
  <2>3. Unreported(Report("source", service.move).mig)'
    BY <2>1 DEF Unreported, Report
  <2> QED  BY <2>1, <2>2, <2>3 DEF SmoothInv, Up
<1>12. CASE ReportsDest
  <2>1. PICK r : r = Report("dest", service.move)
    OBVIOUS
  <2>2. /\ service'.move = NoMove /\ service.move # NoMove /\ reports' = reports \cup {r}
        /\ row'.there = row.there /\ row'.sized = row.sized
        /\ UNCHANGED <<cpu, rated, records, centre>>
    BY <1>12, <2>1 DEF ReportsDest, Types, Smooth, NothingMissing
  <2>3. r.kind = "dest" /\ r.mig = service.move.mig
    BY <2>1 DEF Report
  <2>4. \A m : Unreported(m) => Unreported(m)'
    BY <2>2, <2>3 DEF Unreported
  <2> QED  BY <2>2, <2>3, <2>4 DEF SmoothInv, Up
<1>13. CASE Migrates
  <2>1. /\ service.move = NoMove /\ row.there /\ row.sized
        /\ UNCHANGED <<row, cpu, rated, records, reports, centre>>
    BY <1>13 DEF Migrates, Smooth, ValidInfo
  <2>2. \A m : Unreported(m) => Unreported(m)'
    BY <2>1 DEF Unreported
  <2> QED  BY <2>1, <2>2 DEF SmoothInv, Up
<1>14. CASE Ages
  BY <1>14 DEF Ages, Smooth, NothingMissing
<1>15. CASE LearnsSource
  <2>1. PICK r \in reports :
          /\ r.kind = "source" /\ InTurn(r) /\ reports' = reports \ {r}
          /\ records' = Append(records, [mig |-> r.mig, source |-> r.source,
                                  dest |-> r.dest, restore |-> 0, fresh |-> TRUE])
          /\ centre' = IF row.there /\ row.sized /\ r.source \in cpu
                       THEN "up" ELSE "dead"
    BY <1>15 DEF LearnsSource, Survives, Smooth
  <2>2. r \in ReportSet /\ r # ContainerReport
    BY <2>1, Kinds DEF ContainerReport
  <2>3. row.there /\ row.sized /\ r.source \in cpu
    BY <2>1, <2>2 DEF SmoothInv, ReportSet
  <2>4. UNCHANGED <<row, cpu, service>> /\ rated'.phi = Servers /\ rated'.rho = Servers
    <3>1. PICK q \in reports :
            /\ q.kind = "source"
            /\ rated' = rated \/ rated' = [rated EXCEPT !.phi = @ \cup {q.source}]
      BY <1>15 DEF LearnsSource
    <3>2. q.source \in Servers
      BY <3>1 DEF Types, ReportSet, ContainerReport
    <3>3. rated'.phi \in {rated.phi, rated.phi \cup {q.source}} /\ rated'.rho = rated.rho
      BY <3>1 DEF Types
    <3>4. rated.phi \cup {q.source} = Servers
      BY <3>2 DEF SmoothInv
    <3> QED  BY <1>15, <3>3, <3>4 DEF LearnsSource, SmoothInv
  <2>5. \A m : Unreported(m) => Unreported(m)'
    BY <2>1, <2>4 DEF Unreported
  <2>6. Unreported(r.mig)'
    BY <2>1, <2>5 DEF SmoothInv
  <2>7. \A m : m = r.mig => Unreported(m)'
    BY <2>6
  <2>8. PICK n \in Nat :
          /\ DOMAIN records = 1 .. n /\ DOMAIN records' = 1 .. n + 1
          /\ \A i \in 1 .. n : records'[i] = records[i]
          /\ records'[n + 1].mig = r.mig /\ records'[n + 1].fresh
    BY <2>1, AppendProperties, LenProperties DEF Types
  <2>9. ASSUME NEW i \in DOMAIN records'
        PROVE  /\ records'[i].fresh
               /\ \A m : records'[i].restore = 0 /\ m = records'[i].mig => Unreported(m)'
    <3>1. CASE i = n + 1
      BY <2>8, <2>7, <3>1
    <3>2. CASE i # n + 1
      <4>1. i \in 1 .. n
        BY <2>8, <3>2
      <4> QED  BY <2>5, <2>8, <4>1 DEF SmoothInv
    <3> QED  BY <3>1, <3>2
  <2> QED  BY <2>1, <2>3, <2>4, <2>5, <2>9 DEF SmoothInv, Up
<1>16. CASE LearnsDest
  <2>1. PICK r \in reports :
          /\ r.kind = "dest" /\ InTurn(r)
          /\ reports' = reports \ {r} /\ records' = Joined(r)
          /\ centre' = IF Optimized =>
                \A i \in {j \in DOMAIN records : records[j].dest = r.dest} :
                  /\ records'[i].restore # 0
                  /\ r.dest \in cpu
                  /\ row.there => row.sized
                       THEN "up" ELSE "dead"
    BY <1>16 DEF LearnsDest, Survives
  <2>2. r \in ReportSet /\ r # ContainerReport /\ UNCHANGED <<row, cpu, service>>
    BY <1>16, <2>1, Kinds DEF LearnsDest, ContainerReport
  <2>14. rated'.phi = Servers /\ rated'.rho = Servers
    <3>1. PICK q \in reports :
            /\ q.kind = "dest"
            /\ rated' = rated \/ rated' = [rated EXCEPT !.rho = @ \cup {q.dest}]
      BY <1>16 DEF LearnsDest
    <3>2. q.dest \in Servers
      BY <3>1 DEF Types, ReportSet, ContainerReport
    <3>3. rated'.rho \in {rated.rho, rated.rho \cup {q.dest}} /\ rated'.phi = rated.phi
      BY <3>1 DEF Types
    <3>4. rated.rho \cup {q.dest} = Servers
      BY <3>2 DEF SmoothInv
    <3> QED  BY <3>3, <3>4 DEF SmoothInv
  <2>3. PICK k : k = Latest(Match(r))
    OBVIOUS
  <2>4. k \in DOMAIN records /\ Open(k, r) /\ k \in Match(r)
    BY <1>2, <2>1, <2>3, DestFinds DEF Match, Open
  <2>5. records' = [records EXCEPT ![k].restore = r.mig]
    BY <2>1, <2>3, <2>4 DEF Joined, SmoothInv
  <2>6. /\ DOMAIN records' = DOMAIN records /\ records'[k].restore = r.mig
        /\ \A i \in DOMAIN records :
             /\ records'[i].mig = records[i].mig /\ records'[i].fresh = records[i].fresh
             /\ i # k => records'[i].restore = records[i].restore
    BY <2>4, <2>5, Kinds DEF RecordSet
  <2>7. r.mig # 0 /\ r.mig <= count.migrations
    BY <2>2 DEF ReportSet, EstimatesInv, BegunInv
  <2>8. \A m : Unreported(m) /\ m # r.mig => Unreported(m)'
    BY <2>1, <2>2 DEF Unreported
  <2>9. \A i \in DOMAIN records : i # k => records[i].mig # r.mig
    <3> SUFFICES ASSUME NEW i \in DOMAIN records, i # k
                 PROVE  records[i].mig # records[k].mig
      BY <2>4 DEF Open
    <3>1. i \in Int /\ k \in Int /\ records[i].mig \in Nat /\ records[k].mig \in Nat
      BY <2>4, Kinds, LenProperties, SMTT(30) DEF Types, RecordSet
    <3>2. i < k \/ k < i
      BY <3>1
    <3> QED  BY <1>2, <2>4, <3>1, <3>2 DEF OrderInv
  <2>10. \A q \in reports' : q.kind = "source" => q.mig # r.mig
    <3> SUFFICES ASSUME NEW q \in reports', q.kind = "source", q.mig = r.mig PROVE FALSE
      OBVIOUS
    <3>1. q # ContainerReport /\ r.mig \in Nat
      BY <2>2 DEF ContainerReport, ReportSet
    <3> QED  BY <1>2, <2>1, <3>1 DEF InTurn, InOrder
  <2>11. SmoothInv'
    BY <2>1, <2>2, <2>6, <2>7, <2>8, <2>9, <2>10, <2>14 DEF SmoothInv
  <2>12. \A i \in DOMAIN records : records[i].dest = r.dest => records'[i].restore # 0
    <3> SUFFICES ASSUME NEW i \in DOMAIN records, i # k, records[i].restore = 0 PROVE FALSE
      BY <2>6, <2>7
    <3>1. Unreported(records[i].mig)
      BY DEF SmoothInv
    <3>2. /\ records[i].mig < r.mig /\ records[i].mig \in Nat /\ r.mig \in Nat
          /\ count.migrations \in Nat
      <4>1. records[i].mig <= r.mig
        BY <1>2, <2>1 DEF OrderInv
      <4> QED  BY <2>2, <2>9, <4>1, Kinds DEF RecordSet, ReportSet
    <3>3. ~(service.move # NoMove /\ service.move.mig = records[i].mig)
      BY <2>7, <3>2 DEF EstimatesInv, BegunInv
    <3>4. PICK q \in reports : q.kind = "dest" /\ q.mig = records[i].mig
      BY <3>1, <3>3 DEF Unreported
    <3>5. q # ContainerReport /\ q # r
      BY <3>2, <3>4 DEF ContainerReport
    <3> QED  BY <1>2, <2>1, <3>2, <3>4, <3>5 DEF InTurn, InOrder
  <2>13. r.dest \in cpu /\ row.sized
    BY <2>2 DEF SmoothInv, ReportSet
  <2> QED  BY <2>1, <2>11, <2>12, <2>13 DEF Up
<1> QED  BY <1>4, <1>5, <1>6, <1>7, <1>8, <1>9, <1>10, <1>11, <1>12, <1>13, <1>14,
            <1>15, <1>16 DEF Next

LEMMA AliveStep ==
  ASSUME Types, EstimatesInv, AliveInv, [Next]_vars
  PROVE  AliveInv'
<1>1. setup' = setup
  BY DEF Next, vars, Measures, ReportsContainer, ReportsSource, ReportsDest, LearnsServer,
     LearnsContainer, LearnsSource, LearnsDest, Migrates, Leaves, Returns, Ages
<1>2. CASE Smooth
  BY <1>1, <1>2, SmoothStep
     DEF AliveInv, Alive, Smooth, Optimized, NothingMissing, Faults
<1>3. CASE Optimized /\ ~NothingMissing
  BY <1>1, <1>3 DEF AliveInv, Alive, Smooth, Optimized, NothingMissing, Faults
<1>4. CASE ~Optimized
  <2>1. Up
    BY <1>4 DEF AliveInv, Alive
  <2>2. Up'
    BY <1>4, <2>1 DEF Up, Next, vars, Measures, ReportsContainer, ReportsSource,
       ReportsDest, LearnsServer, LearnsContainer, LearnsSource, LearnsDest, Migrates,
       Leaves, Returns, Ages, Survives, KnowsServer
  <2> QED  BY <1>1, <1>4, <2>2 DEF AliveInv, Alive, Smooth, Optimized
<1> QED  BY <1>2, <1>3, <1>4 DEF Smooth

LEMMA EstimatesStep ==
  ASSUME Types, EstimatesInv, [Next]_vars
  PROVE  EstimatesInv'
<1>1. CASE UNCHANGED vars
  BY <1>1, Apart DEF vars
<1>2. CASE Measures
  BY <1>2, Apart DEF Measures, Types
<1>3. CASE ReportsContainer
  BY <1>3, Apart DEF ReportsContainer
<1>4. ASSUME NEW s \in Servers, LearnsServer(s) PROVE EstimatesInv'
  BY <1>4, Apart DEF LearnsServer
<1>5. CASE LearnsContainer
  BY <1>5, Apart DEF LearnsContainer
<1>6. CASE Leaves
  BY <1>6, Apart DEF Leaves, Types
<1>7. CASE Returns
  BY <1>7, Apart DEF Returns
<1> QED  BY <1>1, <1>2, <1>3, <1>4, <1>5, <1>6, <1>7, LeavesSource, ReachesDest,
            Begins, Aged, SourceLearnt, DestLearnt DEF Next

LEMMA EstimatesInit == Init => EstimatesInv /\ AliveInv
<1>1. Init => EstimatesInv
  BY DEF Init, EstimatesInv, BegunInv, OrderInv, OpenInv, RightRestore
<1>2. Init => AliveInv
  BY DEF Init, AliveInv, Alive, Smooth, NothingMissing, SmoothInv, Unreported, Up
<1> QED  BY <1>1, <1>2

THEOREM EstimatesInvariant == Spec => [](Types /\ EstimatesInv /\ AliveInv)
<1>1. Init => Types /\ EstimatesInv /\ AliveInv
  BY TypeInit, EstimatesInit
<1>2. Types /\ EstimatesInv /\ AliveInv /\ [Next]_vars
        => (Types /\ EstimatesInv /\ AliveInv)'
  BY TypeStep, EstimatesStep, AliveStep
<1> QED  BY <1>1, <1>2, PTL DEF Spec

(* Every variable keeps its type, and no row has a restore time of a       *)
(* migration that has not begun.                                           *)
THEOREM TypeCorrect == Spec => []TypeOK
<1>1. Types /\ BegunInv => TypeOK
  BY Kinds DEF Types, BegunInv, TypeOK, RecordSet, Ends
<1> QED  BY <1>1, EstimatesInvariant, PTL DEF EstimatesInv

(* The restore time of a row is that of its own migration, unless reports  *)
(* overtake each other.                                                    *)
THEOREM RestoreOfMigration == Spec => []RightRestore
<1>1. EstimatesInv => RightRestore
  BY DEF EstimatesInv, InOrder, RightRestore
<1> QED  BY <1>1, EstimatesInvariant, PTL

(* No report ends the centre, unless an optimizing planner meets reports   *)
(* that are lost, late or early, or servers configured without phi or rho. *)
THEOREM CentreSurvives == Spec => []Alive
<1>1. AliveInv => Alive
  BY DEF AliveInv
<1> QED  BY <1>1, EstimatesInvariant, PTL

(* No report changes a restore time that is there, in whatever order the   *)
(* reports come.                                                           *)
THEOREM RestoresStay == Spec => RestoreKept
<1> DEFINE Kept == \A i \in DOMAIN records :
             records[i].restore # 0 => records'[i].restore = records[i].restore
<1>1. Types /\ [Next]_vars => [Kept]_vars
  <2> SUFFICES ASSUME Types, Next PROVE Kept
    OBVIOUS
  <2>1. CASE LearnsSource
    <3>1. PICK x : records' = Append(records, x)
      BY <2>1 DEF LearnsSource
    <3> QED  BY <3>1, AppendProperties, LenProperties DEF Types
  <2>2. CASE LearnsDest
    <3>1. PICK r \in reports : r.kind = "dest" /\ records' = Joined(r)
      BY <2>2 DEF LearnsDest
    <3> QED  BY <3>1, JoinedRow DEF Match
  <2>3. CASE Ages
    BY <2>3, Kinds DEF Ages, RecordSet
  <2>4. CASE UNCHANGED records
    BY <2>4
  <2> QED  BY <2>1, <2>2, <2>3, <2>4 DEF Next, Measures, ReportsContainer,
     ReportsSource, ReportsDest, LearnsServer, LearnsContainer, Migrates, Leaves, Returns
<1> QED  BY <1>1, EstimatesInvariant, PTL DEF Spec, RestoreKept
=============================================================================
