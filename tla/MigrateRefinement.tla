------------------------- MODULE MigrateRefinement --------------------------
(* MigrateService, with its threads, queues, datagrams and images,         *)
(* implements ServicePlacement.                                            *)
EXTENDS MigrateInvariant

(* The mapping: where containers run, which server the centre's database   *)
(* names, and the services whose migrations were cut into.                 *)
RunsOn(s) == IF s \in disturbed THEN {} ELSE {e \in Edges : Running(e, s)}
ToldTo(s) == IF s \in disturbed THEN NoEdge ELSE host[s]

Placement == INSTANCE ServicePlacement WITH
  runs <- [s \in Services |-> RunsOn(s)],
  told <- [s \in Services |-> ToldTo(s)],
  lost <- disturbed

(* Every step of an edge server, of the centre or of the network is one of *)
(* the steps of ServicePlacement for one service, or none: the container   *)
(* stops at the source (migrate_source.py:373) before any destination      *)
(* starts it (migrate_dest.py:126), it starts only where its users are not *)
(* yet sent to, and the centre names a server (process_migrated) only once *)
(* the service runs there.                                                 *)
PlacementSpec == Placement!Spec
=============================================================================
