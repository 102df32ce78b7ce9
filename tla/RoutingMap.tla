----------------------------- MODULE RoutingMap -----------------------------
(***************************************************************************)
(* routing_map of src/multithread/map_containers.cc: from the address of a *)
(* host to that of the switch in front of it, read from a file, line by    *)
(* line, before anything is sent.  std::map::insert leaves an entry that   *)
(* is there alone: of two lines for a host the first counts.               *)
(***************************************************************************)
EXTENDS Integers, SequencesExt

CONSTANTS
  RoutingTable,  \* the lines of the file: <<host, switch>>
  Nowhere        \* 0.0.0.0

ASSUME TableAssumption == RoutingTable \in Seq(Range(RoutingTable))

Wrong_map_insert(m, key, value) ==        \* routing_map[key] = value
  [k \in DOMAIN m \cup {key} |-> IF k = key THEN value ELSE m[k]]

map_insert(m, key, value) ==
  [k \in DOMAIN m \cup {key} |-> IF k \in DOMAIN m THEN m[k] ELSE value]

routing_map ==
  FoldLeft(LAMBDA m, line : map_insert(m, line[1], line[2]), << >>, RoutingTable)

map_lookup(key) == IF key \in DOMAIN routing_map THEN routing_map[key] ELSE Nowhere
=============================================================================
