----------------------------- MODULE MCOperations -----------------------------
(* Two destinations, two instances, two requests.  "any" is the default    *)
(* pattern; "logs" matches one table.                                      *)
EXTENDS Operations, TLC

CONSTANTS r1, r2

MCPatternTables == "any" :> {"users", "logs"} @@ "logs" :> {"logs"} @@ "" :> {"users", "logs"}

MCFilter(pattern, black) == [pattern |-> pattern, black_list |-> black]

Config(bind, metrics, admin, filter) ==
    [parses |-> TRUE, bind |-> bind, metrics_bind |-> metrics, admin_bind |-> admin,
     filter |-> filter]

Plain == MCFilter("any", "")

(* 9090 is 2 here: a server bound to the port before it meets the metrics. *)
MCConfigs ==
    {Config(3, 2, Null, Plain),
     Config(1, 2, Null, Plain), Config(5, 2, Null, Plain), Config(3, 2, 3, Plain),
     Config(3, 2, Bad, Plain), Config(Bad, 2, Null, Plain),
     Config(3, 2, Null, MCFilter("(", "")),
     [Config(3, 2, Null, Plain) EXCEPT !.parses = FALSE]}

MCFilters == {MCFilter("any", "logs")}

MCKinds == r1 :> {"list"} @@ r2 :> {"start", "stop"}

MCBatches == {<<"users", "logs">>}
===============================================================================
