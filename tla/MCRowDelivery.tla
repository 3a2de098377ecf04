--------------------------- MODULE MCRowDelivery ---------------------------
EXTENDS RowDelivery

CONSTANT n

MCStrings == {"", "f1", "f2", "g", "s", "t", "u", "a", "c", "sql", "long", "lo"}

(* One column, no metadata; and two, with a name for the first and a key   *)
(* with a prefix.                                                          *)
MCTableDefs == {
    [schema |-> "s", table |-> "t", types |-> <<3>>, names |-> n,
     simple_keys |-> {}, prefix_keys |-> {}],
    [schema |-> "s", table |-> "u", types |-> <<3, 15>>, names |-> <<"a">>,
     simple_keys |-> {}, prefix_keys |-> {1}] }

MCColumnName == [i \in 1 .. 2 |-> "c"]

MCTruncated == [x \in {"long"} |-> "lo"]

MCJournals == <<"f1", "f2">>

MCGtids == {"g", n}

MCValues == {n, ""}
=============================================================================
