---------------------------- MODULE MCListSplits ----------------------------
(* Instances of ListSplits for TLC.                                        *)
EXTENDS ListSplits

MCSources == {"a", "b"}

Default == [kind |-> "default", shards |-> [s \in {"a"} |-> <<0>>]]
Logging == [kind |-> "logging", shards |-> [s \in {"a", "b"} |-> IF s = "a" THEN <<1, 2>> ELSE <<3>>]]
Column  == [kind |-> "ydb", shards |-> [s \in {"a"} |-> <<1, 2>>]]

\* A logging select with two databases, one that is not split and a table of
\* column shards.
MCSelects == <<Logging, Default, Column>>
MCColumn == <<Column>>
=============================================================================
