----------------------------- MODULE ShardTools ------------------------------
(***************************************************************************)
(* The commands cs_data_distribution and cs_benchmark_select of            *)
(* app/client/ydb, which ask YDB for the column shards of a table and then *)
(* count the rows of each: the one in a goroutine for every shard, the     *)
(* other shard by shard.  The SDK of YDB (query.Do, external) repeats a    *)
(* query from its beginning after an error that can be retried.            *)
(***************************************************************************)
EXTENDS Naturals, Sequences, FiniteSets

CONSTANTS
  ColumnShards,       \* the shards of the table
  ShardRows(_),       \* the rows of a shard
  MaxRepeats          \* bound: queries that the SDK repeats

ASSUME ShardToolsAssumption == IsFiniteSet(ColumnShards)

VARIABLES
  shardTool,          \* distribution or select
  shardIds,           \* getColumnShardIDs: the slice of the ids
  unread,             \* the ids that the current attempt has not yet read
  repeats,            \* how many queries were repeated
  idsRepeated,        \* history: the query of the ids was, after it had read some
  countRepeated,      \* history: the query of a count was, after it had sent one
  counting,           \* distribution: the goroutines, by the index of their shard
  resultChan,         \* distribution: their results
  cursor,             \* select: rows that the current attempt has read of the shard
  selected,           \* select: benchResult.rows
  shardResults,       \* what is reported, see Result
  shardOutcome,
  shardPc

shardVars == <<shardTool, shardIds, unread, repeats, idsRepeated, countRepeated, counting,
               resultChan, cursor, selected, shardResults, shardOutcome, shardPc>>

ShardToolsOff ==
  /\ shardTool = "select" /\ shardIds = <<>> /\ unread = {} /\ repeats = 0
  /\ idsRepeated = FALSE /\ countRepeated = FALSE /\ counting = <<>> /\ resultChan = <<>>
  /\ cursor = 0 /\ selected = 0 /\ shardResults = <<>> /\ shardOutcome = "none" /\ shardPc = "off"

ShardToolsInit ==
  /\ shardTool \in {"distribution", "select"}
  /\ shardIds = <<>> /\ unread = ColumnShards /\ repeats = 0
  /\ idsRepeated = FALSE /\ countRepeated = FALSE /\ counting = <<>> /\ resultChan = <<>>
  /\ cursor = 0 /\ selected = 0 /\ shardResults = <<>> /\ shardOutcome = "none" /\ shardPc = "ids"

Exits(outcome) == shardOutcome' = outcome /\ shardPc' = "over"

\* No shard is reported with its rows: totalRowsPerShard is a slice of numbers, and the
\* shardID of a columnShardBenchmarkSelectResult is never set, so that 0 is shown.  of is
\* history.
Result(shard, rows) == [shardID |-> 0, rows |-> rows, of |-> shard]

\* query.Do calls its function again.
Repeats == repeats < MaxRepeats /\ repeats' = repeats + 1
-----------------------------------------------------------------------------
(* getColumnShardIDs *)

ReadId ==
  /\ shardPc = "ids"
  /\ \E s \in unread : shardIds' = Append(shardIds, s) /\ unread' = unread \ {s}
  /\ UNCHANGED <<shardTool, repeats, idsRepeated, countRepeated, counting, resultChan, cursor, selected,
                 shardResults, shardOutcome, shardPc>>

\* The slice is outside of the function that is called again.
RepeatIds ==
  /\ shardPc = "ids" /\ Repeats
  /\ unread' = ColumnShards
  /\ idsRepeated' = (idsRepeated \/ shardIds # <<>>)
  /\ UNCHANGED <<shardTool, shardIds, countRepeated, counting, resultChan, cursor, selected,
                 shardResults, shardOutcome, shardPc>>

\* All ids, and the goroutines; or the connection or the query fails.
IdsEnd ==
  /\ shardPc = "ids"
  /\ \/ Exits("failed") /\ UNCHANGED counting
     \/ /\ unread = {}
        /\ shardPc' = shardTool /\ UNCHANGED shardOutcome
        /\ counting' = IF shardTool = "distribution"
                       THEN [i \in DOMAIN shardIds |-> "query"] ELSE counting
  /\ UNCHANGED <<shardTool, shardIds, unread, repeats, idsRepeated, countRepeated, resultChan,
                 cursor, selected, shardResults>>
-----------------------------------------------------------------------------
(* cs_data_distribution *)

\* The channel has a place for every shard.
Sends(result) ==
  /\ Len(resultChan) < Len(shardIds)
  /\ resultChan' = Append(resultChan, result)

\* A goroutine reads the row of SELECT COUNT and sends it; its query ends, is repeated,
\* or fails for good.
CountShard(i) ==
  /\ shardPc = "distribution"
  /\ \/ /\ counting[i] = "query"
        /\ Sends([shard |-> shardIds[i], rows |-> ShardRows(shardIds[i]), err |-> FALSE])
        /\ counting' = [counting EXCEPT ![i] = "sent"]
        /\ UNCHANGED <<repeats, countRepeated>>
     \/ /\ counting[i] = "sent"
        /\ counting' = [counting EXCEPT ![i] = "over"]
        /\ UNCHANGED <<resultChan, repeats, countRepeated>>
     \/ /\ counting[i] \in {"query", "sent"} /\ Repeats
        /\ countRepeated' = (countRepeated \/ counting[i] = "sent")
        /\ counting' = [counting EXCEPT ![i] = "query"]
        /\ UNCHANGED resultChan
     \/ /\ counting[i] \in {"query", "sent"}
        /\ Sends([shard |-> shardIds[i], rows |-> 0, err |-> TRUE])
        /\ counting' = [counting EXCEPT ![i] = "over"]
        /\ UNCHANGED <<repeats, countRepeated>>
  /\ UNCHANGED <<shardTool, shardIds, unread, idsRepeated, cursor, selected, shardResults,
                 shardOutcome, shardPc>>

\* The loop over the results, one for every shard.
TakeCount ==
  /\ shardPc = "distribution" /\ resultChan # <<>> /\ Len(shardResults) < Len(shardIds)
  /\ LET result == Head(resultChan)
     IN IF result.err
        THEN Exits("failed") /\ UNCHANGED shardResults
        ELSE /\ shardResults' = Append(shardResults, Result(result.shard, result.rows))
             /\ UNCHANGED <<shardOutcome, shardPc>>
  /\ resultChan' = Tail(resultChan)
  /\ UNCHANGED <<shardTool, shardIds, unread, repeats, idsRepeated, countRepeated, counting,
                 cursor, selected>>

\* The mean is of all results.  A mean of zero is an error; of no results it is not a
\* number, which is shown.
ShowDistribution ==
  /\ shardPc = "distribution" /\ Len(shardResults) = Len(shardIds)
  /\ Exits(IF shardResults = <<>> \/ \E i \in DOMAIN shardResults : shardResults[i].rows > 0
           THEN "ok" ELSE "failed")
  /\ UNCHANGED <<shardTool, shardIds, unread, repeats, idsRepeated, countRepeated, counting,
                 resultChan, cursor, selected, shardResults>>
-----------------------------------------------------------------------------
(* cs_benchmark_select *)

CurrentShard == shardIds[Len(shardResults) + 1]
Selecting == shardPc = "select" /\ Len(shardResults) < Len(shardIds)

ReadShardRow ==
  /\ Selecting /\ cursor < ShardRows(CurrentShard)
  /\ cursor' = cursor + 1 /\ selected' = selected + 1
  /\ UNCHANGED <<shardTool, shardIds, unread, repeats, idsRepeated, countRepeated, counting,
                 resultChan, shardResults, shardOutcome, shardPc>>

\* The rows of the attempt before are kept.
RepeatSelect_Keep ==
  /\ Selecting /\ Repeats
  /\ cursor' = 0
  /\ UNCHANGED <<shardTool, shardIds, unread, idsRepeated, countRepeated, counting, resultChan,
                 selected, shardResults, shardOutcome, shardPc>>

\* columnShardBenchmarkSelectSingleShard: "clean up in case of retry".
RepeatSelect ==
  /\ Selecting /\ Repeats
  /\ cursor' = 0 /\ selected' = 0
  /\ UNCHANGED <<shardTool, shardIds, unread, idsRepeated, countRepeated, counting, resultChan,
                 shardResults, shardOutcome, shardPc>>

\* The shard is at its end, and the next result starts from zero; or the query has failed.
SelectEnds ==
  /\ Selecting
  /\ \/ /\ cursor = ShardRows(CurrentShard)
        /\ shardResults' = Append(shardResults, Result(CurrentShard, selected))
        /\ cursor' = 0 /\ selected' = 0
        /\ UNCHANGED <<shardOutcome, shardPc>>
     \/ Exits("failed") /\ UNCHANGED <<shardResults, cursor, selected>>
  /\ UNCHANGED <<shardTool, shardIds, unread, repeats, idsRepeated, countRepeated, counting,
                 resultChan>>

\* The orders of a slice: a function from the places onto the places.
Orders(places) == {order \in [places -> places] : \A j \in places : \E i \in places : order[i] = j}

\* The results are sorted by the time that each has taken.
ShowSelects ==
  /\ shardPc = "select" /\ Len(shardResults) = Len(shardIds)
  /\ \E order \in Orders(DOMAIN shardResults) :
       shardResults' = [i \in DOMAIN shardResults |-> shardResults[order[i]]]
  /\ Exits("ok")
  /\ UNCHANGED <<shardTool, shardIds, unread, repeats, idsRepeated, countRepeated, counting,
                 resultChan, cursor, selected>>

ShardToolsNext ==
  \/ ReadId \/ RepeatIds \/ IdsEnd
  \/ (\E i \in DOMAIN counting : CountShard(i)) \/ TakeCount \/ ShowDistribution
  \/ ReadShardRow \/ RepeatSelect \/ SelectEnds \/ ShowSelects

ShardToolsSpec == ShardToolsInit /\ [][ShardToolsNext]_shardVars
-----------------------------------------------------------------------------
(* Properties *)

\* A command that ends without an error reports the rows of every column shard once, all
\* of them, whatever was repeated on the way, though not which shard they are of (see
\* Result).  Two places do not clean up before they are repeated: the slice of the ids
\* keeps those of the attempt before, so that shards are reported twice; and a count that
\* was sent is sent again, so that another shard's is left in the channel.
ShardsAreCounted ==
  /\ shardTool = "select" => \A i \in DOMAIN shardResults :
       shardResults[i].rows = ShardRows(shardResults[i].of)
  /\ shardOutcome = "ok" /\ ~idsRepeated /\ (shardTool = "distribution" => ~countRepeated) =>
       /\ Len(shardResults) = Cardinality(ColumnShards)
       /\ \A s \in ColumnShards : \E i \in DOMAIN shardResults :
            shardResults[i] = Result(s, ShardRows(s))
=============================================================================
