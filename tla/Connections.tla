----------------------------- MODULE Connections -----------------------------
(***************************************************************************)
(* One connection to a data source, from Make to Release: the connection   *)
(* managers and drivers of app/server/datasource/{rdbms,nosql}, the        *)
(* retriers of app/server/utils/retry that call Make and Query, and the    *)
(* loop of doReadSplitSingleConn over the rows of every result set.        *)
(*                                                                         *)
(* What differs between the sources is a record, see Manager.              *)
(***************************************************************************)
EXTENDS Naturals, Sequences

CONSTANTS
  ResultSets,     \* the results to read: sizes of their result sets
  MaxAttempts     \* bound: attempts before MaxElapsedTime is over

ASSUME ConnectionAssumption == ResultSets \subseteq Seq(Nat) \ {<<>>}

VARIABLES
  source,         \* the manager's name
  phase,          \* describe or read
  forbidRetries,  \* the flag of common.ForbidRetries in the metadata
  attempts,       \* number of the current call of the operation that is retried
  handles,        \* connections that are open
  abandoned,      \* history: connections of failed attempts that nobody closes
  rows,           \* none, open, closed, or lost: open, and nobody can close them
  results,        \* rows of every result set that are still to be read
  resultSet,      \* the current result set
  rowsErr,        \* rows.Err() is not nil
  broken,         \* history: the stream of the rows has failed
  outcome,        \* what the call returns
  connPc

call == <<source, phase, forbidRetries>>
connectionVars == <<source, phase, forbidRetries, attempts, handles, abandoned, rows, results,
                    resultSet, rowsErr, broken, outcome, connPc>>
-----------------------------------------------------------------------------
(* The sources.  refuses: Make checks the credentials or the protocol of the       *)
(* request.  setup: an open connection has to answer a ping or take a setting, and *)
(* closes: if it does not, it is closed.  query: failed queries are retried.       *)
(* sets: what NextResultSet does.  MySQL hands the rows over a channel, which is    *)
(* closed at their end and on every error alike, and its Err is always nil.        *)

Source(refuses, setup, closes, query, sets) ==
  [refuses |-> refuses, setup |-> setup, closes |-> closes, query |-> query, sets |-> sets]

ClickHouseNative == Source(TRUE,  TRUE,  FALSE, FALSE, "one")
ClickHouseHTTP   == Source(TRUE,  TRUE,  FALSE, FALSE, "sql")
PostgreSQL       == Source(TRUE,  TRUE,  FALSE, FALSE, "one")
MySQL            == Source(TRUE,  TRUE,  FALSE, FALSE, "channel")
Oracle           == Source(TRUE,  TRUE,  TRUE,  FALSE, "one")
MsSQLServer      == Source(TRUE,  TRUE,  TRUE,  FALSE, "sql")
YdbNative        == Source(FALSE, FALSE, FALSE, TRUE,  "stream")
YdbDatabaseSQL   == Source(FALSE, TRUE,  FALSE, TRUE,  "sql")
MongoDB          == Source(TRUE,  TRUE,  TRUE,  FALSE, "none")
RedisClient      == Source(TRUE,  TRUE,  FALSE, FALSE, "none")

\* Log groups are read from YDB.
Logging == [YdbNative EXCEPT !.refuses = TRUE]

Managers ==
  {"clickhouse native", "clickhouse http", "postgresql", "mysql", "oracle", "ms_sql_server",
   "ydb native", "ydb sql", "logging", "mongodb", "redis"}

Manager(name) ==
  CASE name = "clickhouse native" -> ClickHouseNative [] name = "clickhouse http" -> ClickHouseHTTP
    [] name = "postgresql" -> PostgreSQL [] name = "mysql" -> MySQL [] name = "oracle" -> Oracle
    [] name = "ms_sql_server" -> MsSQLServer [] name = "ydb native" -> YdbNative
    [] name = "ydb sql" -> YdbDatabaseSQL [] name = "logging" -> Logging
    [] name = "mongodb" -> MongoDB [] OTHER -> RedisClient

cm == Manager(source)

ConnectionsOff ==
  /\ source = "redis" /\ phase = "describe" /\ forbidRetries = FALSE /\ attempts = 1
  /\ handles = 0 /\ abandoned = 0 /\ rows = "none" /\ results = <<>> /\ resultSet = 1
  /\ rowsErr = FALSE /\ broken = FALSE /\ outcome = "none" /\ connPc = "off"

ConnectionsInit ==
  /\ source \in Managers
  /\ phase \in {"describe", "read"} /\ (cm.sets = "none" => phase = "describe")
  /\ forbidRetries \in BOOLEAN
  /\ results \in ResultSets /\ (cm.sets \in {"one", "channel"} => Len(results) = 1)
  /\ attempts = 1 /\ handles = 0 /\ abandoned = 0 /\ rows = "none" /\ resultSet = 1
  /\ rowsErr = FALSE /\ broken = FALSE /\ outcome = "none" /\ connPc = "make"
-----------------------------------------------------------------------------
(* retrierDefault.Run *)

\* After a failure: retried while there is time, if retries are allowed and the
\* error is retriable.
Retried(retriable, pc) ==
  IF retriable /\ ~forbidRetries /\ attempts < MaxAttempts
  THEN connPc' = pc /\ UNCHANGED outcome
  ELSE outcome' = "error" /\ connPc' = IF pc = "make" THEN "over" ELSE "close"
-----------------------------------------------------------------------------
(* Make and Release *)

\* The request is not one that Make takes, or the log group has no endpoint.
MakeRefuses ==
  /\ connPc = "make" /\ cm.refuses
  /\ outcome' = "error" /\ connPc' = "over"
  /\ UNCHANGED <<call, attempts, handles, abandoned, rows, results, resultSet, rowsErr,
                 broken>>

\* makeConnectionForDescribeTable takes the first source of none: every table of the
\* log group is in a database of the blacklist.
NoLogGroup ==
  /\ connPc = "make" /\ source = "logging" /\ phase = "describe"
  /\ outcome' = "panic" /\ connPc' = "over"
  /\ UNCHANGED <<call, attempts, handles, abandoned, rows, results, resultSet, rowsErr,
                 broken>>

\* One call of Make: the connection does not open; it opens, and the ping or the
\* first statement fails; or it is returned.
Make ==
  /\ connPc = "make"
  /\ \/ /\ \E retriable \in BOOLEAN : Retried(retriable, "make")
        /\ attempts' = attempts + 1 /\ UNCHANGED <<handles, abandoned>>
     \/ /\ cm.setup
        /\ \E retriable \in BOOLEAN : Retried(retriable, "make")
        /\ attempts' = attempts + 1
        /\ IF cm.closes THEN UNCHANGED <<handles, abandoned>>
                        ELSE handles' = handles + 1 /\ abandoned' = abandoned + 1
     \/ /\ connPc' = IF phase = "describe" THEN "schema" ELSE "query"
        /\ attempts' = 1 /\ handles' = handles + 1
        /\ UNCHANGED <<outcome, abandoned>>
  /\ UNCHANGED <<call, rows, results, resultSet, rowsErr, broken>>

\* DescribeTable: GetSchema, and the deferred Release.
GetTableSchema ==
  /\ connPc = "schema"
  /\ outcome' \in {"ok", "error"}
  /\ connPc' = "close"
  /\ UNCHANGED <<call, attempts, handles, abandoned, rows, results, resultSet, rowsErr,
                 broken>>

\* The connection is kept when the call fails.
Release_OnSuccess ==
  /\ connPc = "close"
  /\ rows' = IF rows = "open" THEN "closed" ELSE rows
  /\ handles' = IF outcome = "ok" THEN handles - 1 ELSE handles
  /\ connPc' = "over"
  /\ UNCHANGED <<call, attempts, abandoned, results, resultSet, rowsErr, broken, outcome>>

\* The deferred calls: the rows are closed, then the connection.
Release ==
  /\ connPc = "close"
  /\ rows' = IF rows = "open" THEN "closed" ELSE rows
  /\ handles' = handles - 1
  /\ connPc' = "over"
  /\ UNCHANGED <<call, attempts, abandoned, results, resultSet, rowsErr, broken, outcome>>
-----------------------------------------------------------------------------
(* doReadSplitSingleConn *)

\* A query fails; rows that came with an error are closed.
QueryFails ==
  /\ connPc = "query"
  /\ attempts' = attempts + 1
  /\ \E retriable \in {FALSE, cm.query} : Retried(retriable, "query")
  /\ UNCHANGED <<call, handles, abandoned, rows, results, resultSet, rowsErr, broken>>

\* The end of Query of YDB: with the rows in the channel and the context done, the
\* select may take the context, and nobody closes the rows.
QueryLosesRows ==
  /\ connPc = "query" /\ cm.sets = "stream"
  /\ rows' = "lost" /\ outcome' = "error" /\ connPc' = "close"
  /\ UNCHANGED <<call, attempts, handles, abandoned, results, resultSet, rowsErr, broken>>

Query ==
  /\ connPc = "query"
  /\ rows' = "open" /\ connPc' = "next"
  /\ UNCHANGED <<call, attempts, handles, abandoned, results, resultSet, rowsErr, broken,
                 outcome>>

\* MakeTransformer, Scan or AddRow fails.
ReadFails ==
  /\ connPc = "next"
  /\ outcome' = "error" /\ connPc' = "close"
  /\ UNCHANGED <<call, attempts, handles, abandoned, rows, results, resultSet, rowsErr,
                 broken>>

\* rows.Next: a row; the end of the result set; or an error, which ends the inner
\* loop like the end does, and which the rows keep for Err, those of MySQL excepted.
NextRow ==
  /\ connPc = "next"
  /\ \/ /\ results[resultSet] > 0
        /\ results' = [results EXCEPT ![resultSet] = @ - 1]
        /\ UNCHANGED <<rowsErr, broken, connPc>>
     \/ /\ results[resultSet] = 0
        /\ connPc' = "next set"
        /\ UNCHANGED <<results, rowsErr, broken>>
     \/ /\ rowsErr' = (cm.sets # "channel") /\ broken' = TRUE /\ connPc' = "next set"
        /\ UNCHANGED results
  /\ UNCHANGED <<call, attempts, handles, abandoned, rows, resultSet, outcome>>

More == resultSet < Len(results)

\* rows.NextResultSet.  database/sql has closed the rows after an error and keeps
\* the error.  The native rows of YDB ask the stream again, and forget the error if
\* the stream, which has failed, says that it is at its end.
NextResultSet ==
  /\ connPc = "next set"
  /\ \/ /\ cm.sets \in {"one", "channel"} \/ (cm.sets = "sql" /\ (rowsErr \/ ~More))
        /\ connPc' = "err" /\ UNCHANGED <<resultSet, rowsErr>>
     \/ /\ cm.sets = "stream" /\ (broken \/ ~More)
        /\ connPc' = "err" /\ rowsErr' \in BOOLEAN /\ UNCHANGED resultSet
     \/ /\ More /\ ((cm.sets = "sql" /\ ~rowsErr) \/ (cm.sets = "stream" /\ ~broken))
        /\ \/ connPc' = "next" /\ resultSet' = resultSet + 1 /\ UNCHANGED rowsErr
           \/ connPc' = "err" /\ rowsErr' = TRUE /\ UNCHANGED resultSet
  /\ UNCHANGED <<call, attempts, handles, abandoned, rows, results, broken, outcome>>

\* The error of the rows is not asked for.
FinishRows_NoErr ==
  /\ connPc = "err"
  /\ outcome' = "ok"
  /\ connPc' = "close"
  /\ UNCHANGED <<call, attempts, handles, abandoned, rows, results, resultSet, rowsErr,
                 broken>>

\* rows.Err, and sink.Finish if there is none.
FinishRows ==
  /\ connPc = "err"
  /\ outcome' = IF rowsErr THEN "error" ELSE "ok"
  /\ connPc' = "close"
  /\ UNCHANGED <<call, attempts, handles, abandoned, rows, results, resultSet, rowsErr,
                 broken>>

ConnectionsNext ==
  \/ MakeRefuses \/ NoLogGroup \/ Make \/ GetTableSchema \/ Release
  \/ QueryFails \/ QueryLosesRows \/ Query \/ ReadFails \/ NextRow \/ NextResultSet \/ FinishRows

ConnectionsSpec == ConnectionsInit /\ [][ConnectionsNext]_connectionVars
-----------------------------------------------------------------------------
(* Properties *)

\* Rows that end without an error after their stream has failed: Err of MySQL is
\* always nil, and the native rows of YDB may forget the error in NextResultSet.
ErrorForgotten == broken /\ cm.sets \in {"channel", "stream"}

\* doReadSplitSingleConn returns no error, and finishes the sink, only after every row
\* of every result set, whatever failed on the way: a query, a row, the next result
\* set.  Two sources are excepted once their stream has failed, MySQL and the native
\* connection of YDB: there a read that was cut short is reported as a success.
ReadIsWhole ==
  phase = "read" /\ outcome = "ok" => (\A i \in DOMAIN results : results[i] = 0) \/ ErrorForgotten

\* When the call is over, the connection that Make returned is closed, and so are the
\* rows that Query returned, however the call ended.  All that is left open are the
\* connections of attempts that failed after they were opened, of the managers that do
\* not close them.
ConnectionsReleased == connPc = "over" => rows # "open" /\ handles = abandoned
=============================================================================
