-------------------------------- MODULE Calls --------------------------------
(***************************************************************************)
(* Calls of the Connector service as gRPC runs them, each in its own       *)
(* goroutine: the metrics interceptors of app/server/grpc_metrics.go       *)
(* around the handlers of service_connector.go, validate.go, and the       *)
(* translation of errors to statuses of common/errors.go.  What a data     *)
(* source does in a call is one step here, with its outcome.               *)
(***************************************************************************)
EXTENDS Naturals, FiniteSets

CONSTANTS
  CallIds     \* the calls of the run

VARIABLES
  calls,      \* [CallIds -> call]
  inflight,   \* inflight_requests and inflight_streams, by endpoint
  started,    \* requests_total and streams_total
  panics,     \* panics_total and stream_panics_total
  statuses    \* status_total and stream_status_total, by endpoint and status

callVars == <<calls, inflight, started, panics, statuses>>
-----------------------------------------------------------------------------
(* Requests.  A request lacks at most one of the things that are validated.  *)

Unary   == {"DescribeTable"}
Methods == Unary \cup {"ListTables", "ListSplits", "ReadSplits"}

Kinds ==
  {"UNSPECIFIED", "CLICKHOUSE", "POSTGRESQL", "GREENPLUM", "MYSQL", "YDB", "ORACLE",
   "MS_SQL_SERVER", "LOGGING", "MONGO_DB", "REDIS", "OPENSEARCH", "S3", "UNKNOWN"}

Lacks ==
  {"nothing", "instance", "endpoint", "database", "options", "table", "items", "limits", "split count"}

Requests == [kind : Kinds, lacks : Lacks]

validateEndpoint(r) == r.lacks # "endpoint"
validateDatabase(r) == r.lacks # "database"

validateDataSourceOptions(r) ==
  /\ r.kind # "UNKNOWN"
  /\ r.kind \in {"POSTGRESQL", "ORACLE", "LOGGING"} => r.lacks # "options"

validateDataSourceInstance(r) ==
  /\ r.lacks # "instance"
  /\ r.kind # "UNSPECIFIED"
  /\ r.kind # "LOGGING" => validateEndpoint(r)
  /\ r.kind \notin {"LOGGING", "ORACLE"} => validateDatabase(r)
  /\ validateDataSourceOptions(r)

\* MaxSplitCount is 0, or 3 for a log group, or anything for YDB.
ValidSplitCount(r) == r.lacks = "split count" => r.kind = "YDB"

ValidateDescribeTableRequest(r) ==
  IF validateDataSourceInstance(r) /\ r.lacks # "table" THEN "none" ELSE "invalid"

\* The errors of MaxSplitCount do not wrap ErrInvalidRequest.  "items": there are no
\* selects or one is nil; "limits": SplitNumberLimit or SplitSize is given.
ValidateListSplitsRequest(r) ==
  CASE r.lacks = "items" \/ ~validateDataSourceInstance(r) -> "invalid"
    [] r.lacks = "split count" /\ ~ValidSplitCount(r) -> "other"
    [] r.lacks = "limits" -> "invalid"
    [] OTHER -> "none"

ValidateReadSplitsRequest(r) ==
  IF r.lacks = "items" \/ ~validateDataSourceInstance(r) THEN "invalid" ELSE "none"
-----------------------------------------------------------------------------
(* Errors.  driver, login, missing, busy, bad: errors of the source's driver in      *)
(* general, for a wrong password, for something that does not exist, for a source    *)
(* that cannot serve now, and for a query it does not take.  number: an error whose  *)
(* text has a number above 65535 where a code is looked for.  The others are the     *)
(* sentinels of the connector; "other" is none of them.                              *)

DriverErrors == {"driver", "login", "missing", "busy", "bad", "timeout", "tls", "number"}
ConnectorErrors ==
  {"no table", "read limit", "invalid", "unsupported", "empty table", "page size", "other"}

\* A translation finds no error of its driver, or panics.
NotMine  == "nil"
Panicked == "panic"

newAPIErrorFromClickHouseError(err) ==
  CASE err = "login" -> "UNAUTHORIZED"
    [] err \in {"driver", "missing", "busy", "bad", "number"} -> "INTERNAL_ERROR"
    [] OTHER -> NotMine

\* Only the errors of connecting are looked at.
newAPIErrorFromPostgreSQLError(err) ==
  CASE err = "login" -> "UNAUTHORIZED"
    [] err \in {"missing", "busy"} -> "INTERNAL_ERROR"
    [] OTHER -> NotMine

newAPIErrorFromOracleError(err) ==
  CASE err = "number" -> Panicked
    [] err = "login" -> "UNAUTHORIZED"
    [] err = "missing" -> "NOT_FOUND"
    [] err \in {"driver", "busy", "bad"} -> "INTERNAL_ERROR"
    [] OTHER -> NotMine

newAPIErrorFromMsSQLServer(err) ==
  CASE err = "login" -> "UNAUTHORIZED"
    [] err \in {"driver", "missing", "busy", "bad", "number"} -> "INTERNAL_ERROR"
    [] OTHER -> NotMine

\* The first number of any error is taken for a code; no error is left to the others.
newAPIErrorFromMySQLError(err) ==
  CASE err = "number" -> Panicked
    [] err = "login" -> "UNAUTHORIZED"
    [] err = "missing" -> "NOT_FOUND"
    [] OTHER -> "INTERNAL_ERROR"

\* An operation error has the status of YDB; of the transport errors only one counts.
newAPIErrorFromYdbError(err) ==
  CASE err = "login" -> "UNAUTHORIZED"
    [] err = "missing" -> "NOT_FOUND"
    [] err = "bad" -> "BAD_REQUEST"
    [] err = "busy" -> "OVERLOADED"
    [] OTHER -> NotMine

\* The data source wraps every error, and the type assertion to ServerError does not
\* unwrap: the codes of the server are never seen.
newAPIErrorFromMongoDbError(err) == IF err = "timeout" THEN "TIMEOUT" ELSE "UNSPECIFIED"

newAPIErrorFromRedisError(err) ==
  CASE err = "missing" -> "NOT_FOUND"
    [] err = "login" -> "UNAUTHORIZED"
    [] err = "busy" -> "UNAVAILABLE"
    [] OTHER -> "INTERNAL_ERROR"

newAPIErrorFromOpenSearchError(err) ==
  CASE err = "busy" -> "UNAVAILABLE"
    [] err = "login" -> "UNAUTHORIZED"
    [] err = "missing" -> "NOT_FOUND"
    [] err = "bad" -> "BAD_REQUEST"
    [] OTHER -> "INTERNAL_ERROR"

newAPIErrorFromTLSError(err) == IF err = "tls" THEN "UNAVAILABLE" ELSE NotMine

newAPIErrorFromConnectorError(err) ==
  CASE err = "no table" -> "NOT_FOUND"
    [] err \in {"read limit", "invalid", "empty table"} -> "BAD_REQUEST"
    [] err = "unsupported" -> "UNSUPPORTED"
    [] OTHER -> "INTERNAL_ERROR"

NewAPIErrorFromStdError(err, kind) ==
  LET own == CASE kind = "UNSPECIFIED" -> NotMine
               [] kind = "CLICKHOUSE" -> newAPIErrorFromClickHouseError(err)
               [] kind \in {"POSTGRESQL", "GREENPLUM"} -> newAPIErrorFromPostgreSQLError(err)
               [] kind = "MYSQL" -> newAPIErrorFromMySQLError(err)
               [] kind \in {"YDB", "LOGGING"} -> newAPIErrorFromYdbError(err)
               [] kind = "ORACLE" -> newAPIErrorFromOracleError(err)
               [] kind = "MS_SQL_SERVER" -> newAPIErrorFromMsSQLServer(err)
               [] kind = "MONGO_DB" -> newAPIErrorFromMongoDbError(err)
               [] kind = "REDIS" -> newAPIErrorFromRedisError(err)
               [] kind = "OPENSEARCH" -> newAPIErrorFromOpenSearchError(err)
               [] OTHER -> Panicked
  IN CASE own # NotMine -> own
       [] newAPIErrorFromTLSError(err) # NotMine -> newAPIErrorFromTLSError(err)
       [] OTHER -> newAPIErrorFromConnectorError(err)

Statuses ==
  {"OK", "UNSPECIFIED", "UNAUTHORIZED", "INTERNAL_ERROR", "NOT_FOUND", "BAD_REQUEST", "OVERLOADED",
   "TIMEOUT", "UNAVAILABLE", "UNSUPPORTED", "transport error"}
-----------------------------------------------------------------------------
(* A call.  kind is what its errors are translated with; reply the status of   *)
(* the response that the handler returns or sends; answer that of the last     *)
(* message that the client has, or "transport error" if the call ends with an  *)
(* error of gRPC; failed: history, the request was refused or failed.          *)

IdleCall ==
  [pc |-> "idle", method |-> "none", kind |-> "none", reply |-> "none", answer |-> "none",
   failed |-> FALSE]

CallsInit ==
  /\ calls = [c \in CallIds |-> IdleCall]
  /\ inflight = [m \in Methods |-> 0]
  /\ started = [m \in Methods |-> 0]
  /\ panics = [m \in Methods |-> 0]
  /\ statuses = [m \in Methods |-> [s \in Statuses |-> 0]]

Call(c, pc) == calls[c].pc = pc

\* maybeRegisterStatusCode.  A message of a stream without a status is not counted.
maybeRegisterStatusCode(m, status) ==
  statuses' = IF status = "none" THEN statuses ELSE [statuses EXCEPT ![m][status] = @ + 1]

\* The interceptors before the handler.
BeginCall(c, m) ==
  /\ Call(c, "idle")
  /\ started' = [started EXCEPT ![m] = @ + 1]
  /\ inflight' = [inflight EXCEPT ![m] = @ + 1]
  /\ calls' = [calls EXCEPT ![c].pc = IF m \in Unary THEN "handle" ELSE "receive", ![c].method = m]
  /\ UNCHANGED <<panics, statuses>>

\* RecvMsg: the request of a stream.  Errors of receiving are not counted.
RecvMsg(c) ==
  /\ Call(c, "receive")
  /\ \/ calls' = [calls EXCEPT ![c].pc = "handle"]
     \/ calls' = [calls EXCEPT ![c].pc = "return", ![c].answer = "transport error"]
  /\ UNCHANGED <<inflight, started, panics, statuses>>

\* Errors of streams are translated without the kind of the source.
KindOfErrors(c, kind) == IF calls[c].method \in Unary THEN kind ELSE "UNSPECIFIED"

\* The response to an error, if its translation does not panic.
Refuse(c, err, kind) ==
  LET status == NewAPIErrorFromStdError(err, kind)
  IN calls' = [calls EXCEPT ![c].kind = kind,
                            ![c].pc = IF status = Panicked THEN "panic" ELSE "answer",
                            ![c].reply = IF status = Panicked THEN "none" ELSE status,
                            ![c].failed = TRUE]

Panic(c) == calls' = [calls EXCEPT ![c].pc = "panic", ![c].failed = TRUE]

\* A request that is refused, or handed to the data source.
Handle(c, r, err) ==
  LET kind == KindOfErrors(c, r.kind)
  IN IF err # "none" THEN Refuse(c, err, kind)
                     ELSE calls' = [calls EXCEPT ![c].pc = "source", ![c].kind = kind]

\* AnnotateLoggerWithDataSourceInstance takes the protocol of an instance that may be
\* nil, before the request is validated.
DescribeTable(c, r) ==
  /\ calls[c].method = "DescribeTable"
  /\ IF r.lacks = "instance" THEN Panic(c) ELSE Handle(c, r, ValidateDescribeTableRequest(r))

ListTables(c) ==
  /\ calls[c].method = "ListTables"
  /\ calls' = [calls EXCEPT ![c].pc = "return"]

ListSplits(c, r) ==
  /\ calls[c].method = "ListSplits"
  /\ Handle(c, r, ValidateListSplitsRequest(r))

ReadSplits(c, r) ==
  /\ calls[c].method = "ReadSplits"
  /\ Handle(c, r, ValidateReadSplitsRequest(r))

StartHandler(c) ==
  /\ Call(c, "handle")
  /\ ListTables(c) \/ \E r \in Requests : DescribeTable(c, r) \/ ListSplits(c, r) \/ ReadSplits(c, r)
  /\ UNCHANGED <<inflight, started, panics, statuses>>

\* The error of the data source is logged, and the response is a success.
SourceFails_Logged(c) ==
  /\ Call(c, "source")
  /\ Panic(c) \/ calls' = [calls EXCEPT ![c].pc = "answer", ![c].reply = "OK", ![c].failed = TRUE]
  /\ UNCHANGED <<inflight, started, panics, statuses>>

\* The data source fails, or panics in the goroutine of the call.  A data source that
\* DescribeTable does not know, or that has no tables to describe, fails always.
SourceFails(c) ==
  /\ Call(c, "source")
  /\ Panic(c) \/ \E err \in DriverErrors \cup ConnectorErrors : Refuse(c, err, calls[c].kind)
  /\ UNCHANGED <<inflight, started, panics, statuses>>

\* SendMsg of a message of the data source: a split, which has a status, or the last
\* message of a split that is read.  Bound: a call sends one such message.
SourceSends(c) ==
  /\ Call(c, "source") /\ calls[c].method \notin Unary /\ calls[c].answer = "none"
  /\ \/ /\ calls' = [calls EXCEPT ![c].answer = "OK"]
        /\ maybeRegisterStatusCode(calls[c].method, "OK")
     \/ /\ Refuse(c, "other", calls[c].kind)
        /\ maybeRegisterStatusCode(calls[c].method, "transport error")
  /\ UNCHANGED <<inflight, started, panics>>

\* The data source is done.
SourceEnds(c) ==
  /\ Call(c, "source") /\ ~(calls[c].method \in Unary /\ calls[c].kind = "S3")
  /\ \/ /\ calls[c].method \in Unary
        /\ calls' = [calls EXCEPT ![c].pc = "answer", ![c].reply = "OK"]
     \/ /\ calls[c].method \notin Unary /\ (calls[c].method = "ListSplits" \/ calls[c].answer = "OK")
        /\ calls' = [calls EXCEPT ![c].pc = "return"]
  /\ UNCHANGED <<inflight, started, panics, statuses>>

\* The response is counted, and returned or sent.  IsSuccess does not take a status
\* that is not set.
Answer(c) ==
  /\ Call(c, "answer")
  /\ LET m == calls[c].method
     IN \/ /\ m = "ListSplits" /\ calls[c].reply = "UNSPECIFIED"
           /\ Panic(c)
           /\ UNCHANGED statuses
        \/ /\ ~(m = "ListSplits" /\ calls[c].reply = "UNSPECIFIED")
           /\ calls' = [calls EXCEPT ![c].pc = "return", ![c].answer = calls[c].reply]
           /\ maybeRegisterStatusCode(m, calls[c].reply)
        \/ /\ m \notin Unary
           /\ calls' = [calls EXCEPT ![c].pc = "return", ![c].answer = "transport error"]
           /\ maybeRegisterStatusCode(m, "transport error")
  /\ UNCHANGED <<inflight, started, panics>>

\* The gauge is lowered after the handler and not in the deferred function.
EndCall_NotDeferred(c) ==
  /\ \/ /\ Call(c, "return")
        /\ calls' = [calls EXCEPT ![c].pc = "over", ![c].reply = "none"]
        /\ inflight' = [inflight EXCEPT ![calls[c].method] = @ - 1]
        /\ UNCHANGED panics
     \/ /\ Call(c, "panic")
        /\ calls' = [calls EXCEPT ![c].pc = "over", ![c].reply = "none", ![c].answer = "transport error"]
        /\ panics' = [panics EXCEPT ![calls[c].method] = @ + 1]
        /\ UNCHANGED inflight
  /\ UNCHANGED <<started, statuses>>

\* The deferred function of the interceptors.  A panic of a unary call is returned as
\* an error of gRPC.  That of a stream is sent as a message, which it is not: gRPC
\* fails to encode it and ends the stream with an error.
EndCall(c) ==
  /\ Call(c, "return") \/ Call(c, "panic")
  /\ inflight' = [inflight EXCEPT ![calls[c].method] = @ - 1]
  /\ IF Call(c, "panic")
     THEN /\ panics' = [panics EXCEPT ![calls[c].method] = @ + 1]
          /\ calls' = [calls EXCEPT ![c].pc = "over", ![c].reply = "none", ![c].answer = "transport error"]
     ELSE /\ calls' = [calls EXCEPT ![c].pc = "over", ![c].reply = "none"]
          /\ UNCHANGED panics
  /\ UNCHANGED <<started, statuses>>

CallsNext ==
  \E c \in CallIds :
    \/ \E m \in Methods : BeginCall(c, m)
    \/ RecvMsg(c) \/ StartHandler(c) \/ SourceFails(c) \/ SourceSends(c) \/ SourceEnds(c)
    \/ Answer(c) \/ EndCall(c)

CallsSpec == CallsInit /\ [][CallsNext]_callVars
-----------------------------------------------------------------------------
(* Properties *)

Calling(m, pcs) == {c \in CallIds : calls[c].method = m /\ calls[c].pc \in pcs}
Failures(m) == {c \in Calling(m, {"over"}) : calls[c].failed}

\* A call whose request was refused, or whose data source failed or panicked, never
\* looks like a success to the client: NewAPIErrorFromStdError gives every error of
\* every source a status that is not SUCCESS, and a panic becomes an error of gRPC.
\* The status says what failed, except that of DescribeTable of MongoDB, which is left
\* unset: see newAPIErrorFromMongoDbError.
FailureIsReported ==
  \A c \in CallIds : calls[c].pc = "over" /\ calls[c].failed =>
    /\ calls[c].answer \in Statuses \ {"OK"}
    /\ calls[c].answer = "UNSPECIFIED" => calls[c].kind = "MONGO_DB" /\ calls[c].method \in Unary

\* The metrics of the interceptors agree with the calls, also while others run: the
\* gauge is the number of calls that are running, a unary call that is over is counted
\* once, under the status it was answered with or as a panic, and every failure of a
\* stream is among the counted statuses and panics.
CallsAreCounted ==
  \A m \in Methods :
    /\ inflight[m] = Cardinality(Calling(m, {"receive", "handle", "source", "answer", "return", "panic"}))
    /\ started[m] = inflight[m] + Cardinality(Calling(m, {"over"}))
    /\ m \in Unary => \A s \in Statuses \ {"transport error"} :
         statuses[m][s] = Cardinality({c \in Calling(m, {"return", "over"}) : calls[c].answer = s})
    /\ \A c \in Failures(m) : panics[m] > 0 \/ \E s \in Statuses \ {"OK"} : statuses[m][s] > 0
=============================================================================
