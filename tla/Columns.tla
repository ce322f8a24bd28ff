------------------------------ MODULE Columns -------------------------------
(***************************************************************************)
(* A column from DescribeTable to Arrow: the type mappers of               *)
(* app/server/datasource/rdbms/*, the conversions of app/server/conversion *)
(* and common, and the appenders of app/server/utils/arrow_builder.go.     *)
(*                                                                         *)
(* Three tables have to agree.  SQLTypeToYDBColumn says what YDB is told   *)
(* about a column.  The driver has its own name for the column's type, and *)
(* by that name a transformer is chosen: a Go variable to scan into and an *)
(* appender for one kind of Arrow builder.  The builders and the schema of *)
(* the record are made from the YDB type alone.                            *)
(*                                                                         *)
(* A value is <<v>>, and NULL is <<>>.  Points in time are hours since     *)
(* 1970-01-01.                                                             *)
(***************************************************************************)
EXTENDS Integers, Sequences

CONSTANTS
  Columns,     \* the columns to read, see Column
  MaxRows      \* rows of the table

ASSUME ColumnsAssumption ==
  \A c \in Columns : /\ c.kind \in {"mysql", "postgresql", "oracle", "ms_sql_server", "clickhouse", "ydb"}
                     /\ c.nullable \in BOOLEAN /\ c.unsigned \in BOOLEAN /\ c.flagged \in BOOLEAN

VARIABLES
  column,      \* the column
  format,      \* TTypeMappingSettings.date_time_format
  schema,      \* its YDB type, as described
  transformer, \* its part of the row transformer
  acceptor,    \* what the Go variable holds
  row,         \* the value of the row that was scanned last
  pattern,     \* sizePattern: how the size of the variable is known
  cells,       \* the Arrow column: every cell, its value and the size it was charged
  pc

vars == <<column, format, schema, transformer, acceptor, row, pattern, cells, pc>>

\* flagged: the protocol of MySQL has one more flag for the column, that of a key or of
\* ZEROFILL.
Column(kind, type, nullable, unsigned, flagged) ==
  [kind |-> kind, type |-> type, nullable |-> nullable, unsigned |-> unsigned, flagged |-> flagged]

Null == <<>>
NotSupported == [id |-> "not supported", optional |-> FALSE]
NoTransformer == [in |-> "none", out |-> "none", resets |-> FALSE]
NoPattern == [kind |-> "none", size |-> 0]

Day == 24
MinYDBTime == 0
MaxYDBTime == 49673 * Day       \* 2106-01-01
-----------------------------------------------------------------------------
(* What is described: SQLTypeToYDBColumn of each source *)

MakeYdbDateTimeType(id) ==
  CASE format = "YQL" -> id
    [] format = "STRING" -> "UTF8"
    [] OTHER -> "invalid request"

\* Types that the switches treat alike have one name here: int4 is integer, and
\* longblob is blob.

MySQLToYDB(c) ==
  LET sign(u, s) == IF c.unsigned THEN u ELSE s
  IN CASE c.type = "tinyint(1)" -> "BOOL"
       [] c.type = "tinyint" -> sign("UINT8", "INT8")
       [] c.type = "smallint" -> sign("UINT16", "INT16")
       [] c.type \in {"mediumint", "int"} -> sign("UINT32", "INT32")
       [] c.type = "bigint" -> sign("UINT64", "INT64")
       [] c.type = "float" -> "FLOAT"
       [] c.type = "double" -> "DOUBLE"
       [] c.type \in {"blob", "binary", "varbinary", "text"} -> "STRING"
       [] c.type \in {"char", "varchar"} -> "UTF8"
       [] c.type = "date" -> MakeYdbDateTimeType("DATE")
       [] c.type \in {"datetime", "timestamp"} -> MakeYdbDateTimeType("TIMESTAMP")
       [] c.type = "json" -> "JSON"
       [] OTHER -> "not supported"

PostgreSQLToYDB(c) ==
  CASE c.type = "boolean" -> "BOOL"
    [] c.type = "smallint" -> "INT16"
    [] c.type = "integer" -> "INT32"
    [] c.type = "bigint" -> "INT64"
    [] c.type = "real" -> "FLOAT"
    [] c.type = "double precision" -> "DOUBLE"
    [] c.type \in {"bytea", "uuid"} -> "STRING"
    [] c.type \in {"character", "character varying", "text"} -> "UTF8"
    [] c.type = "json" -> "JSON"
    [] c.type = "date" -> MakeYdbDateTimeType("DATE")
    [] c.type = "timestamp without time zone" -> MakeYdbDateTimeType("TIMESTAMP")
    [] OTHER -> "not supported"

OracleTexts ==
  {"NCHAR", "CHAR", "VARCHAR", "VARCHAR2", "NVARCHAR", "NVARCHAR2", "CLOB", "NCLOB",
   "LONG", "ROWID", "UROWID"}
OracleTimestamps ==
  {"TIMESTAMP", "TIMESTAMP WITH TIME ZONE", "TIMESTAMP WITH LOCAL TIME ZONE"}

OracleToYDB(c) ==
  CASE c.type = "NUMBER" -> "INT64"
    [] c.type = "BINARY_DOUBLE" -> "DOUBLE"
    [] c.type \in OracleTexts -> "UTF8"
    [] c.type \in {"RAW", "LONG RAW", "BLOB"} -> "STRING"
    [] c.type = "JSON" -> "JSON"
    [] c.type = "DATE" -> MakeYdbDateTimeType("DATETIME")
    [] c.type \in OracleTimestamps -> MakeYdbDateTimeType("TIMESTAMP")
    [] OTHER -> "not supported"

MsSQLServerToYDB(c) ==
  CASE c.type = "bit" -> "BOOL"
    [] c.type = "tinyint" -> "INT8"
    [] c.type = "smallint" -> "INT16"
    [] c.type = "int" -> "INT32"
    [] c.type = "bigint" -> "INT64"
    [] c.type = "real" -> "FLOAT"
    [] c.type = "float" -> "DOUBLE"
    [] c.type \in {"binary", "varbinary", "image"} -> "STRING"
    [] c.type \in {"char", "varchar", "text", "nchar", "nvarchar", "ntext"} -> "UTF8"
    [] c.type = "date" -> MakeYdbDateTimeType("DATE")
    [] c.type = "smalldatetime" -> MakeYdbDateTimeType("DATETIME")
    [] c.type \in {"datetime", "datetime2"} -> MakeYdbDateTimeType("TIMESTAMP")
    [] OTHER -> "not supported"

\* The plain types of ClickHouse and YDB are named as the primitive type ids.
Plain == {"BOOL", "INT8", "UINT8", "INT16", "UINT16", "INT32", "UINT32",
          "INT64", "UINT64", "FLOAT", "DOUBLE"}

\* isDateTime is not anchored: it finds a DateTime inside another type as well.
MentionsDateTime == {"DateTime", "Tuple(DateTime)"}
ClickHouseTimes == {"Date", "Date32", "DateTime64"} \cup MentionsDateTime

ClickHouseToYDB(c) ==
  CASE c.type \in Plain -> c.type
    [] c.type \in {"String", "FixedString"} -> "STRING"
    [] c.type \in {"Date", "Date32"} -> MakeYdbDateTimeType("DATE")
    [] c.type = "DateTime64" -> MakeYdbDateTimeType("TIMESTAMP")
    [] c.type \in MentionsDateTime -> MakeYdbDateTimeType("DATETIME")
    [] OTHER -> "not supported"

\* Date and time of YDB are never described as text.
YdbToYDB(c) ==
  CASE c.type \in Plain \cup {"STRING", "UTF8", "JSON", "DATE", "DATETIME", "TIMESTAMP"} ->
         c.type
    [] c.type = "JsonDocument" -> "JSON"
    [] OTHER -> "not supported"

ToYDB(c) ==
  CASE c.kind = "mysql" -> MySQLToYDB(c)
    [] c.kind = "postgresql" -> PostgreSQLToYDB(c)
    [] c.kind = "oracle" -> OracleToYDB(c)
    [] c.kind = "ms_sql_server" -> MsSQLServerToYDB(c)
    [] c.kind = "clickhouse" -> ClickHouseToYDB(c)
    [] c.kind = "ydb" -> YdbToYDB(c)

\* The end of SQLTypeToYDBColumn.  ClickHouse and YDB have columns without
\* NULL; a date of ClickHouse becomes NULL when it does not fit YDB's type.
Optional(c) ==
  \/ c.kind \notin {"clickhouse", "ydb"}
  \/ c.nullable
  \/ c.kind = "clickhouse" /\ c.type \in ClickHouseTimes /\ format = "YQL"
-----------------------------------------------------------------------------
(* How it is read: the transformer for the driver's name of the type *)

\* The Go variable, the builder, and whether the appender empties the variable.
Into(in, out) == [in |-> in, out |-> out, resets |-> TRUE]

\* A point in time goes to the builder that its YDB type asks for, among those
\* that the type of the source knows.
TimeInto(id, known) ==
  CASE id = "UTF8" /\ "UTF8" \in known -> Into("time", "String")
    [] id = "DATE" /\ "DATE" \in known -> Into("time", "Uint16")
    [] id = "DATETIME" /\ "DATETIME" \in known -> Into("time", "Uint32")
    [] id = "TIMESTAMP" /\ "TIMESTAMP" \in known -> Into("time", "Uint64")
    [] OTHER -> NoTransformer

\* The column types of the MySQL protocol.
MySQLCode(type) ==
  CASE type \in {"tinyint", "tinyint(1)"} -> "TINY"
    [] type = "smallint" -> "SHORT"
    [] type = "mediumint" -> "INT24"
    [] type = "int" -> "LONG"
    [] type = "bigint" -> "LONGLONG"
    [] type \in {"blob", "text"} -> "BLOB"
    [] type \in {"char", "binary"} -> "STRING"
    [] type \in {"varchar", "varbinary"} -> "VAR_STRING"
    [] OTHER -> type

MySQLTransformer(c, id) ==
  LET code == MySQLCode(c.type)
  IN CASE code \in {"INT24", "LONG"} /\ id = "UINT32" -> Into("uint32", "Uint32")
       [] code \in {"INT24", "LONG"} /\ id = "INT32" -> Into("int32", "Int32")
       [] code = "LONGLONG" /\ id = "UINT64" -> Into("uint64", "Uint64")
       [] code = "LONGLONG" /\ id = "INT64" -> Into("int64", "Int64")
       [] code = "float" -> Into("float32", "Float32")
       [] code = "double" -> Into("float64", "Float64")
       [] code = "TINY" /\ id = "BOOL" -> Into("bool", "Uint8")
       [] code = "TINY" /\ id = "UINT8" -> Into("uint8", "Uint8")
       [] code = "TINY" /\ id = "INT8" -> Into("int8", "Int8")
       [] code = "SHORT" /\ id = "UINT16" -> Into("uint16", "Uint16")
       [] code = "SHORT" /\ id = "INT16" -> Into("int16", "Int16")
       [] code = "BLOB" -> Into("[]byte", "Binary")
       [] code \in {"STRING", "VAR_STRING"} /\ id = "UTF8" -> Into("string", "String")
       [] code \in {"STRING", "VAR_STRING"} /\ id = "STRING" -> Into("string", "Binary")
       [] code = "date" -> TimeInto(id, {"UTF8", "DATE"})
       [] code \in {"datetime", "timestamp"} -> TimeInto(id, {"UTF8", "TIMESTAMP"})
       [] code = "json" -> Into("string", "String")
       [] OTHER -> NoTransformer

\* By OID.  No variable is reset: the types of pgtype hold NULL themselves.
PostgreSQLTransformer(c, id) ==
  LET held(in, out) == [Into(in, out) EXCEPT !.resets = FALSE]
      time == TimeInto(id, IF c.type = "date" THEN {"UTF8", "DATE"} ELSE {"UTF8", "TIMESTAMP"})
  IN CASE c.type = "boolean" -> held("bool", "Uint8")
       [] c.type = "smallint" -> held("int16", "Int16")
       [] c.type = "integer" -> held("int32", "Int32")
       [] c.type = "bigint" -> held("int64", "Int64")
       [] c.type = "real" -> held("float32", "Float32")
       [] c.type = "double precision" -> held("float64", "Float64")
       [] c.type \in {"character", "character varying", "text", "json"} ->
            held("string", "String")
       [] c.type \in {"bytea", "uuid"} -> held("[]byte", "Binary")
       [] c.type \in {"date", "timestamp without time zone"} ->
            [time EXCEPT !.resets = FALSE]
       [] OTHER -> NoTransformer

\* The names that the Oracle driver gives to the types of a result.
OracleName(type) ==
  CASE type = "LONG RAW" -> "LongRaw"
    [] type = "BINARY_DOUBLE" -> "IBDouble"
    [] type \in {"VARCHAR", "VARCHAR2", "NVARCHAR", "NVARCHAR2"} -> "NCHAR"
    [] type \in {"CLOB", "NCLOB"} -> "LongVarChar"
    [] type = "TIMESTAMP" -> "TimeStampDTY"
    [] type = "TIMESTAMP WITH TIME ZONE" -> "TimeStampTZ_DTY"
    [] type = "TIMESTAMP WITH LOCAL TIME ZONE" -> "TimeStampLTZ_DTY"
    [] type \in {"JSON", "BLOB"} -> "OCIBlobLocator"
    [] OTHER -> type

OracleTransformer(c, id) ==
  LET name == OracleName(c.type)
  IN CASE name = "NUMBER" -> Into("int64", "Int64")
       [] name \in {"NCHAR", "CHAR", "LongVarChar", "LONG", "ROWID", "UROWID"} ->
            Into("string", "String")
       [] name \in {"RAW", "LongRaw"} -> Into("[]byte", "Binary")
       [] name = "OCIBlobLocator" ->
            Into("[]byte", IF id = "JSON" THEN "String" ELSE "Binary")
       [] name = "IBDouble" -> Into("float64", "Float64")
       [] name = "DATE" -> TimeInto(id, {"UTF8", "DATETIME"})
       [] name \in {"TimeStampDTY", "TimeStampTZ_DTY", "TimeStampLTZ_DTY"} ->
            TimeInto(id, {"UTF8", "TIMESTAMP"})
       [] OTHER -> NoTransformer

\* The driver has the names of the metadata in capitals.
MsSQLServerTransformer(c, id) ==
  CASE c.type = "bit" -> Into("bool", "Uint8")
    [] c.type = "tinyint" -> Into("int8", "Int8")
    [] c.type = "smallint" -> Into("int16", "Int16")
    [] c.type = "int" -> Into("int32", "Int32")
    [] c.type = "bigint" -> Into("int64", "Int64")
    [] c.type = "real" -> Into("float32", "Float32")
    [] c.type = "float" -> Into("float64", "Float64")
    [] c.type \in {"binary", "varbinary", "image"} ->
         [Into("[]byte", "Binary") EXCEPT !.resets = FALSE]
    [] c.type \in {"char", "varchar", "text", "nchar", "nvarchar", "ntext"} ->
         Into("string", "String")
    [] c.type = "date" -> TimeInto(id, {"UTF8", "DATE"})
    [] c.type = "smalldatetime" -> TimeInto(id, {"UTF8", "DATETIME"})
    [] c.type \in {"datetime", "datetime2"} -> TimeInto(id, {"UTF8", "TIMESTAMP"})
    [] OTHER -> NoTransformer

PlainInto(type) ==
  CASE type = "BOOL" -> Into("bool", "Uint8")
    [] type = "INT8" -> Into("int8", "Int8")
    [] type = "UINT8" -> Into("uint8", "Uint8")
    [] type = "INT16" -> Into("int16", "Int16")
    [] type = "UINT16" -> Into("uint16", "Uint16")
    [] type = "INT32" -> Into("int32", "Int32")
    [] type = "UINT32" -> Into("uint32", "Uint32")
    [] type = "INT64" -> Into("int64", "Int64")
    [] type = "UINT64" -> Into("uint64", "Uint64")
    [] type = "FLOAT" -> Into("float32", "Float32")
    [] type = "DOUBLE" -> Into("float64", "Float64")
    [] OTHER -> NoTransformer

ClickHouseTransformer(c, id) ==
  LET t == CASE c.type \in Plain -> PlainInto(c.type)
             [] c.type \in {"String", "FixedString"} -> Into("string", "Binary")
             [] c.type \in {"Date", "Date32"} -> TimeInto(id, {"UTF8", "DATE"})
             [] c.type = "DateTime64" -> TimeInto(id, {"UTF8", "TIMESTAMP"})
             [] c.type \in MentionsDateTime -> TimeInto(id, {"UTF8", "DATETIME"})
             [] OTHER -> NoTransformer
  IN [t EXCEPT !.resets = c.nullable]

\* A type added to the description alone.
YdbText_NoDocument == {"UTF8", "JSON"}

YdbText == {"UTF8", "JSON", "JsonDocument"}

YdbTransformer(c, id) ==
  LET t == CASE c.type \in Plain -> PlainInto(c.type)
             [] c.type = "STRING" -> Into("[]byte", "Binary")
             [] c.type \in YdbText -> Into("string", "String")
             [] c.type = "DATE" -> TimeInto(id, {"UTF8", "DATE"})
             [] c.type \in {"DATETIME", "TIMESTAMP"} -> TimeInto(id, {c.type})
             [] OTHER -> NoTransformer
  IN [t EXCEPT !.resets = c.nullable]

TransformerOf(c, id) ==
  CASE c.kind = "mysql" -> MySQLTransformer(c, id)
    [] c.kind = "postgresql" -> PostgreSQLTransformer(c, id)
    [] c.kind = "oracle" -> OracleTransformer(c, id)
    [] c.kind = "ms_sql_server" -> MsSQLServerTransformer(c, id)
    [] c.kind = "clickhouse" -> ClickHouseTransformer(c, id)
    [] c.kind = "ydb" -> YdbTransformer(c, id)

\* The type of the field in the record's schema.
ydbTypeIdToArrowField(id) ==
  CASE id \in {"BOOL", "UINT8"} -> "Uint8"
    [] id = "INT8" -> "Int8"
    [] id = "INT16" -> "Int16"
    [] id \in {"UINT16", "DATE"} -> "Uint16"
    [] id = "INT32" -> "Int32"
    [] id \in {"UINT32", "DATETIME"} -> "Uint32"
    [] id = "INT64" -> "Int64"
    [] id \in {"UINT64", "TIMESTAMP"} -> "Uint64"
    [] id = "FLOAT" -> "Float32"
    [] id = "DOUBLE" -> "Float64"
    [] id = "STRING" -> "Binary"
    [] id \in {"UTF8", "JSON"} -> "String"

\* The builder made for a YDB type.
ydbTypeIdToArrowBuilder(id) ==
  CASE id \in {"BOOL", "UINT8"} -> "Uint8"
    [] id = "INT8" -> "Int8"
    [] id = "INT16" -> "Int16"
    [] id \in {"UINT16", "DATE"} -> "Uint16"
    [] id = "INT32" -> "Int32"
    [] id \in {"UINT32", "DATETIME"} -> "Uint32"
    [] id = "INT64" -> "Int64"
    [] id \in {"UINT64", "TIMESTAMP"} -> "Uint64"
    [] id = "FLOAT" -> "Float32"
    [] id = "DOUBLE" -> "Float64"
    [] id = "STRING" -> "Binary"
    [] id \in {"UTF8", "JSON"} -> "String"
-----------------------------------------------------------------------------
(* A value on its way: scan, conversion *)

Inside(v, lo, hi) == lo <= v /\ v <= hi

\* TimeToYDBDate, TimeToYDBDatetime, TimeToYDBTimestamp: what a number of 16,
\* 32 or 64 bits stands for.  2^32 seconds are 1193046 hours.
TimeToYDB(out, v) ==
  IF ~Inside(v, MinYDBTime, MaxYDBTime) THEN Null
  ELSE CASE out = "Uint16" -> <<((v \div Day) % 65536) * Day>>
         [] out = "Uint32" -> <<v % 1193047>>
         [] out = "Uint64" -> <<v>>

\* The values that ClickHouse has for its types; others are undefined there.
ClickHouseRange(type) ==
  CASE type = "Date" -> [lo |-> 0, hi |-> 65535 * Day]
    [] type \in MentionsDateTime -> [lo |-> 0, hi |-> 1193046]
    [] type = "Date32" -> [lo |-> -25567 * Day, hi |-> 120529 * Day]
    [] type = "DateTime64" -> [lo |-> -25567 * Day, hi |-> 120529 * Day + 23]

saturateDateTime(v, range) ==
  IF v < range.lo THEN range.lo ELSE IF v > range.hi THEN range.hi ELSE v

\* The converter of an appender; Null stands for ErrValueOutOfTypeBounds.
Convert(c, t, v) ==
  IF t.in = "time" /\ t.out # "String" THEN TimeToYDB(t.out, v)
  ELSE IF t.in = "time" /\ c.kind = "clickhouse"
  THEN <<saturateDateTime(v, ClickHouseRange(c.type))>>
  ELSE <<v>>

\* scanToDest of MySQL: the Go type that it scans into is chosen by the type and
\* the flags of the column, and the flags are compared as a whole with the unsigned
\* flag.  The driver has an uint64 for every unsigned column, and scanBoolValue takes
\* int64 only.  Dates are parsed.
ZeroDate == -719528 * Day       \* 0000-00-00

MySQLFlags(c) ==
  {f \in {"UNSIGNED", "NOT_NULL", "another"} :
     CASE f = "UNSIGNED" -> c.unsigned [] f = "NOT_NULL" -> ~c.nullable [] OTHER -> c.flagged}

MySQLScan(c, t, v) ==
  LET code == MySQLCode(c.type)
      sign(u, s) == IF MySQLFlags(c) = {"UNSIGNED"} THEN u ELSE s
      out == CASE code = "LONGLONG" -> sign("uint64", "int64")
               [] code \in {"LONG", "INT24"} -> sign("uint32", "int32")
               [] code = "SHORT" -> sign("uint16", "int16")
               [] code = "TINY" -> sign("uint8", IF t.in = "bool" THEN "bool" ELSE "int8")
               [] OTHER -> t.in
  IN CASE t.in # out -> IF v = Null THEN "panic" ELSE "error"
       [] code = "TINY" /\ t.in = out /\ out = "bool" /\ c.unsigned /\ v # Null -> "panic"
       [] t.in = "time" /\ v = <<ZeroDate>> -> "error"
       [] OTHER -> "ok"

\* scanToDest of Oracle: the Go type of the driver's value, and where it may go.  A
\* NUMBER comes as a text, which strconv.Atoi does not take when the number has a
\* fraction or does not fit 64 bits.
NotInt64 == -1                  \* stands for such a number

OracleScan(c, t, v) ==
  LET src == IF c.type = "NUMBER" THEN "string" ELSE t.in
      taken == {<<"string", "string">>, <<"string", "int64">>, <<"[]byte", "[]byte">>,
                <<"time", "time">>, <<"float64", "float64">>}
      nilled == {"string", "int64", "[]byte", "time", "float64"}
  IN IF c.type = "NUMBER" /\ v = <<NotInt64>> THEN "error"
     ELSE IF (v = Null /\ t.in \in nilled) \/ (v # Null /\ <<src, t.in>> \in taken) THEN "ok" ELSE "error"

\* The other drivers scan what fits: a tinyint of MS SQL Server has no sign.
DriverScan(c, t, v) ==
  CASE c.kind = "ms_sql_server" /\ t.in = "int8" /\ v # Null /\ v[1] > 127 -> "error"
    [] c.type = "Tuple(DateTime)" -> "error"
    [] OTHER -> "ok"

Scan(c, t, v) ==
  CASE c.kind = "mysql" -> MySQLScan(c, t, v)
    [] c.kind = "oracle" -> OracleScan(c, t, v)
    [] OTHER -> DriverScan(c, t, v)
-----------------------------------------------------------------------------
(* The table is described, and then read *)

Times ==
  {-25568 * Day, -25567 * Day, -1, 0, Day, MaxYDBTime, MaxYDBTime + 1,
   MaxYDBTime + Day, 1193046, 1193047, 65535 * Day, 120530 * Day}

\* What the column can hold.  YDB's own dates are within its bounds.
Values(c) ==
  LET days == {"date", "Date", "Date32"} \cup (IF c.kind = "ydb" THEN {"DATE"} ELSE {})
      times == {v \in Times : /\ c.type \in days => v % Day = 0
                              /\ c.kind = "ydb" => Inside(v, MinYDBTime, MaxYDBTime)}
               \cup (IF c.kind = "mysql" THEN {ZeroDate} ELSE {})
      numbers == {0, 1} \cup (IF c.type = "tinyint" /\ c.kind = "ms_sql_server" THEN {200} ELSE {})
                        \cup (IF c.type = "NUMBER" /\ c.kind = "oracle" THEN {NotInt64} ELSE {})
  IN {<<v>> : v \in IF transformer.in = "time" THEN times ELSE numbers}
     \cup (IF c.nullable THEN {Null} ELSE {})

Init ==
  /\ column \in Columns
  /\ format \in {"YQL", "STRING", "UNSPECIFIED"}
  /\ schema = NotSupported
  /\ transformer = NoTransformer
  /\ acceptor = Null /\ row = Null /\ pattern = NoPattern /\ cells = <<>>
  /\ pc = "describe"

\* SchemaBuilder: AddColumn, which fails with other errors than an unsupported
\* type, and Build, which leaves out the columns of unsupported types.
GetSchema ==
  /\ pc = "describe"
  /\ pc' = CASE ToYDB(column) = "not supported" -> "left out"
             [] ToYDB(column) = "invalid request" -> "refused"
             [] OTHER -> "transform"
  /\ schema' = IF pc' = "transform"
               THEN [id |-> ToYDB(column), optional |-> Optional(column)]
               ELSE NotSupported
  /\ UNCHANGED <<column, format, transformer, acceptor, row, pattern, cells>>

MakeTransformer ==
  /\ pc = "transform"
  /\ transformer' = TransformerOf(column, schema.id)
  /\ pc' = IF transformer'.in = "none" THEN "no transformer" ELSE "read"
  /\ UNCHANGED <<column, format, schema, acceptor, row, pattern, cells>>

\* rows.Scan.  The driver of ClickHouse may leave the variable alone on NULL.
ScanRow ==
  /\ pc = "read" /\ Len(cells) < MaxRows
  /\ \E v \in Values(column) :
       LET result == Scan(column, transformer, v)
       IN /\ row' = v
          /\ pc' = IF result = "ok" THEN "append" ELSE result
          /\ \/ acceptor' = IF result = "ok" THEN v ELSE acceptor
             \/ column.kind = "clickhouse" /\ v = Null /\ acceptor' = acceptor
  /\ UNCHANGED <<column, format, schema, transformer, pattern, cells>>

\* The variable keeps what was appended.
Reset_Keep(out) == acceptor

\* The end of AppendValueToArrowBuilderNullable.
Reset(out) == IF transformer.resets /\ out # Null THEN Null ELSE acceptor

\* The size of what the variable holds, for a type of variable size, or of the type.
\* A text is as long as its value.
sizeOfValueBloated(v) ==
  LET fixed(size) == [kind |-> "fixed", size |-> size]
  IN CASE transformer.in \in {"bool", "int8", "uint8"} -> fixed(1)
       [] transformer.in \in {"int16", "uint16"} -> fixed(2)
       [] transformer.in \in {"int32", "uint32", "float32"} -> fixed(4)
       [] transformer.in \in {"int64", "uint64", "float64"} -> fixed(8)
       [] transformer.in = "time" \/ column.type = "uuid" -> fixed(16)
       [] transformer.in \in {"string", "[]byte"} /\ column.type # "uuid" ->
            [kind |-> "variable", size |-> IF v = Null THEN 0 ELSE v[1]]
       [] OTHER -> [kind |-> "unknown", size |-> 0]

\* estimate: only a variable size is looked up again.
Estimate(p, v) == IF p.kind = "variable" THEN sizeOfValueBloated(v).size ELSE p.size

\* tryAddRow, which makes the pattern at the first row, and AppendToArrowBuilders.
AppendRow ==
  /\ pc = "append"
  /\ pattern' = IF pattern = NoPattern THEN sizeOfValueBloated(acceptor) ELSE pattern
  /\ LET out == IF acceptor = Null THEN Null ELSE Convert(column, transformer, acceptor[1])
         size == Estimate(pattern', acceptor)
     IN CASE pattern'.kind = "unknown" -> pc' = "error" /\ UNCHANGED <<acceptor, cells>>
          [] pattern'.kind # "unknown" /\ out # Null
             /\ transformer.out # ydbTypeIdToArrowBuilder(schema.id) ->
               pc' = "panic" /\ UNCHANGED <<acceptor, cells>>
          [] OTHER -> /\ cells' = Append(cells, [row |-> row, cell |-> out, size |-> size])
                      /\ acceptor' = Reset(out)
                      /\ pc' = "read"
  /\ UNCHANGED <<column, format, schema, transformer, row>>

\* The record is made of the builders and the schema.
MakeRecord ==
  /\ pc = "read"
  /\ pc' = IF ydbTypeIdToArrowField(schema.id) = ydbTypeIdToArrowBuilder(schema.id)
           THEN "record" ELSE "panic"
  /\ UNCHANGED <<column, format, schema, transformer, acceptor, row, pattern, cells>>

Next == GetSchema \/ MakeTransformer \/ ScanRow \/ AppendRow \/ MakeRecord

Spec == Init /\ [][Next]_vars
-----------------------------------------------------------------------------
(* Properties *)

\* What goes wrong with a described column, all of it on the way in: unsigned integers
\* of MySQL that are NOT NULL, have a key or ZEROFILL, or are tinyint(1); its zero
\* dates; a NUMBER of Oracle that is no integer of 64 bits; a tinyint of MS SQL Server
\* over 127; and types of ClickHouse that only mention a DateTime.  No value ends in a
\* builder or a field of another type.
MySQLIntegers == {"tinyint(1)", "tinyint", "smallint", "mediumint", "int", "bigint"}

KnownUnreadable ==
  \/ /\ column.kind = "mysql" /\ column.type \in MySQLIntegers /\ column.unsigned
     /\ ~column.nullable \/ column.flagged \/ column.type = "tinyint(1)"
  \/ column.kind = "mysql" /\ row = <<ZeroDate>>
  \/ column.kind = "oracle" /\ column.type = "NUMBER" /\ row = <<NotInt64>>
  \/ column.kind = "ms_sql_server" /\ column.type = "tinyint" /\ row = <<200>>
  \/ column.type = "Tuple(DateTime)"

\* A column that DescribeTable shows to YDB has a transformer when it is read: the two
\* switches of every type mapper agree through the driver's names.  Its values can be
\* scanned, measured and appended, with the exceptions known.
SchemaIsReadable ==
  /\ pc # "no transformer"
  /\ pc \in {"error", "panic"} => KnownUnreadable

\* The values that the described type has room for.
Representable(v) ==
  transformer.in = "time" =>
    IF schema.id # "UTF8" THEN Inside(v, MinYDBTime, MaxYDBTime)
    ELSE column.kind = "clickhouse" =>
           Inside(v, ClickHouseRange(column.type).lo, ClickHouseRange(column.type).hi)

\* Every cell is the value of its own row: NULL stays NULL whatever the row
\* before it left in the variable, what fits arrives unchanged, and a date that
\* does not fit becomes NULL, never another date.  NULL is appended only to columns
\* that were described as Optional, whether it comes from the table or stands for a
\* date out of bounds.  A text is charged to its page with the bytes that its row has,
\* and a column of a fixed size with as much in every row: what the first row held,
\* NULL even, decides nothing for the rows after it.
CellsAreExact ==
  \A i \in DOMAIN cells :
    LET v == cells[i].row
        cell == cells[i].cell
        text == transformer.in \in {"string", "[]byte"} /\ column.type # "uuid"
    IN /\ v = Null => cell = Null
       /\ v # Null /\ Representable(v[1]) => cell = v
       /\ v # Null /\ ~Representable(v[1]) => cell = Null \/ schema.id = "UTF8"
       /\ cell = Null => schema.optional
       /\ text => cells[i].size = IF v = Null THEN 0 ELSE v[1]
       /\ ~text => cells[i].size = cells[1].size /\ cells[i].size > 0
=============================================================================
