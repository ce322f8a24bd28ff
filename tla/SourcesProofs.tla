---------------------------- MODULE SourcesProofs ----------------------------
(***************************************************************************)
(* The columns of the six sources that are read through SQL, for every     *)
(* type and any number of rows; the configuration of the sources, for any  *)
(* file; and the fields of MongoDB, for any documents and sample.          *)
(***************************************************************************)
EXTENDS Columns, Config, Documents, TLAPS
-----------------------------------------------------------------------------
(* The columns *)

\* The YDB types, each with the Go variables that its values are scanned into and with
\* its builder.
Shapes ==
  {<<"BOOL", "bool", "Uint8">>, <<"INT8", "int8", "Int8">>, <<"UINT8", "uint8", "Uint8">>,
   <<"INT16", "int16", "Int16">>, <<"UINT16", "uint16", "Uint16">>, <<"INT32", "int32", "Int32">>,
   <<"UINT32", "uint32", "Uint32">>, <<"INT64", "int64", "Int64">>, <<"UINT64", "uint64", "Uint64">>,
   <<"FLOAT", "float32", "Float32">>, <<"DOUBLE", "float64", "Float64">>,
   <<"STRING", "string", "Binary">>, <<"STRING", "[]byte", "Binary">>, <<"UTF8", "string", "String">>,
   <<"JSON", "string", "String">>, <<"JSON", "[]byte", "String">>, <<"UTF8", "time", "String">>,
   <<"DATE", "time", "Uint16">>, <<"DATETIME", "time", "Uint32">>, <<"TIMESTAMP", "time", "Uint64">>}

\* What the two switches of a type mapper have in common: the variable and the builder fit
\* the type that was described, and points in time what YDB has for them.
Agree(c, id, t) ==
  /\ <<id, t.in, t.out>> \in Shapes
  /\ c.type = "uuid" => t.in = "[]byte"
  /\ t.in = "time" /\ id = "DATE" =>
       c.type \in {"date", "Date", "Date32"} \/ (c.kind = "ydb" /\ c.type = "DATE")
  /\ t.in = "time" /\ c.kind = "clickhouse" =>
       c.type \in ClickHouseTimes /\ (id # "UTF8" => format = "YQL")
  /\ t.in = "time" /\ c.kind = "ydb" => id # "UTF8"
  /\ c.kind \in {"clickhouse", "ydb"} => t.resets = c.nullable

Supported(id) == id \notin {"not supported", "invalid request"}

\* A variable of a plain type has one shape.
LEMMA PlainFits ==
  ASSUME NEW c, NEW id, NEW in, NEW out, NEW resets,
         <<id, in, out>> \in Shapes, in # "time", c.type # "uuid" \/ in = "[]byte",
         c.kind \in {"clickhouse", "ydb"} => resets = c.nullable
  PROVE  Agree(c, id, [in |-> in, out |-> out, resets |-> resets])
BY DEF Agree

\* The builder of a point in time.
TimeOut(id) ==
  CASE id = "UTF8" -> "String" [] id = "DATE" -> "Uint16" [] id = "DATETIME" -> "Uint32"
    [] id = "TIMESTAMP" -> "Uint64"

TimeIds == {"DATE", "DATETIME", "TIMESTAMP"}

\* What TimeInto makes of a type it knows.
LEMMA TimeIs ==
  ASSUME NEW id, NEW known, id \in known, id \in TimeIds \cup {"UTF8"}
  PROVE  TimeInto(id, known) = [in |-> "time", out |-> TimeOut(id), resets |-> TRUE]
<1> USE DEF TimeInto, TimeOut, Into
<1>1. CASE id = "UTF8" BY <1>1
<1>2. CASE id = "DATE" BY <1>2
<1>3. CASE id = "DATETIME" BY <1>3
<1>4. CASE id = "TIMESTAMP" BY <1>4
<1> QED
  BY <1>1, <1>2, <1>3, <1>4 DEF TimeIds

\* A point in time has the shape of its YDB type.
LEMMA TimeShapes ==
  ASSUME NEW id \in TimeIds \cup {"UTF8"}
  PROVE  <<id, "time", TimeOut(id)>> \in Shapes
<1> USE DEF TimeOut, Shapes
<1>1. CASE id = "UTF8" BY <1>1
<1>2. CASE id = "DATE" BY <1>2
<1>3. CASE id = "DATETIME" BY <1>3
<1>4. CASE id = "TIMESTAMP" BY <1>4
<1> QED
  BY <1>1, <1>2, <1>3, <1>4 DEF TimeIds

\* A date or a time that is described by its YDB type or as text.
LEMMA TimeFits ==
  ASSUME NEW c, NEW y \in TimeIds, NEW id, id = (IF format = "YQL" THEN y ELSE "UTF8"),
         y = "DATE" => c.type \in {"date", "Date", "Date32"}, c.type # "uuid", c.kind # "ydb",
         NEW t, t.in = "time", t.out = TimeOut(id),
         c.kind = "clickhouse" => c.type \in ClickHouseTimes /\ t.resets = c.nullable
  PROVE  Agree(c, id, t)
<1>1. <<id, "time", TimeOut(id)>> \in Shapes
  BY TimeShapes
<1> QED
  BY <1>1 DEF Agree

\* A plain type of ClickHouse and YDB has one shape.
LEMMA PlainShapes ==
  ASSUME NEW type \in Plain
  PROVE  \E in, out : /\ <<type, in, out>> \in Shapes /\ in # "time"
                      /\ PlainInto(type) = [in |-> in, out |-> out, resets |-> TRUE]
<1> USE DEF PlainInto, Into, Shapes
<1>1. CASE type = "BOOL"
  <2>1. /\ PlainInto(type) = [in |-> "bool", out |-> "Uint8", resets |-> TRUE]
        /\ <<type, "bool", "Uint8">> \in Shapes
    BY <1>1
  <2> QED
    BY <2>1, Zenon
<1>2. CASE type = "INT8"
  <2>1. /\ PlainInto(type) = [in |-> "int8", out |-> "Int8", resets |-> TRUE]
        /\ <<type, "int8", "Int8">> \in Shapes
    BY <1>2
  <2> QED
    BY <2>1, Zenon
<1>3. CASE type = "UINT8"
  <2>1. /\ PlainInto(type) = [in |-> "uint8", out |-> "Uint8", resets |-> TRUE]
        /\ <<type, "uint8", "Uint8">> \in Shapes
    BY <1>3
  <2> QED
    BY <2>1, Zenon
<1>4. CASE type = "INT16"
  <2>1. /\ PlainInto(type) = [in |-> "int16", out |-> "Int16", resets |-> TRUE]
        /\ <<type, "int16", "Int16">> \in Shapes
    BY <1>4
  <2> QED
    BY <2>1, Zenon
<1>5. CASE type = "UINT16"
  <2>1. /\ PlainInto(type) = [in |-> "uint16", out |-> "Uint16", resets |-> TRUE]
        /\ <<type, "uint16", "Uint16">> \in Shapes
    BY <1>5
  <2> QED
    BY <2>1, Zenon
<1>6. CASE type = "INT32"
  <2>1. /\ PlainInto(type) = [in |-> "int32", out |-> "Int32", resets |-> TRUE]
        /\ <<type, "int32", "Int32">> \in Shapes
    BY <1>6
  <2> QED
    BY <2>1, Zenon
<1>7. CASE type = "UINT32"
  <2>1. /\ PlainInto(type) = [in |-> "uint32", out |-> "Uint32", resets |-> TRUE]
        /\ <<type, "uint32", "Uint32">> \in Shapes
    BY <1>7
  <2> QED
    BY <2>1, Zenon
<1>8. CASE type = "INT64"
  <2>1. /\ PlainInto(type) = [in |-> "int64", out |-> "Int64", resets |-> TRUE]
        /\ <<type, "int64", "Int64">> \in Shapes
    BY <1>8
  <2> QED
    BY <2>1, Zenon
<1>9. CASE type = "UINT64"
  <2>1. /\ PlainInto(type) = [in |-> "uint64", out |-> "Uint64", resets |-> TRUE]
        /\ <<type, "uint64", "Uint64">> \in Shapes
    BY <1>9
  <2> QED
    BY <2>1, Zenon
<1>10. CASE type = "FLOAT"
  <2>1. /\ PlainInto(type) = [in |-> "float32", out |-> "Float32", resets |-> TRUE]
        /\ <<type, "float32", "Float32">> \in Shapes
    BY <1>10
  <2> QED
    BY <2>1, Zenon
<1>11. CASE type = "DOUBLE"
  <2>1. /\ PlainInto(type) = [in |-> "float64", out |-> "Float64", resets |-> TRUE]
        /\ <<type, "float64", "Float64">> \in Shapes
    BY <1>11
  <2> QED
    BY <2>1, Zenon
<1> QED
  BY <1>1, <1>2, <1>3, <1>4, <1>5, <1>6, <1>7, <1>8, <1>9, <1>10, <1>11 DEF Plain

\* MySQL.
LEMMA MySQLAgrees ==
  ASSUME NEW c, c.kind = "mysql", NEW id, id = MySQLToYDB(c), Supported(id)
  PROVE  Agree(c, id, MySQLTransformer(c, id))
<1>1. CASE c.type = "tinyint(1)"
  <2>1. id = "BOOL"
    BY <1>1 DEF MySQLToYDB
  <2>2. MySQLTransformer(c, id) = [in |-> "bool", out |-> "Uint8", resets |-> TRUE]
    BY <2>1, <1>1 DEF MySQLTransformer, MySQLCode, Into
  <2> QED
    BY <2>1, <2>2, <1>1, PlainFits DEF Shapes
<1>2. CASE c.type = "tinyint"
  <2>1. id = IF c.unsigned THEN "UINT8" ELSE "INT8"
    BY <1>2 DEF MySQLToYDB
  <2>2. MySQLTransformer(c, id) = IF c.unsigned THEN [in |-> "uint8", out |-> "Uint8", resets |-> TRUE]
                                         ELSE [in |-> "int8", out |-> "Int8", resets |-> TRUE]
    BY <2>1, <1>2 DEF MySQLTransformer, MySQLCode, Into
  <2>3. CASE c.unsigned
    BY <2>1, <2>2, <2>3, <1>2, PlainFits DEF Shapes
  <2>4. CASE ~c.unsigned
    BY <2>1, <2>2, <2>4, <1>2, PlainFits DEF Shapes
  <2> QED
    BY <2>3, <2>4
<1>3. CASE c.type = "smallint"
  <2>1. id = IF c.unsigned THEN "UINT16" ELSE "INT16"
    BY <1>3 DEF MySQLToYDB
  <2>2. MySQLTransformer(c, id) = IF c.unsigned THEN [in |-> "uint16", out |-> "Uint16", resets |-> TRUE]
                                         ELSE [in |-> "int16", out |-> "Int16", resets |-> TRUE]
    BY <2>1, <1>3 DEF MySQLTransformer, MySQLCode, Into
  <2>3. CASE c.unsigned
    BY <2>1, <2>2, <2>3, <1>3, PlainFits DEF Shapes
  <2>4. CASE ~c.unsigned
    BY <2>1, <2>2, <2>4, <1>3, PlainFits DEF Shapes
  <2> QED
    BY <2>3, <2>4
<1>4. CASE c.type \in {"mediumint", "int"}
  <2>1. id = IF c.unsigned THEN "UINT32" ELSE "INT32"
    BY <1>4 DEF MySQLToYDB
  <2>2. MySQLTransformer(c, id) = IF c.unsigned THEN [in |-> "uint32", out |-> "Uint32", resets |-> TRUE]
                                         ELSE [in |-> "int32", out |-> "Int32", resets |-> TRUE]
    BY <2>1, <1>4 DEF MySQLTransformer, MySQLCode, Into
  <2>3. CASE c.unsigned
    BY <2>1, <2>2, <2>3, <1>4, PlainFits DEF Shapes
  <2>4. CASE ~c.unsigned
    BY <2>1, <2>2, <2>4, <1>4, PlainFits DEF Shapes
  <2> QED
    BY <2>3, <2>4
<1>5. CASE c.type = "bigint"
  <2>1. id = IF c.unsigned THEN "UINT64" ELSE "INT64"
    BY <1>5 DEF MySQLToYDB
  <2>2. MySQLTransformer(c, id) = IF c.unsigned THEN [in |-> "uint64", out |-> "Uint64", resets |-> TRUE]
                                         ELSE [in |-> "int64", out |-> "Int64", resets |-> TRUE]
    BY <2>1, <1>5 DEF MySQLTransformer, MySQLCode, Into
  <2>3. CASE c.unsigned
    BY <2>1, <2>2, <2>3, <1>5, PlainFits DEF Shapes
  <2>4. CASE ~c.unsigned
    BY <2>1, <2>2, <2>4, <1>5, PlainFits DEF Shapes
  <2> QED
    BY <2>3, <2>4
<1>6. CASE c.type = "float"
  <2>1. id = "FLOAT"
    BY <1>6 DEF MySQLToYDB
  <2>2. MySQLTransformer(c, id) = [in |-> "float32", out |-> "Float32", resets |-> TRUE]
    BY <2>1, <1>6 DEF MySQLTransformer, MySQLCode, Into
  <2> QED
    BY <2>1, <2>2, <1>6, PlainFits DEF Shapes
<1>7. CASE c.type = "double"
  <2>1. id = "DOUBLE"
    BY <1>7 DEF MySQLToYDB
  <2>2. MySQLTransformer(c, id) = [in |-> "float64", out |-> "Float64", resets |-> TRUE]
    BY <2>1, <1>7 DEF MySQLTransformer, MySQLCode, Into
  <2> QED
    BY <2>1, <2>2, <1>7, PlainFits DEF Shapes
<1>8. CASE c.type \in {"blob", "text"}
  <2>1. id = "STRING"
    BY <1>8 DEF MySQLToYDB
  <2>2. MySQLTransformer(c, id) = [in |-> "[]byte", out |-> "Binary", resets |-> TRUE]
    BY <2>1, <1>8 DEF MySQLTransformer, MySQLCode, Into
  <2> QED
    BY <2>1, <2>2, <1>8, PlainFits DEF Shapes
<1>9. CASE c.type \in {"binary", "varbinary"}
  <2>1. id = "STRING"
    BY <1>9 DEF MySQLToYDB
  <2>2. MySQLTransformer(c, id) = [in |-> "string", out |-> "Binary", resets |-> TRUE]
    BY <2>1, <1>9 DEF MySQLTransformer, MySQLCode, Into
  <2> QED
    BY <2>1, <2>2, <1>9, PlainFits DEF Shapes
<1>10. CASE c.type \in {"char", "varchar"}
  <2>1. id = "UTF8"
    BY <1>10 DEF MySQLToYDB
  <2>2. MySQLTransformer(c, id) = [in |-> "string", out |-> "String", resets |-> TRUE]
    BY <2>1, <1>10 DEF MySQLTransformer, MySQLCode, Into
  <2> QED
    BY <2>1, <2>2, <1>10, PlainFits DEF Shapes
<1>11. CASE c.type = "json"
  <2>1. id = "JSON"
    BY <1>11 DEF MySQLToYDB
  <2>2. MySQLTransformer(c, id) = [in |-> "string", out |-> "String", resets |-> TRUE]
    BY <2>1, <1>11 DEF MySQLTransformer, MySQLCode, Into
  <2> QED
    BY <2>1, <2>2, <1>11, PlainFits DEF Shapes
<1>12. CASE c.type = "date"
  <2>1. id = IF format = "YQL" THEN "DATE" ELSE "UTF8"
    BY <1>12 DEF MySQLToYDB, MakeYdbDateTimeType, Supported
  <2>2. MySQLTransformer(c, id) = TimeInto(id, {"UTF8", "DATE"})
    BY <1>12 DEF MySQLTransformer, MySQLCode
  <2>3. MySQLTransformer(c, id).in = "time" /\ MySQLTransformer(c, id).out = TimeOut(id)
    BY <2>1, <2>2, TimeIs DEF TimeIds
  <2> QED
    BY <2>1, <2>3, <1>12, TimeFits DEF TimeIds
<1>13. CASE c.type \in {"datetime", "timestamp"}
  <2>1. id = IF format = "YQL" THEN "TIMESTAMP" ELSE "UTF8"
    BY <1>13 DEF MySQLToYDB, MakeYdbDateTimeType, Supported
  <2>2. MySQLTransformer(c, id) = TimeInto(id, {"UTF8", "TIMESTAMP"})
    BY <1>13 DEF MySQLTransformer, MySQLCode
  <2>3. MySQLTransformer(c, id).in = "time" /\ MySQLTransformer(c, id).out = TimeOut(id)
    BY <2>1, <2>2, TimeIs DEF TimeIds
  <2> QED
    BY <2>1, <2>3, <1>13, TimeFits DEF TimeIds
<1> QED
  BY <1>1, <1>2, <1>3, <1>4, <1>5, <1>6, <1>7, <1>8, <1>9, <1>10, <1>11, <1>12, <1>13, Zenon DEF MySQLToYDB, Supported

\* PostgreSQL.
LEMMA PostgreSQLAgrees ==
  ASSUME NEW c, c.kind = "postgresql", NEW id, id = PostgreSQLToYDB(c), Supported(id)
  PROVE  Agree(c, id, PostgreSQLTransformer(c, id))
<1>1. CASE c.type = "boolean"
  <2>1. id = "BOOL"
    BY <1>1 DEF PostgreSQLToYDB
  <2>2. PostgreSQLTransformer(c, id) = [in |-> "bool", out |-> "Uint8", resets |-> FALSE]
    BY <2>1, <1>1 DEF PostgreSQLTransformer, Into
  <2> QED
    BY <2>1, <2>2, <1>1, PlainFits DEF Shapes
<1>2. CASE c.type = "smallint"
  <2>1. id = "INT16"
    BY <1>2 DEF PostgreSQLToYDB
  <2>2. PostgreSQLTransformer(c, id) = [in |-> "int16", out |-> "Int16", resets |-> FALSE]
    BY <2>1, <1>2 DEF PostgreSQLTransformer, Into
  <2> QED
    BY <2>1, <2>2, <1>2, PlainFits DEF Shapes
<1>3. CASE c.type = "integer"
  <2>1. id = "INT32"
    BY <1>3 DEF PostgreSQLToYDB
  <2>2. PostgreSQLTransformer(c, id) = [in |-> "int32", out |-> "Int32", resets |-> FALSE]
    BY <2>1, <1>3 DEF PostgreSQLTransformer, Into
  <2> QED
    BY <2>1, <2>2, <1>3, PlainFits DEF Shapes
<1>4. CASE c.type = "bigint"
  <2>1. id = "INT64"
    BY <1>4 DEF PostgreSQLToYDB
  <2>2. PostgreSQLTransformer(c, id) = [in |-> "int64", out |-> "Int64", resets |-> FALSE]
    BY <2>1, <1>4 DEF PostgreSQLTransformer, Into
  <2> QED
    BY <2>1, <2>2, <1>4, PlainFits DEF Shapes
<1>5. CASE c.type = "real"
  <2>1. id = "FLOAT"
    BY <1>5 DEF PostgreSQLToYDB
  <2>2. PostgreSQLTransformer(c, id) = [in |-> "float32", out |-> "Float32", resets |-> FALSE]
    BY <2>1, <1>5 DEF PostgreSQLTransformer, Into
  <2> QED
    BY <2>1, <2>2, <1>5, PlainFits DEF Shapes
<1>6. CASE c.type = "double precision"
  <2>1. id = "DOUBLE"
    BY <1>6 DEF PostgreSQLToYDB
  <2>2. PostgreSQLTransformer(c, id) = [in |-> "float64", out |-> "Float64", resets |-> FALSE]
    BY <2>1, <1>6 DEF PostgreSQLTransformer, Into
  <2>3. c.type # "uuid"
    BY <1>6, Zenon
  <2> QED
    BY <2>1, <2>2, <2>3, PlainFits DEF Shapes
<1>7. CASE c.type \in {"bytea", "uuid"}
  <2>1. id = "STRING"
    BY <1>7 DEF PostgreSQLToYDB
  <2>2. PostgreSQLTransformer(c, id) = [in |-> "[]byte", out |-> "Binary", resets |-> FALSE]
    BY <2>1, <1>7 DEF PostgreSQLTransformer, Into
  <2> QED
    BY <2>1, <2>2, <1>7, PlainFits DEF Shapes
<1>8. CASE c.type \in {"character", "character varying", "text"}
  <2>1. id = "UTF8"
    BY <1>8 DEF PostgreSQLToYDB
  <2>2. PostgreSQLTransformer(c, id) = [in |-> "string", out |-> "String", resets |-> FALSE]
    BY <2>1, <1>8 DEF PostgreSQLTransformer, Into
  <2>3. c.type # "uuid"
    BY <1>8, Zenon
  <2> QED
    BY <2>1, <2>2, <2>3, PlainFits DEF Shapes
<1>9. CASE c.type = "json"
  <2>1. id = "JSON"
    BY <1>9 DEF PostgreSQLToYDB
  <2>2. PostgreSQLTransformer(c, id) = [in |-> "string", out |-> "String", resets |-> FALSE]
    BY <2>1, <1>9 DEF PostgreSQLTransformer, Into
  <2> QED
    BY <2>1, <2>2, <1>9, PlainFits DEF Shapes
<1>10. CASE c.type = "date"
  <2>1. id = IF format = "YQL" THEN "DATE" ELSE "UTF8"
    BY <1>10 DEF PostgreSQLToYDB, MakeYdbDateTimeType, Supported
  <2>2. PostgreSQLTransformer(c, id) = [TimeInto(id, {"UTF8", "DATE"}) EXCEPT !.resets = FALSE]
    BY <1>10 DEF PostgreSQLTransformer
  <2>3. PostgreSQLTransformer(c, id).in = "time" /\ PostgreSQLTransformer(c, id).out = TimeOut(id)
    <3>1. TimeInto(id, {"UTF8", "DATE"}) = [in |-> "time", out |-> TimeOut(id), resets |-> TRUE]
      BY <2>1, TimeIs DEF TimeIds
    <3> QED
      BY <2>2, <3>1
  <2> QED
    BY <2>1, <2>3, <1>10, TimeFits DEF TimeIds
<1>11. CASE c.type = "timestamp without time zone"
  <2>1. id = IF format = "YQL" THEN "TIMESTAMP" ELSE "UTF8"
    BY <1>11 DEF PostgreSQLToYDB, MakeYdbDateTimeType, Supported
  <2>2. PostgreSQLTransformer(c, id) = [TimeInto(id, {"UTF8", "TIMESTAMP"}) EXCEPT !.resets = FALSE]
    BY <1>11 DEF PostgreSQLTransformer
  <2>3. PostgreSQLTransformer(c, id).in = "time" /\ PostgreSQLTransformer(c, id).out = TimeOut(id)
    <3>1. TimeInto(id, {"UTF8", "TIMESTAMP"}) = [in |-> "time", out |-> TimeOut(id), resets |-> TRUE]
      BY <2>1, TimeIs DEF TimeIds
    <3> QED
      BY <2>2, <3>1
  <2>4. c.type # "uuid"
    BY <1>11, Zenon
  <2> QED
    BY <2>1, <2>3, <2>4, TimeFits DEF TimeIds
<1> QED
  BY <1>1, <1>2, <1>3, <1>4, <1>5, <1>6, <1>7, <1>8, <1>9, <1>10, <1>11, Zenon DEF PostgreSQLToYDB, Supported

\* Oracle, through the names of its driver.
LEMMA OracleAgrees ==
  ASSUME NEW c, c.kind = "oracle", NEW id, id = OracleToYDB(c), Supported(id)
  PROVE  Agree(c, id, OracleTransformer(c, id))
<1>1. CASE c.type = "NUMBER"
  <2>1. id = "INT64"
    BY <1>1 DEF OracleToYDB, OracleTexts, OracleTimestamps
  <2>2. OracleTransformer(c, id) = [in |-> "int64", out |-> "Int64", resets |-> TRUE]
    BY <2>1, <1>1 DEF OracleTransformer, OracleName, Into, OracleTexts, OracleTimestamps
  <2> QED
    BY <2>1, <2>2, <1>1, PlainFits DEF Shapes
<1>2. CASE c.type = "BINARY_DOUBLE"
  <2>1. id = "DOUBLE"
    BY <1>2 DEF OracleToYDB, OracleTexts, OracleTimestamps
  <2>2. OracleTransformer(c, id) = [in |-> "float64", out |-> "Float64", resets |-> TRUE]
    BY <2>1, <1>2 DEF OracleTransformer, OracleName, Into, OracleTexts, OracleTimestamps
  <2> QED
    BY <2>1, <2>2, <1>2, PlainFits DEF Shapes
<1>3. CASE c.type \in OracleTexts
  <2>1. id = "UTF8"
    BY <1>3 DEF OracleToYDB, OracleTexts, OracleTimestamps
  <2>2. OracleTransformer(c, id) = [in |-> "string", out |-> "String", resets |-> TRUE]
    BY <2>1, <1>3 DEF OracleTransformer, OracleName, Into, OracleTexts, OracleTimestamps
  <2>3. c.type # "uuid"
    BY <1>3, Zenon DEF OracleTexts
  <2> QED
    BY <2>1, <2>2, <2>3, PlainFits DEF Shapes
<1>4. CASE c.type \in {"RAW", "LONG RAW", "BLOB"}
  <2>1. id = "STRING"
    BY <1>4 DEF OracleToYDB, OracleTexts, OracleTimestamps
  <2>2. OracleTransformer(c, id) = [in |-> "[]byte", out |-> "Binary", resets |-> TRUE]
    BY <2>1, <1>4 DEF OracleTransformer, OracleName, Into, OracleTexts, OracleTimestamps
  <2>3. c.type # "uuid"
    BY <1>4, Zenon DEF OracleTexts
  <2> QED
    BY <2>1, <2>2, <2>3, PlainFits DEF Shapes
<1>5. CASE c.type = "JSON"
  <2>1. id = "JSON"
    BY <1>5 DEF OracleToYDB, OracleTexts, OracleTimestamps
  <2>2. OracleTransformer(c, id) = [in |-> "[]byte", out |-> "String", resets |-> TRUE]
    BY <2>1, <1>5 DEF OracleTransformer, OracleName, Into, OracleTexts, OracleTimestamps
  <2> QED
    BY <2>1, <2>2, <1>5, PlainFits DEF Shapes
<1>6. CASE c.type = "DATE"
  <2>1. id = IF format = "YQL" THEN "DATETIME" ELSE "UTF8"
    BY <1>6 DEF OracleToYDB, MakeYdbDateTimeType, Supported, OracleTexts, OracleTimestamps
  <2>2. OracleTransformer(c, id) = TimeInto(id, {"UTF8", "DATETIME"})
    BY <1>6 DEF OracleTransformer, OracleName, OracleTexts, OracleTimestamps
  <2>3. OracleTransformer(c, id).in = "time" /\ OracleTransformer(c, id).out = TimeOut(id)
    BY <2>1, <2>2, TimeIs DEF TimeIds
  <2> QED
    BY <2>1, <2>3, <1>6, TimeFits DEF TimeIds
<1>7. CASE c.type \in OracleTimestamps
  <2>1. id = IF format = "YQL" THEN "TIMESTAMP" ELSE "UTF8"
    BY <1>7 DEF OracleToYDB, MakeYdbDateTimeType, Supported, OracleTexts, OracleTimestamps
  <2>2. OracleTransformer(c, id) = TimeInto(id, {"UTF8", "TIMESTAMP"})
    BY <1>7 DEF OracleTransformer, OracleName, OracleTexts, OracleTimestamps
  <2>3. OracleTransformer(c, id).in = "time" /\ OracleTransformer(c, id).out = TimeOut(id)
    BY <2>1, <2>2, TimeIs DEF TimeIds
  <2>4. c.type # "uuid"
    BY <1>7, Zenon DEF OracleTimestamps
  <2> QED
    BY <2>1, <2>3, <2>4, TimeFits DEF TimeIds
<1> QED
  BY <1>1, <1>2, <1>3, <1>4, <1>5, <1>6, <1>7, Zenon DEF OracleToYDB, Supported, OracleTexts, OracleTimestamps

\* MS SQL Server.
LEMMA MsSQLServerAgrees ==
  ASSUME NEW c, c.kind = "ms_sql_server", NEW id, id = MsSQLServerToYDB(c), Supported(id)
  PROVE  Agree(c, id, MsSQLServerTransformer(c, id))
<1>1. CASE c.type = "bit"
  <2>1. id = "BOOL"
    BY <1>1 DEF MsSQLServerToYDB
  <2>2. MsSQLServerTransformer(c, id) = [in |-> "bool", out |-> "Uint8", resets |-> TRUE]
    BY <2>1, <1>1 DEF MsSQLServerTransformer, Into
  <2> QED
    BY <2>1, <2>2, <1>1, PlainFits DEF Shapes
<1>2. CASE c.type = "tinyint"
  <2>1. id = "INT8"
    BY <1>2 DEF MsSQLServerToYDB
  <2>2. MsSQLServerTransformer(c, id) = [in |-> "int8", out |-> "Int8", resets |-> TRUE]
    BY <2>1, <1>2 DEF MsSQLServerTransformer, Into
  <2> QED
    BY <2>1, <2>2, <1>2, PlainFits DEF Shapes
<1>3. CASE c.type = "smallint"
  <2>1. id = "INT16"
    BY <1>3 DEF MsSQLServerToYDB
  <2>2. MsSQLServerTransformer(c, id) = [in |-> "int16", out |-> "Int16", resets |-> TRUE]
    BY <2>1, <1>3 DEF MsSQLServerTransformer, Into
  <2> QED
    BY <2>1, <2>2, <1>3, PlainFits DEF Shapes
<1>4. CASE c.type = "int"
  <2>1. id = "INT32"
    BY <1>4 DEF MsSQLServerToYDB
  <2>2. MsSQLServerTransformer(c, id) = [in |-> "int32", out |-> "Int32", resets |-> TRUE]
    BY <2>1, <1>4 DEF MsSQLServerTransformer, Into
  <2> QED
    BY <2>1, <2>2, <1>4, PlainFits DEF Shapes
<1>5. CASE c.type = "bigint"
  <2>1. id = "INT64"
    BY <1>5 DEF MsSQLServerToYDB
  <2>2. MsSQLServerTransformer(c, id) = [in |-> "int64", out |-> "Int64", resets |-> TRUE]
    BY <2>1, <1>5 DEF MsSQLServerTransformer, Into
  <2> QED
    BY <2>1, <2>2, <1>5, PlainFits DEF Shapes
<1>6. CASE c.type = "real"
  <2>1. id = "FLOAT"
    BY <1>6 DEF MsSQLServerToYDB
  <2>2. MsSQLServerTransformer(c, id) = [in |-> "float32", out |-> "Float32", resets |-> TRUE]
    BY <2>1, <1>6 DEF MsSQLServerTransformer, Into
  <2> QED
    BY <2>1, <2>2, <1>6, PlainFits DEF Shapes
<1>7. CASE c.type = "float"
  <2>1. id = "DOUBLE"
    BY <1>7 DEF MsSQLServerToYDB
  <2>2. MsSQLServerTransformer(c, id) = [in |-> "float64", out |-> "Float64", resets |-> TRUE]
    BY <2>1, <1>7 DEF MsSQLServerTransformer, Into
  <2> QED
    BY <2>1, <2>2, <1>7, PlainFits DEF Shapes
<1>8. CASE c.type \in {"binary", "varbinary", "image"}
  <2>1. id = "STRING"
    BY <1>8 DEF MsSQLServerToYDB
  <2>2. MsSQLServerTransformer(c, id) = [in |-> "[]byte", out |-> "Binary", resets |-> FALSE]
    BY <2>1, <1>8 DEF MsSQLServerTransformer, Into
  <2> QED
    BY <2>1, <2>2, <1>8, PlainFits DEF Shapes
<1>9. CASE c.type \in {"char", "varchar", "text", "nchar", "nvarchar", "ntext"}
  <2>1. id = "UTF8"
    BY <1>9 DEF MsSQLServerToYDB
  <2>2. MsSQLServerTransformer(c, id) = [in |-> "string", out |-> "String", resets |-> TRUE]
    BY <2>1, <1>9 DEF MsSQLServerTransformer, Into
  <2> QED
    BY <2>1, <2>2, <1>9, PlainFits DEF Shapes
<1>10. CASE c.type = "date"
  <2>1. id = IF format = "YQL" THEN "DATE" ELSE "UTF8"
    BY <1>10 DEF MsSQLServerToYDB, MakeYdbDateTimeType, Supported
  <2>2. MsSQLServerTransformer(c, id) = TimeInto(id, {"UTF8", "DATE"})
    BY <1>10 DEF MsSQLServerTransformer
  <2>3. MsSQLServerTransformer(c, id).in = "time" /\ MsSQLServerTransformer(c, id).out = TimeOut(id)
    BY <2>1, <2>2, TimeIs DEF TimeIds
  <2> QED
    BY <2>1, <2>3, <1>10, TimeFits DEF TimeIds
<1>11. CASE c.type = "smalldatetime"
  <2>1. id = IF format = "YQL" THEN "DATETIME" ELSE "UTF8"
    BY <1>11 DEF MsSQLServerToYDB, MakeYdbDateTimeType, Supported
  <2>2. MsSQLServerTransformer(c, id) = TimeInto(id, {"UTF8", "DATETIME"})
    BY <1>11 DEF MsSQLServerTransformer
  <2>3. MsSQLServerTransformer(c, id).in = "time" /\ MsSQLServerTransformer(c, id).out = TimeOut(id)
    BY <2>1, <2>2, TimeIs DEF TimeIds
  <2> QED
    BY <2>1, <2>3, <1>11, TimeFits DEF TimeIds
<1>12. CASE c.type \in {"datetime", "datetime2"}
  <2>1. id = IF format = "YQL" THEN "TIMESTAMP" ELSE "UTF8"
    BY <1>12 DEF MsSQLServerToYDB, MakeYdbDateTimeType, Supported
  <2>2. MsSQLServerTransformer(c, id) = TimeInto(id, {"UTF8", "TIMESTAMP"})
    BY <1>12 DEF MsSQLServerTransformer
  <2>3. MsSQLServerTransformer(c, id).in = "time" /\ MsSQLServerTransformer(c, id).out = TimeOut(id)
    BY <2>1, <2>2, TimeIs DEF TimeIds
  <2> QED
    BY <2>1, <2>3, <1>12, TimeFits DEF TimeIds
<1> QED
  BY <1>1, <1>2, <1>3, <1>4, <1>5, <1>6, <1>7, <1>8, <1>9, <1>10, <1>11, <1>12, Zenon DEF MsSQLServerToYDB, Supported

\* ClickHouse.
LEMMA ClickHouseAgrees ==
  ASSUME NEW c, c.kind = "clickhouse", NEW id, id = ClickHouseToYDB(c), Supported(id)
  PROVE  Agree(c, id, ClickHouseTransformer(c, id))
<1>1. CASE c.type \in {"String", "FixedString"}
  <2>1. id = "STRING"
    BY <1>1 DEF ClickHouseToYDB, Plain, MentionsDateTime
  <2>2. ClickHouseTransformer(c, id) = [in |-> "string", out |-> "Binary", resets |-> c.nullable]
    BY <2>1, <1>1 DEF ClickHouseTransformer, Into, Plain, MentionsDateTime
  <2> QED
    BY <2>1, <2>2, <1>1, PlainFits DEF Shapes
<1>2. CASE c.type \in {"Date", "Date32"}
  <2>1. id = IF format = "YQL" THEN "DATE" ELSE "UTF8"
    BY <1>2 DEF ClickHouseToYDB, MakeYdbDateTimeType, Supported, Plain, MentionsDateTime
  <2>2. ClickHouseTransformer(c, id) = [TimeInto(id, {"UTF8", "DATE"}) EXCEPT !.resets = c.nullable]
    BY <1>2 DEF ClickHouseTransformer, Plain, MentionsDateTime
  <2>3. /\ ClickHouseTransformer(c, id).in = "time" /\ ClickHouseTransformer(c, id).out = TimeOut(id)
        /\ ClickHouseTransformer(c, id).resets = c.nullable
    BY <2>1, <2>2, TimeIs DEF TimeIds
  <2> QED
    BY <2>1, <2>3, <1>2, TimeFits DEF TimeIds, ClickHouseTimes, Plain, MentionsDateTime
<1>3. CASE c.type = "DateTime64"
  <2>1. id = IF format = "YQL" THEN "TIMESTAMP" ELSE "UTF8"
    BY <1>3 DEF ClickHouseToYDB, MakeYdbDateTimeType, Supported, Plain, MentionsDateTime
  <2>2. ClickHouseTransformer(c, id) = [TimeInto(id, {"UTF8", "TIMESTAMP"}) EXCEPT !.resets = c.nullable]
    BY <1>3 DEF ClickHouseTransformer, Plain, MentionsDateTime
  <2>3. /\ ClickHouseTransformer(c, id).in = "time" /\ ClickHouseTransformer(c, id).out = TimeOut(id)
        /\ ClickHouseTransformer(c, id).resets = c.nullable
    BY <2>1, <2>2, TimeIs DEF TimeIds
  <2> QED
    BY <2>1, <2>3, <1>3, TimeFits DEF TimeIds, ClickHouseTimes, Plain, MentionsDateTime
<1>4. CASE c.type \in MentionsDateTime
  <2>1. id = IF format = "YQL" THEN "DATETIME" ELSE "UTF8"
    BY <1>4 DEF ClickHouseToYDB, MakeYdbDateTimeType, Supported, Plain, MentionsDateTime
  <2>2. ClickHouseTransformer(c, id) = [TimeInto(id, {"UTF8", "DATETIME"}) EXCEPT !.resets = c.nullable]
    BY <1>4 DEF ClickHouseTransformer, Plain, MentionsDateTime
  <2>3. /\ ClickHouseTransformer(c, id).in = "time" /\ ClickHouseTransformer(c, id).out = TimeOut(id)
        /\ ClickHouseTransformer(c, id).resets = c.nullable
    BY <2>1, <2>2, TimeIs DEF TimeIds
  <2> QED
    BY <2>1, <2>3, <1>4, TimeFits DEF TimeIds, ClickHouseTimes, Plain, MentionsDateTime
<1>5. CASE c.type \in Plain
  <2>0. c.type \notin {"String", "FixedString", "Date", "Date32", "DateTime64"} \cup MentionsDateTime
    BY <1>5 DEF Plain, MentionsDateTime
  <2>1. id = c.type
    BY <1>5, <2>0 DEF ClickHouseToYDB
  <2>2. PICK in, out : /\ <<c.type, in, out>> \in Shapes /\ in # "time"
                       /\ PlainInto(c.type) = [in |-> in, out |-> out, resets |-> TRUE]
    BY <1>5, PlainShapes
  <2>3. ClickHouseTransformer(c, id) = [PlainInto(c.type) EXCEPT !.resets = c.nullable]
    BY <1>5, <2>0 DEF ClickHouseTransformer
  <2>4. ClickHouseTransformer(c, id) = [in |-> in, out |-> out, resets |-> c.nullable]
    BY <2>2, <2>3
  <2>5. c.type # "uuid"
    BY <1>5 DEF Plain
  <2> QED
    BY <2>1, <2>2, <2>4, <2>5, PlainFits
<1> QED
  BY <1>1, <1>2, <1>3, <1>4, <1>5, Zenon DEF ClickHouseToYDB, Supported, MentionsDateTime

\* YDB, whose dates are never described as text.
LEMMA YdbAgrees ==
  ASSUME NEW c, c.kind = "ydb", NEW id, id = YdbToYDB(c), Supported(id)
  PROVE  Agree(c, id, YdbTransformer(c, id))
<1>1. CASE c.type \in Plain
  <2>0. c.type \notin {"STRING", "DATE", "DATETIME", "TIMESTAMP"} \cup YdbText
    BY <1>1 DEF Plain, YdbText
  <2>1. id = c.type
    BY <1>1, <2>0, Zenon DEF YdbToYDB, YdbText
  <2>2. PICK in, out : /\ <<c.type, in, out>> \in Shapes /\ in # "time"
                       /\ PlainInto(c.type) = [in |-> in, out |-> out, resets |-> TRUE]
    BY <1>1, PlainShapes
  <2>3. YdbTransformer(c, id) = [PlainInto(c.type) EXCEPT !.resets = c.nullable]
    BY <1>1, <2>0 DEF YdbTransformer
  <2>4. YdbTransformer(c, id) = [in |-> in, out |-> out, resets |-> c.nullable]
    BY <2>2, <2>3
  <2>5. c.type # "uuid"
    BY <1>1 DEF Plain
  <2> QED
    BY <2>1, <2>2, <2>4, <2>5, PlainFits
<1>2. CASE c.type = "STRING"
  <2>1. id = "STRING"
    BY <1>2 DEF YdbToYDB, Plain
  <2>2. YdbTransformer(c, id) = [in |-> "[]byte", out |-> "Binary", resets |-> c.nullable]
    BY <1>2 DEF YdbTransformer, YdbText, Plain, Into
  <2> QED
    BY <2>1, <2>2, <1>2, PlainFits DEF Shapes
<1>3. CASE c.type \in YdbText
  <2>1. id = IF c.type = "UTF8" THEN "UTF8" ELSE "JSON"
    BY <1>3 DEF YdbToYDB, YdbText, Plain
  <2>2. YdbTransformer(c, id) = [in |-> "string", out |-> "String", resets |-> c.nullable]
    BY <1>3 DEF YdbTransformer, YdbText, Plain, Into
  <2>3. <<id, "string", "String">> \in Shapes
    BY <2>1 DEF Shapes
  <2> QED
    BY <2>2, <2>3, <1>3, PlainFits DEF YdbText
<1>4. CASE c.type \in TimeIds
  <2>1. id = c.type
    BY <1>4 DEF YdbToYDB, Plain, TimeIds
  <2>2. YdbTransformer(c, id) = [TimeInto(id, IF c.type = "DATE" THEN {"UTF8", "DATE"} ELSE {c.type})
                                 EXCEPT !.resets = c.nullable]
    BY <1>4 DEF YdbTransformer, YdbText, Plain, TimeIds
  <2>3. TimeInto(id, IF c.type = "DATE" THEN {"UTF8", "DATE"} ELSE {c.type})
        = [in |-> "time", out |-> TimeOut(id), resets |-> TRUE]
    BY <1>4, <2>1, TimeIs DEF TimeIds
  <2>4. /\ YdbTransformer(c, id).in = "time" /\ YdbTransformer(c, id).out = TimeOut(id)
        /\ YdbTransformer(c, id).resets = c.nullable
    BY <2>2, <2>3
  <2> QED
    BY <1>4, <2>1, <2>4, TimeShapes DEF TimeIds, Agree
<1> QED
  BY <1>1, <1>2, <1>3, <1>4, Zenon DEF YdbToYDB, Supported, YdbText, TimeIds

GoTypes == {"bool", "int8", "uint8", "int16", "uint16", "int32", "uint32", "int64", "uint64", "float32",
            "float64", "string", "[]byte", "time"}

\* Of every shape the builder is the one of the type, and the field of the record is of
\* the builder's type.
LEMMA ShapesFit ==
  ASSUME NEW s \in Shapes
  PROVE  /\ s[3] = ydbTypeIdToArrowBuilder(s[1])
         /\ ydbTypeIdToArrowField(s[1]) = ydbTypeIdToArrowBuilder(s[1])
         /\ s[2] \in GoTypes
         /\ s[2] = "time" => s[1] \in TimeIds \cup {"UTF8"} /\ s[3] = TimeOut(s[1])
<1> USE DEF ydbTypeIdToArrowBuilder, ydbTypeIdToArrowField, GoTypes, TimeIds, TimeOut
<1>1. CASE s = <<"BOOL", "bool", "Uint8">> BY <1>1
<1>2. CASE s = <<"INT8", "int8", "Int8">> BY <1>2
<1>3. CASE s = <<"UINT8", "uint8", "Uint8">> BY <1>3
<1>4. CASE s = <<"INT16", "int16", "Int16">> BY <1>4
<1>5. CASE s = <<"UINT16", "uint16", "Uint16">> BY <1>5
<1>6. CASE s = <<"INT32", "int32", "Int32">> BY <1>6
<1>7. CASE s = <<"UINT32", "uint32", "Uint32">> BY <1>7
<1>8. CASE s = <<"INT64", "int64", "Int64">> BY <1>8
<1>9. CASE s = <<"UINT64", "uint64", "Uint64">> BY <1>9
<1>10. CASE s = <<"FLOAT", "float32", "Float32">> BY <1>10
<1>11. CASE s = <<"DOUBLE", "float64", "Float64">> BY <1>11
<1>12. CASE s = <<"STRING", "string", "Binary">> BY <1>12
<1>13. CASE s = <<"STRING", "[]byte", "Binary">> BY <1>13
<1>14. CASE s = <<"UTF8", "string", "String">> BY <1>14
<1>15. CASE s = <<"JSON", "string", "String">> BY <1>15
<1>16. CASE s = <<"JSON", "[]byte", "String">> BY <1>16
<1>17. CASE s = <<"UTF8", "time", "String">> BY <1>17
<1>18. CASE s = <<"DATE", "time", "Uint16">> BY <1>18
<1>19. CASE s = <<"DATETIME", "time", "Uint32">> BY <1>19
<1>20. CASE s = <<"TIMESTAMP", "time", "Uint64">> BY <1>20
<1> QED
  BY <1>1, <1>2, <1>3, <1>4, <1>5, <1>6, <1>7, <1>8, <1>9, <1>10,
     <1>11, <1>12, <1>13, <1>14, <1>15, <1>16, <1>17, <1>18, <1>19, <1>20, Zenon DEF Shapes

\* The table of a type mapper, of any kind.
LEMMA TablesAgree ==
  ASSUME NEW c \in Columns, NEW id, id = ToYDB(c), Supported(id)
  PROVE  Agree(c, id, TransformerOf(c, id))
<1> USE DEF ToYDB, TransformerOf
<1>1. CASE c.kind = "mysql"
  BY <1>1, MySQLAgrees
<1>2. CASE c.kind = "postgresql"
  BY <1>2, PostgreSQLAgrees
<1>3. CASE c.kind = "oracle"
  BY <1>3, OracleAgrees
<1>4. CASE c.kind = "ms_sql_server"
  BY <1>4, MsSQLServerAgrees
<1>5. CASE c.kind = "clickhouse"
  BY <1>5, ClickHouseAgrees
<1>6. CASE c.kind = "ydb"
  BY <1>6, YdbAgrees
<1> QED
  BY <1>1, <1>2, <1>3, <1>4, <1>5, <1>6, ColumnsAssumption

\* The flags of an unsigned column that are not the unsigned flag alone, or not those of a
\* number.
BadFlags(c) ==
  c.type \in MySQLIntegers /\ c.unsigned /\ (~c.nullable \/ c.flagged \/ c.type = "tinyint(1)")

\* scanToDest of MySQL takes what the transformer made, unless the flags of the column are
\* not the unsigned flag alone.
LEMMA MySQLScans ==
  ASSUME NEW c, c.unsigned \in BOOLEAN, c.nullable \in BOOLEAN, c.flagged \in BOOLEAN,
         NEW id, id = MySQLToYDB(c), Supported(id), NEW v, v # <<ZeroDate>>,
         ~BadFlags(c)
  PROVE  MySQLScan(c, MySQLTransformer(c, id), v) = "ok"
<1> DEFINE t == MySQLTransformer(c, id)
           sign(u, s) == IF c.unsigned THEN u ELSE s
<1>0. ASSUME c.type \in MySQLIntegers
      PROVE  /\ MySQLFlags(c) = {"UNSIGNED"} <=> c.unsigned
             /\ c.type = "tinyint(1)" => ~c.unsigned
  <2>1. c.unsigned => c.nullable /\ ~c.flagged /\ c.type # "tinyint(1)"
    BY <1>0 DEF BadFlags
  <2> QED
    BY <2>1 DEF MySQLFlags
<1>1. CASE c.type = "tinyint(1)"
  <2>0. MySQLFlags(c) # {"UNSIGNED"} /\ ~c.unsigned
    BY <1>0, <1>1 DEF MySQLIntegers
  <2>1. id = "BOOL" /\ MySQLCode(c.type) = "TINY"
    BY <1>1 DEF MySQLToYDB, MySQLCode
  <2>2. t.in = "bool"
    BY <2>1 DEF MySQLTransformer, Into
  <2> QED
    BY <2>0, <2>1, <2>2, <1>1 DEF MySQLScan
<1>2. CASE c.type = "tinyint"
  <2>0. MySQLFlags(c) = {"UNSIGNED"} <=> c.unsigned
    BY <1>0, <1>2 DEF MySQLIntegers
  <2>1. id = sign("UINT8", "INT8") /\ MySQLCode(c.type) = "TINY"
    BY <1>2 DEF MySQLToYDB, MySQLCode
  <2>2. t.in = sign("uint8", "int8")
    BY <2>1 DEF MySQLTransformer, Into
  <2> QED
    BY <2>0, <2>1, <2>2 DEF MySQLScan
<1>3. CASE c.type = "smallint"
  <2>0. MySQLFlags(c) = {"UNSIGNED"} <=> c.unsigned
    BY <1>0, <1>3 DEF MySQLIntegers
  <2>1. id = sign("UINT16", "INT16") /\ MySQLCode(c.type) = "SHORT"
    BY <1>3 DEF MySQLToYDB, MySQLCode
  <2>2. t.in = sign("uint16", "int16")
    BY <2>1 DEF MySQLTransformer, Into
  <2> QED
    BY <2>0, <2>1, <2>2 DEF MySQLScan
<1>4. CASE c.type \in {"mediumint", "int"}
  <2>0. MySQLFlags(c) = {"UNSIGNED"} <=> c.unsigned
    BY <1>0, <1>4 DEF MySQLIntegers
  <2>1. id = sign("UINT32", "INT32") /\ MySQLCode(c.type) \in {"INT24", "LONG"}
    BY <1>4 DEF MySQLToYDB, MySQLCode
  <2>2. t.in = sign("uint32", "int32")
    BY <2>1 DEF MySQLTransformer, Into
  <2> QED
    BY <2>0, <2>1, <2>2 DEF MySQLScan
<1>5. CASE c.type = "bigint"
  <2>0. MySQLFlags(c) = {"UNSIGNED"} <=> c.unsigned
    BY <1>0, <1>5 DEF MySQLIntegers
  <2>1. id = sign("UINT64", "INT64") /\ MySQLCode(c.type) = "LONGLONG"
    BY <1>5 DEF MySQLToYDB, MySQLCode
  <2>2. t.in = sign("uint64", "int64")
    BY <2>1 DEF MySQLTransformer, Into
  <2> QED
    BY <2>0, <2>1, <2>2 DEF MySQLScan
<1>6. CASE c.type \in {"float", "double", "blob", "text", "binary", "varbinary", "char", "varchar", "json",
                       "date", "datetime", "timestamp"}
  <2>1. MySQLCode(c.type) \notin {"LONGLONG", "LONG", "INT24", "SHORT", "TINY"}
    BY <1>6 DEF MySQLCode
  <2> QED
    BY <2>1 DEF MySQLScan
<1> QED
  BY <1>1, <1>2, <1>3, <1>4, <1>5, <1>6, Zenon DEF MySQLToYDB, Supported

\* scanToDest of Oracle takes every type of the driver's values where the transformer puts
\* it, and every integer of 64 bits.
LEMMA OracleScans ==
  ASSUME NEW c, NEW id, id = OracleToYDB(c), Supported(id), NEW v,
         ~(c.type = "NUMBER" /\ v = <<NotInt64>>)
  PROVE  OracleScan(c, OracleTransformer(c, id), v) = "ok"
<1> DEFINE t == OracleTransformer(c, id)
<1> USE DEF OracleTexts, OracleTimestamps
<1>1. CASE c.type = "NUMBER"
  <2>1. t.in = "int64"
    BY <1>1 DEF OracleTransformer, OracleName, Into
  <2> QED
    BY <1>1, <2>1 DEF OracleScan
<1>2. CASE c.type # "NUMBER" /\ t.in \in {"string", "[]byte", "time", "float64"}
  BY <1>2 DEF OracleScan
<1>3. CASE c.type \in OracleTexts
  <2>1. t.in = "string"
    BY <1>3 DEF OracleTransformer, OracleName, Into
  <2>2. c.type # "NUMBER"
    BY <1>3
  <2> QED
    BY <1>2, <2>1, <2>2
<1>4. CASE c.type \in {"RAW", "LONG RAW", "BLOB", "JSON"}
  <2>1. t.in = "[]byte"
    BY <1>4 DEF OracleTransformer, OracleName, Into
  <2>2. c.type # "NUMBER"
    BY <1>4, Zenon
  <2> QED
    BY <1>2, <2>1, <2>2
<1>5. CASE c.type = "BINARY_DOUBLE"
  <2>1. t.in = "float64"
    BY <1>5 DEF OracleTransformer, OracleName, Into
  <2> QED
    BY <1>2, <2>1, <1>5
<1>6. CASE c.type = "DATE"
  <2>1. id \in {"UTF8", "DATETIME"}
    BY <1>6 DEF OracleToYDB, MakeYdbDateTimeType, Supported
  <2>2. t = TimeInto(id, {"UTF8", "DATETIME"})
    BY <1>6 DEF OracleTransformer, OracleName
  <2>3. t.in = "time"
    BY <2>1, <2>2, TimeIs DEF TimeIds
  <2> QED
    BY <1>2, <2>3, <1>6
<1>7. CASE c.type \in OracleTimestamps
  <2>1. id \in {"UTF8", "TIMESTAMP"}
    BY <1>7 DEF OracleToYDB, MakeYdbDateTimeType, Supported
  <2>2. t = TimeInto(id, {"UTF8", "TIMESTAMP"})
    BY <1>7 DEF OracleTransformer, OracleName
  <2>3. t.in = "time"
    BY <2>1, <2>2, TimeIs DEF TimeIds
  <2>4. c.type # "NUMBER"
    BY <1>7, Zenon
  <2> QED
    BY <1>2, <2>3, <2>4
<1> QED
  BY <1>1, <1>3, <1>4, <1>5, <1>6, <1>7, Zenon DEF OracleToYDB, Supported

\* What a column can hold, and what goes wrong with it.
Held == {Null} \cup {<<n>> : n \in Int}

KnownBad(c, v) ==
  \/ c.kind = "mysql" /\ BadFlags(c)
  \/ c.kind = "mysql" /\ v = <<ZeroDate>>
  \/ c.kind = "oracle" /\ c.type = "NUMBER" /\ v = <<NotInt64>>
  \/ c.kind = "ms_sql_server" /\ c.type = "tinyint" /\ v = <<200>>
  \/ c.type = "Tuple(DateTime)"

\* A value is NULL, in a column that may have it, or a number.
LEMMA ValuesAre ==
  ASSUME NEW c, NEW v \in Values(c)
  PROVE  \/ v = Null /\ c.nullable
         \/ \E n \in Int : /\ v = <<n>>
                           /\ transformer.in = "time" /\ c.type \in {"date", "Date", "Date32"} => n % Day = 0
                           /\ transformer.in = "time" /\ c.kind = "ydb" =>
                                Inside(n, MinYDBTime, MaxYDBTime) /\ (c.type = "DATE" => n % Day = 0)
                           /\ transformer.in # "time" /\ n > 127 =>
                                n = 200 /\ c.type = "tinyint" /\ c.kind = "ms_sql_server"
<1>1. ZeroDate \in Int /\ ZeroDate % Day = 0 /\ \A n \in Times : n \in Int
  BY DEF ZeroDate, Day, Times, MaxYDBTime
<1>2. CASE v = Null /\ c.nullable
  BY <1>2
<1>3. CASE transformer.in = "time" /\ ~(v = Null /\ c.nullable)
  <2>1. PICK n : /\ v = <<n>>
                 /\ \/ /\ n \in Times /\ (c.kind = "ydb" => Inside(n, MinYDBTime, MaxYDBTime))
                       /\ c.type \in {"date", "Date", "Date32"} \cup (IF c.kind = "ydb" THEN {"DATE"} ELSE {}) =>
                            n % Day = 0
                    \/ n = ZeroDate /\ c.kind = "mysql"
    BY <1>3, Zenon DEF Values
  <2>2. n \in Int
    BY <1>1, <2>1
  <2>3. c.type \in {"date", "Date", "Date32"} => n % Day = 0
    BY <1>1, <2>1
  <2>4. c.kind = "ydb" => Inside(n, MinYDBTime, MaxYDBTime) /\ (c.type = "DATE" => n % Day = 0)
    BY <2>1
  <2> QED
    BY <1>3, <2>1, <2>2, <2>3, <2>4
<1>4. CASE transformer.in # "time" /\ ~(v = Null /\ c.nullable)
  <2>1. PICK n : v = <<n>> /\ (n \in {0, 1, NotInt64} \/ (n = 200 /\ c.type = "tinyint" /\ c.kind = "ms_sql_server"))
    <3>1. PICK n : /\ v = <<n>>
                   /\ n \in {0, 1} \cup (IF c.type = "tinyint" /\ c.kind = "ms_sql_server" THEN {200} ELSE {})
                                   \cup (IF c.type = "NUMBER" /\ c.kind = "oracle" THEN {NotInt64} ELSE {})
      BY <1>4, Zenon DEF Values
    <3> QED
      BY <3>1, Zenon
  <2>2. n \in Int /\ (n > 127 => n = 200 /\ c.type = "tinyint" /\ c.kind = "ms_sql_server")
    BY <2>1 DEF NotInt64
  <2> QED
    BY <1>4, <2>1, <2>2
<1> QED
  BY <1>2, <1>3, <1>4

\* Values that cannot be scanned are the known ones.
LEMMA ScansAre ==
  ASSUME NEW c \in Columns, NEW id, id = ToYDB(c), Supported(id), transformer = TransformerOf(c, id),
         NEW v \in Values(c), ~KnownBad(c, v)
  PROVE  Scan(c, transformer, v) = "ok"
<1>1. CASE c.kind = "mysql"
  <2>1. id = MySQLToYDB(c) /\ transformer = MySQLTransformer(c, id)
    BY <1>1 DEF ToYDB, TransformerOf
  <2>2. v # <<ZeroDate>> /\ ~BadFlags(c)
    BY <1>1 DEF KnownBad
  <2>3. MySQLScan(c, MySQLTransformer(c, id), v) = "ok"
    BY <2>1, <2>2, MySQLScans, ColumnsAssumption
  <2> QED
    BY <1>1, <2>1, <2>3 DEF Scan
<1>2. CASE c.kind = "oracle"
  <2>1. ~(c.type = "NUMBER" /\ v = <<NotInt64>>)
    BY <1>2 DEF KnownBad
  <2> QED
    BY <1>2, <2>1, OracleScans DEF Scan, ToYDB, TransformerOf
<1>3. CASE c.kind \notin {"mysql", "oracle"}
  <2>1. c.type # "Tuple(DateTime)"
    BY DEF KnownBad
  <2>2. ASSUME c.kind = "ms_sql_server", transformer.in = "int8", v # Null, v[1] > 127 PROVE FALSE
    <3>1. PICK n \in Int : v = <<n>> /\ (n > 127 => n = 200 /\ c.type = "tinyint")
      BY <2>2, ValuesAre
    <3>2. v = <<200>> /\ c.type = "tinyint"
      BY <2>2, <3>1
    <3> QED
      BY <2>2, <3>2 DEF KnownBad
  <2> QED
    BY <1>3, <2>1, <2>2, Zenon DEF Scan, DriverScan
<1> QED
  BY <1>1, <1>2, <1>3

\* What a value becomes in the builder.
Converted(v) == IF v = Null THEN Null ELSE Convert(column, transformer, v[1])

\* The type was described, and the transformer made for it.
Ready ==
  /\ column \in Columns
  /\ schema.id = ToYDB(column) /\ (schema.optional <=> Optional(column)) /\ Supported(schema.id)
  /\ transformer = TransformerOf(column, schema.id)

\* Once the type was described and its transformer made, they agree.
LEMMA ReadyAgrees ==
  ASSUME Ready
  PROVE  /\ Agree(column, schema.id, transformer)
         /\ transformer.in \in GoTypes
         /\ transformer.out = ydbTypeIdToArrowBuilder(schema.id)
         /\ ydbTypeIdToArrowField(schema.id) = ydbTypeIdToArrowBuilder(schema.id)
         /\ transformer.in = "time" =>
              schema.id \in TimeIds \cup {"UTF8"} /\ transformer.out = TimeOut(schema.id)
<1>1. Agree(column, schema.id, transformer)
  BY TablesAgree DEF Ready
<1>2. <<schema.id, transformer.in, transformer.out>> \in Shapes
  BY <1>1 DEF Agree
<1>3. PICK s \in Shapes : s = <<schema.id, transformer.in, transformer.out>>
  BY <1>2
<1>4. s[1] = schema.id /\ s[2] = transformer.in /\ s[3] = transformer.out
  BY <1>3
<1> QED
  BY <1>1, <1>4, ShapesFit, Zenon

\* Whole days survive a number of 16 bits.
LEMMA DaysFit ==
  ASSUME NEW n \in Int, Inside(n, MinYDBTime, MaxYDBTime), n % Day = 0
  PROVE  ((n \div Day) % 65536) * Day = n
<1> DEFINE k == n \div 24
<1>1. k \in Int /\ 0 <= k /\ k <= 49673 /\ k * 24 = n
  BY SMT DEF Inside, MinYDBTime, MaxYDBTime, Day
<1>2. ASSUME NEW j \in Int, 0 <= j, j <= 49673 PROVE j % 65536 = j
  BY <1>2, SMT
<1> HIDE DEF k
<1>3. (k % 65536) * 24 = n
  BY <1>1, <1>2, SMT
<1> QED
  BY <1>3, SMT DEF Day, k

\* A point in time within YDB's bounds arrives unchanged; any other becomes NULL.
LEMMA TimesFit ==
  ASSUME NEW id \in TimeIds, NEW n \in Int, id = "DATE" => n % Day = 0
  PROVE  /\ Inside(n, MinYDBTime, MaxYDBTime) => TimeToYDB(TimeOut(id), n) = <<n>>
         /\ ~Inside(n, MinYDBTime, MaxYDBTime) => TimeToYDB(TimeOut(id), n) = Null
<1>1. ~Inside(n, MinYDBTime, MaxYDBTime) => TimeToYDB(TimeOut(id), n) = Null
  BY SMT DEF TimeToYDB
<1>2. ASSUME Inside(n, MinYDBTime, MaxYDBTime) PROVE TimeToYDB(TimeOut(id), n) = <<n>>
  <2>1. CASE id = "DATE"
    <3>1. TimeOut(id) = "Uint16"
      BY <2>1 DEF TimeOut
    <3>2. ((n \div Day) % 65536) * Day = n
      BY <1>2, <2>1, DaysFit
    <3>3. TimeToYDB("Uint16", n) = <<((n \div Day) % 65536) * Day>>
      BY <1>2 DEF TimeToYDB
    <3> QED
      BY <3>1, <3>2, <3>3
  <2>2. CASE id = "DATETIME"
    <3>1. TimeOut(id) = "Uint32"
      BY <2>2 DEF TimeOut
    <3>2. n % 1193047 = n
      BY <1>2 DEF Inside, MinYDBTime, MaxYDBTime, Day
    <3>3. TimeToYDB("Uint32", n) = <<n % 1193047>>
      BY <1>2 DEF TimeToYDB
    <3> QED
      BY <3>1, <3>2, <3>3
  <2>3. CASE id = "TIMESTAMP"
    <3>1. TimeOut(id) = "Uint64"
      BY <2>3 DEF TimeOut
    <3> QED
      BY <1>2, <3>1 DEF TimeToYDB
  <2> QED
    BY <2>1, <2>2, <2>3 DEF TimeIds
<1> QED
  BY <1>1, <1>2

\* What ClickHouse has is bounded.
LEMMA RangesAre ==
  ASSUME NEW type \in ClickHouseTimes
  PROVE  ClickHouseRange(type).lo \in Int /\ ClickHouseRange(type).hi \in Int
<1>1. CASE type = "Date"
  BY <1>1 DEF ClickHouseRange, MentionsDateTime, Day
<1>2. CASE type \in MentionsDateTime
  <2>1. ClickHouseRange(type) = [lo |-> 0, hi |-> 1193046]
    BY <1>2 DEF ClickHouseRange, MentionsDateTime
  <2> QED
    BY <2>1
<1>3. CASE type = "Date32"
  BY <1>3 DEF ClickHouseRange, MentionsDateTime, Day
<1>4. CASE type = "DateTime64"
  BY <1>4 DEF ClickHouseRange, MentionsDateTime, Day
<1> QED
  BY <1>1, <1>2, <1>3, <1>4 DEF ClickHouseTimes

\* A text of ClickHouse is the point in time itself when ClickHouse has it.
LEMMA TextFits ==
  ASSUME NEW n \in Int, NEW type \in ClickHouseTimes,
         Inside(n, ClickHouseRange(type).lo, ClickHouseRange(type).hi)
  PROVE  saturateDateTime(n, ClickHouseRange(type)) = n
BY RangesAre DEF saturateDateTime, Inside

\* A value of the column arrives unchanged where YDB has it; a point in time it has not becomes NULL or text.
LEMMA ConvertsExactly ==
  ASSUME Ready, NEW v \in Values(column), v # Null
  PROVE  /\ Representable(v[1]) => Converted(v) = v
         /\ ~Representable(v[1]) => Converted(v) = Null \/ schema.id = "UTF8"
         /\ Converted(v) = Null => transformer.in = "time" /\ schema.optional
<1> DEFINE c == column
           id == schema.id
<1>0. PICK n \in Int : /\ v = <<n>>
                       /\ transformer.in = "time" /\ c.type \in {"date", "Date", "Date32"} => n % Day = 0
                       /\ transformer.in = "time" /\ c.kind = "ydb" =>
                            Inside(n, MinYDBTime, MaxYDBTime) /\ (c.type = "DATE" => n % Day = 0)
  BY ValuesAre
<1>1. v[1] = n /\ <<n>> # Null /\ Converted(v) = Convert(column, transformer, n)
  BY <1>0 DEF Converted, Null
<1>2. CASE transformer.in # "time"
  <2>1. Convert(column, transformer, n) = <<n>>
    BY <1>2, SMT DEF Convert
  <2>2. Representable(n)
    BY <1>2, SMT DEF Representable
  <2> QED
    BY <1>0, <1>1, <2>1, <2>2
<1>3. CASE transformer.in = "time" /\ id # "UTF8"
  <2>1. id \in TimeIds /\ transformer.out = TimeOut(id)
    BY <1>3, ReadyAgrees
  <2>2. TimeOut(id) # "String"
    BY <2>1, Zenon DEF TimeOut, TimeIds
  <2>3. Convert(column, transformer, n) = TimeToYDB(TimeOut(id), n)
    BY <1>3, <2>1, <2>2, SMT DEF Convert
  <2>4. Representable(n) <=> Inside(n, MinYDBTime, MaxYDBTime)
    BY <1>3, SMT DEF Representable
  <2>5. Agree(c, id, transformer)
    BY ReadyAgrees
  <2>6. id = "DATE" => n % Day = 0
    BY <1>0, <1>3, <2>5 DEF Agree
  <2>7. ~Inside(n, MinYDBTime, MaxYDBTime) => schema.optional
    <3>1. c.kind = "clickhouse" => c.type \in ClickHouseTimes /\ format = "YQL"
      BY <1>3, <2>5, Zenon DEF Agree
    <3> QED
      BY <1>0, <1>3, <3>1 DEF Ready, Optional
  <2> QED
    BY <1>0, <1>1, <1>3, <2>1, <2>3, <2>4, <2>6, <2>7, TimesFit
<1>4. CASE transformer.in = "time" /\ id = "UTF8"
  <2>1. transformer.out = "String"
    BY <1>4, ReadyAgrees DEF TimeOut
  <2>2. CASE c.kind = "clickhouse"
    <3>1. Convert(column, transformer, n) = <<saturateDateTime(n, ClickHouseRange(c.type))>>
      BY <1>4, <2>1, <2>2 DEF Convert
    <3>2. Representable(n) <=> Inside(n, ClickHouseRange(c.type).lo, ClickHouseRange(c.type).hi)
      BY <1>4, <2>2, Zenon DEF Representable
    <3>3. c.type \in ClickHouseTimes
      BY <1>4, <2>2, ReadyAgrees, Zenon DEF Agree
    <3>4. Representable(n) => saturateDateTime(n, ClickHouseRange(c.type)) = n
      BY <3>2, <3>3, TextFits
    <3>5. Convert(column, transformer, n) # Null
      BY <3>1 DEF Null
    <3> QED
      BY <1>0, <1>1, <1>4, <3>1, <3>4, <3>5
  <2>3. CASE c.kind # "clickhouse"
    <3>1. Convert(column, transformer, n) = <<n>>
      BY <1>4, <2>1, <2>3 DEF Convert
    <3>2. Representable(n)
      BY <1>4, <2>3, Zenon DEF Representable
    <3> QED
      BY <1>0, <1>1, <3>1, <3>2
  <2> QED
    BY <2>2, <2>3
<1> QED
  BY <1>2, <1>3, <1>4

\* A value is converted to NULL or to a number.
LEMMA ConvertedHeld ==
  ASSUME Ready, NEW v \in Values(column)
  PROVE  Converted(v) \in Held
<1>1. CASE v = Null
  BY <1>1 DEF Converted, Held
<1>2. CASE v # Null
  <2>1. PICK n \in Int : v = <<n>>
    BY <1>2, ValuesAre
  <2>2. v \in Held /\ Null \in Held
    BY <2>1 DEF Held
  <2>3. CASE Representable(v[1]) \/ Converted(v) = Null
    BY <1>2, <2>2, <2>3, ConvertsExactly
  <2>4. CASE ~Representable(v[1]) /\ Converted(v) # Null
    <3>1. schema.id = "UTF8" /\ transformer.in = "time" /\ column.kind = "clickhouse"
      BY <1>2, <2>4, ConvertsExactly DEF Representable
    <3>2. transformer.out = "String"
      BY <3>1, ReadyAgrees DEF TimeOut
    <3>3. Converted(v) = <<saturateDateTime(n, ClickHouseRange(column.type))>>
      BY <1>2, <2>1, <3>1, <3>2 DEF Converted, Convert
    <3>4. column.type \in ClickHouseTimes
      BY <3>1, ReadyAgrees, Zenon DEF Agree
    <3>5. saturateDateTime(n, ClickHouseRange(column.type)) \in Int
      BY <3>4, RangesAre DEF saturateDateTime
    <3> QED
      BY <3>3, <3>5 DEF Held
  <2> QED
    BY <2>3, <2>4
<1> QED
  BY <1>1, <1>2

IsText == transformer.in \in {"string", "[]byte"} /\ column.type # "uuid"
FixedSize == sizeOfValueBloated(Null).size

\* How the size of a variable is known depends on its type alone, and so does the size of
\* one that is not a text.
LEMMA SizesAre ==
  ASSUME Ready, NEW v
  PROVE  /\ IsText => sizeOfValueBloated(v) = [kind |-> "variable", size |-> IF v = Null THEN 0 ELSE v[1]]
         /\ ~IsText => /\ sizeOfValueBloated(v) = [kind |-> "fixed", size |-> FixedSize]
                       /\ FixedSize \in Nat /\ FixedSize > 0
<1>0. transformer.in \in GoTypes /\ (column.type = "uuid" => transformer.in = "[]byte")
  BY ReadyAgrees DEF Agree
<1> USE DEF sizeOfValueBloated, IsText, FixedSize
<1>1. CASE transformer.in \in {"bool", "int8", "uint8"}
  BY <1>0, <1>1
<1>2. CASE transformer.in \in {"int16", "uint16"}
  BY <1>0, <1>2
<1>3. CASE transformer.in \in {"int32", "uint32", "float32"}
  BY <1>0, <1>3
<1>4. CASE transformer.in \in {"int64", "uint64", "float64"}
  BY <1>0, <1>4
<1>5. CASE transformer.in = "time"
  BY <1>0, <1>5
<1>6. CASE transformer.in = "[]byte" /\ column.type = "uuid"
  BY <1>0, <1>6
<1>7. CASE transformer.in \in {"string", "[]byte"} /\ column.type # "uuid"
  BY <1>0, <1>7
<1> QED
  BY <1>0, <1>1, <1>2, <1>3, <1>4, <1>5, <1>6, <1>7, Zenon DEF GoTypes

\* A cell holds its row's value, and the page was charged for that.
Exact(c) ==
  /\ c.row = Null => c.cell = Null
  /\ c.row # Null /\ Representable(c.row[1]) => c.cell = c.row
  /\ c.row # Null /\ ~Representable(c.row[1]) => c.cell = Null \/ schema.id = "UTF8"
  /\ c.cell = Null => schema.optional
  /\ IsText => c.size = IF c.row = Null THEN 0 ELSE c.row[1]
  /\ ~IsText => c.size = FixedSize

\* The row was scanned: the variable holds it, or, of a NULL of ClickHouse, what the row
\* before has left there, which cannot be told from NULL.
Scanned ==
  /\ row \in Values(column)
  /\ acceptor = row \/ (row = Null /\ Converted(acceptor) = Null /\ transformer.in = "time")

Stages == {"describe", "left out", "refused", "transform", "read", "append", "record", "error", "panic"}

ColumnsInv ==
  /\ column \in Columns /\ pc \in Stages
  /\ pc \in {"describe", "transform"} => cells = <<>> /\ acceptor = Null /\ pattern = NoPattern
  /\ pc = "transform" => /\ schema.id = ToYDB(column) /\ Supported(schema.id)
                         /\ schema.optional <=> Optional(column)
  /\ pc \in {"left out", "refused"} => cells = <<>>
  /\ pc \in Stages \ {"describe", "left out", "refused", "transform"} => Ready
  /\ pc \in {"read", "append"} => pattern = NoPattern \/ \E v : pattern = sizeOfValueBloated(v)
  /\ pc = "read" /\ column.kind = "clickhouse" /\ column.nullable =>
       acceptor = Null \/ (Converted(acceptor) = Null /\ transformer.in = "time")
  /\ pc = "append" => Scanned
  /\ pc \in {"error", "panic"} => KnownUnreadable
  /\ cells \in Seq([row : Held, cell : Held, size : Int])
  /\ \A i \in 1 .. Len(cells) : Exact(cells[i])

\* What a cell is made of.
LEMMA CellIs ==
  ASSUME Ready, Scanned
  PROVE  LET made == [row |-> row, cell |-> Converted(acceptor),
                      size |-> IF IsText THEN IF acceptor = Null THEN 0 ELSE acceptor[1] ELSE FixedSize]
         IN made \in [row : Held, cell : Held, size : Int] /\ Exact(made)
<1> DEFINE size == IF IsText THEN IF acceptor = Null THEN 0 ELSE acceptor[1] ELSE FixedSize
           made == [row |-> row, cell |-> Converted(acceptor), size |-> size]
<1>1. CASE row = Null
  <2>1. column.nullable
    BY <1>1, ValuesAre DEF Scanned, Null
  <2>2. schema.optional
    BY <2>1 DEF Ready, Optional
  <2>3. Converted(acceptor) = Null
    BY <1>1 DEF Scanned, Converted
  <2>4. IsText => size = 0
    BY <1>1 DEF Scanned, IsText
  <2>5. size \in Int /\ (~IsText => size = FixedSize)
    BY <2>4, SizesAre
  <2>6. made.row = Null /\ made.cell = Null /\ made.size = size
    BY <1>1, <2>3
  <2>7. made \in [row : Held, cell : Held, size : Int]
    BY <1>1, <2>3, <2>5 DEF Held
  <2>8. Exact(made)
    BY <2>2, <2>4, <2>5, <2>6 DEF Exact
  <2> QED
    BY <2>7, <2>8
<1>2. CASE row # Null
  <2>1. acceptor = row /\ row \in Values(column)
    BY <1>2 DEF Scanned
  <2>2. PICK n \in Int : row = <<n>>
    BY <1>2, <2>1, ValuesAre
  <2>3. row \in Held /\ row[1] \in Int
    BY <2>2 DEF Held
  <2>4. /\ Representable(row[1]) => Converted(row) = row
        /\ ~Representable(row[1]) => Converted(row) = Null \/ schema.id = "UTF8"
        /\ Converted(row) = Null => schema.optional
    BY <1>2, <2>1, ConvertsExactly
  <2>5. Converted(row) \in Held
    BY <1>2, <2>1, ConvertedHeld
  <2>6. /\ size \in Int
        /\ IsText => size = row[1]
        /\ ~IsText => size = FixedSize
    BY <1>2, <2>1, <2>3, SizesAre
  <2>7. made.row = row /\ made.cell = Converted(row) /\ made.size = size
    BY <2>1
  <2>8. made \in [row : Held, cell : Held, size : Int]
    BY <2>1, <2>3, <2>5, <2>6
  <2>9. Exact(made)
    BY <1>2, <2>4, <2>6, <2>7 DEF Exact
  <2> QED
    BY <2>8, <2>9
<1> QED
  BY <1>1, <1>2

\* What a page is charged for the variable, with the pattern of any row.
LEMMA EstimateIs ==
  ASSUME Ready, NEW v, NEW w
  PROVE  /\ sizeOfValueBloated(v).kind # "unknown"
         /\ Estimate(sizeOfValueBloated(v), w) = IF IsText THEN IF w = Null THEN 0 ELSE w[1] ELSE FixedSize
<1>1. CASE IsText
  <2>1. sizeOfValueBloated(v).kind = "variable" /\ sizeOfValueBloated(w).size = IF w = Null THEN 0 ELSE w[1]
    BY <1>1, SizesAre
  <2> QED
    BY <1>1, <2>1 DEF Estimate
<1>2. CASE ~IsText
  <2>1. sizeOfValueBloated(v).kind = "fixed" /\ sizeOfValueBloated(v).size = FixedSize
    BY <1>2, SizesAre
  <2> QED
    BY <1>2, <2>1 DEF Estimate
<1> QED
  BY <1>1, <1>2

\* AppendRow appends the cell.
LEMMA AppendRowAppends ==
  ASSUME Ready, Scanned, pattern = NoPattern \/ \E v : pattern = sizeOfValueBloated(v), AppendRow
  PROVE  /\ pc' = "read"
         /\ \E v : pattern' = sizeOfValueBloated(v)
         /\ acceptor' = Reset(Converted(acceptor))
         /\ cells' = Append(cells, [row |-> row, cell |-> Converted(acceptor),
                                    size |-> IF IsText THEN IF acceptor = Null THEN 0 ELSE acceptor[1]
                                             ELSE FixedSize])
<1>1. PICK v : pattern' = sizeOfValueBloated(v)
  BY DEF AppendRow
<1>2. pattern'.kind # "unknown"
  BY <1>1, EstimateIs
<1>3. Estimate(pattern', acceptor) = IF IsText THEN IF acceptor = Null THEN 0 ELSE acceptor[1] ELSE FixedSize
  BY <1>1, EstimateIs
<1>4. transformer.out = ydbTypeIdToArrowBuilder(schema.id)
  BY ReadyAgrees
<1>5. /\ cells' = Append(cells, [row |-> row, cell |-> Converted(acceptor), size |-> Estimate(pattern', acceptor)])
      /\ acceptor' = Reset(Converted(acceptor))
      /\ pc' = "read"
  BY <1>2, <1>4 DEF AppendRow, Converted
<1> QED
  BY <1>1, <1>3, <1>5

\* The type of the column, while neither the column nor the format of dates changes.
LEMMA ToYDBStays ==
  ASSUME UNCHANGED <<column, format>>
  PROVE  ToYDB(column)' = ToYDB(column)
<1>1. column' = column /\ format' = format
  OBVIOUS
<1>2. MakeYdbDateTimeType("DATE")' = MakeYdbDateTimeType("DATE")
  BY <1>1 DEF MakeYdbDateTimeType
<1>3. MakeYdbDateTimeType("TIMESTAMP")' = MakeYdbDateTimeType("TIMESTAMP")
  BY <1>1 DEF MakeYdbDateTimeType
<1>4. MakeYdbDateTimeType("DATETIME")' = MakeYdbDateTimeType("DATETIME")
  BY <1>1 DEF MakeYdbDateTimeType
<1>5. MySQLToYDB(column)' = MySQLToYDB(column)
  BY <1>1, <1>2, <1>3 DEF MySQLToYDB
<1>6. PostgreSQLToYDB(column)' = PostgreSQLToYDB(column)
  BY <1>1, <1>2, <1>3, Zenon DEF PostgreSQLToYDB
<1>7. OracleToYDB(column)' = OracleToYDB(column)
  BY <1>1, <1>3, <1>4, Zenon DEF OracleToYDB
<1>8. MsSQLServerToYDB(column)' = MsSQLServerToYDB(column)
  BY <1>1, <1>2, <1>3, <1>4, Zenon DEF MsSQLServerToYDB
<1>9. ClickHouseToYDB(column)' = ClickHouseToYDB(column)
  BY <1>1, <1>2, <1>3, <1>4, Zenon DEF ClickHouseToYDB
<1>10. YdbToYDB(column)' = YdbToYDB(column)
  BY <1>1, Zenon DEF YdbToYDB
<1> QED
  BY <1>1, <1>5, <1>6, <1>7, <1>8, <1>9, <1>10 DEF ToYDB

\* Whether it is optional.
LEMMA OptionalStays ==
  ASSUME UNCHANGED <<column, format>>
  PROVE  Optional(column)' <=> Optional(column)
BY DEF Optional

\* The transformer of the column.
LEMMA TransformerStays ==
  ASSUME UNCHANGED <<column, schema>>
  PROVE  TransformerOf(column, schema.id)' = TransformerOf(column, schema.id)
OBVIOUS

\* What the column can hold.
LEMMA ValuesStay ==
  ASSUME UNCHANGED <<column, transformer>>
  PROVE  Values(column)' = Values(column)
BY DEF Values

\* The size of a value.
LEMMA SizesStay ==
  ASSUME UNCHANGED <<column, transformer>>, NEW v
  PROVE  sizeOfValueBloated(v)' = sizeOfValueBloated(v)
BY DEF sizeOfValueBloated

\* What the variable is converted to.
LEMMA ConvertedStays ==
  ASSUME UNCHANGED <<column, transformer, acceptor>>
  PROVE  Converted(acceptor)' = Converted(acceptor)
BY DEF Converted, Convert

\* A column that is ready to be read stays so.
LEMMA ReadyStays ==
  ASSUME UNCHANGED <<column, format, schema, transformer>>, Ready
  PROVE  Ready'
<1>1. ToYDB(column)' = ToYDB(column) /\ (Optional(column)' <=> Optional(column))
  BY ToYDBStays, OptionalStays
<1> QED
  BY <1>1 DEF Ready, Supported

\* Cells stay exact when the column stays the same.
LEMMA ExactStays ==
  ASSUME UNCHANGED <<column, format, schema, transformer>>, \A i \in 1 .. Len(cells') : Exact(cells'[i])
  PROVE  (\A i \in 1 .. Len(cells) : Exact(cells[i]))'
<1>1. FixedSize' = FixedSize /\ (IsText' <=> IsText)
  BY DEF FixedSize, sizeOfValueBloated, IsText
<1> QED
  BY <1>1 DEF Exact, Representable

\* The outcomes of a scan.
LEMMA ScanResults ==
  ASSUME NEW c, NEW t, NEW v
  PROVE  Scan(c, t, v) \in {"ok", "error", "panic"}
<1>1. OracleScan(c, t, v) \in {"ok", "error", "panic"}
  BY Zenon DEF OracleScan
<1>2. DriverScan(c, t, v) \in {"ok", "error", "panic"}
  BY DEF DriverScan
<1>3. MySQLScan(c, t, v) \in {"ok", "error", "panic"}
  BY DEF MySQLScan
<1> QED
  BY <1>1, <1>2, <1>3 DEF Scan

\* A step that changes nothing keeps the invariant.
LEMMA SameColumn ==
  ASSUME ColumnsInv,
         UNCHANGED <<column, format, schema, transformer, acceptor, row, pattern, cells, pc>>
  PROVE  ColumnsInv'
<1>1. (\A i \in 1 .. Len(cells) : Exact(cells[i]))'
  BY ExactStays DEF ColumnsInv
<1>2. Ready => Ready'
  BY ReadyStays
<1>3. Values(column)' = Values(column) /\ Converted(acceptor)' = Converted(acceptor)
  BY ValuesStay, ConvertedStays
<1>4. Scanned => Scanned'
  BY <1>3 DEF Scanned
<1>5. ToYDB(column)' = ToYDB(column) /\ (Optional(column)' <=> Optional(column))
  BY ToYDBStays, OptionalStays
<1>6. (\E v : pattern = sizeOfValueBloated(v)) => (\E v : pattern = sizeOfValueBloated(v))'
  BY SizesStay
<1>7. KnownUnreadable => KnownUnreadable'
  BY DEF KnownUnreadable
<1>8. Supported(schema.id) => Supported(schema.id)'
  BY DEF Supported
<1> QED
  BY <1>1, <1>2, <1>3, <1>4, <1>5, <1>6, <1>7, <1>8 DEF ColumnsInv

\* The inductive invariant: the transformer is the one of the described type, the scanned variable holds
\* its row, and every cell so far is exact.
THEOREM ColumnsInvariant == Spec => []ColumnsInv
<1>1. Init => ColumnsInv
  BY DEF Init, ColumnsInv, Stages
<1>2. ColumnsInv /\ [Next]_vars => ColumnsInv'
  <2> SUFFICES ASSUME ColumnsInv, [Next]_vars PROVE ColumnsInv'
    OBVIOUS
  <2>1. CASE GetSchema
    <3>1. UNCHANGED <<column, format, transformer, acceptor, row, pattern, cells>> /\ pc = "describe"
      BY <2>1 DEF GetSchema
    <3>2. cells = <<>> /\ acceptor = Null /\ pattern = NoPattern /\ column \in Columns
      BY <3>1 DEF ColumnsInv
    <3>3. \/ pc' \in {"left out", "refused"}
          \/ /\ pc' = "transform" /\ Supported(ToYDB(column))
             /\ schema' = [id |-> ToYDB(column), optional |-> Optional(column)]
      BY <2>1 DEF GetSchema, Supported
    <3>6. cells' \in Seq([row : Held, cell : Held, size : Int]) /\ (\A i \in 1 .. Len(cells) : Exact(cells[i]))'
      BY <3>1, <3>2
    <3>4. CASE pc' \in {"left out", "refused"}
      BY <3>1, <3>2, <3>4, <3>6 DEF ColumnsInv, Stages
    <3>5. CASE pc' = "transform"
      <4>1. ToYDB(column)' = ToYDB(column) /\ (Optional(column)' <=> Optional(column))
        BY <3>1, ToYDBStays, OptionalStays
      <4>2. Supported(ToYDB(column)) /\ schema' = [id |-> ToYDB(column), optional |-> Optional(column)]
        BY <3>3, <3>5, Zenon
      <4>3. schema'.id = ToYDB(column) /\ schema'.optional = Optional(column)
        BY <4>2, Zenon
      <4>4. Supported(schema.id)'
        BY <4>2, <4>3 DEF Supported
      <4> QED
        BY <3>1, <3>2, <3>5, <3>6, <4>1, <4>3, <4>4 DEF ColumnsInv, Stages
    <3> QED
      BY <3>3, <3>4, <3>5
  <2>2. CASE MakeTransformer
    <3>1. /\ pc = "transform" /\ UNCHANGED <<column, format, schema, acceptor, row, pattern, cells>>
          /\ transformer' = TransformerOf(column, schema.id)
          /\ pc' = IF transformer'.in = "none" THEN "no transformer" ELSE "read"
      BY <2>2 DEF MakeTransformer
    <3>2. /\ cells = <<>> /\ acceptor = Null /\ pattern = NoPattern /\ column \in Columns
          /\ schema.id = ToYDB(column) /\ (schema.optional <=> Optional(column)) /\ Supported(schema.id)
      BY <3>1 DEF ColumnsInv
    <3>4. /\ ToYDB(column)' = ToYDB(column) /\ (Optional(column)' <=> Optional(column))
          /\ TransformerOf(column, schema.id)' = TransformerOf(column, schema.id)
      BY <3>1, ToYDBStays, OptionalStays
    <3>5. Ready'
      BY <3>1, <3>2, <3>4 DEF Ready, Supported
    <3>6. transformer'.in # "none"
      <4>1. Agree(column, schema.id, transformer')
        BY <3>1, <3>2, TablesAgree
      <4> QED
        BY <4>1 DEF Agree, Shapes
    <3> QED
      BY <3>1, <3>2, <3>5, <3>6 DEF ColumnsInv, Stages
  <2>3. CASE ScanRow
    <3>1. pc = "read" /\ UNCHANGED <<column, format, schema, transformer, pattern, cells>>
      BY <2>3 DEF ScanRow
    <3>2. Ready
      BY <3>1 DEF ColumnsInv, Stages
    <3>3. PICK v \in Values(column) :
            /\ row' = v
            /\ pc' = IF Scan(column, transformer, v) = "ok" THEN "append" ELSE Scan(column, transformer, v)
            /\ \/ acceptor' = IF Scan(column, transformer, v) = "ok" THEN v ELSE acceptor
               \/ column.kind = "clickhouse" /\ v = Null /\ acceptor' = acceptor
      BY <2>3 DEF ScanRow
    <3>6. (\A i \in 1 .. Len(cells) : Exact(cells[i]))' /\ cells' \in Seq([row : Held, cell : Held, size : Int])
      BY <3>1, ExactStays DEF ColumnsInv
    <3>7. (pattern = NoPattern \/ \E w : pattern = sizeOfValueBloated(w))'
      BY <3>1, SizesStay DEF ColumnsInv
    <3>4. CASE Scan(column, transformer, v) = "ok"
      <4>1. v = Null => column.nullable
        BY ValuesAre DEF Null
      <4>2. pc' = "append" /\ v \in Values(column)'
        BY <3>1, <3>3, <3>4, ValuesStay
      <4>3. \/ acceptor' = v
            \/ v = Null /\ Converted(acceptor) = Null /\ transformer.in = "time" /\ acceptor' = acceptor
        BY <3>1, <3>3, <3>4, <4>1 DEF ColumnsInv
      <4>4. Scanned'
        BY <3>1, <3>3, <4>2, <4>3, ConvertedStays DEF Scanned
      <4> QED
        BY <3>1, <3>2, <3>6, <3>7, <4>2, <4>4, ReadyStays DEF ColumnsInv, Stages
    <3>5. CASE Scan(column, transformer, v) # "ok"
      <4>1. pc' \in {"error", "panic"}
        BY <3>3, <3>5, ScanResults
      <4>2. KnownBad(column, v)
        BY <3>2, <3>5, ScansAre DEF Ready
      <4>3. KnownUnreadable'
        BY <3>1, <3>3, <4>2 DEF KnownBad, BadFlags, KnownUnreadable
      <4> QED
        BY <3>1, <3>2, <3>6, <4>1, <4>3, ReadyStays DEF ColumnsInv, Stages
    <3> QED
      BY <3>4, <3>5
  <2>4. CASE AppendRow
    <3>1. pc = "append" /\ UNCHANGED <<column, format, schema, transformer, row>>
      BY <2>4 DEF AppendRow
    <3>2. Ready /\ Scanned /\ (pattern = NoPattern \/ \E v : pattern = sizeOfValueBloated(v))
      BY <3>1 DEF ColumnsInv, Stages
    <3> DEFINE made == [row |-> row, cell |-> Converted(acceptor),
                        size |-> IF IsText THEN IF acceptor = Null THEN 0 ELSE acceptor[1] ELSE FixedSize]
    <3>3. /\ pc' = "read" /\ acceptor' = Reset(Converted(acceptor))
          /\ \E v : pattern' = sizeOfValueBloated(v)
          /\ cells' = Append(cells, made)
      BY <2>4, <3>2, AppendRowAppends
    <3>4. made \in [row : Held, cell : Held, size : Int] /\ Exact(made)
      BY <3>2, CellIs
    <3> HIDE DEF made
    <3>5. /\ cells \in Seq([row : Held, cell : Held, size : Int])
          /\ \A i \in 1 .. Len(cells) : Exact(cells[i])
      BY DEF ColumnsInv
    <3>6. /\ cells' \in Seq([row : Held, cell : Held, size : Int])
          /\ \A i \in 1 .. Len(cells') : Exact(cells'[i])
      <4>1. \A i \in 1 .. Len(cells') : (i \in 1 .. Len(cells) /\ cells'[i] = cells[i]) \/ cells'[i] = made
        BY <3>3, <3>4, <3>5
      <4> QED
        BY <3>3, <3>4, <3>5, <4>1
    <3>7. \A i \in 1 .. Len(cells') : Exact(cells[i])'
      BY <3>1, <3>6, ExactStays
    <3>8. (column.kind = "clickhouse" /\ column.nullable =>
             acceptor = Null \/ (Converted(acceptor) = Null /\ transformer.in = "time"))'
      <4>1. CASE column.kind = "clickhouse" /\ column.nullable /\ acceptor' # Null
        <5>1. transformer.resets
          BY <3>2, <4>1, ReadyAgrees DEF Agree
        <5>2. Converted(acceptor) = Null /\ acceptor' = acceptor
          BY <3>3, <4>1, <5>1 DEF Reset
        <5>3. transformer.in = "time"
          BY <3>2, <4>1, <5>2, ConvertsExactly DEF Scanned
        <5> QED
          BY <3>1, <5>2, <5>3, ConvertedStays
      <4>2. CASE ~(column.kind = "clickhouse" /\ column.nullable /\ acceptor' # Null)
        BY <3>1, <4>2
      <4> QED
        BY <4>1, <4>2
    <3>9. (\E v : pattern = sizeOfValueBloated(v))'
      BY <3>1, <3>3, SizesStay
    <3> QED
      BY <3>1, <3>2, <3>3, <3>6, <3>7, <3>8, <3>9, ReadyStays DEF ColumnsInv, Stages
  <2>5. CASE MakeRecord
    <3>1. pc = "read" /\ UNCHANGED <<column, format, schema, transformer, acceptor, row, pattern, cells>>
      BY <2>5 DEF MakeRecord
    <3>2. Ready
      BY <3>1 DEF ColumnsInv, Stages
    <3>3. pc' = "record"
      BY <2>5, <3>2, ReadyAgrees DEF MakeRecord
    <3>4. (\A i \in 1 .. Len(cells) : Exact(cells[i]))'
      BY <3>1, ExactStays DEF ColumnsInv
    <3> QED
      BY <3>1, <3>2, <3>3, <3>4, ReadyStays DEF ColumnsInv, Stages
  <2>6. CASE UNCHANGED vars
    <3>1. UNCHANGED <<column, format, schema, transformer, acceptor, row, pattern, cells, pc>>
      BY <2>6 DEF vars
    <3> QED
      BY <3>1, SameColumn
  <2> QED
    BY <2>1, <2>2, <2>3, <2>4, <2>5, <2>6 DEF Next
<1> QED
  BY <1>1, <1>2, PTL DEF Spec

\* For every column of the six sources and both formats of dates: a type that describe_table reports is one
\* that read_splits can read, into the Go variable, the builder and the record field of that very type
\* (the switches of the type mappers, ydbTypeIdToArrowBuilder and ydbTypeToArrowField).
THEOREM ColumnsAreReadable == Spec => []SchemaIsReadable
<1>1. ColumnsInv => SchemaIsReadable
  BY DEF ColumnsInv, SchemaIsReadable, Stages
<1> QED
  BY <1>1, ColumnsInvariant, PTL

\* For any number of rows of any such column: every cell holds the value of its row, or NULL where YDB has no
\* such point in time, whatever the rows before have left in the reused variable, and the page is charged the
\* size of that value (scanToDest, appendToBuilder and its converters, sizeOfValueBloated and the size patterns).
THEOREM CellsAreCopied == Spec => []CellsAreExact
<1>1. ColumnsInv => CellsAreExact
  <2> SUFFICES ASSUME ColumnsInv, NEW i \in DOMAIN cells PROVE CellsAreExact!(i)
    BY DEF CellsAreExact
  <2>1. cells \in Seq([row : Held, cell : Held, size : Int]) /\ \A j \in 1 .. Len(cells) : Exact(cells[j])
    BY DEF ColumnsInv
  <2>2. i \in 1 .. Len(cells) /\ 1 \in 1 .. Len(cells)
    BY <2>1
  <2>0. cells # <<>>
    BY <2>2
  <2>3. Ready
    BY <2>0 DEF ColumnsInv
  <2>4. Exact(cells[i]) /\ Exact(cells[1])
    BY <2>1, <2>2
  <2> QED
    BY <2>3, <2>4, SizesAre DEF Exact, IsText
<1> QED
  BY <1>1, ColumnsInvariant, PTL
-----------------------------------------------------------------------------
(* The configuration *)

\* What a section has to be for a source whose section is fully validated.
Good(name, s) ==
  /\ name # "redis" => s.open = "5s"
  /\ name \notin Relational => s.backoff = "good"
  /\ name \in PingTimeout \ Relational => s.ping = "5s"
  /\ name \in Relational \cup {"ydb", "logging"} => s.pushdown # "nil"

Sourced == SourceNames \cup {"logging"}
Usable(c) == \A n \in Sourced : Good(n, SectionOf(c, n))

\* The defaults have been filled in.
Filled(c) ==
  /\ \A n \in SourceNames : c.sources[n] = FillSource(n, given.sources[n])
  /\ c.logging = FillLogging(given.logging)
  /\ c.connector = given.connector /\ c.pprof = given.pprof
  /\ c.readLimit = given.readLimit /\ c.observation = given.observation
  /\ c.paging = IF given.paging = "nil" THEN "bytes" ELSE given.paging

FilledType ==
  [connector : {Nil} \cup ServerType, paging : Pagings,
   readLimit : {"nil", "rows", "zero rows"}, pprof : {Nil} \cup ServerType, metrics : MetricsType,
   sources : [SourceNames -> SectionType],
   logging : [ydb : SectionType, resolving : Resolvings],
   observation : {Nil} \cup StorageType]

\* The inductive invariant.
ConfigInv ==
  /\ given \in ConfigType
  /\ loading \in {"parse", "default", "fill", "validate", "flags", "launch", "serve", "served",
                  "refused", "bad flag", "crashed"}
  /\ loading = "parse" => formats \subseteq untried
  /\ loading = "default" => given = NewDefaultConfig
  /\ loading = "fill" => cfg = given
  /\ loading = "validate" => ~fillPanics(given) /\ Filled(cfg)
  /\ loading \in {"validate", "flags", "launch", "serve"} => cfg \in FilledType
  /\ loading \in {"flags", "launch", "serve"} => Usable(cfg)
  /\ ConfigIsUsable

\* The fields of a section whose defaults were filled in.
LEMMA YdbFilled ==
  ASSUME NEW s \in SectionType, NEW f, f = fillYdbConfigDefaults(s)
  PROVE  /\ f \in SectionType
         /\ f.open = IF s.open = "unset" THEN "5s" ELSE s.open
         /\ f.ping = IF s.ping = "unset" THEN "5s" ELSE s.ping
         /\ f.backoff = IF s.backoff = "nil" THEN "good" ELSE s.backoff
         /\ f.pushdown = IF s.pushdown = "nil" THEN "off" ELSE s.pushdown
         /\ f.iam = IF s.iam = "no endpoint" THEN "good" ELSE s.iam
<1>1. /\ f.open = IF s.open = "unset" THEN "5s" ELSE s.open
      /\ f.ping = IF s.ping = "unset" THEN "5s" ELSE s.ping
      /\ f.backoff = IF s.backoff = "nil" THEN "good" ELSE s.backoff
      /\ f.pushdown = IF s.pushdown = "nil" THEN "off" ELSE s.pushdown
      /\ f.iam = IF s.iam = "no endpoint" THEN "good" ELSE s.iam
      /\ f.count = s.count
  BY DEF fillYdbConfigDefaults, Section, makeDefaultExponentialBackoffConfig, makeDefaultPushdownConfig
<1>2. f = Section(f.open, f.ping, f.backoff, f.pushdown, f.count, f.iam)
  BY DEF fillYdbConfigDefaults, Section
<1>3. f.open \in Durations /\ f.ping \in Durations /\ f.count \in Nat
  BY <1>1 DEF SectionType, Durations
<1>4. /\ f.backoff \in {"nil", "good", "bad duration", "zero multiplier"}
      /\ f.pushdown \in {"nil", "off", "on"}
      /\ f.iam \in {"no key", "no endpoint", "bad endpoint", "good"}
  BY <1>1 DEF SectionType
<1>5. f \in SectionType
  BY <1>2, <1>3, <1>4 DEF Section, SectionType
<1> QED
  BY <1>1, <1>5

\* What the defaults leave of a section that the file has, and what they add.
LEMMA SourceFilled ==
  ASSUME NEW n \in SourceNames \ {"ydb"}, NEW s \in SectionType, NEW f, f = FillSection(n, s)
  PROVE  /\ f \in SectionType
         /\ f.open = s.open /\ f.ping = s.ping /\ f.count = s.count
         /\ f.backoff = IF s.backoff = "nil" THEN "good" ELSE s.backoff
         /\ f.pushdown = IF s.pushdown = "nil" /\ n \in Relational THEN "off" ELSE s.pushdown
  BY DEF FillSection, SectionType, makeDefaultExponentialBackoffConfig, makeDefaultPushdownConfig

\* The default sections have the type of a section.
LEMMA Defaults ==
  /\ EmptyYdb \in SectionType
  /\ \A n \in SourceNames : DefaultSection(n) \in SectionType
<1>1. EmptyYdb \in SectionType
  BY DEF EmptyYdb, Section, SectionType, Durations
<1>2. ASSUME NEW n \in SourceNames PROVE DefaultSection(n) \in SectionType
  BY DEF DefaultSection, Section, SectionType, Durations
<1> QED
  BY <1>1, <1>2

\* The pushdown is never checked for YDB, and is always filled in.
LEMMA PushdownFilled ==
  ASSUME NEW n \in SourceNames, NEW s \in {Nil} \cup SectionType
  PROVE  /\ FillSource(n, s) \in SectionType
         /\ n \in Relational \cup {"ydb"} => FillSource(n, s).pushdown # "nil"
<1>1. CASE n = "ydb"
  <2>1. PICK t \in SectionType : FillSource(n, s) = fillYdbConfigDefaults(t)
    BY <1>1, Defaults DEF FillSource
  <2> QED
    BY <2>1, YdbFilled
<1>2. CASE n # "ydb"
  <2>1. PICK t \in SectionType : FillSource(n, s) = FillSection(n, t)
    BY <1>2, Defaults DEF FillSource
  <2>2. PICK f : f = FillSource(n, s)
    OBVIOUS
  <2>3. /\ f \in SectionType
        /\ f.pushdown = IF t.pushdown = "nil" /\ n \in Relational THEN "off" ELSE t.pushdown
    BY <2>1, <2>2, <1>2, SourceFilled
  <2> QED
    BY <2>2, <2>3, <1>2
<1> QED
  BY <1>1, <1>2

\* The logging section gets a resolving and a section of YDB with its pushdown.
LEMMA LoggingFilled ==
  ASSUME NEW l \in {Nil} \cup LoggingType, l # Nil => l.ydb # Nil
  PROVE  /\ FillLogging(l) \in [ydb : SectionType, resolving : Resolvings]
         /\ FillLogging(l).ydb.pushdown # "nil"
<1>1. PICK t \in SectionType : FillLogging(l).ydb = fillYdbConfigDefaults(t)
  <2>1. CASE l = Nil
    BY <2>1, Defaults DEF FillLogging
  <2>2. CASE l # Nil
    <3>1. l \in LoggingType /\ l.ydb \in SectionType
      BY <2>2 DEF LoggingType
    <3> QED
      BY <2>2, <3>1 DEF FillLogging, LoggingType
  <2> QED
    BY <2>1, <2>2
<1>2. PICK f : f = FillLogging(l).ydb
  OBVIOUS
<1>3. f \in SectionType /\ f.pushdown = IF t.pushdown = "nil" THEN "off" ELSE t.pushdown
  BY <1>1, <1>2, YdbFilled
<1>4. FillLogging(l) \in [ydb : SectionType, resolving : Resolvings]
  BY <1>2, <1>3 DEF FillLogging, LoggingType, Resolvings
<1> QED
  BY <1>2, <1>3, <1>4

\* The section of a source that the file leaves out gets every default.
LEMMA DefaultFilled ==
  ASSUME NEW n \in SourceNames \ {"ydb"}, NEW f, f = FillSource(n, Nil)
  PROVE  /\ f \in SectionType
         /\ n # "redis" => f.open = "5s"
         /\ n \notin {"greenplum", "mysql", "postgresql"} => f.ping = "5s"
         /\ n \in {"mongodb", "redis"} => f.count # 0
         /\ f.backoff = "good" /\ (n \in Relational => f.pushdown = "off")
<1>1. PICK t \in SectionType : t = DefaultSection(n)
  BY Defaults
<1>2. f = FillSection(n, t)
  BY <1>1 DEF FillSource
<1>3. /\ f \in SectionType
      /\ f.open = t.open /\ f.ping = t.ping /\ f.count = t.count
      /\ f.backoff = IF t.backoff = "nil" THEN "good" ELSE t.backoff
      /\ f.pushdown = IF t.pushdown = "nil" /\ n \in Relational THEN "off" ELSE t.pushdown
  BY <1>2, SourceFilled
<1>4. /\ t.open = IF n = "redis" THEN "unset" ELSE "5s"
      /\ t.ping = IF n \in {"greenplum", "mysql", "postgresql"} THEN "unset" ELSE "5s"
      /\ t.count = IF n \in {"mongodb", "redis"} THEN 5 ELSE 0
      /\ t.backoff = "nil" /\ t.pushdown = "nil"
  BY <1>1 DEF DefaultSection, Section
<1> QED
  BY <1>3, <1>4

\* So does the section of YDB.
LEMMA YdbDefaultFilled ==
  ASSUME NEW f, f = fillYdbConfigDefaults(EmptyYdb)
  PROVE  /\ f \in SectionType
         /\ f.open = "5s" /\ f.ping = "5s" /\ f.backoff = "good" /\ f.iam = "no key" /\ f.pushdown = "off"
  BY Defaults, YdbFilled DEF EmptyYdb, Section

\* A section that is left out is never refused.
LEMMA DefaultsAreValid ==
  /\ \A n \in Relational : validateRelationalDatasourceConfig(FillSource(n, Nil))
  /\ validateLoggingConfig(FillLogging(Nil))
  /\ validateYdbConfig(FillSource("ydb", Nil))
  /\ validateMongoDBConfig(FillSource("mongodb", Nil))
  /\ validateOpenSearchConfig(FillSource("opensearch", Nil))
  /\ validateRedisConfig(FillSource("redis", Nil))
<1>1. validateYdbConfig(fillYdbConfigDefaults(EmptyYdb))
  BY YdbDefaultFilled DEF validateYdbConfig, DurationFromString, validateExponentialBackoff
<1>2. validateYdbConfig(FillSource("ydb", Nil)) /\ validateLoggingConfig(FillLogging(Nil))
  BY <1>1 DEF FillSource, FillLogging, validateLoggingConfig, validateLoggingResolvingStaticConfig,
              validateLoggingResolvingDynamicConfig
<1>4. \A n \in Relational : validateRelationalDatasourceConfig(FillSource(n, Nil))
  BY DefaultFilled DEF validateRelationalDatasourceConfig, Relational, SourceNames, DurationFromString
<1>5. /\ validateMongoDBConfig(FillSource("mongodb", Nil))
      /\ validateOpenSearchConfig(FillSource("opensearch", Nil))
      /\ validateRedisConfig(FillSource("redis", Nil))
  BY DefaultFilled DEF validateMongoDBConfig, validateOpenSearchConfig, validateRedisConfig, SourceNames,
              DurationFromString, validateExponentialBackoff
<1> QED
  BY <1>2, <1>4, <1>5

\* A config that fillServerConfigDefaults returns is filled.
LEMMA ConfigFilled ==
  ASSUME given \in ConfigType, ~fillPanics(given), NEW c, c = fillServerConfigDefaults(given)
  PROVE  c \in FilledType /\ Filled(c)
<1>1. /\ given.sources \in [SourceNames -> {Nil} \cup SectionType]
      /\ given.logging \in {Nil} \cup LoggingType /\ (given.logging # Nil => given.logging.ydb # Nil)
  BY DEF ConfigType, fillPanics
<1>2. Filled(c)
  BY DEF Filled, fillServerConfigDefaults, ConfigType
<1>3. c.sources \in [SourceNames -> SectionType]
  <2>1. c.sources = [n \in SourceNames |-> FillSource(n, given.sources[n])]
    BY DEF fillServerConfigDefaults, ConfigType
  <2> QED
    BY <2>1, <1>1, PushdownFilled
<1>4. c.logging \in [ydb : SectionType, resolving : Resolvings]
  BY <1>1, <1>2, LoggingFilled DEF Filled
<1>5. c.paging \in Pagings
  BY <1>2 DEF Filled, ConfigType, Pagings
<1>6. PICK src \in [SourceNames -> SectionType],
           log \in [ydb : SectionType, resolving : Resolvings],
           pag \in Pagings :
        c = [given EXCEPT !.paging = pag, !.sources = src, !.logging = log]
  <2>1. c = [given EXCEPT !.paging = c.paging, !.sources = c.sources, !.logging = c.logging]
    BY DEF fillServerConfigDefaults, ConfigType
  <2> QED
    BY <2>1, <1>3, <1>4, <1>5
<1>7. c \in FilledType
  BY <1>6 DEF FilledType, ConfigType
<1> QED
  BY <1>2, <1>7

\* Nothing is filled before the file is read.
LEMMA ConfigInitInv == ConfigInit => ConfigInv
<1> SUFFICES ASSUME ConfigInit PROVE ConfigInv
  OBVIOUS
<1>1. NewDefaultConfig \in ConfigType
  BY DEF NewDefaultConfig, EmptyConfig, Listens, ConfigType, ServerType, Pagings, MetricsType
<1>2. given \in ConfigType
  BY <1>1, ConfigAssumption DEF ConfigAssumption, ConfigInit
<1> QED
  BY <1>2 DEF ConfigInit, ConfigInv, ConfigIsUsable, Parsers

\* Reading the file, or failing to, keeps the invariant.
LEMMA ParseStep ==
  ASSUME ConfigInv, NEW p, ParseFile(p) \/ ParseFails
  PROVE  ConfigInv'
  BY DEF ConfigInv, ConfigIsUsable, ParseFile, ParseFails

\* Filling the defaults keeps the invariant.
LEMMA FillStep == ConfigInv /\ FillConfig => ConfigInv'
<1> SUFFICES ASSUME ConfigInv, FillConfig PROVE ConfigInv'
  OBVIOUS
<1>1. /\ given \in ConfigType /\ given' = given /\ cfg = given /\ loading = "fill" /\ formats' = formats
      /\ ConfigIsUsable
  BY DEF ConfigInv, FillConfig
<1>2. CASE fillPanics(given)
  <2>1. loading' = "crashed" /\ crash' \in NotValidated
    BY <1>1, <1>2 DEF FillConfig, Crash, NotValidated
  <2> QED
    BY <1>1, <2>1 DEF ConfigInv, ConfigIsUsable
<1>3. CASE ~fillPanics(given)
  <2>1. loading' = "validate" /\ crash' = crash /\ cfg' = fillServerConfigDefaults(given)
    BY <1>1, <1>3 DEF FillConfig
  <2>2. cfg' \in FilledType /\ Filled(cfg')
    BY <1>1, <1>3, <2>1, ConfigFilled
  <2>3. Filled(cfg)' /\ ~fillPanics(given')
    BY <1>1, <1>3, <2>2 DEF Filled
  <2> QED
    BY <1>1, <2>1, <2>2, <2>3 DEF ConfigInv, ConfigIsUsable
<1> QED
  BY <1>2, <1>3

\* What was validated can be used; what was filled in is valid.
LEMMA ValidIsUsable ==
  ASSUME given \in ConfigType, ~fillPanics(given), NEW c \in FilledType, Filled(c), validateServerConfig(c)
  PROVE  Usable(c)
<1>0. validateDatasourcesConfig(c)
  BY DEF validateServerConfig
<1>1. ASSUME NEW n \in SourceNames
      PROVE  n \in Relational \cup {"ydb"} => c.sources[n].pushdown # "nil"
  <2>1. PICK s \in {Nil} \cup SectionType : s = given.sources[n]
    BY DEF ConfigType
  <2>2. c.sources[n] = FillSource(n, s)
    BY <2>1 DEF Filled
  <2> QED
    BY <2>2, PushdownFilled
<1>2. c.logging.ydb.pushdown # "nil"
  BY LoggingFilled DEF Filled, ConfigType, fillPanics
<1>3. ASSUME NEW n \in Relational PROVE Good(n, c.sources[n])
  BY <1>0, <1>1 DEF validateDatasourcesConfig, validateRelationalDatasourceConfig, DurationFromString,
                    Good, SourceNames, Relational
<1>4. Good("ydb", c.sources["ydb"]) /\ Good("logging", c.logging.ydb)
  <2>1. validateYdbConfig(c.sources["ydb"]) /\ validateYdbConfig(c.logging.ydb)
    BY <1>0 DEF validateDatasourcesConfig, validateLoggingConfig
  <2> QED
    BY <2>1, <1>1, <1>2 DEF validateYdbConfig, DurationFromString, validateExponentialBackoff, Good, SourceNames
<1>5. /\ Good("mongodb", c.sources["mongodb"]) /\ Good("redis", c.sources["redis"])
      /\ Good("opensearch", c.sources["opensearch"])
  <2>1. /\ validateMongoDBConfig(c.sources["mongodb"]) /\ validateRedisConfig(c.sources["redis"])
        /\ validateOpenSearchConfig(c.sources["opensearch"])
    BY <1>0 DEF validateDatasourcesConfig
  <2> QED
    BY <2>1 DEF validateMongoDBConfig, validateRedisConfig, validateOpenSearchConfig, DurationFromString,
                validateExponentialBackoff, Good, PingTimeout, Relational
<1>6. "logging" \notin SourceNames
  BY DEF SourceNames, Relational
<1>7. ASSUME NEW n \in SourceNames PROVE Good(n, c.sources[n])
  BY <1>3, <1>4, <1>5 DEF SourceNames
<1> QED
  BY <1>4, <1>6, <1>7 DEF Usable, Sourced, SectionOf

\* The validation keeps the invariant.
LEMMA ValidateStep == ConfigInv /\ ValidateConfig => ConfigInv'
<1> SUFFICES ASSUME ConfigInv, ValidateConfig PROVE ConfigInv'
  OBVIOUS
<1>1. /\ given \in ConfigType /\ ~fillPanics(given) /\ cfg \in FilledType /\ Filled(cfg)
      /\ UNCHANGED <<given, formats, cfg>> /\ ConfigIsUsable
  BY DEF ConfigInv, ValidateConfig
<1>0. CASE Crash("validate", "logging.resolving")
  BY <1>0, <1>1 DEF Crash, ConfigInv, ConfigIsUsable, NotValidated
<1>2. CASE loading' = "flags" /\ validateServerConfig(cfg) /\ UNCHANGED crash
  <2>1. Usable(cfg)
    BY <1>1, <1>2, ValidIsUsable
  <2>2. Usable(cfg)'
    BY <1>1, <2>1 DEF Usable, SectionOf, Good
  <2> QED
    BY <1>1, <1>2, <2>2 DEF ConfigInv, ConfigIsUsable
<1>3. CASE loading' = "refused" /\ ~validateServerConfig(cfg) /\ UNCHANGED crash
  <2>1. SUFFICES ASSUME /\ validateConnectorServerConfig(given.connector)
                        /\ validatePprofServerConfig(given.pprof)
                        /\ validateServerReadLimit(given.readLimit)
                        /\ validateObservationConfig(given.observation)
                        /\ given.paging \in {"nil", "bytes", "rows"} /\ given.logging = Nil
                        /\ \A n \in SourceNames : given.sources[n] = Nil
                 PROVE  validateServerConfig(cfg)
    BY <1>1, <1>3 DEF ConfigInv, ConfigIsUsable
  <2>2. validateDatasourcesConfig(cfg)
    BY <1>1, <2>1, DefaultsAreValid DEF Filled, validateDatasourcesConfig, SourceNames
  <2> QED
    BY <1>1, <2>1, <2>2 DEF Filled, validateServerConfig, validatePagingConfig
<1> QED
  BY <1>0, <1>2, <1>3 DEF ValidateConfig

\* Overriding the config with the flags keeps the invariant.
LEMMA FlagsStep == ConfigInv /\ OverrideConfigWithFlags => ConfigInv'
<1> SUFFICES ASSUME ConfigInv, OverrideConfigWithFlags PROVE ConfigInv'
  OBVIOUS
<1>1. /\ given \in ConfigType /\ cfg \in FilledType /\ Usable(cfg)
      /\ UNCHANGED <<given, formats>> /\ ConfigIsUsable
  BY DEF ConfigInv, OverrideConfigWithFlags
<1>2. CASE Crash("flag", "metrics-port")
  BY <1>1, <1>2 DEF Crash, ConfigInv, ConfigIsUsable, NotValidated
<1>3. CASE /\ cfg' \in {cfg, [cfg EXCEPT !.pprof = IF @ = Nil THEN Listens ELSE @]}
           /\ loading' = "launch" /\ UNCHANGED crash
  <2>1. cfg' \in FilledType /\ cfg'.sources = cfg.sources /\ cfg'.logging = cfg.logging
    <3>1. CASE cfg' = cfg
      BY <1>1, <3>1
    <3>2. CASE cfg' = [cfg EXCEPT !.pprof = IF @ = Nil THEN Listens ELSE @]
      <4>1. PICK p \in {Nil} \cup ServerType : cfg' = [cfg EXCEPT !.pprof = p]
        BY <1>1, <3>2 DEF FilledType, Listens, ServerType
      <4> QED
        BY <1>1, <4>1 DEF FilledType
    <3> QED
      BY <1>3, <3>1, <3>2
  <2>2. Usable(cfg)'
    BY <1>1, <2>1 DEF Usable, SectionOf, Good
  <2> QED
    BY <1>1, <1>3, <2>1, <2>2 DEF ConfigInv, ConfigIsUsable
<1>4. CASE loading' = "bad flag" /\ UNCHANGED <<cfg, crash>>
  BY <1>1, <1>4 DEF ConfigInv, ConfigIsUsable
<1> QED
  BY <1>2, <1>3, <1>4 DEF OverrideConfigWithFlags

\* Launching the services keeps the invariant.
LEMMA LaunchStep == ConfigInv /\ LaunchServices => ConfigInv'
<1> SUFFICES ASSUME ConfigInv, LaunchServices PROVE ConfigInv'
  OBVIOUS
<1>1. /\ given \in ConfigType /\ cfg \in FilledType /\ Usable(cfg)
      /\ UNCHANGED <<given, formats, cfg>> /\ ConfigIsUsable
      /\ \/ loading' = "serve" /\ crash' = crash
         \/ loading' = "crashed" /\ crash' \in NotValidated
  BY DEF ConfigInv, LaunchServices, Crash, NotValidated
<1>2. Usable(cfg)'
  BY <1>1 DEF Usable, SectionOf, Good
<1> QED
  BY <1>1, <1>2 DEF ConfigInv, ConfigIsUsable

\* The first request for a source keeps the invariant.
LEMMA RequestStep ==
  ASSUME ConfigInv, NEW n \in Sourced, FirstRequest(n)
  PROVE  ConfigInv'
<1>1. /\ given \in ConfigType /\ Good(n, SectionOf(cfg, n))
      /\ UNCHANGED <<given, formats, cfg>> /\ ConfigIsUsable
  BY DEF ConfigInv, FirstRequest, Usable
<1>2. /\ FirstPanic(n, SectionOf(cfg, n)) \in {"nothing", "exponential_backoff", "ping_connection_timeout"}
      /\ n \notin Relational => FirstPanic(n, SectionOf(cfg, n)) = "nothing"
  BY <1>1 DEF Good, FirstPanic, Sourced, SourceNames
<1>3. \/ loading' = "served" /\ crash' = crash
      \/ loading' = "crashed" /\ crash' \in NotValidated
  BY <1>2 DEF FirstRequest, Crash, NotValidated
<1> QED
  BY <1>1, <1>3 DEF ConfigInv, ConfigIsUsable

\* No option makes a section worse than its default.
LEMMA TimeoutsGood ==
  ASSUME NEW n \in SourceNames, NEW s \in SectionType, Good(n, s), NEW f, f = Timeouts(n, s)
  PROVE  f \in SectionType /\ Good(n, f)
<1>1. CASE n = "ms_sql_server"
  BY <1>1 DEF Timeouts, SectionType, Durations, Good
<1>2. CASE n \in {"greenplum", "mysql", "postgresql"}
  BY <1>2 DEF Timeouts, SectionType, Durations, Good
<1>3. CASE n \in {"clickhouse", "oracle", "ydb"}
  BY <1>3 DEF Timeouts, SectionType, Durations, Good
<1>4. CASE n \in {"mongodb", "redis", "opensearch"}
  BY <1>4 DEF Timeouts
<1> QED
  BY <1>1, <1>2, <1>3, <1>4 DEF SourceNames, Relational

\* The embedded config with pushdown is as good as the one without.
LEMMA PushdownGood ==
  ASSUME NEW n \in SourceNames, NEW s \in SectionType, Good(n, s), NEW f, f = Pushes(n, s)
  PROVE  f \in SectionType /\ Good(n, f)
  BY DEF Pushes, SectionType, Good

\* The config of the embedded server keeps the invariant.
LEMMA EmbeddedStep == ConfigInv /\ NewEmbedded => ConfigInv'
<1> SUFFICES ASSUME ConfigInv, NewEmbedded PROVE ConfigInv'
  OBVIOUS
<1>1. /\ given \in ConfigType /\ given = NewDefaultConfig /\ loading' = "launch"
      /\ UNCHANGED <<given, formats, crash>> /\ ConfigIsUsable
  BY DEF ConfigInv, NewEmbedded
<1>2. /\ given.logging = Nil /\ \A n \in SourceNames : given.sources[n] = Nil
      /\ ~fillPanics(given)
  <2>1. given.connector = Listens /\ given.logging = Nil /\ \A n \in SourceNames : given.sources[n] = Nil
    BY <1>1 DEF NewDefaultConfig, EmptyConfig
  <2>2. Listens # Nil
    BY DEF Listens, Nil
  <2> QED
    BY <2>1, <2>2 DEF fillPanics
<1>3. PICK c : c = fillServerConfigDefaults(given)
  OBVIOUS
<1>4. c \in FilledType /\ Filled(c)
  BY <1>1, <1>2, <1>3, ConfigFilled
<1>5. ASSUME NEW n \in SourceNames PROVE c.sources[n] \in SectionType /\ Good(n, c.sources[n])
  <2>1. c.sources[n] = FillSource(n, Nil)
    BY <1>2, <1>4 DEF Filled
  <2>2. CASE n = "ydb"
    BY <2>1, <2>2, YdbDefaultFilled DEF FillSource, Good
  <2>3. CASE n # "ydb"
    BY <2>1, <2>3, DefaultFilled DEF Good, PingTimeout, SourceNames, Relational
  <2> QED
    BY <2>2, <2>3
<1>6. Good("logging", c.logging.ydb)
  <2>1. c.logging.ydb = fillYdbConfigDefaults(EmptyYdb)
    BY <1>2, <1>4 DEF Filled, FillLogging
  <2> QED
    BY <2>1, YdbDefaultFilled DEF Good
<1>7. PICK x \in FilledType : /\ x = cfg' /\ x.logging = c.logging
                              /\ \A n \in SourceNames : Good(n, x.sources[n])
  <2>1. ASSUME NEW src \in [SourceNames -> SectionType], \A n \in SourceNames : Good(n, src[n]),
               cfg' = [c EXCEPT !.sources = src]
        PROVE  /\ cfg' \in FilledType /\ cfg'.logging = c.logging
               /\ \A n \in SourceNames : Good(n, cfg'.sources[n])
    <3>1. cfg' \in FilledType /\ cfg'.logging = c.logging /\ cfg'.sources = src
      BY <2>1, <1>4 DEF FilledType
    <3> QED
      BY <3>1, <2>1, Zenon
  <2>2. CASE cfg' = [c EXCEPT !.sources = [n \in SourceNames |-> Timeouts(n, c.sources[n])]]
    <3>1. PICK src \in [SourceNames -> SectionType] :
            src = [n \in SourceNames |-> Timeouts(n, c.sources[n])]
      BY <1>5, TimeoutsGood
    <3>2. \A n \in SourceNames : Good(n, src[n])
      BY <3>1, <1>5, TimeoutsGood
    <3> QED
      BY <3>1, <3>2, <2>1, <2>2
  <2>3. CASE cfg' = [c EXCEPT !.sources = [n \in SourceNames |-> Pushes(n, c.sources[n])]]
    <3>1. PICK src \in [SourceNames -> SectionType] :
            src = [n \in SourceNames |-> Pushes(n, c.sources[n])]
      BY <1>5, PushdownGood
    <3>2. \A n \in SourceNames : Good(n, src[n])
      BY <3>1, <1>5, PushdownGood
    <3> QED
      BY <3>1, <3>2, <2>1, <2>3
  <2>4. CASE \/ cfg' = c \/ cfg' = [c EXCEPT !.paging = "rows"]
             \/ cfg' = [c EXCEPT !.pprof = Nil] \/ cfg' = [c EXCEPT !.metrics = "good"]
    <3>1. cfg' \in FilledType /\ cfg'.logging = c.logging /\ cfg'.sources = c.sources
      BY <2>4, <1>4 DEF FilledType, Pagings, MetricsType
    <3> QED
      BY <3>1, <1>5
  <2> QED
    BY <1>3, <2>2, <2>3, <2>4 DEF NewEmbedded
<1>8. Usable(x)
  BY <1>6, <1>7 DEF Usable, SectionOf, Sourced, SourceNames, Relational
<1>9. cfg' \in FilledType /\ Usable(cfg)'
  BY <1>7, <1>8 DEF Usable, SectionOf, Good
<1> QED
  BY <1>1, <1>9 DEF ConfigInv, ConfigIsUsable

\* Every step of the configuration keeps the invariant.
LEMMA ConfigNextInv == ConfigInv /\ [ConfigNext]_configVars => ConfigInv'
<1> SUFFICES ASSUME ConfigInv, [ConfigNext]_configVars PROVE ConfigInv'
  OBVIOUS
<1>1. CASE UNCHANGED configVars
  <2>1. Filled(cfg)' = Filled(cfg) /\ Usable(cfg)' = Usable(cfg)
    BY <1>1, Zenon DEF configVars, Filled, Usable, SectionOf, Good
  <2> QED
    BY <1>1, <2>1 DEF configVars, ConfigInv, ConfigIsUsable
<1>2. CASE \E p \in Parsers : ParseFile(p)
  BY <1>2, ParseStep
<1>3. CASE \E n \in Sourced : FirstRequest(n)
  BY <1>3, RequestStep
<1> QED
  BY <1>1, <1>2, <1>3, ParseStep, FillStep, ValidateStep, FlagsStep, EmbeddedStep, LaunchStep
     DEF ConfigNext, Sourced

\* A configuration that NewConfigFromFile accepts, or that NewEmbedded makes of its
\* options, serves the first request to every source, the places that NotValidated
\* names aside; and no file is refused for a section that it leaves out.
THEOREM AcceptedIsUsable == ConfigSpec => []ConfigIsUsable
<1>1. ConfigInv => ConfigIsUsable
  BY DEF ConfigInv
<1> QED
  BY <1>1, ConfigInitInv, ConfigNextInv, PTL DEF ConfigSpec
-----------------------------------------------------------------------------
(* The fields of MongoDB *)

\* What bsonToYqlColumn has deduced of the documents so far: a text once two values
\* disagree, the one type there is, or nothing.
Deduced ==
  \/ TextSample /\ deduced = "UTF8"
  \/ ~TextSample /\ SampleTypes = {deduced}
  \/ ~TextSample /\ SampleTypes = {} /\ deduced = "none"

\* The inductive invariant.
DocumentsInv ==
  /\ mongoPc \in {"sample", "describe panic", "no column", "described", "read", "panic", "done"}
  /\ omit \in BOOLEAN /\ asNull \in BOOLEAN /\ optional \in BOOLEAN
  /\ ambiguous \in BOOLEAN /\ (ambiguous <=> "null" \in sampled)
  /\ mongoPc = "sample" => Deduced
  /\ SampleGivesSchema
  /\ mongoPc \in {"sample", "no column", "described"} => document = NoDocument
  /\ document.n \in Nat
  /\ DocumentCells

\* No document is sampled at the start.
LEMMA DocumentsInitInv == DocumentsInit => DocumentsInv
<1> SUFFICES ASSUME DocumentsInit PROVE DocumentsInv
  OBVIOUS
<1>1. SampleTypes = {} /\ ~TextSample
  BY DEF DocumentsInit, SampleTypes, TextSample
<1>2. ambiguous \in BOOLEAN /\ (ambiguous <=> "null" \in sampled)
  BY DEF DocumentsInit
<1>3. Deduced /\ DocumentCells /\ SampleGivesSchema /\ document.n \in Nat
  BY <1>1 DEF DocumentsInit, Deduced, NoDocument, DocumentCells, SampleGivesSchema
<1> QED
  BY <1>2, <1>3 DEF DocumentsInit, DocumentsInv

\* A value has one type, which is no mark of a missing one.
LEMMA TypeMapped ==
  ASSUME NEW v
  PROVE  /\ typeMap(v) # "none"
         /\ typeMap("missing") = "not supported"
         /\ typeMap(v) = "null" <=> v = "null"
         /\ typeMap(v) = "UTF8" <=> v = "string"
  BY DEF typeMap

\* What one more value does to the types of a sample.
LEMMA OneMore ==
  ASSUME NEW v, sampled' = sampled \cup {v}, omit' = omit
  PROVE  /\ typeMap(v) \in {"null", "not supported"} => SampleTypes' = SampleTypes
         /\ typeMap(v) \notin {"null", "not supported"} => SampleTypes' = SampleTypes \cup {typeMap(v)}
         /\ TextSample' <=>
              \/ TextSample
              \/ ~omit /\ v # "missing" /\ typeMap(v) = "not supported"
              \/ typeMap(v) \notin {"null", "not supported"} /\ \E t \in SampleTypes : t # typeMap(v)
<1>1. typeMap("missing") = "not supported"
  BY TypeMapped
<1>2. \A t : t \in SampleTypes' <=>
              \/ t \in SampleTypes
              \/ t = typeMap(v) /\ t \notin {"null", "not supported"}
  BY <1>1, Zenon DEF SampleTypes
<1>3. /\ typeMap(v) \in {"null", "not supported"} => SampleTypes' = SampleTypes
      /\ typeMap(v) \notin {"null", "not supported"} => SampleTypes' = SampleTypes \cup {typeMap(v)}
  <2>1. CASE typeMap(v) \in {"null", "not supported"}
    <3>1. \A t : t \in SampleTypes' <=> t \in SampleTypes
      BY <2>1, <1>2, Zenon
    <3> QED
      BY <3>1, <2>1, Zenon DEF SampleTypes
  <2>2. CASE typeMap(v) \notin {"null", "not supported"}
    <3>1. \A t : t \in SampleTypes' <=> t \in SampleTypes \cup {typeMap(v)}
      BY <2>2, <1>2, Zenon
    <3> QED
      BY <3>1, <2>2, Zenon
  <2> QED
    BY <2>1, <2>2, Zenon
<1>4. (\E s, t \in SampleTypes' : s # t) <=>
        \/ \E s, t \in SampleTypes : s # t
        \/ typeMap(v) \notin {"null", "not supported"} /\ \E t \in SampleTypes : t # typeMap(v)
  BY <1>3
<1>5. (\E x \in sampled' \ {"missing"} : typeMap(x) = "not supported") <=>
        \/ \E x \in sampled \ {"missing"} : typeMap(x) = "not supported"
        \/ v # "missing" /\ typeMap(v) = "not supported"
  BY Zenon
<1> QED
  BY <1>3, <1>4, <1>5, Zenon DEF TextSample

\* Sampling a document keeps the invariant.
LEMMA SampleStep == DocumentsInv /\ SampleDocument => DocumentsInv'
<1> SUFFICES ASSUME DocumentsInv, SampleDocument PROVE DocumentsInv'
  OBVIOUS
<1>1. PICK v \in BsonTypes :
        /\ sampled' = sampled \cup {v}
        /\ IF v = "missing" THEN UNCHANGED <<deduced, ambiguous, mongoPc>> ELSE bsonToYqlColumn(v)
  BY DEF SampleDocument
<1>2. /\ mongoPc = "sample" /\ Deduced
      /\ UNCHANGED <<omit, asNull, optional, document, goValue, cell>>
  BY DEF SampleDocument, DocumentsInv
<1> DEFINE panics == v # "missing" /\ TypesEqualPanics(deduced, typeMap(v))
<1>p. CASE panics
  <2>1. /\ mongoPc' = "describe panic" /\ UNCHANGED <<deduced, ambiguous>>
        /\ deduced = "Tagged" /\ typeMap(v) \notin {"Tagged", "null", "not supported"}
    BY <1>1, <1>p DEF bsonToYqlColumn, TypesEqualPanics
  <2>2. SampleTypes' = SampleTypes \cup {typeMap(v)}
    BY <1>1, <1>2, <2>1, OneMore
  <2>3. "Tagged" \in SampleTypes
    BY <1>2, <2>1 DEF Deduced
  <2>4. v # "null"
    BY <2>1, TypeMapped
  <2>5. ambiguous' \in BOOLEAN /\ (ambiguous' <=> "null" \in sampled')
    BY <1>1, <2>1, <2>4 DEF DocumentsInv
  <2> QED
    BY <1>2, <2>1, <2>2, <2>3, <2>5 DEF DocumentsInv, DocumentCells, SampleGivesSchema
<1> SUFFICES ASSUME ~panics PROVE DocumentsInv'
  BY <1>p
<1>q. /\ mongoPc' = "sample"
      /\ v # "missing" => ambiguous' = (ambiguous \/ v = "null")
      /\ v # "missing" =>
           deduced' = CASE typeMap(v) = "null" -> deduced
                        [] typeMap(v) = "not supported" -> IF omit THEN deduced ELSE "UTF8"
                        [] OTHER -> IF deduced \in {"none", typeMap(v)} THEN typeMap(v) ELSE "UTF8"
  BY <1>1, <1>2 DEF bsonToYqlColumn
<1> HIDE DEF panics
<1>3. ambiguous' \in BOOLEAN /\ (ambiguous' <=> "null" \in sampled')
  <2>1. ambiguous \in BOOLEAN /\ (ambiguous <=> "null" \in sampled)
    BY DEF DocumentsInv
  <2>2. CASE v = "missing"
    BY <1>1, <2>1, <2>2
  <2>3. CASE v # "missing"
    <3>1. ambiguous' = (ambiguous \/ v = "null")
      BY <1>q, <2>3
    <3> QED
      BY <3>1, <1>1, <2>1, Zenon
  <2> QED
    BY <2>2, <2>3
<1>4. Deduced'
  <2>1. CASE v = "missing"
    BY <2>1, <1>1, <1>2, OneMore, TypeMapped DEF Deduced
  <2>2. CASE v # "missing" /\ typeMap(v) \in {"null", "not supported"}
    <3>1. /\ SampleTypes' = SampleTypes
          /\ TextSample' <=> TextSample \/ (~omit /\ typeMap(v) = "not supported")
      BY <2>2, <1>1, <1>2, OneMore
    <3>2. deduced' = IF typeMap(v) = "not supported" /\ ~omit THEN "UTF8" ELSE deduced
      BY <2>2, <1>q
    <3> QED
      BY <3>1, <3>2, <1>2 DEF Deduced
  <2>3. CASE v # "missing" /\ typeMap(v) \notin {"null", "not supported"}
    <3>1. /\ SampleTypes' = SampleTypes \cup {typeMap(v)}
          /\ TextSample' <=> TextSample \/ \E t \in SampleTypes : t # typeMap(v)
      BY <2>3, <1>1, <1>2, OneMore
    <3>2. deduced' = IF deduced \in {"none", typeMap(v)} THEN typeMap(v) ELSE "UTF8"
      BY <2>3, <1>q
    <3>3. typeMap(v) # "none" /\ SampleTypes' # {}
      BY <3>1, TypeMapped
    <3>4. CASE TextSample
      BY <3>1, <3>2, <3>4, <1>2 DEF Deduced
    <3>5. CASE ~TextSample /\ SampleTypes = {deduced}
      <4>1. deduced # "none"
        <5>1. \A x : typeMap(x) # "none"
          BY TypeMapped
        <5> QED
          BY <5>1, <3>5 DEF SampleTypes
      <4> QED
        BY <3>1, <3>2, <3>5, <4>1 DEF Deduced
    <3>6. CASE ~TextSample /\ SampleTypes = {} /\ deduced = "none"
      BY <3>1, <3>2, <3>6 DEF Deduced
    <3> QED
      BY <3>4, <3>5, <3>6, <1>2 DEF Deduced
  <2> QED
    BY <2>1, <2>2, <2>3
<1> QED
  BY <1>2, <1>3, <1>4, <1>q DEF DocumentsInv, DocumentCells, SampleGivesSchema

\* Deriving the types of the columns keeps the invariant.
LEMMA DescribedStep == DocumentsInv /\ bsonToYql => DocumentsInv'
<1> SUFFICES ASSUME DocumentsInv, bsonToYql PROVE DocumentsInv'
  OBVIOUS
<1>1. /\ Deduced /\ mongoPc' \in {"no column", "described"} /\ document = NoDocument
      /\ deduced' = IF ambiguous /\ deduced = "none" THEN "UTF8" ELSE deduced
      /\ UNCHANGED <<omit, asNull, sampled, ambiguous, optional, document, goValue, cell>>
  BY DEF bsonToYql, DocumentsInv
<1>2. TypeOfSample' = TypeOfSample
  BY <1>1, Zenon DEF TypeOfSample, TextSample, SampleTypes
<1>3. \A v : typeMap(v) # "none"
  BY TypeMapped
<1>4. deduced' = TypeOfSample
  <2>1. CASE TextSample
    BY <2>1, <1>1 DEF Deduced, TypeOfSample
  <2>2. CASE ~TextSample /\ SampleTypes = {deduced}
    <3>1. deduced # "none"
      BY <2>2, <1>3 DEF SampleTypes
    <3> QED
      BY <2>2, <3>1, <1>1 DEF TypeOfSample
  <2>3. CASE ~TextSample /\ SampleTypes = {} /\ deduced = "none"
    BY <2>3, <1>1 DEF TypeOfSample, DocumentsInv
  <2> QED
    BY <2>1, <2>2, <2>3, <1>1 DEF Deduced
<1> QED
  BY <1>1, <1>2, <1>4 DEF DocumentsInv, DocumentCells, SampleGivesSchema, NoDocument

\* Making the reader keeps the invariant.
LEMMA ReaderStep == DocumentsInv /\ makeDocumentReader => DocumentsInv'
<1> SUFFICES ASSUME DocumentsInv, makeDocumentReader PROVE DocumentsInv'
  OBVIOUS
<1>1. /\ mongoPc = "described" /\ mongoPc' = "read" /\ document = NoDocument /\ optional' \in BOOLEAN
      /\ UNCHANGED <<omit, asNull, sampled, deduced, ambiguous, document, cell>>
  BY DEF makeDocumentReader, DocumentsInv
<1>2. TypeOfSample' = TypeOfSample
  BY <1>1, Zenon DEF TypeOfSample, TextSample, SampleTypes
<1>3. SampleGivesSchema'
  BY <1>1, <1>2 DEF DocumentsInv, SampleGivesSchema
<1>4. document.n = 0
  BY <1>1 DEF NoDocument
<1>5. DocumentCells'
  BY <1>1, <1>4 DEF DocumentCells
<1> QED
  BY <1>1, <1>3, <1>5 DEF DocumentsInv

\* What is accepted from a document, unless a required text may be null.
LEMMA Accepted ==
  ASSUME NEW v, NEW n, optional \/ ~asNull
  PROVE  /\ Accept(v, n) # <<>> => Accept(v, n)[1].n = n
         /\ typeMap(v) = deduced => Accept(v, n) # <<>>
         /\ deduced = "UTF8" /\ Accept(v, n) = <<>> => asNull \/ v = "missing"
<1>1. CASE deduced # "UTF8"
  BY <1>1 DEF Accept, convert
<1>2. CASE deduced = "UTF8" /\ v = "missing"
  BY <1>2, TypeMapped DEF Accept
<1>3. CASE deduced = "UTF8" /\ v # "missing"
  BY <1>3, TypeMapped DEF Accept, bsonToString, Textual
<1> QED
  BY <1>1, <1>2, <1>3

\* Reading a document keeps the invariant.
LEMMA ReadStep == DocumentsInv /\ ReadDocument => DocumentsInv'
<1> SUFFICES ASSUME DocumentsInv, ReadDocument PROVE DocumentsInv'
  OBVIOUS
<1>1. PICK v \in BsonTypes :
        /\ document' = [n |-> document.n + 1, value |-> v]
        /\ IF Panics(v) THEN mongoPc' = "panic"
                        ELSE cell' = Accept(v, document.n + 1) /\ UNCHANGED mongoPc
  BY DEF ReadDocument
<1>2. /\ mongoPc = "read" /\ document.n \in Nat
      /\ UNCHANGED <<omit, asNull, sampled, deduced, ambiguous, optional>>
  BY DEF ReadDocument, DocumentsInv
<1>3. TypeOfSample' = TypeOfSample
  BY <1>2, Zenon DEF TypeOfSample, TextSample, SampleTypes
<1>4. document'.n = document.n + 1 /\ document'.value = v /\ document'.n \in Nat
  BY <1>1, <1>2
<1>5. DocumentCells'
  <2>1. CASE Panics(v)
    BY <2>1, <1>1, <1>2 DEF Panics, DocumentCells
  <2>2. CASE ~Panics(v)
    BY <2>2, <1>1, <1>2, <1>4, Accepted DEF DocumentCells
  <2> QED
    BY <2>1, <2>2
<1> QED
  BY <1>1, <1>2, <1>3, <1>4, <1>5 DEF DocumentsInv, SampleGivesSchema

\* Every step of the MongoDB source keeps the invariant.
LEMMA DocumentsNextInv == DocumentsInv /\ [DocumentsNext]_documentVars => DocumentsInv'
<1> SUFFICES ASSUME DocumentsInv, [DocumentsNext]_documentVars PROVE DocumentsInv'
  OBVIOUS
<1>1. CASE UNCHANGED documentVars
  <2>1. SampleGivesSchema' = SampleGivesSchema /\ Deduced' = Deduced
    BY <1>1, Zenon
    DEF documentVars, TypeOfSample, TextSample, SampleTypes, SampleGivesSchema, Deduced
  <2> QED
    BY <2>1, <1>1 DEF documentVars, DocumentsInv, DocumentCells
<1>2. CASE FinishDocuments
  <2>1. TypeOfSample' = TypeOfSample
    BY <1>2, Zenon DEF FinishDocuments, TypeOfSample, TextSample, SampleTypes
  <2> QED
    BY <2>1, <1>2 DEF FinishDocuments, DocumentsInv, DocumentCells, SampleGivesSchema
<1> QED
  BY <1>1, <1>2, SampleStep, DescribedStep, ReaderStep, ReadStep DEF DocumentsNext

\* The type that bsonToYql gives to a field depends on the values of the sample alone,
\* and it fails to give one only where an ObjectId is followed by a value of another
\* type, for samples of any size, in any order.
THEOREM SchemaOfSample == DocumentsSpec => []SampleGivesSchema
<1>1. DocumentsInv => SampleGivesSchema
  BY DEF DocumentsInv
<1> QED
  BY <1>1, DocumentsInitInv, DocumentsNextInv, PTL DEF DocumentsSpec

\* A cell that the reader of MongoDB makes is of its own document, for any number of
\* documents that hold anything.
THEOREM CellsOfDocuments == DocumentsSpec => []DocumentCells
<1>1. DocumentsInv => DocumentCells
  BY DEF DocumentsInv
<1> QED
  BY <1>1, DocumentsInitInv, DocumentsNextInv, PTL DEF DocumentsSpec
=============================================================================
