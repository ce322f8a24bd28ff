------------------------------ MODULE MCColumns -----------------------------
(* Every type of every source that the type mappers know, and one they do not. *)
EXTENDS Columns

Of(kind, types, nullability) ==
  {Column(kind, t, n, FALSE, FALSE) : t \in types, n \in nullability}

MCColumns ==
  {Column("mysql", t, n, u, f) : t \in MySQLIntegers, n \in BOOLEAN, u \in BOOLEAN, f \in BOOLEAN}
  \cup Of("mysql", {"float", "double", "blob", "binary", "varbinary", "text", "char",
                    "varchar", "date", "datetime", "timestamp", "json", "enum"}, {TRUE})
  \cup Of("postgresql",
          {"boolean", "smallint", "integer", "bigint", "real", "double precision",
           "bytea", "uuid", "character", "character varying", "text", "json", "date",
           "timestamp without time zone", "numeric"}, {TRUE})
  \cup Of("oracle",
          OracleTexts \cup OracleTimestamps
          \cup {"NUMBER", "BINARY_DOUBLE", "RAW", "LONG RAW", "BLOB", "JSON", "DATE",
                "BINARY_FLOAT"}, {TRUE})
  \cup Of("ms_sql_server",
          {"bit", "tinyint", "smallint", "int", "bigint", "real", "float", "binary",
           "varbinary", "image", "char", "varchar", "text", "nchar", "nvarchar",
           "ntext", "date", "smalldatetime", "datetime", "datetime2", "money"}, {TRUE})
  \cup Of("clickhouse",
          Plain \cup ClickHouseTimes \cup {"String", "FixedString", "Array"}, BOOLEAN)
  \cup Of("ydb",
          Plain \cup {"STRING", "UTF8", "JSON", "JsonDocument", "DATE", "DATETIME",
                     "TIMESTAMP", "Uuid"},
          BOOLEAN)
=============================================================================
