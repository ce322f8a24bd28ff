-------------------------------- MODULE Parts --------------------------------
(***************************************************************************)
(* The parts of the connector that do not meet within one request: every   *)
(* data source that DataSourceCollection picks by the kind of the data     *)
(* source instance, the connection of a relational source and its columns, *)
(* the storage that requests are recorded in, the calls of gRPC around     *)
(* them, the metrics, the configuration and the programs that call the     *)
(* connector.  A behaviour is of one part.                                 *)
(***************************************************************************)
EXTENDS Columns, Pushdown, Redis, Documents, Mappings, Connections, Observation, Calls, Config, Metrics,
        Tools

VARIABLES
  part      \* the part that the behaviour exercises

partsVars == <<part, vars, pushdownVars, redisVars, documentVars, mappingVars, connectionVars, observationVars,
               callVars, configVars, metricsVars, clientVars, shardVars>>

ColumnsOff ==
  /\ column = Column("none", "none", FALSE, FALSE, FALSE) /\ format = "UNSPECIFIED"
  /\ schema = NotSupported /\ transformer = NoTransformer
  /\ acceptor = Null /\ row = Null /\ pattern = NoPattern /\ cells = <<>> /\ pc = "off"

PartsInit ==
  /\ part \in {"columns", "pushdown", "redis", "mongodb", "opensearch", "connection", "storage", "calls", "config",
              "metrics", "clients", "shards"}
  /\ IF part = "columns" THEN Init ELSE ColumnsOff
  /\ IF part = "pushdown" THEN PushdownInit ELSE PushdownOff
  /\ IF part = "redis" THEN RedisInit ELSE RedisOff
  /\ IF part = "mongodb" THEN DocumentsInit ELSE DocumentsOff
  /\ IF part = "opensearch" THEN MappingsInit ELSE MappingsOff
  /\ IF part = "connection" THEN ConnectionsInit ELSE ConnectionsOff
  /\ IF part = "storage" THEN ObservationInit ELSE ObservationOff
  /\ CallsInit
  /\ IF part = "config" THEN ConfigInit ELSE ConfigOff
  /\ MetricsInit
  /\ IF part = "clients" THEN ClientsInit ELSE ClientsOff
  /\ IF part = "shards" THEN ShardToolsInit ELSE ShardToolsOff

PartsNext ==
  /\ CASE part = "columns" -> Next
       [] part = "pushdown" -> PushdownNext
       [] part = "redis" -> RedisNext
       [] part = "mongodb" -> DocumentsNext
       [] part = "opensearch" -> MappingsNext
       [] part = "connection" -> ConnectionsNext
       [] part = "storage" -> ObservationNext
       [] part = "calls" -> CallsNext
       [] part = "config" -> ConfigNext
       [] part = "metrics" -> MetricsNext
       [] part = "clients" -> ClientsNext
       [] part = "shards" -> ShardToolsNext
  /\ UNCHANGED part
  /\ part # "columns" => UNCHANGED vars
  /\ part # "pushdown" => UNCHANGED pushdownVars
  /\ part # "redis" => UNCHANGED redisVars
  /\ part # "mongodb" => UNCHANGED documentVars
  /\ part # "opensearch" => UNCHANGED mappingVars
  /\ part # "connection" => UNCHANGED connectionVars
  /\ part # "storage" => UNCHANGED observationVars
  /\ part # "calls" => UNCHANGED callVars
  /\ part # "config" => UNCHANGED configVars
  /\ part # "metrics" => UNCHANGED metricsVars
  /\ part # "clients" => UNCHANGED clientVars
  /\ part # "shards" => UNCHANGED shardVars

PartsSpec == PartsInit /\ [][PartsNext]_partsVars
=============================================================================
