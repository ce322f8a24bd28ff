-------------------------------- MODULE Config --------------------------------
(***************************************************************************)
(* The configuration, from the file or from the options of the embedded    *)
(* server to its first use: app/server/config/config.go, cmd.go,           *)
(* embedded_options.go and the constructors that take the configuration.   *)
(*                                                                         *)
(* A value is abstracted to what tells a good one from a bad one, a        *)
(* section that is left out is Nil, and a source's section has the fields  *)
(* that are validated.  The timeouts of OpenSearch for dialling and for    *)
(* the header of the response are its open timeout.                        *)
(***************************************************************************)
EXTENDS Naturals

CONSTANTS
  ConfigFiles    \* the configurations that a file may hold

VARIABLES
  given,         \* the configuration as it was written
  formats,       \* the parsers that understand the file
  untried,       \* the parsers that have not been tried
  cfg,           \* the configuration that the connector works with
  loading,       \* the stage that is next
  crash          \* where the connector panicked: the stage and the value, or <<>>

configVars == <<given, formats, untried, cfg, loading, crash>>

Nil == [nil |-> TRUE]

Relational  == {"clickhouse", "greenplum", "ms_sql_server", "mysql", "oracle", "postgresql"}
SourceNames == Relational \cup {"mongodb", "redis", "opensearch", "ydb"}
Parsers     == {"yaml", "prototext"}

\* The messages of server.proto, with what the values are abstracted to.
Durations   == {"unset", "5s", "bad"}
SectionType ==
  [open : Durations, ping : Durations, backoff : {"nil", "good", "bad duration", "zero multiplier"},
   pushdown : {"nil", "off", "on"}, count : Nat,
   iam : {"no key", "no endpoint", "bad endpoint", "good"}]
ServerType  == [endpoint : {"nil", "good", "bad"}, tls : {"nil", "good", "bad"}]
\* "incomplete": a name, a host, a port or the log groups are missing; "no endpoint": the
\* message with the host and the port itself is.  Lists that are empty are not looked at.
Resolvings  == {"none", "static", "static incomplete", "static no endpoint",
                "dynamic", "dynamic incomplete", "dynamic no endpoint"}
LoggingType == [ydb : {Nil} \cup SectionType, resolving : Resolvings]
StorageType == [endpoint : {"nil", "good", "bad"}, storage : {"nil", "sqlite", "nothing", "no path"}]
Pagings     == {"nil", "bytes", "rows", "no limit", "too large"}
MetricsType == {"nil", "no endpoint", "good"}
ConfigType  ==
  [connector : {Nil} \cup ServerType, paging : Pagings,
   readLimit : {"nil", "rows", "zero rows"}, pprof : {Nil} \cup ServerType, metrics : MetricsType,
   sources : [SourceNames -> {Nil} \cup SectionType], logging : {Nil} \cup LoggingType,
   observation : {Nil} \cup StorageType]

ASSUME ConfigAssumption == ConfigFiles \subseteq ConfigType
-----------------------------------------------------------------------------
(* fillServerConfigDefaults *)

Section(open, ping, backoff, pushdown, count, iam) ==
  [open |-> open, ping |-> ping, backoff |-> backoff, pushdown |-> pushdown, count |-> count, iam |-> iam]

makeDefaultExponentialBackoffConfig == "good"
makeDefaultPushdownConfig == "off"

\* A section that is left out.  What a source does not use is not set.
DefaultSection(name) ==
  Section(IF name = "redis" THEN "unset" ELSE "5s",
          IF name \in {"greenplum", "mysql", "postgresql"} THEN "unset" ELSE "5s",
          "nil", "nil", IF name \in {"mongodb", "redis"} THEN 5 ELSE 0, "no key")

fillYdbConfigDefaults(s) ==
  Section(IF s.open = "unset" THEN "5s" ELSE s.open, IF s.ping = "unset" THEN "5s" ELSE s.ping,
          IF s.backoff = "nil" THEN makeDefaultExponentialBackoffConfig ELSE s.backoff,
          IF s.pushdown = "nil" THEN makeDefaultPushdownConfig ELSE s.pushdown,
          s.count, IF s.iam = "no endpoint" THEN "good" ELSE s.iam)

EmptyYdb == Section("unset", "unset", "nil", "nil", 0, "no key")

FillSection(name, s) ==
  [s EXCEPT !.backoff = IF @ = "nil" THEN makeDefaultExponentialBackoffConfig ELSE @,
            !.pushdown = IF @ = "nil" /\ name \in Relational THEN makeDefaultPushdownConfig ELSE @]

FillSource(name, s) ==
  IF name = "ydb" THEN fillYdbConfigDefaults(IF s = Nil THEN EmptyYdb ELSE s)
                  ELSE FillSection(name, IF s = Nil THEN DefaultSection(name) ELSE s)

FillLogging(l) ==
  IF l = Nil THEN [ydb |-> fillYdbConfigDefaults(EmptyYdb), resolving |-> "static"]
             ELSE [l EXCEPT !.ydb = fillYdbConfigDefaults(@)]

\* The sections that are dereferenced whether or not they are there.
fillPanics(c) == c.connector = Nil \/ (c.logging # Nil /\ c.logging.ydb = Nil)

fillServerConfigDefaults(c) ==
  [c EXCEPT !.paging = IF @ = "nil" THEN "bytes" ELSE @,
            !.sources = [n \in SourceNames |-> FillSource(n, @[n])],
            !.logging = FillLogging(@)]
-----------------------------------------------------------------------------
(* validateServerConfig *)

DurationFromString(d) == d = "5s"

validateEndpointConfig(e)  == e = "good"
validateServerTLSConfig(t) == t \in {"nil", "good"}
validateConnectorServerConfig(c) == validateEndpointConfig(c.endpoint) /\ validateServerTLSConfig(c.tls)
validatePprofServerConfig(c) ==
  c # Nil => validateEndpointConfig(c.endpoint) /\ validateServerTLSConfig(c.tls)
validateServerReadLimit(l) == l # "zero rows"
validatePagingConfig(p)    == p \in {"bytes", "rows"}
validateExponentialBackoff(b) == b = "good"

\* The ping timeout and the fields of the backoff are not looked at.
validateRelationalDatasourceConfig(s) ==
  DurationFromString(s.open) /\ s.backoff # "nil" /\ s.pushdown # "nil"

validateYdbConfig(s) ==
  /\ DurationFromString(s.open) /\ DurationFromString(s.ping)
  /\ s.iam \in {"no key", "good"}
  /\ validateExponentialBackoff(s.backoff)

\* The ping timeout is not looked at.
validateMongoDBConfig_NoPing(s) ==
  DurationFromString(s.open) /\ s.count # 0 /\ validateExponentialBackoff(s.backoff)

validateMongoDBConfig(s) ==
  /\ DurationFromString(s.open) /\ DurationFromString(s.ping)
  /\ s.count # 0 /\ validateExponentialBackoff(s.backoff)

validateRedisConfig(s) ==
  DurationFromString(s.ping) /\ s.count # 0 /\ validateExponentialBackoff(s.backoff)

validateOpenSearchConfig(s) ==
  /\ DurationFromString(s.open) /\ DurationFromString(s.ping)
  /\ validateExponentialBackoff(s.backoff)

validateLoggingResolvingStaticConfig(r)  == r # "static incomplete"
validateLoggingResolvingDynamicConfig(r) == r # "dynamic incomplete"

validateLoggingConfig(l) ==
  /\ validateYdbConfig(l.ydb)
  /\ l.resolving # "none"
  /\ validateLoggingResolvingStaticConfig(l.resolving)
  /\ validateLoggingResolvingDynamicConfig(l.resolving)

validateDatasourcesConfig(c) ==
  /\ \A n \in Relational : validateRelationalDatasourceConfig(c.sources[n])
  /\ validateLoggingConfig(c.logging)
  /\ validateYdbConfig(c.sources["ydb"])
  /\ validateMongoDBConfig(c.sources["mongodb"])
  /\ validateOpenSearchConfig(c.sources["opensearch"])
  /\ validateRedisConfig(c.sources["redis"])

validateObservationConfig(o) ==
  o # Nil => validateEndpointConfig(o.endpoint) /\ o.storage \in {"sqlite", "nothing"}

\* The section of the metrics is not looked at.
validateServerConfig(c) ==
  /\ validateConnectorServerConfig(c.connector)
  /\ validateServerReadLimit(c.readLimit)
  /\ validatePprofServerConfig(c.pprof)
  /\ validatePagingConfig(c.paging)
  /\ validateDatasourcesConfig(c)
  /\ validateObservationConfig(c.observation)

\* The endpoints that the resolving is checked for are dereferenced whether or not they
\* are there, once everything that comes before them is valid.
validatePanics(c) ==
  /\ validateConnectorServerConfig(c.connector) /\ validateServerReadLimit(c.readLimit)
  /\ validatePprofServerConfig(c.pprof) /\ validatePagingConfig(c.paging)
  /\ \A n \in {"clickhouse", "greenplum"} : validateRelationalDatasourceConfig(c.sources[n])
  /\ validateYdbConfig(c.logging.ydb)
  /\ c.logging.resolving \in {"static no endpoint", "dynamic no endpoint"}
-----------------------------------------------------------------------------
(* The stages *)

EmptyConfig ==
  [connector |-> Nil, paging |-> "nil", readLimit |-> "nil", pprof |-> Nil, metrics |-> "nil",
   sources |-> [n \in SourceNames |-> Nil], logging |-> Nil, observation |-> Nil]

Listens == [endpoint |-> "good", tls |-> "nil"]

\* NewDefaultConfig, before the defaults of the sections.
NewDefaultConfig == [EmptyConfig EXCEPT !.connector = Listens, !.pprof = Listens]

ConfigInit ==
  /\ \/ given \in ConfigFiles /\ formats \in {{}, {"yaml"}, {"prototext"}} /\ loading = "parse"
     \/ given = NewDefaultConfig /\ formats = {} /\ loading = "default"
  /\ untried = Parsers
  /\ cfg = Nil /\ crash = <<>>

ConfigOff ==
  /\ given = EmptyConfig /\ formats = {} /\ untried = {} /\ cfg = Nil /\ loading = "off" /\ crash = <<>>

Crash(stage, what) == crash' = <<stage, what>> /\ loading' = "crashed"

\* NewConfigFromFile tries the parsers in the order of a map.
ParseFile(p) ==
  /\ loading = "parse" /\ p \in untried
  /\ untried' = untried \ {p}
  /\ IF p \in formats THEN cfg' = given /\ loading' = "fill"
                      ELSE UNCHANGED <<cfg, loading>>
  /\ UNCHANGED <<given, formats, crash>>

ParseFails ==
  /\ loading = "parse" /\ untried = {}
  /\ loading' = "refused"
  /\ UNCHANGED <<given, formats, untried, cfg, crash>>

FillConfig ==
  /\ loading = "fill"
  /\ IF fillPanics(cfg)
     THEN Crash("load", IF cfg.connector = Nil THEN "connector_server" ELSE "logging.ydb") /\ UNCHANGED cfg
     ELSE cfg' = fillServerConfigDefaults(cfg) /\ loading' = "validate" /\ UNCHANGED crash
  /\ UNCHANGED <<given, formats, untried>>

ValidateConfig ==
  /\ loading = "validate"
  /\ IF validatePanics(cfg)
     THEN Crash("validate", "logging.resolving")
     ELSE loading' = (IF validateServerConfig(cfg) THEN "flags" ELSE "refused") /\ UNCHANGED crash
  /\ UNCHANGED <<given, formats, untried, cfg>>

\* overrideConfigWithFlags, which may set any of the ports, or nothing, and may refuse the
\* log level.
OverrideConfigWithFlags ==
  /\ loading = "flags"
  /\ \/ cfg.metrics # "good" /\ Crash("flag", "metrics-port") /\ UNCHANGED cfg
     \/ loading' = "bad flag" /\ UNCHANGED <<cfg, crash>>
     \/ /\ cfg' \in {cfg, [cfg EXCEPT !.pprof = IF @ = Nil THEN Listens ELSE @]}
        /\ loading' = "launch" /\ UNCHANGED crash
  /\ UNCHANGED <<given, formats, untried>>

\* NewEmbedded applies the options to the default configuration and validates nothing.
\* WithConnectionTimeouts leaves the open timeout of MS SQL Server, the sources that are
\* not relational and the log groups as they are.
Timeouts(name, s) ==
  CASE name = "ms_sql_server" -> [s EXCEPT !.ping = "5s"]
    [] name \in {"greenplum", "mysql", "postgresql"} -> [s EXCEPT !.open = "5s"]
    [] name \in {"clickhouse", "oracle", "ydb"} -> [s EXCEPT !.open = "5s", !.ping = "5s"]
    [] OTHER -> s

Pushes(name, s) == IF name \in Relational \cup {"ydb"} THEN [s EXCEPT !.pushdown = "on"] ELSE s

NewEmbedded ==
  /\ loading = "default"
  /\ LET c == fillServerConfigDefaults(given)
     IN cfg' \in {c, [c EXCEPT !.paging = "rows"], [c EXCEPT !.pprof = Nil], [c EXCEPT !.metrics = "good"],
                  [c EXCEPT !.sources = [n \in SourceNames |-> Timeouts(n, c.sources[n])]],
                  [c EXCEPT !.sources = [n \in SourceNames |-> Pushes(n, c.sources[n])]]}
  /\ loading' = "launch"
  /\ UNCHANGED <<given, formats, untried, crash>>

\* NewLauncher: the storage is the first that takes its part of the configuration.
LaunchServices ==
  /\ loading = "launch"
  /\ IF cfg.observation # Nil /\ cfg.observation.storage = "nothing"
     THEN Crash("launch", "observation.storage.sqlite")
     ELSE loading' = "serve" /\ UNCHANGED crash
  /\ UNCHANGED <<given, formats, untried, cfg>>

\* MustDurationFromString, when the connection manager of a source makes its first
\* connection and when its retrier makes a backoff.
PingTimeout == {"clickhouse", "ms_sql_server", "oracle", "mongodb", "opensearch", "ydb", "logging"}

\* What a section panics on, or "nothing".
FirstPanic(name, s) ==
  IF s.backoff \in {"nil", "bad duration"} THEN "exponential_backoff"
  ELSE IF s.open # "5s" /\ name # "redis" THEN "open_connection_timeout"
  ELSE IF s.ping # "5s" /\ name \in PingTimeout THEN "ping_connection_timeout"
  ELSE IF s.pushdown = "nil" /\ name \notin {"mongodb", "redis", "opensearch"} THEN "pushdown"
  ELSE "nothing"

SectionOf(c, name) == IF name = "logging" THEN c.logging.ydb ELSE c.sources[name]

FirstRequest(name) ==
  /\ loading = "serve"
  /\ LET what == FirstPanic(name, SectionOf(cfg, name))
     IN IF what = "nothing" THEN loading' = "served" /\ UNCHANGED crash ELSE Crash(name, what)
  /\ UNCHANGED <<given, formats, untried, cfg>>

ConfigNext ==
  \/ \E p \in Parsers : ParseFile(p)
  \/ ParseFails \/ FillConfig \/ ValidateConfig \/ OverrideConfigWithFlags \/ NewEmbedded \/ LaunchServices
  \/ \E n \in SourceNames \cup {"logging"} : FirstRequest(n)

ConfigSpec == ConfigInit /\ [][ConfigNext]_configVars
-----------------------------------------------------------------------------
(* Properties *)

\* What the validation is known to let through: see FillConfig,
\* validatePanics, validateRelationalDatasourceConfig, OverrideConfigWithFlags and
\* LaunchServices.
NotValidated ==
  {<<"load", "connector_server">>, <<"load", "logging.ydb">>, <<"validate", "logging.resolving">>,
   <<"flag", "metrics-port">>, <<"launch", "observation.storage.sqlite">>}
  \cup Relational \X {"exponential_backoff", "ping_connection_timeout"}

\* A configuration that NewConfigFromFile accepts, and every one of NewEmbedded, serves
\* the first request to every source: what is dereferenced and parsed without a check
\* has been filled in or validated before, but for what NotValidated names.  And a
\* section that is left out of a file is never the reason to refuse it.
ConfigIsUsable ==
  /\ crash = <<>> \/ crash \in NotValidated
  /\ loading = "refused" /\ formats # {} =>
       \/ ~validateConnectorServerConfig(given.connector) \/ ~validatePprofServerConfig(given.pprof)
       \/ ~validateServerReadLimit(given.readLimit) \/ ~validateObservationConfig(given.observation)
       \/ given.paging \notin {"nil", "bytes", "rows"}
       \/ given.logging # Nil \/ \E n \in SourceNames : given.sources[n] # Nil
=============================================================================
