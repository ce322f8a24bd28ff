------------------------------ MODULE MCParts -------------------------------
(* Two keys, documents of every BSON type, indices of three levels, a           *)
(* connection of every kind, series of every kind of metric, and configurations *)
(* with any section, tables of two splits and two column shards, besides the    *)
(* columns of MCColumns and the requests of MCPushdown.                         *)
EXTENDS Parts, MCColumns, MCPushdown

Property(type, children) == [type |-> type, children |-> children]
LeafProperties == {Property(t, {}) : t \in {"integer", "geo_point"}}
ChildrenOf(children) == {[name |-> n, property |-> children[n]] : n \in DOMAIN children}
ObjectsOf(properties) ==
  {Property("object", ChildrenOf(c)) : c \in UNION {[names -> properties] : names \in SUBSET {"a", "b"}}}
Trees == LeafProperties \cup ObjectsOf(LeafProperties \cup ObjectsOf({Property("keyword", {})}))

Annotated == {<<"a">>, <<"b">>, <<"a", "a">>, <<"a", "b">>, <<"a", "a", "b">>}
Metas ==
  UNION {[names -> {"list", "text"}] : names \in {n \in SUBSET Annotated : Cardinality(n) <= 2}}

MCIndices ==
  {[properties |-> {[name |-> "a", property |-> t]}, meta |-> m] : t \in Trees, m \in Metas}

MCBsonTypes ==
  {"missing", "null", "int32", "boolean", "string", "binary", "objectID", "dateTime", "array",
   "dates"}

MCResultSets == {<<2>>, <<0>>, <<1, 2>>, <<0, 1>>, <<1, 0, 1>>}

Endpoints == {"nil", "good", "bad"}
Servers == [endpoint : Endpoints, tls : {"nil", "good", "bad"}]
Sections == {Nil} \cup
  {Section(o, p, b, d, 5, "no key") : o \in {"unset", "5s", "bad"}, p \in {"unset", "5s", "bad"},
     b \in {"nil", "good", "bad duration", "zero multiplier"}, d \in {"nil", "on"}} \cup
  {Section(o, "5s", "good", d, c, i) : o \in {"5s", "bad"}, d \in {"nil", "on"}, c \in {0, 5},
     i \in {"no key", "no endpoint", "bad endpoint"}}
Observations == [endpoint : {"good", "bad"}, storage : {"nil", "sqlite", "nothing", "no path"}]
MCConfigFiles ==
  [connector : {Nil} \cup Servers, paging : Pagings \ {"bytes"},
   readLimit : {"nil", "rows", "zero rows"}, pprof : {Nil, [Listens EXCEPT !.tls = "bad"]},
   metrics : {"nil"}, sources : {EmptyConfig.sources}, logging : {Nil}, observation : {Nil}]
  \cup {[NewDefaultConfig EXCEPT !.sources[n] = s] : n \in SourceNames, s \in Sections}
  \cup {[NewDefaultConfig EXCEPT !.logging = [ydb |-> s, resolving |-> r]] :
          s \in Sections, r \in Resolvings}
  \cup {[NewDefaultConfig EXCEPT !.metrics = m, !.observation = o] : m \in MetricsType,
          o \in {Nil} \cup Observations}

MCSeries ==
  {[name |-> "status", kind |-> "counter", tags |-> [endpoint |-> "read", status |-> "read"]],
   [name |-> "inflight", kind |-> "gauge", tags |-> [endpoint |-> "read"]],
   [name |-> "duration", kind |-> "histogram", tags |-> [endpoint |-> "list"]]}

MCListings == {<<>>, <<2, 0>>}
MCCaseNames == {<<"a", "a">>, <<"a", "b">>}

MCShardRows(shard) == IF shard = "s1" THEN 2 ELSE 1
=============================================================================
