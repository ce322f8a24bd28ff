----------------------------- MODULE MCPushdown -----------------------------
(* Filters of bounded depth for the predicate builder. *)
EXTENDS Pushdown

MCColumnNames == {"a", "b"}

colA == ColumnExpr("a")
colB == ColumnExpr("b")

\* What every source takes, what only YDB takes, and what fails half way.
CoreLeaves ==
  {Comparison("EQ", colA, ValueExpr("INT64", 1)),
   Comparison("LE", colB, ValueExpr("UTF8", 0)),
   Comparison("G", ValueExpr("INT64", 1), Cast(colB)),
   IsNull(colB)}

Predicates == CoreLeaves \cup
  {Comparison("NE", colA, OptionalValue("INT64", NullValue)),
   Comparison("EQ", colB, OptionalValue("DOUBLE", NullValue)),
   Comparison("EQ", colB, ValueExpr("BOOL", 0)),
   Comparison("L", colA, NullExpr),
   Comparison("GE", colB, ValueExpr("TIMESTAMP", 1)),
   Comparison("ID", colA, colB),
   Comparison("L", ValueExpr("INT64", 0), ValueExpr("INT64", 1)),
   IsNotNull(colA), BoolExpression(ValueExpr("BOOL", 1)),
   Between(colA, ValueExpr("INT64", 0), ValueExpr("INT64", 1))}

Joins(ps, qs) ==
  UNION {{Conjunction(<<p, q>>), Disjunction(<<p, q>>), CoalesceOf(<<p, q>>)} :
         p \in ps, q \in qs}

Shallow == Predicates \cup {Negation(p) : p \in Predicates} \cup Joins(Predicates, Predicates)
CoreShallow ==
  CoreLeaves \cup {Negation(p) : p \in CoreLeaves} \cup Joins(CoreLeaves, CoreLeaves)
Deep ==
  Joins(CoreShallow, CoreLeaves) \cup Joins(CoreLeaves, CoreShallow)
  \cup {Negation(p) : p \in CoreShallow}
  \cup {Conjunction(<<p, q, r>>) : p, q, r \in CoreLeaves}

SelectsOf(kinds, what, tables, filters, modes, shards) ==
  [kind : kinds, what : what, table : tables, where : filters, filtering : modes, shard : shards]

Selects(kinds, filters) ==
  LET of(ks, shard) == SelectsOf(ks, {<<"a">>}, {"t"}, filters, {"OPTIONAL", "MANDATORY"}, {shard})
  IN of(kinds \ {"logging"}, DataShard) \cup of(kinds \cap {"logging"}, ColumnShard(<<7>>))

\* Requests that are refused, or that have nothing to filter or to select.
Edges ==
  SelectsOf({"mysql", "ydb_native", "logging"}, {<<>>, <<"a", "b">>, <<"a", "count">>}, {"", "t"},
            {NoWhere, NoFilter, Conjunction(<<>>), Disjunction(<<>>), IsNull(colA)},
            FilteringModes \cup {"3"},
            {NoShard, DataShard, ColumnShard(<<7>>), ColumnShard(<<7, 8>>)})

MCRequests ==
  Selects(FormatterKinds, Shallow) \cup Selects({"mysql", "postgresql", "ydb_native"}, Deep)
  \cup Edges
=============================================================================
