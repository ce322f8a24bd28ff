------------------------------ MODULE Pushdown ------------------------------
(***************************************************************************)
(* How a split becomes the SELECT that its data source runs:               *)
(* MakeSelectQuery, the predicate builder, and the SQL formatters of       *)
(* app/server/datasource/rdbms.                                            *)
(*                                                                         *)
(* A filter is a tree of predicates over expressions.  The text of a       *)
(* clause is the same tree, with every constant replaced by the number of  *)
(* its placeholder; the arguments are a sequence on the side.  The builder *)
(* fills that sequence while it walks the tree, and nothing takes back     *)
(* what a subtree added before it failed.                                  *)
(***************************************************************************)
EXTENDS Integers, FiniteSets, Sequences

CONSTANTS
  SelectRequests,     \* the splits to read, see Request
  ColumnNames,        \* columns of the table
  TimestampPushdown,  \* TPushdownConfig.EnableTimestampPushdown
  MaxNesting          \* how deep the predicates of a filter are nested

VARIABLES
  request,            \* the split, with the filtering mode of the request
  query               \* what MakeSelectQuery returned

pushdownVars == <<request, query>>

NullValue == -1
NoError == "none"

Ints == {"INT8", "INT16", "INT32", "INT64"}
Uints == {"UINT8", "UINT16", "UINT32", "UINT64"}
Floats == {"FLOAT", "DOUBLE"}
-----------------------------------------------------------------------------
(* Expressions and predicates *)

ColumnExpr(name) == [tag |-> "column", name |-> name]
ValueExpr(type, v) == [tag |-> "value", type |-> type, optional |-> FALSE, v |-> v]
OptionalValue(type, v) == [tag |-> "value", type |-> type, optional |-> TRUE, v |-> v]
NullExpr == [tag |-> "null"]
Cast(e) == [tag |-> "cast", e |-> e]
Placeholder(n) == [tag |-> "placeholder", n |-> n]

Comparison(op, l, r) == [tag |-> "comparison", op |-> op, l |-> l, r |-> r]
Negation(p) == [tag |-> "negation", p |-> p]
Conjunction(ps) == [tag |-> "conjunction", ps |-> ps]
Disjunction(ps) == [tag |-> "disjunction", ps |-> ps]
CoalesceOf(ps) == [tag |-> "coalesce", ps |-> ps]
IsNull(e) == [tag |-> "is_null", e |-> e]
IsNotNull(e) == [tag |-> "is_not_null", e |-> e]
BoolExpression(e) == [tag |-> "bool", e |-> e]
Between(e, lo, hi) == [tag |-> "between", e |-> e, lo |-> lo, hi |-> hi]

\* No WHERE, a WHERE without a typed filter, and the empty text of a clause.
NoWhere == [tag |-> "no_where"]
NoFilter == [tag |-> "no_filter"]
NoClause == [tag |-> "no_clause"]

Scalars == {NullValue, 0, 1}
Operations == {"L", "LE", "EQ", "NE", "GE", "G"}

ColumnExprs == [tag : {"column"}, name : ColumnNames]
ValueExprs == [tag : {"value"}, type : {"BOOL", "STRING", "UTF8", "NULL_TYPE", "TIMESTAMP"} \cup Ints \cup Uints \cup Floats,
               optional : BOOLEAN, v : Scalars]
Expressions ==
  ColumnExprs \cup ValueExprs \cup [tag : {"null"}] \cup [tag : {"cast"}, e : ColumnExprs]
  \cup [tag : {"placeholder"}, n : Nat]

\* The predicates that are nested at most n deep.
Simple ==
  [tag : {"comparison"}, op : Operations \cup {"ID"}, l : Expressions, r : Expressions]
  \cup [tag : {"is_null", "is_not_null", "bool"}, e : Expressions]
  \cup [tag : {"between"}, e : Expressions, lo : Expressions, hi : Expressions]
Over(ps) ==
  Simple \cup [tag : {"negation"}, p : ps]
  \cup [tag : {"conjunction", "disjunction", "coalesce"}, ps : Seq(ps)]
Nested[n \in Nat] == IF n = 0 THEN Simple ELSE Over(Nested[n - 1])

ASSUME PushdownAssumption ==
  /\ MaxNesting \in Nat
  /\ \A r \in SelectRequests : r.where \in Nested[MaxNesting] \cup {NoWhere, NoFilter}
-----------------------------------------------------------------------------
(* The formatters: the types of the constants that one takes (supportsType), *)
(* and whether GetPlaceholder is "?" for every argument or has its number.   *)
(* Greenplum uses the formatter of PostgreSQL; YDB has two modes that differ *)
(* in their placeholders; Cloud Logging wraps the formatter of YDB.          *)

Timestamps == IF TimestampPushdown THEN {"TIMESTAMP"} ELSE {}

ClickHouseFormatter ==
  [types |-> {"BOOL"} \cup Ints \cup Uints \cup Floats \cup Timestamps, positional |-> TRUE]
MySQLFormatter ==
  [types |-> {"BOOL"} \cup Ints \cup Uints \cup Floats \cup Timestamps, positional |-> TRUE]
PostgreSQLFormatter ==
  [types |-> {"BOOL"} \cup Ints \cup Floats \cup Timestamps, positional |-> FALSE]
MsSQLServerFormatter ==
  [types |-> {"BOOL"} \cup Ints \cup Floats \cup Timestamps, positional |-> FALSE]
OracleFormatter ==
  [types |-> {"INT64", "DOUBLE"} \cup Timestamps, positional |-> FALSE]
YdbFormatter(mode) ==
  [types |-> {"BOOL", "STRING", "UTF8", "NULL_TYPE"} \cup Ints \cup Uints \cup Floats
             \cup Timestamps,
   positional |-> mode = "scan"]

YdbKinds == {"ydb_native", "ydb_scan", "logging"}

Formatters ==
  [clickhouse |-> ClickHouseFormatter, mysql |-> MySQLFormatter,
   postgresql |-> PostgreSQLFormatter, ms_sql_server |-> MsSQLServerFormatter,
   oracle |-> OracleFormatter, ydb_native |-> YdbFormatter("native"),
   ydb_scan |-> YdbFormatter("scan"), logging |-> YdbFormatter("native")]

FormatterKinds == DOMAIN Formatters
Positional(kind) == Formatters[kind].positional

\* Arithmetical, conditional and cast expressions are refused by all of them.
SupportsPushdownExpression(kind, e) ==
  CASE e.tag \in {"column", "null"} -> TRUE
    [] e.tag = "value" -> e.type \in Formatters[kind].types
    [] OTHER -> FALSE
-----------------------------------------------------------------------------
(* The predicate builder.  A result carries the arguments added so far, on  *)
(* success and on failure alike.                                            *)

Done(out, args) == [err |-> NoError, out |-> out, args |-> args]
FailedWith(err, args) == [err |-> err, out |-> NoClause, args |-> args]
Ok(r) == r.err = NoError

\* formatNullFlagValue: the types with a typed null.
TypedNulls == {"BOOL", "STRING", "UTF8"} \cup Ints \cup Uints

\* formatValue, formatPrimitiveValue, formatOptionalValue.
formatValue(e, embedBool, args) ==
  IF e.v = NullValue /\ ~(e.optional /\ e.type \in TypedNulls)
  THEN FailedWith("unimplemented typed value", args)
  ELSE IF embedBool /\ ~e.optional /\ e.type = "BOOL" THEN Done(e, args)
  ELSE Done(Placeholder(Len(args)), Append(args, e))

formatExpression(kind, e, embedBool, args) ==
  IF ~SupportsPushdownExpression(kind, e) THEN FailedWith("unsupported expression", args)
  ELSE IF e.tag = "value" THEN formatValue(e, embedBool, args)
  ELSE Done(e, args)

formatComparison(kind, p, embedBool, args) ==
  LET left == formatExpression(kind, p.l, embedBool, args)
      right == formatExpression(kind, p.r, embedBool, left.args)
  IN IF p.op \notin Operations THEN FailedWith("unimplemented operation", args)
     ELSE IF ~Ok(left) THEN left
     ELSE IF ~Ok(right) THEN right
     ELSE Done(Comparison(p.op, left.out, right.out), right.args)

\* One operand needs no operator around it.
Joined(op(_), outs) == IF Len(outs) = 1 THEN outs[1] ELSE op(outs)

\* The operands from left to right, each by sub, and the error of the one formatted
\* last: up to the first that fails, or past it (goOn).
formatOperands(sub, ps, goOn, embedBool, args) ==
  LET upTo[k \in Nat] ==
        IF k = 0 THEN Done(<<>>, args)
        ELSE LET acc == upTo[k - 1]
                 r == sub[ps[k]][FALSE][embedBool][acc.args]
             IN IF ~Ok(acc) /\ ~goOn THEN acc
                ELSE [err |-> r.err, out |-> IF Ok(r) THEN Append(acc.out, r.out) ELSE acc.out,
                      args |-> r.args]
  IN upTo[Len(ps)]

\* Only the conjunction at the top goes on.
formatConjunction(sub, p, topLevel, args) ==
  LET r == formatOperands(sub, p.ps, topLevel, FALSE, args)
  IN IF (~Ok(r) /\ ~topLevel) \/ r.out = <<>>
     THEN FailedWith(IF Ok(r) THEN "no operands" ELSE r.err, r.args)
     ELSE Done(Joined(Conjunction, r.out), r.args)

formatDisjunction(sub, p, args) ==
  LET r == formatOperands(sub, p.ps, FALSE, TRUE, args)
  IN IF ~Ok(r) \/ p.ps = <<>>
     THEN FailedWith(IF Ok(r) THEN "no operands" ELSE r.err, r.args)
     ELSE Done(Joined(Disjunction, r.out), r.args)

formatCoalesce(kind, sub, p, args) ==
  LET r == formatOperands(sub, p.ps, FALSE, kind = "logging", args)
  IN IF Ok(r) THEN Done(CoalesceOf(r.out), r.args) ELSE FailedWith(r.err, r.args)

\* The flag handed down: a conjunction under NOT loses operands.
formatNegation_KeepTop(sub, p, args) ==
  LET r == sub[p.p][TRUE][FALSE][args]
  IN IF Ok(r) THEN Done(Negation(r.out), r.args) ELSE r

formatNegation(sub, p, args) ==
  LET r == sub[p.p][FALSE][FALSE][args]
  IN IF Ok(r) THEN Done(Negation(r.out), r.args) ELSE r

\* formatIsNull, formatIsNotNull, and the BoolExpression of formatPredicate.
formatUnary(kind, p, embedBool, args) ==
  LET r == formatExpression(kind, p.e, embedBool, args)
  IN IF Ok(r) THEN Done([p EXCEPT !.e = r.out], r.args) ELSE r

formatPayload(kind, sub, p, topLevel, embedBool, args) ==
  CASE p.tag = "negation" -> formatNegation(sub, p, args)
    [] p.tag = "conjunction" -> formatConjunction(sub, p, topLevel, args)
    [] p.tag = "disjunction" -> formatDisjunction(sub, p, args)
    [] p.tag \in {"is_null", "is_not_null"} -> formatUnary(kind, p, FALSE, args)
    [] p.tag = "comparison" -> formatComparison(kind, p, embedBool, args)
    [] p.tag = "bool" -> formatUnary(kind, p, embedBool, args)
    [] p.tag = "coalesce" -> formatCoalesce(kind, sub, p, args)
    [] OTHER -> FailedWith("unimplemented predicate type", args)

\* formatPredicate, by the nesting of the predicate.
FormatterOf(kind, ps, sub) ==
  [p \in ps |-> [topLevel \in BOOLEAN |-> [embedBool \in BOOLEAN |-> [args \in Seq(ValueExprs) |->
     formatPayload(kind, sub, p, topLevel, embedBool, args)]]]]

Builder(kind) ==
  LET at[n \in Nat] == IF n = 0 THEN FormatterOf(kind, Simple, <<>>)
                       ELSE FormatterOf(kind, Nested[n], at[n - 1])
  IN at

formatPredicate(kind, p, topLevel, embedBool, args) ==
  Builder(kind)[MaxNesting][p][topLevel][embedBool][args]

acceptableErrors ==
  {"unsupported expression", "unimplemented predicate type",
   "unimplemented typed value"}

FilteringModes == {"UNSPECIFIED", "OPTIONAL", "MANDATORY"}

formatWhereClause(kind, filtering, where) ==
  LET r == formatPredicate(kind, where, TRUE, FALSE, <<>>)
  IN IF where = NoFilter THEN FailedWith("invalid request", <<>>)
     ELSE IF filtering \in {"UNSPECIFIED", "OPTIONAL"} /\ r.err \in acceptableErrors
     THEN Done(NoClause, r.args)
     ELSE IF filtering \notin FilteringModes THEN FailedWith("unknown filtering mode", <<>>)
     ELSE r
-----------------------------------------------------------------------------
(* The query *)

\* A split: what to select, the table, the filter, and the description of a
\* split of YDB, with the tablets of a column shard.
Request(kind, what, table, where, filtering, shard) ==
  [kind |-> kind, what |-> what, table |-> table, where |-> where,
   filtering |-> filtering, shard |-> shard]

DataShard == [payload |-> "data_shard", tablets |-> <<>>]
ColumnShard(tablets) == [payload |-> "column_shard", tablets |-> tablets]
NoShard == [payload |-> "none", tablets |-> <<>>]

\* formatSelectClause selects a constant, typed INT64, when there is nothing
\* to select; selectWhatToYDBColumns refuses an item that is not a column.
SelectClause(what) == IF what = <<>> THEN <<"0">> ELSE what
NotColumn(what) == \E i \in DOMAIN what : what[i] \notin ColumnNames

\* A split of Cloud Logging without a description of YDB: its tablets are read all the
\* same, of a nil pointer.
RenderPanics(r) == r.kind = "logging" /\ r.shard.payload = "none"

\* RenderSelectQueryText of the kind: YDB and Cloud Logging read one tablet.
RenderError(r) ==
  /\ r.kind \in YdbKinds
  /\ IF r.kind # "logging" /\ r.shard.payload # "column_shard" THEN r.shard.payload = "none"
     ELSE Len(r.shard.tablets) # 1

NoQuery == [err |-> "not made", select |-> <<>>, clause |-> NoClause,
            args |-> <<>>, tablets |-> <<>>]

MakeSelectQuery ==
  /\ query = NoQuery
  /\ LET r == request
         where == IF r.where = NoWhere THEN Done(NoClause, <<>>)
                  ELSE formatWhereClause(r.kind, r.filtering, r.where)
         refused(err) == query' = [NoQuery EXCEPT !.err = err]
     IN IF NotColumn(r.what) THEN refused("not a column")
        ELSE IF r.table = "" THEN refused("empty table name")
        ELSE IF ~Ok(where) THEN refused(where.err)
        ELSE IF RenderPanics(r) THEN refused("panic")
        ELSE IF RenderError(r) THEN refused("render query text")
        ELSE query' = [err |-> NoError, select |-> SelectClause(r.what),
                       clause |-> where.out, args |-> where.args,
                       tablets |-> r.shard.tablets]
  /\ UNCHANGED request

NoRequest == Request("none", <<>>, "", NoWhere, "UNSPECIFIED", NoShard)
PushdownOff == request = NoRequest /\ query = NoQuery

PushdownInit == request \in SelectRequests /\ query = NoQuery

PushdownNext == MakeSelectQuery

PushdownSpec == PushdownInit /\ [][PushdownNext]_pushdownVars
-----------------------------------------------------------------------------
(* What a filter means: SQL's logic of three values over the rows, where 1  *)
(* is true and 0 is false.                                                  *)

Rows == [ColumnNames -> Scalars]

ValueOf(e, row, args) ==
  CASE e.tag = "column" -> row[e.name]
    [] e.tag = "value" -> e.v
    [] e.tag = "null" -> NullValue
    [] e.tag = "cast" -> row[e.e.name]
    [] e.tag = "placeholder" -> args[e.n + 1].v

Truth(b) == IF b THEN 1 ELSE 0

Compare(op, x, y) ==
  IF op = "ID" THEN Truth(x # y)
  ELSE IF x = NullValue \/ y = NullValue THEN NullValue
  ELSE CASE op = "L" -> Truth(x < y)
         [] op = "LE" -> Truth(x <= y)
         [] op = "EQ" -> Truth(x = y)
         [] op = "NE" -> Truth(x # y)
         [] op = "GE" -> Truth(x >= y)
         [] op = "G" -> Truth(x > y)

And(ts) == IF 0 \in ts THEN 0 ELSE IF NullValue \in ts THEN NullValue ELSE 1
Not(t) == IF t = NullValue THEN NullValue ELSE 1 - t
Or(ts) == Not(And({Not(t) : t \in ts}))

\* The first of the operands that is not NULL.
Coalesced(ts) ==
  LET known == {i \in DOMAIN ts : ts[i] # NullValue}
  IN IF known = {} THEN NullValue ELSE ts[CHOOSE i \in known : \A j \in known : i <= j]

\* sub has the meaning of the operands.
Meaning(sub, p, row, args) ==
  LET val(e) == ValueOf(e, row, args)
      operands == [i \in DOMAIN p.ps |-> sub[p.ps[i]][row][args]]
      all == {operands[i] : i \in DOMAIN p.ps}
  IN CASE p.tag = "comparison" -> Compare(p.op, val(p.l), val(p.r))
       [] p.tag = "between" -> And({Compare("LE", val(p.lo), val(p.e)),
                                    Compare("LE", val(p.e), val(p.hi))})
       [] p.tag = "is_null" -> Truth(val(p.e) = NullValue)
       [] p.tag = "is_not_null" -> Truth(val(p.e) # NullValue)
       [] p.tag = "bool" -> val(p.e)
       [] p.tag = "negation" -> Not(sub[p.p][row][args])
       [] p.tag = "conjunction" -> And(all)
       [] p.tag = "disjunction" -> Or(all)
       [] p.tag = "coalesce" -> Coalesced(operands)

MeaningOf(ps, sub) ==
  [p \in ps |-> [row \in Rows |-> [args \in Seq(ValueExprs) |-> Meaning(sub, p, row, args)]]]

Meanings[n \in Nat] ==
  IF n = 0 THEN MeaningOf(Simple, <<>>) ELSE MeaningOf(Nested[n], Meanings[n - 1])

Eval(p, row, args) == IF p = NoClause THEN 1 ELSE Meanings[MaxNesting][p][row][args]

\* The placeholders of a clause, and whether they grow from left to right in its text.
Marks(e) == IF e.tag = "placeholder" THEN {e.n} ELSE {}
Below(m, n) == \A i \in m, j \in n : i < j

Placed(sub, p) ==
  CASE p.tag = "comparison" ->
         [marks |-> Marks(p.l) \cup Marks(p.r), grow |-> Below(Marks(p.l), Marks(p.r))]
    [] p.tag \in {"is_null", "is_not_null", "bool"} -> [marks |-> Marks(p.e), grow |-> TRUE]
    [] p.tag = "negation" -> sub[p.p]
    [] p.tag \in {"conjunction", "disjunction", "coalesce"} ->
         [marks |-> UNION {sub[p.ps[i]].marks : i \in DOMAIN p.ps},
          grow |-> \A i \in DOMAIN p.ps :
                     /\ sub[p.ps[i]].grow
                     /\ \A j \in 1 .. (i - 1) : Below(sub[p.ps[j]].marks, sub[p.ps[i]].marks)]
    [] OTHER -> [marks |-> {}, grow |-> TRUE]

PlacementOf(ps, sub) == [p \in ps |-> Placed(sub, p)]

Placements[n \in Nat] ==
  IF n = 0 THEN PlacementOf(Simple, <<>>) ELSE PlacementOf(Nested[n], Placements[n - 1])

\* The n-th placeholder of the text is the one of the n-th argument.
InOrder ==
  LET placed == IF query.clause = NoClause THEN [marks |-> {}, grow |-> TRUE]
                ELSE Placements[MaxNesting][query.clause]
  IN placed.grow /\ placed.marks = 0 .. (Len(query.args) - 1)

Filtered == query.err = NoError /\ request.where # NoWhere
Wanted(row) == Eval(request.where, row, <<>>) = 1
Selected(row) == Eval(query.clause, row, query.args) = 1

\* pb.conjunctionErrors: the operands that the conjunction at the top dropped.
conjunctionErrors ==
  LET p == request.where
  IN IF p.tag # "conjunction" THEN {}
     ELSE {i \in DOMAIN p.ps :
             ~Ok(formatPredicate(request.kind, p.ps[i], FALSE, FALSE, <<>>))}
-----------------------------------------------------------------------------
(* Properties *)

\* "Connector will return more data than necessary" (formatWhereClause), never
\* less: no row of the answer is lost by a part of the filter that was left
\* out, wherever in the tree it stood.  Where placeholders have no number the
\* statement is about queries whose arguments are in order.  And where filtering is
\* mandatory there is a WHERE clause; that it is the whole filter is MandatoryIsWhole.
NoRowLost ==
  /\ Filtered /\ (Positional(request.kind) => InOrder) =>
       \A row \in Rows : Wanted(row) => Selected(row)
  /\ Filtered /\ request.filtering = "MANDATORY" => query.clause # NoClause

\* A filter that was pushed down as a whole selects exactly its rows, with
\* exactly its constants as arguments, in the order of their placeholders.
WholeIsExact ==
  Filtered /\ query.clause # NoClause /\ conjunctionErrors = {} =>
    InOrder /\ \A row \in Rows : Wanted(row) <=> Selected(row)

\* The select that formatWhereClause makes of a filter, whole or in part: no row of the
\* answer is lost, and none is added when the whole filter was pushed down.
FilterIsFaithful == NoRowLost /\ WholeIsExact

\* "Pushdowning every expression is mandatory in this mode.  If connector doesn't support
\* some types or expressions, the request will fail" (formatWhereClause): no operand of
\* the conjunction at the top is dropped.
MandatoryIsWhole == Filtered /\ request.filtering = "MANDATORY" => conjunctionErrors = {}

\* "Get placeholder for n'th argument (starting from 0) for prepared
\* statement" (SQLFormatter): arguments and placeholders are in step in every
\* query that is sent.
ArgsMatch == query.err = NoError => InOrder
=============================================================================
