# Verification of fq-connector-go

The connector is a gRPC server through which YDB reads tables of external data
sources. This directory models it with TLA+, checks the models with TLC on small
instances, and proves the most important results with TLAPS for every value of the
constants.

## The system

A client calls `DescribeTable` for the schema of a table, `ListSplits` for the
pieces it can be read in, and `ReadSplits` for the rows of some pieces.

- `app/server/service_connector.go` holds the gRPC handlers; they validate a
  request, walk over its selects or splits one by one and answer an error as the
  last message of the stream. The interceptors of `grpc_metrics.go` are around them.
- `app/server/data_source_collection.go` picks the data source by its kind and
  registers every split with the observation storage.
- `app/server/streaming` runs a producer goroutine and streams what it makes:
  splits (`list_splits_streamer.go`) or pages of rows (`read_splits_streamer.go`).
- `app/server/paging` gathers rows in pages: one sink per connection, one bounded
  queue for all of them, a goroutine that closes the queue after the last sink.
- `app/server/datasource/rdbms` reads relational sources: connections, the SELECT
  made of a request, type mapping, rows. MySQL has a fetching goroutine of its own.
- `app/server/datasource/nosql`, `s3`: MongoDB, Redis, OpenSearch, S3, each with one
  connection and at most one sink.
- `app/server/observation` stores the running and finished queries in SQLite and
  shows them over HTTP.
- `app/server/conversion`, `app/server/utils`, `common`: conversions to Arrow.
- `launcher.go`, `embedded.go`, `config`: life cycle and configuration;
  `library/go/core/metrics/solomon` and `httppuller.go`: metrics and their scrapes.
- `app/bench`, `app/client`, `common/client_*.go`: benchmark and commands.

The hard parts are the `select` statements in which several outcomes are ready at
once, the two contexts of a read, goroutines that must end on every path, operations
that fail half way or are repeated, one connection that everybody shares, and tables
of types that have to agree with each other. `PROJECT.json` lists each hazard at its
line, and the components with what is and is not modelled.

## Modules and how they fit together

| Module | Models |
| --- | --- |
| `TrafficTracker` | page limits and counters of a sink |
| `ReadSplits` | the pipeline that reads one split |
| `SplitRead` | the contract of that pipeline |
| `ReadRequest` | a whole `ReadSplits` call, on top of `SplitRead` |
| `ListSplits` | a whole `ListSplits` call with its split providers |
| `MySQLRows` | the fetcher and the reader of a MySQL query |
| `Connections` | one connection of any driver, from Make to Release, with retries and result sets |
| `Pushdown` | the SELECT that is made of a request |
| `Columns` | a column from its description to its Arrow cells and their sizes |
| `Redis`, `Documents`, `Mappings` | Redis, MongoDB and OpenSearch |
| `Observation` | the storage of queries, its writers, and a browser that lists it |
| `Services`, `Server` | start and stop of the process, over `Observation` |
| `Process` | the goroutines that wait for each other: `Server` or `MySQLRows`, for one run |
| `Calls` | calls of gRPC: interceptors, validation, statuses, panics |
| `Config` | the configuration from a file or from options to its first use |
| `Metrics` | vectors and registry of Solomon, and the answers to a scrape |
| `Clients`, `ShardTools` | benchmark, clients and commands |
| `Tools` | the programs on the command line: one of those two |
| `Parts` | the parts that do not meet within one request, for one run |
| `MC*` | instances for TLC |
| `ReadSplitsProofs` | proofs about `ReadSplits` |
| `ReadRequestProofs` | proofs about `ReadRequest` and `Connections` |
| `ListSplitsProofs` | proofs about `ListSplits` and `Mappings` |
| `ServicesProofs` | proofs about `Server` and `Observation` |
| `CallsProofs` | proofs about `Calls`, `MySQLRows` and `Redis` |
| `SourcesProofs` | proofs about `Columns`, `Config` and `Documents` |
| `PushdownProofs` | proofs about `Pushdown` |
| `ToolsProofs` | proofs about `Clients`, `ShardTools` and `Tools` |

`ReadSplits` extends `TrafficTracker` and is shown to implement `SplitRead`;
`ReadRequest` uses an instance of `SplitRead` for every split, so the request is
built on what the pipeline was shown to do. `Services` is composed with
`Observation`: the requests that a stop waits for are those that write the storage
which the stop closes. `MySQLRows` and `Connections` are what a connection of
`ReadSplits` does inside its steps `Query`, `AddRow` and `ReadFails`; `Pushdown` and
`Columns` are the data side of the same read. `Parts` and `Process` put modules side by
side and let each behaviour be of one of them. A module of proofs is about several
modules only where their names do not collide; it says nothing about their composition.

### ReadSplits

Five kinds of processes: the reader goroutine of `Run`; a goroutine per
connection, which owns a sink; `sinkTerminationHandler`; the consumer
`writeDataToStream`; the client, who may cancel at any moment. Every channel
operation is a step. A `select` is a choice among the branches that are ready,
and a context that is done is one of them. A row is its number and its size, and
a page is a range of rows with the statistics that travel with it. The size of the
first k rows of a connection is the constant `Volume`.

The two contexts are kept apart, because the code mixes them: sinks wait on the
context of the stream, the reader on the streamer's clone of it.

Abstractions: connecting and querying are one step with their retries (see
`Connections`); errors of the read limiter are part of `ReadFails`; the split is the
last of its request, so `HandlerReturns` also ends the stream. The code supports
several connections per split, although every connection manager makes one today;
the model has any number of them.

### ReadRequest

The handler (`Validate` to `Reply`), the goroutines of the connections as far as
the observation storage sees them, and the pages, by the steps of `SplitRead`.
`sent`, `status` and `canceled` are the variables of the contract. The storage may
refuse any operation. A split whose kind or columns have no data source fails
after its incoming query was registered. A page that cannot be encoded fails the split
too, and `Run` waits then for connections that may be blocked on the queue: `Blocks` and
`Unblocks` are what `ReadSplits` shows of them.

### ListSplits

The handler over the selects, the streamer's loop, and the providers: the default
one (one split), YDB (a tablet query that the SDK may run again) and logging
(one goroutine per YDB database). Describing the table and querying its tablets
fail in one step, `SourceFails`.

### MySQLRows and Connections

The fetcher of MySQL copies rows from the driver's callback into `rowChan`, fills
`transformerInitChan` once, and closes its channels. The reader first selects
among types, error and context, then drains the rows.

`Connections` has the other side of a driver: `Make`, which may fail before or after
the connection is open, `Query`, the loop over rows and result sets, `Err`, and the
deferred closes. What the managers do differently is in the records of `Manager`:
whether they check the request, need a first statement, close a connection that
fails it, retry a query, and what their `NextResultSet` and `Err` do. `handles` counts the
open connections, and `abandoned` those of failed attempts that nobody closes.

### Pushdown and Columns

A state of `Pushdown` is a request (formatter, select list, filter, mode, split) and
then the result of `MakeSelectQuery`: an error, a panic, or a clause, its arguments and
whether the filter was pushed down whole. SQL text is represented by the expression
it stands for, with placeholders numbered as the formatter numbers them, and is
evaluated over rows with three-valued logic. Greenplum shares PostgreSQL's formatter.
The recursion of `formatPredicate` is a function of the depth of nesting, of which
`MaxNesting` is the largest: `Builder` at one depth formats operands by the depth below.

In `Columns`, `GetSchema`, `MakeTransformer`, `ScanRow`, `AppendRow` and `MakeRecord`
follow one column. The tables of the module are the switches of the type mappers; the
names and flags that a driver gives to its types, and what it does on NULL, are external.
Points in time are whole hours, so that 16, 32 and 64 bits can be told apart within
TLC's integers. Numbers and texts are abstracted to two values.

### Redis, Documents and Mappings

`Redis` describes a table from sampled keys and reads it with SCAN and pipelines of
TYPE, GET and HMGET, one command at a time, while another client writes and deletes.
`Documents` follows one field of a MongoDB collection: the type deduced from a sample,
in any order, with the panic of `common.TypesEqual`, then values of any BSON type. `Mappings` is the recursion of OpenSearch
over the properties of an index, checked against a definition by qualified names; it
too is a function of the depth, up to `MaxDepth`.

### Observation, Services and Server

Requests create an incoming query, an outgoing one in a transaction, and end both, or
return early after the first and end nothing. The
pool has one connection: a statement needs it for a step, a transaction and open rows
keep it. The browser follows the pages of a listing, or asks for similar queries. The
storage can be closed, and the process can die and start again on the same file.

`Services` adds a server and a goroutine per service, the loop that waits for
errors and signals, the embedded server with its mutex, and `launcher.Stop`, which stops
one service after another in the order of a map.

### Calls, Config and Metrics

A call of `Calls` goes through the interceptors, its validation, the data source and
the answer; every error of every source gets its status as in `common/errors.go`, and a
panic is caught or kills the process. `Config` carries a file, or the options of
an embedded server, through the defaults, the validation and the flags to the
constructors that use it. `Metrics` interleaves goroutines that look up, create and
record with a scrape that visits the registry and encodes it; bytes are tokens, and
the answer is decoded by its own reader.

### Clients and ShardTools

`Clients` is the benchmark on the streaming client, and `list_splits` and
`read_table` on the buffering one, against a connector that may send an error, break or
end a stream at any moment. The report of a test case goes to a file whose name other
test cases may have. `ShardTools` is the two commands that count the rows of column
shards, with queries that the SDK repeats from the beginning; a result remembers which
shard it is `of`, which the code does not, to state what is reported.

## Runs

| Run | Question | Bounds |
| --- | --- | --- |
| `read_splits` | is every row delivered, with exact statistics, does everything end, is the contract kept | 2 connections of 4 and 1 rows, pages of at most 2 rows and 3 bytes, queue of 1, pages that cannot be encoded |
| `read_splits_edges` | are pages in order and exact without a queue, with a row larger than a page and pages that cannot be encoded | 2 connections of 4 and 2 rows, no row limit |
| `read_splits_hang` | does leaving the consumer stop the publisher, as a comment says | violated |
| `list_splits` | is the list complete, without goroutines left behind; does it end | 3 selects, 2 sources, channel of 1, one retry |
| `list_splits_lost_error` | is a provider's error always reported | violated |
| `list_splits_retry` | is there one split per tablet | violated |
| `read_request` | is a response without an error complete and in order, are the registered queries real, does the handler return | 2 splits of 2 connections, the second may have no source, failing storage, pages that cannot be encoded |
| `mysql_rows_empty` | does a nil error mean an empty table | violated |
| `pushdown_args` | do arguments and placeholders agree | violated |
| `pushdown_mandatory` | is a mandatory filter pushed down whole or refused | violated |
| `parts` | one question for each of the parts below | see below |
| `process` | does a stop end, drain everything and kill nobody; are all rows of MySQL taken, do its goroutines leave | 1 request, the connector alone or with metrics and observation; 4 rows, channel of 2 |

The run `parts` asks, with the bounds in brackets:

- `SchemaIsReadable`, `CellsAreExact`: can a described column be read, and is every
  cell exact (every type of six sources, three date formats, 2 rows);
- `FilterIsFaithful`: is no row lost, and is a filter that was pushed down whole exact
  (one operator over any leaves for all formatters, two for MySQL, PostgreSQL and
  YDB, all modes);
- `RowsAreExact`: is every row of Redis made of one value of its key, and is a key that
  stays not missed (2 keys, 2 fields, 1 write at any step);
- `SampleGivesSchema`, `DocumentCells`: does a sample of MongoDB determine the schema in
  any order, and is what does not fit it told apart (10 BSON types, samples of 3, 2
  documents);
- `MappingIsKept`: is every field of an index a column (three levels, two annotations);
- `ReadIsWhole`, `ConnectionsReleased`: is a read that succeeds whole, is what was
  opened closed (every driver, up to 3 result sets, 2 attempts);
- `ListingSkipsNothing`, `RunningHasHandler`, `ConnectionComesBack`: does a listing
  skip a query, is a running query real, does the connection come back (2 requests, a
  browser, pages of 1, closing and restarts);
- `FailureIsReported`, `CallsAreCounted`: does a failed call ever look like a success,
  do the counters agree with the calls (2 calls);
- `ConfigIsUsable`: does a configuration that was accepted fail at its first use (any
  section good, bad or left out);
- `ScrapeIsExact`: is a scrape what the metrics were (2 recorders, 3 series; a digit of
  ULEB128 has 2 values and a frame of lz4 5 tokens, so that both overflow);
- `ToolsAreExact`: has a command that ends well seen everything once (tables of 2
  splits, 2 scenarios, 2 shards, 1 repeated query).

Why the bounds are enough to meet the interesting cases: the queue or channel is
always smaller than what goes through it, so every sender blocks; there are at least
two of everything that interleaves; pages end by rows and by bytes and at the
exact limit; one connection, split or result set is empty; the dates lie on both
sides of every bound of YDB, of ClickHouse and of the unsigned widths; two rows
are what a stale variable needs; one write and one repeated query are enough to fall
between any two commands. `process` has one request, because requests only meet in
the storage, which `parts` checks with two.

### What the violated runs show

- `read_splits_hang`: when a page cannot be encoded, the consumer cancels only its
  own context, and a sink blocked on the full queue holds the whole call until the
  client cancels.
- `list_splits_lost_error`: an error and the closed channel are ready together;
  the `select` may take the second, and an incomplete list ends as a success.
- `list_splits_retry`: a repeated tablet query appends to the tablets of
  the failed attempt.
- `mysql_rows_empty`: a short table may be fully fetched before the reader looks;
  the nil error then wins against the types, and the rows have nowhere to go.
- `pushdown_args`: arguments of a conjunct that was given up stay behind.
- `pushdown_mandatory`: the errors of the operands of a conjunction are only collected, so
  that with `FILTERING_MANDATORY` a part of the filter is sent and the request does not
  fail, although its client relies on the whole.

### Exceptions that properties name

A property that holds but for a case which the code handles differently says so in
its definition or in the comment before it. These are the cases:

- Reading: a mid-stream error of MySQL is never looked at, since `rows.Err()` is
  always nil; `NextResultSet` of YDB's native connection may forget an error of the
  stream; most managers do not close a connection that fails after it was opened. A
  call that could not encode a page may be left waiting for its client.
- Types: unsigned MySQL columns with any other flag (NOT NULL, a key, ZEROFILL) cannot be
  read, because the flags are compared as a whole, nor can an unsigned `tinyint(1)`, a
  zero date of MySQL, a NUMBER of Oracle that is no 64-bit integer, a tinyint of MS SQL
  Server above 127 and a `Tuple(DateTime)` of ClickHouse.
- MongoDB: a field that holds an ObjectId and, later in the sample, another type makes
  `common.TypesEqual` panic, for the tag of the second is read without a check; a required
  text that is shown as NULL keeps what the document before wrote.
- Storage: an incoming query stays running when its data source or its columnar buffer
  cannot be made, and when the storage is closed or the process ends before it does; a
  listing of the running queries may skip one, because they leave it.
- Statuses: errors of DescribeTable for MongoDB have the status `UNSPECIFIED`.
- Configuration: `connector_server` left out, a logging section without ydb, the ping
  timeout and the backoff of relational sources, `sqlite` left out of the storage, and
  the port of metrics without their section or its endpoint are used without having been
  validated; the validation itself panics on the resolving of log groups without an
  endpoint (`config.go:617` and `:640`).
- Metrics: the binary format leaves out what a histogram counts above its last bound;
  a scrape that was cut is answered with 200.
- Tools: `read_table` does not look at the errors of ListSplits, and no client can tell a
  stream that ended too early without an error; the reports of remote test cases
  overwrite each other, as do local ones with the same page size, queue and number of
  columns, and one that was interrupted may be short; ids of shards, and a count that was
  sent before a repeated query, are kept by the repetition; the id of a shard is never
  set in the results of `cs_benchmark_select`, which shows 0 for each.

Other disagreements that were met and have no run: split ids are documented as unique in a request (`connector.pb.go:979`), but
restart with every select; the read limit is documented per request
(`server.proto`), but a limiter is made per split; `ListSplits` fills `Error` in every
message, where a comment of the interceptor expects it in the last one only; `Reset`
of a vector keeps the metrics in the registry, against its comment.

## Fairness

Weak fairness for each goroutine: the Go scheduler runs whatever can run, and
calls to drivers return because they carry a context or a timeout. Nothing forces
the client to cancel, a server to fail, or anybody to stop the process. In
`MySQLRows` the context is cancelled fairly once the reader is done, because the
streamer cancels it on return. In `ReadRequest` the fairness of `Succeed \/ Fail` says
that the loop over the pages of a split ends. That is the fairness of `SplitRead`, and the
run `read_splits` checks as `PromiseKept` that the pipeline implements it, with pages that
cannot be encoded too: the consumer then leaves its loop. That `Run` returns is not
assumed, since it also waits for the connections, and one of them may be blocked on the
full queue with nobody to wake it; `Terminates` of `ReadRequest` excepts just that state,
`LeftOnEncoding`, as `Terminates` of `ReadSplits` does. In `Services` the
requests, the goroutines of the servers, the loop and the steps of a stop are fair,
each as one process. A `select` is never assumed to be fair among its branches. The
run `parts` checks safety only, and its components may stop.

## What is proved

Every theorem holds for all values of the constants that the assumptions of its module
allow; the assumptions say what the code or its configuration guarantees, and TLC
evaluates them on the instances. Each proof has an inductive invariant, the step lemmas
of which follow the actions one by one. Three conventions of these modules:

- What is needed of cardinalities of finite sets is the formula `Sizes`, which the lemmas
  assume; `SizesHold` derives it from `FiniteSetTheorems` before the theorems.
- Recursive functions are reasoned about by `SetInduction`, induction over the natural
  numbers for a set instead of a formula, from the well-foundedness of their order. A
  lemma such as `PropertiesAre` first shows that a function which is defined by recursion
  satisfies its equation.
- A condition on sequences or records that several steps keep is an operator with
  parameters, so that what keeps it is a lemma without state.

**The pipeline** (`ReadSplitsProofs`), for any finite nonempty set of
connections, any rows and sizes, any limits of which one is set, any queue:

- `TypeCorrect`, `SafeClose`, `Complete`, `InOrder`, `PagesExact`, `StatsExact`,
  `TerminalLast`: the invariants of the runs `read_splits` and `read_splits_edges`;
- `Refinement`: `ReadSplits` implements the safety part of `SplitRead`;
- `RowFitsAfterFlush`: after a flush a row that is not larger than a page fits,
  which is why `AddRow` may ignore the second answer of `tryAddRow`.

None of the invariants is inductive alone. `IInv` adds: where each sink is and
that its tracker agrees with it (`SinkInv`); that reported sinks are counted once
(`CountInv`); that pages in flight are exact and ordered (`FlightInv`); that what
the client has is a prefix (`ClientInv`); and, the heart of it, that until the
stream is cancelled every row that left a sink is with the client or in flight
(`CoverInv`). From `CountInv` the queue is closed only after all sinks, then nothing
is in flight when the consumer sees the close, and `CoverInv` leaves only the
client. The refinement maps `sent` to itself and the consumer's result to the
contract's status. The assumptions are `PagingAssumption` (configuration) and
`ReadAssumption`.

**A request** (`ReadRequestProofs`), for any splits, connections and storage failures:
`SuccessComplete`, `ErrorLast` and `SplitsOneByOne`, from an invariant that says what the
client has of every split by the place of the handler (`ClientInv`); and `RecordsReal`,
from `RecordInv`: a query runs only at the places between its registration and its end
(`AtWork`), and what is recorded with a finished one is all the rows there are
(`RowsRecorded`).

**A connection** (`ReadRequestProofs`), for any attempts, result sets and rows:
`WholeRead` and `Released`, from `Held`, which counts the open connections by the place
of the call, and `ReadSoFar`, which says that the result sets before the present one have
been read to their end, or that the stream has failed and its source forgets errors.

**A listing of splits** (`ListSplitsProofs`), for any selects, sources, tablets and
capacity: `NothingLeftBehind`, because sources work only while their group is waited for
(`Joined`); `ErrorEndsListing`, because an error in the list ends the handler (`Ended`);
and `ListingIsComplete`. For the last one, `Flow` is what the client has, followed by
what is in the hand of the streamer and in the channel. `Owed` says that the flow holds,
in their order, all tablets of every source of the selects that are over without having
failed, and those that the sources of the present one have sent so far; when a select
ends well nothing is on the way any more. A
repeated tablet query only adds splits of the attempt before in front of them, which is
why the property speaks of places in the list.

**The process and its storage** (`ServicesProofs`), for any services, requests, pages and
restarts: `StopIsSafe`, because the mutex of the embedded server is held for as long as
servers close (`LifeInv`); `StopLeavesNothing`, because what is not stopped is still in
`toStop` (`StopProgress`) and a stopped connector has no request at work (`Quiet`);
`ConnectionReturns` and `RunningIsReal`, because a request knows the rows it has created
(`Linked`) and what no request will end any more is in `leftRunning`; and `RecordsStay`, an action property: no step deletes a query or touches one
that has ended, because every request ends records of its own only (`OwnRecords`).

**The pages of a listing** (`ServicesProofs`), for any number of queries and any size of a
page: `ListingShowsAll`. The queries of a listing are ordered by their creation, so the
rank of one is the number of those that are newer. `Listed` says that what the browser
has not seen yet has a rank which is not below the offset of its next page; by
`RecordsStay` ranks only grow, and after a page that is not full no rank is left.

**Calls of gRPC** (`CallsProofs`), for any number of calls: `FailuresReported` and
`CallsCounted`, from `CallsInv`: the gauge and the counters are the cardinalities of sets
of calls at given places (`Counted`), and a failure that is answered has been counted
(`Noticed`).

**Rows of MySQL** (`CallsProofs`), for any number of rows and capacity, including zero:
`RowsComplete`, from the invariant that taken rows, channel and fetched rows are contiguous
(`RowsInv`).

**Redis** (`CallsProofs`), for any keys, fields, batches and writes: `ReadsAreExact`.
`InFlight` says that a reply is a value its key has held since the read began, and
`Shown` where a key that nobody has written is until its row is there: not yet scanned,
in the batch, among the replies, or among the hashes to be asked for.

**MongoDB** (`SourcesProofs`), for any documents: `SchemaOfSample` and `CellsOfDocuments`.
`Deduced` is what the types seen so far leave of the deduced type: a text once two
disagree, the only one, or none; and a comparison panics only on an ObjectId, the only
type with a tag, followed by another type.

**The configuration** (`SourcesProofs`), for any file and option: `AcceptedIsUsable`.
`Filled` relates the configuration to the file field by field, from which what validation
does not look at is known to be there, and `Usable` is what the sources need at their
first request. The assumption `ConfigAssumption` is the type of a file.

**Columns** (`SourcesProofs`), for any sample of columns of the six sources and any number
of rows: `ColumnsAreReadable` and `CellsAreCopied`. `ColumnsInv` says by the stage of a
column what its schema, its transformer and the reused Go variable hold: once the
transformer is made, builder, record field and schema are of one type (`Ready`), and
before a row is appended the variable has the value of that row and of no earlier one
(`Scanned`). The first half goes through the tables of the type mappers, the second
through the switches of the converters and of `sizeOfValueBloated`. The assumption
`ColumnsAssumption` names the six kinds of sources.

**Filters** (`PushdownProofs`), for filters nested to any depth, any rows and arguments,
every formatter and filtering mode: `FiltersAreFaithful`. Below the top a predicate is
formatted with its meaning, its placeholders being those of the arguments it added, in
their order, or it is not formatted at all (`Faithful`, by induction over the depth and,
within a predicate, over its operands). Operands of the conjunction at the top that
fail are left out, which selects more rows and never fewer (`Pushed`). An argument that a
failed operand leaves behind does not disturb the meaning, because placeholders are
numbered by the arguments already there; for the formatters that write `?` it does, which
is what `pushdown_args` shows, and the theorem has that exception as the property has it.
That a mandatory filter is pushed down whole is no part of it, and does not hold.
`PushdownInv` only remembers which filter the clause comes from. `PushdownAssumption` says
that the filters are predicates nested at most `MaxNesting` deep, for any natural number.

**Mappings of OpenSearch** (`ListSplitsProofs`), for mappings of any depth: `MappingsAreKept`.
`Described`, by induction over the depth: a field fails because of a field in it that has
no type or whose annotation is unknown, or its type has exactly the fields that are
declared below it. `MappingsAssumption` is the type of a mapping.

**Clients and commands** (`ToolsProofs`), for any tables, shards, repetitions and
interruptions: `ClientsAreWhole`, `ShardsReported`, and `ToolsReportAll` of both. In
`ClientsInv` the pages a benchmark has registered are those of the scenarios that are
over, of the splits it has taken and of the stream it reads (`Registered`), which needs
the sums of pages to be monotone. In `ShardsInv`, `IdsOnce` counts the ids that one
attempt has read, and `CountsOnce` the shards: a shard has a result, a message in the
channel, or a goroutine that still asks, and no two of them unless a query was repeated.
The assumptions are `ClientsAssumption` and `ShardToolsAssumption`.

Only model-checked:

- liveness, which is out of the prover's reach: the termination of `ReadSplits`,
  `ReadRequest`, `ListSplits`, `MySQLRows` and of a stop;
- `ScrapeIsExact`: the answers of a scrape are encoded and decoded token by token, by
  folds within folds; a proof would have to invert ULEB128, the label pool and the frames
  of lz4 for every input, and is left to the run `parts`;
- the violated runs, which are counterexamples.

## Not modelled

- S3: its reading is unfinished in the code and adds no row.
- Reading from OpenSearch, which is not implemented in the code.
- Generated code, and the suites that run the service against real databases.
- Timers, function metrics and sharded registries of Solomon, which the connector
  does not use.
- The CPU monitor of the benchmark, and the formatting of reports, logs and pages.
- `converters_unsafe.go` by its bytes: the fast formatting of dates is the date.
- TLS and authentication beyond whether their configuration is accepted.
- A composition of `MySQLRows` or `Connections` with `ReadSplits`: there the
  connection's steps are any answers of a driver, which includes theirs.
