------------------------------- MODULE Metrics -------------------------------
(***************************************************************************)
(* The metrics of the connector: library/go/core/metrics/solomon, whose    *)
(* vectors and registry the interceptors of gRPC use, its encoders, and    *)
(* app/server/httppuller.go, which answers a scrape with JSON or with      *)
(* spack, compressed or not.                                               *)
(*                                                                         *)
(* The bytes of a stream are abstracted to tokens: a digit of a number in  *)
(* ULEB128, a string of a pool, a value.                                   *)
(***************************************************************************)
EXTENDS Integers, Sequences, FiniteSets, SequencesExt

CONSTANTS
  Recorders,      \* goroutines that record: calls of gRPC
  Series,         \* elements of vectors: [name, kind, tags]
  LebBase,        \* values of a digit of ULEB128; 128 in the code
  FrameLength,    \* compressionFrameLength, in tokens
  MaxRecords      \* bound: values that are recorded

VARIABLES
  metrics,        \* the metrics that were made: [series, main, inf]
  vector,         \* metricsVector.metrics: series to metrics
  registry,       \* Registry.metrics: series to metrics
  recorder,       \* what every goroutine is doing
  records,        \* how many values were recorded
  recorded,       \* history: what was recorded in every series
  scrape,         \* the scrape: format, snapshots and what is sent
  shown           \* history: what a scrape may show, as [series, field, value]

metricsVars == <<metrics, vector, registry, recorder, records, recorded, scrape, shown>>

NameTag == "name"
NoValue == [main |-> 0, inf |-> 0]
NoScrape ==
  [pc |-> "idle", format |-> "none", must |-> {}, visited |-> {}, snapshots |-> <<>>, stream |-> <<>>]

MetricsInit ==
  /\ metrics = <<>> /\ vector = <<>> /\ registry = <<>>
  /\ recorder = [r \in Recorders |-> [pc |-> "idle", metric |-> 0, series |-> {}]]
  /\ records = 0
  /\ recorded = [s \in Series |-> NoValue]
  /\ scrape = NoScrape /\ shown = {}
-----------------------------------------------------------------------------
(* Recording *)

Recording(r, pc, s, m) == recorder' = [recorder EXCEPT ![r] = [pc |-> pc, metric |-> m, series |-> s]]

\* metricsVector.with, under the lock of readers.  Bound: nothing is recorded after the
\* scrape.
LookUp(r) ==
  /\ recorder[r].pc = "idle" /\ records < MaxRecords /\ scrape.pc \notin {"over", "cut"}
  /\ records' = records + 1
  /\ \E s \in Series :
       IF s \in DOMAIN vector THEN Recording(r, "record", {s}, vector[s]) ELSE Recording(r, "create", {s}, 0)
  /\ UNCHANGED <<metrics, vector, registry, recorded, scrape, shown>>

\* registerMetric, of a metric made by the registry with the tags: the one that is
\* there already, if it is of the same type, else the new one.
registerMetric(s) ==
  IF s \in DOMAIN registry
  THEN UNCHANGED <<metrics, registry>>
  ELSE /\ metrics' = Append(metrics, [series |-> s, main |-> 0, inf |-> 0])
       /\ registry' = registry @@ (s :> Len(metrics'))

\* metricsVector.with, under the lock of writers: the vector is looked up again.
Create(r) ==
  /\ recorder[r].pc = "create"
  /\ \E s \in recorder[r].series :
       IF s \in DOMAIN vector
       THEN Recording(r, "record", {s}, vector[s]) /\ UNCHANGED <<metrics, vector, registry>>
       ELSE /\ registerMetric(s)
            /\ vector' = vector @@ (s :> registry'[s])
            /\ Recording(r, "record", {s}, registry'[s])
  /\ UNCHANGED <<records, recorded, scrape, shown>>

\* What RecordDuration, Inc and Add do to a metric: a histogram counts in a bucket
\* or, above its last bound, in inf.
Deltas(kind) ==
  CASE kind = "counter" -> {[main |-> 1, inf |-> 0]}
    [] kind = "gauge" -> {[main |-> 1, inf |-> 0], [main |-> -1, inf |-> 0]}
    [] OTHER -> {[main |-> 1, inf |-> 0], [main |-> 0, inf |-> 1]}

Held(s) == {[series |-> s, field |-> "main", value |-> recorded[s].main],
            [series |-> s, field |-> "inf", value |-> recorded[s].inf]}

Record(r) ==
  /\ recorder[r].pc = "record"
  /\ \E s \in recorder[r].series : \E d \in Deltas(s.kind) :
       /\ metrics' = [metrics EXCEPT ![recorder[r].metric].main = @ + d.main,
                                     ![recorder[r].metric].inf = @ + d.inf]
       /\ recorded' = [recorded EXCEPT ![s].main = @ + d.main, ![s].inf = @ + d.inf]
       /\ shown' = IF scrape.pc \in {"range", "inf"} THEN shown \cup Held(s)' ELSE shown
  /\ Recording(r, "idle", {}, 0)
  /\ UNCHANGED <<vector, registry, records, scrape>>
-----------------------------------------------------------------------------
(* spack *)

Token(digit, more, text, value) == [digit |-> digit, more |-> more, text |-> text, value |-> value]
Text(t) == Token(0, FALSE, t, 0)
Number(v) == Token(0, FALSE, "", v)

Leb[v \in Nat] ==
  IF v < LebBase THEN <<Token(v, FALSE, "", 0)>>
  ELSE <<Token(v % LebBase, TRUE, "", 0)>> \o Leb[v \div LebBase]
writeULEB128(v) == Leb[v]

\* One counter numbers the names and the values.
writeLabelPool_Shared(se, name, value) ==
  LET names  == IF Contains(se.names, name) THEN se.names ELSE Append(se.names, name)
      values == IF Contains(se.values, value) THEN se.values ELSE Append(se.values, value)
  IN [se EXCEPT !.names = names, !.values = values,
                !.nameCounter = Len(names) + Len(values), !.valueCounter = Len(names) + Len(values),
                !.namesIdx = IF name \in DOMAIN @ THEN @ ELSE @ @@ (name :> se.nameCounter),
                !.valuesIdx = IF value \in DOMAIN @ THEN @ ELSE @ @@ (value :> se.valueCounter)]

\* A name and a value are put into their pools once, numbered from 0.
writeLabelPool(se, name, value) ==
  LET newName  == name \notin DOMAIN se.namesIdx
      newValue == value \notin DOMAIN se.valuesIdx
  IN [se EXCEPT !.names = IF newName THEN Append(@, name) ELSE @,
                !.values = IF newValue THEN Append(@, value) ELSE @,
                !.nameCounter = IF newName THEN @ + 1 ELSE @,
                !.valueCounter = IF newValue THEN @ + 1 ELSE @,
                !.namesIdx = IF newName THEN @ @@ (name :> se.nameCounter) ELSE @,
                !.valuesIdx = IF newValue THEN @ @@ (value :> se.valueCounter) ELSE @]

\* The labels of the metric that is being written, and how many they are.
writeLabel(se, name, value) ==
  LET pooled == writeLabelPool(se, name, value)
  IN [pooled EXCEPT !.count = @ + 1,
                    !.labels = @ \o writeULEB128(pooled.namesIdx[name])
                                 \o writeULEB128(pooled.valuesIdx[value])]

\* writeHistogram leaves out what is above the last bound.
writeValue(m) ==
  IF m.series.kind = "histogram" THEN writeULEB128(1) \o <<Number(1), Number(m.main)>> ELSE <<Number(m.main)>>

writeMetric(se, m) ==
  <<Text(m.series.kind)>> \o writeULEB128(se.count) \o se.labels \o writeValue(m)

\* The name of a metric is the first of its labels; a map gives the others in any
\* order, here one order for all metrics.
writeLabels(snapshots, order) ==
  LET write(se, m) ==
        LET named  == writeLabel([se EXCEPT !.count = 0, !.labels = <<>>], NameTag, m.series.name)
            tags   == SelectSeq(order, LAMBDA t : t \in DOMAIN m.series.tags)
            tagged == FoldLeft(LAMBDA e, t : writeLabel(e, t, m.series.tags[t]), named, tags)
        IN [tagged EXCEPT !.data = @ \o writeMetric(tagged, m)]
  IN FoldLeft(write, [names |-> <<>>, values |-> <<>>, nameCounter |-> 0, valueCounter |-> 0,
                      namesIdx |-> <<>>, valuesIdx |-> <<>>, count |-> 0, labels |-> <<>>, data |-> <<>>],
              snapshots)

\* The header has the sizes of the pools and the number of metrics; there is no time
\* and there are no common labels.
Encode(snapshots, order) ==
  LET se == writeLabels(snapshots, order)
  IN <<Number(Len(se.names)), Number(Len(se.values)), Number(Len(snapshots))>>
     \o [i \in DOMAIN se.names |-> Text(se.names[i])] \o [i \in DOMAIN se.values |-> Text(se.values[i])]
     \o <<Number(0), Number(0)>> \o se.data

\* The header is not compressed; the rest is in frames, and an empty one ends it.
Compress(tokens) ==
  LET write(w, t) == IF Len(w.buffer) = FrameLength
                     THEN [frames |-> Append(w.frames, w.buffer), buffer |-> <<t>>]
                     ELSE [w EXCEPT !.buffer = Append(@, t)]
      w == FoldLeft(write, [frames |-> <<SubSeq(tokens, 1, 3)>>, buffer |-> <<>>],
                    SubSeq(tokens, 4, Len(tokens)))
  IN w.frames \o <<w.buffer, <<>>>>
-----------------------------------------------------------------------------
(* A scrape *)

Mark(t) == [mark |-> t]

\* ServeHTTP: the format that the headers accept.
ServeHTTP ==
  /\ scrape.pc = "idle"
  /\ \E format \in {"json", "spack", "lz4"} :
       scrape' = [NoScrape EXCEPT !.pc = "range", !.format = format, !.must = DOMAIN registry,
                                  !.stream = IF format = "json" THEN <<Mark("open")>> ELSE <<>>]
  /\ shown' = UNION {Held(s) : s \in Series}
  /\ UNCHANGED <<metrics, vector, registry, recorder, records, recorded>>

\* A step of Range of a sync.Map, which visits a series at most once, and those that
\* are added meanwhile or not.  Snapshot and MarshalJSON copy the buckets, then inf.
Visit ==
  /\ scrape.pc = "range"
  /\ \E s \in DOMAIN registry \ scrape.visited :
       scrape' = [scrape EXCEPT !.pc = "inf", !.visited = @ \cup {s},
                                !.snapshots = Append(@, [metrics[registry[s]] EXCEPT !.inf = 0])]
  /\ UNCHANGED <<metrics, vector, registry, recorder, records, recorded, shown>>

\* The labels of a metric in JSON.
Labels(s) == s.tags @@ (NameTag :> s.name)

Separated(stream) == IF Len(stream) > 1 THEN Append(stream, Mark("comma")) ELSE stream

\* Gather keeps the snapshot, StreamJSON writes it.
Copied ==
  /\ scrape.pc = "inf"
  /\ LET last == Last(scrape.snapshots)
         copy == [last EXCEPT !.inf = metrics[registry[last.series]].inf]
     IN scrape' = IF scrape.format = "json"
                  THEN [scrape EXCEPT !.pc = "range", !.snapshots = <<>>,
                          !.stream = Append(Separated(@), [kind |-> copy.series.kind, main |-> copy.main,
                                                           labels |-> Labels(copy.series), inf |-> copy.inf])]
                  ELSE [scrape EXCEPT !.pc = "range", !.snapshots = Append(Front(@), copy)]
  /\ UNCHANGED <<metrics, vector, registry, recorder, records, recorded, shown>>

\* The rest of a stream.  Encode works on the snapshots only.
Finish ==
  /\ scrape.pc = "range" /\ scrape.must \subseteq scrape.visited
  /\ \E order \in SetToSeqs(UNION {DOMAIN m.series.tags : m \in Range(scrape.snapshots)}) :
       LET tokens == Encode(scrape.snapshots, order)
       IN scrape' = [scrape EXCEPT !.pc = "over", !.snapshots = <<>>,
            !.stream = CASE scrape.format = "json" -> Append(@, Mark("close"))
                         [] scrape.format = "spack" -> tokens
                         [] OTHER -> Compress(tokens)]
  /\ UNCHANGED <<metrics, vector, registry, recorder, records, recorded, shown>>

\* The client is gone, or a write fails: the error is logged, and what was written
\* stays a prefix of the stream.
Cut ==
  /\ scrape.pc \in {"range", "over"} /\ scrape.format # "none"
  /\ \/ /\ scrape.format = "json" /\ scrape.pc = "range"
        /\ \E stream \in {<<>>, scrape.stream, Separated(scrape.stream)} :
             scrape' = [scrape EXCEPT !.pc = "cut", !.snapshots = <<>>, !.stream = stream]
     \/ /\ scrape.format # "json" /\ scrape.pc = "over"
        /\ \E n \in 0 .. Len(scrape.stream) - 1 :
             scrape' = [scrape EXCEPT !.pc = "cut", !.stream = SubSeq(@, 1, n)]
  /\ UNCHANGED <<metrics, vector, registry, recorder, records, recorded, shown>>

MetricsNext ==
  \/ \E r \in Recorders : LookUp(r) \/ Create(r) \/ Record(r)
  \/ ServeHTTP \/ Visit \/ Copied \/ Finish \/ Cut
-----------------------------------------------------------------------------
(* What a client reads: the entries of a stream, if it is whole.  Reading past the *)
(* end of a stream gives zeros, and leaves the reader behind the end.              *)

At(s, i) == IF i \in DOMAIN s THEN s[i] ELSE Number(0)
Pooled(pool, i) == IF i + 1 \in DOMAIN pool THEN pool[i + 1].text ELSE "none"

ReadULEB128(s, i) ==
  LET k == Min({j \in i .. Len(s) + i : ~At(s, j).more})
  IN [value |-> MapThenSumSet(LAMBDA j : At(s, j).digit * LebBase ^ (j - i), i .. k), next |-> k + 1]

ReadLabel(s, name, names, values, map) ==
  LET value == ReadULEB128(s, name.next)
  IN [next |-> value.next, map |-> map @@ (Pooled(names, name.value) :> Pooled(values, value.value))]

ReadLabels(s, count, names, values) ==
  FoldLeft(LAMBDA l, j : ReadLabel(s, ReadULEB128(s, l.next), names, values, l.map),
           [next |-> count.next, map |-> <<>>], [j \in 1 .. count.value |-> j])

ReadMain(s, kind, map, at) ==
  [entry |-> [kind |-> kind, main |-> At(s, at).value, labels |-> map], next |-> at + 1]

ReadValue(s, kind, labels) ==
  ReadMain(s, kind, labels.map,
           IF kind = "histogram" THEN ReadULEB128(s, labels.next).next + 1 ELSE labels.next)

ReadMetric(s, i, names, values) ==
  ReadValue(s, At(s, i).text, ReadLabels(s, ReadULEB128(s, i + 1), names, values))

ReadMetrics(s, names, values) ==
  LET read(r, m) == [entries |-> Append(r.entries, m.entry), next |-> m.next]
  IN FoldLeft(LAMBDA r, j : read(r, ReadMetric(s, r.next, names, values)),
              [entries |-> <<>>, next |-> 6 + Len(names) + Len(values)],
              [j \in 1 .. At(s, 3).value |-> j])

WholeUpTo(s, all) == [whole |-> all.next = Len(s) + 1, entries |-> all.entries]

ReadSpack(s) ==
  LET names  == [i \in 1 .. At(s, 1).value |-> At(s, 3 + i)]
      values == [i \in 1 .. At(s, 2).value |-> At(s, 3 + At(s, 1).value + i)]
  IN WholeUpTo(s, ReadMetrics(s, names, values))

ReadLz4(s) ==
  [ReadSpack(FlattenSeq(s)) EXCEPT !.whole = @ /\ Len(s) > 1 /\ Last(s) = <<>>]

\* getJSON: brackets, and entries with commas between them.
ReadJSON(s) ==
  [whole |-> /\ Len(s) > 1 /\ s[1] = Mark("open") /\ Last(s) = Mark("close")
             /\ \A i \in 2 .. Len(s) - 1 : (s[i] = Mark("comma")) = (i % 2 = 1),
   entries |-> SelectSeq(s, LAMBDA t : "kind" \in DOMAIN t)]

Received ==
  CASE scrape.format = "json" -> ReadJSON(scrape.stream)
    [] scrape.format = "spack" -> ReadSpack(scrape.stream)
    [] OTHER -> ReadLz4(scrape.stream)

EntriesOf(entries, s) ==
  {i \in DOMAIN entries : entries[i].kind = s.kind /\ entries[i].labels = Labels(s)}

\* What was read is every visited series once, with a value that it had.
Exact(entries) ==
  /\ Len(entries) = Cardinality(scrape.visited)
  /\ \A s \in scrape.visited :
       /\ Cardinality(EntriesOf(entries, s)) = 1
       /\ \A i \in EntriesOf(entries, s) :
            /\ [series |-> s, field |-> "main", value |-> entries[i].main] \in shown
            /\ scrape.format = "json" => [series |-> s, field |-> "inf", value |-> entries[i].inf] \in shown

ExactIfWhole(got) ==
  got.whole = (scrape.pc = "over") /\ (got.whole => Exact(got.entries))

\* A client that can read a scrape, in any of its formats, finds every metric that was
\* registered when the scrape began once, with its labels and a value that it had
\* during the scrape, also while calls record values and make new metrics; of a new
\* metric it finds the same, or nothing.  What a histogram counts above its last bound
\* is in JSON only.  A scrape that was cut short cannot be read, though the handler
\* answers it with a status of 200.
ScrapeIsExact == scrape.pc \in {"over", "cut"} => ExactIfWhole(Received)
=============================================================================
