----------------------------- MODULE CallsProofs -----------------------------
(***************************************************************************)
(* The rows that the handler of a MySQL query passes to its reader, for    *)
(* any number of rows and any capacity of the channel.  The keys of Redis, *)
(* for any keys and fields, any size of the sample and any writes of the   *)
(* other clients.  And what the calls of the service tell their clients    *)
(* and the metrics, for any set of calls: it need not be finite, since at  *)
(* any time only finitely many of them have begun.                         *)
(***************************************************************************)
EXTENDS Calls, MySQLRows, Redis, TLAPS
-----------------------------------------------------------------------------
(* The rows of MySQL *)

\* The part of the types that the argument needs.
RowsType ==
  /\ fetched \in 0 .. NRows
  /\ taken \in Nat
  /\ rowChan \in Seq(Nat)

\* The channel holds the rows between the last one taken and the last one
\* sent; the row in the hands of the handler comes after them.
Contiguous ==
  /\ \A k \in 1 .. Len(rowChan) : rowChan[k] = taken + k
  /\ fetcher = "fetch" => fetched = taken + Len(rowChan)
  /\ fetcher \in {"init", "send"} => fetched = taken + Len(rowChan) + 1
  /\ fetcher \in {"close", "gone"} /\ ~fetchErr => NRows = taken + Len(rowChan)

\* The inductive invariant: the rows are contiguous until the reader gives up.
RowsInv ==
  /\ RowsType
  /\ fetcher \in {"fetch", "init", "send", "close", "gone"}
  /\ rowClosed => fetcher = "gone"
  /\ outcome = "ok" => fetcher = "gone"
  /\ reader # "done" => Contiguous
  /\ reader # "done" => outcome = "none"
  /\ NothingSkipped

\* The rows of a MySQL query start with nothing fetched and nothing read.
LEMMA InitRows == Init => RowsInv
  BY RowsAssumption DEF RowsAssumption, Init, RowsInv, RowsType, Contiguous, NothingSkipped

\* Steps that leave the rows and both ends of the channel alone.
LEMMA Elsewhere ==
  ASSUME RowsInv, UNCHANGED <<fetched, taken, rowChan, rowClosed, fetcher, fetchErr>>,
         \/ reader' = reader /\ outcome' = outcome
         \/ reader # "done" /\ reader' = "next" /\ outcome' = outcome
         \/ reader' = "done" /\ outcome' \in {"error", "panic"}
  PROVE  RowsInv'
  BY DEF RowsInv, RowsType, Contiguous, NothingSkipped

\* The goroutine that fetches the rows keeps the invariant.
LEMMA FetcherStep == RowsInv /\ Fetcher => RowsInv'
<1> SUFFICES ASSUME RowsInv, Fetcher PROVE RowsInv'
  OBVIOUS
<1> USE RowsAssumption DEF RowsAssumption, readVars
<1>1. CASE FetchRow
  BY <1>1 DEF FetchRow, RowsInv, RowsType, Contiguous, NothingSkipped
<1>2. CASE InitTypes
  BY <1>2 DEF InitTypes, RowsInv, RowsType, Contiguous, NothingSkipped
<1>3. CASE SendRow
  <2>1. /\ fetcher = "send" /\ fetcher' = "fetch"
        /\ rowChan' = Append(rowChan, fetched)
        /\ UNCHANGED <<fetched, rowClosed, fetchErr, reader, taken, outcome>>
    BY <1>3 DEF SendRow
  <2>2. /\ rowChan' \in Seq(Nat)
        /\ Len(rowChan) \in Nat /\ Len(rowChan') = Len(rowChan) + 1
        /\ rowChan'[Len(rowChan) + 1] = fetched
        /\ \A k \in 1 .. Len(rowChan) : rowChan'[k] = rowChan[k]
    BY <2>1 DEF RowsInv, RowsType
  <2>3. ASSUME reader # "done" PROVE Contiguous'
    <3>1. /\ fetched = taken + Len(rowChan) + 1 /\ taken \in Nat
          /\ \A k \in 1 .. Len(rowChan) : rowChan[k] = taken + k
      BY <2>1, <2>3 DEF RowsInv, RowsType, Contiguous
    <3>2. ASSUME NEW k \in 1 .. Len(rowChan') PROVE rowChan'[k] = taken' + k
      <4>1. CASE k = Len(rowChan) + 1
        BY <4>1, <2>1, <2>2, <3>1
      <4>2. CASE k \in 1 .. Len(rowChan)
        BY <4>2, <2>1, <2>2, <3>1
      <4> QED
        BY <4>1, <4>2, <2>2
    <3>3. fetched' = taken' + Len(rowChan')
      BY <2>1, <2>2, <3>1
    <3> QED
      BY <2>1, <3>2, <3>3 DEF Contiguous
  <2> QED
    BY <2>1, <2>2, <2>3 DEF RowsInv, RowsType, NothingSkipped
<1>4. CASE SendCanceled
  BY <1>4 DEF SendCanceled, FetchReturns, RowsInv, RowsType, Contiguous, NothingSkipped
<1>5. CASE FetchEnds
  <2>1. /\ fetcher = "fetch" /\ fetcher' = "close"
        /\ UNCHANGED <<fetched, taken, rowChan, rowClosed, reader, outcome>>
        /\ fetched = NRows \/ fetchErr'
    BY <1>5 DEF FetchEnds, FetchReturns
  <2>2. reader # "done" => Contiguous'
    BY <2>1 DEF RowsInv, RowsType, Contiguous
  <2>3. ~rowClosed
    BY <2>1 DEF RowsInv
  <2>4. NothingSkipped'
    BY <2>1 DEF RowsInv, NothingSkipped
  <2> QED
    BY <2>1, <2>2, <2>3, <2>4 DEF RowsInv, RowsType
<1>6. CASE CloseChannels
  BY <1>6 DEF CloseChannels, RowsInv, RowsType, Contiguous, NothingSkipped
<1> QED
  BY <1>1, <1>2, <1>3, <1>4, <1>5, <1>6 DEF Fetcher

\* The reader of the rows (Next, Scan, Close) keeps the invariant.
LEMMA ReaderStep == RowsInv /\ Reader => RowsInv'
<1> SUFFICES ASSUME RowsInv, Reader PROVE RowsInv'
  OBVIOUS
<1> USE RowsAssumption DEF RowsAssumption, Finish, fetchVars
<1>1. CASE TakeTypes
  BY <1>1, Elsewhere DEF TakeTypes
<1>2. CASE TakeFetchErr
  BY <1>2, Elsewhere DEF TakeFetchErr
<1>3. CASE TransformCanceled
  BY <1>3, Elsewhere DEF TransformCanceled
<1>4. CASE ScanRow
  <2>1. /\ reader = "next" /\ rowChan # <<>> /\ rowChan' = Tail(rowChan)
        /\ UNCHANGED <<fetched, rowClosed, fetcher, fetchErr>>
    BY <1>4 DEF ScanRow
  <2>2. /\ rowChan' \in Seq(Nat) /\ Len(rowChan) \in Nat
        /\ Len(rowChan') = Len(rowChan) - 1
        /\ \A k \in 1 .. Len(rowChan') : rowChan'[k] = rowChan[k + 1]
        /\ Head(rowChan) = rowChan[1] /\ 1 <= Len(rowChan)
    BY <2>1 DEF RowsInv, RowsType
  <2>3. Head(rowChan) = taken + 1
    BY <2>1, <2>2 DEF RowsInv, Contiguous
  <2>4. CASE taken' = taken + 1 /\ UNCHANGED <<reader, outcome>>
    <3>1. Contiguous'
      BY <2>1, <2>2, <2>4 DEF RowsInv, RowsType, Contiguous
    <3> QED
      <4>1. RowsType'
        BY <2>1, <2>2, <2>4 DEF RowsInv, RowsType
      <4>2. NothingSkipped'
        BY <2>1, <2>4 DEF RowsInv, NothingSkipped
      <4> QED
        BY <2>1, <2>4, <3>1, <4>1, <4>2, Zenon DEF RowsInv
  <2>5. CASE taken' = taken /\ reader' = "done" /\ outcome' \in {"error", "panic"}
    BY <2>1, <2>2, <2>5 DEF RowsInv, RowsType, NothingSkipped
  <2> QED
    BY <1>4, <2>3, <2>4, <2>5 DEF ScanRow
<1>5. CASE EndOfRows
  BY <1>5 DEF EndOfRows, RowsInv, RowsType, Contiguous, NothingSkipped
<1> QED
  BY <1>1, <1>2, <1>3, <1>4, <1>5 DEF Reader

\* Every read that ends well, of a select that did not fail, has taken the
\* whole result set, for every number of rows, every capacity of rowChan and
\* every moment of cancellation (connection.go, rows.go).
THEOREM RowsComplete == Spec => []NothingSkipped
<1>1. RowsInv /\ [Next]_vars => RowsInv'
  <2> SUFFICES ASSUME RowsInv, [Next]_vars PROVE RowsInv'
    OBVIOUS
  <2>1. CASE Cancel
    BY <2>1, Elsewhere DEF Cancel, fetchVars, readVars
  <2>2. CASE UNCHANGED vars
    BY <2>2, Elsewhere DEF vars
  <2> QED
    BY <2>1, <2>2, FetcherStep, ReaderStep DEF Next
<1>2. RowsInv => NothingSkipped
  BY DEF RowsInv
<1> QED
  BY InitRows, <1>1, <1>2, PTL DEF Spec
-----------------------------------------------------------------------------
(* Redis *)

Describing == {"accumulate", "analyze", "described"}
Reading == {"scan", "types", "strings", "hashes"}

\* The part of the types that the argument needs.
RedisTypeOK ==
  /\ redisPc \in Describing \cup Reading \cup {"done", "failed"}
  /\ DOMAIN redisSchema = {"string", "hash", "fields", "sampled", "count"}
  /\ DOMAIN store = Keys /\ DOMAIN held = Keys
  /\ unseen \subseteq Keys
  /\ \A r \in redisRows : r.key \in Keys
  /\ \A k \in Keys : store[k].type # "hash" => store[k].fields = {}

\* What is in flight is of the server: a reply is a value that its key has held
\* since the read began.
InFlight ==
  /\ redisPc \in Describing => redisRows = {}
  /\ redisPc \in Reading =>
       DOMAIN replies \subseteq Keys /\ \A k \in DOMAIN replies : replies[k] \in held[k]
  /\ redisPc \in Reading \ {"scan"} => todo \subseteq Keys
  /\ redisPc = "strings" => hashKeys \subseteq Keys
  /\ redisPc \in Reading \cup {"done"} => \A k \in Keys : store[k] \in held[k]

\* A key that nobody has written since the read began, and that has a row.
Owed(k) ==
  /\ held[k] = {store[k]}
  /\ store[k].type = "string" \/ (store[k].type = "hash" /\ HashFields # {})

\* Where such a key is until its row is made.
Pending(k) ==
  \/ star /\ k \in unseen
  \/ redisPc = "types" /\ k \in todo \cup DOMAIN replies
  \/ redisPc = "strings" /\ store[k].type = "string" /\ k \in todo \cup DOMAIN replies
  \/ redisPc = "strings" /\ store[k].type = "hash" /\ k \in hashKeys
  \/ redisPc = "hashes" /\ store[k].type = "hash" /\ k \in todo \cup DOMAIN replies

Shown ==
  redisPc \in Reading \cup {"done"} =>
    \A k \in Matching : Owed(k) =>
      \/ RowOf(k, store[k]) \in redisRows
      \/ redisPc # "done" /\ Pending(k)

\* Where a key of the sample that nobody has written is until its fields are known.
FieldsKnown ==
  /\ redisPc \in {"accumulate", "analyze"} => \A k, l \in hashKeys : k = l
  /\ redisPc \notin {"accumulate", "failed"} =>
       \A k \in Keys \cap untouched \cap redisSchema.sampled :
         \/ redisPc = "analyze" /\ k \in todo \cup hashKeys
         \/ store[k].fields \subseteq redisSchema.fields

\* The inductive invariant.
RedisInv == RedisTypeOK /\ InFlight /\ Shown /\ FieldsKnown /\ RowsAreReal
-----------------------------------------------------------------------------
\* SCAN with a pattern yields keys of the database.
LEMMA MatchingKeys == Matching \subseteq Keys
  BY RedisAssumption DEF Matching, RedisAssumption

\* A row is known by its key, its value and the columns of the request.
LEMMA RowsKept ==
  ASSUME items' = items, redisSchema'.fields = redisSchema.fields
  PROVE  HashFields' = HashFields /\ \A k, v : RowOf(k, v)' = RowOf(k, v)
<1>1. HashFields' = HashFields
  BY DEF HashFields
<1> QED
  BY <1>1 DEF RowOf, Row

\* A row carries the key it was read from.
LEMMA RowKey == \A k, v : RowOf(k, v).key = k
  BY DEF RowOf, Row

\* The rows that were real stay real while the values of the read are kept.
LEMMA StaysReal ==
  ASSUME RowsAreReal, redisRows' = redisRows, UNCHANGED <<items, redisSchema>>,
         \A r \in redisRows : held[r.key] \subseteq held'[r.key]
  PROVE  RowsAreReal'
<1>1. \A k, v : RowOf(k, v)' = RowOf(k, v)
  BY RowsKept
<1> QED
  BY <1>1 DEF RowsAreReal

\* Only a hash has fields.
LEMMA NewValue ==
  ASSUME NEW n, NEW v \in NewValues(n)
  PROVE  v.type # "hash" => v.fields = {}
  BY DEF NewValues, Value, Missing

\* What a SCAN gives is of the server, and what is there and passed is given.
LEMMA ScanKeys ==
  ASSUME unseen \subseteq Keys, NEW s \in Scans
  PROVE  /\ s.left \subseteq Keys /\ s.keys \subseteq Keys
         /\ \A k \in unseen \ s.left : store[k].type # "none" => k \in s.keys
  BY DEF Scans

\* Nothing is read when the split starts.
LEMMA RedisInitInv == RedisInit => RedisInv
<1> SUFFICES ASSUME RedisInit PROVE RedisInv
  OBVIOUS
<1>1. RedisTypeOK
  BY NewValue DEF RedisInit, RedisTypeOK, Describing, NoKeysSpec
<1> QED
  BY <1>1 DEF RedisInit, RedisInv, InFlight, Shown, FieldsKnown, RowsAreReal, Describing, Reading

\* A write of another client in the middle of the read keeps the invariant.
LEMMA WriteStep == RedisInv /\ RedisWrite => RedisInv'
<1> SUFFICES ASSUME RedisInv, RedisWrite PROVE RedisInv'
  OBVIOUS
<1>1. PICK w \in Keys, v \in NewValues(writes + 1) :
        /\ store' = [store EXCEPT ![w] = v]
        /\ held' = [held EXCEPT ![w] = @ \cup {v}]
        /\ untouched' = untouched \ {w}
  BY Zenon DEF RedisWrite
<1>2. UNCHANGED <<star, unseen, todo, replies, hashKeys, redisSchema, items, redisRows, redisPc>>
  BY DEF RedisWrite
<1>3. RedisTypeOK /\ InFlight
  BY DEF RedisInv
<1>4. /\ \A k \in Keys : k # w => store'[k] = store[k] /\ held'[k] = held[k]
      /\ store'[w] = v /\ held'[w] = held[w] \cup {v}
      /\ DOMAIN store' = Keys /\ DOMAIN held' = Keys
  BY <1>1, <1>3 DEF RedisTypeOK
<1>5. v.type # "hash" => v.fields = {}
  BY NewValue
<1>6. RedisTypeOK'
  BY <1>2, <1>3, <1>4, <1>5 DEF RedisTypeOK
<1>7. InFlight'
  BY <1>2, <1>3, <1>4 DEF InFlight
<1>8. Shown'
  <2> SUFFICES ASSUME redisPc \in Reading \cup {"done"}, NEW k \in Matching, Owed(k)'
               PROVE  RowOf(k, store[k])' \in redisRows \/ (redisPc # "done" /\ Pending(k)')
    BY <1>2 DEF Shown, Matching
  <2>1. k \in Keys /\ store[k] \in held[k]
    BY <1>3, MatchingKeys DEF InFlight
  <2>2. held'[k] = {store'[k]}
    BY DEF Owed
  <2>3. store'[k] = store[k] /\ held[k] = {store[k]}
    BY <1>4, <2>1, <2>2
  <2>4. HashFields' = HashFields /\ RowOf(k, store[k])' = RowOf(k, store[k])
    BY <1>2, <2>3, RowsKept DEF RowOf, Row, HashFields
  <2>5. Owed(k)
    BY <2>3, <2>4 DEF Owed
  <2>6. RowOf(k, store[k]) \in redisRows \/ (redisPc # "done" /\ Pending(k))
    BY <2>5 DEF RedisInv, Shown
  <2>7. Pending(k) => Pending(k)'
    BY <1>2, <2>3 DEF Pending
  <2> QED
    BY <2>4, <2>6, <2>7
<1>9. FieldsKnown'
  BY <1>1, <1>2, <1>4 DEF RedisInv, FieldsKnown
<1>10. RowsAreReal'
  <2>1. \A r \in redisRows : held[r.key] \subseteq held'[r.key]
    BY <1>3, <1>4 DEF RedisTypeOK
  <2> QED
    BY <1>2, <2>1, StaysReal DEF RedisInv
<1> QED
  BY <1>6, <1>7, <1>8, <1>9, <1>10 DEF RedisInv

\* A step that leaves the server, the rows and the columns alone.
LEMMA RedisElsewhere ==
  ASSUME RedisInv,
         UNCHANGED <<star, store, untouched, held, redisSchema, items, redisRows>>,
         redisPc' \in Describing \cup Reading \cup {"done", "failed"},
         unseen' \subseteq Keys,
         InFlight', FieldsKnown',
         redisPc' \in Reading \cup {"done"} =>
           /\ redisPc \in Reading
           /\ \A k \in Matching : Owed(k) /\ Pending(k) =>
                redisPc' # "done" /\ Pending(k)'
  PROVE  RedisInv'
<1>1. RedisTypeOK'
  BY DEF RedisInv, RedisTypeOK
<1>2. \A k, v : RowOf(k, v)' = RowOf(k, v)
  BY RowsKept
<1>3. RowsAreReal'
  BY StaysReal DEF RedisInv
<1>4. Shown'
  <2> SUFFICES ASSUME redisPc' \in Reading \cup {"done"}, NEW k \in Matching, Owed(k)'
               PROVE  RowOf(k, store[k])' \in redisRows \/ (redisPc' # "done" /\ Pending(k)')
    BY DEF Shown, Matching
  <2>1. RowOf(k, store[k])' = RowOf(k, store[k]) /\ Owed(k)
    BY <1>2, RowsKept DEF Owed, RowOf, Row, HashFields
  <2> QED
    BY <2>1 DEF RedisInv, Shown, Reading
<1> QED
  BY <1>1, <1>3, <1>4 DEF RedisInv

\* A failing command ends the read and keeps the invariant.
LEMMA RedisFailsStep == RedisInv /\ RedisFails => RedisInv'
<1> SUFFICES ASSUME RedisInv, RedisFails PROVE RedisInv'
  OBVIOUS
<1>1. InFlight' /\ FieldsKnown'
  BY DEF RedisFails, InFlight, FieldsKnown, Describing, Reading
<1>2. unseen' \subseteq Keys
  BY DEF RedisInv, RedisTypeOK, RedisFails
<1> QED
  BY <1>1, <1>2, RedisElsewhere DEF RedisFails, Reading

\* The steps of DescribeTable: no row is read yet.
LEMMA DescribeStep ==
  ASSUME RedisInv, accumulateKeys \/ analyzeType \/ analyzeFields \/ analyzed
  PROVE  RedisInv'
<1>1. /\ redisPc \in {"accumulate", "analyze"}
      /\ redisPc' \in Describing \cup {"failed"}
      /\ UNCHANGED <<star, store, untouched, held, items, redisRows>>
  BY Zenon DEF accumulateKeys, analyzeType, analyzeFields, analyzed, Describing
<1>2. redisRows = {} /\ RedisTypeOK
  BY <1>1 DEF RedisInv, InFlight, Describing
<1>3. RedisTypeOK'
  <2>1. unseen' = unseen \/ \E s \in Scans : unseen' = s.left
    BY Zenon DEF accumulateKeys, analyzeType, analyzeFields, analyzed
  <2>3. unseen' \subseteq Keys
    BY <1>2, <2>1, ScanKeys DEF RedisTypeOK
  <2>2. DOMAIN redisSchema' = {"string", "hash", "fields", "sampled", "count"}
    BY <1>2, Zenon DEF accumulateKeys, analyzeType, analyzeFields, analyzed, RedisTypeOK
  <2> QED
    BY <1>1, <1>2, <2>2, <2>3 DEF RedisTypeOK, Reading
<1>4. InFlight' /\ Shown' /\ RowsAreReal'
  BY <1>1, <1>2 DEF InFlight, Shown, RowsAreReal, Describing, Reading
<1>5. FieldsKnown'
  <2>1. CASE accumulateKeys
    <3>1. redisPc' = "described" => todo' = {} /\ todo' = redisSchema'.sampled
      BY <2>1, Zenon DEF accumulateKeys
    <3>2. redisPc' = "analyze" => todo' = redisSchema'.sampled /\ hashKeys' = hashKeys
      BY <1>2, <2>1, Zenon DEF accumulateKeys, RedisTypeOK
    <3> QED
      BY <1>1, <2>1, <3>1, <3>2, Zenon DEF RedisInv, FieldsKnown, accumulateKeys, Describing
  <2>2. CASE analyzeType
    <3>1. PICK k \in todo :
            /\ todo' = todo \ {k}
            /\ hashKeys' = IF store[k].type = "hash" THEN {k} ELSE {}
      BY <2>2, Zenon DEF analyzeType
    <3>2. redisSchema'.sampled = redisSchema.sampled /\ redisSchema'.fields = redisSchema.fields
      BY <1>2, <2>2, Zenon DEF analyzeType, RedisTypeOK
    <3>3. hashKeys = {} /\ redisPc = "analyze" /\ redisPc' = "analyze"
      BY <2>2, Zenon DEF analyzeType
    <3> QED
      BY <1>1, <1>2, <3>1, <3>2, <3>3 DEF RedisInv, FieldsKnown, RedisTypeOK
  <2>3. CASE analyzeFields
    <3>1. redisPc = "analyze" /\ hashKeys' = {} /\ todo' = todo
      BY <2>3 DEF analyzeFields
    <3>2. CASE redisPc' # "failed"
      <4>1. PICK k \in hashKeys :
              redisSchema' = [redisSchema EXCEPT !.fields = @ \cup store[k].fields] /\ redisPc' = redisPc
        BY <2>3, <3>2 DEF analyzeFields
      <4>2. /\ redisSchema'.sampled = redisSchema.sampled
            /\ redisSchema'.fields = redisSchema.fields \cup store[k].fields
        BY <1>2, <4>1 DEF RedisTypeOK
      <4>3. \A l \in hashKeys : l = k
        BY <3>1 DEF RedisInv, FieldsKnown
      <4> QED
        BY <1>1, <3>1, <4>1, <4>2, <4>3 DEF RedisInv, FieldsKnown
    <3>3. CASE redisPc' = "failed"
      BY <3>3 DEF FieldsKnown
    <3> QED
      BY <3>2, <3>3
  <2>4. CASE analyzed
    BY <1>1, <2>4 DEF analyzed, RedisInv, FieldsKnown
  <2> QED
    BY <2>1, <2>2, <2>3, <2>4
<1> QED
  BY <1>3, <1>4, <1>5 DEF RedisInv

\* ReadSplit, which starts the scan, keeps the invariant.
LEMMA ReadSplitStep == RedisInv /\ ReadSplit => RedisInv'
<1> SUFFICES ASSUME RedisInv, ReadSplit PROVE RedisInv'
  OBVIOUS
<1>1. /\ redisPc = "described" /\ redisPc' \in {"scan", "types"} /\ redisRows = {}
      /\ UNCHANGED <<star, store, untouched, redisSchema, redisRows>>
      /\ held' = [k \in Keys |-> {store[k]}] /\ unseen' = Keys
  BY DEF RedisInv, InFlight, ReadSplit, Describing
<1>2. RedisTypeOK'
  BY <1>1 DEF RedisInv, RedisTypeOK, Reading
<1>3. InFlight'
  BY <1>1, MatchingKeys DEF InFlight, ReadSplit, NoReplies, Describing, Reading
<1>4. Shown'
  <2>1. Matching' = Matching /\ unseen' = Keys /\ UNCHANGED star
    BY Zenon DEF ReadSplit, Matching
  <2>2. IF star THEN redisPc' = "scan" ELSE redisPc' = "types" /\ todo' = Matching
    BY Zenon DEF ReadSplit
  <2>3. \A k \in Matching' : redisPc' # "done" /\ Pending(k)'
    BY <2>1, <2>2, MatchingKeys DEF Pending
  <2> QED
    BY <2>3, Zenon DEF Shown
<1>5. FieldsKnown' /\ RowsAreReal'
  BY <1>1 DEF RedisInv, FieldsKnown, RowsAreReal
<1> QED
  BY <1>2, <1>3, <1>4, <1>5 DEF RedisInv

\* Where the read is over the schema, the schema and the server are what they were.
LEMMA FieldsStay ==
  ASSUME RedisInv, UNCHANGED <<store, untouched, redisSchema>>,
         redisPc \in Reading, redisPc' \in Reading \cup {"done", "failed"}
  PROVE  FieldsKnown'
  BY DEF RedisInv, FieldsKnown, Reading

\* The TYPE, GET and HGETALL commands keep the invariant.
LEMMA CommandStep ==
  ASSUME RedisInv, redisPc \in {"types", "strings", "hashes"}, RedisCommand
  PROVE  RedisInv'
<1>1. PICK k \in todo :
        /\ todo' = todo \ {k}
        /\ replies' = [x \in DOMAIN replies \cup {k} |-> IF x = k THEN store[k] ELSE replies[x]]
  BY DEF RedisCommand
<1>2. UNCHANGED <<star, store, untouched, held, unseen, hashKeys, redisSchema, items, redisRows,
                  redisPc>>
  BY DEF RedisCommand
<1>3. redisPc \in Reading \ {"scan"} /\ InFlight /\ RedisTypeOK
  BY DEF Reading, RedisInv
<1>4. InFlight'
  <2>1. todo \subseteq Keys /\ DOMAIN replies' \subseteq Keys
    BY <1>1, <1>3 DEF InFlight
  <2>2. \A x \in DOMAIN replies' : replies'[x] \in held[x]
    BY <1>1, <1>3, <2>1 DEF InFlight
  <2> QED
    BY <1>1, <1>2, <1>3, <2>1, <2>2 DEF InFlight
<1>5. FieldsKnown'
  BY <1>2, <1>3, FieldsStay
<1>6. \A x : Pending(x) => Pending(x)'
  BY <1>1, <1>2 DEF Pending
<1> QED
  BY <1>2, <1>3, <1>4, <1>5, <1>6, RedisElsewhere DEF RedisTypeOK, Reading

\* A SCAN reply keeps the invariant.
LEMMA scanKeysStep == RedisInv /\ scanKeys => RedisInv'
<1> SUFFICES ASSUME RedisInv, scanKeys PROVE RedisInv'
  OBVIOUS
<1>1. PICK s \in Scans : unseen' = s.left /\ todo' = s.keys
  BY DEF scanKeys
<1>2. /\ redisPc = "scan" /\ redisPc' = "types" /\ replies' = NoReplies
      /\ UNCHANGED <<star, store, untouched, held, hashKeys, redisSchema, items, redisRows>>
  BY DEF scanKeys
<1>3. /\ s.left \subseteq Keys /\ s.keys \subseteq Keys
      /\ \A k \in unseen \ s.left : store[k].type # "none" => k \in s.keys
  BY ScanKeys DEF RedisInv, RedisTypeOK
<1>4. InFlight'
  BY <1>1, <1>2, <1>3 DEF RedisInv, InFlight, NoReplies, Reading, Describing
<1>5. FieldsKnown'
  BY <1>2, FieldsStay DEF Reading
<1>6. \A k \in Matching : Owed(k) /\ Pending(k) => Pending(k)'
  BY <1>1, <1>2, <1>3 DEF Owed, Pending
<1> QED
  BY <1>1, <1>2, <1>3, <1>4, <1>5, <1>6, RedisElsewhere DEF Reading

\* Sorting the keys of a scan by type keeps the invariant.
LEMMA splitKeysStep == RedisInv /\ splitKeysByType => RedisInv'
<1> SUFFICES ASSUME RedisInv, splitKeysByType PROVE RedisInv'
  OBVIOUS
<1>1. /\ redisPc = "types" /\ redisPc' = "strings" /\ replies' = NoReplies /\ todo = {}
      /\ todo' = Replied("string") /\ hashKeys' = Replied("hash")
      /\ UNCHANGED <<star, store, untouched, held, unseen, redisSchema, items, redisRows>>
  BY DEF splitKeysByType
<1>2. DOMAIN replies \subseteq Keys /\ \A k \in DOMAIN replies : replies[k] \in held[k]
  BY <1>1 DEF RedisInv, InFlight, Reading
<1>3. InFlight'
  BY <1>1, <1>2 DEF RedisInv, InFlight, NoReplies, Replied, Reading, Describing
<1>4. FieldsKnown'
  BY <1>1, FieldsStay DEF Reading
<1>5. \A k \in Matching : Owed(k) /\ Pending(k) => Pending(k)'
  BY <1>1, <1>2 DEF Owed, Pending, Replied
<1>6. unseen' \subseteq Keys
  BY <1>1, Zenon DEF RedisInv, RedisTypeOK
<1> QED
  BY <1>1, <1>3, <1>4, <1>5, <1>6, RedisElsewhere DEF Reading

\* A batch of rows is made of its replies.
LEMMA BatchStep ==
  ASSUME RedisInv, redisPc \in {"strings", "hashes"}, todo = {},
         UNCHANGED <<star, store, untouched, held, unseen, redisSchema, items>>,
         \A k \in DOMAIN replies : replies[k].type \in {"string", "hash", "none"},
         redisRows' = redisRows \cup {RowOf(k, replies[k]) : k \in DOMAIN replies},
         redisPc' \in {"scan", "hashes", "done"}, redisPc' = "done" => ~(star /\ unseen # {}),
         replies' = NoReplies, todo' \subseteq Keys,
         \A k \in Matching : Owed(k) /\ redisPc = "strings" /\ store[k].type = "hash" /\ k \in hashKeys
           => redisPc' = "hashes" /\ k \in todo'
  PROVE  RedisInv'
<1>0. \A k, v : RowOf(k, v)' = RowOf(k, v)
  BY RowsKept
<1>1. DOMAIN replies \subseteq Keys /\ \A k \in DOMAIN replies : replies[k] \in held[k]
  BY Zenon DEF RedisInv, InFlight, Reading
<1>2. RedisTypeOK'
  <2>1. \A r \in redisRows' : r.key \in Keys
    <3>1. \A r \in redisRows : r.key \in Keys
      BY Zenon DEF RedisInv, RedisTypeOK
    <3>2. \A r \in redisRows' : r \in redisRows \/ \E k \in DOMAIN replies : r = RowOf(k, replies[k])
      BY Zenon
    <3> QED
      BY <1>1, <3>1, <3>2, RowKey
  <2> QED
    BY <2>1 DEF RedisInv, RedisTypeOK, Reading
<1>3. InFlight'
  BY DEF RedisInv, InFlight, NoReplies, Reading, Describing
<1>4. FieldsKnown'
  BY FieldsStay DEF Reading
<1>5. RowsAreReal'
  <2> SUFFICES ASSUME NEW r \in redisRows'
               PROVE  \E v \in held[r.key] :
                        v.type \in {"string", "hash", "none"} /\ r = RowOf(r.key, v)
    BY <1>0 DEF RowsAreReal
  <2>1. CASE r \in redisRows
    BY <2>1 DEF RedisInv, RowsAreReal
  <2>2. ASSUME NEW k \in DOMAIN replies, r = RowOf(k, replies[k])
        PROVE  \E v \in held[r.key] : v.type \in {"string", "hash", "none"} /\ r = RowOf(r.key, v)
    <3>1. r.key = k
      BY <2>2, RowKey
    <3> QED
      BY <1>1, <2>2, <3>1
  <2> QED
    BY <2>1, <2>2
<1>6. Shown'
  <2> SUFFICES ASSUME NEW k \in Matching, Owed(k)'
               PROVE  RowOf(k, store[k])' \in redisRows' \/ (redisPc' # "done" /\ Pending(k)')
    BY Zenon DEF Shown, Matching
  <2>1. RowOf(k, store[k])' = RowOf(k, store[k]) /\ Owed(k)
    BY <1>0, RowsKept DEF Owed, RowOf, Row, HashFields
  <2>2. CASE RowOf(k, store[k]) \in redisRows
    BY <2>1, <2>2
  <2>3. CASE k \in DOMAIN replies
    BY <1>1, <2>1, <2>3 DEF Owed
  <2>4. CASE star /\ k \in unseen
    BY <2>4, Zenon DEF Pending
  <2>5. CASE redisPc = "strings" /\ store[k].type = "hash" /\ k \in hashKeys
    BY <2>1, <2>5 DEF Pending
  <2> QED
    BY <2>1, <2>2, <2>3, <2>4, <2>5, Zenon DEF RedisInv, Shown, Pending, Reading
<1> QED
  BY <1>2, <1>3, <1>4, <1>5, <1>6 DEF RedisInv

\* The read fails in the middle of a batch, and nothing of the batch is shown.
LEMMA BatchFails ==
  ASSUME RedisInv, redisPc \in Reading, redisPc' = "failed",
         UNCHANGED <<star, store, untouched, held, unseen, redisSchema, items, redisRows>>
  PROVE  RedisInv'
<1>1. InFlight' /\ FieldsKnown'
  BY DEF InFlight, FieldsKnown, Describing, Reading
<1>2. unseen' \subseteq Keys
  BY DEF RedisInv, RedisTypeOK
<1> QED
  BY <1>1, <1>2, RedisElsewhere DEF Reading

\* Appending the rows of the string keys keeps the invariant.
LEMMA processStringsStep == RedisInv /\ processStringKeys => RedisInv'
<1> SUFFICES ASSUME RedisInv, processStringKeys PROVE RedisInv'
  OBVIOUS
<1>1. CASE redisPc' = "failed"
  BY <1>1, BatchFails DEF processStringKeys, Reading
<1>2. CASE redisPc' # "failed"
  <2>1. /\ redisPc = "strings" /\ todo = {} /\ redisPc' = "hashes" /\ replies' = NoReplies
        /\ DOMAIN replies = Replied("string")
        /\ redisRows' = redisRows \cup {StringRow(k) : k \in DOMAIN replies}
        /\ todo' = IF HashFields = {} THEN {} ELSE hashKeys
        /\ UNCHANGED <<star, store, untouched, held, unseen, redisSchema, items>>
    BY <1>2 DEF processStringKeys
  <2>2. \A k \in DOMAIN replies : replies[k].type = "string" /\ StringRow(k) = RowOf(k, replies[k])
    BY <2>1 DEF Replied, StringRow, RowOf
  <2>3. redisRows' = redisRows \cup {RowOf(k, replies[k]) : k \in DOMAIN replies}
    BY <2>1, <2>2
  <2>4. todo' \subseteq Keys
    BY <2>1 DEF RedisInv, InFlight
  <2>5. \A k \in Matching : Owed(k) /\ store[k].type = "hash" /\ k \in hashKeys => k \in todo'
    BY <2>1 DEF Owed
  <2> QED
    BY <2>1, <2>2, <2>3, <2>4, <2>5, BatchStep
<1> QED
  BY <1>1, <1>2

\* Appending the rows of the hash keys keeps the invariant.
LEMMA processHashesStep == RedisInv /\ processHashKeys => RedisInv'
<1> SUFFICES ASSUME RedisInv, processHashKeys PROVE RedisInv'
  OBVIOUS
<1>1. CASE redisPc' = "failed"
  BY <1>1, BatchFails DEF processHashKeys, AfterBatch, Reading
<1>2. CASE redisPc' # "failed"
  <2>1. /\ redisPc = "hashes" /\ todo = {} /\ todo' = {} /\ redisPc' = AfterBatch
        /\ replies' = NoReplies
        /\ DOMAIN replies = Replied("hash") \cup Replied("none")
        /\ redisRows' = redisRows \cup {HashRow(k) : k \in DOMAIN replies}
        /\ UNCHANGED <<star, store, untouched, held, unseen, redisSchema, items>>
    BY <1>2 DEF processHashKeys
  <2>2. \A k \in DOMAIN replies :
          replies[k].type \in {"hash", "none"} /\ HashRow(k) = RowOf(k, replies[k])
    BY <2>1, Zenon DEF Replied, HashRow, RowOf
  <2>3. redisRows' = redisRows \cup {RowOf(k, replies[k]) : k \in DOMAIN replies}
    BY <2>1, <2>2
  <2>4. redisPc' \in {"scan", "done"} /\ (redisPc' = "done" => ~(star /\ unseen # {}))
    BY <2>1 DEF AfterBatch
  <2> QED
    BY <2>1, <2>2, <2>3, <2>4, BatchStep
<1> QED
  BY <1>1, <1>2

\* Every step of the Redis source keeps the invariant.
LEMMA RedisNextInv == RedisInv /\ [RedisNext]_redisVars => RedisInv'
<1> SUFFICES ASSUME RedisInv, [RedisNext]_redisVars PROVE RedisInv'
  OBVIOUS
<1>1. CASE UNCHANGED redisVars
  BY <1>1 DEF redisVars, RedisInv, RedisTypeOK, InFlight, Shown, FieldsKnown, RowsAreReal, Owed,
              Pending, Matching, HashFields, RowOf, Row
<1> QED
  BY <1>1, WriteStep, RedisFailsStep, DescribeStep, ReadSplitStep, scanKeysStep, splitKeysStep,
     processStringsStep, processHashesStep, CommandStep DEF RedisNext

\* A read of Redis shows every key that nobody wrote meanwhile, and of the others
\* nothing that was not there, for any number of keys and of writes between its
\* SCAN, TYPE, GET and HMGET (readKeys, processStringKeys, processHashKeys); and the
\* fields of every sampled hash that nobody wrote are in the schema (analyzeKeys).
THEOREM ReadsAreExact == RedisSpec => []RowsAreExact
<1>1. RedisInv => RowsAreExact
  <2> SUFFICES ASSUME RedisInv, redisPc = "done", NEW k \in Matching
               PROVE  /\ Owed(k) => RowOf(k, store[k]) \in redisRows
                      /\ k \in untouched \cap redisSchema.sampled =>
                           store[k].fields \subseteq redisSchema.fields
    BY DEF RedisInv, RowsAreExact, StableKeysAreRead, Owed
  <2>1. k \in Keys
    BY MatchingKeys
  <2> QED
    BY <2>1 DEF RedisInv, Shown, FieldsKnown, Reading
<1> QED
  BY <1>1, RedisInitInv, RedisNextInv, PTL DEF RedisSpec
-----------------------------------------------------------------------------
(* Calls *)

Places == {"idle", "receive", "handle", "source", "answer", "return", "panic", "over"}
Running == {"receive", "handle", "source", "answer", "return", "panic"}
ErrorStatuses == Statuses \ {"OK", "transport error"}

CallRecords ==
  [pc : Places, method : Methods \cup {"none"}, kind : Kinds \cup {"none"},
   reply : Statuses \cup {"none"}, answer : Statuses \cup {"none"}, failed : BOOLEAN]

\* What a call knows of its own failure, by its place.
CallOK(x) ==
  /\ x.pc # "idle" => x.method \in Methods
  /\ x.pc = "idle" => x.kind = "none"
  /\ x.pc = "receive" => x.method \notin Unary
  /\ x.pc = "source" => x.kind # "none"
  /\ x.method \notin Unary => x.kind \in {"none", "UNSPECIFIED"}
  /\ x.pc = "answer" => x.reply \in Statuses \ {"transport error"}
  /\ x.failed => x.pc \in {"answer", "return", "panic", "over"}
  /\ x.failed /\ x.pc = "answer" =>
       x.reply \in ErrorStatuses /\ (x.reply = "UNSPECIFIED" => x.kind = "MONGO_DB")
  /\ x.failed /\ x.pc \in {"return", "over"} =>
       /\ x.answer \in Statuses \ {"OK"}
       /\ x.answer = "UNSPECIFIED" => x.kind = "MONGO_DB" /\ x.method \in Unary

CallsOK == calls \in [CallIds -> CallRecords] /\ \A c \in CallIds : CallOK(calls[c])

Answered(m, s) == {c \in Calling(m, {"return", "over"}) : calls[c].answer = s}

\* What the metrics have counted of a method.
CountedFor(m) ==
  /\ IsFiniteSet(Calling(m, Running)) /\ IsFiniteSet(Calling(m, {"over"}))
  /\ inflight[m] = Cardinality(Calling(m, Running))
  /\ started[m] = inflight[m] + Cardinality(Calling(m, {"over"}))
  /\ m \in Unary => \A s \in Statuses \ {"transport error"} :
       IsFiniteSet(Answered(m, s)) /\ statuses[m][s] = Cardinality(Answered(m, s))

Counters ==
  /\ inflight \in [Methods -> Nat] /\ started \in [Methods -> Nat] /\ panics \in [Methods -> Nat]
  /\ statuses \in [Methods -> [Statuses -> Nat]]

Counted == Counters /\ \A m \in Methods : CountedFor(m)

\* A failure that is on its way to the client has been counted.
Noticed ==
  \A c \in CallIds : calls[c].failed /\ calls[c].pc \in {"return", "over"} =>
    \/ panics[calls[c].method] > 0
    \/ \E s \in Statuses \ {"OK"} : statuses[calls[c].method][s] > 0

\* The inductive invariant.
CallsInv == CallsOK /\ Counted /\ Noticed
\* The translation of an error, whichever it is and of whichever source, panics or
\* gives a status of an error, which is set unless the source is MongoDB.
LEMMA ErrorStatus ==
  ASSUME NEW err, NEW kind, NEW status, status = NewAPIErrorFromStdError(err, kind),
         status # Panicked
  PROVE  status \in ErrorStatuses /\ (status = "UNSPECIFIED" => kind = "MONGO_DB")
<1> DEFINE Own == ErrorStatuses \cup {NotMine, Panicked}
<1>1. /\ newAPIErrorFromClickHouseError(err) \in Own \ {"UNSPECIFIED"}
      /\ newAPIErrorFromPostgreSQLError(err) \in Own \ {"UNSPECIFIED"}
      /\ newAPIErrorFromOracleError(err) \in Own \ {"UNSPECIFIED"}
      /\ newAPIErrorFromMsSQLServer(err) \in Own \ {"UNSPECIFIED"}
  BY DEF newAPIErrorFromClickHouseError, newAPIErrorFromPostgreSQLError, newAPIErrorFromOracleError,
         newAPIErrorFromMsSQLServer, ErrorStatuses, Statuses, NotMine, Panicked
<1>2. /\ newAPIErrorFromMySQLError(err) \in Own \ {"UNSPECIFIED"}
      /\ newAPIErrorFromYdbError(err) \in Own \ {"UNSPECIFIED"}
      /\ newAPIErrorFromRedisError(err) \in Own \ {"UNSPECIFIED"}
      /\ newAPIErrorFromOpenSearchError(err) \in Own \ {"UNSPECIFIED"}
  BY DEF newAPIErrorFromMySQLError, newAPIErrorFromYdbError, newAPIErrorFromRedisError,
         newAPIErrorFromOpenSearchError, ErrorStatuses, Statuses, NotMine, Panicked
<1>3. newAPIErrorFromMongoDbError(err) \in Own
  BY DEF newAPIErrorFromMongoDbError, ErrorStatuses, Statuses
<1>4. /\ newAPIErrorFromTLSError(err) \in {"UNAVAILABLE", NotMine}
      /\ newAPIErrorFromConnectorError(err) \in ErrorStatuses \ {"UNSPECIFIED"}
  BY DEF newAPIErrorFromTLSError, newAPIErrorFromConnectorError, ErrorStatuses, Statuses, NotMine
<1>5. "UNAVAILABLE" \in ErrorStatuses /\ NotMine \notin ErrorStatuses /\ NotMine # Panicked
  BY DEF ErrorStatuses, Statuses, NotMine, Panicked
<1> QED
  BY <1>1, <1>2, <1>3, <1>4, <1>5 DEF NewAPIErrorFromStdError
Is(x, m, pcs) == x.method = m /\ x.pc \in pcs

\* The calls at some places, when one of them has moved.
LEMMA CallingChange ==
  ASSUME NEW c \in CallIds, \A d \in CallIds \ {c} : calls'[d] = calls[d], NEW m, NEW pcs
  PROVE  /\ (Is(calls[c], m, pcs) <=> Is(calls'[c], m, pcs)) => Calling(m, pcs)' = Calling(m, pcs)
         /\ ~Is(calls[c], m, pcs) /\ Is(calls'[c], m, pcs) =>
              Calling(m, pcs)' = Calling(m, pcs) \cup {c} /\ c \notin Calling(m, pcs)
         /\ Is(calls[c], m, pcs) /\ ~Is(calls'[c], m, pcs) =>
              Calling(m, pcs)' = Calling(m, pcs) \ {c} /\ c \in Calling(m, pcs)
  BY DEF Calling, Is

\* The calls at some places, when one moves inside of its handler.
LEMMA RunningKept ==
  ASSUME NEW c \in CallIds, \A d \in CallIds \ {c} : calls'[d] = calls[d],
         calls[c].pc \in Running, calls'[c].pc \in Running, calls'[c].method = calls[c].method
  PROVE  \A m : /\ Calling(m, Running)' = Calling(m, Running)
                /\ Calling(m, {"over"})' = Calling(m, {"over"})
<1> TAKE m
<1>1. /\ Is(calls[c], m, Running) <=> Is(calls'[c], m, Running)
      /\ ~Is(calls[c], m, {"over"}) /\ ~Is(calls'[c], m, {"over"})
  BY DEF Is, Running
<1> QED
  BY <1>1, CallingChange

\* One more call of m has been told s.
OneMoreStatus(m, s) == statuses' = [statuses EXCEPT ![m][s] = @ + 1]

\* One more of a status.
LEMMA StatusCount ==
  ASSUME statuses \in [Methods -> [Statuses -> Nat]], NEW m \in Methods, NEW s \in Statuses,
         OneMoreStatus(m, s)
  PROVE  /\ statuses' \in [Methods -> [Statuses -> Nat]]
         /\ statuses'[m][s] = statuses[m][s] + 1
         /\ \A n \in Methods, t \in Statuses :
              n # m \/ t # s => statuses'[n][t] = statuses[n][t]
         /\ statuses'[m][s] > 0
         /\ \A n \in Methods, t \in Statuses : statuses[n][t] > 0 => statuses'[n][t] > 0
<1>1. statuses' = [statuses EXCEPT ![m] = [statuses[m] EXCEPT ![s] = statuses[m][s] + 1]]
  BY DEF OneMoreStatus
<1>2. [statuses[m] EXCEPT ![s] = statuses[m][s] + 1] \in [Statuses -> Nat]
  OBVIOUS
<1>3. /\ statuses' \in [Methods -> [Statuses -> Nat]]
      /\ statuses'[m][s] = statuses[m][s] + 1 /\ statuses[m][s] \in Nat
      /\ \A n \in Methods, t \in Statuses :
           n # m \/ t # s => statuses'[n][t] = statuses[n][t]
  BY <1>1, <1>2
<1>4. statuses'[m][s] > 0
  BY <1>3
<1>5. \A n \in Methods, t \in Statuses : statuses[n][t] > 0 => statuses'[n][t] > 0
  BY <1>3, <1>4, Zenon
<1> QED
  BY <1>3, <1>4, <1>5, Zenon

\* What a step of the call c makes of it.
Becomes(c, x) == x \in CallRecords /\ CallOK(x) /\ calls' = [calls EXCEPT ![c] = x]

\* A call that moves on leaves the other calls alone.
LEMMA BecomesOK ==
  ASSUME CallsOK, NEW c \in CallIds, NEW x, Becomes(c, x)
  PROVE  CallsOK' /\ calls'[c] = x /\ \A d \in CallIds \ {c} : calls'[d] = calls[d]
  BY DEF CallsOK, Becomes

\* A step inside of a call of which nothing is counted.
LEMMA InnerStep ==
  ASSUME CallsInv, NEW c \in CallIds, NEW x, Becomes(c, x),
         calls[c].pc \in Running, x.pc \in Running, x.method = calls[c].method,
         x.method \in Unary => calls[c].pc # "return" /\ x.pc # "return",
         x.pc = "return" => ~x.failed,
         UNCHANGED <<inflight, started, panics, statuses>>
  PROVE  CallsInv'
<1>1. CallsOK' /\ calls'[c] = x /\ \A d \in CallIds \ {c} : calls'[d] = calls[d]
  BY BecomesOK DEF CallsInv
<1>2. \A m \in Methods :
        Calling(m, Running)' = Calling(m, Running) /\ Calling(m, {"over"})' = Calling(m, {"over"})
  <2>1. calls[c].pc \in Running /\ calls'[c].pc \in Running /\ calls'[c].method = calls[c].method
    BY <1>1, Zenon
  <2> QED
    BY <1>1, <2>1, RunningKept, Zenon
<1>3. \A m \in Unary : \A s : Answered(m, s)' = Answered(m, s)
  <2> TAKE m \in Unary
  <2> TAKE s
  <2>1. \A d \in CallIds : Is(calls'[d], m, {"return", "over"}) /\ calls'[d].answer = s
                       <=> Is(calls[d], m, {"return", "over"}) /\ calls[d].answer = s
    BY <1>1 DEF Is, Running
  <2> QED
    BY <2>1 DEF Answered, Calling, Is
<1>4. Counted'
  <2>1. Counters'
    BY DEF CallsInv, Counted, Counters
  <2>2. ASSUME NEW m \in Methods PROVE CountedFor(m)'
    <3>1. CountedFor(m)
      BY DEF CallsInv, Counted
    <3> QED
      BY <1>2, <1>3, <3>1 DEF CountedFor
  <2> QED
    BY <2>1, <2>2 DEF Counted
<1>5. Noticed'
  BY <1>1 DEF CallsInv, Noticed, Running
<1> QED
  BY <1>1, <1>4, <1>5 DEF CallsInv

\* A message of the client keeps the invariant.
LEMMA RecvStep ==
  ASSUME CallsInv, NEW c \in CallIds, RecvMsg(c)
  PROVE  CallsInv'
<1>1. calls[c] \in CallRecords /\ CallOK(calls[c]) /\ calls[c].pc = "receive"
  BY DEF CallsInv, CallsOK, RecvMsg, Call
<1> DEFINE x == [calls[c] EXCEPT !.pc = "handle"]
           y == [calls[c] EXCEPT !.pc = "return", !.answer = "transport error"]
<1>2. /\ x \in CallRecords /\ x.pc = "handle" /\ x.method = calls[c].method
      /\ x.kind = calls[c].kind /\ x.failed = calls[c].failed
  BY <1>1 DEF CallRecords, Places
<1>3. /\ y \in CallRecords /\ y.pc = "return" /\ y.method = calls[c].method
      /\ y.kind = calls[c].kind /\ y.failed = calls[c].failed
  BY <1>1 DEF CallRecords, Places, Statuses
<1>4. calls' = [calls EXCEPT ![c] = x] \/ calls' = [calls EXCEPT ![c] = y]
  BY DEF RecvMsg
<1> HIDE DEF x, y
<1>5. CallOK(x) /\ CallOK(y) /\ ~y.failed
  BY <1>1, <1>2, <1>3 DEF CallOK
<1>6. Becomes(c, x) \/ Becomes(c, y)
  BY <1>2, <1>3, <1>4, <1>5 DEF Becomes
<1>7. UNCHANGED <<inflight, started, panics, statuses>>
  BY DEF RecvMsg
<1>8. calls[c].pc \in Running /\ x.pc \in Running /\ y.pc \in Running /\ y.method \notin Unary
  BY <1>1, <1>2, <1>3 DEF Running, CallOK
<1>9. CASE Becomes(c, x)
  BY <1>1, <1>2, <1>7, <1>8, <1>9, InnerStep
<1>10. CASE Becomes(c, y)
  BY <1>3, <1>5, <1>7, <1>8, <1>10, InnerStep
<1> QED
  BY <1>6, <1>9, <1>10

\* A call that fails goes to its answer, with the status of an error, or panics.
LEMMA RefuseCall ==
  ASSUME CallsOK, NEW c \in CallIds, calls[c].pc \in {"handle", "source"},
         NEW err, NEW kind \in Kinds,
         calls[c].method \notin Unary => kind = "UNSPECIFIED",
         Refuse(c, err, kind)
  PROVE  \E x : /\ Becomes(c, x) /\ x.method = calls[c].method
                /\ x.pc \in {"answer", "panic"}
<1>1. calls[c] \in CallRecords /\ CallOK(calls[c])
  BY DEF CallsOK
<1>2. PICK status : status = NewAPIErrorFromStdError(err, kind)
  OBVIOUS
<1>3. status # Panicked => status \in ErrorStatuses /\ (status = "UNSPECIFIED" => kind = "MONGO_DB")
  BY <1>2, ErrorStatus
<1>4. ErrorStatuses \subseteq Statuses \ {"transport error"}
  BY DEF ErrorStatuses
<1> DEFINE p == IF status = Panicked THEN "panic" ELSE "answer"
           r == IF status = Panicked THEN "none" ELSE status
           x == [calls[c] EXCEPT !.kind = kind, !.pc = p, !.reply = r, !.failed = TRUE]
<1>5. p \in Places /\ r \in Statuses \cup {"none"} /\ TRUE \in BOOLEAN
  BY <1>3, <1>4 DEF Places
<1>6. calls' = [calls EXCEPT ![c] = x]
  BY <1>2, Zenon DEF Refuse
<1>7. /\ x \in CallRecords /\ x.pc = p /\ x.method = calls[c].method /\ x.kind = kind
      /\ x.reply = r /\ x.failed = TRUE
  <2> HIDE DEF p, r
  <2> QED
    BY <1>1, <1>5, Zenon DEF CallRecords
<1> HIDE DEF x
<1>8. CallOK(x)
  BY <1>1, <1>3, <1>4, <1>7 DEF CallOK
<1> QED
  BY <1>6, <1>7, <1>8, Zenon DEF Becomes

\* A panic turns the call into one the recovery interceptor handles.
LEMMA PanicCall ==
  ASSUME CallsOK, NEW c \in CallIds, calls[c].pc # "idle", Panic(c)
  PROVE  \E x : Becomes(c, x) /\ x.method = calls[c].method /\ x.pc = "panic"
<1>1. calls[c] \in CallRecords /\ CallOK(calls[c])
  BY DEF CallsOK
<1> DEFINE x == [calls[c] EXCEPT !.pc = "panic", !.failed = TRUE]
<1>2. calls' = [calls EXCEPT ![c] = x]
  BY Zenon DEF Panic
<1>3. TRUE \in BOOLEAN
  OBVIOUS
<1>4. /\ x \in CallRecords /\ x.pc = "panic" /\ x.method = calls[c].method
      /\ x.kind = calls[c].kind
  BY <1>1, <1>3, Zenon DEF CallRecords, Places
<1> HIDE DEF x
<1>5. CallOK(x)
  BY <1>1, <1>4 DEF CallOK
<1> QED
  BY <1>2, <1>4, <1>5, Zenon DEF Becomes

\* A request is refused or handed to the data source.
LEMMA HandleCall ==
  ASSUME CallsOK, NEW c \in CallIds, calls[c].pc = "handle", NEW r \in Requests, NEW err,
         Handle(c, r, err), calls[c].method \in Methods
  PROVE  \E x : /\ Becomes(c, x) /\ x.method = calls[c].method
                /\ x.pc \in {"source", "answer", "panic"}
<1>1. calls[c] \in CallRecords /\ CallOK(calls[c])
  BY DEF CallsOK
<1>2. PICK kind \in Kinds :
        kind = KindOfErrors(c, r.kind) /\ (calls[c].method \notin Unary => kind = "UNSPECIFIED")
  BY DEF KindOfErrors, Requests, Kinds
<1>3. CASE err # "none"
  BY <1>2, <1>3, RefuseCall DEF Handle
<1>4. CASE err = "none"
  <2> DEFINE x == [calls[c] EXCEPT !.pc = "source", !.kind = kind]
  <2>1. calls' = [calls EXCEPT ![c] = x]
    BY <1>2, <1>4, Zenon DEF Handle
  <2>2. /\ x \in CallRecords /\ x.pc = "source" /\ x.method = calls[c].method
        /\ x.kind = kind /\ x.failed = calls[c].failed
    BY <1>1, Zenon DEF CallRecords, Places
  <2> HIDE DEF x
  <2>3. CallOK(x)
    BY <1>1, <1>2, <2>2 DEF CallOK, Kinds
  <2> QED
    BY <2>1, <2>2, <2>3, Zenon DEF Becomes
<1> QED
  BY <1>3, <1>4

\* Entering the handler keeps the invariant.
LEMMA StartHandlerStep ==
  ASSUME CallsInv, NEW c \in CallIds, StartHandler(c)
  PROVE  CallsInv'
<1>1. /\ CallsOK /\ calls[c] \in CallRecords /\ CallOK(calls[c]) /\ calls[c].pc = "handle"
      /\ calls[c].method \in Methods
      /\ UNCHANGED <<inflight, started, panics, statuses>>
  BY DEF CallsInv, CallsOK, CallOK, StartHandler, Call
<1>2. CASE ListTables(c)
  <2> DEFINE x == [calls[c] EXCEPT !.pc = "return"]
  <2>1. calls' = [calls EXCEPT ![c] = x] /\ calls[c].method = "ListTables"
    BY <1>2 DEF ListTables
  <2>2. /\ x \in CallRecords /\ x.pc = "return" /\ x.method = calls[c].method
        /\ x.kind = calls[c].kind /\ x.failed = calls[c].failed
    BY <1>1 DEF CallRecords, Places
  <2> HIDE DEF x
  <2>3. Becomes(c, x) /\ ~x.failed /\ x.method \notin Unary /\ calls[c].pc \in Running
        /\ x.pc \in Running
    BY <1>1, <2>1, <2>2 DEF Becomes, CallOK, Unary, Running
  <2> QED
    BY <1>1, <2>2, <2>3, InnerStep
<1>3. ASSUME NEW r \in Requests, DescribeTable(c, r) \/ ListSplits(c, r) \/ ReadSplits(c, r)
      PROVE  CallsInv'
  <2>1. Panic(c) \/ \E err : Handle(c, r, err)
    BY <1>3 DEF DescribeTable, ListSplits, ReadSplits
  <2>2. PICK x : /\ Becomes(c, x) /\ x.method = calls[c].method
                 /\ x.pc \in {"source", "answer", "panic"}
    BY <1>1, <2>1, HandleCall, PanicCall
  <2>3. calls[c].pc \in Running /\ x.pc \in Running /\ calls[c].pc # "return" /\ x.pc # "return"
    BY <1>1, <2>2 DEF Running
  <2> QED
    BY <1>1, <2>2, <2>3, InnerStep
<1> QED
  BY <1>2, <1>3 DEF StartHandler

\* The errors of a data source are translated with the kind that the call keeps.
LEMMA KindAtSource ==
  ASSUME CallsOK, NEW c \in CallIds, calls[c].pc = "source"
  PROVE  /\ calls[c].kind \in Kinds /\ calls[c].method \in Methods
         /\ calls[c].method \notin Unary => calls[c].kind = "UNSPECIFIED"
<1>1. calls[c] \in CallRecords /\ CallOK(calls[c])
  BY DEF CallsOK
<1> QED
  BY <1>1 DEF CallRecords, CallOK

\* An error of the data source keeps the invariant.
LEMMA SourceFailsStep ==
  ASSUME CallsInv, NEW c \in CallIds, SourceFails(c)
  PROVE  CallsInv'
<1>1. /\ CallsOK /\ calls[c].pc = "source"
      /\ UNCHANGED <<inflight, started, panics, statuses>>
  BY DEF CallsInv, SourceFails, Call
<1>2. Panic(c) \/ \E err : Refuse(c, err, calls[c].kind)
  BY DEF SourceFails
<1>3. PICK kind \in Kinds : kind = calls[c].kind /\ (calls[c].method \notin Unary => kind = "UNSPECIFIED")
  BY <1>1, KindAtSource
<1>4. PICK x : Becomes(c, x) /\ x.method = calls[c].method /\ x.pc \in {"answer", "panic"}
  BY <1>1, <1>2, <1>3, RefuseCall, PanicCall
<1>5. calls[c].pc \in Running /\ x.pc \in Running /\ calls[c].pc # "return" /\ x.pc # "return"
  BY <1>1, <1>4 DEF Running
<1> QED
  BY <1>1, <1>4, <1>5, InnerStep

\* The end of the data of the source keeps the invariant.
LEMMA SourceEndsStep ==
  ASSUME CallsInv, NEW c \in CallIds, SourceEnds(c)
  PROVE  CallsInv'
<1>1. /\ calls[c].pc = "source" /\ calls[c] \in CallRecords /\ CallOK(calls[c])
      /\ UNCHANGED <<inflight, started, panics, statuses>>
  BY DEF CallsInv, CallsOK, SourceEnds, Call
<1>2. "OK" \in Statuses \ {"transport error"} /\ ~calls[c].failed
  BY <1>1 DEF Statuses, CallOK
<1>3. CASE calls' = [calls EXCEPT ![c].pc = "answer", ![c].reply = "OK"]
  <2> DEFINE x == [calls[c] EXCEPT !.pc = "answer", !.reply = "OK"]
  <2>1. calls' = [calls EXCEPT ![c] = x]
    BY <1>3, Zenon
  <2>2. /\ x \in CallRecords /\ x.pc = "answer" /\ x.method = calls[c].method /\ x.reply = "OK"
        /\ x.kind = calls[c].kind /\ x.failed = calls[c].failed
    BY <1>1, <1>2, Zenon DEF CallRecords, Places
  <2> HIDE DEF x
  <2>3. Becomes(c, x) /\ x.pc \in Running /\ calls[c].pc \in Running
        /\ x.pc # "return" /\ calls[c].pc # "return"
    BY <1>1, <1>2, <2>1, <2>2 DEF Becomes, CallOK, Running
  <2> QED
    BY <1>1, <2>2, <2>3, InnerStep
<1>4. CASE calls[c].method \notin Unary /\ calls' = [calls EXCEPT ![c].pc = "return"]
  <2> DEFINE x == [calls[c] EXCEPT !.pc = "return"]
  <2>1. calls' = [calls EXCEPT ![c] = x]
    BY <1>4
  <2>2. /\ x \in CallRecords /\ x.pc = "return" /\ x.method = calls[c].method
        /\ x.kind = calls[c].kind /\ x.failed = calls[c].failed
    BY <1>1 DEF CallRecords, Places
  <2> HIDE DEF x
  <2>3. Becomes(c, x) /\ x.pc \in Running /\ calls[c].pc \in Running
    BY <1>1, <1>2, <2>1, <2>2 DEF Becomes, CallOK, Running
  <2> QED
    BY <1>1, <1>2, <1>4, <2>2, <2>3, InnerStep
<1> QED
  BY <1>3, <1>4 DEF SourceEnds
-----------------------------------------------------------------------------
(* Calls, and how many there are *)

\* How many members a finite set has.  The theorems that say so are used at the end of
\* the module only (SizesHold), which keeps them out of the steps before.
Sizes ==
  /\ IsFiniteSet({}) /\ Cardinality({}) = 0
  /\ \A S : IsFiniteSet(S) => Cardinality(S) \in Nat
  /\ \A S, c : IsFiniteSet(S) /\ c \notin S =>
       IsFiniteSet(S \cup {c}) /\ Cardinality(S \cup {c}) = Cardinality(S) + 1
  /\ \A S, c : IsFiniteSet(S) /\ c \in S =>
       IsFiniteSet(S \ {c}) /\ Cardinality(S \ {c}) = Cardinality(S) - 1

\* One more in a finite set of calls, or one less.
LEMMA OneMore ==
  ASSUME Sizes, NEW S, NEW c, IsFiniteSet(S), c \notin S
  PROVE  IsFiniteSet(S \cup {c}) /\ Cardinality(S \cup {c}) = Cardinality(S) + 1
BY Zenon DEF Sizes

\* Removing an element takes one off the size of a finite set.
LEMMA OneLess ==
  ASSUME Sizes, NEW S, NEW c, IsFiniteSet(S), c \in S
  PROVE  IsFiniteSet(S \ {c}) /\ Cardinality(S \ {c}) = Cardinality(S) - 1
BY Zenon DEF Sizes

\* A step inside of a call that counts a status, which is the answer if it is unary.
LEMMA StatusStep ==
  ASSUME Sizes, CallsInv, NEW c \in CallIds, NEW x, Becomes(c, x), NEW s \in Statuses,
         calls[c].pc \in Running \ {"return"}, x.pc \in Running,
         x.method = calls[c].method, x.method \in Methods,
         x.method \in Unary => x.pc = "return" /\ x.answer = s,
         x.failed /\ x.pc = "return" => s # "OK",
         OneMoreStatus(x.method, s),
         UNCHANGED <<inflight, started, panics>>
  PROVE  CallsInv'
<1>1. CallsOK' /\ calls'[c] = x /\ \A d \in CallIds \ {c} : calls'[d] = calls[d]
  BY BecomesOK DEF CallsInv
<1>2. \A m \in Methods :
        Calling(m, Running)' = Calling(m, Running) /\ Calling(m, {"over"})' = Calling(m, {"over"})
  <2>1. calls[c].pc \in Running /\ calls'[c].pc \in Running /\ calls'[c].method = calls[c].method
    BY <1>1, Zenon
  <2> QED
    BY <1>1, <2>1, RunningKept, Zenon
<1>3. /\ statuses' \in [Methods -> [Statuses -> Nat]] /\ statuses \in [Methods -> [Statuses -> Nat]]
      /\ statuses'[x.method][s] = statuses[x.method][s] + 1
      /\ \A n \in Methods, t \in Statuses :
           n # x.method \/ t # s => statuses'[n][t] = statuses[n][t]
      /\ statuses'[x.method][s] > 0
      /\ \A n \in Methods, t \in Statuses : statuses[n][t] > 0 => statuses'[n][t] > 0
  <2>1. statuses \in [Methods -> [Statuses -> Nat]]
    BY DEF CallsInv, Counted, Counters
  <2> QED
    BY <2>1, StatusCount, Zenon
<1>4. ASSUME NEW m \in Unary, NEW t \in Statuses \ {"transport error"}
      PROVE  IsFiniteSet(Answered(m, t)') /\ statuses'[m][t] = Cardinality(Answered(m, t)')
  <2>0. /\ m \in Methods /\ IsFiniteSet(Answered(m, t))
        /\ statuses[m][t] = Cardinality(Answered(m, t))
    BY DEF CallsInv, Counted, CountedFor, Methods
  <2>1. CASE m = x.method /\ t = s
    <3>0. /\ calls'[c].method = m /\ calls'[c].pc \in {"return", "over"} /\ calls'[c].answer = t
          /\ calls[c].pc \notin {"return", "over"}
      BY <1>1, <2>1 DEF Running
    <3>1. Answered(m, t)' = Answered(m, t) \cup {c} /\ c \notin Answered(m, t)
      BY <1>1, <3>0, Zenon DEF Answered, Calling
    <3>2. /\ IsFiniteSet(Answered(m, t) \cup {c})
          /\ Cardinality(Answered(m, t) \cup {c}) = Cardinality(Answered(m, t)) + 1
      BY <2>0, <3>1, OneMore
    <3> QED
      BY <1>3, <2>0, <2>1, <3>1, <3>2
  <2>2. CASE ~(m = x.method /\ t = s)
    <3>1. \A d \in CallIds : Is(calls'[d], m, {"return", "over"}) /\ calls'[d].answer = t
                         <=> Is(calls[d], m, {"return", "over"}) /\ calls[d].answer = t
      BY <1>1, <2>2 DEF Is, Running
    <3>2. Answered(m, t)' = Answered(m, t)
      BY <3>1 DEF Answered, Calling, Is
    <3> QED
      BY <1>3, <2>0, <2>2, <3>2
  <2> QED
    BY <2>1, <2>2
<1>5. Counted'
  <2>1. Counters'
    BY <1>3 DEF CallsInv, Counted, Counters
  <2>2. ASSUME NEW m \in Methods PROVE CountedFor(m)'
    <3>1. CountedFor(m)
      BY DEF CallsInv, Counted
    <3> QED
      BY <1>2, <1>4, <3>1 DEF CountedFor
  <2> QED
    BY <2>1, <2>2 DEF Counted
<1>6. Noticed'
  <2> SUFFICES ASSUME NEW d \in CallIds, calls'[d].failed, calls'[d].pc \in {"return", "over"}
               PROVE  \/ panics[calls'[d].method] > 0
                      \/ \E t \in Statuses \ {"OK"} : statuses'[calls'[d].method][t] > 0
    BY DEF Noticed
  <2>1. CASE d = c
    <3>1. calls'[d] = x /\ x.failed /\ x.pc \in {"return", "over"}
      BY <1>1, <2>1, Zenon
    <3>2. s \in Statuses \ {"OK"}
      BY <3>1 DEF Running
    <3> QED
      BY <1>3, <3>1, <3>2, Zenon
  <2>2. CASE d # c
    <3>1. calls'[d] = calls[d] /\ calls[d].method \in Methods
      BY <1>1, <2>2 DEF CallsInv, CallsOK, CallOK
    <3>2. \A t \in Statuses : statuses[calls[d].method][t] > 0 => statuses'[calls[d].method][t] > 0
      BY <1>3, <3>1, Zenon
    <3> QED
      BY <3>1, <3>2, Zenon DEF CallsInv, Noticed
  <2> QED
    BY <2>1, <2>2
<1> QED
  BY <1>1, <1>5, <1>6 DEF CallsInv

\* Starting a call, which raises the inflight gauge, keeps the invariant.
LEMMA BeginCallStep ==
  ASSUME Sizes, CallsInv, NEW c \in CallIds, NEW m \in Methods, BeginCall(c, m)
  PROVE  CallsInv'
<1> DEFINE x == [calls[c] EXCEPT !.pc = IF m \in Unary THEN "handle" ELSE "receive", !.method = m]
<1>1. calls[c] \in CallRecords /\ CallOK(calls[c]) /\ calls[c].pc = "idle"
  BY DEF CallsInv, CallsOK, BeginCall, Call
<1>2. x \in CallRecords /\ x.method = m /\ x.pc = (IF m \in Unary THEN "handle" ELSE "receive")
      /\ x.kind = calls[c].kind /\ x.failed = calls[c].failed
  BY <1>1, Zenon DEF CallRecords, Places
<1>3. calls' = [calls EXCEPT ![c] = x]
  BY Zenon DEF BeginCall
<1> HIDE DEF x
<1>4. Becomes(c, x) /\ ~x.failed
  BY <1>1, <1>2, <1>3 DEF Becomes, CallOK
<1>5. CallsOK' /\ calls'[c] = x /\ \A d \in CallIds \ {c} : calls'[d] = calls[d]
  BY <1>4, BecomesOK DEF CallsInv
<1>6. /\ Counters
      /\ started' = [started EXCEPT ![m] = @ + 1] /\ inflight' = [inflight EXCEPT ![m] = @ + 1]
      /\ UNCHANGED <<panics, statuses>>
  BY DEF CallsInv, Counted, BeginCall
<1>7. Counters'
  BY <1>6 DEF Counters
<1>8. ASSUME NEW n \in Methods PROVE CountedFor(n)'
  <2>1. CountedFor(n)
    BY DEF CallsInv, Counted
  <2>0. /\ ~Is(calls[c], n, {"over"}) /\ ~Is(calls'[c], n, {"over"})
        /\ ~Is(calls[c], n, Running) /\ (Is(calls'[c], n, Running) <=> n = m)
    BY <1>1, <1>2, <1>5 DEF Is, Running
  <2>2. Calling(n, {"over"})' = Calling(n, {"over"})
    BY <1>5, <2>0, CallingChange
  <2>3. \A s : Answered(n, s)' = Answered(n, s)
    BY <1>1, <1>2, <1>5 DEF Answered, Calling
  <2>4. CASE n = m
    <3>1. Calling(n, Running)' = Calling(n, Running) \cup {c} /\ c \notin Calling(n, Running)
      BY <1>5, <2>0, <2>4, CallingChange
    <3>2. /\ IsFiniteSet(Calling(n, Running)')
          /\ Cardinality(Calling(n, Running)') = Cardinality(Calling(n, Running)) + 1
      BY <2>1, <3>1, OneMore DEF CountedFor
    <3>3. /\ inflight[n] \in Nat /\ started[n] \in Nat
          /\ inflight'[n] = inflight[n] + 1 /\ started'[n] = started[n] + 1
      BY <1>6, <2>4 DEF Counters
    <3>4. Cardinality(Calling(n, {"over"})) \in Nat
      BY <2>1, Zenon DEF CountedFor, Sizes
    <3>5. started[n] = inflight[n] + Cardinality(Calling(n, {"over"}))
      BY <2>1 DEF CountedFor
    <3>6. started'[n] = inflight'[n] + Cardinality(Calling(n, {"over"}))
      BY <3>3, <3>4, <3>5
    <3> QED
      BY <1>6, <2>1, <2>2, <2>3, <3>2, <3>3, <3>6 DEF CountedFor
  <2>5. CASE n # m
    <3>1. Calling(n, Running)' = Calling(n, Running)
      BY <1>5, <2>0, <2>5, CallingChange
    <3>2. inflight'[n] = inflight[n] /\ started'[n] = started[n]
      BY <1>6, <2>5 DEF Counters
    <3> QED
      BY <1>6, <2>1, <2>2, <2>3, <3>1, <3>2 DEF CountedFor
  <2> QED
    BY <2>4, <2>5
<1>9. Noticed'
  BY <1>4, <1>5, <1>6 DEF CallsInv, Noticed
<1> QED
  BY <1>5, <1>7, <1>8, <1>9 DEF CallsInv, Counted

\* Ending a call, which lowers the gauge and counts the status, keeps the invariant.
LEMMA EndCallStep ==
  ASSUME Sizes, CallsInv, NEW c \in CallIds, EndCall(c)
  PROVE  CallsInv'
<1>1. calls[c] \in CallRecords /\ CallOK(calls[c]) /\ calls[c].pc \in {"return", "panic"}
  BY DEF CallsInv, CallsOK, EndCall, Call
<1>2. PICK m \in Methods, a \in Statuses \cup {"none"} :
        /\ m = calls[c].method
        /\ a = IF calls[c].pc = "panic" THEN "transport error" ELSE calls[c].answer
  BY <1>1 DEF CallOK, CallRecords, Statuses
<1> DEFINE x == [calls[c] EXCEPT !.pc = "over", !.reply = "none", !.answer = a]
<1>3. x \in CallRecords /\ x.method = m /\ x.pc = "over" /\ x.answer = a
      /\ x.kind = calls[c].kind /\ x.failed = calls[c].failed
  BY <1>1, <1>2 DEF CallRecords, Places
<1>4. calls' = [calls EXCEPT ![c] = x]
  <2>1. CASE calls[c].pc = "panic"
    BY <1>2, <2>1 DEF EndCall, Call
  <2>2. CASE calls[c].pc # "panic"
    <3>1. calls' = [calls EXCEPT ![c] = [calls[c] EXCEPT !.pc = "over", !.reply = "none"]]
      BY <2>2, Zenon DEF EndCall, Call
    <3>2. [calls[c] EXCEPT !.pc = "over", !.reply = "none"] = x
      BY <1>1, <1>2, <2>2, Zenon DEF CallRecords
    <3> QED
      BY <3>1, <3>2, Zenon
  <2> QED
    BY <2>1, <2>2
<1> HIDE DEF x
<1>5. Becomes(c, x)
  BY <1>1, <1>2, <1>3, <1>4 DEF Becomes, CallOK, Statuses
<1>6. CallsOK' /\ calls'[c] = x /\ \A d \in CallIds \ {c} : calls'[d] = calls[d]
  BY <1>5, BecomesOK DEF CallsInv
<1>7. /\ Counters /\ CountedFor(m)
      /\ inflight' = [inflight EXCEPT ![m] = @ - 1]
      /\ panics' = IF calls[c].pc = "panic" THEN [panics EXCEPT ![m] = @ + 1] ELSE panics
      /\ UNCHANGED <<started, statuses>>
  BY <1>2 DEF CallsInv, Counted, EndCall, Call
<1>8. /\ Calling(m, Running)' = Calling(m, Running) \ {c} /\ c \in Calling(m, Running)
      /\ Calling(m, {"over"})' = Calling(m, {"over"}) \cup {c} /\ c \notin Calling(m, {"over"})
  <2>1. /\ Is(calls[c], m, Running) /\ ~Is(calls'[c], m, Running)
        /\ ~Is(calls[c], m, {"over"}) /\ Is(calls'[c], m, {"over"})
    BY <1>1, <1>2, <1>3, <1>6 DEF Is, Running
  <2> QED
    BY <1>6, <2>1, CallingChange
<1>9. /\ IsFiniteSet(Calling(m, Running)') /\ IsFiniteSet(Calling(m, {"over"})')
      /\ Cardinality(Calling(m, Running)') = Cardinality(Calling(m, Running)) - 1
      /\ Cardinality(Calling(m, {"over"})') = Cardinality(Calling(m, {"over"})) + 1
      /\ Cardinality(Calling(m, Running)') \in Nat
      /\ Cardinality(Calling(m, {"over"})) \in Nat
  <2>1. IsFiniteSet(Calling(m, Running)) /\ IsFiniteSet(Calling(m, {"over"}))
    BY <1>7 DEF CountedFor
  <2>2. /\ IsFiniteSet(Calling(m, Running)')
        /\ Cardinality(Calling(m, Running)') = Cardinality(Calling(m, Running)) - 1
    BY <1>8, <2>1, OneLess
  <2>3. /\ IsFiniteSet(Calling(m, {"over"})')
        /\ Cardinality(Calling(m, {"over"})') = Cardinality(Calling(m, {"over"})) + 1
    BY <1>8, <2>1, OneMore
  <2> QED
    BY <2>1, <2>2, <2>3, Zenon DEF Sizes
<1>10. inflight[m] \in Nat /\ started[m] \in Nat /\ inflight'[m] = inflight[m] - 1
       /\ \A n \in Methods : n # m => inflight'[n] = inflight[n]
  BY <1>2, <1>7 DEF Counters
<1>11. inflight'[m] = Cardinality(Calling(m, Running)')
       /\ started[m] = inflight'[m] + Cardinality(Calling(m, {"over"})')
  <2>1. /\ inflight[m] = Cardinality(Calling(m, Running))
        /\ started[m] = inflight[m] + Cardinality(Calling(m, {"over"}))
    BY <1>7 DEF CountedFor
  <2>2. /\ Cardinality(Calling(m, Running)') = Cardinality(Calling(m, Running)) - 1
        /\ Cardinality(Calling(m, {"over"})') = Cardinality(Calling(m, {"over"})) + 1
        /\ Cardinality(Calling(m, {"over"})) \in Nat
    BY <1>9
  <2>3. inflight[m] \in Nat /\ inflight'[m] = inflight[m] - 1
    BY <1>10, Zenon
  <2> QED
    <3>1. inflight'[m] = Cardinality(Calling(m, Running)')
      BY <2>1, <2>2, <2>3, Zenon
    <3>2. \A u, v \in Nat : u + v = (u - 1) + (v + 1)
      OBVIOUS
    <3>3. inflight[m] + Cardinality(Calling(m, {"over"})) = (inflight[m] - 1) + (Cardinality(Calling(m, {"over"})) + 1)
      BY <2>2, <2>3, <3>2, Zenon
    <3> QED
      BY <2>1, <2>2, <2>3, <3>1, <3>3, Zenon
<1>12. Counters'
  <2>1. inflight'[m] \in Nat
    BY <1>9, <1>11
  <2>2. inflight \in [Methods -> Nat] /\ inflight' = [inflight EXCEPT ![m] = inflight'[m]]
    BY <1>7 DEF Counters
  <2>3. inflight' \in [Methods -> Nat]
    BY <2>1, <2>2
  <2>4. panics' \in [Methods -> Nat]
    BY <1>7 DEF Counters
  <2> QED
    BY <1>7, <2>3, <2>4 DEF Counters
<1>13. ASSUME NEW n \in Methods PROVE CountedFor(n)'
  <2>1. CountedFor(n)
    BY DEF CallsInv, Counted
  <2>2. \A s \in Statuses \ {"transport error"} : Answered(n, s)' = Answered(n, s)
    <3> TAKE s \in Statuses \ {"transport error"}
    <3>1. Is(calls'[c], n, {"return", "over"}) /\ calls'[c].answer = s
            <=> Is(calls[c], n, {"return", "over"}) /\ calls[c].answer = s
      BY <1>1, <1>2, <1>3, <1>6 DEF Is
    <3>2. \A d \in CallIds : Is(calls'[d], n, {"return", "over"}) /\ calls'[d].answer = s
                         <=> Is(calls[d], n, {"return", "over"}) /\ calls[d].answer = s
      BY <1>6, <3>1 DEF Is
    <3> QED
      BY <3>2 DEF Answered, Calling, Is
  <2>3. CASE n = m
    BY <1>7, <1>9, <1>11, <2>1, <2>2, <2>3 DEF CountedFor
  <2>4. CASE n # m
    <3>1. Calling(n, Running)' = Calling(n, Running) /\ Calling(n, {"over"})' = Calling(n, {"over"})
      <4>1. /\ ~Is(calls[c], n, Running) /\ ~Is(calls'[c], n, Running)
            /\ ~Is(calls[c], n, {"over"}) /\ ~Is(calls'[c], n, {"over"})
        BY <1>2, <1>3, <1>6, <2>4 DEF Is
      <4> QED
        BY <1>6, <4>1, CallingChange
    <3> QED
      BY <1>7, <1>10, <2>1, <2>2, <2>4, <3>1 DEF CountedFor
  <2> QED
    BY <2>3, <2>4
<1>14. Noticed'
  <2>0. /\ panics \in [Methods -> Nat]
        /\ panics' = IF calls[c].pc = "panic" THEN [panics EXCEPT ![m] = @ + 1] ELSE panics
    BY <1>7 DEF Counters
  <2>1. \A n \in Methods : panics[n] > 0 => panics'[n] > 0
    BY <2>0
  <2>2. calls[c].pc = "panic" => panics'[m] > 0
    BY <2>0
  <2> SUFFICES ASSUME NEW d \in CallIds, calls'[d].failed, calls'[d].pc \in {"return", "over"}
               PROVE  \/ panics'[calls'[d].method] > 0
                      \/ \E t \in Statuses \ {"OK"} : statuses[calls'[d].method][t] > 0
    BY <1>7 DEF Noticed
  <2>3. calls'[d].method \in Methods
    BY <1>6 DEF CallsOK, CallOK
  <2>4. CASE d = c /\ calls[c].pc = "panic"
    BY <1>3, <1>6, <2>2, <2>4
  <2>5. CASE d = c /\ calls[c].pc # "panic"
    <3>1. calls[c].failed /\ calls[c].pc \in {"return", "over"} /\ calls'[d].method = calls[c].method
      BY <1>1, <1>2, <1>3, <1>6, <2>5
    <3>2. \/ panics[calls[c].method] > 0
          \/ \E t \in Statuses \ {"OK"} : statuses[calls[c].method][t] > 0
      BY <3>1, Zenon DEF CallsInv, Noticed
    <3> QED
      BY <2>1, <2>3, <3>1, <3>2, Zenon
  <2>6. CASE d # c
    <3>1. calls'[d] = calls[d]
      BY <1>6, <2>6, Zenon
    <3> QED
      BY <2>1, <2>3, <3>1, Zenon DEF CallsInv, Noticed
  <2> QED
    BY <2>4, <2>5, <2>6
<1> QED
  BY <1>6, <1>12, <1>13, <1>14 DEF CallsInv, Counted

\* A message sent on a stream keeps the invariant.
LEMMA SourceSendsStep ==
  ASSUME Sizes, CallsInv, NEW c \in CallIds, SourceSends(c)
  PROVE  CallsInv'
<1>1. /\ CallsOK /\ calls[c].pc = "source" /\ calls[c].method \notin Unary
      /\ calls[c] \in CallRecords /\ CallOK(calls[c])
      /\ UNCHANGED <<inflight, started, panics>>
  BY DEF CallsInv, CallsOK, SourceSends, Call
<1>2. PICK m \in Methods, kind \in Kinds :
        m = calls[c].method /\ kind = calls[c].kind /\ kind = "UNSPECIFIED"
  BY <1>1, KindAtSource
<1>3. "OK" \in Statuses /\ "transport error" \in Statuses
  BY DEF Statuses
<1>4. CASE /\ calls' = [calls EXCEPT ![c].answer = "OK"]
           /\ maybeRegisterStatusCode(m, "OK")
  <2> DEFINE x == [calls[c] EXCEPT !.answer = "OK"]
  <2>1. calls' = [calls EXCEPT ![c] = x] /\ OneMoreStatus(m, "OK")
    BY <1>4 DEF maybeRegisterStatusCode, OneMoreStatus
  <2>2. /\ x \in CallRecords /\ x.pc = "source" /\ x.method = m
        /\ x.kind = calls[c].kind /\ x.failed = calls[c].failed
    BY <1>1, <1>2, <1>3 DEF CallRecords
  <2> HIDE DEF x
  <2>3. Becomes(c, x) /\ x.pc \in Running /\ calls[c].pc \in Running \ {"return"}
    BY <1>1, <1>2, <2>1, <2>2, Zenon DEF Becomes, CallOK, Running
  <2> QED
    BY <1>1, <1>2, <1>3, <2>1, <2>2, <2>3, StatusStep
<1>5. CASE Refuse(c, "other", kind) /\ maybeRegisterStatusCode(m, "transport error")
  <2>1. PICK x : Becomes(c, x) /\ x.method = calls[c].method /\ x.pc \in {"answer", "panic"}
    BY <1>1, <1>2, <1>5, RefuseCall
  <2>2. OneMoreStatus(m, "transport error")
    BY <1>5 DEF maybeRegisterStatusCode, OneMoreStatus
  <2>3. x.pc \in Running /\ calls[c].pc \in Running \ {"return"}
    BY <1>1, <2>1 DEF Running
  <2> QED
    BY <1>1, <1>2, <1>3, <2>1, <2>2, <2>3, StatusStep
<1> QED
  BY <1>2, <1>4, <1>5 DEF SourceSends

\* The answer is counted as it leaves.
LEMMA AnswerCall ==
  ASSUME Sizes, CallsInv, NEW c \in CallIds, calls[c].pc = "answer", NEW s \in Statuses,
         calls' = [calls EXCEPT ![c].pc = "return", ![c].answer = s],
         maybeRegisterStatusCode(calls[c].method, s),
         s = calls[c].reply \/ (calls[c].method \notin Unary /\ s = "transport error"),
         UNCHANGED <<inflight, started, panics>>
  PROVE  CallsInv'
<1>1. calls[c] \in CallRecords /\ CallOK(calls[c]) /\ calls[c].method \in Methods
  BY DEF CallsInv, CallsOK, CallOK
<1> DEFINE x == [calls[c] EXCEPT !.pc = "return", !.answer = s]
<1>2. calls' = [calls EXCEPT ![c] = x]
  OBVIOUS
<1>3. OneMoreStatus(calls[c].method, s)
  BY DEF maybeRegisterStatusCode, OneMoreStatus, Statuses
<1>4. /\ x \in CallRecords /\ x.pc = "return" /\ x.method = calls[c].method /\ x.answer = s
      /\ x.kind = calls[c].kind /\ x.failed = calls[c].failed
  BY <1>1 DEF CallRecords, Places
<1> HIDE DEF x
<1>5. x.failed => s \in Statuses \ {"OK"} /\ (s = "UNSPECIFIED" => x.kind = "MONGO_DB" /\ x.method \in Unary)
  BY <1>1, <1>4 DEF CallOK, ErrorStatuses
<1>6. Becomes(c, x) /\ x.pc \in Running /\ calls[c].pc \in Running \ {"return"}
  BY <1>1, <1>2, <1>4, <1>5 DEF Becomes, CallOK, Running
<1> QED
  BY <1>1, <1>3, <1>4, <1>5, <1>6, StatusStep

\* The answer of a unary call keeps the invariant.
LEMMA AnswerStep ==
  ASSUME Sizes, CallsInv, NEW c \in CallIds, Answer(c)
  PROVE  CallsInv'
<1>1. /\ CallsOK /\ calls[c].pc = "answer" /\ CallOK(calls[c])
      /\ UNCHANGED <<inflight, started, panics>>
  BY DEF CallsInv, CallsOK, Answer, Call
<1>2. calls[c].reply \in Statuses /\ "transport error" \in Statuses
  BY <1>1 DEF CallOK, Statuses
<1>3. CASE Panic(c) /\ UNCHANGED statuses
  <2>1. PICK x : Becomes(c, x) /\ x.method = calls[c].method /\ x.pc = "panic"
    BY <1>1, <1>3, PanicCall
  <2>2. x.pc \in Running /\ calls[c].pc \in Running /\ x.pc # "return" /\ calls[c].pc # "return"
    BY <1>1, <2>1 DEF Running
  <2> QED
    BY <1>1, <1>3, <2>1, <2>2, InnerStep
<1>4. CASE /\ calls' = [calls EXCEPT ![c].pc = "return", ![c].answer = calls[c].reply]
           /\ maybeRegisterStatusCode(calls[c].method, calls[c].reply)
  BY <1>1, <1>2, <1>4, AnswerCall
<1>5. CASE /\ calls[c].method \notin Unary
           /\ calls' = [calls EXCEPT ![c].pc = "return", ![c].answer = "transport error"]
           /\ maybeRegisterStatusCode(calls[c].method, "transport error")
  BY <1>1, <1>2, <1>5, AnswerCall
<1> QED
  BY <1>3, <1>4, <1>5 DEF Answer

\* No call is counted before the first one.
LEMMA CallsInitInv ==
  ASSUME Sizes PROVE CallsInit => CallsInv
<1> SUFFICES ASSUME CallsInit PROVE CallsInv
  OBVIOUS
<1>1. \A c \in CallIds : calls[c] = IdleCall
  BY DEF CallsInit
<1>2. FALSE \in BOOLEAN /\ IdleCall \in CallRecords
  BY DEF IdleCall, CallRecords, Places
<1>3. CallOK(IdleCall) /\ IdleCall.pc = "idle" /\ ~IdleCall.failed
  BY DEF IdleCall, CallOK
<1>4. CallsOK
  BY <1>1, <1>2, <1>3 DEF CallsOK, CallsInit
<1>5. \A m, s : Calling(m, Running) = {} /\ Calling(m, {"over"}) = {} /\ Answered(m, s) = {}
  BY <1>1, <1>3 DEF Calling, Answered, Running
<1>6. IsFiniteSet({}) /\ Cardinality({}) = 0
  BY Zenon DEF Sizes
<1>7. Counters /\ \A m \in Methods : /\ inflight[m] = 0 /\ started[m] = 0
                                     /\ \A s \in Statuses : statuses[m][s] = 0
  BY DEF CallsInit, Counters
<1>8. \A m \in Methods : CountedFor(m)
  <2>1. 0 = 0 + 0
    OBVIOUS
  <2> TAKE m \in Methods
  <2>2. Calling(m, Running) = {} /\ Calling(m, {"over"}) = {} /\ \A s : Answered(m, s) = {}
    BY <1>5
  <2> QED
    BY <1>6, <1>7, <2>1, <2>2, Zenon DEF CountedFor
<1> QED
  BY <1>1, <1>3, <1>4, <1>7, <1>8 DEF CallsInv, Counted, Noticed

\* Every step of the calls keeps the invariant.
LEMMA CallsNextInv ==
  ASSUME Sizes PROVE CallsInv /\ [CallsNext]_callVars => CallsInv'
<1> SUFFICES ASSUME CallsInv, [CallsNext]_callVars PROVE CallsInv'
  OBVIOUS
<1>1. CASE UNCHANGED callVars
  <2>1. \A m, pcs : Calling(m, pcs)' = Calling(m, pcs)
    BY <1>1 DEF callVars, Calling
  <2>2. \A m, s : Answered(m, s)' = Answered(m, s)
    BY <1>1 DEF callVars, Answered, Calling
  <2>3. \A m \in Methods : CountedFor(m) => CountedFor(m)'
    BY <1>1, <2>1, <2>2 DEF callVars, CountedFor
  <2>4. Counters' /\ CallsOK' /\ Noticed'
    BY <1>1 DEF callVars, CallsInv, Counted, Counters, CallsOK, Noticed
  <2> QED
    BY <2>3, <2>4 DEF CallsInv, Counted
<1> QED
  BY <1>1, BeginCallStep, RecvStep, StartHandlerStep, SourceFailsStep, SourceSendsStep,
     SourceEndsStep, AnswerStep, EndCallStep DEF CallsNext

\* What the invariant says of failures.
LEMMA FailuresSeen == CallsInv => FailureIsReported
BY DEF CallsInv, CallsOK, CallOK, FailureIsReported

\* What the invariant says of the metrics.
LEMMA CountsSeen == CallsInv => CallsAreCounted
<1> SUFFICES ASSUME CallsInv, NEW m \in Methods
             PROVE  /\ CountedFor(m)
                    /\ \A c \in Failures(m) :
                         panics[m] > 0 \/ \E s \in Statuses \ {"OK"} : statuses[m][s] > 0
  BY DEF CallsAreCounted, CountedFor, Running, Answered
<1>1. CountedFor(m)
  BY DEF CallsInv, Counted
<1>2. ASSUME NEW c \in Failures(m)
      PROVE  panics[m] > 0 \/ \E s \in Statuses \ {"OK"} : statuses[m][s] > 0
  BY <1>2 DEF CallsInv, Noticed, Failures, Calling
<1> QED
  BY <1>1, <1>2

INSTANCE FiniteSetTheorems

\* The facts about the sizes of finite sets, from the library.
LEMMA SizesHold == Sizes
BY FS_EmptySet, FS_CardinalityType, FS_AddElement, FS_RemoveElement DEF Sizes

\* What a call knows of its failure and what is counted of it are as its place tells
\* (service_connector.go, grpc_metrics.go).
THEOREM CallsInvariant == CallsSpec => []CallsInv
<1>1. CallsInit => CallsInv
  BY SizesHold, CallsInitInv
<1>2. CallsInv /\ [CallsNext]_callVars => CallsInv'
  BY SizesHold, CallsNextInv
<1> QED
  BY <1>1, <1>2, PTL DEF CallsSpec

\* A call that failed never looks like a success, whichever handler, data source or
\* translation of errors it went through (NewAPIErrorFromStdError, the interceptors
\* of grpc_metrics.go).
THEOREM FailuresReported == CallsSpec => []FailureIsReported
<1>1. CallsInv => FailureIsReported
  BY FailuresSeen
<1> QED
  BY <1>1, CallsInvariant, PTL

\* The metrics agree with the calls, however the calls interleave and wherever they
\* panic (grpc_metrics.go).
THEOREM CallsCounted == CallsSpec => []CallsAreCounted
<1>1. CallsInv => CallsAreCounted
  BY CountsSeen
<1> QED
  BY <1>1, CallsInvariant, PTL
=============================================================================
